---------------------------- MODULE BatchesProofs ----------------------------
(***************************************************************************)
(* For every batch size, timeout, polling interval and request timeout:    *)
(* Batches is well typed, returns each request's own text or nothing, does *)
(* not wait longer than promised, gives up no batch that ended in time,    *)
(* and takes the winner of a vote from its largest class.                  *)
(***************************************************************************)
EXTENDS Batches, FiniteSetTheorems, WellFoundedInduction, TLAPS

\* What waits end by: a sleep, or a request, and not much after the deadline.
WaitInv ==
    /\ phase = "creating" => now = 0
    /\ phase = "sleeping" => now + timer <= Timeout + PollInterval
    /\ phase \in {"asking", "answered"} => now + timer <= Timeout + PollInterval + HttpTimeout

\* The status in a reply was read at most a request's time ago, so a batch it
\* found running has ended since then or has yet to end.
StatusInv ==
    /\ ~BatchEnded(job) => endedAt = Horizon
    /\ phase = "answered" /\ ~seen => endedAt + HttpTimeout >= now + timer
    /\ why = "deadline" => phase = "raised" /\ now >= Timeout

IInv == TypeOK /\ WaitInv /\ StatusInv /\ Aligned /\ EndedInTime
-----------------------------------------------------------------------------
(* What the operators return. *)

\* Any set of naturals has the least element that Min chooses.
LEMMA Least ==
  ASSUME NEW T \in SUBSET Nat, T # {}
  PROVE  Min(T) \in T /\ \A y \in T : Min(T) <= y
<1> DEFINE less == {p \in Nat \X Nat : p[1] < p[2]}
<1>1. IsWellFoundedOn(less, Nat)
  BY NatLessThanWellFounded DEF OpToRel
<1> HIDE DEF less
<1>2. PICK x \in T : \A y \in T : ~(<<y, x>> \in less)
  BY <1>1, WFMin
<1>3. \A y \in T : x <= y
  <2> SUFFICES ASSUME NEW y \in T
               PROVE  x <= y
    OBVIOUS
  <2>1. <<y, x>> \notin less
    BY <1>2
  <2>2. ~(y < x)
    BY <2>1 DEF less
  <2> QED
    BY <2>2
<1> QED
  BY <1>3 DEF Min

LEMMA CountRequests == IsFiniteSet(Requests) /\ Cardinality(Requests) = Count
<1>1. 1 \in Int /\ Count \in Int /\ Count >= 1
  BY BatchAssumption DEF BatchAssumption
<1>2. IsFiniteSet(1 .. Count) /\ Cardinality(1 .. Count) = Count
  BY <1>1, FS_Interval
<1> QED
  BY <1>2 DEF Requests

LEMMA VotesType ==
  ASSUME NEW v, NEW i
  PROVE  Votes(v, i) \in 0 .. Count
<1> DEFINE agree == {k \in Requests : Normal[v[k]] = Normal[v[i]]}
<1>1. IsFiniteSet(agree) /\ Cardinality(agree) <= Count
  BY CountRequests, FS_Subset, agree \in SUBSET Requests
<1>2. Cardinality(agree) \in Nat
  BY <1>1, FS_CardinalityType
<1> QED
  BY <1>1, <1>2, BatchAssumption DEF Votes, BatchAssumption

\* tally_votes has a winner: some response has the most votes, and of those that
\* have as many it is the first.
LEMMA WinnerLeads ==
  ASSUME NEW v
  PROVE  /\ Winner(v) \in Requests
         /\ \A i \in Requests : Votes(v, i) <= Votes(v, Winner(v))
         /\ \A i \in Requests : Votes(v, i) = Votes(v, Winner(v)) => Winner(v) <= i
<1> DEFINE T == {Count - Votes(v, i) : i \in Requests}
           leaders == {i \in Requests : \A j \in Requests : Votes(v, j) <= Votes(v, i)}
<1> USE BatchAssumption DEF BatchAssumption
<1>1. T \in SUBSET Nat /\ T # {}
  <2>1. 1 \in Requests
    BY DEF Requests
  <2>2. \A i \in Requests : Count - Votes(v, i) \in Nat
    BY VotesType
  <2> QED
    BY <2>1, <2>2
<1>2. PICK i \in Requests : \A j \in Requests : Count - Votes(v, i) <= Count - Votes(v, j)
  <2>1. \E m \in T : \A y \in T : m <= y
    <3> HIDE DEF T
    <3> QED
      BY <1>1, Least
  <2>2. PICK m \in T : \A y \in T : m <= y
    BY <2>1
  <2>3. PICK i \in Requests : m = Count - Votes(v, i)
    BY <2>2
  <2>4. \A j \in Requests : Count - Votes(v, j) \in T
    OBVIOUS
  <2> QED
    BY <2>2, <2>3, <2>4
<1>3. \A j \in Requests : Votes(v, j) <= Votes(v, i)
  BY <1>2, VotesType
<1>4. leaders \in SUBSET Nat /\ leaders # {}
  BY <1>3 DEF Requests
<1> HIDE DEF leaders
<1>5. Min(leaders) \in leaders /\ \A y \in leaders : Min(leaders) <= y
  BY <1>4, Least
<1>6. Winner(v) = Min(leaders)
  BY DEF leaders, Winner
<1>7. \A y \in Requests : Votes(v, y) = Votes(v, Winner(v)) => y \in leaders
  BY <1>5, <1>6 DEF leaders
<1> QED
  BY <1>5, <1>6, <1>7 DEF leaders

\* A file without a fault has every request's own text, on a line each.
LEMMA Complete ==
  ASSUME TypeOK, NEW f \in Files, Fault(f) = "none"
  PROVE  /\ Collected(f).values \in [Requests -> Texts]
         /\ \A i \in Requests : Collected(f).values[i] = job[i]
         /\ Collected(f).calls >= Count
<1> USE BatchAssumption DEF BatchAssumption
<1>1. ~Duplicate(f) /\ ~FailedEntry(f) /\ ~Missing(f)
  BY DEF Fault
<1>2. PICK n \in 0 .. MaxLines : f \in [1 .. n -> FileLines]
  BY DEF Files
<1>3. \A i \in Requests : \E k \in 1 .. n : f[k].id = i
  BY <1>1, <1>2 DEF Missing
<1>4. \A k \in 1 .. n : f[k].text \in Texts
  <2>1. \A l \in FileLines : l.text \in Texts \cup {Failed}
    BY DEF FileLines, Entries, TypeOK
  <2>2. QED
    BY <1>1, <1>2, <2>1 DEF FailedEntry
<1>5. \A k \in 1 .. n : f[k].id \in Requests => f[k].text = job[f[k].id]
  <2>1. \A l \in FileLines : l.id \in Requests => l.text = job[l.id]
    BY DEF FileLines, Entries, Requests
  <2>2. QED
    BY <1>2, <2>1
<1>6. \A i \in Requests : Values(f)[i] \in Texts /\ Values(f)[i] = job[i]
  <2> SUFFICES ASSUME NEW i \in Requests
               PROVE  Values(f)[i] \in Texts /\ Values(f)[i] = job[i]
    OBVIOUS
  <2> DEFINE k == CHOOSE l \in DOMAIN f : f[l].id = i
  <2>1. k \in 1 .. n /\ f[k].id = i
    BY <1>2, <1>3
  <2>2. Values(f)[i] = f[k].text
    BY DEF Values
  <2> QED
    BY <2>1, <2>2, <1>4, <1>5
<1>7. Values(f) \in [Requests -> Texts]
  BY <1>6 DEF Values
<1>8. Cardinality(DOMAIN f) >= Count
  <2> DEFINE back == [i \in Requests |-> CHOOSE l \in DOMAIN f : f[l].id = i]
  <2>1. \A i \in Requests : back[i] \in 1 .. n /\ f[back[i]].id = i
    BY <1>2, <1>3
  <2>2. back \in Injection(Requests, 1 .. n)
    <3>1. back \in [Requests -> 1 .. n]
      BY <2>1
    <3>2. \A i, j \in Requests : back[i] = back[j] => i = j
      <4> HIDE DEF back
      <4> QED
        BY ONLY <2>1
    <3> QED
      BY <3>1, <3>2 DEF Injection, IsInjective
  <2>3. IsFiniteSet(1 .. n) /\ Cardinality(1 .. n) \in Nat
    BY FS_Interval, FS_CardinalityType
  <2>4. Cardinality(Requests) <= Cardinality(1 .. n)
    BY <2>2, <2>3, FS_Injection
  <2> QED
    BY <2>3, <2>4, <1>2, CountRequests
<1> QED
  BY <1>6, <1>7, <1>8 DEF Collected
-----------------------------------------------------------------------------
(* The invariant. *)

LEMMA InitIInv == Init => IInv
<1> SUFFICES ASSUME Init
             PROVE  IInv
  OBVIOUS
<1> USE BatchAssumption DEF BatchAssumption, Init
<1>1. TypeOK
  <2>1. job \in [Requests -> Texts \cup {Failed, Waiting}]
    OBVIOUS
  <2>2. endedAt \in 0 .. Horizon /\ now \in 0 .. Horizon /\ timer \in 0 .. HttpTimeout
    OBVIOUS
  <2>3. phase \in Phases /\ phase # "sleeping" /\ why \in Errors
    BY DEF Phases, Errors
  <2> QED
    BY <2>1, <2>2, <2>3 DEF TypeOK
<1>2. WaitInv /\ StatusInv /\ Aligned /\ EndedInTime
  BY DEF WaitInv, StatusInv, BatchEnded, Requests, Aligned, EndedInTime
<1> QED
  BY <1>1, <1>2 DEF IInv

\* An error keeps what was waited for; it is "deadline" only past it.
LEMMA RaiseIInv ==
  ASSUME IInv, phase \notin Over \cup {"sleeping"}, NEW error \in Errors, Raise(error),
         error = "deadline" => now >= Timeout /\ phase = "answered" /\ ~seen
  PROVE  IInv'
<1> USE BatchAssumption DEF BatchAssumption, IInv, Raise
<1>1. TypeOK'
  BY DEF TypeOK, Phases, Over
<1>2. WaitInv' /\ Aligned'
  BY DEF WaitInv, Aligned
<1>3. StatusInv'
  BY DEF StatusInv, BatchEnded
<1>4. EndedInTime'
  BY DEF EndedInTime, StatusInv, TypeOK
<1> QED
  BY <1>1, <1>2, <1>3, <1>4

LEMMA ProcessIInv ==
  ASSUME IInv, NEW i \in Requests, Process(i)
  PROVE  IInv'
<1> USE BatchAssumption DEF BatchAssumption, IInv, Process
<1>1. ~BatchEnded(job) /\ endedAt = Horizon
  BY DEF BatchEnded, StatusInv
<1>2. endedAt' = now \/ endedAt' = Horizon
  OBVIOUS
<1>3. TypeOK'
  <2>1. job' \in [Requests -> Texts \cup {Failed, Waiting}]
    BY DEF TypeOK
  <2>2. endedAt' \in 0 .. Horizon
    BY <1>2 DEF TypeOK
  <2> QED
    BY <2>1, <2>2 DEF TypeOK
<1>4. WaitInv'
  BY DEF WaitInv
<1>5. StatusInv'
  <2>1. ~BatchEnded(job)' => endedAt' = Horizon
    BY DEF BatchEnded
  <2>2. phase' = "answered" /\ ~seen' => endedAt' + HttpTimeout >= now' + timer'
    BY <1>1, <1>2 DEF StatusInv, TypeOK
  <2> QED
    BY <2>1, <2>2 DEF StatusInv
<1>6. Aligned'
  <2>1. phase # "returned"
    BY DEF Aligned
  <2> QED
    BY <2>1 DEF Aligned
<1>7. EndedInTime'
  BY <1>2 DEF EndedInTime, StatusInv, TypeOK
<1> QED
  BY <1>3, <1>4, <1>5, <1>6, <1>7

LEMMA TickIInv ==
  ASSUME IInv, Tick
  PROVE  IInv'
<1> USE BatchAssumption DEF BatchAssumption, IInv, Tick, Created
<1>1. TypeOK'
  BY DEF TypeOK
<1>2. now' + timer' <= now + timer
  BY DEF TypeOK
<1>3. WaitInv'
  BY <1>1, <1>2 DEF WaitInv, TypeOK
<1>4. StatusInv' /\ Aligned' /\ EndedInTime'
  BY <1>1, <1>2 DEF StatusInv, BatchEnded, Aligned, EndedInTime, TypeOK
<1> QED
  BY <1>1, <1>3, <1>4

\* A file is collected whole, or the call raises.
LEMMA FetchIInv ==
  ASSUME IInv, FetchResults
  PROVE  IInv'
<1> USE BatchAssumption DEF BatchAssumption, IInv
<1>1. phase = "fetching"
  BY DEF FetchResults
<1>2. ASSUME NEW error \in Faults, Raise(error)
      PROVE  IInv'
  <2>1. error \in Errors \ {"deadline"}
    BY DEF Faults, Errors
  <2> QED
    BY <1>1, <1>2, <2>1, RaiseIInv DEF Over
<1>3. CASE Raise("split")
  BY <1>1, <1>3, RaiseIInv DEF Over, Errors
<1>4. CASE \E error \in Faults : Raise(error)
  BY <1>2, <1>4
<1>5. ASSUME NEW f \in Files, NEW first \in Requests \cup {0},
             Fault(f) = "none", Return(Collected(f), first)
      PROVE  IInv'
  <2>1. /\ Collected(f).values \in [Requests -> Texts]
        /\ \A i \in Requests : Collected(f).values[i] = job[i]
        /\ Collected(f).calls >= Count
    BY <1>5, Complete
  <2> USE <1>1, <1>5 DEF Return
  <2>2. TypeOK'
    BY <2>1 DEF TypeOK, Phases, Over
  <2>3. Aligned'
    BY <2>1 DEF Aligned
  <2>4. WaitInv' /\ StatusInv' /\ EndedInTime'
    BY DEF WaitInv, StatusInv, BatchEnded, EndedInTime
  <2> QED
    BY <2>2, <2>3, <2>4
<1>6. 1 \in Requests /\ \A f \in Files : Winner(Collected(f).values) \in Requests
  BY WinnerLeads DEF Requests
<1>7. CASE \E f \in Files : Fault(f) = "none" /\ Tally(Collected(f))
  <2>1. PICK f \in Files : Fault(f) = "none" /\ Tally(Collected(f))
    BY <1>7
  <2> QED
    BY <2>1, <1>3, <1>5, <1>6 DEF Tally
<1> QED
  BY <1>4, <1>7 DEF FetchResults

\* The other steps of the call: they move it from one wait to the next.
LEMMA WaitIInv ==
  ASSUME IInv, Create \/ ReadStatus \/ GetBatch \/ PollAgain
  PROVE  IInv'
<1> USE BatchAssumption DEF BatchAssumption, IInv
<1>1. CASE Create
  <2> USE <1>1 DEF Create, Request
  <2>1. TypeOK'
    BY DEF TypeOK, Phases, Polling
  <2>2. WaitInv' /\ StatusInv' /\ Aligned' /\ EndedInTime'
    BY DEF WaitInv, StatusInv, BatchEnded, Aligned, EndedInTime, TypeOK
  <2> QED
    BY <2>1, <2>2
<1>2. CASE ReadStatus
  <2> USE <1>2 DEF ReadStatus
  <2>1. TypeOK'
    BY DEF TypeOK, Phases, Polling, BatchEnded
  <2>2. ~seen' => endedAt = Horizon
    BY DEF StatusInv
  <2>3. WaitInv' /\ Aligned' /\ EndedInTime'
    BY DEF WaitInv, Aligned, EndedInTime
  <2>4. StatusInv'
    BY <2>2 DEF StatusInv, WaitInv, BatchEnded, TypeOK
  <2> QED
    BY <2>1, <2>3, <2>4
<1>3. CASE GetBatch
  <2> USE <1>3 DEF GetBatch
  <2>1. CASE ~seen /\ GivenUp /\ Raise("deadline")
    BY <2>1, RaiseIInv DEF GivenUp, Over, Errors
  <2>2. CASE seen /\ FetchOn
    <3> USE <2>2 DEF FetchOn, Request
    <3>1. TypeOK'
      BY DEF TypeOK, Phases
    <3>2. WaitInv' /\ StatusInv' /\ Aligned' /\ EndedInTime'
      BY DEF WaitInv, StatusInv, BatchEnded, Aligned, EndedInTime, TypeOK
    <3> QED
      BY <3>1, <3>2
  <2>3. CASE ~GivenUp /\ SleepOn
    <3> USE <2>3 DEF SleepOn, GivenUp
    <3>1. TypeOK'
      BY DEF TypeOK, Phases, Polling
    <3>2. WaitInv' /\ StatusInv' /\ Aligned' /\ EndedInTime'
      BY DEF WaitInv, StatusInv, BatchEnded, Aligned, EndedInTime, TypeOK
    <3> QED
      BY <3>1, <3>2
  <2> QED
    BY <2>1, <2>2, <2>3
<1>4. CASE PollAgain
  <2> USE <1>4 DEF PollAgain, Request
  <2>1. TypeOK'
    BY DEF TypeOK, Phases, Polling
  <2>2. WaitInv' /\ StatusInv' /\ Aligned' /\ EndedInTime'
    BY DEF WaitInv, StatusInv, BatchEnded, Aligned, EndedInTime, TypeOK
  <2> QED
    BY <2>1, <2>2
<1> QED
  BY <1>1, <1>2, <1>3, <1>4

LEMMA StepIInv == IInv /\ [Next]_vars => IInv'
<1> SUFFICES ASSUME IInv, [Next]_vars
             PROVE  IInv'
  OBVIOUS
<1>1. CASE HttpFails
  BY <1>1, RaiseIInv DEF HttpFails, Over, Errors
<1>2. CASE UNCHANGED vars
  <2> USE <1>2 DEF vars, IInv
  <2>1. TypeOK' /\ WaitInv'
    BY DEF TypeOK, WaitInv
  <2>2. StatusInv' /\ Aligned' /\ EndedInTime'
    BY DEF StatusInv, BatchEnded, Aligned, EndedInTime
  <2> QED
    BY <2>1, <2>2
<1> QED
  BY <1>1, <1>2, ProcessIInv, TickIInv, FetchIInv, WaitIInv DEF Next, Client

LEMMA Invariant == Spec => []IInv
BY InitIInv, StepIInv, PTL DEF Spec
-----------------------------------------------------------------------------
(* The vote. *)

\* WinnerUnbeaten, of the requests whose answers agree with each other's.
Agree(i) == {k \in Requests : job[k] \in Texts /\ Normal[job[k]] = Normal[job[i]]}

\* What a vote over a complete file comes to.
LEMMA VoteCast ==
  ASSUME IInv, FetchResults, phase' = "returned"
  PROVE  WinnerUnbeaten'
<1>1. PICK f \in Files : Fault(f) = "none" /\ Tally(Collected(f))
  BY DEF FetchResults, Raise
<1>2. UNCHANGED <<mode, job>>
  BY <1>1 DEF Tally, Return, Raise
<1> DEFINE v == Collected(f).values
<1>3. \A i \in Requests : v[i] = job[i] /\ job[i] \in Texts
  BY <1>1, Complete DEF IInv
<1>4. mode = "map" \/ (mode = "majority" /\ winner' = Winner(v))
                   \/ (mode = "unanimous" /\ winner' = 1 /\ Votes(v, 1) = Count)
  BY <1>1 DEF Tally, Return, Raise
<1>5. \A i \in Requests : Agree(i) \subseteq Requests /\ i \in Agree(i) /\ Cardinality(Agree(i)) = Votes(v, i)
  <2> HIDE DEF v
  <2> SUFFICES ASSUME NEW i \in Requests
               PROVE  Agree(i) \subseteq Requests /\ i \in Agree(i) /\ Cardinality(Agree(i)) = Votes(v, i)
    OBVIOUS
  <2>1. Agree(i) = {k \in Requests : Normal[v[k]] = Normal[v[i]]}
    BY <1>3 DEF Agree
  <2> QED
    BY <1>3, <2>1 DEF Agree, Votes
<1> HIDE DEF v
<1>6. CASE mode = "majority" /\ winner' = Winner(v)
  <2>1. \A i \in Requests : Votes(v, i) \in 0 .. Count
    BY VotesType
  <2>2. winner' \in Requests
    BY <1>6, WinnerLeads
  <2>3. \A i \in Requests \ Agree(winner') :
           /\ Cardinality(Agree(i)) <= Cardinality(Agree(winner'))
           /\ Cardinality(Agree(i)) = Cardinality(Agree(winner')) => i > winner'
    <3> SUFFICES ASSUME NEW i \in Requests \ Agree(winner')
                 PROVE  /\ Cardinality(Agree(i)) <= Cardinality(Agree(winner'))
                        /\ Cardinality(Agree(i)) = Cardinality(Agree(winner')) => i > winner'
      OBVIOUS
    <3>1. i # winner' /\ i \in Nat /\ winner' \in Nat
      BY <1>5, <2>2 DEF Requests
    <3>2. Votes(v, i) <= Votes(v, winner') /\ (Votes(v, i) = Votes(v, winner') => winner' <= i)
      BY <1>6, WinnerLeads
    <3> QED
      BY <1>5, <2>2, <3>1, <3>2
  <2> QED
    BY <1>2, <1>6, <2>3 DEF WinnerUnbeaten, Agree
<1>7. CASE mode = "unanimous" /\ winner' = 1 /\ Votes(v, 1) = Count
  <2>1. 1 \in Requests
    BY BatchAssumption DEF BatchAssumption, Requests
  <2>2. Agree(1) = Requests
    BY <1>5, <1>7, <2>1, CountRequests, FS_Subset
  <2> QED
    BY <1>2, <1>7, <2>2 DEF WinnerUnbeaten, Agree
<1>8. CASE mode = "map"
  BY <1>2, <1>8 DEF WinnerUnbeaten
<1> QED
  BY <1>4, <1>6, <1>7, <1>8

\* The provider has nothing left to do for a batch whose answers were returned.
LEMMA VoteStays ==
  ASSUME IInv, [Next]_vars, phase' = "returned", ~FetchResults
  PROVE  UNCHANGED <<phase, mode, job, winner>>
<1>1. ASSUME NEW i \in Requests, Process(i)
      PROVE  FALSE
  BY <1>1, BatchAssumption DEF Process, IInv, Aligned, BatchAssumption
<1> QED
  BY <1>1 DEF Next, Client, Create, Request, ReadStatus, GetBatch, FetchOn, SleepOn, Raise,
     PollAgain, HttpFails, Tick, vars

LEMMA VoteInv == IInv /\ WinnerUnbeaten /\ [Next]_vars => WinnerUnbeaten'
<1> SUFFICES ASSUME IInv, WinnerUnbeaten, [Next]_vars, phase' = "returned"
             PROVE  WinnerUnbeaten'
  BY DEF WinnerUnbeaten
<1> QED
  BY VoteCast, VoteStays DEF WinnerUnbeaten
-----------------------------------------------------------------------------
\* Batches is well typed; in particular every vote has a winner.
THEOREM TypeCorrect == Spec => []TypeOK
<1>1. IInv => TypeOK
  BY DEF IInv
<1> QED
  BY <1>1, Invariant, PTL

\* A call that returns gives every request its own text, whatever lines the
\* results file lost, repeated or added.
THEOREM Alignment == Spec => []Aligned
<1>1. IInv => Aligned
  BY DEF IInv
<1> QED
  BY <1>1, Invariant, PTL

\* The wait ends within the timeout, one sleep and one request.
THEOREM BoundedWait == Spec => []WaitBounded
<1>1. IInv => WaitBounded
  BY BatchAssumption DEF IInv, WaitInv, TypeOK, WaitBounded, Polling, BatchAssumption
<1> QED
  BY <1>1, Invariant, PTL

\* No batch that ended a request's time before the deadline is given up.
THEOREM NoEarlyGiveUp == Spec => []EndedInTime
<1>1. IInv => EndedInTime
  BY DEF IInv
<1> QED
  BY <1>1, Invariant, PTL

\* A vote is won by the first answer of the largest class, and a unanimous one
\* only by all answers.
THEOREM VoteCorrect == Spec => []WinnerUnbeaten
<1>1. Init => WinnerUnbeaten
  BY DEF Init, WinnerUnbeaten
<1> QED
  BY <1>1, VoteInv, Invariant, PTL DEF Spec
-----------------------------------------------------------------------------
(* Progress. *)

\* How far the call is: submitted, polling, collecting, over.
Stage ==
    CASE phase = "creating" -> 0
      [] phase \in Polling -> 1
      [] phase = "fetching" -> 2
      [] OTHER -> 3

\* The time up to which the polls of the batch have been planned.
PolledUntil ==
    CASE phase \in {"asking", "answered"} -> now
      [] phase = "sleeping" -> now + timer
      [] OTHER -> 0

\* How far the poll is.
Poll ==
    CASE phase = "asking" -> 1
      [] phase = "answered" -> 2
      [] OTHER -> 0

Unended == {i \in Requests : job[i] = Waiting}

\* The call is further on; or its polls reach further; or its poll is further on; or
\* its sleep or HTTP request is nearer its end; or the provider has less to do.
Advances ==
    \/ Stage' > Stage
    \/ /\ Stage' = Stage
       /\ \/ PolledUntil' > PolledUntil
          \/ PolledUntil' = PolledUntil /\ Poll' > Poll
          \/ PolledUntil' = PolledUntil /\ Poll' = Poll /\ timer' < timer
          \/ /\ PolledUntil' = PolledUntil /\ Poll' = Poll /\ timer' = timer
             /\ Unended' \subseteq Unended /\ Unended' # Unended

LEMMA Times ==
  ASSUME IInv
  PROVE  /\ now \in Nat /\ timer \in Nat /\ PollInterval \in Nat /\ HttpTimeout \in Nat
         /\ Timeout \in Nat /\ Horizon \in Nat
         /\ phase = "sleeping" => now + timer <= Timeout + PollInterval
         /\ phase \in {"asking", "answered"} =>
                now + timer <= Timeout + PollInterval + HttpTimeout /\ now + timer < Horizon
         /\ phase = "sleeping" => now + timer < Horizon
BY BatchAssumption DEF BatchAssumption, IInv, TypeOK, WaitInv

LEMMA TickAdvances ==
  ASSUME IInv, Tick
  PROVE  Advances
<1>1. /\ timer > 0 /\ timer' = timer - 1 /\ phase' = phase
      /\ now' = IF Created /\ now < Horizon THEN now + 1 ELSE now
  BY DEF Tick
<1>2. Stage' = Stage /\ Poll' = Poll
  BY <1>1 DEF Stage, Poll
<1>3. CASE phase \in {"asking", "answered"}
  <2>1. now' = now + 1
    BY <1>1, <1>3, Times DEF Created
  <2>2. PolledUntil = now /\ PolledUntil' = now'
    BY <1>1, <1>3 DEF PolledUntil
  <2>3. QED
    BY <1>2, <2>1, <2>2, Times DEF Advances
<1>4. CASE phase = "sleeping"
  <2>1. now' = now + 1
    BY <1>1, <1>4, Times DEF Created
  <2>2. PolledUntil = now + timer /\ PolledUntil' = now' + timer'
    BY <1>1, <1>4 DEF PolledUntil
  <2>3. PolledUntil' = PolledUntil /\ timer' < timer
    BY <1>1, <2>1, <2>2, Times
  <2>4. QED
    BY <1>2, <2>3 DEF Advances
<1>5. CASE phase \in {"creating", "fetching"}
  <2>1. PolledUntil' = PolledUntil
    BY <1>1, <1>5 DEF PolledUntil
  <2>2. QED
    BY <1>1, <1>2, <2>1, Times DEF Advances
<1>6. QED
  BY <1>3, <1>4, <1>5 DEF Tick

LEMMA StageAdvances ==
  ASSUME \/ phase = "creating" /\ phase' \in Polling \cup Over
         \/ phase \in Polling /\ phase' \in {"fetching"} \cup Over
         \/ phase = "fetching" /\ phase' \in Over
  PROVE  Advances
<1>1. Stage' > Stage
  BY DEF Stage, Polling, Over
<1>2. QED
  BY <1>1 DEF Advances

LEMMA ClientAdvances ==
  ASSUME IInv, PollInterval > 0, Client \/ HttpFails
  PROVE  Advances
<1>1. CASE Create
  BY <1>1, StageAdvances DEF Create, Request, Polling
<1>2. CASE ReadStatus
  <2>1. phase = "asking" /\ phase' = "answered" /\ now' = now
    BY <1>2 DEF ReadStatus
  <2>2. Stage' = Stage /\ PolledUntil' = PolledUntil /\ Poll = 1 /\ Poll' = 2
    BY <2>1 DEF Stage, Polling, PolledUntil, Poll
  <2>3. QED
    BY <2>2 DEF Advances
<1>3. CASE GetBatch
  <2>1. CASE SleepOn
    <3>1. phase = "answered" /\ phase' = "sleeping" /\ timer' = PollInterval /\ now' = now
      BY <1>3, <2>1 DEF GetBatch, SleepOn
    <3>2. Stage' = Stage /\ PolledUntil = now /\ PolledUntil' = now' + timer'
      BY <3>1 DEF Stage, Polling, PolledUntil
    <3>3. PolledUntil' > PolledUntil
      BY <3>1, <3>2, Times
    <3>4. QED
      BY <3>2, <3>3 DEF Advances
  <2>2. CASE ~SleepOn
    <3>1. phase \in Polling /\ phase' \in {"fetching"} \cup Over
      BY <1>3, <2>2 DEF GetBatch, FetchOn, Request, Raise, Over, Polling
    <3>2. QED
      BY <3>1, StageAdvances
  <2>3. QED
    BY <2>1, <2>2
<1>4. CASE PollAgain
  <2>1. phase = "sleeping" /\ timer = 0 /\ phase' = "asking" /\ now' = now
    BY <1>4 DEF PollAgain, Request
  <2>2. /\ Stage' = Stage /\ Poll = 0 /\ Poll' = 1
        /\ PolledUntil = now + timer /\ PolledUntil' = now'
    BY <2>1 DEF Stage, Polling, PolledUntil, Poll
  <2>3. PolledUntil' = PolledUntil
    BY <2>1, <2>2, Times
  <2>4. QED
    BY <2>2, <2>3 DEF Advances
<1>5. CASE FetchResults
  BY <1>5, StageAdvances DEF FetchResults, Raise, Tally, Return, Over
<1>6. CASE HttpFails
  BY <1>6, StageAdvances DEF HttpFails, Raise, Over, Polling
<1>7. QED
  BY <1>1, <1>2, <1>3, <1>4, <1>5, <1>6 DEF Client

LEMMA ProcessAdvances ==
  ASSUME IInv, NEW i \in Requests, Process(i)
  PROVE  Advances
<1>1. job[i] = Waiting /\ UNCHANGED <<phase, now, timer>>
      /\ \E outcome \in Texts \cup {Failed} : job' = [job EXCEPT ![i] = outcome]
  BY DEF Process
<1>2. PICK outcome \in Texts \cup {Failed} : job' = [job EXCEPT ![i] = outcome]
  BY <1>1
<1>3. outcome # Waiting
  BY <1>2, BatchAssumption DEF BatchAssumption
<1>4. job'[i] # Waiting /\ \A k \in Requests \ {i} : job'[k] = job[k]
  BY <1>2, <1>3 DEF IInv, TypeOK
<1>5. i \in Unended /\ i \notin Unended' /\ Unended' \subseteq Unended
  BY <1>1, <1>4 DEF Unended
<1>6. Stage' = Stage /\ PolledUntil' = PolledUntil /\ Poll' = Poll
  BY <1>1 DEF Stage, PolledUntil, Poll
<1>7. QED
  BY <1>1, <1>5, <1>6 DEF Advances

\* The safety half of CallEnds, of a call that sleeps between its polls: every step
\* of the call, of the clock or of the provider uses up a part of a bounded amount
\* of polls, time and requests, so that only a clock that stands still can keep it
\* from its end.
THEOREM BoundedCall ==
  PollInterval > 0 =>
      (Spec => []( /\ Stage \in 0 .. 3 /\ Poll \in 0 .. 2 /\ timer \in Nat
                   /\ PolledUntil \in 0 .. Timeout + PollInterval + HttpTimeout
                   /\ IsFiniteSet(Unended) )
               /\ [][Advances]_vars)
<1> SUFFICES ASSUME PollInterval > 0
             PROVE  Spec => []( /\ Stage \in 0 .. 3 /\ Poll \in 0 .. 2 /\ timer \in Nat
                                /\ PolledUntil \in 0 .. Timeout + PollInterval + HttpTimeout
                                /\ IsFiniteSet(Unended) )
                            /\ [][Advances]_vars
  OBVIOUS
<1>1. IInv => /\ Stage \in 0 .. 3 /\ Poll \in 0 .. 2 /\ timer \in Nat
              /\ PolledUntil \in 0 .. Timeout + PollInterval + HttpTimeout
              /\ IsFiniteSet(Unended)
  <2> SUFFICES ASSUME IInv
               PROVE  /\ Stage \in 0 .. 3 /\ Poll \in 0 .. 2 /\ timer \in Nat
                      /\ PolledUntil \in 0 .. Timeout + PollInterval + HttpTimeout
                      /\ IsFiniteSet(Unended)
    OBVIOUS
  <2>1. Stage \in 0 .. 3 /\ Poll \in 0 .. 2
    BY DEF Stage, Poll
  <2>2. CASE phase \in {"asking", "answered"}
    <3>1. PolledUntil = now
      BY <2>2 DEF PolledUntil
    <3>2. PolledUntil \in 0 .. Timeout + PollInterval + HttpTimeout
      BY <2>2, <3>1, Times
    <3>3. QED
      BY <2>1, <3>2, Times, CountRequests, FS_Subset DEF Unended
  <2>3. CASE phase = "sleeping"
    <3>1. PolledUntil = now + timer
      BY <2>3 DEF PolledUntil
    <3>2. PolledUntil \in 0 .. Timeout + PollInterval + HttpTimeout
      BY <2>3, <3>1, Times
    <3>3. QED
      BY <2>1, <3>2, Times, CountRequests, FS_Subset DEF Unended
  <2>4. CASE phase \notin {"asking", "answered", "sleeping"}
    <3>1. PolledUntil = 0
      BY <2>4 DEF PolledUntil
    <3>2. PolledUntil \in 0 .. Timeout + PollInterval + HttpTimeout
      BY <3>1, Times
    <3>3. QED
      BY <2>1, <3>2, Times, CountRequests, FS_Subset DEF Unended
  <2>5. QED
    BY <2>2, <2>3, <2>4
<1>2. IInv /\ [Next]_vars => [Advances]_vars
  BY TickAdvances, ClientAdvances, ProcessAdvances DEF Next
<1>3. QED
  BY <1>1, <1>2, Invariant, PTL DEF Spec
=============================================================================
