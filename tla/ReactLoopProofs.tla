-------------------------- MODULE ReactLoopProofs --------------------------
(***************************************************************************)
(* For every number of rounds, requests, slots and kept messages, and      *)
(* every gate: ReactLoop is well typed, a tool runs only once and only     *)
(* when approved, every summary covers what its window lacks, transcripts  *)
(* are complete, and a turn counts the calls its transcript shows.         *)
(***************************************************************************)
EXTENDS ReactLoop, SequenceTheorems, FiniteSetTheorems, WellFoundedInduction, TLAPS

\* Where the locals of react_loop stand in each phase.
LoopInv ==
    /\ phase \notin Over => history # <<>> /\ round >= 1
    /\ phase \in {"summarizing", "calling", "tools", "saving"} => round \in 1 .. MaxRounds
    /\ phase \in {"summarizing", "calling"} => window.kept = Trim(history)

\* A tool that was not decided on has not run; between rounds none has.
ToolInv ==
    \A i \in Slots : phase # "tools" \/ tool[i] \in {"idle", "queued", "asking"} => ran[i] = 0

\* A cached summary covers a piece of the history, which only grows.
CacheInv ==
    phase \notin Over =>
        \A c \in cache : /\ c.boundary \in 1 .. Len(history)
                         /\ c.covers = SubSeq(history, 2, c.boundary)

\* What the window's summary covers while the window is built and used.
CoverInv ==
    /\ phase = "summarizing" => Trim(history) # history
    /\ phase = "calling" /\ Summarizing =>
           window.covers = IF Trim(history) = history THEN <<>>
                           ELSE Dropped(history, Trim(history))

IInv == TypeOK /\ LoopInv /\ ToolInv /\ CacheInv /\ CoverInv
-----------------------------------------------------------------------------
(* Trimming. *)

\* A set of naturals with an element has a least one, and Min finds it.
LEMMA MinIsLeast ==
  ASSUME NEW S \in SUBSET Nat, S # {}
  PROVE  Min(S) \in S /\ \A x \in S : Min(S) <= x
<1> DEFINE less == {p \in Nat \X Nat : p[1] < p[2]}
<1>1. IsWellFoundedOn(less, Nat)
  BY NatLessThanWellFounded DEF OpToRel
<1>2. \E x \in S : \A y \in S : ~ (<<y, x>> \in less)
  BY <1>1, WFMin
<1>3. PICK x \in S : \A y \in S : ~ (<<y, x>> \in less)
  BY <1>2
<1>4. ASSUME NEW y \in S
      PROVE  x <= y
  <2>1. <<y, x>> \notin less /\ y \in Nat /\ x \in Nat
    BY <1>3
  <2>2. <<y, x>> \in Nat \X Nat
    BY <2>1
  <2>3. ~(y < x)
    BY <2>1, <2>2
  <2>4. QED
    BY <2>1, <2>3
<1>5. QED
  BY <1>4 DEF Min

\* The tail starts at a block, behind the first message, and fits.
LEMMA CutIsBlock ==
  ASSUME NEW h \in Seq(Messages), h # <<>>
  PROVE  /\ Cut(h) \in BlockStarts(h)
         /\ Cut(h) \in 2 .. Len(h) + 1
         /\ Len(h) + 1 - Cut(h) < MaxHistory
<1> DEFINE S == {k \in BlockStarts(h) : Len(h) + 1 - k < MaxHistory}
<1>1. Len(h) \in Nat /\ Len(h) >= 1 /\ MaxHistory \in Nat /\ MaxHistory >= 1
  BY ReactAssumption, EmptySeq DEF ReactAssumption
<1>2. Len(h) + 1 \in S
  BY <1>1 DEF BlockStarts
<1>3. S \subseteq 2 .. Len(h) + 1
  BY <1>1 DEF BlockStarts
<1>4. Min(S) \in S
  <2>1. S \in SUBSET Nat /\ S # {}
    BY <1>1, <1>2, <1>3
  <2> HIDE DEF S
  <2>2. QED
    BY <2>1, MinIsLeast
<1>5. QED
  BY <1>3, <1>4 DEF Cut

\* What trimming keeps: everything, or the first message and the tail.
LEMMA TrimKeeps ==
  ASSUME NEW h \in Seq(Messages), h # <<>>
  PROVE  /\ Trim(h) \in Seq(Messages)
         /\ \/ Trim(h) = h
            \/ /\ Trim(h) = <<h[1]>> \o SubSeq(h, Cut(h), Len(h))
               /\ Len(Trim(h)) = Len(h) + 2 - Cut(h)
               /\ Boundary(h, Trim(h)) = Cut(h) - 1
<1>1. Len(h) \in Nat /\ Len(h) >= 1 /\ h[1] \in Messages
  BY EmptySeq, ElementOfSeq
<1>2. Cut(h) \in 2 .. Len(h) + 1
  BY CutIsBlock
<1> DEFINE tail == SubSeq(h, Cut(h), Len(h))
<1>3. tail \in Seq(Messages) /\ Len(tail) = Len(h) + 1 - Cut(h)
  BY <1>1, <1>2, SubSeqProperties
<1>4. <<h[1]>> \o tail \in Seq(Messages) /\ Len(<<h[1]>> \o tail) = 1 + Len(tail)
  BY <1>1, <1>3, ConcatProperties
<1>5. CASE Len(h) <= MaxHistory
  BY <1>5 DEF Trim
<1>6. CASE ~(Len(h) <= MaxHistory)
  <2>1. Trim(h) = <<h[1]>> \o tail
    BY <1>6 DEF Trim
  <2>2. Trim(h) \in Seq(Messages) /\ Len(Trim(h)) = 1 + Len(tail)
    BY <1>4, <2>1
  <2>3. Len(Trim(h)) = Len(h) + 2 - Cut(h)
    BY <1>1, <1>2, <1>3, <2>2
  <2>4. Boundary(h, Trim(h)) = Cut(h) - 1
    BY <1>1, <1>2, <2>3 DEF Boundary
  <2>5. QED
    BY <2>1, <2>2, <2>3, <2>4
<1>7. QED
  BY <1>5, <1>6
-----------------------------------------------------------------------------
(* The transcript grows. *)

LEMMA MessageType ==
  ASSUME NEW role \in {"user", "call", "tool", "answer"}, NEW t \in 0 .. MaxTurns,
         NEW r \in 0 .. MaxRounds, NEW n \in 0 .. MaxRequests
  PROVE  Message(role, t, r, n) \in Messages
BY DEF Message, Messages

LEMMA ObservationsType ==
  ASSUME TypeOK, round <= MaxRounds, NEW n \in 0 .. MaxRequests
  PROVE  Observations(n) \in Seq(Messages) /\ Len(Observations(n)) = n
<1>1. \A i \in 1 .. n : Message("tool", turn, round, i) \in Messages
  <2>1. TAKE i \in 1 .. n
  <2>2. i \in 0 .. MaxRequests /\ round \in 0 .. MaxRounds /\ turn \in 0 .. MaxTurns
    BY ReactAssumption, <2>1 DEF ReactAssumption, TypeOK
  <2>3. QED
    BY <2>2, MessageType
<1>2. n \in Nat
  BY ReactAssumption DEF ReactAssumption
<1>3. QED
  BY <1>1, <1>2 DEF Observations

\* What a summary covers does not change when messages are added.
LEMMA CoversStay ==
  ASSUME NEW h \in Seq(Messages), NEW e \in Seq(Messages), NEW b \in 1 .. Len(h)
  PROVE  /\ b \in 1 .. Len(h \o e)
         /\ SubSeq(h \o e, 2, b) = SubSeq(h, 2, b)
<1>1. Len(h) \in Nat /\ Len(e) \in Nat /\ Len(h \o e) = Len(h) + Len(e)
  BY ConcatProperties, LenProperties
<1>2. CASE b = 1
  BY <1>1, <1>2, SubSeqEmpty
<1>3. CASE b > 1
  <2>1. 2 \in 1 .. Len(h)
    BY <1>1, <1>3
  <2>2. SubSeq(h \o e, 2, b) = SubSeq(h, 2, b)
    BY <2>1, SubSeqOfConcat1
  <2>3. QED
    BY <1>1, <2>2
<1>4. QED
  BY <1>1, <1>2, <1>3

LEMMA CacheGrows ==
  ASSUME TypeOK, CacheInv, phase \notin Over, NEW e \in Seq(Messages),
         history' = history \o e, cache' = cache
  PROVE  CacheInv'
<1>1. ASSUME NEW c \in cache
      PROVE  /\ c.boundary \in 1 .. Len(history')
             /\ c.covers = SubSeq(history', 2, c.boundary)
  <2>1. c.boundary \in 1 .. Len(history) /\ c.covers = SubSeq(history, 2, c.boundary)
    BY <1>1 DEF CacheInv
  <2>2. history \in Seq(Messages)
    BY DEF TypeOK
  <2>3. QED
    BY <2>1, <2>2, CoversStay
<1>2. QED
  BY <1>1 DEF CacheInv
-----------------------------------------------------------------------------
(* The invariant: one lemma per action of the loop. *)

LEMMA InitIInv == Init => IInv
<1> SUFFICES ASSUME Init
             PROVE  IInv
  OBVIOUS
<1> USE ReactAssumption DEF ReactAssumption, Init
<1>1. <<>> \in Seq(Messages)
  BY EmptySeq
<1>2. TypeOK
  <2>1. session \in Seq(Messages) /\ history \in Seq(Messages)
    BY <1>1
  <2>2. window \in [kept : Seq(Messages), covers : Seq(Messages)]
    BY <1>1
  <2>3. cache \subseteq [boundary : Nat, covers : Seq(Messages)]
    OBVIOUS
  <2>4. tool \in [Slots -> ToolStates]
    BY DEF Idle, ToolStates
  <2>5. answer \in [Slots -> {"none", "yes", "no"}] /\ ran \in [Slots -> Nat]
    BY DEF Idle
  <2>6. QED
    BY <2>1, <2>2, <2>3, <2>4, <2>5 DEF TypeOK, Phases, Over
<1>3. LoopInv /\ CacheInv /\ CoverInv
  BY DEF LoopInv, CacheInv, CoverInv, Over
<1>4. ToolInv
  BY DEF ToolInv, Idle
<1>5. QED
  BY <1>2, <1>3, <1>4 DEF IInv

\* A round without tool calls has the types and the counts of none.
LEMMA IdleTypes ==
  /\ Idle.state \in [Slots -> ToolStates]
  /\ Idle.said \in [Slots -> {"none", "yes", "no"}]
  /\ Idle.count \in [Slots -> Nat]
  /\ \A i \in Slots : Idle.count[i] = 0
BY DEF Idle, ToolStates

\* What a step that leaves the tool calls alone, or forgets them, keeps.
LEMMA ToolsKept ==
  ASSUME TypeOK, ToolInv, (UNCHANGED toolVars /\ phase # "tools") \/ Forget
  PROVE  /\ ToolInv'
         /\ (tool \in [Slots -> ToolStates])'
         /\ (answer \in [Slots -> {"none", "yes", "no"}])'
         /\ (ran \in [Slots -> Nat])'
<1>1. CASE UNCHANGED toolVars /\ phase # "tools"
  BY <1>1 DEF TypeOK, ToolInv, toolVars
<1>2. CASE Forget
  BY <1>2, IdleTypes DEF Forget, ToolInv
<1>3. QED
  BY <1>1, <1>2

\* The message a turn begins with is one of the transcript's.
LEMMA FirstMessage ==
  ASSUME turn \in 0 .. MaxTurns, turn < MaxTurns
  PROVE  LET user == Message("user", turn + 1, 0, 0) IN
         user \in Messages /\ user.role = "user" /\ user.turn = turn + 1
<1>1. MaxTurns \in Nat /\ MaxRounds \in Nat /\ MaxRequests \in Nat
  BY ReactAssumption DEF ReactAssumption
<1>2. turn + 1 \in 0 .. MaxTurns /\ 0 \in 0 .. MaxRounds /\ 0 \in 0 .. MaxRequests
  BY ONLY <1>1, turn \in 0 .. MaxTurns, turn < MaxTurns
<1>3. QED
  BY <1>2, MessageType DEF Message

LEMMA NextTurnIInv == IInv /\ NextTurn => IInv'
<1> SUFFICES ASSUME IInv, NextTurn
             PROVE  IInv'
  OBVIOUS
<1> USE ReactAssumption DEF ReactAssumption
<1> USE DEF IInv, NextTurn
<1>1. Message("user", turn + 1, 0, 0) \in Messages
  <2>1. turn \in 0 .. MaxTurns /\ turn < MaxTurns
    BY DEF TypeOK
  <2>2. QED
    BY <2>1, FirstMessage
<1>2. history' \in Seq(Messages) /\ history' # <<>>
  <2>1. session \in Seq(Messages)
    BY DEF TypeOK
  <2>2. QED
    BY <1>1, <2>1, AppendProperties
<1>3. ToolInv'
  BY ToolsKept DEF Over
<1>4. TypeOK'
  <2>1. turn' \in 0 .. MaxTurns /\ round' \in 0 .. MaxRounds + 1 /\ phase' \in Phases
    BY DEF TypeOK, Phases
  <2>2. QED
    BY <1>2, <2>1 DEF TypeOK, toolVars
<1>5. LoopInv' /\ CacheInv' /\ CoverInv'
  BY <1>2 DEF LoopInv, CacheInv, CoverInv, Over
<1>6. QED
  BY <1>3, <1>4, <1>5

LEMMA NextRoundIInv == IInv /\ NextRound => IInv'
<1> SUFFICES ASSUME IInv, NextRound
             PROVE  IInv'
  OBVIOUS
<1> USE ReactAssumption DEF ReactAssumption
<1> DEFINE kept == Trim(history)
<1>1. history \in Seq(Messages) /\ history # <<>> /\ phase = "top" /\ round \in 1 .. MaxRounds
  BY DEF IInv, TypeOK, LoopInv, NextRound, RoundsLeft, Over
<1>2. kept \in Seq(Messages)
  BY <1>1, TrimKeeps
<1>3. ASSUME NEW covers \in Seq(Messages), NEW next \in {"calling", "summarizing"},
             Begin(kept, covers, next)
      PROVE  TypeOK' /\ LoopInv' /\ ToolInv' /\ CacheInv'
  <2> USE <1>3 DEF Begin
  <2>1. ToolInv'
    BY <1>1, ToolsKept DEF IInv
  <2>2. TypeOK'
    <3>1. window' \in [kept : Seq(Messages), covers : Seq(Messages)] /\ phase' \in Phases
      BY <1>2 DEF Phases
    <3>2. QED
      BY <3>1 DEF IInv, TypeOK, toolVars
  <2>3. LoopInv'
    BY <1>1 DEF IInv, LoopInv, Over
  <2>4. CacheInv'
    BY <1>1 DEF IInv, CacheInv, Over
  <2>5. QED
    BY <2>1, <2>2, <2>3, <2>4
<1>4. <<>> \in Seq(Messages)
  BY EmptySeq
<1>5. CASE (kept = history \/ ~Summarizing) /\ Begin(kept, <<>>, "calling")
  <2>1. CoverInv'
    BY <1>5 DEF CoverInv, Begin
  <2>2. QED
    BY <1>3, <1>4, <1>5, <2>1 DEF IInv
<1>6. ASSUME kept # history, Summarizing, NEW c \in cache,
             c.boundary = Boundary(history, kept), Begin(kept, c.covers, "calling")
      PROVE  IInv'
  <2>1. c.covers = SubSeq(history, 2, c.boundary)
    BY <1>1, <1>6 DEF IInv, CacheInv, Over
  <2>2. c.covers \in Seq(Messages)
    BY <1>6 DEF IInv, TypeOK
  <2>3. c.covers = Dropped(history, kept)
    BY <1>6, <2>1 DEF Dropped
  <2>4. CoverInv'
    BY <1>6, <2>3 DEF CoverInv, Begin
  <2>5. QED
    BY <1>3, <1>6, <2>2, <2>4 DEF IInv
<1>7. CASE kept # history /\ Begin(kept, <<>>, "summarizing")
  <2>1. CoverInv'
    BY <1>7 DEF CoverInv, Begin
  <2>2. QED
    BY <1>3, <1>4, <1>7, <2>1 DEF IInv
<1>8. QED
  BY <1>5, <1>6, <1>7 DEF NextRound

LEMMA SummarizedIInv == IInv /\ Summarized => IInv'
<1> SUFFICES ASSUME IInv, Summarized
             PROVE  IInv'
  OBVIOUS
<1> DEFINE kept == Trim(history)
           boundary == Boundary(history, kept)
           covers == Dropped(history, kept)
<1>1. history \in Seq(Messages) /\ history # <<>> /\ phase = "summarizing" /\ round \in 1 .. MaxRounds
  BY DEF IInv, TypeOK, LoopInv, Summarized, Over
<1>2. window.kept = kept /\ kept # history
  BY <1>1 DEF IInv, LoopInv, CoverInv
<1>3. boundary = Cut(history) - 1 /\ Cut(history) \in 2 .. Len(history) + 1
  BY <1>1, <1>2, TrimKeeps, CutIsBlock
<1>4. boundary \in 1 .. Len(history) /\ Len(history) \in Nat
  BY <1>1, <1>3, LenProperties
<1>5. covers \in Seq(Messages)
  <2>1. \A i \in 2 .. boundary : history[i] \in Messages
    BY <1>1, <1>4, ElementOfSeq
  <2>2. QED
    BY <1>4, <2>1, SubSeqProperties DEF Dropped
<1>6. window' = [window EXCEPT !.covers = covers] /\ cache' = cache \cup {[boundary |-> boundary, covers |-> covers]}
  BY <1>2 DEF Summarized
<1>7. TypeOK'
  <2>1. window' \in [kept : Seq(Messages), covers : Seq(Messages)]
    BY <1>5, <1>6 DEF IInv, TypeOK
  <2>2. cache' \subseteq [boundary : Nat, covers : Seq(Messages)]
    BY <1>4, <1>5, <1>6 DEF IInv, TypeOK
  <2>3. phase' \in Phases
    BY DEF Summarized, Phases
  <2>4. QED
    BY <2>1, <2>2, <2>3 DEF IInv, TypeOK, Summarized, toolVars
<1>8. LoopInv'
  BY <1>1, <1>2, <1>6 DEF IInv, TypeOK, LoopInv, Summarized, Over
<1>9. ToolInv'
  BY ToolsKept DEF IInv, Summarized
<1>10. CacheInv'
  <2>1. ASSUME NEW c \in cache'
        PROVE  /\ c.boundary \in 1 .. Len(history)
               /\ c.covers = SubSeq(history, 2, c.boundary)
    <3>1. CASE c \in cache
      BY <1>1, <3>1 DEF IInv, CacheInv, Over
    <3>2. CASE c = [boundary |-> boundary, covers |-> covers]
      BY <1>4, <3>2 DEF Dropped
    <3>3. QED
      BY <1>6, <2>1, <3>1, <3>2
  <2>2. QED
    BY <2>1 DEF CacheInv, Summarized
<1>11. CoverInv'
  BY <1>2, <1>6 DEF IInv, TypeOK, CoverInv, Summarized
<1>12. QED
  BY <1>7, <1>8, <1>9, <1>10, <1>11 DEF IInv

\* A round's message is added, or its observations are: nothing else changes in
\* what is known of the transcript.
LEMMA Extended ==
  ASSUME IInv, phase \notin Over, phase' \notin {"summarizing", "calling"},
         NEW e \in Seq(Messages), history' = history \o e, UNCHANGED <<round, cache>>,
         phase' \in {"tools", "saving"} => round <= MaxRounds
  PROVE  /\ (history \in Seq(Messages))' /\ history' # <<>>
         /\ LoopInv' /\ CacheInv' /\ CoverInv'
<1>1. history \in Seq(Messages) /\ history # <<>> /\ round >= 1 /\ round \in Nat
  BY ReactAssumption DEF ReactAssumption, IInv, TypeOK, LoopInv
<1>2. history' \in Seq(Messages) /\ Len(history') = Len(history) + Len(e)
  BY <1>1, ConcatProperties
<1>3. history' # <<>>
  BY <1>1, <1>2, ConcatEqualIffEmpty
<1>4. LoopInv' /\ CoverInv'
  BY <1>1, <1>3, ReactAssumption DEF ReactAssumption, LoopInv, CoverInv
<1>5. CacheInv'
  BY CacheGrows DEF IInv
<1>6. QED
  BY <1>2, <1>3, <1>4, <1>5

LEMMA AnsweredIInv == IInv /\ Answered => IInv'
<1> SUFFICES ASSUME IInv, Answered
             PROVE  IInv'
  OBVIOUS
<1> USE ReactAssumption DEF ReactAssumption
<1> DEFINE answered == Message("answer", turn, round, 0)
<1>1. history \in Seq(Messages) /\ round \in 0 .. MaxRounds /\ turn \in 0 .. MaxTurns
  BY DEF IInv, TypeOK, LoopInv, Answered
<1>2. answered \in Messages
  BY <1>1, MessageType
<1>3. <<answered>> \in Seq(Messages) /\ history' = history \o <<answered>>
  <2>1. history' = Append(history, answered)
    BY DEF Answered
  <2>. HIDE DEF answered
  <2>2. Append(history, answered) = history \o <<answered>>
    BY ONLY <1>1, <1>2, AppendIsConcat
  <2>3. <<answered>> \in Seq(Messages)
    BY ONLY <1>2
  <2>4. QED
    BY <2>1, <2>2, <2>3
<1>4. history' \in Seq(Messages) /\ LoopInv' /\ CacheInv' /\ CoverInv'
  BY <1>3, Extended DEF Answered, Over
<1>5. ToolInv'
  BY ToolsKept DEF IInv, Answered
<1>6. TypeOK'
  BY <1>4 DEF IInv, TypeOK, Answered, toolVars, Phases, Over
<1>7. QED
  BY <1>4, <1>5, <1>6 DEF IInv

LEMMA RequestedIInv ==
  ASSUME IInv, NEW n \in 1 .. MaxRequests, Requested(n)
  PROVE  IInv'
<1> USE ReactAssumption DEF ReactAssumption
<1> DEFINE request == Message("call", turn, round, n)
<1>1. history \in Seq(Messages) /\ round \in 0 .. MaxRounds /\ turn \in 0 .. MaxTurns
  BY DEF IInv, TypeOK, LoopInv, Requested
<1>2. request \in Messages
  BY <1>1, MessageType
<1>3. <<request>> \in Seq(Messages) /\ history' = history \o <<request>>
  BY <1>1, <1>2, AppendIsConcat DEF Requested
<1>4. history' \in Seq(Messages) /\ LoopInv' /\ CacheInv' /\ CoverInv'
  <2>1. phase \notin Over /\ phase' \notin {"summarizing", "calling"} /\ UNCHANGED <<round, cache>>
    BY DEF Requested, Over
  <2>2. round <= MaxRounds
    BY <1>1
  <2>3. QED
    BY <1>3, <2>1, <2>2, Extended
<1>5. ToolInv'
  BY DEF IInv, ToolInv, Requested
<1>6. TypeOK'
  <2>1. tool' \in [Slots -> ToolStates]
    BY DEF Requested, ToolStates
  <2>2. phase' \in Phases
    BY DEF Requested, Phases
  <2>3. QED
    BY <1>4, <2>1, <2>2 DEF IInv, TypeOK, Requested
<1>7. QED
  BY <1>4, <1>5, <1>6 DEF IInv

LEMMA GatheredIInv == IInv /\ Gathered => IInv'
<1> SUFFICES ASSUME IInv, Gathered
             PROVE  IInv'
  OBVIOUS
<1> USE ReactAssumption DEF ReactAssumption
<1> DEFINE n == history[Len(history)].slot
           run == Min({n, MaxCalls})
<1>1. history \in Seq(Messages) /\ history # <<>> /\ round \in 1 .. MaxRounds
  BY DEF IInv, TypeOK, LoopInv, Gathered, Over
<1>2. n \in 0 .. MaxRequests
  <2>1. Len(history) \in 1 .. Len(history)
    BY <1>1, EmptySeq
  <2>2. history[Len(history)] \in Messages
    BY <1>1, <2>1, ElementOfSeq
  <2>3. QED
    BY <2>2 DEF Messages
<1>3. run \in Nat /\ run <= n
  <2>1. {n, MaxCalls} \in SUBSET Nat /\ {n, MaxCalls} # {}
    BY <1>2
  <2>2. run \in {n, MaxCalls} /\ \A x \in {n, MaxCalls} : run <= x
    BY <2>1, MinIsLeast
  <2>3. QED
    BY <2>1, <2>2
<1>4. Observations(n) \in Seq(Messages)
  BY <1>1, <1>2, ObservationsType DEF IInv
<1>5. history' = history \o Observations(n) /\ made' = made + run /\ rejected' = rejected + n - run
  BY DEF Gathered
<1>6. history' \in Seq(Messages) /\ LoopInv' /\ CacheInv' /\ CoverInv'
  <2>1. phase \notin Over /\ phase' \notin {"summarizing", "calling"} /\ UNCHANGED <<round, cache>>
    BY DEF Gathered, Over
  <2>2. round <= MaxRounds
    BY <1>1
  <2>3. QED
    BY <1>4, <1>5, <2>1, <2>2, Extended
<1>7. ToolInv'
  BY ToolsKept DEF IInv, Gathered
<1>8. TypeOK'
  <2>1. made' \in Nat /\ rejected' \in Nat
    <3> HIDE DEF n, run
    <3>1. n \in Nat /\ made \in Nat /\ rejected \in Nat
      BY <1>2 DEF IInv, TypeOK
    <3>2. QED
      BY <1>3, <1>5, <3>1
  <2>2. tool' \in [Slots -> ToolStates] /\ answer' \in [Slots -> {"none", "yes", "no"}] /\ ran' \in [Slots -> Nat]
    BY ToolsKept DEF IInv, Gathered
  <2>3. phase' \in Phases
    BY DEF Gathered, Phases
  <2>4. QED
    BY <1>6, <2>1, <2>2, <2>3 DEF IInv, TypeOK, Gathered
<1>9. QED
  BY <1>6, <1>7, <1>8 DEF IInv

\* The turn ends without an answer.
LEMMA EndedIInv == IInv /\ (Raised \/ Reraised \/ MaxIterations) => IInv'
<1> SUFFICES ASSUME IInv, Raised \/ Reraised \/ MaxIterations
             PROVE  IInv'
  OBVIOUS
<1>1. phase' \in Over /\ UNCHANGED <<policy, loopVars>> /\ (Forget \/ (UNCHANGED toolVars /\ phase # "tools"))
  BY DEF Raised, Reraised, MaxIterations, Over
<1>2. ToolInv' /\ tool' \in [Slots -> ToolStates]
      /\ answer' \in [Slots -> {"none", "yes", "no"}] /\ ran' \in [Slots -> Nat]
  BY <1>1, ToolsKept DEF IInv
<1>3. TypeOK'
  BY <1>1, <1>2 DEF IInv, TypeOK, loopVars, Phases
<1>4. LoopInv' /\ CacheInv' /\ CoverInv'
  BY <1>1 DEF LoopInv, CacheInv, CoverInv, Over
<1>5. QED
  BY <1>2, <1>3, <1>4 DEF IInv

LEMMA SavedIInv == IInv /\ Saved => IInv'
<1> SUFFICES ASSUME IInv, Saved
             PROVE  IInv'
  OBVIOUS
<1> USE ReactAssumption DEF ReactAssumption
<1>1. history # <<>> /\ round \in 1 .. MaxRounds /\ phase = "saving" /\ phase' = "top"
  BY DEF IInv, LoopInv, Saved, Over
<1>2. TypeOK'
  <2>1. round' \in 0 .. MaxRounds + 1 /\ phase' \in Phases
    <3>1. round' = round + 1 /\ MaxRounds \in Nat
      BY DEF Saved
    <3>2. QED
      BY ONLY <1>1, <3>1 DEF Phases
  <2>2. UNCHANGED <<policy, session, turn, history, window, cache, made, rejected, toolVars>>
    BY DEF Saved
  <2>3. QED
    BY <2>1, <2>2 DEF IInv, TypeOK, toolVars
<1>3. LoopInv'
  BY <1>1 DEF IInv, LoopInv, Saved, Over
<1>4. CacheInv' /\ CoverInv'
  BY <1>1 DEF IInv, CacheInv, CoverInv, Saved, Over
<1>5. ToolInv'
  BY ToolsKept DEF IInv, Saved
<1>6. QED
  BY <1>2, <1>3, <1>4, <1>5 DEF IInv
-----------------------------------------------------------------------------
(* The invariant: the tool calls. *)

\* A tool is called only from its request.
LEMMA ExecuteTypes ==
  ASSUME TypeOK, NEW i \in Slots, Execute(i)
  PROVE  /\ tool' \in [Slots -> ToolStates]
         /\ ran' \in [Slots -> Nat]
         /\ \A j \in Slots : j # i => tool'[j] = tool[j] /\ ran'[j] = ran[j]
         /\ tool'[i] \in {"executing", "ending"}
         /\ phase = "tools"
<1>1. tool \in [Slots -> ToolStates] /\ ran \in [Slots -> Nat]
  BY DEF TypeOK
<1>2. {"executing", "ending"} \subseteq ToolStates
  BY DEF ToolStates
<1>3. CASE Goto(i, "executing") /\ ran' = [ran EXCEPT ![i] = @ + 1]
  BY <1>1, <1>2, <1>3 DEF Goto
<1>4. CASE Goto(i, "ending") /\ UNCHANGED ran
  BY <1>1, <1>2, <1>4 DEF Goto
<1>5. QED
  BY <1>3, <1>4 DEF Execute

LEMMA ToolStepIInv ==
  ASSUME IInv, NEW i \in Slots, ToolStep(i)
  PROVE  IInv'
<1>1. phase = "tools" /\ UNCHANGED <<policy, phase, loopVars>>
  BY DEF ToolStep, Start, Say, Decide, Lapse, Progress, Break, CancelsItself, Execute, Goto
<1>2. /\ tool' \in [Slots -> ToolStates]
      /\ answer' \in [Slots -> {"none", "yes", "no"}]
      /\ ran' \in [Slots -> Nat]
      /\ ToolInv'
  <2> USE DEF IInv, TypeOK, ToolInv
  <2>1. CASE Start(i)
    BY <1>1, <2>1 DEF Start, Goto, ToolStates
  <2>2. CASE Say(i)
    BY <1>1, <2>2 DEF Say
  <2>3. ASSUME Execute(i), UNCHANGED answer
        PROVE  <1>2!1 /\ <1>2!2 /\ <1>2!3 /\ <1>2!4
    BY <1>1, <2>3, ExecuteTypes
  <2>4. CASE \E st \in ToolStates \ {"idle", "queued", "asking"} : Goto(i, st) /\ UNCHANGED <<ran, answer>>
    BY <1>1, <2>4 DEF Goto
  <2>5. CASE Decide(i)
    BY <2>3, <2>4, <2>5 DEF Decide, ToolStates
  <2>6. CASE Lapse(i)
    BY <2>3, <2>4, <2>6 DEF Lapse, ToolStates, Ended
  <2>7. CASE Progress(i) \/ Break(i) \/ CancelsItself(i)
    BY <2>4, <2>7 DEF Progress, Break, CancelsItself, ToolStates, Ended
  <2>8. QED
    BY <2>1, <2>2, <2>5, <2>6, <2>7 DEF ToolStep
<1>3. TypeOK' /\ LoopInv' /\ CacheInv' /\ CoverInv'
  BY <1>1, <1>2 DEF IInv, TypeOK, LoopInv, CacheInv, CoverInv, loopVars
<1>4. QED
  BY <1>2, <1>3 DEF IInv

LEMMA StutterIInv == IInv /\ UNCHANGED vars => IInv'
BY DEF IInv, TypeOK, LoopInv, ToolInv, CacheInv, CoverInv, vars, loopVars, toolVars

LEMMA NextIInv == IInv /\ [Next]_vars => IInv'
<1> SUFFICES ASSUME IInv, [Next]_vars
             PROVE  IInv'
  OBVIOUS
<1>1. CASE \E i \in Slots : ToolStep(i)
  BY <1>1, ToolStepIInv
<1>2. CASE LoopStep
  BY <1>2, NextRoundIInv, SummarizedIInv, AnsweredIInv, RequestedIInv, GatheredIInv, EndedIInv,
     SavedIInv DEF LoopStep
<1>3. CASE Raised
  BY <1>3, EndedIInv
<1>4. CASE NextTurn
  BY <1>4, NextTurnIInv
<1>5. CASE Stopped \/ UNCHANGED vars
  BY <1>5, StutterIInv DEF Stopped
<1>6. QED
  BY <1>1, <1>2, <1>3, <1>4, <1>5 DEF Next

\* The strengthened invariant holds in every session: each action of the loop, its
\* tools and its gate preserves it.
THEOREM Invariance == Spec => []IInv
BY InitIInv, NextIInv, PTL DEF Spec
-----------------------------------------------------------------------------
(* What follows. *)

\* The variables keep their types, whatever the turns and their tools do.
THEOREM TypeCorrect == Spec => []TypeOK
<1>1. IInv => TypeOK
  BY DEF IInv
<1>2. QED
  BY <1>1, Invariance, PTL

\* The gate is obeyed: a step that runs a tool finds it approved and not run.
LEMMA ApprovalStep ==
  ASSUME IInv, ApprovalHonoured, [Next]_vars
  PROVE  ApprovalHonoured'
<1> USE DEF ApprovalHonoured
<1>1. tool \in [Slots -> ToolStates] /\ ran \in [Slots -> Nat]
      /\ answer \in [Slots -> {"none", "yes", "no"}]
  BY DEF IInv, TypeOK
<1>2. CASE UNCHANGED <<policy, answer, ran>>
  BY <1>2
<1>3. CASE policy' = policy /\ Forget
  BY <1>3, IdleTypes DEF Forget
<1>4. ASSUME NEW i \in Slots, tool[i] = "asking", Execute(i), UNCHANGED <<policy, answer>>,
             policy \in {"none", "approve"} \/ answer[i] = "yes"
      PROVE  ApprovalHonoured'
  <2>1. ran[i] = 0
    BY <1>4 DEF IInv, ToolInv
  <2>2. ran' = ran \/ ran' = [ran EXCEPT ![i] = 1]
    BY <1>1, <1>4, <2>1 DEF Execute
  <2>3. QED
    BY <1>1, <1>4, <2>2
<1>5. ASSUME NEW i \in Slots, Say(i)
      PROVE  ApprovalHonoured'
  BY <1>1, <1>5 DEF Say
<1>6. ASSUME NEW i \in Slots, ToolStep(i)
      PROVE  ApprovalHonoured'
  <2>1. CASE Start(i) \/ Progress(i) \/ Break(i) \/ CancelsItself(i)
    BY <1>2, <2>1 DEF Start, Progress, Break, CancelsItself
  <2>2. CASE Decide(i)
    BY <1>2, <1>4, <2>2 DEF Decide
  <2>3. CASE Lapse(i)
    BY <1>2, <1>4, <2>3 DEF Lapse
  <2>4. QED
    BY <1>5, <1>6, <2>1, <2>2, <2>3 DEF ToolStep
<1>7. CASE LoopStep
  <2>1. CASE NextRound \/ Summarized \/ Answered \/ Saved \/ MaxIterations
    BY <1>2, <2>1 DEF NextRound, Begin, Summarized, Answered, Saved, MaxIterations, toolVars
  <2>2. CASE \E n \in 1 .. MaxRequests : Requested(n)
    BY <1>2, <2>2 DEF Requested
  <2>3. CASE Gathered \/ Reraised
    BY <1>3, <2>3 DEF Gathered, Reraised
  <2>4. QED
    BY <1>7, <2>1, <2>2, <2>3 DEF LoopStep
<1>8. CASE Raised
  BY <1>3, <1>8 DEF Raised
<1>9. CASE NextTurn \/ Stopped \/ UNCHANGED vars
  BY <1>2, <1>9 DEF NextTurn, Stopped, vars, toolVars
<1>10. QED
  BY <1>6, <1>7, <1>8, <1>9 DEF Next

\* A tool runs once, and only when its request was approved, whatever the gate's
\* policy, the timeouts and the late answers.
THEOREM Approvals == Spec => []ApprovalHonoured
<1>1. Init => ApprovalHonoured
  BY IdleTypes DEF Init, ApprovalHonoured
<1>2. IInv /\ ApprovalHonoured /\ [Next]_vars => ApprovalHonoured'
  BY ApprovalStep
<1>3. QED
  BY <1>1, <1>2, Invariance, PTL DEF Spec

LEMMA FirstAndRest ==
  ASSUME NEW x \in Messages, NEW r \in Seq(Messages)
  PROVE  /\ <<x>> \o r \in Seq(Messages)
         /\ Len(<<x>> \o r) = 1 + Len(r)
         /\ (<<x>> \o r)[1] = x
         /\ \A i \in 1 .. Len(r) : (<<x>> \o r)[i + 1] = r[i]
         /\ Tail(<<x>> \o r) = r
<1> DEFINE s == <<x>> \o r
<1>1. Len(r) \in Nat /\ <<x>> \in Seq(Messages) /\ Len(<<x>>) = 1 /\ <<x>>[1] = x
  BY LenProperties
<1>2. /\ s \in Seq(Messages) /\ Len(s) = 1 + Len(r)
      /\ \A i \in 1 .. 1 + Len(r) : s[i] = IF i <= 1 THEN <<x>>[i] ELSE r[i - 1]
  BY <1>1, ConcatProperties
<1>3. s[1] = x
  BY <1>1, <1>2
<1>4. \A i \in 1 .. Len(r) : s[i + 1] = r[i]
  <2>1. TAKE i \in 1 .. Len(r)
  <2>2. i + 1 \in 1 .. 1 + Len(r) /\ ~(i + 1 <= 1) /\ (i + 1) - 1 = i
    BY <1>1
  <2>3. QED
    BY <1>2, <2>2
<1>5. Tail(s) = r
  <2> HIDE DEF s
  <2>1. s # <<>>
    BY <1>1, <1>2, EmptySeq
  <2>2. /\ Tail(s) \in Seq(Messages) /\ Len(Tail(s)) = Len(r)
        /\ \A i \in 1 .. Len(r) : Tail(s)[i] = s[i + 1]
    BY <1>1, <1>2, <2>1, HeadTailProperties
  <2>3. QED
    BY <1>4, <2>2, SeqEqual
<1>6. QED
  BY <1>2, <1>3, <1>4, <1>5

\* Where the window leaves messages out, the summary has them.
LEMMA SummaryFills ==
  ASSUME NEW h \in Seq(Messages), h # <<>>, Trim(h) # h
  PROVE  <<Trim(h)[1]>> \o Dropped(h, Trim(h)) \o Tail(Trim(h)) = h
<1> DEFINE c == Cut(h)
           rest == SubSeq(h, c, Len(h))
<1>1. /\ Trim(h) = <<h[1]>> \o rest
      /\ Dropped(h, Trim(h)) = SubSeq(h, 2, c - 1)
  BY TrimKeeps DEF Dropped
<1>2. Len(h) \in Nat /\ Len(h) >= 1 /\ h[1] \in Messages /\ c \in 2 .. Len(h) + 1
  BY EmptySeq, ElementOfSeq, CutIsBlock
<1>3. rest \in Seq(Messages) /\ <<h[1]>> \in Seq(Messages)
  BY <1>2, SubSeqProperties, ElementOfSeq
<1>4. Trim(h)[1] = h[1] /\ Tail(Trim(h)) = rest
  <2> HIDE DEF c, rest
  <2>1. (<<h[1]>> \o rest)[1] = h[1] /\ Tail(<<h[1]>> \o rest) = rest
    BY <1>2, <1>3, FirstAndRest
  <2>2. QED
    BY <1>1, <2>1
<1>5. <<h[1]>> = SubSeq(h, 1, 1)
  BY <1>2
<1>6. SubSeq(h, 1, 1) \o SubSeq(h, 2, c - 1) = SubSeq(h, 1, c - 1)
  BY <1>2, ConcatAdjacentSubSeq
<1>7. SubSeq(h, 1, c - 1) \o rest = SubSeq(h, 1, Len(h))
  <2>1. 1 \in 1 .. Len(h) + 1 /\ c - 1 \in 1 - 1 .. Len(h) /\ Len(h) \in c - 1 .. Len(h)
    BY <1>2
  <2>2. SubSeq(h, 1, c - 1) \o SubSeq(h, (c - 1) + 1, Len(h)) = SubSeq(h, 1, Len(h))
    BY <2>1, ConcatAdjacentSubSeq
  <2>3. (c - 1) + 1 = c
    BY <1>2
  <2>4. QED
    BY <2>2, <2>3
<1>8. QED
  BY <1>1, <1>4, <1>5, <1>6, <1>7, SubSeqFull

\* A summary, new or from the cache, covers exactly what its window lacks.
THEOREM Summaries == Spec => []SummaryFaithful
<1>1. IInv => SummaryFaithful
  <2> SUFFICES ASSUME IInv, phase = "calling", Summarizing
               PROVE  <<window.kept[1]>> \o window.covers \o Tail(window.kept) = history
    BY DEF SummaryFaithful
  <2>1. history \in Seq(Messages) /\ history # <<>> /\ window.kept = Trim(history)
    BY DEF IInv, TypeOK, LoopInv, Over
  <2>2. CASE Trim(history) # history
    BY <2>1, <2>2, SummaryFills DEF IInv, CoverInv
  <2>3. CASE Trim(history) = history
    <3>1. window.covers = <<>> /\ window.kept = history
      BY <2>1, <2>3 DEF IInv, CoverInv
    <3>2. Len(history) >= 1 /\ Len(history) \in Nat /\ history[1] \in Messages
      BY <2>1, EmptySeq, ElementOfSeq
    <3>3. <<history[1]>> = SubSeq(history, 1, 1) /\ Tail(history) = SubSeq(history, 2, Len(history))
      BY <2>1, <3>2, TailIsSubSeq
    <3>4. SubSeq(history, 1, 1) \o SubSeq(history, 2, Len(history)) = history
      <4>1. 1 \in 1 .. Len(history) + 1 /\ 1 \in 1 - 1 .. Len(history) /\ Len(history) \in 1 .. Len(history)
        BY <3>2
      <4>2. SubSeq(history, 1, 1) \o SubSeq(history, 1 + 1, Len(history)) = SubSeq(history, 1, Len(history))
        BY <2>1, <4>1, ConcatAdjacentSubSeq
      <4>3. 1 + 1 = 2
        OBVIOUS
      <4>4. QED
        BY <2>1, <4>2, <4>3, SubSeqFull
    <3>5. <<history[1]>> \o <<>> = <<history[1]>>
      BY <3>2
    <3>6. QED
      BY <3>1, <3>3, <3>4, <3>5
  <2>4. QED
    BY <2>2, <2>3
<1>2. QED
  BY <1>1, Invariance, PTL
-----------------------------------------------------------------------------
(* Complete transcripts. *)

LEMMA CompleteConcat ==
  ASSUME NEW a \in Seq(Messages), NEW b \in Seq(Messages), Complete(a), Complete(b)
  PROVE  Complete(a \o b)
<1> DEFINE s == a \o b
           n == Len(a)
<1>1. n \in Nat /\ Len(b) \in Nat /\ DOMAIN a = 1 .. n /\ DOMAIN b = 1 .. Len(b)
  BY LenProperties
<1>2. s \in Seq(Messages) /\ DOMAIN s = 1 .. n + Len(b)
  BY <1>1, ConcatProperties, LenProperties
<1>3. \A k \in 1 .. n : s[k] = a[k] /\ k \in DOMAIN s
  BY <1>1, <1>2, ConcatProperties
<1>4. \A k \in 1 .. Len(b) : s[n + k] = b[k] /\ n + k \in DOMAIN s
  <2>1. TAKE k \in 1 .. Len(b)
  <2>2. n + k \in 1 .. n + Len(b) /\ ~(n + k <= n) /\ (n + k) - n = k
    BY <1>1
  <2>3. QED
    BY <1>1, <1>2, <2>2, ConcatProperties
<1>5. \A k \in DOMAIN s : k \in 1 .. n \/ \E j \in 1 .. Len(b) : k = n + j
  <2>1. TAKE k \in DOMAIN s
  <2>2. k \in 1 .. n \/ (k - n \in 1 .. Len(b) /\ k = n + (k - n))
    BY <1>1, <1>2
  <2>3. QED
    BY <2>2
<1>6. \A k \in DOMAIN s : s[k] \in Messages
  BY <1>2, ElementOfSeq, LenProperties
<1> HIDE DEF s, n
<1>7. ASSUME NEW k \in DOMAIN s, s[k].role = "call", NEW i \in 1 .. s[k].slot
      PROVE  k + i \in DOMAIN s /\ s[k + i] = Message("tool", s[k].turn, s[k].round, i)
  <2>1. CASE k \in 1 .. n
    <3>1. k + i \in 1 .. n /\ a[k + i] = Message("tool", a[k].turn, a[k].round, i)
      BY <1>1, <1>3, <1>7, <2>1 DEF Complete
    <3>2. QED
      BY <1>3, <2>1, <3>1
  <2>2. ASSUME NEW j \in 1 .. Len(b), k = n + j
        PROVE  k + i \in DOMAIN s /\ s[k + i] = Message("tool", s[k].turn, s[k].round, i)
    <3>1. s[k] = b[j]
      BY <1>4, <2>2
    <3>2. j + i \in 1 .. Len(b) /\ b[j + i] = Message("tool", b[j].turn, b[j].round, i)
      BY <1>1, <1>7, <3>1 DEF Complete
    <3>3. s[n + (j + i)] = b[j + i] /\ n + (j + i) \in DOMAIN s
      BY <1>4, <3>2
    <3>4. k + i = n + (j + i)
      <4>1. s[k].slot \in Nat
        BY <1>6, ReactAssumption DEF Messages, ReactAssumption
      <4>2. QED
        BY <1>1, <2>2, <4>1
    <3>5. QED
      BY <3>1, <3>2, <3>3, <3>4
  <2>3. QED
    BY <1>5, <2>1, <2>2
<1>8. ASSUME NEW k \in DOMAIN s, s[k].role = "tool"
      PROVE  LET c == k - s[k].slot IN
             c \in DOMAIN s /\ s[c].role = "call" /\ s[k].slot <= s[c].slot
  <2>1. CASE k \in 1 .. n
    <3>1. LET c == k - a[k].slot IN
          c \in 1 .. n /\ a[c].role = "call" /\ a[k].slot <= a[c].slot
      BY <1>1, <1>3, <1>8, <2>1 DEF Complete
    <3>2. QED
      BY <1>3, <2>1, <3>1
  <2>2. ASSUME NEW j \in 1 .. Len(b), k = n + j
        PROVE  LET c == k - s[k].slot IN
               c \in DOMAIN s /\ s[c].role = "call" /\ s[k].slot <= s[c].slot
    <3>1. s[k] = b[j]
      BY <1>4, <2>2
    <3> DEFINE c == j - b[j].slot
    <3>2. c \in 1 .. Len(b) /\ b[c].role = "call" /\ b[j].slot <= b[c].slot
      BY <1>1, <1>8, <3>1 DEF Complete
    <3>3. k - s[k].slot = n + c
      <4>1. s[k].slot \in Nat
        BY <1>6, ReactAssumption DEF Messages, ReactAssumption
      <4>2. QED
        BY <1>1, <2>2, <3>1, <4>1
    <3>4. s[n + c] = b[c] /\ n + c \in DOMAIN s
      BY <1>4, <3>2
    <3>5. QED
      BY <3>1, <3>2, <3>3, <3>4
  <2>3. QED
    BY <1>5, <2>1, <2>2
<1>9. QED
  BY <1>7, <1>8 DEF Complete, s

\* A message that neither requests tools nor reports a result is complete.
LEMMA CompleteSingle ==
  ASSUME NEW m \in Messages, m.role \in {"user", "system", "answer"}
  PROVE  <<m>> \in Seq(Messages) /\ Complete(<<m>>)
<1>1. <<m>> \in Seq(Messages) /\ Len(<<m>>) = 1 /\ <<m>>[1] = m
  OBVIOUS
<1>2. DOMAIN <<m>> = 1 .. 1
  BY <1>1, LenProperties
<1>3. \A k \in DOMAIN <<m>> : <<m>>[k].role \notin {"call", "tool"}
  BY <1>1, <1>2
<1>4. QED
  BY <1>1, <1>3 DEF Complete

\* A round of tool calls: the request and one result for each.
LEMMA CompleteRound ==
  ASSUME TypeOK, round <= MaxRounds, NEW n \in 0 .. MaxRequests
  PROVE  Complete(<<Message("call", turn, round, n)>> \o Observations(n))
<1> DEFINE request == Message("call", turn, round, n)
           s == <<request>> \o Observations(n)
<1>1. n \in Nat /\ n \in 0 .. MaxRequests /\ round \in 0 .. MaxRounds /\ turn \in 0 .. MaxTurns
  BY ReactAssumption DEF ReactAssumption, TypeOK
<1>2. request \in Messages
  BY <1>1, MessageType
<1>3. Observations(n) \in Seq(Messages) /\ Len(Observations(n)) = n
  BY ObservationsType
<1>4. s \in Seq(Messages) /\ Len(s) = 1 + n /\ s[1] = request
      /\ \A i \in 1 .. n : s[i + 1] = Observations(n)[i]
  BY <1>2, <1>3, FirstAndRest
<1>5. DOMAIN s = 1 .. 1 + n
  BY <1>4, LenProperties
<1>6. \A i \in 1 .. n : s[i + 1] = Message("tool", turn, round, i)
  BY <1>4 DEF Observations
<1> HIDE DEF s
<1>7. ASSUME NEW k \in DOMAIN s
      PROVE  k = 1 \/ (k - 1 \in 1 .. n /\ s[k] = Message("tool", turn, round, k - 1))
  <2>1. CASE k # 1
    <3>1. k - 1 \in 1 .. n /\ (k - 1) + 1 = k
      BY <1>1, <1>5, <2>1
    <3>2. QED
      BY <1>6, <3>1
  <2>2. QED
    BY <2>1
<1>8. ASSUME NEW k \in DOMAIN s, s[k].role = "call", NEW i \in 1 .. s[k].slot
      PROVE  k + i \in DOMAIN s /\ s[k + i] = Message("tool", s[k].turn, s[k].round, i)
  <2>1. k = 1 /\ s[k] = request
    BY <1>4, <1>7, <1>8 DEF Message
  <2>2. i \in 1 .. n
    BY <2>1 DEF Message
  <2>3. k + i = i + 1 /\ i + 1 \in DOMAIN s
    BY <1>1, <1>5, <2>1, <2>2
  <2>4. s[k].turn = turn /\ s[k].round = round
    BY <2>1 DEF Message
  <2>5. QED
    BY <1>6, <2>1, <2>2, <2>3, <2>4
<1>9. ASSUME NEW k \in DOMAIN s, s[k].role = "tool"
      PROVE  LET c == k - s[k].slot IN
             c \in DOMAIN s /\ s[c].role = "call" /\ s[k].slot <= s[c].slot
  <2>1. k - 1 \in 1 .. n /\ s[k] = Message("tool", turn, round, k - 1)
    BY <1>4, <1>7, <1>9 DEF Message
  <2>2. s[k].slot = k - 1 /\ k \in Nat
    BY <1>1, <1>5, <2>1 DEF Message
  <2>3. k - s[k].slot = 1 /\ 1 \in DOMAIN s
    BY <1>1, <1>5, <2>2
  <2>4. s[1].role = "call" /\ s[1].slot = n
    BY <1>4 DEF Message
  <2>5. QED
    BY <1>1, <2>1, <2>2, <2>3, <2>4
<1>10. QED
  BY <1>8, <1>9 DEF Complete, s

\* The transcript begins with the user's message, which belongs to no round, and
\* lacks no results but those of the round under way.
TranscriptInv ==
    /\ session # <<>> => session[1].role = "user"
    /\ phase \notin Over => history[1].role = "user"
    /\ phase = "tools" =>
           \E h \in Seq(Messages), n \in 0 .. MaxRequests :
               /\ history = h \o <<Message("call", turn, round, n)>>
               /\ Complete(h)
    /\ TranscriptComplete

\* Adding to a transcript does not change its first message.
LEMMA FirstStays ==
  ASSUME NEW h \in Seq(Messages), h # <<>>, NEW e \in Seq(Messages)
  PROVE  (h \o e)[1] = h[1] /\ h \o e # <<>>
<1>1. Len(h) \in Nat /\ Len(h) >= 1 /\ Len(e) \in Nat
  BY EmptySeq, LenProperties
<1>2. QED
  BY <1>1, ConcatProperties, ConcatEqualIffEmpty

LEMMA TranscriptStep ==
  ASSUME IInv, TranscriptInv, [Next]_vars
  PROVE  TranscriptInv'
<1> USE ReactAssumption DEF ReactAssumption
<1>1. history \in Seq(Messages) /\ session \in Seq(Messages)
      /\ (phase \notin Over => history # <<>>)
  BY DEF IInv, TypeOK, LoopInv
<1>3. ASSUME UNCHANGED <<session, history, turn, round>>,
             phase' # phase => phase' \in {"raised", "maxed"}
                            \/ {phase, phase'} \subseteq {"top", "summarizing", "calling", "saving"}
      PROVE  TranscriptInv'
  BY <1>3 DEF TranscriptInv, TranscriptComplete, Over
<1>4. CASE NextTurn
  <2> DEFINE user == Message("user", turn + 1, 0, 0)
  <2>1. user \in Messages /\ user.role = "user"
    <3>1. turn \in 0 .. MaxTurns /\ turn < MaxTurns
      BY <1>4 DEF IInv, TypeOK, NextTurn
    <3>2. QED
      BY <3>1, FirstMessage
  <2> HIDE DEF user
  <2>2. <<user>> \in Seq(Messages) /\ Complete(<<user>>)
    BY <2>1, CompleteSingle
  <2>3. history' = session \o <<user>>
    BY <1>1, <1>4, <2>1, AppendIsConcat DEF NextTurn, user
  <2>4. Complete(history')
    BY <1>1, <2>2, <2>3, CompleteConcat DEF TranscriptInv, TranscriptComplete
  <2>5. history'[1].role = "user"
    <3>1. CASE session = <<>>
      <4>1. history' = <<user>>
        BY <2>2, <2>3, <3>1, ConcatEmptySeq
      <4>2. QED
        BY <2>1, <4>1
    <3>2. CASE session # <<>>
      BY <1>1, <2>2, <2>3, <3>2, FirstStays DEF TranscriptInv
    <3>3. QED
      BY <3>1, <3>2
  <2>6. QED
    BY <1>4, <2>4, <2>5 DEF TranscriptInv, TranscriptComplete, NextTurn, Over
<1>5. CASE Answered
  <2> DEFINE answered == Message("answer", turn, round, 0)
  <2>1. answered \in Messages /\ answered.role = "answer"
    <3>1. round \in 0 .. MaxRounds /\ turn \in 0 .. MaxTurns
      BY <1>5 DEF IInv, TypeOK, LoopInv, Answered
    <3>2. QED
      BY <3>1, MessageType DEF Message
  <2> HIDE DEF answered
  <2>2. <<answered>> \in Seq(Messages) /\ Complete(<<answered>>)
    BY <2>1, CompleteSingle
  <2>3. history' = history \o <<answered>> /\ session' = history'
    BY <1>1, <1>5, <2>1, AppendIsConcat DEF Answered, answered
  <2>4. Complete(history')
    BY <1>1, <1>5, <2>2, <2>3, CompleteConcat DEF TranscriptInv, TranscriptComplete, Answered
  <2>5. history'[1].role = "user"
    BY <1>1, <1>5, <2>2, <2>3, FirstStays DEF TranscriptInv, Answered, Over
  <2>6. QED
    BY <1>5, <2>3, <2>4, <2>5 DEF TranscriptInv, TranscriptComplete, Answered, Over
<1>6. ASSUME NEW n \in 1 .. MaxRequests, Requested(n)
      PROVE  TranscriptInv'
  <2> DEFINE request == Message("call", turn, round, n)
  <2>1. request \in Messages /\ n \in 0 .. MaxRequests
    <3>1. round \in 0 .. MaxRounds /\ turn \in 0 .. MaxTurns
      BY <1>6 DEF IInv, TypeOK, LoopInv, Requested
    <3>2. QED
      BY <3>1, MessageType
  <2>2. <<request>> \in Seq(Messages) /\ history' = history \o <<request>>
    BY <1>1, <1>6, <2>1, AppendIsConcat DEF Requested
  <2>3. Complete(history)
    BY <1>6 DEF TranscriptInv, TranscriptComplete, Requested
  <2>4. history'[1].role = "user"
    BY <1>1, <1>6, <2>2, FirstStays DEF TranscriptInv, Requested, Over
  <2>5. UNCHANGED <<session, turn, round>> /\ phase' = "tools"
    BY <1>6 DEF Requested
  <2>6. \E h \in Seq(Messages), m \in 0 .. MaxRequests :
          history' = h \o <<Message("call", turn', round', m)>> /\ Complete(h)
    BY <1>1, <2>1, <2>2, <2>3, <2>5
  <2>7. QED
    BY <2>4, <2>5, <2>6 DEF TranscriptInv, TranscriptComplete
<1>7. CASE Gathered
  <2>1. PICK h \in Seq(Messages), m \in 0 .. MaxRequests :
          history = h \o <<Message("call", turn, round, m)>> /\ Complete(h)
    BY <1>7 DEF TranscriptInv, Gathered
  <2> DEFINE request == Message("call", turn, round, m)
             n == history[Len(history)].slot
  <2>2. round <= MaxRounds /\ request \in Messages
    <3>1. round \in 0 .. MaxRounds /\ turn \in 0 .. MaxTurns
      BY <1>7 DEF IInv, TypeOK, LoopInv, Gathered
    <3>2. QED
      BY <3>1, MessageType
  <2>3. n = m
    <3>1. Len(h) \in Nat /\ <<request>> \in Seq(Messages) /\ Len(<<request>>) = 1 /\ <<request>>[1] = request
      BY <2>2, LenProperties
    <3>2. Len(history) = Len(h) + 1 /\ history[Len(h) + 1] = <<request>>[(Len(h) + 1) - Len(h)]
      BY <2>1, <3>1, ConcatProperties
    <3>3. history[Len(history)] = request
      BY <3>1, <3>2
    <3>4. QED
      BY <3>3 DEF Message
  <2>4. Observations(m) \in Seq(Messages)
    BY <2>2, ObservationsType DEF IInv
  <2>5. history' = history \o Observations(m)
    BY <1>7, <2>3 DEF Gathered
  <2>6. history' = h \o (<<request>> \o Observations(m))
    <3> HIDE DEF request
    <3>1. <<request>> \in Seq(Messages)
      BY <2>2
    <3>2. (h \o <<request>>) \o Observations(m) = h \o (<<request>> \o Observations(m))
      BY ONLY <2>1, <2>4, <3>1, ConcatAssociative
    <3>3. history = h \o <<request>>
      BY <2>1 DEF request
    <3>4. QED
      BY ONLY <2>5, <3>2, <3>3
  <2>7. <<request>> \o Observations(m) \in Seq(Messages) /\ Complete(<<request>> \o Observations(m))
    BY <2>2, <2>4, FirstAndRest, CompleteRound DEF IInv
  <2>8. Complete(history')
    <3> HIDE DEF request
    <3>1. QED
      BY <2>1, <2>6, <2>7, CompleteConcat
  <2>9. history'[1].role = "user"
    BY <1>1, <1>7, <2>4, <2>5, FirstStays DEF TranscriptInv, Gathered, Over
  <2>10. QED
    BY <1>7, <2>8, <2>9 DEF TranscriptInv, TranscriptComplete, Gathered, Over
<1>8. CASE \E i \in Slots : ToolStep(i)
  BY <1>3, <1>8 DEF ToolStep, Start, Say, Decide, Lapse, Progress, Break, CancelsItself, Execute,
     Goto, loopVars
<1>9. CASE NextRound \/ Summarized \/ Saved
  <2>1. UNCHANGED <<session, history, turn>> /\ {phase, phase'} \subseteq {"top", "summarizing", "calling", "saving"}
    BY <1>9 DEF NextRound, Begin, Summarized, Saved
  <2>2. QED
    BY <2>1 DEF TranscriptInv, TranscriptComplete, Over
<1>10. CASE Raised \/ Reraised \/ MaxIterations
  BY <1>3, <1>10 DEF Raised, Reraised, MaxIterations, loopVars
<1>11. CASE Stopped \/ UNCHANGED vars
  BY <1>3, <1>11 DEF Stopped, vars, loopVars
<1>12. QED
  BY <1>4, <1>5, <1>6, <1>7, <1>8, <1>9, <1>10, <1>11 DEF Next, LoopStep

LEMMA TranscriptInvariance == Spec => []TranscriptInv
<1>1. Init => TranscriptInv
  <2> SUFFICES ASSUME Init
               PROVE  TranscriptInv
    OBVIOUS
  <2>1. Complete(<<>>)
    BY DEF Complete
  <2>2. QED
    BY <2>1 DEF Init, TranscriptInv, TranscriptComplete, Over
<1>2. IInv /\ TranscriptInv /\ [Next]_vars => TranscriptInv'
  BY TranscriptStep
<1>3. QED
  BY <1>1, <1>2, Invariance, PTL DEF Spec

\* Every request in a transcript that is sent on or kept has its results, whatever
\* the tools did.
THEOREM Transcripts == Spec => []TranscriptComplete
<1>1. TranscriptInv => TranscriptComplete
  BY DEF TranscriptInv
<1>2. QED
  BY <1>1, TranscriptInvariance, PTL

\* Trimming never separates a result from its request: a tail that starts at a
\* block has the request of every result in it.
LEMMA TailComplete ==
  ASSUME NEW h \in Seq(Messages), Complete(h), NEW c \in BlockStarts(h)
  PROVE  Complete(SubSeq(h, c, Len(h)))
<1> DEFINE len == Len(h)
           s == SubSeq(h, c, len)
           off == c - 1
<1>1. len \in Nat /\ DOMAIN h = 1 .. len /\ c \in 1 .. len + 1 /\ off \in Nat
      /\ (c <= len => h[c].role # "tool")
  BY LenProperties DEF BlockStarts
<1>2. s \in Seq(Messages) /\ DOMAIN s = 1 .. len - off
  <2>1. \A i \in c .. len : h[i] \in Messages
    BY <1>1, ElementOfSeq
  <2>2. s \in Seq(Messages) /\ Len(s) = len - off
    BY <1>1, <2>1, SubSeqProperties
  <2>3. QED
    BY <2>2, LenProperties
<1>3. \A k \in 1 .. len - off : s[k] = h[off + k] /\ off + k \in c .. len
  <2>1. TAKE k \in 1 .. len - off
  <2>2. \A i \in c .. len : h[i] \in Messages
    BY <1>1, ElementOfSeq
  <2>3. k \in 1 .. len - c + 1
    BY <1>1
  <2>4. s[k] = h[c + k - 1]
    BY <1>1, <2>2, <2>3, SubSeqProperties
  <2>5. c + k - 1 = off + k /\ off + k \in c .. len
    BY <1>1
  <2>6. QED
    BY <2>4, <2>5
<1>4. \A k \in 1 .. len : h[k].slot \in Nat
  <2>1. TAKE k \in 1 .. len
  <2>2. h[k] \in Messages
    BY ElementOfSeq
  <2>3. h[k].slot \in 0 .. MaxRequests
    BY ONLY <2>2 DEF Messages
  <2>4. QED
    BY ONLY <2>3
<1> HIDE DEF s, len, off
<1>5. ASSUME NEW k \in DOMAIN s, s[k].role = "call", NEW i \in 1 .. s[k].slot
      PROVE  k + i \in DOMAIN s /\ s[k + i] = Message("tool", s[k].turn, s[k].round, i)
  <2>1. k \in 1 .. len - off /\ off + k \in 1 .. len /\ s[k] = h[off + k]
    BY <1>1, <1>2, <1>3, <1>5 DEF off
  <2>2. (off + k) + i \in 1 .. len /\ h[(off + k) + i] = Message("tool", s[k].turn, s[k].round, i)
    BY <1>1, <1>5, <2>1 DEF Complete
  <2>3. i \in Nat
    BY <1>4, <1>5, <2>1
  <2>4. k + i \in 1 .. len - off /\ off + (k + i) = (off + k) + i
    BY <1>1, <2>1, <2>2, <2>3
  <2>5. QED
    BY <1>2, <1>3, <2>2, <2>4
<1>6. ASSUME NEW k \in DOMAIN s, s[k].role = "tool"
      PROVE  LET q == k - s[k].slot IN
             q \in DOMAIN s /\ s[q].role = "call" /\ s[k].slot <= s[q].slot
  <2> DEFINE p == off + k
             r == p - h[p].slot
  <2>1. k \in 1 .. len - off /\ p \in c .. len /\ p \in 1 .. len /\ s[k] = h[p]
    <3>1. k \in 1 .. len - off
      BY <1>2, <1>6
    <3>2. s[k] = h[p] /\ p \in c .. len
      BY <1>3, <3>1
    <3>3. QED
      BY <1>1, <3>1, <3>2
  <2>2. r \in 1 .. len /\ h[r].role = "call" /\ h[p].slot <= h[r].slot
    BY <1>1, <1>6, <2>1 DEF Complete
  <2>3. h[p].slot \in Nat /\ h[r].slot \in Nat
    BY <1>4, <2>1, <2>2
  <2>4. r >= c
    <3>0. SUFFICES ASSUME r < c
                   PROVE  FALSE
      BY <1>1, <2>2
    <3>1. c \in 1 .. len /\ c - r \in 1 .. h[r].slot /\ r + (c - r) = c
      <4> DEFINE own == h[p].slot
                 last == h[r].slot
      <4>1. c \in 1 .. len /\ len \in Nat /\ p \in c .. len
        BY <1>1, <2>1
      <4>2. r = p - own /\ r \in 1 .. len /\ r < c /\ own <= last
        BY <2>2, <3>0
      <4>3. own \in Nat /\ last \in Nat
        BY <2>3
      <4> HIDE DEF p, r, own, last
      <4>4. c - r \in 1 .. last
        BY ONLY <4>1, <4>2, <4>3
      <4>5. r + (c - r) = c
        BY ONLY <4>1, <4>2
      <4>6. QED
        BY <4>1, <4>4, <4>5 DEF last
    <3>2. h[c] = Message("tool", h[r].turn, h[r].round, c - r)
      <4> HIDE DEF r
      <4>1. QED
        BY <1>1, <2>2, <3>1 DEF Complete
    <3>3. QED
      BY <1>1, <3>1, <3>2 DEF Message
  <2>5. k - s[k].slot \in 1 .. len - off /\ off + (k - s[k].slot) = r
    <3> DEFINE own == h[p].slot
    <3>1. s[k].slot = own /\ own \in Nat /\ r = p - own /\ p = off + k
      BY <2>1, <2>3
    <3>2. k \in 1 .. len - off /\ len \in Nat /\ off \in Nat /\ off = c - 1 /\ c \in Nat
      BY <1>1, <2>1 DEF off
    <3>3. r \in 1 .. len /\ r >= c
      BY <2>2, <2>4
    <3> HIDE DEF p, r, own
    <3>4. off + (k - own) = r
      BY ONLY <3>1, <3>2
    <3>5. k - own \in 1 .. len - off
      BY ONLY <3>1, <3>2, <3>3
    <3>6. QED
      BY ONLY <3>1, <3>4, <3>5
  <2>6. s[k - s[k].slot] = h[r]
    BY <1>3, <2>5
  <2>7. QED
    BY <1>2, <2>1, <2>2, <2>5, <2>6
<1>7. QED
  BY <1>5, <1>6 DEF Complete, s, len

LEMMA TrimComplete ==
  ASSUME NEW h \in Seq(Messages), h # <<>>, Complete(h), h[1].role = "user"
  PROVE  /\ Complete(Trim(h)) /\ Trim(h) # <<>>
         /\ Trim(h)[1] = h[1]
         /\ Len(Trim(h)) <= MaxHistory
<1> DEFINE rest == SubSeq(h, Cut(h), Len(h))
<1>1. Len(h) \in Nat /\ Len(h) >= 1 /\ h[1] \in Messages /\ MaxHistory \in Nat
  BY EmptySeq, ElementOfSeq, ReactAssumption DEF ReactAssumption
<1>2. Cut(h) \in BlockStarts(h) /\ Cut(h) \in 2 .. Len(h) + 1 /\ Len(h) + 1 - Cut(h) < MaxHistory
  BY CutIsBlock
<1>3. CASE Len(h) <= MaxHistory
  BY <1>3 DEF Trim
<1>4. CASE ~(Len(h) <= MaxHistory)
  <2>1. Trim(h) = <<h[1]>> \o rest
    BY <1>4 DEF Trim
  <2>2. Complete(rest)
    BY <1>2, TailComplete
  <2>3. rest \in Seq(Messages) /\ Len(rest) = Len(h) + 1 - Cut(h)
    BY <1>1, <1>2, SubSeqProperties, ElementOfSeq
  <2>4. <<h[1]>> \in Seq(Messages) /\ Complete(<<h[1]>>)
    BY <1>1, CompleteSingle
  <2> HIDE DEF rest
  <2>5. Complete(<<h[1]>> \o rest)
    BY <2>2, <2>3, <2>4, CompleteConcat
  <2>6. (<<h[1]>> \o rest)[1] = h[1] /\ Len(<<h[1]>> \o rest) = 1 + Len(rest)
    BY <1>1, <2>3, FirstAndRest
  <2>7. <<h[1]>> \o rest # <<>>
    BY <1>1, <2>3, <2>4, <2>6, EmptySeq, ConcatProperties
  <2>8. QED
    BY <1>1, <1>2, <2>1, <2>3, <2>5, <2>6, <2>7
<1>5. QED
  BY <1>3, <1>4

\* Behind the prompt a transcript starts with a whole block.
LEMMA RestComplete ==
  ASSUME NEW h \in Seq(Messages), h # <<>>, Complete(h), h[1].role = "user"
  PROVE  /\ Tail(h) \in Seq(Messages) /\ Complete(Tail(h))
         /\ Len(h) \in Nat /\ Len(Tail(h)) = Len(h) - 1
<1>1. Len(h) \in Nat /\ Len(h) >= 1 /\ DOMAIN h = 1 .. Len(h)
  BY EmptySeq, LenProperties
<1>2. Tail(h) \in Seq(Messages) /\ Len(Tail(h)) = Len(h) - 1
  BY <1>1
<1>3. 2 \in BlockStarts(h)
  <2>1. CASE Len(h) = 1
    BY <2>1 DEF BlockStarts
  <2>2. CASE Len(h) # 1
    <3>1. 2 \in DOMAIN h /\ h[2] \in Messages
      BY <1>1, <2>2, ElementOfSeq
    <3>2. h[2].slot \in Nat
      <4>1. h[2].slot \in 0 .. MaxRequests
        BY ONLY <3>1 DEF Messages
      <4>2. QED
        BY <4>1
    <3>3. ASSUME h[2].role = "tool"
          PROVE  FALSE
      <4>1. /\ 2 - h[2].slot \in DOMAIN h /\ h[2 - h[2].slot].role = "call"
        BY <3>1, <3>3 DEF Complete
      <4>2. 2 - h[2].slot = 1 \/ 2 - h[2].slot = 2
        BY <1>1, <3>2, <4>1
      <4>3. QED
        BY <3>3, <4>1, <4>2
    <3>4. QED
      BY <1>1, <3>1, <3>3 DEF BlockStarts
  <2>3. QED
    BY <2>1, <2>2
<1>4. Complete(SubSeq(h, 2, Len(h)))
  BY <1>3, TailComplete
<1>5. Tail(h) = SubSeq(h, 2, Len(h))
  BY <1>1, TailIsSubSeq
<1>6. QED
  BY <1>1, <1>2, <1>4, <1>5

\* What the provider is sent is a complete transcript with its first message,
\* within the limit but for a summary.
THEOREM Windows == Spec => []WindowComplete
<1>1. IInv /\ TranscriptInv => WindowComplete
  <2> DEFINE limit == IF window.covers = <<>> THEN MaxHistory ELSE MaxHistory + 1
             note == Message("system", turn, round, 0)
             kept == window.kept
  <2> SUFFICES ASSUME IInv, TranscriptInv, phase \in {"summarizing", "calling"}
               PROVE  Complete(Sent) /\ Sent[1] = history[1] /\ Len(Sent) <= limit
    BY DEF WindowComplete
  <2>1. history \in Seq(Messages) /\ history # <<>> /\ kept = Trim(history)
    BY DEF IInv, TypeOK, LoopInv, Over
  <2>2. Complete(history) /\ history[1].role = "user"
    BY DEF TranscriptInv, TranscriptComplete, Over
  <2>3. Complete(kept) /\ kept[1] = history[1] /\ Len(kept) <= MaxHistory
    BY <2>1, <2>2, TrimComplete
  <2>4. CASE window.covers = <<>>
    BY <2>3, <2>4 DEF Sent
  <2>5. CASE window.covers # <<>>
    <3>1. kept \in Seq(Messages) /\ kept # <<>> /\ kept[1] \in Messages
      <4>1. kept \in Seq(Messages)
        BY DEF IInv, TypeOK
      <4>2. kept # <<>>
        BY <2>1, <2>2, TrimComplete
      <4>3. QED
        BY <4>1, <4>2, EmptySeq, ElementOfSeq
    <3>2. /\ Tail(kept) \in Seq(Messages) /\ Complete(Tail(kept))
          /\ Len(kept) \in Nat /\ Len(Tail(kept)) = Len(kept) - 1
      BY <2>2, <2>3, <3>1, RestComplete
    <3>3. note \in Messages
      <4>1. turn \in 0 .. MaxTurns /\ round \in 0 .. MaxRounds
        BY DEF IInv, TypeOK, LoopInv, Over
      <4>2. 0 \in 0 .. MaxRequests
        BY ReactAssumption DEF ReactAssumption
      <4>3. QED
        BY <4>1, <4>2 DEF Messages, Message
    <3>4. <<note>> \in Seq(Messages) /\ Complete(<<note>>)
      <4>1. note.role = "system"
        BY DEF Message
      <4>2. QED
        BY <3>3, <4>1, CompleteSingle
    <3> HIDE DEF note
    <3>5. <<kept[1]>> \in Seq(Messages) /\ Complete(<<kept[1]>>)
      BY <2>2, <2>3, <3>1, CompleteSingle
    <3> DEFINE rest == <<note>> \o Tail(kept)
    <3>6. /\ rest \in Seq(Messages) /\ Complete(rest) /\ Len(rest) = Len(kept)
      <4> DEFINE tail == Tail(kept)
      <4>1. tail \in Seq(Messages) /\ Complete(tail) /\ Len(kept) \in Nat /\ Len(tail) = Len(kept) - 1
        BY <3>2
      <4> HIDE DEF tail, kept
      <4>2. <<note>> \o tail \in Seq(Messages) /\ Len(<<note>> \o tail) = 1 + Len(tail)
        BY <3>3, <4>1, FirstAndRest
      <4>3. Complete(<<note>> \o tail)
        BY <3>4, <4>1, CompleteConcat
      <4>4. QED
        BY <4>1, <4>2, <4>3 DEF tail
    <3>7. Sent = <<kept[1]>> \o rest
      <4>1. Sent = <<kept[1], note>> \o Tail(kept)
        BY <2>5 DEF Sent, note
      <4>2. <<kept[1], note>> = <<kept[1]>> \o <<note>>
        BY <3>1, <3>3
      <4>3. (<<kept[1]>> \o <<note>>) \o Tail(kept) = <<kept[1]>> \o rest
        BY <3>2, <3>4, <3>5, ConcatAssociative
      <4>4. QED
        BY <4>1, <4>2, <4>3
    <3> HIDE DEF rest, kept
    <3>8. /\ Complete(<<kept[1]>> \o rest) /\ (<<kept[1]>> \o rest)[1] = kept[1]
          /\ Len(<<kept[1]>> \o rest) = 1 + Len(rest)
      BY <3>1, <3>5, <3>6, CompleteConcat, FirstAndRest
    <3>9. 1 + Len(rest) <= MaxHistory + 1
      BY <2>3, <3>2, <3>6, ReactAssumption DEF ReactAssumption
    <3>10. QED
      BY <2>3, <2>5, <3>7, <3>8, <3>9
  <2>6. QED
    BY <2>4, <2>5
<1>2. QED
  BY <1>1, TranscriptInvariance, Invariance, PTL
-----------------------------------------------------------------------------
(* The session. *)

TurnMessages == {m \in Messages : m.turn = turn}

\* During a turn the transcript is the session, the user's message and what the
\* turn has added.
SessionInv ==
    phase \notin Over =>
        \E e \in Seq(TurnMessages) :
            history = (session \o <<Message("user", turn, 0, 0)>>) \o e

LEMMA MessagesAssociative ==
  ASSUME NEW a \in Seq(Messages), NEW b \in Seq(Messages), NEW c \in Seq(Messages)
  PROVE  (a \o b) \o c = a \o (b \o c)
BY ConcatAssociative

\* A message is added to a transcript of that form.
LEMMA SessionExtended ==
  ASSUME IInv, SessionInv, phase \notin Over, NEW x \in Seq(TurnMessages)
  PROVE  \E e \in Seq(TurnMessages) :
             history \o x = (session \o <<Message("user", turn, 0, 0)>>) \o e
<1> DEFINE user == Message("user", turn, 0, 0)
<1>1. PICK e \in Seq(TurnMessages) : history = (session \o <<user>>) \o e
  BY DEF SessionInv
<1>2. user \in Messages
  <2>1. turn \in 0 .. MaxTurns /\ 0 \in 0 .. MaxRounds /\ 0 \in 0 .. MaxRequests
    BY ReactAssumption DEF ReactAssumption, IInv, TypeOK
  <2>2. QED
    BY <2>1, MessageType
<1>3. session \in Seq(Messages) /\ <<user>> \in Seq(Messages)
  BY <1>2 DEF IInv, TypeOK
<1> HIDE DEF user
<1>4. session \o <<user>> \in Seq(Messages)
  BY <1>3, ConcatProperties
<1>5. e \in Seq(Messages) /\ x \in Seq(Messages) /\ e \o x \in Seq(TurnMessages)
  <2>1. TurnMessages \subseteq Messages
    BY DEF TurnMessages
  <2>2. e \in Seq(Messages) /\ x \in Seq(Messages)
    BY <2>1, SeqMonotonic
  <2>3. e \o x \in Seq(TurnMessages)
    BY ConcatProperties
  <2>4. QED
    BY <2>2, <2>3
<1>6. ((session \o <<user>>) \o e) \o x = (session \o <<user>>) \o (e \o x)
  <2> DEFINE opening == session \o <<user>>
  <2>1. opening \in Seq(Messages)
    BY <1>4
  <2>2. e \in Seq(Messages) /\ x \in Seq(Messages)
    BY <1>5
  <2> HIDE DEF opening
  <2>4. (opening \o e) \o x = opening \o (e \o x)
    BY ONLY <2>1, <2>2, MessagesAssociative
  <2>3. QED
    BY ONLY <2>4 DEF opening
<1>7. history \o x = (session \o <<user>>) \o (e \o x)
  BY ONLY <1>1, <1>6
<1>8. QED
  BY <1>5, <1>7 DEF user

LEMMA OwnMessage ==
  ASSUME IInv, phase \in {"calling", "tools"},
         NEW role \in {"call", "tool", "answer"}, NEW n \in 0 .. MaxRequests
  PROVE  /\ Message(role, turn, round, n) \in TurnMessages
         /\ Message(role, turn, round, n) \in Messages
<1>1. turn \in 0 .. MaxTurns /\ round \in 0 .. MaxRounds
  BY ReactAssumption DEF ReactAssumption, IInv, TypeOK, LoopInv
<1>2. Message(role, turn, round, n) \in Messages
  BY <1>1, MessageType
<1>3. Message(role, turn, round, n).turn = turn
  BY DEF Message
<1>4. QED
  BY <1>2, <1>3 DEF TurnMessages

LEMMA SessionStep ==
  ASSUME IInv, SessionInv, [Next]_vars
  PROVE  SessionInv'
<1> USE ReactAssumption DEF ReactAssumption
<1>1. history \in Seq(Messages) /\ session \in Seq(Messages)
  BY DEF IInv, TypeOK
<1>2. CASE UNCHANGED <<session, history, turn>> /\ (phase \in Over => phase' \in Over)
  BY <1>2 DEF SessionInv, TurnMessages
<1>3. CASE phase' \in Over
  BY <1>3 DEF SessionInv
<1>4. CASE NextTurn
  <2> DEFINE user == Message("user", turn', 0, 0)
  <2>1. user \in Messages
    <3>1. turn' \in 0 .. MaxTurns /\ 0 \in 0 .. MaxRounds /\ 0 \in 0 .. MaxRequests
      BY <1>4 DEF IInv, TypeOK, NextTurn
    <3>2. QED
      BY <3>1, MessageType
  <2>2. history' = session \o <<user>> /\ session' = session
    <3>1. history' = Append(session, user) /\ session' = session
      BY <1>4 DEF NextTurn
    <3>2. QED
      BY <1>1, <2>1, <3>1, AppendIsConcat
  <2>3. session \o <<user>> \in Seq(Messages)
    BY <1>1, <2>1, ConcatProperties
  <2> HIDE DEF user
  <2>4. <<>> \in Seq(TurnMessages') /\ history' = (session' \o <<user>>) \o <<>>
    BY <2>2, <2>3, ConcatEmptySeq, EmptySeq
  <2>5. QED
    BY <2>4 DEF SessionInv, user
<1>5. ASSUME NEW x \in Seq(TurnMessages), phase \notin Over, history' = history \o x,
             UNCHANGED <<session, turn>>
      PROVE  SessionInv'
  <2>1. TurnMessages' = TurnMessages
    BY <1>5 DEF TurnMessages
  <2>2. QED
    BY <1>5, <2>1, SessionExtended DEF SessionInv
<1>6. ASSUME NEW n \in 1 .. MaxRequests, Requested(n)
      PROVE  SessionInv'
  <2> DEFINE request == Message("call", turn, round, n)
  <2>1. request \in TurnMessages /\ request \in Messages
    BY <1>6, OwnMessage DEF Requested
  <2>2. <<request>> \in Seq(TurnMessages)
    BY <2>1
  <2>3. history' = history \o <<request>> /\ phase \notin Over /\ UNCHANGED <<session, turn>>
    BY <1>1, <1>6, <2>1, AppendIsConcat DEF Requested, Over
  <2>4. QED
    BY <1>5, <2>2, <2>3
<1>7. CASE Gathered
  <2> DEFINE n == history[Len(history)].slot
  <2>1. n \in 0 .. MaxRequests
    <3>1. history # <<>>
      BY <1>7 DEF IInv, LoopInv, Gathered, Over
    <3>2. Len(history) \in 1 .. Len(history)
      BY <1>1, <3>1, EmptySeq
    <3>3. history[Len(history)] \in Messages
      BY <1>1, <3>2, ElementOfSeq
    <3>4. QED
      BY <3>3 DEF Messages
  <2>2. history' = history \o Observations(n) /\ phase \notin Over /\ UNCHANGED <<session, turn>>
    BY <1>7 DEF Gathered, Over
  <2> HIDE DEF n
  <2>3. Observations(n) \in Seq(TurnMessages)
    <3>1. \A i \in 1 .. n : Message("tool", turn, round, i) \in TurnMessages
      <4>1. TAKE i \in 1 .. n
      <4>2. i \in 0 .. MaxRequests
        BY <2>1
      <4>3. QED
        BY <1>7, <4>2, OwnMessage DEF Gathered
    <3>2. n \in Nat
      BY <2>1
    <3>3. QED
      BY <3>1, <3>2 DEF Observations
  <2>4. QED
    BY <1>5, <2>2, <2>3
<1>8. CASE Answered \/ Raised \/ Reraised \/ MaxIterations
  BY <1>3, <1>8 DEF Answered, Raised, Reraised, MaxIterations, Over
<1>9. CASE NextRound \/ Summarized \/ Saved
  BY <1>2, <1>9 DEF NextRound, Begin, Summarized, Saved, Over
<1>10. CASE \E i \in Slots : ToolStep(i)
  BY <1>2, <1>10 DEF ToolStep, Start, Say, Decide, Lapse, Progress, Break, CancelsItself, Execute,
     Goto, loopVars
<1>11. CASE Stopped \/ UNCHANGED vars
  BY <1>2, <1>11 DEF Stopped, vars, loopVars
<1>12. QED
  BY <1>4, <1>6, <1>7, <1>8, <1>9, <1>10, <1>11 DEF Next, LoopStep

\* A list that is the session, a user's message and more messages of the turn
\* extends the session by messages of that turn, the user's first.
LEMMA ExtendsSession ==
  ASSUME NEW s \in Seq(Messages), NEW u \in TurnMessages, u.role = "user",
         NEW e \in Seq(TurnMessages)
  PROVE  LET h == (s \o <<u>>) \o e IN
         /\ Len(h) > Len(s)
         /\ SubSeq(h, 1, Len(s)) = s
         /\ \A k \in Len(s) + 1 .. Len(h) : h[k].turn = turn
         /\ h[Len(s) + 1].role = "user"
<1> DEFINE a == s \o <<u>>
           h == a \o e
           n == Len(s)
<1>1. u \in Messages /\ u.turn = turn /\ TurnMessages \subseteq Messages
  BY DEF TurnMessages
<1>2. n \in Nat /\ Len(e) \in Nat /\ e \in Seq(Messages)
  BY <1>1, LenProperties, SeqMonotonic
<1>3. <<u>> \in Seq(Messages) /\ Len(<<u>>) = 1 /\ <<u>>[1] = u
  BY <1>1
<1>4. /\ a \in Seq(Messages) /\ Len(a) = n + 1
      /\ \A k \in 1 .. n + 1 : a[k] = IF k <= n THEN s[k] ELSE <<u>>[k - n]
  BY <1>3, ConcatProperties
<1>5. a[n + 1] = u /\ \A k \in 1 .. n : a[k] = s[k]
  BY <1>2, <1>3, <1>4
<1> HIDE DEF a
<1>6. /\ h \in Seq(Messages) /\ Len(h) = n + 1 + Len(e)
      /\ \A k \in 1 .. n + 1 + Len(e) : h[k] = IF k <= n + 1 THEN a[k] ELSE e[k - (n + 1)]
  <2>1. a \in Seq(Messages) /\ e \in Seq(Messages)
    BY <1>2, <1>4
  <2>2. /\ a \o e \in Seq(Messages) /\ Len(a \o e) = Len(a) + Len(e)
        /\ \A k \in 1 .. Len(a) + Len(e) : (a \o e)[k] = IF k <= Len(a) THEN a[k] ELSE e[k - Len(a)]
    BY ONLY <2>1, ConcatProperties
  <2>3. /\ h \in Seq(Messages) /\ Len(h) = Len(a) + Len(e)
        /\ \A k \in 1 .. Len(a) + Len(e) : h[k] = IF k <= Len(a) THEN a[k] ELSE e[k - Len(a)]
    BY <2>2
  <2> HIDE DEF h
  <2>4. QED
    BY <1>4, <2>3
<1> HIDE DEF h
<1>7. h[n + 1] = u /\ \A k \in 1 .. n : h[k] = s[k]
  BY <1>2, <1>5, <1>6
<1>8. SubSeq(h, 1, n) = s
  <2>1. \A k \in 1 .. n : h[k] \in Messages
    BY <1>7, ElementOfSeq
  <2>2. /\ SubSeq(h, 1, n) \in Seq(Messages) /\ Len(SubSeq(h, 1, n)) = n
        /\ \A k \in 1 .. n : SubSeq(h, 1, n)[k] = h[k]
    <3>1. n - 1 + 1 = n /\ (1 <= n \/ n = 0) /\ 1 \in Int /\ n \in Int
          /\ \A k \in 1 .. n : 1 + k - 1 = k
      BY <1>2
    <3> HIDE DEF n
    <3>2. /\ SubSeq(h, 1, n) \in Seq(Messages)
          /\ Len(SubSeq(h, 1, n)) = IF 1 <= n THEN n - 1 + 1 ELSE 0
          /\ \A k \in 1 .. n - 1 + 1 : SubSeq(h, 1, n)[k] = h[1 + k - 1]
      BY <2>1, <3>1, SubSeqProperties
    <3>3. QED
      BY <3>1, <3>2
  <2>3. QED
    BY <1>7, <2>2, SeqEqual
<1>9. ASSUME NEW k \in n + 1 .. Len(h)
      PROVE  h[k].turn = turn
  <2>1. CASE k = n + 1
    BY <1>1, <1>7, <2>1
  <2>2. CASE k > n + 1
    <3>1. k - (n + 1) \in 1 .. Len(e) /\ h[k] = e[k - (n + 1)]
      BY <1>2, <1>6, <2>2
    <3>2. e[k - (n + 1)] \in TurnMessages
      BY <3>1, ElementOfSeq
    <3>3. QED
      BY <3>1, <3>2 DEF TurnMessages
  <2>3. QED
    BY <1>2, <2>1, <2>2
<1>10. QED
  BY <1>1, <1>2, <1>6, <1>7, <1>8, <1>9 DEF a, h

\* The session grows only by whole turns, from the user's message to the answer; a
\* turn that fails, is cancelled or runs out of rounds leaves it as it was.
THEOREM Sessions == Spec => SessionGrows
<1>1. Init => SessionInv
  BY DEF Init, SessionInv, Over
<1>2. ASSUME IInv, SessionInv, [Next]_vars, session' # session
      PROVE  /\ Len(session') > Len(session)
             /\ SubSeq(session', 1, Len(session)) = session
             /\ \A k \in Len(session) + 1 .. Len(session') : session'[k].turn = turn
             /\ session'[Len(session) + 1].role = "user"
             /\ session'[Len(session')].role = "answer"
  <2> DEFINE answered == Message("answer", turn, round, 0)
             user == Message("user", turn, 0, 0)
  <2>1. Answered
    <3>1. CASE \E i \in Slots : ToolStep(i)
      BY <1>2, <3>1 DEF ToolStep, Start, Say, Decide, Lapse, Progress, Break, CancelsItself, Execute,
         Goto, loopVars
    <3>2. CASE NextRound \/ Summarized \/ Saved \/ Gathered \/ \E n \in 1 .. MaxRequests : Requested(n)
      BY <1>2, <3>2 DEF NextRound, Begin, Summarized, Saved, Gathered, Requested
    <3>3. CASE Raised \/ Reraised \/ MaxIterations \/ NextTurn \/ Stopped \/ UNCHANGED vars
      BY <1>2, <3>3 DEF Raised, Reraised, MaxIterations, NextTurn, Stopped, vars, loopVars
    <3>4. QED
      BY <1>2, <3>1, <3>2, <3>3 DEF Next, LoopStep
  <2>2. history \in Seq(Messages) /\ session \in Seq(Messages) /\ phase = "calling"
    BY <1>2, <2>1 DEF IInv, TypeOK, Answered
  <2>3. answered \in TurnMessages /\ answered \in Messages
    <3>1. 0 \in 0 .. MaxRequests
      BY ReactAssumption DEF ReactAssumption
    <3>2. QED
      BY <1>2, <2>2, <3>1, OwnMessage
  <2>4. answered.role = "answer"
    BY DEF Message
  <2>5. user \in TurnMessages /\ user.role = "user"
    <3>1. turn \in 0 .. MaxTurns /\ 0 \in 0 .. MaxRounds /\ 0 \in 0 .. MaxRequests
      BY <1>2, ReactAssumption DEF ReactAssumption, IInv, TypeOK
    <3>2. user \in Messages
      BY <3>1, MessageType
    <3>3. QED
      BY <3>2 DEF Message, TurnMessages
  <2>6. session' = Append(history, answered)
    BY <2>1 DEF Answered
  <2> HIDE DEF answered, user
  <2>7. session' = history \o <<answered>> /\ <<answered>> \in Seq(TurnMessages)
    BY <2>2, <2>3, <2>6, AppendIsConcat
  <2>8. PICK e \in Seq(TurnMessages) : session' = (session \o <<user>>) \o e
    BY <1>2, <2>2, <2>7, SessionExtended DEF Over, user
  <2>9. session'[Len(session')] = answered
    BY <2>2, <2>3, <2>6, AppendProperties
  <2>10. QED
    BY <2>2, <2>4, <2>5, <2>8, <2>9, ExtendsSession
<1>3. IInv /\ SessionInv /\ [Next]_vars =>
          [session' # session =>
              /\ Len(session') > Len(session)
              /\ SubSeq(session', 1, Len(session)) = session
              /\ \A k \in Len(session) + 1 .. Len(session') : session'[k].turn = turn
              /\ session'[Len(session) + 1].role = "user"
              /\ session'[Len(session')].role = "answer"]_vars
  BY <1>2
<1>4. IInv /\ SessionInv /\ [Next]_vars => SessionInv'
  BY SessionStep
<1>5. QED
  BY <1>1, <1>3, <1>4, Invariance, PTL DEF Spec, SessionGrows
-----------------------------------------------------------------------------
(* The counts of a turn. *)

ResultsIn(h, t) == {k \in DOMAIN h : h[k].role = "tool" /\ h[k].turn = t}

\* The places of a longer transcript.
LEMMA Places ==
  ASSUME NEW h \in Seq(Messages), NEW e \in Seq(Messages)
  PROVE  /\ Len(h) \in Nat /\ Len(e) \in Nat
         /\ DOMAIN h = 1 .. Len(h) /\ DOMAIN e = 1 .. Len(e)
         /\ h \o e \in Seq(Messages) /\ DOMAIN (h \o e) = 1 .. Len(h) + Len(e)
         /\ \A k \in 1 .. Len(h) : (h \o e)[k] = h[k]
         /\ \A k \in Len(h) + 1 .. Len(h) + Len(e) :
                (h \o e)[k] = e[k - Len(h)] /\ k - Len(h) \in 1 .. Len(e)
<1>1. Len(h) \in Nat /\ Len(e) \in Nat /\ DOMAIN h = 1 .. Len(h) /\ DOMAIN e = 1 .. Len(e)
  BY LenProperties
<1>2. /\ h \o e \in Seq(Messages) /\ Len(h \o e) = Len(h) + Len(e)
      /\ \A k \in 1 .. Len(h) + Len(e) : (h \o e)[k] = IF k <= Len(h) THEN h[k] ELSE e[k - Len(h)]
  BY ConcatProperties
<1>3. DOMAIN (h \o e) = 1 .. Len(h) + Len(e)
  BY <1>2, LenProperties
<1>4. \A k \in 1 .. Len(h) : (h \o e)[k] = h[k]
  BY <1>1, <1>2
<1>5. \A k \in Len(h) + 1 .. Len(h) + Len(e) :
          (h \o e)[k] = e[k - Len(h)] /\ k - Len(h) \in 1 .. Len(e)
  BY <1>1, <1>2
<1>6. QED
  BY <1>1, <1>2, <1>3, <1>4, <1>5

LEMMA NoResults ==
  ASSUME NEW h \in Seq(Messages), NEW e \in Seq(Messages), NEW t,
         \A k \in DOMAIN e : e[k].role # "tool"
  PROVE  ResultsIn(h \o e, t) = ResultsIn(h, t)
<1> DEFINE s == h \o e
<1>1. /\ Len(h) \in Nat /\ Len(e) \in Nat /\ DOMAIN h = 1 .. Len(h) /\ DOMAIN e = 1 .. Len(e)
      /\ DOMAIN s = 1 .. Len(h) + Len(e)
      /\ \A k \in 1 .. Len(h) : s[k] = h[k]
      /\ \A k \in Len(h) + 1 .. Len(h) + Len(e) : s[k] = e[k - Len(h)] /\ k - Len(h) \in 1 .. Len(e)
  BY Places
<1> HIDE DEF s
<1>2. \A k \in DOMAIN s : k \in 1 .. Len(h) \/ k \in Len(h) + 1 .. Len(h) + Len(e)
  BY <1>1
<1>3. \A k \in DOMAIN h : k \in DOMAIN s
  BY <1>1
<1>4. ResultsIn(s, t) = ResultsIn(h, t)
  BY <1>1, <1>2, <1>3 DEF ResultsIn
<1>5. QED
  BY <1>4 DEF s

LEMMA AllResults ==
  ASSUME NEW h \in Seq(Messages), NEW e \in Seq(Messages), NEW t,
         IsFiniteSet(ResultsIn(h, t)),
         \A k \in DOMAIN e : e[k].role = "tool" /\ e[k].turn = t
  PROVE  /\ IsFiniteSet(ResultsIn(h \o e, t))
         /\ Cardinality(ResultsIn(h \o e, t)) = Cardinality(ResultsIn(h, t)) + Len(e)
<1> DEFINE s == h \o e
           new == Len(h) + 1 .. Len(h) + Len(e)
<1>1. /\ Len(h) \in Nat /\ Len(e) \in Nat /\ DOMAIN h = 1 .. Len(h) /\ DOMAIN e = 1 .. Len(e)
      /\ DOMAIN s = 1 .. Len(h) + Len(e)
      /\ \A k \in 1 .. Len(h) : s[k] = h[k]
      /\ \A k \in new : s[k] = e[k - Len(h)] /\ k - Len(h) \in 1 .. Len(e)
  BY Places
<1>2. IsFiniteSet(new) /\ Cardinality(new) = Len(e)
  <2>1. ASSUME NEW a \in Int, NEW b \in Int
        PROVE  IsFiniteSet(a .. b) /\ Cardinality(a .. b) = IF a > b THEN 0 ELSE b - a + 1
    BY FS_Interval
  <2>2. Len(h) + 1 \in Int /\ Len(h) + Len(e) \in Int
    BY <1>1
  <2>3. /\ IsFiniteSet(new)
        /\ Cardinality(new) = IF Len(h) + 1 > Len(h) + Len(e) THEN 0
                              ELSE (Len(h) + Len(e)) - (Len(h) + 1) + 1
    BY ONLY <2>1, <2>2
  <2>4. QED
    BY <1>1, <2>3
<1>3. \A k \in DOMAIN s : k \in 1 .. Len(h) \/ k \in new
  BY <1>1
<1>4. \A k \in new : k \in DOMAIN s /\ k \notin DOMAIN h
  BY <1>1
<1>5. \A k \in DOMAIN h : k \in DOMAIN s
  BY <1>1
<1> HIDE DEF s, new
<1>6. ResultsIn(s, t) = ResultsIn(h, t) \cup new
  BY <1>1, <1>3, <1>4, <1>5 DEF ResultsIn
<1>7. ResultsIn(h, t) \cap new = {}
  BY <1>4 DEF ResultsIn
<1>8. /\ IsFiniteSet(ResultsIn(h, t) \cup new)
      /\ Cardinality(ResultsIn(h, t) \cup new) =
             Cardinality(ResultsIn(h, t)) + Cardinality(new) - Cardinality(ResultsIn(h, t) \cap new)
  BY <1>2, FS_Union
<1>9. Cardinality(ResultsIn(h, t)) \in Nat
  BY FS_CardinalityType
<1>10. Cardinality(ResultsIn(h, t) \cap new) = 0
  BY <1>7, FS_EmptySet
<1>11. IsFiniteSet(ResultsIn(s, t)) /\ Cardinality(ResultsIn(s, t)) = Cardinality(ResultsIn(h, t)) + Len(e)
  BY <1>1, <1>2, <1>6, <1>8, <1>9, <1>10
<1>12. QED
  BY <1>11 DEF s

\* No message comes from a later turn, and each finished round has added at most
\* MaxCalls calls.
CountInv ==
    /\ \A k \in DOMAIN session : session[k].turn <= turn
    /\ \A k \in DOMAIN history : history[k].turn <= turn
    /\ IsFiniteSet(ResultsIn(history, turn))
    /\ made + rejected = Cardinality(ResultsIn(history, turn))
    /\ phase \in {"top", "summarizing", "calling", "tools"} => made <= MaxCalls * (round - 1)
    /\ phase = "saving" => made <= MaxCalls * round
    /\ made <= MaxCalls * MaxRounds

LEMMA RoundBounds ==
  ASSUME NEW r \in 1 .. MaxRounds
  PROVE  /\ MaxCalls * (r - 1) \in Nat /\ MaxCalls * r \in Nat /\ MaxCalls * MaxRounds \in Nat
         /\ MaxCalls * (r - 1) + MaxCalls = MaxCalls * r
         /\ MaxCalls * r <= MaxCalls * MaxRounds
         /\ MaxCalls * ((r + 1) - 1) = MaxCalls * r
<1>1. MaxCalls \in Nat /\ MaxRounds \in Nat
  BY ReactAssumption DEF ReactAssumption
<1>2. QED
  BY <1>1

\* Messages of the turn under way, or of an earlier one, added to a transcript.
LEMMA AddedTurns ==
  ASSUME NEW h \in Seq(Messages), NEW e \in Seq(Messages), NEW t \in Nat,
         \A k \in DOMAIN h : h[k].turn <= t,
         \A k \in DOMAIN e : e[k].turn <= t
  PROVE  \A k \in DOMAIN (h \o e) : (h \o e)[k].turn <= t
<1> DEFINE s == h \o e
<1>1. /\ Len(h) \in Nat /\ Len(e) \in Nat /\ DOMAIN h = 1 .. Len(h) /\ DOMAIN e = 1 .. Len(e)
      /\ DOMAIN s = 1 .. Len(h) + Len(e)
      /\ \A k \in 1 .. Len(h) : s[k] = h[k]
      /\ \A k \in Len(h) + 1 .. Len(h) + Len(e) : s[k] = e[k - Len(h)] /\ k - Len(h) \in 1 .. Len(e)
  BY Places
<1> HIDE DEF s
<1>2. \A k \in DOMAIN s : k \in 1 .. Len(h) \/ k \in Len(h) + 1 .. Len(h) + Len(e)
  BY <1>1
<1>3. \A k \in DOMAIN s : s[k].turn <= t
  BY <1>1, <1>2
<1>4. QED
  BY <1>3 DEF s

LEMMA CountInit == Init => CountInv
<1> SUFFICES ASSUME Init
             PROVE  CountInv
  OBVIOUS
<1>1. ResultsIn(history, turn) = {} /\ DOMAIN history = {} /\ DOMAIN session = {}
  BY DEF Init, ResultsIn
<1>2. MaxCalls * MaxRounds \in Nat
  <2>1. MaxCalls \in Nat /\ MaxRounds \in Nat
    BY ReactAssumption DEF ReactAssumption
  <2>2. QED
    BY <2>1
<1>3. Cardinality(ResultsIn(history, turn)) = 0 /\ IsFiniteSet(ResultsIn(history, turn))
  BY <1>1, FS_EmptySet
<1>4. made = 0 /\ rejected = 0 /\ phase = "returned"
  BY DEF Init
<1>5. QED
  BY <1>1, <1>2, <1>3, <1>4 DEF CountInv

\* A message of the turn that is no result is added.
LEMMA CountSingle ==
  ASSUME IInv, CountInv, phase = "calling", NEW m \in Messages, m.role # "tool", m.turn = turn,
         history' = Append(history, m), session' \in {session, history'},
         UNCHANGED <<turn, round, made, rejected>>, phase' \in {"tools", "returned"}
  PROVE  CountInv'
<1>1. history \in Seq(Messages) /\ turn \in Nat
  BY ReactAssumption DEF ReactAssumption, IInv, TypeOK
<1>2. <<m>> \in Seq(Messages) /\ history' = history \o <<m>>
  BY <1>1, AppendIsConcat
<1>3. \A k \in DOMAIN <<m>> : <<m>>[k].role # "tool" /\ <<m>>[k].turn <= turn
  BY <1>1
<1>4. \A k \in DOMAIN history' : history'[k].turn <= turn
  BY <1>1, <1>2, <1>3, AddedTurns DEF CountInv
<1>5. ResultsIn(history \o <<m>>, turn) = ResultsIn(history, turn)
  BY ONLY <1>1, <1>2, <1>3, NoResults
<1>6. ResultsIn(history', turn) = ResultsIn(history, turn)
  BY ONLY <1>2, <1>5
<1>7. QED
  BY <1>4, <1>6 DEF CountInv

LEMMA CountGathered == IInv /\ CountInv /\ Gathered => CountInv'
<1> SUFFICES ASSUME IInv, CountInv, Gathered
             PROVE  CountInv'
  OBVIOUS
<1> DEFINE n == history[Len(history)].slot
           run == Min({n, MaxCalls})
<1>1. history \in Seq(Messages) /\ history # <<>> /\ round \in 1 .. MaxRounds /\ round <= MaxRounds
      /\ turn \in Nat /\ made \in Nat /\ rejected \in Nat /\ MaxCalls \in Nat
  BY ReactAssumption DEF ReactAssumption, IInv, TypeOK, LoopInv, Gathered, Over
<1>2. n \in 0 .. MaxRequests /\ n \in Nat
  <2>1. Len(history) \in 1 .. Len(history)
    BY <1>1, EmptySeq
  <2>2. history[Len(history)] \in Messages
    BY <1>1, <2>1, ElementOfSeq
  <2>3. QED
    BY <2>2, ReactAssumption DEF ReactAssumption, Messages
<1>3. run \in Nat /\ run <= n /\ run <= MaxCalls
  <2>1. {n, MaxCalls} \in SUBSET Nat /\ {n, MaxCalls} # {}
    BY <1>1, <1>2
  <2>2. run \in {n, MaxCalls} /\ \A x \in {n, MaxCalls} : run <= x
    BY <2>1, MinIsLeast
  <2>3. QED
    BY <2>1, <2>2
<1>4. /\ history' = history \o Observations(n) /\ made' = made + run
      /\ rejected' = rejected + n - run /\ phase' = "saving"
      /\ UNCHANGED <<session, turn, round>> /\ phase = "tools"
  BY DEF Gathered
<1> HIDE DEF n, run
<1>5. Observations(n) \in Seq(Messages) /\ Len(Observations(n)) = n
  BY <1>1, <1>2, ObservationsType DEF IInv
<1>6. \A k \in DOMAIN Observations(n) : Observations(n)[k].role = "tool" /\ Observations(n)[k].turn = turn
  BY DEF Observations, Message
<1>7. \A k \in DOMAIN history' : history'[k].turn <= turn
  <2>1. \A k \in DOMAIN Observations(n) : Observations(n)[k].turn <= turn
    BY <1>1, <1>6
  <2>2. QED
    BY <1>1, <1>4, <1>5, <2>1, AddedTurns DEF CountInv
<1>8. /\ IsFiniteSet(ResultsIn(history', turn))
      /\ Cardinality(ResultsIn(history', turn)) = Cardinality(ResultsIn(history, turn)) + n
  BY <1>1, <1>4, <1>5, <1>6, AllResults DEF CountInv
<1>9. made + rejected = Cardinality(ResultsIn(history, turn)) /\ made <= MaxCalls * (round - 1)
  BY <1>4 DEF CountInv
<1>10. made' + rejected' = Cardinality(ResultsIn(history', turn))
  <2>1. (made + run) + (rejected + n - run) = (made + rejected) + n
    BY <1>1, <1>2, <1>3
  <2>2. QED
    BY <1>4, <1>8, <1>9, <2>1
<1>11. made' <= MaxCalls * round /\ made' <= MaxCalls * MaxRounds
  <2>1. MaxCalls * (round - 1) \in Nat /\ MaxCalls * round \in Nat /\ MaxCalls * MaxRounds \in Nat
        /\ MaxCalls * (round - 1) + MaxCalls = MaxCalls * round
        /\ MaxCalls * round <= MaxCalls * MaxRounds
    BY <1>1, RoundBounds
  <2>2. made' = made + run
    BY <1>4
  <2> DEFINE before == MaxCalls * (round - 1)
             after == MaxCalls * round
             all == MaxCalls * MaxRounds
  <2>3. /\ before \in Nat /\ after \in Nat /\ all \in Nat /\ before + MaxCalls = after
        /\ after <= all /\ made <= before
    BY <1>9, <2>1
  <2> HIDE DEF before, after, all
  <2>4. made + run <= after /\ made + run <= all
    BY <1>1, <1>3, <2>3
  <2>5. QED
    BY <2>2, <2>4 DEF after, all
<1>12. QED
  BY <1>4, <1>7, <1>8, <1>10, <1>11 DEF CountInv

LEMMA CountStep ==
  ASSUME IInv, CountInv, [Next]_vars
  PROVE  CountInv'
<1>1. history \in Seq(Messages) /\ session \in Seq(Messages) /\ turn \in Nat
  BY ReactAssumption DEF ReactAssumption, IInv, TypeOK
<1>2. ASSUME UNCHANGED <<session, turn, round, history, made, rejected>>,
             \/ phase' \in Over
             \/ phase' = phase
             \/ {phase, phase'} \subseteq {"top", "summarizing", "calling"}
      PROVE  CountInv'
  BY <1>2 DEF CountInv, ResultsIn, Over
<1>3. CASE NextTurn
  <2> DEFINE user == Message("user", turn + 1, 0, 0)
  <2>1. user \in Messages /\ user.role = "user" /\ user.turn = turn + 1
    <3>1. turn \in 0 .. MaxTurns /\ turn < MaxTurns
      BY <1>3 DEF IInv, TypeOK, NextTurn
    <3>2. QED
      BY <3>1, FirstMessage
  <2>2. /\ history' = Append(session, user) /\ session' = session /\ turn' = turn + 1
        /\ made' = 0 /\ rejected' = 0 /\ phase' = "top" /\ round' = 1
    BY <1>3 DEF NextTurn
  <2> HIDE DEF user
  <2>3. <<user>> \in Seq(Messages) /\ history' = session \o <<user>>
    BY <1>1, <2>1, <2>2, AppendIsConcat
  <2>4. \A k \in DOMAIN session : session[k].turn < turn + 1 /\ session[k].turn <= turn + 1
    <3>1. \A k \in DOMAIN session : session[k].turn \in Nat
      <4>1. \A k \in DOMAIN session : session[k] \in Messages
        BY <1>1, ElementOfSeq, LenProperties
      <4>2. QED
        BY <4>1, ReactAssumption DEF ReactAssumption, Messages
    <3>2. QED
      BY <1>1, <3>1 DEF CountInv
  <2>5. \A k \in DOMAIN <<user>> : <<user>>[k].role # "tool" /\ <<user>>[k].turn <= turn + 1
    BY <1>1, <2>1
  <2>6. \A k \in DOMAIN history' : history'[k].turn <= turn + 1
    <3>1. turn + 1 \in Nat
      BY <1>1
    <3>2. QED
      BY <1>1, <2>3, <2>4, <2>5, <3>1, AddedTurns
  <2>7. ResultsIn(history', turn + 1) = ResultsIn(session, turn + 1)
    BY <1>1, <2>3, <2>5, NoResults
  <2>8. ResultsIn(session, turn + 1) = {}
    <3>1. \A k \in DOMAIN session : session[k].turn # turn + 1
      <4>1. TAKE k \in DOMAIN session
      <4>2. session[k] \in Messages
        BY <1>1, ElementOfSeq, LenProperties
      <4>3. session[k].turn \in Nat
        BY <4>2, ReactAssumption DEF ReactAssumption, Messages
      <4>4. QED
        BY <1>1, <2>4, <4>3
    <3>2. QED
      BY <3>1 DEF ResultsIn
  <2>9. IsFiniteSet(ResultsIn(history', turn')) /\ Cardinality(ResultsIn(history', turn')) = 0
    BY <2>2, <2>7, <2>8, FS_EmptySet
  <2>10. 0 <= MaxCalls * (1 - 1) /\ 0 <= MaxCalls * MaxRounds
    <3>1. MaxCalls \in Nat /\ MaxRounds \in Nat
      BY ReactAssumption DEF ReactAssumption
    <3>2. QED
      BY <3>1
  <2>11. QED
    BY <2>2, <2>4, <2>6, <2>9, <2>10 DEF CountInv
<1>4. CASE Answered
  <2> DEFINE answered == Message("answer", turn, round, 0)
  <2>1. answered \in Messages /\ answered.role = "answer" /\ answered.turn = turn
    <3>1. 0 \in 0 .. MaxRequests
      BY ReactAssumption DEF ReactAssumption
    <3>2. QED
      BY <1>4, <3>1, OwnMessage DEF Answered, Message
  <2>2. /\ phase = "calling" /\ history' = Append(history, answered) /\ session' = history'
        /\ UNCHANGED <<turn, round, made, rejected>> /\ phase' = "returned"
    BY <1>4 DEF Answered
  <2> HIDE DEF answered
  <2>3. QED
    BY <2>1, <2>2, CountSingle
<1>5. ASSUME NEW n \in 1 .. MaxRequests, Requested(n)
      PROVE  CountInv'
  <2> DEFINE request == Message("call", turn, round, n)
  <2>1. request \in Messages /\ request.role = "call" /\ request.turn = turn
    <3>1. n \in 0 .. MaxRequests
      BY ReactAssumption DEF ReactAssumption
    <3>2. QED
      BY <1>5, <3>1, OwnMessage DEF Requested, Message
  <2>2. /\ phase = "calling" /\ history' = Append(history, request) /\ session' = session
        /\ UNCHANGED <<turn, round, made, rejected>> /\ phase' = "tools"
    BY <1>5 DEF Requested
  <2> HIDE DEF request
  <2>3. QED
    BY <2>1, <2>2, CountSingle
<1>6. CASE Gathered
  BY <1>6, CountGathered
<1>7. CASE Saved
  <2>1. /\ UNCHANGED <<session, turn, history, made, rejected>>
        /\ phase = "saving" /\ phase' = "top" /\ round' = round + 1
    BY <1>7 DEF Saved
  <2>2. round \in 1 .. MaxRounds
    BY <2>1 DEF IInv, LoopInv
  <2>3. MaxCalls * (round' - 1) = MaxCalls * round
    BY <2>1, <2>2, RoundBounds
  <2>4. made' <= MaxCalls * (round' - 1)
    BY <2>1, <2>3 DEF CountInv
  <2>5. QED
    BY <2>1, <2>4 DEF CountInv, ResultsIn
<1>8. CASE NextRound \/ Summarized
  BY <1>2, <1>8 DEF NextRound, Begin, Summarized
<1>9. CASE Raised \/ Reraised \/ MaxIterations
  BY <1>2, <1>9 DEF Raised, Reraised, MaxIterations, loopVars, Over
<1>10. CASE \E i \in Slots : ToolStep(i)
  BY <1>2, <1>10 DEF ToolStep, Start, Say, Decide, Lapse, Progress, Break, CancelsItself, Execute,
     Goto, loopVars
<1>11. CASE Stopped \/ UNCHANGED vars
  BY <1>2, <1>11 DEF Stopped, vars, loopVars
<1>12. QED
  BY <1>3, <1>4, <1>5, <1>6, <1>7, <1>8, <1>9, <1>10, <1>11 DEF Next, LoopStep

\* The counts of made and rejected calls are those of the turn's transcript, and
\* the calls made stay within the rounds and the calls of each.
THEOREM Accounts == Spec => []CallsAccounted
<1>1. CountInv => CallsAccounted
  BY DEF CountInv, CallsAccounted, ResultsIn
<1>2. IInv /\ CountInv /\ [Next]_vars => CountInv'
  BY CountStep
<1>3. QED
  BY <1>1, <1>2, CountInit, Invariance, PTL DEF Spec
-----------------------------------------------------------------------------
(* Progress. *)

\* Where react_loop stands in its round, and in the turn.
Place(where) ==
    CASE where = "summarizing" -> 1
      [] where = "calling" -> 2
      [] where = "tools" -> 3
      [] where = "saving" -> 4
      [] OTHER -> 0
Stage == 5 * round + Place(phase)

\* How many more steps a tool call can take, and the answers still awaited.
Height(state) ==
    CASE state = "queued" -> 4
      [] state = "asking" -> 3
      [] state = "executing" -> 2
      [] state = "ending" -> 1
      [] OTHER -> 0
ToolsLeft == UNION {{i} \X (1 .. Height(tool[i])) : i \in Slots}
Unanswered == {i \in Slots : answer[i] = "none"}

\* The turn ends, or it is further on, or its round has less left to do.
Advances ==
    \/ phase \notin Over /\ phase' \in Over
    \/ Stage' > Stage
    \/ /\ Stage' = Stage /\ ToolsLeft' \subseteq ToolsLeft /\ Unanswered' \subseteq Unanswered
       /\ ToolsLeft' # ToolsLeft \/ Unanswered' # Unanswered

LEMMA ToolDescends ==
  ASSUME IInv, NEW i \in Slots,
         Start(i) \/ Decide(i) \/ Lapse(i) \/ Progress(i) \/ Break(i) \/ CancelsItself(i)
  PROVE  /\ UNCHANGED <<phase, round, answer>>
         /\ \A j \in Slots \ {i} : tool'[j] = tool[j]
         /\ Height(tool[i]) \in Nat /\ Height(tool'[i]) \in Nat
         /\ Height(tool'[i]) < Height(tool[i])
<1>1. /\ UNCHANGED <<phase, round, answer>>
      /\ \/ tool[i] = "queued" /\ Goto(i, "asking")
         \/ tool[i] = "asking" /\ Goto(i, "executing")
         \/ tool[i] = "executing" /\ Goto(i, "ending")
         \/ tool[i] = "asking" /\ Goto(i, "ending")
         \/ tool[i] = "ending" /\ Goto(i, "observed")
         \/ tool[i] \in {"asking", "executing", "ending"} /\ Goto(i, "failed")
         \/ tool[i] \in {"asking", "executing", "ending"} /\ Goto(i, "cancelled")
  BY DEF Start, Decide, Lapse, Progress, Break, CancelsItself, Execute, loopVars
<1>2. ASSUME NEW state, Goto(i, state)
      PROVE  tool'[i] = state /\ \A j \in Slots \ {i} : tool'[j] = tool[j]
  BY <1>2 DEF Goto, IInv, TypeOK
<1>3. /\ Height("queued") = 4 /\ Height("asking") = 3 /\ Height("executing") = 2
      /\ Height("ending") = 1 /\ Height("observed") = 0 /\ Height("failed") = 0
      /\ Height("cancelled") = 0
  BY DEF Height
<1>4. QED
  BY <1>1, <1>2, <1>3

LEMMA ToolAdvances ==
  ASSUME IInv, NEW i \in Slots, ToolStep(i)
  PROVE  Advances
<1>1. CASE Say(i)
  <2>1. Stage' = Stage /\ ToolsLeft' = ToolsLeft
    BY <1>1 DEF Say, loopVars, Stage, ToolsLeft
  <2>2. answer[i] = "none" /\ \E says \in {"yes", "no"} : answer' = [answer EXCEPT ![i] = says]
    BY <1>1 DEF Say
  <2>3. PICK says \in {"yes", "no"} : answer' = [answer EXCEPT ![i] = says]
    BY <2>2
  <2>4. answer'[i] # "none" /\ \A j \in Slots \ {i} : answer'[j] = answer[j]
    BY <2>3 DEF IInv, TypeOK
  <2>5. i \in Unanswered /\ i \notin Unanswered' /\ Unanswered' \subseteq Unanswered
    BY <2>2, <2>4 DEF Unanswered
  <2>6. QED
    BY <2>1, <2>5 DEF Advances
<1>2. CASE Start(i) \/ Decide(i) \/ Lapse(i) \/ Progress(i) \/ Break(i) \/ CancelsItself(i)
  <2> DEFINE high == Height(tool[i])
             low == Height(tool'[i])
  <2>1. /\ UNCHANGED <<phase, round, answer>>
        /\ \A j \in Slots \ {i} : tool'[j] = tool[j]
        /\ high \in Nat /\ low \in Nat /\ low < high
    BY <1>2, ToolDescends
  <2>2. Stage' = Stage /\ Unanswered' = Unanswered
    BY <2>1 DEF Stage, Unanswered
  <2>3. 1 .. low \subseteq 1 .. high /\ high \in 1 .. high /\ high \notin 1 .. low
    <3> HIDE DEF high, low
    <3>1. QED
      BY ONLY <2>1
  <2>4. ToolsLeft' \subseteq ToolsLeft
    BY <2>1, <2>3 DEF ToolsLeft
  <2>5. <<i, high>> \in ToolsLeft
    BY <2>3 DEF ToolsLeft
  <2>6. <<i, high>> \notin ToolsLeft'
    <3> HIDE DEF high
    <3>1. QED
      BY <2>3 DEF ToolsLeft
  <2>7. QED
    BY <2>2, <2>4, <2>5, <2>6 DEF Advances
<1>3. QED
  BY <1>1, <1>2 DEF ToolStep

LEMMA LoopAdvances ==
  ASSUME IInv, LoopStep
  PROVE  Advances
<1>1. /\ Place("top") = 0 /\ Place("summarizing") = 1 /\ Place("calling") = 2
      /\ Place("tools") = 3 /\ Place("saving") = 4
  BY DEF Place
<1>2. round \in Nat
  BY ReactAssumption DEF IInv, TypeOK, ReactAssumption
<1>3. CASE Answered \/ Reraised \/ MaxIterations
  BY <1>3 DEF Answered, Reraised, MaxIterations, Over, Advances
<1>4. CASE NextRound \/ Summarized \/ (\E n \in 1 .. MaxRequests : Requested(n)) \/ Gathered
  <2>1. /\ round' = round
        /\ \/ phase = "top" /\ phase' \in {"summarizing", "calling"}
           \/ phase = "summarizing" /\ phase' = "calling"
           \/ phase = "calling" /\ phase' = "tools"
           \/ phase = "tools" /\ phase' = "saving"
    BY <1>4 DEF NextRound, Begin, Summarized, Requested, Gathered
  <2>2. Place(phase) \in 0 .. 4 /\ Place(phase') \in 0 .. 4 /\ Place(phase) < Place(phase')
    BY <1>1, <2>1
  <2>3. Stage' > Stage
    BY <1>2, <2>1, <2>2 DEF Stage
  <2>4. QED
    BY <2>3 DEF Advances
<1>5. CASE Saved
  <2>1. round' = round + 1 /\ phase = "saving" /\ phase' = "top"
    BY <1>5 DEF Saved
  <2>2. Place(phase) = 4 /\ Place(phase') = 0
    BY <1>1, <2>1
  <2>3. Stage' > Stage
    BY <1>2, <2>1, <2>2 DEF Stage
  <2>4. QED
    BY <2>3 DEF Advances
<1>6. QED
  BY <1>3, <1>4, <1>5 DEF LoopStep

LEMMA WorkFinite ==
  ASSUME IInv
  PROVE  /\ Stage \in 0 .. 5 * MaxRounds + 5
         /\ IsFiniteSet(ToolsLeft) /\ IsFiniteSet(Unanswered)
<1>1. MaxRounds \in Nat /\ MaxCalls \in Nat
  BY ReactAssumption DEF ReactAssumption
<1>2. Stage \in 0 .. 5 * MaxRounds + 5
  <2>1. /\ Place("summarizing") = 1 /\ Place("calling") = 2 /\ Place("tools") = 3
        /\ Place("saving") = 4 /\ \A p \in Over \cup {"top"} : Place(p) = 0
    BY DEF Place, Over
  <2>2. CASE phase \in Over \cup {"top"}
    <3>1. Place(phase) = 0 /\ round \in 0 .. MaxRounds + 1
      BY <2>1, <2>2 DEF IInv, TypeOK
    <3>2. QED
      BY <1>1, <3>1 DEF Stage
  <2>3. CASE phase \in {"summarizing", "calling", "tools", "saving"}
    <3>1. Place(phase) \in 0 .. 4 /\ round \in 1 .. MaxRounds
      BY <2>1, <2>3 DEF IInv, LoopInv
    <3>2. QED
      BY <1>1, <3>1 DEF Stage
  <2>4. QED
    BY <2>2, <2>3 DEF IInv, TypeOK, Phases
<1>3. IsFiniteSet(Slots) /\ IsFiniteSet(1 .. 4)
  <2> DEFINE top == MaxCalls
             four == 4
  <2>1. top \in Int /\ four \in Int
    BY <1>1
  <2> HIDE DEF top, four
  <2>2. IsFiniteSet(1 .. top) /\ IsFiniteSet(1 .. four)
    BY <2>1, FS_Interval
  <2>3. QED
    BY <2>2 DEF top, four, Slots
<1>4. \A i \in Slots : Height(tool[i]) \in 0 .. 4
  BY DEF Height
<1>5. ToolsLeft \subseteq Slots \X (1 .. 4)
  BY <1>4 DEF ToolsLeft
<1>6. QED
  BY <1>2, <1>3, <1>5, FS_Product, FS_Subset DEF Unanswered

\* Every step of a turn takes it further towards its last round or uses up a part
\* of a finite amount of work in its round, whatever tools, approvals, timeouts and
\* callbacks do and in whatever order: no turn takes for ever unless it waits for
\* ever.
THEOREM BoundedTurn ==
  Spec => []( /\ Stage \in 0 .. 5 * MaxRounds + 5
              /\ IsFiniteSet(ToolsLeft) /\ IsFiniteSet(Unanswered) )
          /\ [][turn' = turn => Advances]_vars
<1>1. ASSUME IInv, Next, vars' # vars, turn' = turn
      PROVE  Advances
  <2>1. CASE Raised
    BY <2>1 DEF Raised, Over, Advances
  <2>2. CASE NextTurn
    BY <1>1, <2>2 DEF NextTurn, IInv, TypeOK
  <2>3. QED
    BY <1>1, <2>1, <2>2, ToolAdvances, LoopAdvances DEF Next, Stopped
<1>2. IInv /\ [Next]_vars => [turn' = turn => Advances]_vars
  BY <1>1
<1>3. IInv => /\ Stage \in 0 .. 5 * MaxRounds + 5
              /\ IsFiniteSet(ToolsLeft) /\ IsFiniteSet(Unanswered)
  BY WorkFinite
<1>4. QED
  BY <1>2, <1>3, Invariance, PTL DEF Spec

\* The guards under which a tool call can go on without failing: of Start, of
\* Decide, Lapse or the callback's answer, and of Progress; and those of LoopStep.
MayGoOn(i) ==
    /\ phase = "tools"
    /\ tool[i] \in IF Cardinality(Running) < MaxConcurrency
                   THEN {"queued", "asking", "executing", "ending"}
                   ELSE {"asking", "executing", "ending"}

MayLoop ==
    \/ phase \in {"top", "summarizing", "calling", "saving"}
    \/ phase = "tools" /\ AllEnded

\* The safety half of TurnsEnd: while a turn is under way, one of its tool calls
\* can go on or the loop itself can.  No tool call waits for a slot that nobody
\* frees, and a round whose calls ended in any mix of ways goes on to its end.
THEOREM NeverStuck == Spec => [](phase \in Over \/ MayLoop \/ \E i \in Slots : MayGoOn(i))
<1>1. ASSUME IInv, phase \notin Over, ~MayLoop
      PROVE  \E i \in Slots : MayGoOn(i)
  <2>1. phase = "tools"
    BY <1>1 DEF MayLoop, IInv, TypeOK, Phases
  <2>2. PICK i \in Slots : tool[i] \in {"queued", "asking", "executing", "ending"}
    BY <1>1, <2>1 DEF MayLoop, AllEnded, IInv, TypeOK, ToolStates
  <2>3. CASE MayGoOn(i)
    BY <2>3
  <2>4. CASE ~MayGoOn(i)
    <3>1. Cardinality(Running) # 0
      BY <2>1, <2>2, <2>4, ReactAssumption DEF MayGoOn, ReactAssumption
    <3>2. PICK r \in Running : TRUE
      BY <3>1, FS_EmptySet
    <3>3. r \in Slots /\ MayGoOn(r)
      BY <2>1, <3>2 DEF Running, MayGoOn
    <3>4. QED
      BY <3>3
  <2>5. QED
    BY <2>3, <2>4
<1>2. IInv => phase \in Over \/ MayLoop \/ \E i \in Slots : MayGoOn(i)
  BY <1>1
<1>3. QED
  BY <1>2, Invariance, PTL DEF Spec
=============================================================================
