------------------------------ MODULE Batches ------------------------------
(***************************************************************************)
(* consensus_batch() and map_batch(): one Message Batch is submitted,      *)
(* polled against a deadline while the provider works on its requests, and *)
(* its results file is collected by custom_id, all or nothing.             *)
(*                                                                         *)
(* A request is its index.  A line of the file is its custom_id, the index *)
(* of a request or another number for an id this batch did not submit, and *)
(* a response text, or Failed for every line _parse_result_entry() takes   *)
(* for a failure.  `now' counts the time since create_batch() answered,    *)
(* and saturates at Horizon.                                               *)
(***************************************************************************)
EXTENDS Integers, Sequences, FiniteSets, FiniteSetsExt

CONSTANTS Count,         \* num_samples, or len(prompts)
          Texts,         \* response texts
          Failed,        \* an errored, canceled, expired or malformed entry
          Normal,        \* normalize_response, on Texts
          Strays,        \* lines with ids of no request that a file may have
          Tokens,        \* the tokens the provider reports for a text
          Modes,         \* the callers to consider
          Timeout,       \* timeout, and the deadline on the clock `now'
          PollInterval,  \* poll_interval
          HttpTimeout,   \* the client's timeout for one HTTP request
          MaxLines,      \* bound on the lines of a results file
          Horizon        \* where the clock saturates

Waiting == "waiting"

ASSUME BatchAssumption ==
    /\ Count \in Nat \ {0}
    /\ {Timeout, PollInterval, HttpTimeout, MaxLines, Horizon} \subseteq Nat
    /\ Timeout + PollInterval + HttpTimeout < Horizon
    /\ Failed \notin Texts
    /\ Waiting \notin Texts \cup {Failed}
    /\ Strays \subseteq [id : Nat \ 1 .. Count, text : Texts \cup {Failed}]
    /\ Normal \in [Texts -> Texts]
    /\ Tokens \in [Texts -> Nat]
    /\ Modes \subseteq {"map", "majority", "unanimous"}

Requests == 1 .. Count
Nothing == [values |-> <<>>, calls |-> 0, tokens |-> 0]

VARIABLES
    mode,    \* map_batch, or the strategy of consensus_batch
    job,     \* the provider's requests: waiting, or what became of them
    endedAt, \* when the last of them ended (history)
    phase,   \* where the call is suspended, or how it ended
    seen,    \* processing_status in the reply that is on its way is "ended"
    now,     \* time since the batch was created
    timer,   \* time left of the sleep or of the HTTP request
    why,     \* the error raised
    result,  \* the entries' texts in request order, and their TokenUsage
    winner   \* the request whose text tally_votes returns, 0 for none

vars == <<mode, job, endedAt, phase, seen, now, timer, why, result, winner>>

Polling == {"asking", "answered", "sleeping"}
Over == {"returned", "raised"}
Phases == {"creating", "fetching"} \cup Polling \cup Over
Errors == {"none", "transport", "deadline", "duplicate", "failed", "missing", "split"}

Init ==
    /\ mode \in Modes
    /\ job = [i \in Requests |-> Waiting]
    /\ endedAt = Horizon
    /\ phase = "creating"
    /\ seen = FALSE
    /\ now = 0
    /\ timer = HttpTimeout
    /\ why = "none"
    /\ result = Nothing
    /\ winner = 0
-----------------------------------------------------------------------------
(* The provider, and time. *)

Created == phase # "creating"

BatchEnded(jobs) == \A i \in Requests : jobs[i] # Waiting

\* The provider ends one request of a batch that exists, whether or not
\* anyone still waits for it.
Process(i) ==
    /\ Created
    /\ job[i] = Waiting
    /\ \E outcome \in Texts \cup {Failed} : job' = [job EXCEPT ![i] = outcome]
    /\ endedAt' = IF BatchEnded(job') THEN now ELSE Horizon
    /\ UNCHANGED <<mode, phase, seen, now, timer, why, result, winner>>

\* Time passes up to the end of the current sleep or request.
Tick ==
    /\ phase \in {"creating", "fetching", "asking", "answered", "sleeping"}
    /\ timer > 0
    /\ timer' = timer - 1
    /\ now' = IF Created /\ now < Horizon THEN now + 1 ELSE now
    /\ UNCHANGED <<mode, job, endedAt, phase, seen, why, result, winner>>

Request(next) ==
    /\ phase' = next
    /\ timer' = HttpTimeout

Raise(error) ==
    /\ phase' = "raised"
    /\ why' = error
    /\ UNCHANGED <<mode, job, endedAt, seen, now, timer, result, winner>>

\* Faulty: the HTTP requests have no timeout.
HttpFails_NoTimeout ==
    /\ phase \in {"creating", "asking", "answered", "fetching"}
    /\ timer > 0
    /\ Raise("transport")

\* An HTTP request fails (transport, status, 429, malformed JSON), the reply
\* lacks the batch's id or results_url, or the request times out.
HttpFails ==
    /\ phase \in {"creating", "asking", "answered", "fetching"}
    /\ Raise("transport")
-----------------------------------------------------------------------------
(* Submitting and polling. *)

\* create_batch answers: the deadline counts from here.
Create ==
    /\ phase = "creating"
    /\ Request("asking")
    /\ UNCHANGED <<mode, job, endedAt, seen, now, why, result, winner>>

\* The provider reads the batch's status; its reply takes some time.
ReadStatus ==
    /\ phase = "asking"
    /\ phase' = "answered"
    /\ seen' = BatchEnded(job)
    /\ UNCHANGED <<mode, job, endedAt, now, timer, why, result, winner>>

\* Faulty: the deadline is left to the caller.
GivenUp_Never == FALSE

\* Faulty: stops when the next poll would come too late.
GivenUp_Early == now + PollInterval >= Timeout

GivenUp == now >= Timeout

SleepOn ==
    /\ phase' = "sleeping"
    /\ timer' = PollInterval
    /\ UNCHANGED <<mode, job, endedAt, seen, now, why, result, winner>>

FetchOn ==
    /\ Request("fetching")
    /\ UNCHANGED <<mode, job, endedAt, seen, now, why, result, winner>>

\* _await_batch_end on get_batch's reply: the end is looked at first.
GetBatch ==
    /\ phase = "answered"
    /\ \/ seen /\ FetchOn
       \/ ~seen /\ GivenUp /\ Raise("deadline")
       \/ ~seen /\ ~GivenUp /\ SleepOn

PollAgain ==
    /\ phase = "sleeping"
    /\ timer = 0
    /\ Request("asking")
    /\ UNCHANGED <<mode, job, endedAt, seen, now, why, result, winner>>
-----------------------------------------------------------------------------
(* Collecting: entries by custom_id, all or nothing, then the votes. *)

\* The file has the batch's entries in any order; a line may be lost,
\* repeated, or name no request of the batch.
Entries == {[id |-> i, text |-> job[i]] : i \in {k \in Requests : job[k] # Waiting}}
FileLines == Entries \cup Strays
Files == UNION {[1 .. n -> FileLines] : n \in 0 .. MaxLines}

Duplicate(f) == \E k, l \in DOMAIN f : k # l /\ f[k].id = f[l].id
FailedEntry(f) == \E k \in DOMAIN f : f[k].text = Failed
Missing(f) == \E i \in Requests : \A k \in DOMAIN f : f[k].id # i

\* What _run_batch and _entry_or_missing raise for a file, in their order.
Fault(f) ==
    CASE Duplicate(f) -> "duplicate"
      [] ~Duplicate(f) /\ FailedEntry(f) -> "failed"
      [] ~Duplicate(f) /\ ~FailedEntry(f) /\ Missing(f) -> "missing"
      [] OTHER -> "none"

Faults == {error \in {"duplicate", "failed", "missing"} : \E f \in Files : Fault(f) = error}

\* Faulty: the texts in the order of the file.
Values_FileOrder(f) == [i \in Requests |-> f[i].text]

Values(f) == [i \in Requests |-> f[CHOOSE k \in DOMAIN f : f[k].id = i].text]

FileTokens(f) == MapThenSumSet(LAMBDA k : Tokens[f[k].text], DOMAIN f)

\* The TokenUsage of the whole file, stray entries included.
Collected(f) ==
    [values |-> Values(f),
     calls |-> Cardinality(DOMAIN f),
     tokens |-> FileTokens(f)]

Votes(v, i) == Cardinality({k \in Requests : Normal[v[k]] = Normal[v[i]]})

\* Faulty: texts are compared as they are.
Winner_Raw(v) ==
    LET count(i) == Cardinality({k \in Requests : v[k] = v[i]})
    IN  Min({i \in Requests : \A j \in Requests : count(j) <= count(i)})

\* The first response of the largest class; an earlier class breaks a tie.
Winner(v) == Min({i \in Requests : \A j \in Requests : Votes(v, j) <= Votes(v, i)})

Return(collected, first) ==
    /\ phase' = "returned"
    /\ result' = collected
    /\ winner' = first
    /\ UNCHANGED <<mode, job, endedAt, seen, now, timer, why>>

Tally(collected) ==
    \/ mode = "map" /\ Return(collected, 0)
    \/ mode = "majority" /\ Return(collected, Winner(collected.values))
    \/ mode = "unanimous" /\ Votes(collected.values, 1) = Count /\ Return(collected, 1)
    \/ mode = "unanimous" /\ Votes(collected.values, 1) # Count /\ Raise("split")

\* fetch_results answers with a file.
FetchResults ==
    /\ phase = "fetching"
    /\ \/ \E error \in Faults : Raise(error)
       \/ \E f \in Files : Fault(f) = "none" /\ Tally(Collected(f))
-----------------------------------------------------------------------------
Client == Create \/ ReadStatus \/ GetBatch \/ PollAgain \/ FetchResults

Next == Client \/ HttpFails \/ Tick \/ \E i \in Requests : Process(i)

Spec == Init /\ [][Next]_vars

\* Fair: time passes, and an HTTP request or sleep that is over is acted on.
\* Neither the provider nor its replies are: a silent request times out.
TimesOut == timer = 0 /\ HttpFails
Resumes == PollAgain \/ GetBatch
FairSpec == Spec /\ WF_vars(Tick) /\ WF_vars(TimesOut) /\ WF_vars(Resumes)
-----------------------------------------------------------------------------
TypeOK ==
    /\ mode \in Modes
    /\ job \in [Requests -> Texts \cup {Failed, Waiting}]
    /\ endedAt \in 0 .. Horizon
    /\ phase \in Phases
    /\ seen \in BOOLEAN
    /\ now \in 0 .. Horizon
    /\ timer \in 0 .. (IF phase = "sleeping" THEN PollInterval ELSE HttpTimeout)
    /\ why \in Errors
    /\ result.values \in [Requests -> Texts] \/ result = Nothing
    /\ winner \in Requests \cup {0}

\* All or nothing, in request order: whatever the results file looks like, a
\* call that returns gives each request the text the provider produced for
\* it, and bills no fewer calls than it submitted.
Aligned ==
    phase = "returned" =>
        /\ \A i \in Requests : job[i] \in Texts /\ result.values[i] = job[i]
        /\ result.calls >= Count

\* The vote is over the provider's answers, compared after normalisation: no
\* answer has more votes than the winner's, one with as many is first seen
\* later, and a unanimous call returns only when all agree.
WinnerUnbeaten ==
    LET agree(i) == {k \in Requests : job[k] \in Texts /\ Normal[job[k]] = Normal[job[i]]}
    IN  phase = "returned" /\ mode # "map" =>
            /\ mode = "unanimous" => agree(winner) = Requests
            /\ \A i \in Requests \ agree(winner) :
                  /\ Cardinality(agree(i)) <= Cardinality(agree(winner))
                  /\ Cardinality(agree(i)) = Cardinality(agree(winner)) => i > winner

\* The wait is bounded by the timeout plus one sleep and one request, however
\* polls and clock interleave: the deadline does not move with the polls.
WaitBounded == phase \in Polling => now <= Timeout + PollInterval + HttpTimeout

\* A batch that ended a request's time before the deadline is never given
\* up: the poll that meets the deadline has read its status after that.
EndedInTime == why = "deadline" => endedAt + HttpTimeout >= Timeout

\* Every call ends, even if the provider never ends the batch or never replies.
CallEnds == <>(phase \in Over)
=============================================================================
