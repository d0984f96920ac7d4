---------------------------- MODULE CheckedCalls ----------------------------
(***************************************************************************)
(* One run of a fan-out pattern, consensus() or map_reduce(), on one       *)
(* asyncio event loop: the calls gather_strict() starts in a TaskGroup,    *)
(* the shared CostTracker, and for each call checked_complete() with its   *)
(* budget check, with_retry() and trace events.  A Task is one logical     *)
(* call.  An action is one synchronous run-segment: it starts where a      *)
(* task resumes and ends at the task's next await.                         *)
(*                                                                         *)
(* Left out: prompts and answers; the length of a backoff sleep; the       *)
(* rate_limit_strategy, whose acquire() only delays a dispatch; a trace    *)
(* callback that raises an ExecutionKitError with a cost of its own.       *)
(***************************************************************************)
EXTENDS Integers, FiniteSets

CONSTANTS Samples,         \* the fan-out: consensus samples, or mapped items
          Reducers,        \* the one reduce call of a map_reduce, or none
          MaxConcurrency,  \* semaphore size of gather_strict
          MaxRetries,      \* RetryConfig.max_retries
          Budget,          \* max_cost: 0 is unlimited, -1 is used up
          MaxUsage,        \* MAX_PROVIDER_REPORTED_TOKENS
          Usages           \* the usages the provider's responses report

TokenFields == {"input_tokens", "output_tokens"}
Fields == {"llm_calls"} \cup TokenFields
Cost == [Fields -> Nat]
Zero == [f \in Fields |-> 0]
Tasks == Samples \cup Reducers

ASSUME CallsAssumption ==
    /\ IsFiniteSet(Samples)
    /\ Samples \cap Reducers = {}
    /\ \A r1, r2 \in Reducers : r1 = r2
    /\ MaxConcurrency \in Nat \ {0}
    /\ MaxRetries \in Nat
    /\ Budget \in [Fields -> Nat \cup {-1}]
    /\ MaxUsage \in Nat
    /\ Usages \subseteq [TokenFields -> 0 .. MaxUsage]

VARIABLES
    pc,         \* where each task is suspended, or how it ended
    attempts,   \* attempts reserved by each task (checked_complete's own count)
    terminals,  \* llm_call_end and llm_call_error events of each task
    exc,        \* the kind of exception each task is raising
    excCost,    \* the cost that exception carries
    used,       \* the shared CostTracker
    aborting,   \* the TaskGroup has cancelled its unfinished tasks
    cancelled,  \* ... because the caller of the pattern was cancelled
    outcome,    \* how the pattern call ended
    billed      \* what Kit._run_tracked added to Kit.usage for it

taskVars == <<pc, attempts, terminals, exc, excCost>>
groupVars == <<aborting, cancelled, outcome, billed>>
vars == <<taskVars, used, groupVars>>

Ended == {"done", "failed", "cancelled"}
InFlightStates == {"starting", "waiting", "backoff"}
PCs == {"absent", "queued", "ending", "erroring"} \cup InFlightStates \cup Ended
Kinds == {"none", "budget", "llm", "other"}

\* How the pattern call ends: "raised" is one of the library's own errors, an
\* ExecutionKitError; "foreign" is any other exception but a group.
Outcomes == {"running", "returned", "raised", "foreign", "group", "cancelled"}

\* consensus() is the fan-out alone: its run has no reduce call.
Init ==
    /\ pc \in {start \in [Tasks -> {"queued", "absent"}] :
                    \A s \in Samples : start[s] = "queued"}
    /\ attempts = [t \in Tasks |-> 0]
    /\ terminals = [t \in Tasks |-> 0]
    /\ exc = [t \in Tasks |-> "none"]
    /\ excCost = [t \in Tasks |-> Zero]
    /\ used = Zero
    /\ aborting = FALSE
    /\ cancelled = FALSE
    /\ outcome = "running"
    /\ billed = Zero
-----------------------------------------------------------------------------
(* The task group and its semaphore. *)

Failed == {t \in Tasks : pc[t] = "failed"}
Vanished == {t \in Tasks : pc[t] = "cancelled"}

\* gather_strict returned normally: every sample has its response.
FannedOut == \A s \in Samples : pc[s] = "done"

\* Faulty: a slot is never given back.
Holding_Leak == {s \in Samples : pc[s] # "queued"}

\* Samples holding a slot of gather_strict's semaphore.
Holding == {s \in Samples : pc[s] \notin {"queued"} \cup Ended}

\* Faulty: off by one.
MayStart_OneMore(t) ==
    IF t \in Samples THEN Cardinality(Holding) <= MaxConcurrency ELSE FannedOut

\* Faulty: the reduce call does not wait for the fan-out.
MayStart_EagerReduce(t) == t \in Reducers \/ Cardinality(Holding) < MaxConcurrency

\* A sample starts when it gets a slot; the reduce call starts after the
\* fan-out and takes no slot.
MayStart(t) ==
    IF t \in Samples THEN Cardinality(Holding) < MaxConcurrency ELSE FannedOut

\* After the abort every suspended task resumes with CancelledError only.
Live == outcome = "running" /\ ~aborting

Goto(t, state) == pc' = [pc EXCEPT ![t] = state]
-----------------------------------------------------------------------------
(* checked_complete and with_retry. *)

\* Faulty: refuses only above the limit.
Exhausted_Late(f) ==
    \/ Budget[f] = -1
    \/ Budget[f] > 0 /\ used[f] > Budget[f]

\* _check_budget for one field, and the fields it is asked about: all of them
\* before a first attempt, the call count alone before a retry.
Exhausted(f) ==
    \/ Budget[f] = -1
    \/ Budget[f] > 0 /\ used[f] >= Budget[f]

CheckedFields(attempt) == IF attempt = 1 THEN Fields ELSE {"llm_calls"}

Refused(attempt) == \E f \in CheckedFields(attempt) : Exhausted(f)

reserve_call == used' = [used EXCEPT !["llm_calls"] = @ + 1]

record_without_call(u) ==
    used' = [f \in Fields |-> IF f \in TokenFields THEN used[f] + u[f] ELSE used[f]]

\* "except Exception": the error event goes out and the task awaits its callback.
Raise(t, kind, cost) ==
    /\ Goto(t, "erroring")
    /\ exc' = [exc EXCEPT ![t] = kind]
    /\ excCost' = [excCost EXCEPT ![t] = cost]
    /\ terminals' = [terminals EXCEPT ![t] = @ + 1]

\* _before_attempt: check and reservation in one segment, then the start event.
BeforeAttempt(t) ==
    LET attempt == attempts[t] + 1 IN
    \/ /\ Refused(attempt)
       /\ Raise(t, "budget", used)
       /\ UNCHANGED <<attempts, used>>
    \/ /\ ~Refused(attempt)
       /\ reserve_call
       /\ attempts' = [attempts EXCEPT ![t] = attempt]
       /\ Goto(t, "starting")
       /\ UNCHANGED <<terminals, exc, excCost>>

Begin(t) ==
    /\ Live
    /\ pc[t] = "queued"
    /\ MayStart(t)
    /\ BeforeAttempt(t)
    /\ UNCHANGED groupVars

\* The start event was delivered: provider.complete is called.
Dispatch(t) ==
    /\ Live
    /\ pc[t] = "starting"
    /\ Goto(t, "waiting")
    /\ UNCHANGED <<attempts, terminals, exc, excCost, used, groupVars>>

\* The trace callback raised on the start event: the reserved attempt is never
\* sent, and the exception is not one that with_retry retries.
StartEventRaises(t) ==
    /\ Live
    /\ pc[t] = "starting"
    /\ Raise(t, "other", Zero)
    /\ UNCHANGED <<attempts, used, groupVars>>

\* The response is recorded and the end event goes out.
Respond(t) ==
    /\ Live
    /\ pc[t] = "waiting"
    /\ \E u \in Usages : record_without_call(u)
    /\ terminals' = [terminals EXCEPT ![t] = @ + 1]
    /\ Goto(t, "ending")
    /\ UNCHANGED <<attempts, exc, excCost, groupVars>>

\* The response reports a usage that is no token count.  record_without_call
\* raises ProviderError outside the try: a bad input count before it adds
\* anything, a bad output count after it has added the input.
RespondBadUsage(t) ==
    /\ Live
    /\ pc[t] = "waiting"
    /\ \/ UNCHANGED used
       \/ \E u \in Usages :
              used' = [used EXCEPT !["input_tokens"] = @ + u["input_tokens"]]
    /\ Goto(t, "failed")
    /\ exc' = [exc EXCEPT ![t] = "llm"]
    /\ UNCHANGED <<attempts, terminals, excCost, groupVars>>

\* A retryable error while retries are left.
Backoff(t) ==
    /\ Live
    /\ pc[t] = "waiting"
    /\ attempts[t] <= MaxRetries
    /\ Goto(t, "backoff")
    /\ UNCHANGED <<attempts, terminals, exc, excCost, used, groupVars>>

\* Faulty: a call that failed gives its reservation back.
GiveUp_Refunds(t) ==
    /\ Live
    /\ pc[t] = "waiting"
    /\ Raise(t, "llm", Zero)
    /\ used' = [used EXCEPT !["llm_calls"] = @ - 1]
    /\ UNCHANGED <<attempts, groupVars>>

\* A PermanentError, or a retryable error with no retry left, carries no cost.
GiveUp(t) ==
    /\ Live
    /\ pc[t] = "waiting"
    /\ Raise(t, "llm", Zero)
    /\ UNCHANGED <<attempts, used, groupVars>>

Retry(t) ==
    /\ Live
    /\ pc[t] = "backoff"
    /\ BeforeAttempt(t)
    /\ UNCHANGED groupVars

\* The callback of the end event, or of the error event, returned.
Finish(t) ==
    /\ Live
    /\ \/ pc[t] = "ending" /\ Goto(t, "done")
       \/ pc[t] = "erroring" /\ Goto(t, "failed")
    /\ UNCHANGED <<attempts, terminals, exc, excCost, used, groupVars>>

\* Faulty: the end event is emitted inside the try, so its failure is reported too.
FinalEventRaises_InTry(t) ==
    /\ Live
    /\ pc[t] \in {"ending", "erroring"}
    /\ Raise(t, "other", Zero)
    /\ UNCHANGED <<attempts, used, groupVars>>

\* It raised instead: its exception is what the call ends with.
FinalEventRaises(t) ==
    /\ Live
    /\ pc[t] \in {"ending", "erroring"}
    /\ Goto(t, "failed")
    /\ exc' = [exc EXCEPT ![t] = "other"]
    /\ excCost' = [excCost EXCEPT ![t] = Zero]
    /\ UNCHANGED <<attempts, terminals, used, groupVars>>

\* CancelledError is raised at the task's await; no handler catches it.
Cancelled(t) ==
    /\ aborting
    /\ outcome = "running"
    /\ t \in Samples \/ FannedOut
    /\ pc[t] \notin {"absent"} \cup Ended
    /\ Goto(t, "cancelled")
    /\ UNCHANGED <<attempts, terminals, exc, excCost, used, groupVars>>

\* The provider or a trace callback ends in a CancelledError of its own.
CancelsItself(t) ==
    /\ Live
    /\ pc[t] \in {"starting", "waiting", "ending", "erroring"}
    /\ Goto(t, "cancelled")
    /\ UNCHANGED <<attempts, terminals, exc, excCost, used, groupVars>>
-----------------------------------------------------------------------------
(* gather_strict and the pattern around it. *)

\* Faulty: a child that cancelled itself counts as a failed one.
Abort_OnVanished ==
    /\ Live
    /\ (Failed \cup Vanished) \cap Samples # {}
    /\ aborting' = TRUE
    /\ UNCHANGED <<taskVars, used, cancelled, outcome, billed>>

\* The done-callback of a failed sample, a loop iteration or so after it ended:
\* siblings that were ready to run have run in between.
Abort ==
    /\ Live
    /\ Failed \cap Samples # {}
    /\ aborting' = TRUE
    /\ UNCHANGED <<taskVars, used, cancelled, outcome, billed>>

\* The task that awaits the pattern is cancelled, at any await of the pattern.
CallerCancels ==
    /\ Live
    /\ \A r \in Reducers : pc[r] \notin Ended
    /\ aborting' = TRUE
    /\ cancelled' = TRUE
    /\ UNCHANGED <<taskVars, used, outcome, billed>>

\* Every task the pattern started has ended.
AllEnded ==
    /\ \A s \in Samples : pc[s] \in Ended
    /\ FannedOut => \A r \in Reducers : pc[r] \in {"absent"} \cup Ended

\* _run_tracked records result.cost, or the cost of an ExecutionKitError; it
\* does not catch an ExceptionGroup, a foreign exception or CancelledError.
Close(result, cost) ==
    /\ outcome = "running"
    /\ AllEnded
    /\ outcome' = result
    /\ billed' = cost
    /\ UNCHANGED <<taskVars, used, aborting, cancelled>>

\* Faulty: only errors are recorded.
Return_Unbilled == ~cancelled /\ Failed \cup Vanished = {} /\ Close("returned", Zero)

Return == ~cancelled /\ Failed \cup Vanished = {} /\ Close("returned", used)

\* In consensus(), tally_votes raises ConsensusFailedError, which carries no cost.
Disagree ==
    /\ ~cancelled
    /\ Failed \cup Vanished = {}
    /\ \A r \in Reducers : pc[r] = "absent"
    /\ Close("raised", Zero)

\* A TaskGroup passes over a child that cancelled itself: gather_strict returns
\* None for it, and reading None.content raises AttributeError.
RaiseVanished ==
    ~cancelled /\ Failed = {} /\ Vanished \cap Samples # {} /\ Close("foreign", Zero)

\* The exception of one call, unwrapped from its group: a refusal or a provider
\* error is the library's own, what a trace callback raised is not.
RaiseSingle ==
    \E t \in Tasks :
        /\ Failed = {t}
        /\ IF exc[t] = "other" THEN Close("foreign", Zero) ELSE Close("raised", excCost[t])

RaiseGroup == Cardinality(Failed) > 1 /\ Close("group", Zero)

\* The CancelledError of the caller, or of the reduce call.
RaiseCancelled ==
    /\ cancelled \/ Vanished \cap Reducers # {}
    /\ Failed = {}
    /\ Close("cancelled", Zero)

Conclude ==
    \/ Return
    \/ Disagree
    \/ RaiseVanished
    \/ RaiseSingle
    \/ RaiseGroup
    \/ RaiseCancelled

\* _build_reduce_prompt finds no placeholder in the template and raises
\* ValueError: every item was mapped, and the reduce call is never made.
BadReducePrompt ==
    /\ Live
    /\ FannedOut
    /\ \E r \in Reducers : pc[r] = "queued"
    /\ outcome' = "foreign"
    /\ UNCHANGED <<taskVars, used, aborting, cancelled, billed>>
-----------------------------------------------------------------------------
\* What the event loop, the provider and the callbacks do for one task.
Step(t) ==
    \/ Begin(t)
    \/ Dispatch(t)
    \/ StartEventRaises(t)
    \/ Respond(t)
    \/ RespondBadUsage(t)
    \/ Backoff(t)
    \/ GiveUp(t)
    \/ Retry(t)
    \/ Finish(t)
    \/ FinalEventRaises(t)
    \/ Cancelled(t)
    \/ CancelsItself(t)

\* The pattern call is over.
Over == outcome # "running" /\ UNCHANGED vars

Next ==
    \/ \E t \in Tasks : Step(t)
    \/ Abort
    \/ CallerCancels
    \/ BadReducePrompt
    \/ Conclude
    \/ Over

\* The loop runs every ready task and callback; provider requests time out and
\* trace callbacks return.  Nobody has to cancel the pattern.
Fairness ==
    /\ \A t \in Tasks : WF_vars(Step(t))
    /\ WF_vars(Abort)
    /\ WF_vars(Conclude)

Spec == Init /\ [][Next]_vars

FairSpec == Spec /\ Fairness
-----------------------------------------------------------------------------
TypeOK ==
    /\ pc \in [Tasks -> PCs]
    /\ attempts \in [Tasks -> 0 .. MaxRetries + 1]
    /\ terminals \in [Tasks -> Nat]
    /\ exc \in [Tasks -> Kinds]
    /\ excCost \in [Tasks -> Cost]
    /\ used \in Cost
    /\ aborting \in BOOLEAN
    /\ cancelled \in BOOLEAN
    /\ outcome \in Outcomes
    /\ billed \in Cost

\* checked_complete: concurrent calls and their retries cannot race past the
\* call budget, and a field used up by an earlier pipe step admits nothing.
CallBudgetRespected ==
    /\ Budget["llm_calls"] > 0 => used["llm_calls"] <= Budget["llm_calls"]
    /\ (\E f \in Fields : Budget[f] = -1) => used = Zero

\* A refusal is final: the call it ends never reserves another attempt, and the
\* budget it was refused on is still exhausted when the caller sees the error.
RefusalFinal ==
    [][\A t \in Tasks : exc[t] = "budget" =>
          /\ attempts'[t] = attempts[t]
          /\ \E f \in Fields : Exhausted(f)]_vars

\* Kit.usage is never charged more than the tracker measured, and a pattern
\* that returns is charged exactly that.
NeverOverbilled ==
    /\ \A f \in Fields : billed[f] <= used[f]
    /\ outcome = "returned" => billed = used

\* A call ends its trace at most once, starts no attempt after that, and has
\* done so when it returns its response.
TraceClosedOnce ==
    /\ \A t \in Tasks : terminals[t] <= 1
    /\ \A t \in Tasks : pc[t] = "done" => terminals[t] = 1 /\ attempts[t] > 0
    /\ \A t \in Tasks : pc[t] \in InFlightStates => terminals[t] = 0

\* Every run ends: no sample waits for ever for a slot, a backoff or a sibling.
Termination == <>(outcome # "running")

\* The spend meter this run implements.
InFlight == {t \in Tasks : pc[t] \in InFlightStates}

Meter == INSTANCE SpendMeter WITH
    Limit <- Budget, MaxOpen <- MaxConcurrency, MaxUsage <- MaxUsage,
    spent <- used, open <- Cardinality(InFlight), over <- outcome # "running"

\* Seen from outside, the run is a spend meter: whatever the interleaving of
\* samples, retries, failures and cancellation, each step admits, retries,
\* settles or drops one call, or changes nothing about spend.
ImplementsMeter == Meter!Spec

\* gather_strict stops its children for a cause and for good.  A call that waits
\* for a slot or sleeps before a retry is cancelled only when a sample failed or
\* the caller was cancelled, not because a sibling cancelled itself; how a call
\* ended never changes, so no abort hides a failure or throws away a response;
\* an aborted run spends nothing more; no call of it is on its way when it has
\* ended; and the reduce call is tried on a full set of responses only.
AbortsForCause ==
    [][/\ \A t \in Tasks : pc[t] \in {"queued", "backoff"} /\ pc'[t] = "cancelled" =>
              cancelled \/ Failed \cap Samples # {}
       /\ \A t \in Tasks : pc[t] \in Ended => pc'[t] = pc[t]
       /\ aborting => used' = used
       /\ outcome' # "running" => InFlight = {}
       /\ \A r \in Reducers : attempts'[r] > attempts[r] => FannedOut]_vars

\* A token budget stops new calls, not open ones: however the samples are
\* interleaved and however often they retry, the tracker ends at most one full
\* set of concurrent responses above the limit.
OvershootBounded == Meter!OvershootBounded
-----------------------------------------------------------------------------
(* What the repository's texts say, and the code does not do. *)

\* docs/architecture.md: "Retry attempts repeat steps 3 through 5", where step 3
\* checks the remaining budget.
RetryChecksBudget ==
    [][\A t \in Tasks : attempts'[t] > attempts[t] =>
          \A f \in Fields : ~Exhausted(f)]_vars

\* kit.py, _run_tracked: the recorded cost "keeps usage honest even when a
\* pattern aborts, instead of silently dropping the spend", read of the runs that
\* abort with an ExecutionKitError, the only exception that is recorded at all,
\* and none of whose calls was cut short.
AbortedSpendBilled == outcome = "raised" /\ Vanished = {} => billed = used

\* checked_complete: "one terminal llm_call_end/llm_call_error per logical
\* call", read of the calls that end with a response or an error of their own.
TerminalEventPerCall ==
    \A t \in Tasks : pc[t] \in {"done", "failed"} => terminals[t] = 1
=============================================================================
