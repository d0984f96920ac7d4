----------------------------- MODULE Telemetry -----------------------------
(***************************************************************************)
(* A TraceCollector attached to a fan-out of CheckedCalls: it joins the    *)
(* llm_call_start, llm_call_end and llm_call_error events of each logical  *)
(* call into one CallRecord.  The trace callback feeds the collector and   *)
(* may raise after that, as in CheckedCalls; the collector itself does     *)
(* not.                                                                    *)
(*                                                                         *)
(* A response that reports no tokens at all is one without a usage object. *)
(* Left out: models, times, finish reasons; events without a call id.      *)
(***************************************************************************)
EXTENDS CheckedCalls

VARIABLES opened,   \* _open: calls that have started, with the attempts seen
          records   \* _records; their order is not modelled

telemetryVars == <<opened, records>>

\* None, next to {usage}.
Unreported == {}

Silent == [f \in TokenFields |-> 0]

\* What the response the step has recorded reports, field by field.
Reported == [f \in TokenFields |-> used'[f] - used[f]]

\* Faulty: the tokens are read from the cost snapshot of the event.
EventTokens_Snapshot == {[f \in TokenFields |-> used'[f]]}

\* _response_usage: the token keys of an end event.
EventTokens == IF Reported = Silent THEN Unreported ELSE {Reported}

OnStart(t) ==
    /\ opened' = [opened EXCEPT ![t] = attempts'[t]]
    /\ UNCHANGED records

\* _finalize: an error event has no token keys.
Finalize(t) ==
    /\ opened' = [opened EXCEPT ![t] = 0]
    /\ records' = records \cup
           {[call |-> t, ok |-> pc'[t] = "ending", attempts |-> attempts'[t],
             tokens |-> IF pc'[t] = "ending" THEN EventTokens ELSE Unreported]}

\* The event the step of the system emits, if any, is handed to the collector.
Collect ==
    \/ \E t \in Tasks : attempts'[t] > attempts[t] /\ OnStart(t)
    \/ \E t \in Tasks : terminals'[t] > terminals[t] /\ Finalize(t)
    \/ attempts' = attempts /\ terminals' = terminals /\ UNCHANGED telemetryVars

TelemetryInit == Init /\ opened = [t \in Tasks |-> 0] /\ records = {}

TelemetryNext == Next /\ Collect

TelemetrySpec == TelemetryInit /\ [][TelemetryNext]_<<vars, telemetryVars>> /\ Fairness
-----------------------------------------------------------------------------
\* The sum of the values of a function, as the number of their units.
Units(amounts) == UNION {{x} \X (1 .. amounts[x]) : x \in DOMAIN amounts}

Total(amounts) == Cardinality(Units(amounts))

\* summary(): the usage totals and the attempts over all records.
TokensOf(f) ==
    [rec \in {r \in records : r.tokens # Unreported} |-> (CHOOSE usage \in rec.tokens : TRUE)[f]]

UsageTotal(f) == Total(TokensOf(f))

AttemptsOf == [rec \in records |-> rec.attempts]

AttemptTotal == Total(AttemptsOf)

\* Calls whose response was recorded in part and that emitted no terminal event.
Lost == {t \in Tasks : pc[t] = "failed" /\ terminals[t] = 0}

\* The collector's rules: the usage of a call is counted once, from its own end
\* event, and not from the running total that all calls of the run share; so the
\* summary agrees with the tracker however the calls interleave, and says of
\* each call how often it was tried.
SummaryAgrees ==
    /\ \A f \in TokenFields : UsageTotal(f) <= used[f]
    /\ Lost = {} => \A f \in TokenFields : UsageTotal(f) = used[f]
    /\ AttemptTotal + Total(opened) = used["llm_calls"]
    /\ \A a, b \in records : a.call = b.call => a = b
=============================================================================
