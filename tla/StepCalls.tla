------------------------------ MODULE StepCalls ------------------------------
(***************************************************************************)
(* A pattern whose provider calls go out one after the other, as one step  *)
(* of a pipe: its CostTracker, the max_cost it was given, and              *)
(* checked_complete() for the call it is waiting for.  CheckedCalls has    *)
(* the same code with concurrent calls, its slots and its trace.           *)
(*                                                                         *)
(* The two token fields of a TokenUsage are treated alike everywhere; one  *)
(* field stands for both.                                                  *)
(***************************************************************************)
EXTENDS Integers

CONSTANTS MaxRetries,   \* RetryConfig.max_retries
          MaxUsage,     \* most tokens one response may report
          Usages,       \* the tokens responses report
          OwnCosts      \* costs that errors of the caller's own code carry

Fields == {"llm_calls", "tokens"}
Cost == [Fields -> Nat]

ASSUME StepCallsAssumption ==
    /\ MaxRetries \in Nat
    /\ MaxUsage \in Nat
    /\ Usages \subseteq 0 .. MaxUsage
    /\ OwnCosts \subseteq Cost

Zero == [f \in Fields |-> 0]
Plus(a, b) == [f \in Fields |-> a[f] + b[f]]

VARIABLES
    maxCost,   \* the step's max_cost: 0 is unlimited, -1 is used up
    tracker,   \* the step's CostTracker
    phase,     \* what the step is awaiting
    call,      \* the checked call of that phase: not sent yet, sent, or in backoff
    tries,     \* attempts of that call
    ending,    \* how the step ended and the cost its result or error carries
    spent      \* history: what the provider was asked and charged, in all steps

callVars == <<call, tries>>
stepVars == <<maxCost, tracker, phase, callVars, ending, spent>>

\* Errors pipe() recognises, "custom" being an ExecutionKitError that the caller's
\* own code raises, and everything else: ExceptionGroup, ValueError,
\* CancelledError, most of what a callback raises.
KitErrors == {"budget", "llm", "pattern", "custom"}
Endings == {"none", "returned", "foreign"} \cup KitErrors

Running == ending.how = "none"

End(how, cost) == ending' = [how |-> how, cost |-> cost]

\* An evaluator, a validator or a trace callback raises.  No handler of the step
\* adds what its tracker holds: an ExecutionKitError leaves with the cost it was
\* made with.
CallerRaises == End("foreign", Zero) \/ \E c \in OwnCosts : End("custom", c)

\* The step is suspended at the await of phase p.
At(p) == Running /\ phase = p
-----------------------------------------------------------------------------
\* _check_budget for one field.
Exhausted(f) ==
    \/ maxCost[f] = -1
    \/ maxCost[f] > 0 /\ tracker[f] >= maxCost[f]

\* A first attempt is checked against every field, a retry against the calls.
Refused == \E f \in IF tries = 0 THEN Fields ELSE {"llm_calls"} : Exhausted(f)

Charge(f, n) ==
    /\ tracker' = [tracker EXCEPT ![f] = @ + n]
    /\ spent' = [spent EXCEPT ![f] = @ + n]

\* The next attempt is refused, or reserved and sent.
Attempt ==
    /\ Running
    /\ call \in {"ready", "backoff"}
    /\ \/ /\ Refused
          /\ End("budget", tracker)
          /\ UNCHANGED <<tracker, callVars, spent>>
       \/ /\ ~Refused
          /\ Charge("llm_calls", 1)
          /\ call' = "sent"
          /\ tries' = tries + 1
          /\ UNCHANGED ending
    /\ UNCHANGED <<maxCost, phase>>

\* A retryable error with retries left.
Backoff ==
    /\ Running
    /\ call = "sent"
    /\ tries <= MaxRetries
    /\ call' = "backoff"
    /\ UNCHANGED <<maxCost, tracker, phase, tries, ending, spent>>

\* The call fails for good, with an error that carries no cost: the provider's,
\* or one about a usage that is no token count, part of which may be recorded.
GiveUp ==
    /\ Running
    /\ call = "sent"
    /\ \E u \in {0} \cup Usages : Charge("tokens", u)
    /\ End("llm", Zero)
    /\ UNCHANGED <<maxCost, phase, callVars>>

\* The trace callback raises, before or after the response is recorded, or the
\* task is cancelled.
Escape ==
    /\ Running
    /\ \/ call = "sent" /\ \E u \in {0} \cup Usages : Charge("tokens", u)
       \/ call = "backoff" /\ UNCHANGED <<tracker, spent>>
       \/ call = "ready" /\ Refused /\ UNCHANGED <<tracker, spent>>
    /\ CallerRaises
    /\ UNCHANGED <<maxCost, phase, callVars>>

\* The response to the call of phase p is recorded, and the step goes on to
\* phase q; the call there, if it makes one, is a new one.
Answered(p, q) ==
    /\ At(p)
    /\ call = "sent"
    /\ \E u \in Usages : Charge("tokens", u)
    /\ phase' = q
    /\ call' = "ready"
    /\ tries' = 0
    /\ UNCHANGED maxCost

\* What may happen to a call the pattern is making, short of its response.
CallNext == Attempt \/ Backoff \/ GiveUp \/ Escape
=============================================================================
