----------------------------- MODULE Structured -----------------------------
(***************************************************************************)
(* structured(): ask for JSON, parse and validate the answer, and ask for  *)
(* a repair until it is accepted or the repairs are used up.  Which answer *)
(* comes, and what the validator makes of it, is a free choice;            *)
(* JsonExtraction says what extract_json() finds in one.                   *)
(***************************************************************************)
EXTENDS StepCalls, JsonExtraction

CONSTANT MaxRepairs   \* structured()'s max_retries

ASSUME StructuredAssumption == MaxRepairs \in Nat

VARIABLE repairs      \* metadata["repair_attempts"]

\* The answer parses and the validator accepts it.
Accepted ==
    /\ Answered("draft", "draft")
    /\ End("returned", tracker')
    /\ UNCHANGED repairs

\* It does not, and a repair is left.
Rejected ==
    /\ Answered("draft", "draft")
    /\ repairs < MaxRepairs
    /\ repairs' = repairs + 1
    /\ UNCHANGED ending

\* It does not, and none is left: PatternError with the cost so far.
Unrepaired ==
    /\ Answered("draft", "draft")
    /\ repairs = MaxRepairs
    /\ End("pattern", tracker')
    /\ UNCHANGED repairs

\* The validator raises.
Invalid ==
    /\ Answered("draft", "draft")
    /\ CallerRaises
    /\ UNCHANGED repairs

StructuredNext == Accepted \/ Rejected \/ Unrepaired \/ Invalid
-----------------------------------------------------------------------------
\* Whenever structured() waits for an answer, extract_json() is right about all
\* the answers that may come: it finds the payload they were written around.
AnswersParsed == phase = "draft" => PayloadFound
=============================================================================
