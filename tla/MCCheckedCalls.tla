--------------------------- MODULE MCCheckedCalls ---------------------------
(* TLC instances of CheckedCalls: budgets and usages. *)
EXTENDS CheckedCalls

CONSTANTS CallLimit, InputLimit, OutputLimit

MCBudget ==
    [llm_calls |-> CallLimit, input_tokens |-> InputLimit, output_tokens |-> OutputLimit]

OneUsage == {[input_tokens |-> 1, output_tokens |-> 1]}

\* ... and a response without a usage object.
SomeUsage == OneUsage \cup {[input_tokens |-> 0, output_tokens |-> 0]}
=============================================================================
