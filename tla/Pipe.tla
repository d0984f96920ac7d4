-------------------------------- MODULE Pipe --------------------------------
(***************************************************************************)
(* pipe(): steps in order under one max_budget.  A step is a refine_loop,  *)
(* a structured, or a fan-out pattern; the fan-out is one action here and  *)
(* spends what SpendMeter, which CheckedCalls implements, lets it spend.   *)
(* Prompts and values are left out: the pipe only passes them on.          *)
(***************************************************************************)
EXTENDS RefineLoop, Structured, FiniteSets

CONSTANTS Pipelines,   \* the sequences of steps that are run
          Budget,      \* max_budget: 0 is unlimited; all 0 for None
          FanCalls,    \* most calls a fan-out makes
          MaxOpen      \* calls a fan-out has in flight at once

Patterns == {"refine", "refine_custom", "structured", "fan_out"}

\* capped: pipe() hands the step max_cost, because its signature has it.
StepKinds == [pattern : Patterns, capped : BOOLEAN]

ASSUME PipeAssumption ==
    /\ Pipelines \subseteq Seq(StepKinds) \ {<<>>}
    /\ Budget \in Cost
    /\ FanCalls \in Nat \ {0}
    /\ MaxOpen \in Nat \ {0}

VARIABLES
    steps,     \* the pipeline
    at,        \* the step that runs
    total,     \* total_cost
    costs,     \* step_costs
    outcome,   \* how pipe() ended and the cost its result or error carries
    uncapped   \* history: the part of spent that steps without max_cost spent

pipeVars == <<steps, at, total, costs, outcome, uncapped>>
vars == <<stepVars, loopVars, repairs, pipeVars>>

Live == outcome.how = "none"
This == steps[at]

\* Faulty: what is left is cut off at zero, the code for unlimited.
Remaining_Clamped(f) ==
    IF Budget[f] = 0 THEN 0
    ELSE IF Budget[f] - total[f] > 0 THEN Budget[f] - total[f] ELSE 0

\* _subtract, field by field.
Remaining(f) ==
    IF Budget[f] = 0 THEN 0
    ELSE IF Budget[f] - total[f] > 0 THEN Budget[f] - total[f] ELSE -1

Init ==
    /\ steps \in Pipelines
    /\ at = 0
    /\ total = Zero
    /\ costs = <<>>
    /\ outcome = [how |-> "none", cost |-> Zero]
    /\ uncapped = Zero
    /\ maxCost = Zero /\ tracker = Zero /\ spent = Zero
    /\ phase = "idle" /\ call = "ready" /\ tries = 0
    /\ ending = [how |-> "returned", cost |-> Zero]
    /\ builtin = FALSE /\ scores = <<>> /\ best = 0 /\ stale = 0
    /\ repairs = 0
-----------------------------------------------------------------------------
FirstPhase(pattern) ==
    CASE pattern = "structured" -> "draft"
      [] pattern = "fan_out" -> "fanned"
      [] OTHER -> "generate"

\* The next step is called, with what the steps before it left of the budget.
StartStep ==
    /\ Live
    /\ ending.how = "returned"
    /\ Len(costs) = at
    /\ at' = at + 1
    /\ maxCost' = [f \in Fields |-> IF steps[at + 1].capped THEN Remaining(f) ELSE 0]
    /\ tracker' = Zero
    /\ phase' = FirstPhase(steps[at + 1].pattern)
    /\ call' = "ready"
    /\ tries' = 0
    /\ End("none", Zero)
    /\ LoopInit(steps[at + 1].pattern = "refine")
    /\ repairs' = 0
    /\ UNCHANGED <<steps, total, costs, outcome, spent, uncapped>>

\* Whatever a step spends, it spends with or without the budget.
Spending ==
    uncapped' = IF This.capped THEN uncapped
                ELSE [f \in Fields |-> uncapped[f] + spent'[f] - spent[f]]

Step ==
    /\ Live
    /\ \/ /\ phase = "draft" \/ RefineCalling
          /\ CallNext
          /\ UNCHANGED <<loopVars, repairs>>
       \/ RefineNext /\ UNCHANGED repairs
       \/ StructuredNext /\ UNCHANGED loopVars
    /\ Spending
    /\ UNCHANGED <<steps, at, total, costs, outcome>>

\* What SpendMeter lets a fan-out spend under its max_cost.
FanOutSpend ==
    {c \in [llm_calls : 0 .. FanCalls, tokens : 0 .. FanCalls * MaxUsage] :
        /\ c.tokens <= c.llm_calls * MaxUsage
        /\ maxCost["llm_calls"] > 0 => c.llm_calls <= maxCost["llm_calls"]
        /\ maxCost["tokens"] > 0 =>
               c.tokens <= maxCost["tokens"] - 1 + MaxOpen * MaxUsage
        /\ (\E f \in Fields : maxCost[f] = -1) => c.llm_calls = 0}

\* consensus() or map_reduce() ends: with its cost; with an error that carries
\* no more than that; with an ExceptionGroup; or with what a trace callback raised.
FanOut ==
    /\ Live
    /\ At("fanned")
    /\ \E c \in FanOutSpend :
           /\ tracker' = c
           /\ spent' = Plus(spent, c)
           /\ \/ c.llm_calls > 0 /\ End("returned", c)
              \/ \E d \in FanOutSpend :
                     (\A f \in Fields : d[f] <= c[f]) /\ End("budget", d)
              \/ End("llm", Zero)
              \/ CallerRaises
    /\ Spending
    /\ UNCHANGED <<maxCost, phase, callVars, loopVars, repairs, steps, at, total, costs, outcome>>

\* Faulty: what the failed step itself has spent is left out.
StepRaised_OwnCostLost ==
    /\ Live
    /\ ending.how \in KitErrors
    /\ costs' = Append(costs, ending.cost)
    /\ outcome' = [how |-> ending.how, cost |-> total]
    /\ UNCHANGED <<stepVars, loopVars, repairs, steps, at, total, uncapped>>

\* An ExecutionKitError is re-raised with the cost of the pipe so far.
StepRaised ==
    /\ Live
    /\ ending.how \in KitErrors
    /\ costs' = Append(costs, ending.cost)
    /\ outcome' = [how |-> ending.how, cost |-> Plus(total, ending.cost)]
    /\ UNCHANGED <<stepVars, loopVars, repairs, steps, at, total, uncapped>>

\* Anything else passes as it is.
StepEscaped ==
    /\ Live
    /\ ending.how = "foreign"
    /\ outcome' = ending
    /\ UNCHANGED <<stepVars, loopVars, repairs, steps, at, total, costs, uncapped>>

\* The step's result is booked; after the last step pipe() returns.
StepReturned ==
    /\ Live
    /\ ending.how = "returned"
    /\ Len(costs) < at
    /\ costs' = Append(costs, ending.cost)
    /\ total' = Plus(total, ending.cost)
    /\ outcome' = IF at = Len(steps) THEN [how |-> "returned", cost |-> total'] ELSE outcome
    /\ UNCHANGED <<stepVars, loopVars, repairs, steps, at, uncapped>>

Over == ~Live /\ UNCHANGED vars

Next ==
    \/ StartStep
    \/ Step
    \/ FanOut
    \/ StepReturned
    \/ StepRaised
    \/ StepEscaped
    \/ Over

Spec == Init /\ [][Next]_vars
-----------------------------------------------------------------------------
\* One budget for the whole pipe: the steps that take max_cost never call the
\* provider more often than max_budget allows, whatever the steps between them
\* spend, and take a token field past its limit by one set of concurrent
\* responses at most.  Calls that a caller's evaluator makes on its own are not
\* counted.
BudgetHeld ==
    /\ Budget["llm_calls"] > 0 =>
           spent["llm_calls"] - uncapped["llm_calls"] <= Budget["llm_calls"]
    /\ Budget["tokens"] > 0 =>
           spent["tokens"] - uncapped["tokens"] <= Budget["tokens"] - 1 + MaxOpen * MaxUsage

\* The units of a field that step_costs names, each with its step, so that their
\* number is the field's sum.
Units(field) == UNION {{k} \X (1 .. costs[k][field]) : k \in DOMAIN costs}

\* What pipe() reports is what its steps have spent: all of it when it returns,
\* or when a step that calls one call at a time is refused or gives up on an
\* answer, and never more, except what an error of the caller's own code claims.
\* Any ExecutionKitError reports what the steps before it spent, and for the
\* failing step what the error carries: with a provider error, or one that an
\* evaluator raises, the failing step's own spend is lost, though the docstring
\* includes it.  step_costs adds up to what is reported.
CostComplete ==
    /\ \/ outcome.how = "returned"
       \/ outcome.how \in {"budget", "pattern"} /\ This.pattern # "fan_out"
       => outcome.cost = spent
    /\ outcome.how # "custom" => \A f \in Fields : outcome.cost[f] <= spent[f]
    /\ outcome.how \in KitErrors =>
           \A f \in Fields : outcome.cost[f] + tracker[f] = spent[f] + ending.cost[f]
    /\ outcome.how \in {"returned"} \cup KitErrors =>
           \A f \in Fields : outcome.cost[f] = Cardinality(Units(f))
=============================================================================
