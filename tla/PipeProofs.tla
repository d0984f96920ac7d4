----------------------------- MODULE PipeProofs -----------------------------
(***************************************************************************)
(* The budget of a pipe and the cost it reports, the best candidate of its *)
(* refine_loops and where they stop, for every pipeline, budget, retry     *)
(* count, patience and number of iterations.  What a step may spend        *)
(* follows from its own max_cost; what max_cost is follows from the books  *)
(* pipe() keeps.  Then how often its steps call the provider, and that it  *)
(* ends; and last, that a structured step finds the JSON of an answer.     *)
(***************************************************************************)
EXTENDS Pipe, FiniteSetTheorems, WellFoundedInduction, TLAPS

Ending == [how : Endings, cost : Cost]

SpendTypeOK ==
    /\ maxCost \in [Fields -> Int]
    /\ tracker \in Cost /\ spent \in Cost
    /\ call \in {"ready", "sent", "backoff"}
    /\ tries \in Nat
    /\ ending \in Ending

PipeTypeOK ==
    /\ steps \in Seq(StepKinds) /\ Len(steps) > 0
    /\ at \in 0 .. Len(steps)
    /\ total \in Cost /\ uncapped \in Cost
    /\ costs \in Seq(Cost)
    /\ outcome \in Ending

\* What a step has spent against the max_cost it was given.  A call that is under
\* way was admitted with tokens left.
LimitInv ==
    /\ \A f \in Fields : maxCost[f] >= -1
    /\ call = "ready" <=> tries = 0
    /\ (\E f \in Fields : maxCost[f] = -1) => tracker = Zero /\ call = "ready"
    /\ maxCost["llm_calls"] > 0 => tracker["llm_calls"] <= maxCost["llm_calls"]
    /\ maxCost["tokens"] > 0 =>
           /\ tracker["tokens"] <= maxCost["tokens"] - 1 + MaxOpen * MaxUsage
           /\ Running /\ call # "ready" => tracker["tokens"] < maxCost["tokens"]

\* A fan-out ends in one action, from nothing spent.
FanInv == At("fanned") => tracker = Zero /\ call = "ready"

\* The running step is part of the total.
Booked == Len(costs) = at /\ outcome.how \notin KitErrors

\* How far the pipe is.
PlaceInv ==
    /\ Len(costs) <= at
    /\ ~Booked => at > 0
    /\ Live => /\ at <= Len(costs) + 1
               /\ ending.how # "returned" => Len(costs) < at
               /\ Booked => at < Len(steps)

\* Each token and call is in the total or in the running step's tracker, and a step
\* that takes max_cost was given what the total left.
BooksInv ==
    /\ \A f \in Fields : spent[f] = total[f] + IF Booked THEN 0 ELSE tracker[f]
    /\ ~Booked /\ ending.how = "returned" => ending.cost = tracker
    /\ ~Booked /\ This.capped => \A f \in Fields : maxCost[f] = Remaining(f)

PipeInv ==
    /\ SpendTypeOK
    /\ PipeTypeOK
    /\ LimitInv
    /\ FanInv
    /\ PlaceInv
    /\ BooksInv
    /\ BudgetHeld
-----------------------------------------------------------------------------
\* One response is at most one set of concurrent ones.
LEMMA OneOfMany == MaxOpen * MaxUsage \in Nat /\ MaxUsage <= MaxOpen * MaxUsage
<1>1. MaxOpen \in Nat /\ MaxOpen >= 1 /\ MaxUsage \in Nat
  BY PipeAssumption, StepCallsAssumption DEF PipeAssumption, StepCallsAssumption
<1>2. PICK k \in Nat : MaxOpen = k + 1
  BY <1>1
<1>3. k * MaxUsage \in Nat
  BY <1>1, <1>2
<1>4. MaxOpen * MaxUsage = k * MaxUsage + MaxUsage
  BY <1>1, <1>2
<1>5. QED
  BY <1>1, <1>3, <1>4

\* Costs by their fields.
LEMMA FieldFacts ==
  /\ Fields = {"llm_calls", "tokens"}
  /\ Zero \in Cost /\ \A f \in Fields : Zero[f] = 0
  /\ \A a, b \in Cost : Plus(a, b) \in Cost /\ \A f \in Fields : Plus(a, b)[f] = a[f] + b[f]
BY DEF Fields, Zero, Cost, Plus

\* How the caller's own code can end a step.
LEMMA CallerEnds ==
  ASSUME CallerRaises
  PROVE  ending' \in Ending /\ ending'.how \in {"foreign", "custom"}
<1>1. CASE End("foreign", Zero)
  BY <1>1, FieldFacts DEF End, Ending, Endings
<1>2. ASSUME NEW c \in OwnCosts, End("custom", c)
      PROVE  ending' \in Ending /\ ending'.how = "custom"
  BY <1>2, StepCallsAssumption DEF StepCallsAssumption, End, Ending, Endings, KitErrors
<1>3. QED
  BY <1>1, <1>2 DEF CallerRaises

\* A step of the running pattern: it spends within its max_cost, and ends as one may.
Progress ==
    /\ SpendTypeOK'
    /\ LimitInv'
    /\ maxCost' = maxCost
    /\ \A f \in Fields : /\ tracker'[f] - tracker[f] = spent'[f] - spent[f]
                          /\ spent[f] <= spent'[f]
    /\ ending'.how = "returned" => ending'.cost = tracker'

\* An action that charges nothing and leaves the call as it is.
LEMMA Quiet ==
  ASSUME PipeInv, Running, UNCHANGED <<maxCost, tracker, callVars, spent>>,
         \/ ending' = ending
         \/ ending' \in Ending /\ ending'.how # "none"
            /\ (ending'.how = "returned" => ending'.cost = tracker')
  PROVE  Progress
<1>1. SpendTypeOK'
  BY DEF PipeInv, SpendTypeOK, callVars
<1>2. LimitInv'
  BY DEF PipeInv, LimitInv, callVars, Running
<1>3. ending'.how = "returned" => ending'.cost = tracker'
  BY DEF Running
<1>4. QED
  BY <1>1, <1>2, <1>3 DEF Progress, PipeInv, SpendTypeOK, Cost

\* An attempt is sent only below every limit its check reads.
LEMMA AttemptProgress ==
  ASSUME PipeInv, Attempt
  PROVE  Progress
<1> USE FieldFacts
<1>0. SpendTypeOK /\ LimitInv /\ Running
  BY DEF PipeInv, Attempt
<1>1. CASE Refused /\ End("budget", tracker) /\ UNCHANGED <<tracker, callVars, spent>>
  <2>1. ending' \in Ending /\ ending'.how = "budget"
    BY <1>0, <1>1 DEF End, Ending, Endings, KitErrors, SpendTypeOK
  <2>2. QED
    BY <1>0, <1>1, <2>1, Quiet DEF Attempt
<1>2. CASE ~Refused /\ Charge("llm_calls", 1) /\ call' = "sent" /\ tries' = tries + 1 /\ UNCHANGED ending
  <2>1. /\ maxCost' = maxCost /\ tries \in Nat
        /\ tracker \in Cost /\ spent \in Cost
        /\ tracker' = [tracker EXCEPT !["llm_calls"] = @ + 1]
        /\ spent' = [spent EXCEPT !["llm_calls"] = @ + 1]
    BY <1>0, <1>2 DEF Attempt, Charge, SpendTypeOK
  <2>2. /\ tracker' \in Cost /\ spent' \in Cost
        /\ tracker'["llm_calls"] = tracker["llm_calls"] + 1 /\ tracker'["tokens"] = tracker["tokens"]
        /\ spent'["llm_calls"] = spent["llm_calls"] + 1 /\ spent'["tokens"] = spent["tokens"]
    BY <2>1 DEF Cost
  <2>3. SpendTypeOK'
    BY <1>0, <1>2, <2>1, <2>2 DEF SpendTypeOK
  <2>4. /\ tries = 0 => \A f \in Fields : ~Exhausted(f)
        /\ ~Exhausted("llm_calls")
    BY <1>2 DEF Refused
  <2>5. \A f \in Fields : maxCost[f] # -1
    BY <1>0, <2>4 DEF LimitInv, Exhausted
  <2>6. maxCost["llm_calls"] > 0 => tracker["llm_calls"] < maxCost["llm_calls"]
    BY <1>0, <2>4 DEF Exhausted, SpendTypeOK, Cost
  <2>7. maxCost["tokens"] > 0 => tracker["tokens"] < maxCost["tokens"]
    BY <1>0, <2>4 DEF Exhausted, SpendTypeOK, Cost, LimitInv
  <2>8. LimitInv'
    <3>1. maxCost["llm_calls"] \in Int /\ maxCost["tokens"] \in Int
          /\ tracker["llm_calls"] \in Nat /\ tracker["tokens"] \in Nat
      BY <1>0 DEF SpendTypeOK, Cost
    <3>2. QED
      BY <1>0, <1>2, <2>1, <2>2, <2>5, <2>6, <2>7, <3>1 DEF LimitInv
  <2>9. QED
    BY <1>0, <1>2, <2>1, <2>2, <2>3, <2>8 DEF Progress, Running, Cost
<1>3. QED
  BY <1>1, <1>2 DEF Attempt

\* Waiting for a retry charges nothing.
LEMMA BackoffProgress ==
  ASSUME PipeInv, Backoff
  PROVE  Progress
<1>0. SpendTypeOK /\ LimitInv /\ Running /\ call = "sent" /\ call' = "backoff"
      /\ UNCHANGED <<maxCost, tracker, tries, ending, spent>>
  BY DEF PipeInv, Backoff
<1>1. SpendTypeOK' /\ LimitInv'
  BY <1>0 DEF SpendTypeOK, LimitInv, Running
<1>2. QED
  BY <1>0, <1>1 DEF Progress, Running, SpendTypeOK, Cost

\* Tokens are charged to a call under way, which ends the call or the step.
LEMMA TokensProgress ==
  ASSUME PipeInv, Running, call = "sent",
         NEW u \in 0 .. MaxUsage, Charge("tokens", u), maxCost' = maxCost,
         \/ call' = "ready" /\ tries' = 0
         \/ ending'.how # "none" /\ UNCHANGED callVars,
         ending' = ending \/ (ending' \in Ending /\ (ending'.how = "returned" => ending'.cost = tracker'))
  PROVE  Progress
<1> USE FieldFacts
<1>0. SpendTypeOK /\ LimitInv /\ u \in Nat /\ u <= MaxUsage
  BY StepCallsAssumption DEF PipeInv, StepCallsAssumption
<1>1. /\ tracker \in Cost /\ spent \in Cost
      /\ tracker' = [tracker EXCEPT !["tokens"] = @ + u]
      /\ spent' = [spent EXCEPT !["tokens"] = @ + u]
  BY <1>0 DEF Charge, SpendTypeOK
<1>2. /\ tracker' \in Cost /\ spent' \in Cost
      /\ tracker'["llm_calls"] = tracker["llm_calls"] /\ tracker'["tokens"] = tracker["tokens"] + u
      /\ spent'["llm_calls"] = spent["llm_calls"] /\ spent'["tokens"] = spent["tokens"] + u
  BY <1>0, <1>1 DEF Cost
<1>3. SpendTypeOK'
  BY <1>0, <1>2 DEF SpendTypeOK, callVars
<1>4. LimitInv'
  <2>1. /\ maxCost["llm_calls"] \in Int /\ maxCost["tokens"] \in Int
        /\ tracker["llm_calls"] \in Nat /\ tracker["tokens"] \in Nat
        /\ MaxOpen * MaxUsage \in Nat /\ MaxUsage <= MaxOpen * MaxUsage /\ MaxUsage \in Nat
    BY <1>0, OneOfMany, StepCallsAssumption DEF SpendTypeOK, Cost, StepCallsAssumption
  <2>2. \A f \in Fields : maxCost[f] # -1
    BY <1>0 DEF LimitInv
  <2>3. maxCost["tokens"] > 0 => tracker["tokens"] < maxCost["tokens"]
    BY <1>0 DEF LimitInv
  <2>4. maxCost["tokens"] > 0 => tracker'["tokens"] <= maxCost["tokens"] - 1 + MaxOpen * MaxUsage
    BY <1>0, <1>2, <2>1, <2>3
  <2>5. Running' => call' = "ready"
    BY DEF Running
  <2>6. call' = "ready" <=> tries' = 0
    BY <1>0 DEF LimitInv, callVars
  <2>7. QED
    BY <1>0, <1>2, <2>1, <2>2, <2>4, <2>5, <2>6 DEF LimitInv
<1>5. ending'.how = "returned" => ending'.cost = tracker'
  BY DEF Running
<1>6. QED
  BY <1>1, <1>2, <1>3, <1>4, <1>5 DEF Progress, Cost

\* A call that fails for good.
LEMMA GiveUpProgress ==
  ASSUME PipeInv, GiveUp
  PROVE  Progress
<1>1. PICK u \in {0} \cup Usages : Charge("tokens", u)
  BY DEF GiveUp
<1>2. u \in 0 .. MaxUsage
  BY StepCallsAssumption DEF StepCallsAssumption
<1>3. ending' \in Ending /\ ending'.how = "llm"
  BY FieldFacts DEF GiveUp, End, Ending, Endings, KitErrors
<1>4. QED
  BY <1>1, <1>2, <1>3, TokensProgress DEF GiveUp

\* A call that something else ends.
LEMMA EscapeProgress ==
  ASSUME PipeInv, Escape
  PROVE  Progress
<1>1. ending' \in Ending /\ ending'.how \in {"foreign", "custom"}
  BY CallerEnds DEF Escape
<1>2. CASE call = "sent"
  <2>1. PICK u \in {0} \cup Usages : Charge("tokens", u)
    BY <1>2 DEF Escape
  <2>2. u \in 0 .. MaxUsage
    BY StepCallsAssumption DEF StepCallsAssumption
  <2>3. QED
    BY <1>1, <1>2, <2>1, <2>2, TokensProgress DEF Escape
<1>3. CASE call # "sent"
  <2>1. Running /\ UNCHANGED <<maxCost, tracker, callVars, spent>>
    BY <1>3 DEF Escape
  <2>2. QED
    BY <1>1, <2>1, Quiet
<1>4. QED
  BY <1>2, <1>3

\* The response to a call of any phase, whether or not it ends the step.
LEMMA AnsweredProgress ==
  ASSUME PipeInv, NEW p, NEW q, Answered(p, q),
         \/ ending' = ending
         \/ End("foreign", Zero)
         \/ CallerRaises
         \/ \E how \in {"returned", "pattern"} : End(how, tracker')
  PROVE  Progress
<1>1. PICK u \in Usages : Charge("tokens", u)
  BY DEF Answered
<1>2. u \in 0 .. MaxUsage
  BY StepCallsAssumption DEF StepCallsAssumption
<1>3. tracker' \in Cost
  <2>1. tracker \in Cost /\ u \in Nat
    BY <1>2, StepCallsAssumption DEF PipeInv, SpendTypeOK, StepCallsAssumption
  <2>2. QED
    BY <1>1, <2>1, FieldFacts DEF Charge, Cost
<1>4. ending' = ending \/ (ending' \in Ending /\ (ending'.how = "returned" => ending'.cost = tracker'))
  <2>1. CASE End("foreign", Zero)
    BY <2>1, FieldFacts DEF End, Ending, Endings
  <2>2. CASE \E how \in {"returned", "pattern"} : End(how, tracker')
    BY <1>3, <2>2 DEF End, Ending, Endings, KitErrors
  <2>3. QED
    BY <2>1, <2>2, CallerEnds
<1>5. QED
  BY <1>1, <1>2, <1>4, TokensProgress DEF Answered, At

\* One lemma for what a step of each pattern does.
LEMMA StepProgress ==
  ASSUME PipeInv, Step
  PROVE  Progress
<1>1. CASE CallNext
  BY <1>1, AttemptProgress, BackoffProgress, GiveUpProgress, EscapeProgress DEF CallNext
<1>2. CASE StructuredNext
  <2>1. /\ Answered("draft", "draft")
        /\ \/ ending' = ending
           \/ CallerRaises
           \/ \E how \in {"returned", "pattern"} : End(how, tracker')
    BY <1>2 DEF StructuredNext, Accepted, Rejected, Unrepaired, Invalid
  <2>2. QED
    BY <2>1, AnsweredProgress
<1>3. CASE RefineNext
  <2>1. CASE Generated
    BY <2>1, AnsweredProgress DEF Generated
  <2>2. CASE Rated
    BY <2>2, AnsweredProgress DEF Rated
  <2>3. CASE Unrated
    BY <2>3, AnsweredProgress DEF Unrated
  <2>4. CASE Judged
    BY <2>4, Quiet DEF Judged, At
  <2>5. CASE Misjudged \/ CheckpointCancelled
    <3>1. Running /\ UNCHANGED <<maxCost, tracker, callVars, spent>>
          /\ ending' \in Ending /\ ending'.how \in {"foreign", "custom"}
      BY <2>5, CallerEnds, FieldFacts DEF Misjudged, CheckpointCancelled, At, End, Ending, Endings
    <3>2. QED
      BY <3>1, Quiet
  <2>6. CASE Checkpointed
    <3>1. Running /\ UNCHANGED <<maxCost, tracker, callVars, spent>>
          /\ (ending' = ending \/ ending' = [how |-> "returned", cost |-> tracker])
      BY <2>6 DEF Checkpointed, At, End
    <3>2. [how |-> "returned", cost |-> tracker] \in Ending
      BY DEF PipeInv, SpendTypeOK, Ending, Endings
    <3>3. QED
      BY <3>1, <3>2, Quiet
  <2>7. QED
    BY <1>3, <2>1, <2>2, <2>3, <2>4, <2>5, <2>6 DEF RefineNext
<1>4. QED
  BY <1>1, <1>2, <1>3 DEF Step

\* A fan-out spends what its own meter allows.
LEMMA FanOutProgress ==
  ASSUME PipeInv, FanOut
  PROVE  Progress
<1> USE FieldFacts
<1>0. /\ SpendTypeOK /\ LimitInv /\ At("fanned") /\ tracker = Zero /\ call = "ready"
      /\ UNCHANGED <<maxCost, callVars>>
  BY DEF FanOut, PipeInv, FanInv
<1>1. PICK c \in FanOutSpend :
         /\ tracker' = c
         /\ spent' = Plus(spent, c)
         /\ \/ c.llm_calls > 0 /\ End("returned", c)
            \/ \E d \in FanOutSpend :
                   (\A f \in Fields : d[f] <= c[f]) /\ End("budget", d)
            \/ End("llm", Zero)
            \/ CallerRaises
  BY DEF FanOut
<1>2. FanCalls * MaxUsage \in Nat
  <2>1. FanCalls \in Nat /\ MaxUsage \in Nat
    BY PipeAssumption, StepCallsAssumption DEF PipeAssumption, StepCallsAssumption
  <2>2. QED
    BY <2>1
<1>3. ASSUME NEW d \in FanOutSpend PROVE d \in Cost /\ d["llm_calls"] = d.llm_calls /\ d["tokens"] = d.tokens
  BY <1>2, PipeAssumption DEF FanOutSpend, Cost, PipeAssumption
<1>4. /\ maxCost["llm_calls"] > 0 => c["llm_calls"] <= maxCost["llm_calls"]
      /\ maxCost["tokens"] > 0 => c["tokens"] <= maxCost["tokens"] - 1 + MaxOpen * MaxUsage
      /\ (\E f \in Fields : maxCost[f] = -1) => c["llm_calls"] = 0
      /\ c["llm_calls"] = 0 => c["tokens"] = 0
  <2>1. c["tokens"] \in Nat /\ c.tokens <= c.llm_calls * MaxUsage
    BY <1>3 DEF FanOutSpend, Cost
  <2>2. MaxUsage \in Nat
    BY StepCallsAssumption DEF StepCallsAssumption
  <2>3. c["llm_calls"] = 0 => c["tokens"] = 0
    BY <1>3, <2>1, <2>2
  <2>4. QED
    BY <1>3, <2>3 DEF FanOutSpend
<1>5. c \in Cost /\ spent' \in Cost /\ \A f \in Fields : spent'[f] = spent[f] + c[f]
  BY <1>0, <1>1, <1>3 DEF SpendTypeOK
<1>6. ending' \in Ending /\ ending'.how # "none" /\ (ending'.how = "returned" => ending'.cost = tracker')
  <2>1. ASSUME NEW d \in FanOutSpend, End("budget", d) PROVE ending' \in Ending /\ ending'.how = "budget"
    BY <1>3, <2>1 DEF End, Ending, Endings, KitErrors
  <2>2. CASE End("returned", c)
    BY <1>1, <1>5, <2>2 DEF End, Ending, Endings
  <2>3. CASE End("llm", Zero)
    BY <2>3 DEF End, Ending, Endings, KitErrors
  <2>4. QED
    BY <1>1, <2>1, <2>2, <2>3, CallerEnds
<1>7. SpendTypeOK'
  BY <1>0, <1>1, <1>5, <1>6 DEF SpendTypeOK, callVars
<1>8. (\E f \in Fields : maxCost[f] = -1) => c = Zero
  BY <1>4, <1>5 DEF Cost, Zero
<1>9. LimitInv'
  BY <1>0, <1>1, <1>4, <1>6, <1>8 DEF LimitInv, callVars, Running
<1>10. QED
  BY <1>0, <1>1, <1>5, <1>6, <1>7, <1>9 DEF Progress, Cost, SpendTypeOK
-----------------------------------------------------------------------------
\* While a step runs, it is not in the total yet.
LEMMA InStep ==
  ASSUME PipeInv, Live, ending.how # "returned"
  PROVE  /\ Len(costs) < at /\ at \in 1 .. Len(steps) /\ ~Booked
         /\ This \in StepKinds
         /\ \A f \in Fields : spent[f] = total[f] + tracker[f]
<1>1. Len(costs) < at /\ at \in 0 .. Len(steps) /\ Len(costs) \in Nat
  BY DEF PipeInv, PlaceInv, PipeTypeOK
<1>2. at \in 1 .. Len(steps) /\ ~Booked
  BY <1>1 DEF Booked, PipeInv, PipeTypeOK
<1>3. QED
  BY <1>1, <1>2 DEF PipeInv, PipeTypeOK, BooksInv, This

\* A step within its max_cost keeps the pipe within max_budget.
LEMMA InBudget ==
  ASSUME PipeInv, Progress, Live, Running, Spending, UNCHANGED <<steps, at, total, costs, outcome>>
  PROVE  BudgetHeld' /\ uncapped' \in Cost
<1> USE FieldFacts
<1>0. ending.how # "returned"
  BY DEF Running
<1>1. /\ This \in StepKinds /\ ~Booked
      /\ \A f \in Fields : spent[f] = total[f] + tracker[f]
  BY <1>0, InStep
<1>2. /\ spent \in Cost /\ spent' \in Cost /\ tracker \in Cost /\ tracker' \in Cost
      /\ total \in Cost /\ uncapped \in Cost
      /\ Budget \in Cost /\ MaxOpen * MaxUsage \in Nat
      /\ maxCost \in [Fields -> Int] /\ maxCost' = maxCost
      /\ LimitInv /\ LimitInv' /\ BudgetHeld
  BY OneOfMany, PipeAssumption DEF PipeInv, SpendTypeOK, PipeTypeOK, Progress, PipeAssumption
<1>3. \A f \in Fields : spent'[f] = total[f] + tracker'[f] /\ spent[f] <= spent'[f]
  <2>1. TAKE f \in Fields
  <2>2. /\ tracker'[f] - tracker[f] = spent'[f] - spent[f] /\ spent[f] <= spent'[f]
        /\ spent[f] \in Nat /\ spent'[f] \in Nat /\ tracker[f] \in Nat /\ tracker'[f] \in Nat /\ total[f] \in Nat
    BY <1>2 DEF Progress, Cost
  <2>3. QED
    BY <1>1, <2>2
<1>4. CASE This.capped
  <2>1. uncapped' = uncapped
    BY <1>4 DEF Spending
  <2>2. \A f \in Fields : maxCost[f] = Remaining(f)
    BY <1>1, <1>4 DEF PipeInv, BooksInv
  <2>3. /\ \A f \in Fields : /\ Budget[f] \in Nat /\ total[f] \in Nat /\ uncapped[f] \in Nat
                            /\ spent[f] \in Nat /\ tracker'[f] \in Nat /\ tracker[f] \in Nat
        /\ uncapped \in Cost
    BY <1>2 DEF Cost
  <2>4. ASSUME NEW f \in Fields, Budget[f] > 0, Budget[f] - total[f] <= 0
        PROVE  spent'[f] = spent[f]
    <3>1. maxCost[f] = -1 /\ maxCost'[f] = -1
      BY <1>2, <2>2, <2>3, <2>4 DEF Remaining
    <3>2. tracker = Zero /\ tracker' = Zero
      BY <1>2, <3>1 DEF LimitInv
    <3>3. QED
      BY <1>1, <1>3, <3>2, <2>3
  <2>5. ASSUME NEW f \in Fields, Budget[f] > 0, Budget[f] - total[f] > 0
        PROVE  maxCost'[f] = Budget[f] - total[f]
    BY <1>2, <2>2, <2>3, <2>5 DEF Remaining
  <2>6. Budget["llm_calls"] > 0 => spent'["llm_calls"] - uncapped'["llm_calls"] <= Budget["llm_calls"]
    <3>1. CASE Budget["llm_calls"] > 0 /\ Budget["llm_calls"] - total["llm_calls"] <= 0
      BY <1>2, <2>1, <2>4, <3>1 DEF BudgetHeld
    <3>2. CASE Budget["llm_calls"] > 0 /\ Budget["llm_calls"] - total["llm_calls"] > 0
      <4>1. tracker'["llm_calls"] <= Budget["llm_calls"] - total["llm_calls"]
        BY <1>2, <2>5, <3>2 DEF LimitInv
      <4>2. QED
        BY <4>1, <1>3, <2>1, <2>3
    <3>3. QED
      BY <3>1, <3>2, <2>3
  <2>7. Budget["tokens"] > 0 =>
           spent'["tokens"] - uncapped'["tokens"] <= Budget["tokens"] - 1 + MaxOpen * MaxUsage
    <3>1. CASE Budget["tokens"] > 0 /\ Budget["tokens"] - total["tokens"] <= 0
      BY <1>2, <2>1, <2>4, <3>1 DEF BudgetHeld
    <3>2. CASE Budget["tokens"] > 0 /\ Budget["tokens"] - total["tokens"] > 0
      <4>1. tracker'["tokens"] <= Budget["tokens"] - total["tokens"] - 1 + MaxOpen * MaxUsage
        BY <1>2, <2>5, <3>2 DEF LimitInv
      <4>2. QED
        BY <4>1, <1>2, <1>3, <2>1, <2>3
    <3>3. QED
      BY <3>1, <3>2, <2>3
  <2>8. QED
    BY <2>1, <2>3, <2>6, <2>7 DEF BudgetHeld
<1>5. CASE ~This.capped
  <2>1. uncapped' = [f \in Fields |-> uncapped[f] + spent'[f] - spent[f]]
    BY <1>5 DEF Spending
  <2>2. \A f \in Fields : /\ uncapped[f] \in Nat /\ spent[f] \in Nat /\ spent'[f] \in Nat /\ Budget[f] \in Nat
    BY <1>2 DEF Cost
  <2>3. \A f \in Fields : uncapped'[f] \in Nat /\ spent'[f] - uncapped'[f] = spent[f] - uncapped[f]
    BY <1>3, <2>1, <2>2
  <2>4. uncapped' \in Cost
    BY <2>1, <2>3 DEF Cost
  <2>5. QED
    BY <1>2, <2>3, <2>4 DEF BudgetHeld
<1>6. QED
  BY <1>4, <1>5

\* What the running step does leaves the books in order.
LEMMA RunningStep ==
  ASSUME PipeInv, Progress, FanInv', Live, Running, Spending,
         UNCHANGED <<steps, at, total, costs, outcome>>
  PROVE  PipeInv'
<1>0. ending.how # "returned"
  BY DEF Running
<1>1. Len(costs) < at /\ ~Booked /\ at \in 1 .. Len(steps)
      /\ \A f \in Fields : spent[f] = total[f] + tracker[f]
  BY <1>0, InStep
<1>2. BudgetHeld' /\ uncapped' \in Cost
  BY InBudget
<1>3. PipeTypeOK'
  BY <1>2 DEF PipeInv, PipeTypeOK
<1>4. PlaceInv'
  BY <1>1 DEF PipeInv, PlaceInv, Booked, Live
<1>5. BooksInv'
  <2>1. ~Booked'
    BY <1>1 DEF Booked
  <2>2. \A f \in Fields : spent'[f] = total'[f] + tracker'[f]
    <3>1. TAKE f \in Fields
    <3>2. /\ tracker'[f] - tracker[f] = spent'[f] - spent[f]
          /\ spent[f] \in Nat /\ spent'[f] \in Nat /\ tracker[f] \in Nat /\ tracker'[f] \in Nat /\ total[f] \in Nat
      BY DEF Progress, PipeInv, SpendTypeOK, PipeTypeOK, Cost
    <3>3. spent[f] = total[f] + tracker[f] /\ total'[f] = total[f]
      BY <1>1
    <3>4. QED
      BY ONLY <3>2, <3>3
  <2>3. This' = This /\ maxCost' = maxCost /\ (ending'.how = "returned" => ending'.cost = tracker')
    BY DEF This, Progress
  <2>4. \A f \in Fields : Remaining(f)' = Remaining(f)
    BY DEF Remaining
  <2>5. QED
    BY <1>1, <2>1, <2>2, <2>3, <2>4 DEF BooksInv, PipeInv
<1>6. QED
  BY <1>2, <1>3, <1>4, <1>5 DEF PipeInv, Progress

\* No step of a refine_loop or structured is a fan-out's.
LEMMA NotFanned ==
  ASSUME Step
  PROVE  phase # "fanned" /\ phase' # "fanned" /\ Running /\ Live
<1>1. CASE (phase = "draft" \/ RefineCalling) /\ CallNext
  BY <1>1 DEF Step, RefineCalling, CallNext, Attempt, Backoff, GiveUp, Escape
<1>2. CASE RefineNext
  <2>1. CASE Generated
    BY <1>2, <2>1 DEF Step, Generated, Answered, At
  <2>2. CASE Rated \/ Unrated
    BY <1>2, <2>2 DEF Step, Rated, Unrated, Answered, At
  <2>3. CASE Judged \/ Misjudged
    BY <1>2, <2>3 DEF Step, Judged, Misjudged, At
  <2>4. CASE Checkpointed \/ CheckpointCancelled
    BY <1>2, <2>4 DEF Step, Checkpointed, CheckpointCancelled, At
  <2>5. QED
    BY <1>2, <2>1, <2>2, <2>3, <2>4 DEF RefineNext
<1>3. CASE StructuredNext
  BY <1>3 DEF Step, StructuredNext, Accepted, Rejected, Unrepaired, Invalid, Answered, At
<1>4. QED
  BY <1>1, <1>2, <1>3 DEF Step

\* Every step of a refine_loop or structured.
LEMMA StepPreserves ==
  ASSUME PipeInv, Step
  PROVE  PipeInv'
<1>1. phase # "fanned" /\ phase' # "fanned" /\ Running /\ Live
  BY NotFanned
<1>2. FanInv'
  BY <1>1 DEF FanInv, At
<1>3. Spending /\ UNCHANGED <<steps, at, total, costs, outcome>>
  BY DEF Step
<1>4. QED
  BY <1>1, <1>2, <1>3, StepProgress, RunningStep

\* Every fan-out.
LEMMA FanOutPreserves ==
  ASSUME PipeInv, FanOut
  PROVE  PipeInv'
<1>1. ending'.how # "none"
  BY DEF FanOut, End, CallerRaises
<1>2. FanInv'
  BY <1>1 DEF FanInv, At, Running
<1>3. Live /\ Running /\ Spending /\ UNCHANGED <<steps, at, total, costs, outcome>>
  BY DEF FanOut, At
<1>4. QED
  BY <1>2, <1>3, FanOutProgress, RunningStep

\* max_cost is what the total leaves, at least the -1 of a budget that is used up.
LEMMA StartStepPreserves ==
  ASSUME PipeInv, StartStep
  PROVE  PipeInv'
<1> USE FieldFacts
<1>0. /\ Live /\ ending.how = "returned" /\ Len(costs) = at /\ Booked
      /\ at' = at + 1 /\ tracker' = Zero /\ call' = "ready" /\ tries' = 0
      /\ ending' = [how |-> "none", cost |-> Zero]
      /\ UNCHANGED <<steps, total, costs, outcome, spent, uncapped>>
  BY DEF StartStep, Booked, Live, End, KitErrors
<1>1. at < Len(steps) /\ at \in Nat /\ Len(steps) \in Nat
  BY <1>0 DEF PipeInv, PlaceInv, PipeTypeOK
<1>2. maxCost' = [f \in Fields |-> IF steps[at + 1].capped THEN Remaining(f) ELSE 0]
  BY DEF StartStep
<1>3. \A f \in Fields : Remaining(f) \in Int /\ Remaining(f) >= -1 /\ Remaining(f)' = Remaining(f)
  BY <1>0, PipeAssumption DEF Remaining, PipeInv, PipeTypeOK, Cost, PipeAssumption
<1>4. \A f \in Fields : maxCost'[f] \in Int /\ maxCost'[f] >= -1
  BY <1>2, <1>3
<1>5. SpendTypeOK'
  BY <1>0, <1>2, <1>4 DEF SpendTypeOK, PipeInv, Ending, Endings
<1>6. LimitInv'
  <2>1. MaxOpen * MaxUsage \in Nat
    BY OneOfMany
  <2>2. QED
    BY <1>0, <1>4, <2>1 DEF LimitInv
<1>7. FanInv'
  BY <1>0 DEF FanInv
<1>8. PipeTypeOK'
  BY <1>0, <1>1 DEF PipeTypeOK, PipeInv
<1>9. PlaceInv'
  BY <1>0, <1>1 DEF PlaceInv, Booked, Live
<1>10. BooksInv'
  <2>1. ~Booked' /\ This' = steps[at + 1]
    BY <1>0, <1>1 DEF Booked, This
  <2>2. \A f \in Fields : spent[f] = total[f] /\ total[f] \in Nat
    BY <1>0 DEF PipeInv, BooksInv, PipeTypeOK, SpendTypeOK, Cost
  <2>3. QED
    BY <1>0, <1>2, <1>3, <2>1, <2>2 DEF BooksInv
<1>11. BudgetHeld'
  BY <1>0 DEF PipeInv, BudgetHeld
<1>12. QED
  BY <1>5, <1>6, <1>7, <1>8, <1>9, <1>10, <1>11 DEF PipeInv

\* A step that has ended is booked once.
LEMMA EndPreserves ==
  ASSUME PipeInv, StepReturned \/ StepRaised \/ StepEscaped
  PROVE  PipeInv'
<1> USE FieldFacts
<1>1. /\ Live /\ ending.how # "none" /\ UNCHANGED <<stepVars, loopVars, repairs, steps, at, uncapped>>
  BY DEF StepReturned, StepRaised, StepEscaped, KitErrors
<1>2. Len(costs) < at /\ ~Booked /\ at <= Len(costs) + 1
  BY InStep DEF StepReturned, StepRaised, StepEscaped, KitErrors, PipeInv, PlaceInv, Booked
<1>3. at \in 1 .. Len(steps) /\ Len(costs) + 1 = at
      /\ ending \in Ending /\ ending.cost \in Cost /\ ending.how \in Endings
      /\ costs \in Seq(Cost) /\ total \in Cost
  BY <1>2 DEF PipeInv, PipeTypeOK, SpendTypeOK, Ending
<1>4. SpendTypeOK' /\ LimitInv' /\ FanInv' /\ BudgetHeld'
  BY <1>1 DEF PipeInv, SpendTypeOK, LimitInv, FanInv, BudgetHeld, stepVars, callVars, Running, At
<1>5. PipeTypeOK' /\ PlaceInv' /\ BooksInv'
  <2>1. CASE StepReturned
    <3>1. /\ ending.how = "returned" /\ ending.cost = tracker
          /\ costs' = Append(costs, ending.cost)
          /\ total' = Plus(total, tracker)
          /\ outcome' = IF at = Len(steps) THEN [how |-> "returned", cost |-> total'] ELSE outcome
      BY <1>2, <2>1 DEF StepReturned, PipeInv, BooksInv
    <3>2. costs' \in Seq(Cost) /\ Len(costs') = at /\ total' \in Cost
          /\ \A f \in Fields : total'[f] = total[f] + tracker[f]
      BY <1>3, <3>1
    <3>3. outcome' \in Ending /\ outcome'.how \notin KitErrors
          /\ (outcome'.how = "none" => at < Len(steps))
      BY <1>1, <1>3, <3>1, <3>2 DEF PipeInv, PipeTypeOK, Ending, Endings, KitErrors, Live
    <3>4. Booked'
      BY <1>1, <3>2, <3>3 DEF Booked
    <3>5. PipeTypeOK'
      BY <1>1, <3>2, <3>3 DEF PipeTypeOK, PipeInv
    <3>6. PlaceInv'
      BY <1>1, <1>3, <3>1, <3>2, <3>3, <3>4 DEF PlaceInv, Live, stepVars
    <3>7. BooksInv'
      <4>1. \A f \in Fields : spent[f] = total[f] + tracker[f]
        BY <1>2 DEF PipeInv, BooksInv
      <4>2. QED
        BY <1>1, <3>2, <3>4, <4>1 DEF BooksInv, stepVars, PipeInv, SpendTypeOK, Cost
    <3>8. QED
      BY <3>5, <3>6, <3>7
  <2>2. CASE StepRaised
    <3>1. /\ ending.how \in KitErrors
          /\ costs' = Append(costs, ending.cost)
          /\ outcome' = [how |-> ending.how, cost |-> Plus(total, ending.cost)]
          /\ total' = total
      BY <2>2 DEF StepRaised
    <3>2. costs' \in Seq(Cost) /\ Len(costs') = at /\ outcome' \in Ending /\ outcome'.how \in KitErrors
      BY <1>3, <3>1 DEF Ending
    <3>3. ~Booked' /\ ~Live' /\ ending'.how # "returned"
      BY <1>1, <3>1, <3>2 DEF Booked, Live, KitErrors, stepVars
    <3>4. PipeTypeOK'
      BY <1>1, <3>1, <3>2 DEF PipeTypeOK, PipeInv
    <3>5. PlaceInv'
      BY <1>1, <1>3, <3>2, <3>3 DEF PlaceInv
    <3>6. BooksInv'
      BY <1>1, <1>2, <3>1, <3>3 DEF BooksInv, PipeInv, stepVars, This, Remaining
    <3>7. QED
      BY <3>4, <3>5, <3>6
  <2>3. CASE StepEscaped
    <3>1. ending.how = "foreign" /\ outcome' = ending /\ UNCHANGED <<total, costs>>
      BY <2>3 DEF StepEscaped
    <3>2. ~Booked' /\ ~Live'
      BY <1>1, <1>2, <3>1 DEF Booked, Live, KitErrors
    <3>3. PipeTypeOK'
      BY <1>1, <1>3, <3>1 DEF PipeTypeOK, PipeInv
    <3>4. PlaceInv'
      BY <1>1, <1>3, <3>1, <3>2 DEF PlaceInv
    <3>5. BooksInv'
      BY <1>1, <1>2, <3>1, <3>2 DEF BooksInv, PipeInv, stepVars, This, Remaining
    <3>6. QED
      BY <3>3, <3>4, <3>5
  <2>4. QED
    BY <2>1, <2>2, <2>3
<1>6. QED
  BY <1>4, <1>5 DEF PipeInv

\* Before the first step nothing is spent.
LEMMA InitPipe == Init => PipeInv
<1> SUFFICES ASSUME Init PROVE PipeInv
  OBVIOUS
<1> USE FieldFacts
<1>1. steps \in Seq(StepKinds) /\ Len(steps) > 0
  BY PipeAssumption DEF Init, PipeAssumption
<1>2. MaxOpen * MaxUsage \in Nat /\ Budget \in Cost
  BY OneOfMany, PipeAssumption DEF PipeAssumption
<1>3. SpendTypeOK /\ PipeTypeOK
  BY <1>1 DEF Init, SpendTypeOK, PipeTypeOK, Ending, Endings, Cost
<1>4. LimitInv /\ FanInv
  BY DEF Init, LimitInv, FanInv
<1>5. PlaceInv /\ BooksInv
  BY <1>1 DEF Init, PlaceInv, BooksInv, Booked, Live, KitErrors
<1>6. BudgetHeld
  BY <1>2 DEF Init, BudgetHeld, Cost
<1>7. QED
  BY <1>3, <1>4, <1>5, <1>6 DEF PipeInv

\* What max_cost bounds and the books are kept by every step.
LEMMA PipeStep ==
  ASSUME PipeInv, [Next]_vars
  PROVE  PipeInv'
<1>1. CASE StartStep
  BY <1>1, StartStepPreserves
<1>2. CASE Step
  BY <1>2, StepPreserves
<1>3. CASE FanOut
  BY <1>3, FanOutPreserves
<1>4. CASE StepReturned \/ StepRaised \/ StepEscaped
  BY <1>4, EndPreserves
<1>5. CASE UNCHANGED vars
  BY <1>5 DEF vars, stepVars, callVars, pipeVars, PipeInv, SpendTypeOK, PipeTypeOK, LimitInv, FanInv,
              PlaceInv, BooksInv, BudgetHeld, Booked, Live, Running, At, This, Remaining
<1>6. QED
  BY <1>1, <1>2, <1>3, <1>4, <1>5 DEF Next, Over

\* One budget for the whole pipe: the steps that take max_cost stay within
\* max_budget together, whatever the steps between them spend.
THEOREM PipeBudget == Spec => []BudgetHeld
<1>1. PipeInv => BudgetHeld
  BY DEF PipeInv
<1>2. QED
  BY <1>1, InitPipe, PipeStep, PTL DEF Spec
-----------------------------------------------------------------------------
(* What pipe() reports. *)

\* A running step has no cost yet, an ended one carries no more than it spent, but
\* for an error of the caller's own code; an error about the budget or the pattern
\* carries all of it, a fan-out's excepted.
EndingInv ==
    /\ ending.how # "custom" => \A f \in Fields : ending.cost[f] <= tracker[f]
    /\ ending.how \in {"budget", "pattern"} /\ phase # "fanned" => ending.cost = tracker
    /\ phase = "fanned" => at > 0 /\ This.pattern = "fan_out"

\* step_costs add up to the total, and to the failed step's cost.
AddsUp(f) ==
    /\ IsFiniteSet(Units(f))
    /\ Cardinality(Units(f)) = total[f] + IF outcome.how \in KitErrors THEN ending.cost[f] ELSE 0

CostInv ==
    /\ EndingInv
    /\ \A f \in Fields : AddsUp(f)
    /\ Live => outcome.cost = Zero
    /\ CostComplete

LEMMA UnitsAdded ==
  ASSUME costs \in Seq(Cost), NEW c \in Cost, costs' = Append(costs, c), NEW f \in Fields,
         IsFiniteSet(Units(f))
  PROVE  IsFiniteSet(Units(f)') /\ Cardinality(Units(f)') = Cardinality(Units(f)) + c[f]
<1> DEFINE U == Units(f)
           n == Len(costs) + 1
           d == c[f]
           More == {n} \X (1 .. d)
<1>1. /\ Len(costs) \in Nat /\ DOMAIN costs = 1 .. Len(costs) /\ DOMAIN costs' = 1 .. n
      /\ costs'[n] = c /\ \A k \in 1 .. Len(costs) : costs'[k] = costs[k]
      /\ d \in Nat
  BY DEF Cost
<1>2. Units(f)' = U \cup More
  <2>1. ASSUME NEW p \in Units(f)'
        PROVE  p \in U \cup More
    <3>1. PICK k \in DOMAIN costs' : p \in {k} \X (1 .. costs'[k][f])
      BY DEF Units
    <3>2. k = n \/ k \in DOMAIN costs
      BY <1>1
    <3>3. QED
      BY <1>1, <3>1, <3>2 DEF Units
  <2>2. ASSUME NEW p \in U
        PROVE  p \in Units(f)'
    <3>1. PICK k \in DOMAIN costs : p \in {k} \X (1 .. costs[k][f])
      BY DEF Units
    <3>2. k \in DOMAIN costs' /\ costs'[k] = costs[k]
      BY <1>1
    <3>3. QED
      BY <3>1, <3>2 DEF Units
  <2>3. ASSUME NEW p \in More
        PROVE  p \in Units(f)'
    <3>1. n \in DOMAIN costs' /\ p \in {n} \X (1 .. costs'[n][f])
      BY <1>1, <2>3
    <3>2. QED
      BY <3>1 DEF Units
  <2>. HIDE DEF U, More
  <2>4. QED
    BY <2>1, <2>2, <2>3
<1>3. U \cap More = {}
  <2> SUFFICES ASSUME NEW p \in U, p \in More
               PROVE  FALSE
    OBVIOUS
  <2>1. PICK k \in DOMAIN costs : p \in {k} \X (1 .. costs[k][f])
    BY DEF Units
  <2>2. k = n
    BY <2>1
  <2>3. QED
    BY <1>1, <2>2
<1>4. IsFiniteSet(More) /\ Cardinality(More) = d
  <2>1. ASSUME NEW m \in Nat
        PROVE  IsFiniteSet(1 .. m) /\ Cardinality(1 .. m) = m
    <3>1. 1 \in Int /\ m \in Int
      OBVIOUS
    <3>2. IsFiniteSet(1 .. m) /\ Cardinality(1 .. m) = IF 1 > m THEN 0 ELSE m - 1 + 1
      BY ONLY <3>1, FS_Interval
    <3>3. QED
      BY <3>2
  <2>2. IsFiniteSet(1 .. d) /\ Cardinality(1 .. d) = d
    BY <1>1, <2>1
  <2>3. IsFiniteSet({n}) /\ Cardinality({n}) = 1
    BY ONLY FS_Singleton
  <2>4. IsFiniteSet(More) /\ Cardinality(More) = Cardinality({n}) * Cardinality(1 .. d)
    BY ONLY <2>2, <2>3, FS_Product
  <2>5. d \in Nat
    BY <1>1
  <2>. HIDE DEF d
  <2>6. QED
    BY <2>2, <2>3, <2>4, <2>5
<1>5. /\ IsFiniteSet(U \cup More)
      /\ Cardinality(U \cup More) = Cardinality(U) + Cardinality(More) - Cardinality(U \cap More)
  <2>1. IsFiniteSet(U)
    OBVIOUS
  <2>. HIDE DEF U, More
  <2>2. QED
    BY <1>4, <2>1, FS_Union
<1>6. Cardinality(U \cap More) = 0 /\ Cardinality(U) \in Nat /\ d \in Nat
  BY <1>1, <1>3, FS_EmptySet, FS_CardinalityType
<1>. HIDE DEF U, More, d
<1>7. QED
  BY <1>2, <1>4, <1>5, <1>6 DEF U, d

\* How a step of a refine_loop or structured may end.
LEMMA StepEnds ==
  ASSUME Step
  PROVE  \/ ending' = ending
         \/ ending'.cost = tracker'
         \/ ending'.how \in {"foreign", "llm"} /\ ending'.cost = Zero
         \/ ending'.how = "custom"
<1>1. CASE CallNext
  BY <1>1 DEF CallNext, Attempt, Backoff, GiveUp, Escape, CallerRaises, End
<1>2. CASE StructuredNext
  BY <1>2 DEF StructuredNext, Accepted, Rejected, Unrepaired, Invalid, CallerRaises, End
<1>3. CASE RefineNext
  BY <1>3 DEF RefineNext, Generated, Rated, Unrated, Judged, Misjudged, Checkpointed,
              CheckpointCancelled, CallerRaises, End
<1>4. QED
  BY <1>1, <1>2, <1>3 DEF Step

LEMMA EndingStep ==
  ASSUME PipeInv, EndingInv, [Next]_vars
  PROVE  EndingInv'
<1> USE FieldFacts
<1>0. /\ tracker \in Cost /\ ending \in Ending /\ ending.cost \in Cost
      /\ \A f \in Fields : tracker[f] \in Nat /\ ending.cost[f] \in Nat
  BY DEF PipeInv, SpendTypeOK, Ending, Cost
<1>1. CASE StartStep
  <2>1. /\ ending'.how = "none" /\ ending'.cost = Zero /\ tracker' = Zero /\ at' = at + 1 /\ steps' = steps
        /\ phase' = FirstPhase(steps[at + 1].pattern) /\ at \in Nat
    BY <1>1 DEF StartStep, End, PipeInv, PipeTypeOK
  <2>2. phase' = "fanned" => at' > 0 /\ This'.pattern = "fan_out"
    BY <2>1 DEF FirstPhase, This
  <2>3. QED
    BY <2>1, <2>2 DEF EndingInv
<1>2. CASE Step
  <2>1. phase' # "fanned" /\ ending.how = "none"
    BY <1>2, NotFanned DEF Running
  <2>2. Progress
    BY <1>2, StepProgress
  <2>3. \A f \in Fields : tracker'[f] \in Nat /\ tracker[f] <= tracker'[f]
    <3>1. TAKE f \in Fields
    <3>2. /\ tracker'[f] \in Nat /\ tracker[f] \in Nat /\ spent[f] \in Nat /\ spent'[f] \in Nat
          /\ tracker'[f] - tracker[f] = spent'[f] - spent[f] /\ spent[f] <= spent'[f]
      BY <2>2 DEF Progress, PipeInv, SpendTypeOK, Cost
    <3>3. QED
      BY <3>2
  <2>4. CASE ending' = ending
    BY <1>0, <2>1, <2>3, <2>4 DEF EndingInv
  <2>5. CASE ending'.cost = tracker'
    BY <2>1, <2>3, <2>5 DEF EndingInv
  <2>6. CASE ending'.how \in {"foreign", "llm"} /\ ending'.cost = Zero
    BY <2>1, <2>3, <2>6 DEF EndingInv
  <2>7. CASE ending'.how = "custom"
    BY <2>1, <2>7 DEF EndingInv
  <2>8. QED
    BY <1>2, <2>4, <2>5, <2>6, <2>7, StepEnds
<1>3. CASE FanOut
  <2>1. /\ phase' = "fanned" /\ phase = "fanned" /\ UNCHANGED <<steps, at>>
    BY <1>3 DEF FanOut, At
  <2>2. Progress
    BY <1>3, FanOutProgress
  <2>3. tracker' \in Cost
    BY <2>2 DEF Progress, SpendTypeOK
  <2>4. ending'.how # "custom" => \A f \in Fields : ending'.cost[f] <= tracker'[f]
    <3>1. PICK c \in FanOutSpend :
             /\ tracker' = c
             /\ \/ End("returned", c)
                \/ \E d \in FanOutSpend : (\A f \in Fields : d[f] <= c[f]) /\ End("budget", d)
                \/ End("llm", Zero)
                \/ CallerRaises
      BY <1>3 DEF FanOut
    <3>2. CASE End("returned", c)
      BY <2>3, <3>1, <3>2 DEF End, Cost
    <3>3. CASE \E d \in FanOutSpend : (\A f \in Fields : d[f] <= c[f]) /\ End("budget", d)
      BY <3>1, <3>3 DEF End
    <3>4. CASE End("llm", Zero) \/ CallerRaises
      BY <2>3, <3>1, <3>4 DEF End, Cost, CallerRaises
    <3>5. QED
      BY <3>1, <3>2, <3>3, <3>4
  <2>5. QED
    BY <2>1, <2>4 DEF EndingInv, This
<1>4. CASE StepReturned \/ StepRaised \/ StepEscaped \/ UNCHANGED vars
  <2>1. UNCHANGED <<ending, tracker, phase, steps, at>>
    BY <1>4 DEF StepReturned, StepRaised, StepEscaped, vars, stepVars, pipeVars
  <2>2. QED
    BY <2>1 DEF EndingInv, This
<1>5. QED
  BY <1>1, <1>2, <1>3, <1>4 DEF Next, Over

\* The cost of a step that ends is booked as it ends the pipe or not.
LEMMA CostBooked ==
  ASSUME PipeInv, PipeInv', EndingInv, EndingInv', CostInv, StepReturned \/ StepRaised \/ StepEscaped
  PROVE  CostInv'
<1> USE FieldFacts
<1>1. /\ Live /\ ending.how # "none" /\ UNCHANGED <<stepVars, steps, at, uncapped>>
      /\ outcome.how = "none"
  BY DEF StepReturned, StepRaised, StepEscaped, KitErrors, Live
<1>2. ~Booked
  BY InStep DEF StepReturned, StepRaised, StepEscaped, KitErrors, PipeInv, PlaceInv, Booked
<1>3. /\ tracker \in Cost /\ spent \in Cost /\ total \in Cost /\ costs \in Seq(Cost)
      /\ ending.cost \in Cost /\ outcome' \in Ending /\ outcome'.cost \in Cost /\ total' \in Cost
  BY DEF PipeInv, SpendTypeOK, PipeTypeOK, Ending
<1>4. \A f \in Fields : spent[f] = total[f] + tracker[f]
  BY <1>2 DEF PipeInv, BooksInv
<1>5. \A f \in Fields : /\ tracker[f] \in Nat /\ spent[f] \in Nat /\ total[f] \in Nat
                        /\ ending.cost[f] \in Nat
                        /\ ending.how # "custom" => ending.cost[f] <= tracker[f]
  BY <1>3 DEF Cost, EndingInv
<1>6. \A f \in Fields : IsFiniteSet(Units(f)) /\ Cardinality(Units(f)) = total[f]
  <2>1. outcome.how \notin KitErrors
    BY <1>1 DEF KitErrors
  <2>2. QED
    BY <1>5, <2>1 DEF CostInv, AddsUp
<1>7. CASE StepReturned
  <2>1. /\ ending.how = "returned" /\ ending.cost = tracker /\ costs' = Append(costs, ending.cost)
        /\ total' = Plus(total, ending.cost)
        /\ outcome' = IF at = Len(steps) THEN [how |-> "returned", cost |-> total'] ELSE outcome
    BY <1>2, <1>7 DEF StepReturned, PipeInv, BooksInv
  <2>2. \A f \in Fields : total'[f] = spent[f]
    BY <1>3, <1>4, <2>1
  <2>3. total' = spent
    BY <1>3, <2>2 DEF Cost
  <2>4. \A f \in Fields : IsFiniteSet(Units(f)') /\ Cardinality(Units(f)') = total'[f]
    BY <1>3, <1>4, <1>6, <2>1, <2>2, UnitsAdded
  <2>5. outcome'.how \notin KitErrors /\ (Live' => outcome' = outcome)
    BY <1>1, <2>1 DEF Live, KitErrors
  <2>6. \A f \in Fields : AddsUp(f)'
    <3>1. \A f \in Fields : total'[f] \in Nat
      BY <1>5, <2>2
    <3>2. QED
      BY <2>4, <2>5, <3>1 DEF AddsUp
  <2>7. CostComplete'
    <3>1. CASE at = Len(steps)
      BY <1>1, <1>5, <2>1, <2>3, <2>4, <3>1 DEF CostComplete, stepVars, KitErrors
    <3>2. CASE at # Len(steps)
      <4>1. outcome' = outcome /\ outcome.cost = Zero /\ spent' = spent
        BY <1>1, <2>1, <3>2 DEF CostInv, stepVars
      <4>2. QED
        BY <1>1, <1>5, <4>1 DEF CostComplete, KitErrors
    <3>3. QED
      BY <3>1, <3>2
  <2>8. QED
    BY <1>1, <2>5, <2>6, <2>7 DEF CostInv
<1>8. CASE StepRaised
  <2>1. /\ ending.how \in KitErrors /\ costs' = Append(costs, ending.cost) /\ total' = total
        /\ outcome' = [how |-> ending.how, cost |-> Plus(total, ending.cost)]
    BY <1>8 DEF StepRaised
  <2>2. \A f \in Fields : /\ IsFiniteSet(Units(f)')
                          /\ Cardinality(Units(f)') = total[f] + ending.cost[f]
    BY <1>3, <1>6, <2>1, UnitsAdded
  <2>3. \A f \in Fields : AddsUp(f)'
    BY <1>1, <2>1, <2>2 DEF AddsUp, stepVars
  <2>4. \A f \in Fields : outcome'.cost[f] = total[f] + ending.cost[f]
    BY <1>3, <2>1
  <2>5. ASSUME NEW f \in Fields
        PROVE  /\ outcome'.how # "custom" => outcome'.cost[f] <= spent[f]
               /\ outcome'.cost[f] + tracker[f] = spent[f] + ending.cost[f]
    <3>1. /\ spent[f] = total[f] + tracker[f] /\ outcome'.cost[f] = total[f] + ending.cost[f]
          /\ tracker[f] \in Nat /\ total[f] \in Nat /\ ending.cost[f] \in Nat
          /\ ending.how # "custom" => ending.cost[f] <= tracker[f]
      BY <1>4, <1>5, <2>4
    <3>2. outcome'.how = ending.how
      BY <2>1
    <3>3. QED
      BY ONLY <3>1, <3>2
  <2>6. ASSUME outcome'.how \in {"budget", "pattern"}, This.pattern # "fan_out"
        PROVE  outcome'.cost = spent
    <3>1. ending.cost = tracker
      BY <2>1, <2>6 DEF EndingInv
    <3>2. \A f \in Fields : outcome'.cost[f] = spent[f]
      BY <1>4, <2>4, <3>1
    <3>3. QED
      BY <1>3, <3>2 DEF Cost
  <2>7. outcome'.how # "returned" /\ ~Live' /\ This' = This
        /\ spent' = spent /\ tracker' = tracker /\ ending' = ending
    BY <1>1, <2>1 DEF KitErrors, Live, This, stepVars
  <2>8. CostComplete'
    BY <2>2, <2>4, <2>5, <2>6, <2>7 DEF CostComplete
  <2>9. QED
    BY <2>3, <2>7, <2>8 DEF CostInv
<1>9. CASE StepEscaped
  <2>1. ending.how = "foreign" /\ outcome' = ending /\ UNCHANGED <<total, costs>>
    BY <1>9 DEF StepEscaped
  <2>2. outcome'.how \notin KitErrors /\ outcome'.how \notin {"returned", "budget", "pattern"} /\ ~Live'
    BY <2>1 DEF KitErrors, Live
  <2>3. \A f \in Fields : outcome'.cost[f] <= spent[f]
    BY <1>4, <1>5, <2>1
  <2>4. spent' = spent
    BY <1>1 DEF stepVars
  <2>5. \A f \in Fields : AddsUp(f)'
    <3>1. outcome.how \notin KitErrors /\ \A f \in Fields : Units(f)' = Units(f)
      BY <1>1, <2>1 DEF Units, KitErrors
    <3>2. QED
      BY <2>1, <2>2, <3>1 DEF CostInv, AddsUp
  <2>6. CostComplete'
    BY <2>2, <2>3, <2>4 DEF CostComplete
  <2>7. QED
    BY <2>2, <2>5, <2>6 DEF CostInv
<1>10. QED
  BY <1>7, <1>8, <1>9

LEMMA CostStep ==
  ASSUME PipeInv, CostInv, [Next]_vars
  PROVE  CostInv'
<1>1. PipeInv' /\ EndingInv'
  BY PipeStep, EndingStep DEF CostInv
<1>2. CASE StepReturned \/ StepRaised \/ StepEscaped
  BY <1>1, <1>2, CostBooked DEF CostInv
<1>3. CASE StartStep \/ Step \/ FanOut
  <2>1. Live /\ UNCHANGED <<total, costs, outcome>>
    BY <1>3 DEF StartStep, Step, FanOut
  <2>2. \A f \in Fields : AddsUp(f)'
    <3>1. outcome.how \notin KitErrors /\ \A f \in Fields : Units(f)' = Units(f)
      BY <2>1 DEF Units, Live, KitErrors
    <3>2. QED
      BY <2>1, <3>1 DEF CostInv, AddsUp
  <2>3. outcome'.cost = Zero /\ outcome'.how = "none"
    BY <2>1 DEF CostInv, Live
  <2>4. \A f \in Fields : spent'[f] \in Nat
    BY <1>1 DEF PipeInv, SpendTypeOK, Cost
  <2>5. CostComplete'
    BY <2>3, <2>4, FieldFacts DEF CostComplete, KitErrors
  <2>6. QED
    BY <1>1, <2>2, <2>3, <2>5 DEF CostInv
<1>4. CASE UNCHANGED vars
  <2>1. UNCHANGED <<total, costs, outcome, spent, steps, at, ending, tracker>>
    BY <1>4 DEF vars, stepVars, pipeVars
  <2>2. \A f \in Fields : Units(f)' = Units(f)
    BY <2>1 DEF Units
  <2>3. CostComplete'
    BY <2>1, <2>2 DEF CostInv, CostComplete, This
  <2>4. (\A f \in Fields : AddsUp(f)') /\ (Live' => outcome'.cost = Zero)
    BY <2>1, <2>2 DEF CostInv, AddsUp, Live
  <2>5. QED
    BY <1>1, <2>3, <2>4 DEF CostInv
<1>5. QED
  BY <1>2, <1>3, <1>4 DEF Next, Over

\* pipe() reports what its steps have spent: all of it when it returns or a step
\* other than a fan-out is refused or gives up on an answer, never more unless an
\* error of the caller's own code says so; on any ExecutionKitError what the steps
\* before it spent and what the error carries, its own spend or not; and
\* step_costs adds up to it.
THEOREM PipeCost == Spec => []CostComplete
<1>1. Init => CostInv
  <2> SUFFICES ASSUME Init
               PROVE  CostInv
    OBVIOUS
  <2>1. /\ costs = <<>> /\ total = Zero /\ outcome = [how |-> "none", cost |-> Zero]
        /\ tracker = Zero /\ spent = Zero /\ phase = "idle"
        /\ ending = [how |-> "returned", cost |-> Zero]
    BY DEF Init
  <2>2. \A f \in Fields : Units(f) = {}
    BY <2>1 DEF Units
  <2>3. \A f \in Fields : AddsUp(f)
    <3>1. outcome.how \notin KitErrors
      BY <2>1 DEF KitErrors
    <3>2. \A f \in Fields : IsFiniteSet(Units(f)) /\ Cardinality(Units(f)) = 0
      BY <2>2, FS_EmptySet
    <3>3. \A f \in Fields : total[f] = 0
      BY <2>1, FieldFacts
    <3>4. QED
      BY <3>1, <3>2, <3>3 DEF AddsUp
  <2>4. QED
    BY <2>1, <2>3, FieldFacts DEF CostInv, EndingInv, CostComplete, KitErrors
<1>2. PipeInv /\ CostInv /\ [Next]_vars => (PipeInv /\ CostInv)'
  BY PipeStep, CostStep
<1>3. CostInv => CostComplete
  BY DEF CostInv
<1>4. QED
  BY <1>1, <1>2, <1>3, InitPipe, PTL DEF Spec
-----------------------------------------------------------------------------
\* The score history and the best candidate in it.
BestInv ==
    /\ scores \in Seq(Nat)
    /\ best \in 0 .. Len(scores)
    /\ best = 0 <=> scores = <<>>
    /\ BestKept

\* A new score becomes the best one only if it is higher.
LEMMA ScoredKeeps ==
  ASSUME BestInv, NEW s \in Nat, Scored(s)
  PROVE  BestInv'
<1>1. scores' = Append(scores, s) /\ best' = IF Better(s) THEN Len(scores) + 1 ELSE best
  BY DEF Scored
<1>2. /\ scores \in Seq(Nat) /\ scores' \in Seq(Nat) /\ Len(scores') = Len(scores) + 1 /\ Len(scores) \in Nat
      /\ scores'[Len(scores) + 1] = s
      /\ \A i \in 1 .. Len(scores) : scores'[i] = scores[i] /\ scores[i] \in Nat
  BY <1>1 DEF BestInv
<1>3. best' \in 1 .. Len(scores')
  BY <1>1, <1>2 DEF BestInv, Better
<1>4. CASE best = 0
  <2>1. Len(scores) = 0 /\ best' = 1
    BY <1>1, <1>2, <1>4 DEF BestInv, Better
  <2>2. QED
    BY <1>2, <1>3, <2>1 DEF BestInv, BestKept
<1>5. CASE best # 0
  <2>1. /\ best \in 1 .. Len(scores)
        /\ \A i \in 1 .. Len(scores) :
              scores[i] <= scores[best] /\ (i < best => scores[i] < scores[best])
    BY <1>5 DEF BestInv, BestKept
  <2>2. CASE s > scores[best]
    <3>1. best' = Len(scores) + 1
      BY <1>1, <2>2 DEF Better
    <3>2. \A i \in 1 .. Len(scores') :
             scores'[i] <= scores'[best'] /\ (i < best' => scores'[i] < scores'[best'])
      <4>1. TAKE i \in 1 .. Len(scores')
      <4>2. scores'[best'] = s /\ scores[best] \in Nat
        BY <1>2, <2>1, <3>1
      <4>3. CASE i \in 1 .. Len(scores)
        <5>1. scores'[i] = scores[i] /\ scores[i] <= scores[best] /\ scores[i] \in Nat
          BY <1>2, <2>1, <4>3
        <5>2. QED
          BY <2>2, <4>2, <5>1
      <4>4. CASE i = Len(scores) + 1
        BY <1>2, <3>1, <4>2, <4>4
      <4>5. QED
        BY <1>2, <4>3, <4>4
    <3>3. QED
      BY <1>2, <1>3, <3>2 DEF BestInv, BestKept
  <2>3. CASE ~(s > scores[best])
    <3>1. best' = best
      BY <1>1, <1>5, <2>3 DEF Better
    <3>2. \A i \in 1 .. Len(scores') :
             scores'[i] <= scores'[best'] /\ (i < best' => scores'[i] < scores'[best'])
      <4>1. TAKE i \in 1 .. Len(scores')
      <4>2. scores'[best'] = scores[best] /\ scores[best] \in Nat
        BY <1>2, <2>1, <3>1
      <4>3. CASE i \in 1 .. Len(scores)
        <5>1. scores'[i] = scores[i] /\ scores[i] <= scores[best] /\ (i < best => scores[i] < scores[best])
          BY <1>2, <2>1, <4>3
        <5>2. QED
          BY <3>1, <4>2, <5>1
      <4>4. CASE i = Len(scores) + 1
        <5>1. scores'[i] = s /\ s <= scores[best] /\ best \in 1 .. Len(scores)
          BY <1>2, <2>1, <2>3, <4>2, <4>4
        <5>2. QED
          BY <1>2, <3>1, <4>2, <4>4, <5>1
      <4>5. QED
        BY <1>2, <4>3, <4>4
    <3>3. QED
      BY <1>2, <1>3, <3>2 DEF BestInv, BestKept
  <2>4. QED
    BY <2>2, <2>3
<1>6. QED
  BY <1>4, <1>5

\* The candidate a refine_loop builds on and returns is the first of the best.
THEOREM BestCandidate == Spec => []BestKept
<1>1. Init => BestInv
  BY DEF Init, BestInv, BestKept
<1>2. BestInv /\ [Next]_vars => BestInv'
  <2> SUFFICES ASSUME BestInv, [Next]_vars PROVE BestInv'
    OBVIOUS
  <2>1. ASSUME UNCHANGED <<scores, best>> PROVE BestInv'
    BY <2>1 DEF BestInv, BestKept
  <2>2. CASE StartStep
    BY <2>2 DEF StartStep, LoopInit, BestInv, BestKept
  <2>3. CASE Step /\ RefineNext
    <3>1. CASE Rated \/ Judged
      <4>1. PICK s \in Scores : Scored(s)
        BY <3>1 DEF Rated, Judged
      <4>2. s \in Nat
        BY RefineAssumption DEF RefineAssumption
      <4>3. QED
        BY <4>1, <4>2, ScoredKeeps
    <3>2. CASE ~(Rated \/ Judged)
      BY <2>1, <2>3, <3>2 DEF RefineNext, Generated, Unrated, Misjudged, Checkpointed, CheckpointCancelled, loopVars
    <3>3. QED
      BY <3>1, <3>2
  <2>4. CASE Step /\ ~RefineNext
    BY <2>1, <2>4 DEF Step, loopVars
  <2>5. CASE FanOut \/ StepReturned \/ StepRaised \/ StepEscaped \/ UNCHANGED vars
    BY <2>1, <2>5 DEF FanOut, StepReturned, StepRaised, StepEscaped, vars, loopVars
  <2>6. QED
    BY <2>2, <2>3, <2>4, <2>5 DEF Next, Over
<1>3. BestInv => BestKept
  BY DEF BestInv
<1>4. QED
  BY <1>1, <1>2, <1>3, PTL DEF Spec
-----------------------------------------------------------------------------
\* The n-th score of history h changed little.
Small(h, n) == Abs(h[n] - h[n - 1]) <= DeltaThreshold

\* Converged, of the first n scores of h.
ConvergedAt(h, n) ==
    \/ h[n] >= TargetScore
    \/ n > Patience /\ \A i \in n - Patience + 1 .. n : Small(h, i)

\* c is the detector's counter after n scores: how many small changes they end with.
Counted(h, n, c) ==
    /\ c \in 0 .. IF n = 0 THEN 0 ELSE n - 1
    /\ c < Patience
    /\ \A i \in n - c + 1 .. n : Small(h, i)
    /\ n - c >= 2 => ~Small(h, n - c)

\* Before a score, all those recorded are counted; at the checkpoint, all but the newest.
StopInv ==
    /\ scores \in Seq(Nat)
    /\ phase \in {"generate", "evaluate"} =>
           /\ Counted(scores, Len(scores), stale)
           /\ \A n \in 1 .. Len(scores) : ~ConvergedAt(scores, n)
           /\ Len(scores) <= MaxIterations
           /\ ending.how # "returned"
    /\ phase = "checkpoint" =>
           /\ Running => scores # <<>> /\ Counted(scores, Len(scores) - 1, stale)
           /\ \A n \in 1 .. Len(scores) - 1 : ~ConvergedAt(scores, n)
           /\ Len(scores) <= MaxIterations + 1
           /\ ending.how = "returned" =>
                  ConvergedAt(scores, Len(scores)) \/ Len(scores) = MaxIterations + 1

\* A prefix of the history has converged where the whole history says so.
LEMMA PrefixConverged ==
  ASSUME scores \in Seq(Nat), NEW n \in 1 .. Len(scores)
  PROVE  Converged(SubSeq(scores, 1, n)) <=> ConvergedAt(scores, n)
<1>1. Patience \in Nat /\ Patience >= 1
  BY RefineAssumption DEF RefineAssumption
<1> DEFINE prefix == SubSeq(scores, 1, n)
<1>2. Len(prefix) = n /\ \A i \in 1 .. n : prefix[i] = scores[i]
  OBVIOUS
<1> HIDE DEF prefix
<1>3. n > Patience => \A i \in n - Patience + 1 .. n : i \in 1 .. n /\ i - 1 \in 1 .. n
  BY <1>1
<1>4. Converged(prefix) <=> ConvergedAt(scores, n)
  BY <1>2, <1>3 DEF Converged, ConvergedAt, Small
<1>5. QED
  BY <1>4 DEF prefix

\* should_stop, by its counter, finds what it promises.
LEMMA CounterRight ==
  ASSUME StopInv, At("checkpoint"), NEW n, n = Len(scores)
  PROVE  /\ n \in Nat /\ n >= 1
         /\ ShouldStop <=> ConvergedAt(scores, n)
         /\ ~ShouldStop => Counted(scores, n, StaleNow)
<1>1. /\ n \in Nat /\ n >= 1 /\ scores[n] \in Nat /\ Counted(scores, n - 1, stale)
      /\ Patience \in Nat /\ Patience >= 1 /\ DeltaThreshold \in Nat /\ TargetScore \in Nat
  BY RefineAssumption DEF StopInv, At, RefineAssumption
<1>2. CASE n = 1
  <2>1. stale = 0 /\ StaleNow = 0
    BY <1>1, <1>2 DEF Counted, StaleNow
  <2>2. ShouldStop <=> ConvergedAt(scores, n)
    BY <1>1, <1>2, <2>1 DEF ShouldStop, ConvergedAt
  <2>3. Counted(scores, n, 0)
    BY <1>1, <1>2 DEF Counted
  <2>4. QED
    BY <1>1, <2>1, <2>2, <2>3
<1>3. CASE n >= 2 /\ ~Small(scores, n)
  <2>1. StaleNow = 0
    BY <1>1, <1>3 DEF StaleNow, Small
  <2>2. ~(n > Patience /\ \A i \in n - Patience + 1 .. n : Small(scores, i))
    BY <1>1, <1>3
  <2>3. ShouldStop <=> ConvergedAt(scores, n)
    BY <1>1, <2>1, <2>2 DEF ShouldStop, ConvergedAt
  <2>4. Counted(scores, n, 0)
    BY <1>1, <1>3 DEF Counted
  <2>5. QED
    BY <1>1, <2>1, <2>3, <2>4
<1>4. CASE n >= 2 /\ Small(scores, n)
  <2>1. StaleNow = stale + 1
    BY <1>1, <1>4 DEF StaleNow, Small
  <2>2. /\ stale \in 0 .. n - 2 /\ stale < Patience
        /\ \A i \in n - stale .. n : Small(scores, i)
        /\ n - 1 - stale >= 2 => ~Small(scores, n - 1 - stale)
    <3>1. stale \in 0 .. n - 2 /\ stale < Patience
          /\ (n - 1 - stale >= 2 => ~Small(scores, n - 1 - stale))
      BY <1>1, <1>4 DEF Counted
    <3>2. \A i \in n - stale .. n - 1 : Small(scores, i)
      BY <1>1, <3>1 DEF Counted
    <3>3. QED
      BY <1>1, <1>4, <3>1, <3>2
  <2>3. CASE stale + 1 >= Patience
    <3>1. Patience = stale + 1 /\ n > Patience
      BY <1>1, <2>2, <2>3
    <3>2. \A i \in n - Patience + 1 .. n : Small(scores, i)
      BY <1>1, <2>2, <3>1
    <3>3. QED
      BY <1>1, <2>1, <2>3, <3>1, <3>2 DEF ShouldStop, ConvergedAt
  <2>4. CASE stale + 1 < Patience
    <3>1. ~(n > Patience /\ \A i \in n - Patience + 1 .. n : Small(scores, i))
      <4>1. SUFFICES ASSUME n > Patience, \A i \in n - Patience + 1 .. n : Small(scores, i) PROVE FALSE
        OBVIOUS
      <4>2. n - 1 - stale \in n - Patience + 1 .. n /\ n - 1 - stale >= 2
        BY <1>1, <2>2, <2>4, <4>1
      <4>3. QED
        BY <2>2, <4>1, <4>2
    <3>2. ShouldStop <=> ConvergedAt(scores, n)
      BY <1>1, <2>1, <2>2, <2>4, <3>1 DEF ShouldStop, ConvergedAt
    <3>3. Counted(scores, n, stale + 1)
      <4>1. stale + 1 \in 0 .. n - 1 /\ n - (stale + 1) = n - 1 - stale /\ n - (stale + 1) + 1 = n - stale
        BY <1>1, <2>2
      <4>2. QED
        BY <1>1, <1>4, <2>2, <2>4, <4>1 DEF Counted
    <3>4. QED
      BY <1>1, <2>1, <3>2, <3>3
  <2>5. QED
    BY <1>1, <2>2, <2>3, <2>4
<1>5. QED
  BY <1>1, <1>2, <1>3, <1>4

\* A new score changes nothing about those before it.
LEMMA OlderScores ==
  ASSUME NEW h \in Seq(Nat), NEW s \in Nat, NEW n \in 0 .. Len(h), NEW c
  PROVE  /\ Counted(h, n, c) => Counted(Append(h, s), n, c)
         /\ n > 0 => (ConvergedAt(Append(h, s), n) <=> ConvergedAt(h, n))
<1> DEFINE g == Append(h, s)
<1>1. \A i \in 1 .. Len(h) : g[i] = h[i]
  OBVIOUS
<1> HIDE DEF g
<1>2. Len(h) \in Nat /\ Patience \in Nat /\ Patience >= 1
  BY RefineAssumption DEF RefineAssumption
<1>3. \A i \in 2 .. n : Small(g, i) <=> Small(h, i)
  <2>1. TAKE i \in 2 .. n
  <2>2. i \in 1 .. Len(h) /\ i - 1 \in 1 .. Len(h)
    BY <1>2
  <2>3. g[i] = h[i] /\ g[i - 1] = h[i - 1]
    BY <1>1, <2>2
  <2>4. QED
    BY <2>3 DEF Small
<1>4. ASSUME Counted(h, n, c) PROVE Counted(g, n, c)
  <2>1. c \in 0 .. IF n = 0 THEN 0 ELSE n - 1
    BY <1>4 DEF Counted
  <2>2. /\ \A i \in n - c + 1 .. n : i \in 2 .. n
        /\ n - c >= 2 => n - c \in 2 .. n
    BY <2>1
  <2>3. QED
    BY <1>3, <1>4, <2>2 DEF Counted
<1>5. ASSUME n > 0 PROVE ConvergedAt(g, n) <=> ConvergedAt(h, n)
  <2>1. g[n] = h[n]
    BY <1>1, <1>5
  <2>2. n > Patience => \A i \in n - Patience + 1 .. n : i \in 2 .. n
    BY <1>2
  <2>3. QED
    BY <1>3, <2>1, <2>2 DEF ConvergedAt
<1>6. QED
  BY <1>4, <1>5 DEF g

\* A candidate is scored, and the detector not asked yet.
LEMMA ScoredStops ==
  ASSUME StopInv, At("evaluate"), phase' = "checkpoint", ending' = ending,
         NEW s \in Nat, Scored(s)
  PROVE  StopInv'
<1>1. scores' = Append(scores, s) /\ stale' = stale
  BY DEF Scored, loopVars
<1>2. /\ scores \in Seq(Nat) /\ Len(scores) \in Nat
      /\ Counted(scores, Len(scores), stale)
      /\ \A n \in 1 .. Len(scores) : ~ConvergedAt(scores, n)
      /\ Len(scores) <= MaxIterations /\ MaxIterations \in Nat
  BY RefineAssumption DEF StopInv, At, RefineAssumption
<1>3. scores' \in Seq(Nat) /\ Len(scores') = Len(scores) + 1 /\ scores' # <<>>
  BY <1>1, <1>2
<1>4. Counted(scores', Len(scores') - 1, stale')
  <2>1. Counted(scores', Len(scores), stale)
    BY <1>1, <1>2, OlderScores
  <2>2. QED
    BY <1>1, <1>2, <1>3, <2>1
<1>5. \A n \in 1 .. Len(scores') - 1 : ~ConvergedAt(scores', n)
  <2>1. TAKE n \in 1 .. Len(scores') - 1
  <2>2. n \in 1 .. Len(scores)
    BY <1>2, <1>3
  <2>3. QED
    BY <1>1, <1>2, <2>2, OlderScores
<1>6. ending'.how # "returned"
  BY DEF At, Running
<1>7. QED
  BY <1>2, <1>3, <1>4, <1>5, <1>6 DEF StopInv

\* The detector is asked.
LEMMA CheckpointedStops ==
  ASSUME StopInv, Checkpointed
  PROVE  StopInv'
<1>1. /\ At("checkpoint") /\ scores' = scores /\ stale' = StaleNow
      /\ scores \in Seq(Nat) /\ MaxIterations \in Nat
  BY RefineAssumption DEF Checkpointed, StopInv, RefineAssumption
<1> DEFINE n == Len(scores)
<1>2. /\ n \in Nat /\ n >= 1
      /\ ShouldStop <=> ConvergedAt(scores, n)
      /\ ~ShouldStop => Counted(scores, n, StaleNow)
  BY <1>1, CounterRight
<1>3. /\ \A k \in 1 .. n - 1 : ~ConvergedAt(scores, k)
      /\ n <= MaxIterations + 1
  BY <1>1 DEF StopInv, At
<1>4. CASE ShouldStop \/ LastIteration
  <2>1. phase' = "checkpoint" /\ ending'.how = "returned"
    BY <1>1, <1>4 DEF Checkpointed, At, End
  <2>2. ConvergedAt(scores, n) \/ n = MaxIterations + 1
    BY <1>1, <1>2, <1>3, <1>4 DEF LastIteration
  <2>3. QED
    BY <1>1, <1>3, <2>1, <2>2 DEF StopInv, Running
<1>5. CASE ~(ShouldStop \/ LastIteration)
  <2>1. phase' = "generate" /\ ending' = ending /\ ending.how # "returned"
    BY <1>1, <1>5 DEF Checkpointed, At, Running
  <2>2. n <= MaxIterations
    BY <1>1, <1>2, <1>5 DEF LastIteration
  <2>3. \A k \in 1 .. n : ~ConvergedAt(scores, k)
    <3>1. TAKE k \in 1 .. n
    <3>2. k = n \/ k \in 1 .. n - 1
      BY <1>2
    <3>3. QED
      BY <1>2, <1>3, <1>5, <3>2
  <2>4. QED
    BY <1>1, <1>2, <1>5, <2>1, <2>2, <2>3 DEF StopInv
<1>6. QED
  BY <1>4, <1>5

LEMMA StopInit == Init => StopInv
BY DEF Init, StopInv

LEMMA StopKept == StopInv /\ [Next]_vars => StopInv'
<1> SUFFICES ASSUME StopInv, [Next]_vars PROVE StopInv'
  OBVIOUS
<1>1. CASE StartStep
  <2>1. scores' = <<>> /\ stale' = 0 /\ ending'.how = "none" /\ phase' \in {"draft", "fanned", "generate"}
    BY <1>1 DEF StartStep, LoopInit, FirstPhase, End
  <2>2. MaxIterations \in Nat /\ Patience \in Nat /\ Patience >= 1
    BY RefineAssumption DEF RefineAssumption
  <2>3. Counted(<<>>, 0, 0)
    BY <2>2 DEF Counted
  <2>4. QED
    BY <2>1, <2>2, <2>3 DEF StopInv
<1>2. CASE (phase = "draft" \/ RefineCalling) /\ CallNext /\ UNCHANGED loopVars
  <2>1. phase' = phase /\ phase # "checkpoint" /\ scores' = scores /\ stale' = stale
    BY <1>2 DEF RefineCalling, loopVars, CallNext, Attempt, Backoff, GiveUp, Escape
  <2>2. ending'.how # "returned"
    BY <1>2 DEF CallNext, Attempt, Backoff, GiveUp, Escape, CallerRaises, End, Running
  <2>3. QED
    BY <2>1, <2>2 DEF StopInv
<1>3. CASE RefineNext
  <2>1. CASE Generated
    BY <2>1 DEF Generated, Answered, At, loopVars, StopInv
  <2>2. CASE Rated \/ Judged
    <3>1. PICK s \in Scores : Scored(s)
      BY <2>2 DEF Rated, Judged
    <3>2. s \in Nat /\ At("evaluate") /\ phase' = "checkpoint" /\ ending' = ending
      BY <2>2, RefineAssumption DEF Rated, Judged, Answered, RefineAssumption
    <3>3. QED
      BY <3>1, <3>2, ScoredStops
  <2>3. CASE Unrated
    <3>1. phase = "evaluate" /\ phase' = "checkpoint" /\ ending'.how = "foreign" /\ UNCHANGED <<scores, stale>>
      BY <2>3 DEF Unrated, Answered, At, End, loopVars
    <3>2. Len(scores) \in Nat /\ MaxIterations \in Nat
      BY RefineAssumption DEF StopInv, RefineAssumption
    <3>3. QED
      BY <3>1, <3>2 DEF StopInv, Running
  <2>4. CASE Misjudged \/ CheckpointCancelled
    <3>1. phase' = phase /\ ending'.how \in {"foreign", "custom"} /\ UNCHANGED <<scores, stale>>
      BY <2>4 DEF Misjudged, CheckpointCancelled, CallerRaises, End, loopVars
    <3>2. QED
      BY <3>1 DEF StopInv, Running
  <2>5. CASE Checkpointed
    BY <2>5, CheckpointedStops
  <2>6. QED
    BY <1>3, <2>1, <2>2, <2>3, <2>4, <2>5 DEF RefineNext
<1>4. CASE StructuredNext /\ UNCHANGED loopVars
  <2>1. phase' = "draft" /\ scores' = scores
    BY <1>4 DEF StructuredNext, Accepted, Rejected, Unrepaired, Invalid, Answered, loopVars
  <2>2. QED
    BY <2>1 DEF StopInv
<1>5. CASE FanOut
  <2>1. phase' = "fanned" /\ scores' = scores
    BY <1>5 DEF FanOut, At, loopVars
  <2>2. QED
    BY <2>1 DEF StopInv
<1>6. CASE StepReturned \/ StepRaised \/ StepEscaped \/ UNCHANGED vars
  <2>1. UNCHANGED <<phase, scores, stale, ending>>
    BY <1>6 DEF StepReturned, StepRaised, StepEscaped, vars, stepVars, loopVars
  <2>2. QED
    BY <2>1 DEF StopInv, Running
<1>7. QED
  BY <1>1, <1>2, <1>3, <1>4, <1>5, <1>6 DEF Next, Over, Step

\* refine_loop stops at the first score that meets the target, or ends Patience
\* small changes, or uses up the iterations, and nowhere else.
THEOREM Convergence == Spec => []StopsWhereDue
<1>1. StopInv => StopsWhereDue
  <2> SUFFICES ASSUME StopInv, scores # <<>>, phase \in {"generate", "evaluate", "checkpoint"}
               PROVE  StopsWhereDue
    BY DEF StopsWhereDue
  <2>1. scores \in Seq(Nat) /\ Len(scores) \in Nat /\ Len(scores) >= 1 /\ MaxIterations \in Nat
    BY RefineAssumption DEF StopInv, RefineAssumption
  <2>2. \A n \in 1 .. Len(scores) : Converged(SubSeq(scores, 1, n)) <=> ConvergedAt(scores, n)
    BY <2>1, PrefixConverged
  <2>3. Converged(scores) <=> ConvergedAt(scores, Len(scores))
    BY DEF Converged, ConvergedAt, Small
  <2>4. \A n \in 1 .. Len(scores) - 1 : n \in 1 .. Len(scores)
    BY <2>1
  <2>5. CASE phase = "checkpoint"
    BY <2>1, <2>2, <2>3, <2>4, <2>5 DEF StopInv, StopsWhereDue
  <2>6. CASE phase # "checkpoint"
    BY <2>1, <2>2, <2>3, <2>4, <2>6 DEF StopInv, StopsWhereDue
  <2>7. QED
    BY <2>5, <2>6
<1>2. QED
  BY <1>1, StopInit, StopKept, PTL DEF Spec
-----------------------------------------------------------------------------
(* How much work a pipe is. *)

\* The running step awaits the provider.
Calling == phase \in {"draft", "generate"} \/ (phase = "evaluate" /\ builtin)

\* Responses the running step has had, and the most that one takes.
Responses ==
    CASE phase = "draft" -> repairs
      [] phase = "evaluate" -> (IF builtin THEN 2 ELSE 1) * Len(scores) + 1
      [] OTHER -> (IF builtin THEN 2 ELSE 1) * Len(scores)
MostResponses(pattern) ==
    CASE pattern = "structured" -> MaxRepairs + 1
      [] pattern = "refine" -> 2 * (MaxIterations + 1)
      [] OTHER -> MaxIterations + 1

MostCalls(pattern) ==
    IF pattern = "fan_out" THEN FanCalls ELSE MostResponses(pattern) * (MaxRetries + 1)

\* What a step of a pipe calls the provider for, at most: each response of each
\* iteration or repair, retried as often as that is allowed.
CallsBounded ==
    /\ at > 0 => tracker["llm_calls"] <= MostCalls(This.pattern)
    /\ \A k \in DOMAIN costs : \/ costs[k]["llm_calls"] <= MostCalls(steps[k].pattern)
                               \/ k = at /\ outcome.how = "custom"

\* A step is where its pattern may be.
PatternInv ==
    at > 0 =>
        \/ This.pattern = "structured" /\ phase = "draft"
        \/ This.pattern = "fan_out" /\ phase = "fanned"
        \/ This.pattern = "refine" /\ builtin /\ phase \in {"generate", "evaluate", "checkpoint"}
        \/ This.pattern = "refine_custom" /\ ~builtin /\ phase \in {"generate", "evaluate", "checkpoint"}

\* Its counters are within their limits.
CountersInv ==
    /\ tries <= MaxRetries + 1
    /\ call = "backoff" => tries <= MaxRetries
    /\ ~Calling => call = "ready"
    /\ repairs \in 0 .. MaxRepairs
    /\ phase \in {"draft", "fanned"} => scores = <<>>

\* Its calls are the attempts of the response it waits for and of those before.
CallsInv ==
    Running => tracker["llm_calls"] <= Responses * (MaxRetries + 1) + tries

WorkInv == PatternInv /\ CountersInv /\ CallsInv /\ CallsBounded

\* How far the running step is, and the call it makes.
Lead(where) ==
    CASE where = "evaluate" -> 1
      [] where = "checkpoint" -> -1
      [] OTHER -> 0
Stage == 3 * Len(scores) + repairs + Lead(phase)
Attempts == 2 * tries + IF call = "backoff" THEN 1 ELSE 0

\* pipe() ends; or it is at a later step, or has booked one; or the step ends; or the
\* step is further on; or its call is.
Advances ==
    \/ Live /\ ~Live'
    \/ at' > at
    \/ /\ at' = at
       /\ \/ Len(costs') > Len(costs)
          \/ Running /\ ~Running'
          \/ Running /\ Running' /\ (Stage' > Stage \/ (Stage' = Stage /\ Attempts' > Attempts))

LEMMA Leads ==
  /\ Lead("draft") = 0 /\ Lead("generate") = 0 /\ Lead("fanned") = 0
  /\ Lead("evaluate") = 1 /\ Lead("checkpoint") = -1
BY DEF Lead

LEMMA Multiples ==
  ASSUME NEW n \in Nat, NEW m \in Nat, n <= m
  PROVE  /\ n * (MaxRetries + 1) \in Nat /\ m * (MaxRetries + 1) \in Nat
         /\ n * (MaxRetries + 1) <= m * (MaxRetries + 1)
<1>1. MaxRetries + 1 \in Nat
  BY StepCallsAssumption DEF StepCallsAssumption
<1> DEFINE r == MaxRetries + 1
<1>2. PICK d \in Nat : m = n + d
  BY m - n \in Nat
<1> HIDE DEF r
<1>3. n * r \in Nat /\ d * r \in Nat /\ m * r = n * r + d * r
  BY <1>1, <1>2 DEF r
<1>4. QED
  BY <1>1, <1>3 DEF r

LEMMA OneMoreMultiple ==
  ASSUME NEW n \in Nat
  PROVE  (n + 1) * (MaxRetries + 1) = n * (MaxRetries + 1) + MaxRetries + 1
BY StepCallsAssumption DEF StepCallsAssumption

LEMMA MostCallsType ==
  ASSUME NEW pattern
  PROVE  MostCalls(pattern) \in Nat
<1>1. MaxIterations \in Nat /\ MaxRepairs \in Nat /\ FanCalls \in Nat
  BY RefineAssumption, StructuredAssumption, PipeAssumption
     DEF RefineAssumption, StructuredAssumption, PipeAssumption
<1> DEFINE most == MostResponses(pattern)
<1>2. most \in Nat
  BY <1>1 DEF MostResponses
<1>3. most * (MaxRetries + 1) \in Nat
  <2> HIDE DEF most
  <2>1. QED
    BY <1>2, Multiples
<1>4. QED
  BY <1>1, <1>3 DEF MostCalls

\* The sizes of things.
LEMMA Sizes ==
  ASSUME PipeInv, StopInv, WorkInv
  PROVE  /\ Len(scores) \in Nat /\ repairs \in Nat /\ tries \in Nat /\ tracker["llm_calls"] \in Nat
         /\ at \in Nat /\ Len(costs) \in Nat
         /\ {MaxIterations, MaxRepairs, MaxRetries} \subseteq Nat
<1>1. {MaxIterations, MaxRepairs, MaxRetries} \subseteq Nat
  BY RefineAssumption, StructuredAssumption, StepCallsAssumption
     DEF RefineAssumption, StructuredAssumption, StepCallsAssumption
<1>2. tracker["llm_calls"] \in Nat
  BY DEF PipeInv, SpendTypeOK, Cost, Fields
<1>3. QED
  BY <1>1, <1>2 DEF PipeInv, SpendTypeOK, PipeTypeOK, StopInv, WorkInv, CountersInv

\* A step that awaits a response has had less than all of them.
LEMMA Room ==
  ASSUME PipeInv, StopInv, WorkInv, Live, Running, phase # "fanned"
  PROVE  /\ at > 0 /\ This.pattern # "fan_out"
         /\ Responses \in Nat /\ MostResponses(This.pattern) \in Nat
         /\ Responses <= MostResponses(This.pattern)
         /\ Calling => Responses + 1 <= MostResponses(This.pattern)
<1>1. at > 0
  BY InStep DEF Running
<1>2. CASE This.pattern = "structured" /\ phase = "draft"
  <2>1. Responses = repairs /\ MostResponses(This.pattern) = MaxRepairs + 1
    BY <1>2 DEF Responses, MostResponses
  <2>2. QED
    BY <1>1, <1>2, <2>1, Sizes DEF WorkInv, CountersInv
<1>3. CASE /\ This.pattern = "refine" /\ builtin
           /\ phase \in {"generate", "evaluate", "checkpoint"}
  <2>1. MostResponses(This.pattern) = 2 * (MaxIterations + 1)
    BY <1>3 DEF MostResponses
  <2>2. phase = "evaluate" => Responses = 2 * Len(scores) + 1
    BY <1>3 DEF Responses
  <2>3. phase # "evaluate" => Responses = 2 * Len(scores)
    BY <1>3 DEF Responses
  <2>4. /\ phase \in {"generate", "evaluate"} => Len(scores) <= MaxIterations
        /\ phase = "checkpoint" => Len(scores) <= MaxIterations + 1
    BY DEF StopInv
  <2>5. Len(scores) \in Nat /\ MaxIterations \in Nat /\ builtin
    BY <1>3, Sizes
  <2>6. Calling <=> phase \in {"generate", "evaluate"}
    BY <1>3 DEF Calling
  <2> DEFINE most == MostResponses(This.pattern)
  <2>7. /\ Responses \in Nat /\ most \in Nat /\ Responses <= most
        /\ phase \in {"generate", "evaluate"} => Responses + 1 <= most
    <3>1. phase \in {"generate", "evaluate", "checkpoint"} /\ most = 2 * (MaxIterations + 1)
      BY <1>3, <2>1
    <3> HIDE DEF most
    <3>2. QED
      BY ONLY <2>2, <2>3, <2>4, <2>5, <3>1
  <2>8. QED
    BY <1>1, <1>3, <2>6, <2>7
<1>4. CASE /\ This.pattern = "refine_custom" /\ ~builtin
           /\ phase \in {"generate", "evaluate", "checkpoint"}
  <2>1. MostResponses(This.pattern) = MaxIterations + 1
    BY <1>4 DEF MostResponses
  <2>2. phase = "evaluate" => Responses = 1 * Len(scores) + 1
    BY <1>4 DEF Responses
  <2>3. phase # "evaluate" => Responses = 1 * Len(scores)
    BY <1>4 DEF Responses
  <2>4. /\ phase \in {"generate", "evaluate"} => Len(scores) <= MaxIterations
        /\ phase = "checkpoint" => Len(scores) <= MaxIterations + 1
    BY DEF StopInv
  <2>5. QED
    BY <1>1, <1>4, <2>1, <2>2, <2>3, <2>4, Sizes DEF Calling
<1>5. QED
  BY <1>1, <1>2, <1>3, <1>4 DEF WorkInv, PatternInv

\* A step's calls stay within its limit when it has no more of them than all its
\* responses take.
LEMMA CallsWithin ==
  ASSUME PipeInv, StopInv, WorkInv, Live, Running, phase # "fanned",
         UNCHANGED <<steps, at, costs>>,
         tracker'["llm_calls"] <= MostResponses(This.pattern) * (MaxRetries + 1)
  PROVE  CallsBounded'
<1>1. This' = This /\ at > 0 /\ This.pattern # "fan_out"
  BY Room DEF This
<1>2. QED
  BY <1>1 DEF CallsBounded, Live, WorkInv, MostCalls

\* A response has come.
LEMMA ResponseCounted ==
  ASSUME PipeInv, StopInv, WorkInv, Live, Running, Calling,
         UNCHANGED <<steps, at, costs>>, tracker'["llm_calls"] = tracker["llm_calls"], tries' = 0,
         Running' => Responses' \in Nat /\ Responses' >= Responses + 1
  PROVE  CallsInv' /\ CallsBounded'
<1> DEFINE n == Responses
           m == MostResponses(This.pattern)
           k == MaxRetries + 1
<1>1. phase # "fanned"
  BY DEF Calling
<1>2. n \in Nat /\ m \in Nat /\ n + 1 \in Nat /\ n + 1 <= m /\ k \in Nat
  BY <1>1, Room, Sizes
<1>3. (n + 1) * k = n * k + k /\ (n + 1) * k <= m * k /\ n * k \in Nat /\ (n + 1) * k \in Nat /\ m * k \in Nat
  <2> HIDE DEF n, m
  <2>1. (n + 1) * k = n * k + MaxRetries + 1
    BY <1>2, OneMoreMultiple
  <2> DEFINE next == n + 1
  <2>2. next \in Nat /\ next <= m
    BY <1>2
  <2> HIDE DEF next
  <2>3. next * k <= m * k /\ next * k \in Nat /\ m * k \in Nat
    BY <1>2, <2>2, Multiples
  <2>4. n * k \in Nat
    BY <1>2, Multiples
  <2>5. n * k + MaxRetries + 1 = n * k + k
    BY <1>2, <2>4, Sizes
  <2>6. QED
    BY <2>1, <2>3, <2>4, <2>5 DEF next
<1>4. tracker["llm_calls"] <= n * k + tries /\ tries <= k
  BY DEF WorkInv, CallsInv, CountersInv
<1>5. tracker'["llm_calls"] <= (n + 1) * k /\ tracker'["llm_calls"] \in Nat
  <2> HIDE DEF n, m, k
  <2>1. QED
    BY <1>2, <1>3, <1>4, Sizes
<1>6. CallsBounded'
  <2>1. tracker'["llm_calls"] <= m * k
    <3> HIDE DEF n, m, k
    <3>1. QED
      BY <1>3, <1>5
  <2>2. QED
    BY <1>1, <2>1, CallsWithin
<1>7. ASSUME Running'
      PROVE  tracker'["llm_calls"] <= Responses' * (MaxRetries + 1) + tries'
  <2> DEFINE later == Responses'
             next == n + 1
  <2>1. later \in Nat /\ next \in Nat /\ next <= later
    BY <1>2, <1>7
  <2> HIDE DEF later, next
  <2>2. next * k <= later * k /\ later * k \in Nat
    BY <2>1, Multiples
  <2>3. tracker'["llm_calls"] <= next * k /\ next * k \in Nat
    BY <1>3, <1>5 DEF next
  <2>4. tracker'["llm_calls"] <= later * k
    <3> HIDE DEF k
    <3>1. QED
      BY <1>5, <2>2, <2>3
  <2>5. later * k = later * k + tries'
    BY <2>2
  <2>6. QED
    BY <2>4, <2>5 DEF later
<1>8. QED
  BY <1>6, <1>7 DEF CallsInv

LEMMA NotCharged ==
  ASSUME PipeInv, NEW u, Charge("tokens", u)
  PROVE  tracker'["llm_calls"] = tracker["llm_calls"]
BY DEF PipeInv, SpendTypeOK, Cost, Fields, Charge

LEMMA PatternKept ==
  ASSUME PatternInv, UNCHANGED <<steps, at, builtin>>,
         \/ phase' = phase
         \/ {phase, phase'} \subseteq {"generate", "evaluate", "checkpoint"}
  PROVE  PatternInv'
BY DEF PatternInv, This

\* What happens to a call short of its response.
LEMMA CallWorks ==
  ASSUME PipeInv, StopInv, WorkInv, Live, Calling, CallNext,
         UNCHANGED <<loopVars, repairs, steps, at, costs, outcome>>
  PROVE  WorkInv' /\ Advances
<1>1. /\ Running /\ UNCHANGED <<phase, scores, builtin, repairs, steps, at, costs>>
      /\ phase # "fanned"
  BY DEF CallNext, Attempt, Backoff, GiveUp, Escape, loopVars, Calling
<1>2. PatternInv' /\ Responses' = Responses /\ Stage' = Stage /\ (Calling' <=> Calling)
  <2>1. PatternInv'
    BY <1>1, PatternKept DEF WorkInv
  <2>2. QED
    BY <1>1, <2>1 DEF Responses, Stage, Calling
<1>3. ASSUME ~Running', tracker'["llm_calls"] = tracker["llm_calls"], UNCHANGED callVars
      PROVE  WorkInv' /\ Advances
  <2>1. CountersInv' /\ CallsInv' /\ CallsBounded'
    BY <1>1, <1>2, <1>3 DEF WorkInv, CountersInv, CallsInv, CallsBounded, Live, callVars, This
  <2>2. Advances
    BY <1>1, <1>3 DEF Advances
  <2>3. QED
    BY <1>2, <2>1, <2>2 DEF WorkInv
<1>4. CASE Attempt /\ Refused
  BY <1>3, <1>4 DEF Attempt, End, Running, callVars
<1>5. CASE Attempt /\ ~Refused
  <2>1. /\ Charge("llm_calls", 1) /\ call \in {"ready", "backoff"} /\ call' = "sent"
        /\ tries' = tries + 1 /\ ending' = ending
    BY <1>5 DEF Attempt
  <2>2. tracker'["llm_calls"] = tracker["llm_calls"] + 1
    BY <2>1 DEF Charge, PipeInv, SpendTypeOK, Cost, Fields
  <2>3. tries <= MaxRetries
    BY <2>1, Sizes DEF WorkInv, CountersInv, PipeInv, LimitInv
  <2>4. CountersInv'
    BY <1>1, <1>2, <2>1, <2>3, Sizes DEF WorkInv, CountersInv
  <2> DEFINE n == Responses
             m == MostResponses(This.pattern)
             k == MaxRetries + 1
             next == n + 1
  <2>5. n \in Nat /\ m \in Nat /\ next \in Nat /\ next <= m /\ k \in Nat
    BY <1>1, Room, Sizes
  <2>6. tracker["llm_calls"] <= n * k + tries
    BY <1>1 DEF WorkInv, CallsInv
  <2>7. n * k \in Nat /\ next * k = n * k + MaxRetries + 1
    <3> HIDE DEF n
    <3>1. next * k = n * k + MaxRetries + 1
      BY <2>5, OneMoreMultiple
    <3>2. n * k \in Nat
      BY <2>5, Multiples
    <3>3. QED
      BY <3>1, <3>2
  <2>8. next * k <= m * k /\ m * k \in Nat
    <3> HIDE DEF next, m
    <3>1. QED
      BY <2>5, Multiples
  <2>9. tracker'["llm_calls"] <= n * k + tries' /\ tracker'["llm_calls"] <= m * k
    <3>1. tries \in Nat /\ tracker["llm_calls"] \in Nat /\ MaxRetries \in Nat
      BY Sizes
    <3>2. tries' = tries + 1
      BY <2>1
    <3> HIDE DEF n, m, k, next
    <3>3. QED
      BY ONLY <2>2, <2>3, <2>6, <2>7, <2>8, <3>1, <3>2
  <2>10. CallsInv'
    BY <1>2, <2>9 DEF CallsInv
  <2>11. CallsBounded'
    BY <1>1, <2>9, CallsWithin
  <2>12. Attempts' > Attempts
    BY <2>1, Sizes DEF Attempts
  <2>13. Running'
    BY <1>1, <2>1 DEF Running
  <2>14. QED
    BY <1>1, <1>2, <2>4, <2>10, <2>11, <2>12, <2>13 DEF WorkInv, Advances
<1>6. CASE Backoff
  <2>1. /\ call = "sent" /\ tries <= MaxRetries /\ call' = "backoff"
        /\ UNCHANGED <<tracker, tries, ending>>
    BY <1>6 DEF Backoff
  <2>2. CountersInv' /\ CallsInv' /\ CallsBounded'
    BY <1>1, <1>2, <2>1 DEF WorkInv, CountersInv, CallsInv, CallsBounded, Live, This, Running
  <2>3. Attempts' > Attempts
    BY <2>1, Sizes DEF Attempts
  <2>4. Running'
    BY <1>1, <2>1 DEF Running
  <2>5. QED
    BY <1>1, <1>2, <2>2, <2>3, <2>4 DEF WorkInv, Advances
<1>7. CASE GiveUp \/ Escape
  <2>1. ~Running' /\ UNCHANGED callVars
    BY <1>7 DEF GiveUp, Escape, CallerRaises, End, Running
  <2>2. (\E u \in {0} \cup Usages : Charge("tokens", u)) \/ UNCHANGED tracker
    BY <1>7 DEF GiveUp, Escape
  <2>3. tracker'["llm_calls"] = tracker["llm_calls"]
    BY <2>2, NotCharged
  <2>4. QED
    BY <1>3, <2>1, <2>3
<1>8. QED
  BY <1>4, <1>5, <1>6, <1>7 DEF CallNext

\* A response has come, and the step has taken it in or has ended.
LEMMA ResponseWorks ==
  ASSUME PipeInv, StopInv, WorkInv, Live, Calling,
         NEW p, NEW q, Answered(p, q), UNCHANGED <<builtin, steps, at, costs, outcome>>,
         \/ p = q /\ scores' = scores
         \/ {p, q} \subseteq {"generate", "evaluate", "checkpoint"},
         repairs' \in 0 .. MaxRepairs,
         Running' => Responses' \in Nat /\ Responses' >= Responses + 1 /\ Stage' > Stage
  PROVE  WorkInv' /\ Advances
<1>1. /\ Running /\ phase = p /\ phase' = q /\ call' = "ready" /\ tries' = 0
      /\ \E u \in Usages : Charge("tokens", u)
  BY DEF Answered, At
<1>2. PatternInv'
  BY <1>1, PatternKept DEF WorkInv
<1>3. tracker'["llm_calls"] = tracker["llm_calls"]
  BY <1>1, NotCharged
<1>4. CallsInv' /\ CallsBounded'
  BY <1>1, <1>3, ResponseCounted
<1>5. CountersInv'
  BY <1>1, Sizes DEF WorkInv, CountersInv
<1>6. QED
  BY <1>1, <1>2, <1>4, <1>5 DEF WorkInv, Advances

\* A step that calls nobody has gone on or has ended.
LEMMA QuietWorks ==
  ASSUME PipeInv, StopInv, WorkInv, Live, Running,
         phase \in {"generate", "evaluate", "checkpoint"},
         phase' \in {"generate", "evaluate", "checkpoint"}, ~Calling,
         UNCHANGED <<tracker, callVars, repairs, builtin, steps, at, costs, outcome>>,
         Running' => Responses' \in Nat /\ Responses' >= Responses /\ Stage' > Stage
  PROVE  WorkInv' /\ Advances
<1>1. PatternInv'
  BY PatternKept DEF WorkInv
<1>2. CountersInv'
  BY DEF WorkInv, CountersInv, callVars
<1>3. CallsBounded'
  BY DEF WorkInv, CallsBounded, Live, This
<1>4. CallsInv'
  <2> SUFFICES ASSUME Running'
               PROVE  tracker'["llm_calls"] <= Responses' * (MaxRetries + 1) + tries'
    BY DEF CallsInv
  <2> DEFINE n == Responses
             later == Responses'
             k == MaxRetries + 1
  <2>1. n \in Nat /\ later \in Nat /\ n <= later
    BY Room
  <2>2. n * k <= later * k /\ n * k \in Nat /\ later * k \in Nat
    <3> HIDE DEF n, later
    <3>1. QED
      BY <2>1, Multiples
  <2>3. tracker["llm_calls"] <= n * k + tries
    BY DEF WorkInv, CallsInv
  <2>4. tries' = tries /\ tracker'["llm_calls"] = tracker["llm_calls"]
    BY DEF callVars
  <2>5. tracker'["llm_calls"] <= later * k + tries'
    <3> HIDE DEF n, later, k
    <3>1. QED
      BY <2>2, <2>3, <2>4, Sizes
  <2>6. QED
    BY <2>5
<1>5. QED
  BY <1>1, <1>2, <1>3, <1>4 DEF WorkInv, Advances

\* Every step of a refine_loop or structured.
LEMMA StepWorks ==
  ASSUME PipeInv, StopInv, WorkInv, Step
  PROVE  WorkInv' /\ Advances
<1>1. Live /\ UNCHANGED <<steps, at, costs, outcome>>
  BY DEF Step
<1>2. CASE (phase = "draft" \/ RefineCalling) /\ CallNext /\ UNCHANGED <<loopVars, repairs>>
  BY <1>1, <1>2, CallWorks DEF RefineCalling, Calling
<1>3. CASE StructuredNext /\ UNCHANGED loopVars
  <2>1. Answered("draft", "draft") /\ phase = "draft" /\ phase' = "draft" /\ Calling
        /\ UNCHANGED <<builtin, scores>>
    BY <1>3 DEF StructuredNext, Accepted, Rejected, Unrepaired, Invalid, Answered, At, Calling, loopVars
  <2>2. CASE Rejected
    <3>1. repairs' = repairs + 1 /\ repairs' \in 0 .. MaxRepairs
      BY <2>2, Sizes DEF Rejected, WorkInv, CountersInv
    <3>2. Responses = repairs /\ Responses' = repairs'
      BY <2>1 DEF Responses
    <3>3. Stage = 3 * Len(scores) + repairs /\ Stage' = 3 * Len(scores) + repairs'
      BY <2>1, <3>1, Sizes, Leads DEF Stage
    <3>4. Len(scores) \in Nat /\ repairs \in Nat
      BY Sizes
    <3>5. Responses' \in Nat /\ Responses' >= Responses + 1 /\ Stage' > Stage
      BY ONLY <3>1, <3>2, <3>3, <3>4
    <3>6. QED
      BY <1>1, <2>1, <3>1, <3>5, ResponseWorks
  <2>3. CASE Accepted \/ Unrepaired \/ Invalid
    <3>1. ~Running' /\ repairs' = repairs
      BY <2>3 DEF Accepted, Unrepaired, Invalid, CallerRaises, End, Running
    <3>2. repairs' \in 0 .. MaxRepairs
      BY <3>1 DEF WorkInv, CountersInv
    <3>3. QED
      BY <1>1, <2>1, <3>1, <3>2, ResponseWorks
  <2>4. QED
    BY <1>3, <2>2, <2>3 DEF StructuredNext
<1>4. CASE RefineNext /\ UNCHANGED repairs
  <2>0. repairs' \in 0 .. MaxRepairs
    BY <1>4 DEF WorkInv, CountersInv
  <2> DEFINE per == IF builtin THEN 2 ELSE 1
  <2>1. CASE Generated
    <3>1. Answered("generate", "evaluate") /\ phase = "generate" /\ phase' = "evaluate" /\ Calling
          /\ UNCHANGED <<builtin, scores>>
      BY <2>1 DEF Generated, Answered, At, Calling, loopVars
    <3>2. Responses = per * Len(scores) /\ Responses' = per * Len(scores) + 1
      BY <3>1 DEF Responses
    <3>3. Stage = 3 * Len(scores) + repairs /\ Stage' = 3 * Len(scores) + repairs + 1
      BY <1>4, <3>1, Sizes, Leads DEF Stage
    <3>4. Responses' \in Nat /\ Responses' >= Responses + 1 /\ Stage' > Stage
      <4>1. per * Len(scores) \in Nat /\ Len(scores) \in Nat /\ repairs \in Nat
        BY Sizes
      <4> HIDE DEF per
      <4>2. QED
        BY ONLY <3>2, <3>3, <4>1
    <3>5. QED
      BY <1>1, <2>0, <3>1, <3>4, ResponseWorks
  <2>2. CASE Rated
    <3>1. Answered("evaluate", "checkpoint") /\ phase = "evaluate" /\ phase' = "checkpoint" /\ Calling
          /\ builtin /\ builtin' = builtin /\ \E s \in Scores : scores' = Append(scores, s)
      BY <2>2 DEF Rated, Scored, Answered, At, Calling
    <3>2. Len(scores') = Len(scores) + 1
      BY <3>1, RefineAssumption DEF RefineAssumption, StopInv
    <3>3. Responses = 2 * Len(scores) + 1 /\ Responses' = 2 * Len(scores')
      BY <3>1 DEF Responses
    <3>4. Stage = 3 * Len(scores) + repairs + 1 /\ Stage' = 3 * Len(scores') + repairs + -1
      BY <1>4, <3>1, Sizes, Leads DEF Stage
    <3>5. Len(scores) \in Nat /\ repairs \in Nat
      BY Sizes
    <3>6. Responses' \in Nat /\ Responses' >= Responses + 1 /\ Stage' > Stage
      BY ONLY <3>2, <3>3, <3>4, <3>5
    <3>7. QED
      BY <1>1, <2>0, <3>1, <3>6, ResponseWorks
  <2>3. CASE Unrated
    <3>1. Answered("evaluate", "checkpoint") /\ phase = "evaluate" /\ Calling
          /\ builtin' = builtin /\ ~Running'
      BY <2>3 DEF Unrated, Answered, At, Calling, End, Running, loopVars
    <3>2. QED
      BY <1>1, <2>0, <3>1, ResponseWorks
  <2>4. CASE Judged
    <3>1. Running /\ phase = "evaluate" /\ phase' = "checkpoint" /\ ~Calling
          /\ UNCHANGED <<tracker, callVars, builtin>>
          /\ ~builtin /\ \E s \in Scores : scores' = Append(scores, s)
      BY <2>4 DEF Judged, Scored, At, Calling
    <3>2. Len(scores') = Len(scores) + 1
      BY <3>1, RefineAssumption DEF RefineAssumption, StopInv
    <3>3. Responses = 1 * Len(scores) + 1 /\ Responses' = 1 * Len(scores')
      BY <3>1 DEF Responses
    <3>4. Stage = 3 * Len(scores) + repairs + 1 /\ Stage' = 3 * Len(scores') + repairs + -1
      BY <1>4, <3>1, Sizes, Leads DEF Stage
    <3>5. Len(scores) \in Nat /\ repairs \in Nat
      BY Sizes
    <3>6. Responses' \in Nat /\ Responses' >= Responses /\ Stage' > Stage
      BY ONLY <3>2, <3>3, <3>4, <3>5
    <3>7. QED
      BY <1>1, <1>4, <3>1, <3>6, QuietWorks
  <2>5. CASE Misjudged \/ CheckpointCancelled
    <3>1. Running /\ phase \in {"evaluate", "checkpoint"} /\ phase' = phase /\ ~Calling /\ ~Running'
          /\ UNCHANGED <<tracker, callVars, builtin>>
      BY <2>5 DEF Misjudged, CheckpointCancelled, CallerRaises, At, Calling, End, Running, loopVars
    <3>2. QED
      BY <1>1, <1>4, <3>1, QuietWorks
  <2>6. CASE Checkpointed
    <3>1. Running /\ phase = "checkpoint" /\ ~Calling /\ UNCHANGED <<tracker, callVars, builtin, scores>>
          /\ ((~Running' /\ phase' = phase) \/ phase' = "generate")
      BY <2>6 DEF Checkpointed, At, Calling, End, Running
    <3>2. Responses = per * Len(scores) /\ (phase' = "generate" => Responses' = per * Len(scores))
      BY <3>1 DEF Responses
    <3>3. /\ Stage = 3 * Len(scores) + repairs + -1
          /\ phase' = "generate" => Stage' = 3 * Len(scores) + repairs
      BY <1>4, <3>1, Sizes, Leads DEF Stage
    <3>4. per * Len(scores) \in Nat /\ Len(scores) \in Nat /\ repairs \in Nat
      BY Sizes
    <3>5. phase' = "generate" => Responses' \in Nat /\ Responses' >= Responses /\ Stage' > Stage
      <4> HIDE DEF per
      <4>1. QED
        BY ONLY <3>2, <3>3, <3>4
    <3>6. QED
      BY <1>1, <1>4, <3>1, <3>5, QuietWorks
  <2>7. QED
    BY <1>4, <2>1, <2>2, <2>3, <2>4, <2>5, <2>6 DEF RefineNext
<1>5. QED
  BY <1>2, <1>3, <1>4 DEF Step

\* The next step begins with nothing done.
LEMMA StartWorks ==
  ASSUME PipeInv, StopInv, WorkInv, StartStep
  PROVE  WorkInv' /\ Advances
<1> DEFINE pattern == steps[at + 1].pattern
<1>1. /\ Live /\ Len(costs) = at /\ at' = at + 1 /\ tracker' = Zero /\ call' = "ready" /\ tries' = 0
      /\ phase' = FirstPhase(pattern) /\ builtin' = (pattern = "refine")
      /\ scores' = <<>> /\ repairs' = 0 /\ UNCHANGED <<steps, costs>> /\ ending.how = "returned"
  BY DEF StartStep, LoopInit
<1>2. at \in Nat /\ at < Len(steps) /\ pattern \in Patterns /\ This' = steps[at + 1]
  <2>1. outcome.how = "none"
    BY <1>1 DEF Live
  <2>2. Booked
    BY <1>1, <2>1 DEF Booked, KitErrors
  <2>3. at \in Nat /\ at < Len(steps) /\ steps \in Seq(StepKinds)
    BY <1>1, <2>2 DEF PipeInv, PlaceInv, PipeTypeOK
  <2>4. steps[at + 1] \in StepKinds
    BY <2>3
  <2>5. QED
    BY <1>1, <2>3, <2>4 DEF This, StepKinds
<1>3. /\ phase' = "draft" => pattern = "structured"
      /\ phase' = "fanned" => pattern = "fan_out"
      /\ phase' = "generate" => pattern \in {"refine", "refine_custom"}
      /\ phase' \in {"draft", "fanned", "generate"}
  BY <1>1, <1>2 DEF FirstPhase, Patterns
<1>4. PatternInv'
  <2> HIDE DEF pattern
  <2>1. This'.pattern = pattern
    BY <1>2 DEF pattern
  <2>2. QED
    BY <1>1, <1>3, <2>1 DEF PatternInv
<1>5. CountersInv'
  BY <1>1, Sizes DEF CountersInv
<1>6. tracker'["llm_calls"] = 0
  BY <1>1, FieldFacts
<1>7. CallsInv'
  <2> DEFINE now == Responses'
  <2>1. now \in Nat
    BY <1>1, <1>3 DEF Responses
  <2>2. now * (MaxRetries + 1) \in Nat
    <3> HIDE DEF now
    <3>1. QED
      BY <2>1, Multiples
  <2>3. QED
    BY <1>1, <1>6, <2>2 DEF CallsInv
<1>8. CallsBounded'
  <2>1. MostCalls(This'.pattern) \in Nat
    BY MostCallsType
  <2>2. tracker'["llm_calls"] <= MostCalls(This'.pattern)
    BY <1>6, <2>1
  <2>3. QED
    BY <1>1, <2>2 DEF WorkInv, CallsBounded, Live
<1>9. at' > at
  BY <1>1, <1>2
<1>10. QED
  BY <1>4, <1>5, <1>7, <1>8, <1>9 DEF WorkInv, Advances

LEMMA FanOutWorks ==
  ASSUME PipeInv, StopInv, WorkInv, FanOut
  PROVE  WorkInv' /\ Advances
<1>1. /\ Live /\ Running /\ phase = "fanned" /\ ~Running'
      /\ UNCHANGED <<phase, callVars, loopVars, repairs, steps, at, costs>>
      /\ \E c \in FanOutSpend : tracker' = c
  BY DEF FanOut, At, End, CallerRaises, Running
<1>2. at > 0
  BY <1>1, InStep DEF Running
<1>3. tracker'["llm_calls"] <= FanCalls
  BY <1>1, PipeAssumption DEF FanOutSpend, PipeAssumption
<1>4. This' = This /\ This.pattern = "fan_out"
  BY <1>1, <1>2 DEF This, WorkInv, PatternInv
<1>5. CallsBounded'
  BY <1>1, <1>3, <1>4 DEF WorkInv, CallsBounded, Live, MostCalls
<1>6. PatternInv' /\ CountersInv' /\ CallsInv'
  BY <1>1, <1>4 DEF WorkInv, PatternInv, CountersInv, CallsInv, loopVars, callVars, Calling
<1>7. QED
  BY <1>1, <1>5, <1>6 DEF WorkInv, Advances

\* A step that has ended is booked, and its calls with it.
LEMMA EndWorks ==
  ASSUME PipeInv, StopInv, WorkInv, EndingInv, StepReturned \/ StepRaised \/ StepEscaped
  PROVE  WorkInv' /\ Advances
<1>1. /\ Live /\ UNCHANGED <<stepVars, loopVars, repairs, steps, at>>
      /\ \/ costs' = Append(costs, ending.cost)
         \/ costs' = costs /\ outcome' = ending /\ ending.how = "foreign"
  BY DEF StepReturned, StepRaised, StepEscaped
<1>2. at > 0 /\ at = Len(costs) + 1 /\ costs \in Seq(Cost) /\ ending.cost \in Cost
  <2>1. Len(costs) < at /\ at <= Len(costs) + 1
    BY <1>1, InStep DEF StepReturned, StepRaised, StepEscaped, KitErrors, PipeInv, PlaceInv
  <2>2. costs \in Seq(Cost) /\ ending \in Ending
    BY DEF PipeInv, PipeTypeOK, SpendTypeOK
  <2>3. QED
    BY <2>1, <2>2, Sizes DEF Ending
<1>3. PatternInv' /\ CountersInv' /\ CallsInv' /\ This' = This
  BY <1>1 DEF WorkInv, PatternInv, CountersInv, CallsInv, stepVars, callVars, loopVars, This, Running,
              Responses, Calling
<1>4. tracker' = tracker /\ tracker["llm_calls"] <= MostCalls(This.pattern)
  BY <1>1, <1>2 DEF stepVars, WorkInv, CallsBounded, Live
<1>5. CASE costs' = Append(costs, ending.cost)
  <2>1. ending.how # "custom" => ending.cost["llm_calls"] <= tracker["llm_calls"]
    BY FieldFacts DEF EndingInv
  <2>2. MostCalls(This.pattern) \in Int
    BY MostCallsType
  <2>3. ending.how # "custom" => ending.cost["llm_calls"] <= MostCalls(steps[at].pattern)
    <3> SUFFICES ASSUME ending.how # "custom"
                 PROVE  ending.cost["llm_calls"] <= MostCalls(steps[at].pattern)
      OBVIOUS
    <3> DEFINE most == MostCalls(steps[at].pattern)
               own == ending.cost["llm_calls"]
    <3>1. own <= tracker["llm_calls"] /\ tracker["llm_calls"] <= most /\ most \in Int
      BY <1>4, <2>1, <2>2 DEF This
    <3>2. own \in Nat /\ tracker["llm_calls"] \in Nat
      BY <1>2, Sizes DEF Cost, Fields
    <3> HIDE DEF own, most
    <3>3. own <= most
      BY <3>1, <3>2
    <3>4. QED
      BY <3>3 DEF own, most
  <2>4. /\ DOMAIN costs' = DOMAIN costs \cup {at} /\ costs'[at] = ending.cost
        /\ \A k \in DOMAIN costs : costs'[k] = costs[k]
        /\ at' = at
    BY <1>1, <1>2, <1>5
  <2>5. ending.how = "custom" => outcome'.how = "custom"
    BY DEF StepReturned, StepRaised, StepEscaped
  <2>6. CallsBounded'
    BY <1>1, <1>3, <1>4, <2>3, <2>4, <2>5 DEF WorkInv, CallsBounded, Live
  <2>7. Len(costs') > Len(costs)
    BY <1>2, <1>5
  <2>8. QED
    BY <1>1, <1>3, <2>6, <2>7 DEF WorkInv, Advances
<1>6. CASE costs' = costs /\ outcome' = ending /\ ending.how = "foreign"
  <2>1. CallsBounded'
    BY <1>1, <1>3, <1>4, <1>6 DEF WorkInv, CallsBounded, Live
  <2>2. ~Live'
    BY <1>6 DEF Live
  <2>3. QED
    BY <1>1, <1>3, <2>1, <2>2 DEF WorkInv, Advances
<1>7. QED
  BY <1>1, <1>5, <1>6

LEMMA WorkInit == Init => WorkInv
<1> SUFFICES ASSUME Init PROVE WorkInv
  OBVIOUS
<1>1. MaxRetries \in Nat /\ MaxRepairs \in Nat
  BY StepCallsAssumption, StructuredAssumption DEF StepCallsAssumption, StructuredAssumption
<1>2. QED
  BY <1>1 DEF Init, WorkInv, PatternInv, CountersInv, CallsInv, CallsBounded, Live, Running

LEMMA WorkStep ==
  ASSUME PipeInv, StopInv, WorkInv, EndingInv, Next, vars' # vars
  PROVE  WorkInv' /\ Advances
BY StartWorks, StepWorks, FanOutWorks, EndWorks DEF Next, Over

LEMMA WorkInvariance == Spec => [](PipeInv /\ StopInv /\ EndingInv /\ WorkInv)
<1>1. Init => EndingInv
  BY FieldFacts DEF Init, EndingInv
<1>2. ASSUME WorkInv, UNCHANGED vars
      PROVE  WorkInv'
  BY <1>2 DEF vars, stepVars, callVars, loopVars, pipeVars, WorkInv, PatternInv, CountersInv, CallsInv,
              CallsBounded, Live, This, Running, Responses, Calling
<1>3. PipeInv /\ StopInv /\ EndingInv /\ WorkInv /\ [Next]_vars
          => (PipeInv /\ StopInv /\ EndingInv /\ WorkInv)'
  BY <1>2, PipeStep, StopKept, EndingStep, WorkStep
<1>4. QED
  BY <1>1, <1>3, InitPipe, StopInit, WorkInit, PTL DEF Spec

\* However often evaluators, repairs and retries ask again, with a budget or with
\* none, a step of a pipe calls the provider no more often than its iterations or
\* repairs, its calls for each and their retries multiply to; and step_costs names
\* no more of them, unless the caller's own code raises an error that does.
THEOREM PipeCalls == Spec => []CallsBounded
<1>1. WorkInv => CallsBounded
  BY DEF WorkInv
<1>2. QED
  BY <1>1, WorkInvariance, PTL

\* A pipe ends: each of its steps uses up a part of a bounded amount of work,
\* unless a provider, an evaluator or a callback never returns.
THEOREM BoundedPipe ==
  Spec => []( /\ at \in 0 .. Len(steps) /\ Len(costs) <= at
              /\ Live /\ Running => /\ Stage \in 0 .. 3 * MaxIterations + 2 + MaxRepairs
                                    /\ Attempts \in 0 .. 2 * MaxRetries + 2 )
          /\ [][Advances]_vars
<1>1. ASSUME PipeInv, StopInv, WorkInv, Live, Running
      PROVE  Stage \in 0 .. 3 * MaxIterations + 2 + MaxRepairs /\ Attempts \in 0 .. 2 * MaxRetries + 2
  <2>1. at > 0
    BY <1>1, InStep DEF Running
  <2>2. Attempts \in 0 .. 2 * MaxRetries + 2
    BY Sizes, <1>1 DEF Attempts, WorkInv, CountersInv
  <2>3. repairs <= MaxRepairs
    BY <1>1, Sizes DEF WorkInv, CountersInv
  <2>4. /\ phase \in {"draft", "fanned"} => Len(scores) = 0 /\ Lead(phase) = 0
        /\ phase \in {"generate", "evaluate"} => Len(scores) <= MaxIterations /\ Lead(phase) \in {0, 1}
        /\ phase = "checkpoint" =>
               Len(scores) <= MaxIterations + 1 /\ Len(scores) >= 1 /\ Lead(phase) = -1
    BY <1>1, Leads, Sizes DEF WorkInv, CountersInv, StopInv
  <2> DEFINE n == Len(scores)
             lead == Lead(phase)
  <2>5. /\ \/ n = 0 /\ lead = 0
           \/ n <= MaxIterations /\ lead \in {0, 1}
           \/ n <= MaxIterations + 1 /\ n >= 1 /\ lead = -1
        /\ n \in Nat
    BY <1>1, <2>1, <2>4, Sizes DEF WorkInv, PatternInv
  <2>6. 3 * n + repairs + lead \in 0 .. 3 * MaxIterations + 2 + MaxRepairs
    <3>1. repairs \in Nat /\ MaxIterations \in Nat /\ MaxRepairs \in Nat
      BY <1>1, Sizes
    <3> HIDE DEF n, lead
    <3>2. lead \in Int /\ lead <= 1 /\ 3 * n + lead >= 0 /\ 3 * n + lead <= 3 * MaxIterations + 2
      BY ONLY <2>5, <3>1
    <3>3. QED
      BY ONLY <2>3, <2>5, <3>1, <3>2
  <2>7. QED
    BY <2>2, <2>6 DEF Stage
<1>2. ASSUME PipeInv
      PROVE  at \in 0 .. Len(steps) /\ Len(costs) <= at
  BY <1>2 DEF PipeInv, PipeTypeOK, PlaceInv
<1>3. PipeInv /\ StopInv /\ EndingInv /\ WorkInv /\ [Next]_vars => [Advances]_vars
  BY WorkStep
<1>4. PipeInv /\ StopInv /\ WorkInv
          => /\ at \in 0 .. Len(steps) /\ Len(costs) <= at
             /\ Live /\ Running => /\ Stage \in 0 .. 3 * MaxIterations + 2 + MaxRepairs
                                   /\ Attempts \in 0 .. 2 * MaxRetries + 2
  BY <1>1, <1>2
<1>5. QED
  BY <1>3, <1>4, WorkInvariance, PTL DEF Spec
-----------------------------------------------------------------------------
(***************************************************************************)
(* Extracting JSON.  Every text and every payload is meant: nothing bounds *)
(* their length or nesting.  A recursive function is reasoned about by its *)
(* least counterexample, which a well-founded order has (WFMin).           *)
(***************************************************************************)

\* Places have a first one.
LEMMA LeastPlace ==
  ASSUME NEW places \in SUBSET Nat, places # {}
  PROVE  \E i \in places : \A j \in places : i <= j
<1> DEFINE less == {p \in Nat \X Nat : p[1] < p[2]}
<1>1. IsWellFoundedOn(less, Nat)
  BY NatLessThanWellFounded DEF OpToRel
<1> HIDE DEF less
<1>2. PICK i \in places : \A j \in places : ~(<<j, i>> \in less)
  BY <1>1, WFMin
<1>3. \A j \in places : i <= j
  <2> SUFFICES ASSUME NEW j \in places
               PROVE  i <= j
    OBVIOUS
  <2>1. i \in Nat /\ j \in Nat /\ <<j, i>> \notin less
    BY <1>2
  <2>2. QED
    BY <2>1 DEF less
<1>4. QED
  BY <1>3

\* Earliest is that one.
LEMMA EarliestPlace ==
  ASSUME NEW places \in SUBSET Nat
  PROVE  /\ places = {} => Earliest(places) = 0
         /\ places # {} => Earliest(places) \in places /\ \A j \in places : Earliest(places) <= j
<1>1. CASE places = {}
  BY <1>1 DEF Earliest
<1>2. CASE places # {}
  BY <1>2, LeastPlace DEF Earliest
<1>3. QED
  BY <1>1, <1>2

LEMMA EarliestIs ==
  ASSUME NEW places \in SUBSET Nat, NEW i \in places, \A j \in places : i <= j
  PROVE  Earliest(places) = i
<1>1. /\ Earliest(places) <= i /\ i <= Earliest(places)
      /\ i \in Nat /\ Earliest(places) \in Nat
  BY EarliestPlace
<1>2. QED
  BY <1>1

\* A walk forward over places: it stops, or goes on from a later one.
Walks(f, n, stops, found, next) ==
    \A i \in 1 .. n : f[i] = IF i \in stops THEN found[i] ELSE f[next[i]]

\* A walk that can go on, from the first place, to a place where it stops finds
\* what is there.
LEMMA Walk ==
  ASSUME NEW n \in Nat, NEW stops, NEW Finds, NEW found \in [1 .. n -> Finds], NEW next,
         \A i \in (1 .. n) \ stops : next[i] \in i + 1 .. n
  PROVE  \E f \in [1 .. n -> Finds] : Walks(f, n, stops, found, next)
<1> DEFINE Right(f, i) == f[i] = IF i \in stops THEN found[i] ELSE f[next[i]]
           From(m) == \E f \in [1 .. n -> Finds] : \A i \in m .. n : Right(f, i)
           starts == {m \in 1 .. n + 1 : From(m)}
<1>1. n + 1 \in starts
  <2>1. \A i \in n + 1 .. n : Right(found, i)
    OBVIOUS
  <2>2. QED
    BY <2>1
<1>2. ASSUME NEW m \in 1 .. n, From(m + 1)
      PROVE  From(m)
  <2>1. PICK f \in [1 .. n -> Finds] : \A i \in m + 1 .. n : Right(f, i)
    BY <1>2
  <2>2. \A i \in m .. n : i \notin stops => next[i] \in m + 1 .. n
    OBVIOUS
  <2> DEFINE here == IF m \in stops THEN found[m] ELSE f[next[m]]
             g == [f EXCEPT ![m] = here]
  <2>3. here \in Finds
    BY <2>2
  <2>4. g \in [1 .. n -> Finds] /\ g[m] = here /\ \A i \in 1 .. n : i # m => g[i] = f[i]
    BY <2>3
  <2> HIDE DEF g
  <2>5. Right(g, m)
    BY <2>2, <2>4
  <2>6. \A i \in m + 1 .. n : Right(g, i)
    <3> SUFFICES ASSUME NEW i \in m + 1 .. n
                 PROVE  Right(g, i)
      OBVIOUS
    <3>1. Right(f, i) /\ g[i] = f[i] /\ i \in m .. n
      BY <2>1, <2>4
    <3>2. i \notin stops => g[next[i]] = f[next[i]]
      BY <2>2, <2>4, <3>1
    <3>3. QED
      BY <3>1, <3>2
  <2> HIDE DEF Right
  <2>7. \A i \in m .. n : Right(g, i)
    BY <2>5, <2>6
  <2>8. QED
    BY <2>4, <2>7
<1>3. 1 \in starts
  <2> HIDE DEF From
  <2>1. PICK m \in starts : \A k \in starts : m <= k
    <3>1. starts \in SUBSET Nat /\ starts # {}
      BY <1>1
    <3> HIDE DEF starts
    <3>2. QED
      BY <3>1, LeastPlace
  <2>2. CASE m = 1
    BY <2>2
  <2>3. CASE m # 1
    <3>1. m - 1 \in 1 .. n /\ From((m - 1) + 1)
      BY <2>1, <2>3
    <3>2. m - 1 \in starts
      BY <1>2, <3>1
    <3>3. QED
      BY <2>1, <3>2
  <2>4. QED
    BY <2>2, <2>3
<1>4. QED
  BY <1>3 DEF Walks
-----------------------------------------------------------------------------
(* Extracting JSON: the scan. *)

Outside == [in_string |-> FALSE, escape_next |-> FALSE, depth |-> 0]
ScanStates == [in_string : BOOLEAN, escape_next : BOOLEAN, depth : Int]

\* The state at d, outside of strings.
Level(d) == [in_string |-> FALSE, escape_next |-> FALSE, depth |-> d]

\* A scan runs through the text, one character after the other.
LEMMA ScanRuns ==
  ASSUME NEW text \in Texts, NEW start \in 1 .. Len(text)
  PROVE  /\ Scan(text, start)[start - 1] = Outside
         /\ \A i \in start .. Len(text) :
                Scan(text, start)[i] = next_char_state(Scan(text, start)[i - 1], text[i])
<1> DEFINE n == Len(text)
           Right(f, i) == f[i] = next_char_state(f[i - 1], text[i])
           Upon(m) == \E f : /\ f = [i \in start - 1 .. n |-> f[i]]
                             /\ f[start - 1] = Outside
                             /\ \A i \in start .. m : Right(f, i)
           gaps == {m \in start - 1 .. n : ~Upon(m)}
<1>1. n \in Nat /\ start \in Nat /\ start - 1 \in Nat
  BY DEF Texts
<1> HIDE DEF n
<1>2. Upon(start - 1)
  <2> DEFINE f == [i \in start - 1 .. n |-> Outside]
  <2>1. f = [i \in start - 1 .. n |-> f[i]] /\ f[start - 1] = Outside
    BY <1>1 DEF n
  <2>2. \A i \in start .. start - 1 : Right(f, i)
    BY <1>1
  <2>3. QED
    BY <2>1, <2>2
<1>3. ASSUME NEW m \in start .. n, Upon(m - 1)
      PROVE  Upon(m)
  <2>1. PICK f : /\ f = [i \in start - 1 .. n |-> f[i]] /\ f[start - 1] = Outside
                 /\ \A i \in start .. m - 1 : Right(f, i)
    BY <1>3
  <2> DEFINE g == [i \in start - 1 .. n |-> IF i # m THEN f[i]
                                            ELSE next_char_state(f[m - 1], text[m])]
  <2>2. \A i \in start - 1 .. n : i # m => g[i] = f[i]
    OBVIOUS
  <2>3. g[m] = next_char_state(f[m - 1], text[m])
    BY <1>1
  <2>4. g = [i \in start - 1 .. n |-> g[i]]
    OBVIOUS
  <2> HIDE DEF g
  <2>5. \A i \in start .. m : Right(g, i)
    <3> SUFFICES ASSUME NEW i \in start .. m
                 PROVE  Right(g, i)
      OBVIOUS
    <3>1. g[i - 1] = f[i - 1]
      BY <1>1, <2>2
    <3>2. CASE i = m
      BY <2>3, <3>1, <3>2
    <3>3. CASE i # m
      <4>1. i \in start .. m - 1 /\ i \in start - 1 .. n
        BY <1>1, <3>3
      <4>2. Right(f, i) /\ g[i] = f[i]
        BY <2>1, <2>2, <3>3, <4>1
      <4>3. QED
        BY <3>1, <4>2
    <3>4. QED
      BY <3>2, <3>3
  <2>6. g[start - 1] = Outside
    BY <1>1, <2>1, <2>2
  <2>7. QED
    BY <2>4, <2>5, <2>6
<1>4. Upon(n)
  <2> HIDE DEF Upon
  <2>1. SUFFICES ASSUME ~Upon(n)
                 PROVE  FALSE
    OBVIOUS
  <2>2. gaps # {} /\ gaps \in SUBSET Nat
    BY <1>1, <2>1 DEF n
  <2>3. PICK m \in gaps : \A k \in gaps : m <= k
    BY <2>2, LeastPlace
  <2>4. m \in start .. n /\ m - 1 \notin gaps
    BY <1>1, <1>2, <2>3
  <2>5. QED
    BY <1>1, <1>3, <2>3, <2>4
<1>5. PICK f : /\ f = [i \in start - 1 .. n |-> f[i]] /\ f[start - 1] = Outside
               /\ \A i \in start .. n : Right(f, i)
  BY <1>4
<1>6. f = [i \in start - 1 .. n |-> IF i = start - 1 THEN Outside
                                    ELSE next_char_state(f[i - 1], text[i])]
  <2>1. \A i \in start - 1 .. n :
            f[i] = IF i = start - 1 THEN Outside ELSE next_char_state(f[i - 1], text[i])
    <3> SUFFICES ASSUME NEW i \in start - 1 .. n, i # start - 1
                 PROVE  Right(f, i)
      BY <1>5
    <3>1. i \in start .. n
      BY <1>1
    <3>2. QED
      BY <1>5, <3>1
  <2>2. QED
    BY <1>5, <2>1, Zenon
<1>7. Scan(text, start) = [i \in start - 1 .. n |->
            IF i = start - 1 THEN Outside ELSE next_char_state(Scan(text, start)[i - 1], text[i])]
  BY <1>6 DEF Scan, Outside, n
<1>8. QED
  <2> DEFINE scan == Scan(text, start)
  <2> HIDE DEF scan
  <2>1. scan = [i \in start - 1 .. n |->
                    IF i = start - 1 THEN Outside ELSE next_char_state(scan[i - 1], text[i])]
    BY <1>7 DEF scan
  <2>2. scan[start - 1] = Outside /\ \A i \in start .. n : Right(scan, i)
    BY <1>1, <2>1 DEF n
  <2>3. QED
    BY <2>2 DEF scan, n
\* A state after one character.
LEMMA NextState ==
  ASSUME NEW state \in ScanStates, NEW char
  PROVE  /\ next_char_state(state, char) \in ScanStates
         /\ state.escape_next => next_char_state(state, char) = [state EXCEPT !.escape_next = FALSE]
         /\ ~state.escape_next /\ state.in_string =>
                next_char_state(state, char) =
                    [in_string |-> char # Quote, escape_next |-> char = Backslash,
                     depth |-> state.depth]
         /\ ~state.escape_next /\ ~state.in_string =>
                next_char_state(state, char) =
                    [in_string |-> char = Quote, escape_next |-> FALSE,
                     depth |-> state.depth + Delta(char)]
<1>1. Delta(char) \in Int /\ state.depth \in Int
  BY DEF Delta, ScanStates
<1> HIDE DEF Delta
<1>2. CASE state.escape_next
  BY <1>2 DEF ScanStates, next_char_state
<1>3. CASE ~state.escape_next /\ state.in_string
  BY <1>3 DEF ScanStates, next_char_state
<1>4. CASE ~state.escape_next /\ ~state.in_string
  <2>1. PICK d \in Int : state = [in_string |-> FALSE, escape_next |-> FALSE, depth |-> d]
    BY <1>4 DEF ScanStates
  <2>2. next_char_state(state, char) =
            [in_string |-> char = Quote, escape_next |-> FALSE, depth |-> d + Delta(char)]
    BY <2>1 DEF next_char_state
  <2>3. state.depth = d /\ d + Delta(char) \in Int
    BY <1>1, <2>1
  <2>4. next_char_state(state, char) \in ScanStates
    BY <2>2, <2>3 DEF ScanStates
  <2>5. QED
    BY <1>4, <2>2, <2>3, <2>4
<1>5. QED
  BY <1>2, <1>3, <1>4

\* The states of a scan are scan states.
LEMMA ScanType ==
  ASSUME NEW text \in Texts, NEW start \in 1 .. Len(text)
  PROVE  \A i \in start - 1 .. Len(text) : Scan(text, start)[i] \in ScanStates
<1> DEFINE n == Len(text)
           scan == Scan(text, start)
           wrong == {i \in start - 1 .. n : scan[i] \notin ScanStates}
<1>1. n \in Nat /\ start \in Nat /\ start - 1 \in Nat
  BY DEF Texts
<1>2. /\ scan[start - 1] = Outside
      /\ \A i \in start .. n : scan[i] = next_char_state(scan[i - 1], text[i])
  BY ScanRuns
<1>3. Outside \in ScanStates
  BY DEF Outside, ScanStates
<1> HIDE DEF n, scan
<1>4. SUFFICES ASSUME wrong # {}
               PROVE  FALSE
  BY DEF n, scan
<1>5. wrong \in SUBSET Nat
  BY <1>1
<1>6. PICK i \in wrong : \A j \in wrong : i <= j
  BY <1>4, <1>5, LeastPlace
<1>7. i \in start .. n /\ i - 1 \notin wrong /\ i - 1 \in start - 1 .. n
  BY <1>1, <1>2, <1>3, <1>6
<1>8. scan[i - 1] \in ScanStates /\ scan[i] = next_char_state(scan[i - 1], text[i])
  BY <1>2, <1>7
<1>9. scan[i] \in ScanStates
  BY <1>8, NextState
<1>10. QED
  BY <1>6, <1>9

\* The text, put somewhere else, is scanned as it is on its own.
LEMMA SameScan ==
  ASSUME NEW text \in Texts, NEW whole \in Texts, NEW o \in Nat, o + Len(text) <= Len(whole),
         \A i \in 1 .. Len(text) : whole[o + i] = text[i],
         NEW start \in 1 .. Len(text)
  PROVE  \A i \in start - 1 .. Len(text) :
             Scan(whole, o + start)[o + i] = Scan(text, start)[i]
<1> DEFINE n == Len(text)
           here == Scan(text, start)
           there == Scan(whole, o + start)
           wrong == {i \in start - 1 .. n : there[o + i] # here[i]}
<1>1. /\ n \in Nat /\ start \in Nat /\ start - 1 \in Nat /\ Len(whole) \in Nat
      /\ o + start \in 1 .. Len(whole) /\ n <= Len(whole) - o
  BY DEF Texts
<1>2. /\ here[start - 1] = Outside
      /\ \A i \in start .. n : here[i] = next_char_state(here[i - 1], text[i])
  BY ScanRuns
<1>3. /\ there[(o + start) - 1] = Outside
      /\ \A i \in o + start .. Len(whole) : there[i] = next_char_state(there[i - 1], whole[i])
  BY <1>1, ScanRuns
<1> HIDE DEF here, there
<1>4. SUFFICES ASSUME wrong # {}
               PROVE  FALSE
  BY DEF here, there
<1>5. wrong \in SUBSET Nat
  BY <1>1
<1>6. PICK i \in wrong : \A j \in wrong : i <= j
  BY <1>4, <1>5, LeastPlace
<1>7. i \in start .. n
  <2>1. i \in start - 1 .. n
    BY <1>6
  <2>2. i # start - 1
    <3>1. o + (start - 1) = (o + start) - 1
      BY <1>1
    <3>2. QED
      BY <1>2, <1>3, <1>6, <3>1
  <2>3. QED
    BY <1>1, <2>1, <2>2
<1>8. i - 1 \notin wrong /\ i - 1 \in start - 1 .. n
  BY <1>1, <1>6, <1>7
<1>9. there[o + (i - 1)] = here[i - 1]
  BY <1>8
<1>10. (o + i) - 1 = o + (i - 1) /\ o + i \in o + start .. Len(whole) /\ i \in 1 .. n
  BY <1>1, <1>7
<1>11. there[o + i] = next_char_state(there[(o + i) - 1], whole[o + i]) /\ whole[o + i] = text[i]
  BY <1>3, <1>10
<1>12. here[i] = next_char_state(here[i - 1], text[i])
  BY <1>2, <1>7
<1>13. there[o + i] = here[i]
  BY <1>9, <1>10, <1>11, <1>12
<1>14. QED
  BY <1>6, <1>13

\* Its blocks end where they end on their own.
LEMMA SameEnd ==
  ASSUME NEW text \in Texts, NEW whole \in Texts, NEW o \in Nat, o + Len(text) <= Len(whole),
         \A i \in 1 .. Len(text) : whole[o + i] = text[i],
         NEW start \in 1 .. Len(text), BlockEnd(text, start) # 0
  PROVE  BlockEnd(text, start) \in start .. Len(text)
         /\ BlockEnd(whole, o + start) = o + BlockEnd(text, start)
<1> DEFINE n == Len(text)
           here == Scan(text, start)
           there == Scan(whole, o + start)
           ends == {i \in start .. n : here[i].depth = 0}
           others == {i \in o + start .. Len(whole) : there[i].depth = 0}
           end == Earliest(ends)
<1>1. n \in Nat /\ start \in Nat \ {0} /\ Len(whole) \in Nat /\ n <= Len(whole) - o
  BY DEF Texts
<1>2. \A i \in start .. n : there[o + i] = here[i]
  <2>1. \A i \in start - 1 .. n : there[o + i] = here[i]
    BY SameScan
  <2>2. QED
    BY <1>1, <2>1
<1>3. BlockEnd(text, start) = end /\ BlockEnd(whole, o + start) = Earliest(others)
  BY DEF BlockEnd
<1> HIDE DEF here, there, n
<1>4. ends \in SUBSET Nat /\ others \in SUBSET Nat
  BY <1>1
<1>5. end \in ends /\ \A i \in ends : end <= i
  <2> HIDE DEF ends
  <2>1. QED
    BY <1>3, <1>4, EarliestPlace
<1> HIDE DEF end
<1>6. o + end \in others
  BY <1>1, <1>2, <1>5
<1>7. \A i \in others : o + end <= i
  <2> SUFFICES ASSUME NEW i \in others, i < o + end
               PROVE  FALSE
    BY <1>1, <1>5
  <2>1. i - o \in start .. n /\ i - o < end /\ o + (i - o) = i
    BY <1>1, <1>5
  <2>2. here[i - o].depth = 0
    BY <1>2, <2>1
  <2>3. i - o \in ends
    BY <2>1, <2>2
  <2>4. QED
    BY <1>1, <1>5, <2>1, <2>3
<1>8. Earliest(others) = o + end
  <2> HIDE DEF others
  <2>1. QED
    BY <1>4, <1>6, <1>7, EarliestIs
<1>9. QED
  BY <1>3, <1>5, <1>8 DEF n
-----------------------------------------------------------------------------
(* Extracting JSON: strings and values. *)

\* A backslash turns the parity of the backslashes before it.
LEMMA Parity ==
  ASSUME NEW text \in Texts, NEW first \in Nat \ {0}, NEW i \in Nat, first <= i, i <= Len(text)
  PROVE  /\ ~Escaped(text, first, first)
         /\ Escaped(text, first, i + 1) <=> text[i] = Backslash /\ ~Escaped(text, first, i)
<1> DEFINE Run(m) == {k \in first .. m - 1 : \A j \in k .. m - 1 : text[j] = Backslash}
<1>1. \A m \in Nat : IsFiniteSet(Run(m)) /\ Cardinality(Run(m)) \in Nat
  <2> SUFFICES ASSUME NEW m \in Nat
               PROVE  IsFiniteSet(Run(m)) /\ Cardinality(Run(m)) \in Nat
    OBVIOUS
  <2>1. IsFiniteSet(first .. m - 1)
    BY FS_Interval
  <2>2. IsFiniteSet(Run(m))
    BY <2>1, FS_Subset
  <2>3. QED
    BY <2>2, FS_CardinalityType
<1>2. Cardinality(Run(first)) = 0
  <2>1. Run(first) = {}
    OBVIOUS
  <2>2. QED
    BY <2>1, FS_EmptySet
<1>3. ASSUME text[i] # Backslash
      PROVE  Cardinality(Run(i + 1)) = 0
  <2>1. Run(i + 1) = {}
    BY <1>3
  <2>2. QED
    BY <2>1, FS_EmptySet
<1>4. ASSUME text[i] = Backslash
      PROVE  Cardinality(Run(i + 1)) = Cardinality(Run(i)) + 1
  <2>1. \A k : k \in Run(i + 1) <=> k \in Run(i) \cup {i}
    <3>1. \A k \in first .. i : k \in Run(i + 1) <=> (k = i \/ k \in Run(i))
      <4> SUFFICES ASSUME NEW k \in first .. i
                   PROVE  k \in Run(i + 1) <=> (k = i \/ k \in Run(i))
        OBVIOUS
      <4>1. \A j \in k .. (i + 1) - 1 : j = i \/ j \in k .. i - 1
        OBVIOUS
      <4>2. \A j \in k .. i - 1 : j \in k .. (i + 1) - 1
        OBVIOUS
      <4>3. k \in first .. (i + 1) - 1 /\ (k # i => k \in first .. i - 1)
        OBVIOUS
      <4>4. QED
        BY <1>4, <4>1, <4>2, <4>3
    <3>2. QED
      BY <3>1
  <2>2. Run(i + 1) = Run(i) \cup {i} /\ i \notin Run(i)
    BY <2>1
  <2> HIDE DEF Run
  <2>3. QED
    BY <1>1, <2>2, FS_AddElement
<1>5. /\ Escaped(text, first, first) <=> Cardinality(Run(first)) % 2 = 1
      /\ Escaped(text, first, i) <=> Cardinality(Run(i)) % 2 = 1
      /\ Escaped(text, first, i + 1) <=> Cardinality(Run(i + 1)) % 2 = 1
  BY DEF Escaped
<1> HIDE DEF Run
<1>6. Cardinality(Run(i)) \in Nat
  BY <1>1
<1>7. QED
  BY <1>2, <1>3, <1>4, <1>5, <1>6

\* A string hides its characters from the scan, and no more than them.
LEMMA StringScanned ==
  ASSUME NEW text \in Texts, NEW i \in 1 .. Len(text), NEW j \in 1 .. Len(text), NEW d \in Int,
         IsString(text, i, j), Scan(text, 1)[i - 1] = Level(d)
  PROVE  /\ \A k \in i .. j : Scan(text, 1)[k].depth = d
         /\ Scan(text, 1)[j] = Level(d)
<1> DEFINE scan == Scan(text, 1)
           Inside(k) == [in_string |-> TRUE, escape_next |-> Escaped(text, i + 1, k + 1), depth |-> d]
           wrong == {k \in i .. j - 1 : scan[k] # Inside(k)}
<1>1. Len(text) \in Nat /\ i \in Nat /\ j \in Nat /\ 1 <= i /\ i < j /\ j <= Len(text)
  BY DEF Texts, IsString
<1>2. \A k \in 1 .. Len(text) : scan[k] = next_char_state(scan[k - 1], text[k])
  BY <1>1, ScanRuns
<1>3. \A k \in 0 .. Len(text) : scan[k] \in ScanStates
  <2>1. 1 - 1 = 0 /\ 1 \in 1 .. Len(text)
    BY <1>1
  <2>2. QED
    BY <2>1, ScanType
<1>4. text[i] = Quote /\ text[j] = Quote
  BY DEF IsString
<1>5. \A k \in i + 1 .. j : text[k] = Quote => (Escaped(text, i + 1, k) <=> k < j)
  BY DEF IsString
<1>6. \A k \in i + 1 .. j : Escaped(text, i + 1, k + 1) <=> text[k] = Backslash /\ ~Escaped(text, i + 1, k)
  BY <1>1, Parity
<1>7. ~Escaped(text, i + 1, i + 1)
  <2>1. i + 1 \in Nat \ {0} /\ i + 1 <= Len(text)
    BY <1>1
  <2>2. QED
    BY <2>1, Parity
<1>8. Quote # Backslash /\ Quote \notin Openers /\ Quote \notin Closers
  BY DEF Quote, Backslash, Openers, Closers
<1>9. Level(d) \in ScanStates
  BY DEF Level, ScanStates
<1> HIDE DEF scan
<1>10. scan[i] = Inside(i)
  <2>1. scan[i] = next_char_state(Level(d), Quote)
    BY <1>1, <1>2, <1>4 DEF scan
  <2>2. Delta(Quote) = 0
    BY <1>8 DEF Delta
  <2>3. ~Level(d).escape_next /\ ~Level(d).in_string /\ Level(d).depth = d
    BY DEF Level
  <2>4. scan[i] = [in_string |-> TRUE, escape_next |-> FALSE, depth |-> d + 0]
    BY <1>9, <2>1, <2>2, <2>3, NextState
  <2>5. Escaped(text, i + 1, i + 1) = FALSE /\ d + 0 = d
    BY <1>7 DEF Escaped
  <2>6. QED
    BY <2>4, <2>5
<1>11. ASSUME NEW k \in i + 1 .. j, scan[k - 1] = Inside(k - 1)
       PROVE  scan[k] = IF k = j THEN Level(d) ELSE Inside(k)
  <2>1. k \in Nat /\ k \in 1 .. Len(text) /\ k - 1 \in 0 .. Len(text) /\ (k - 1) + 1 = k
    BY <1>1
  <2>2. scan[k] = next_char_state(scan[k - 1], text[k]) /\ scan[k - 1] \in ScanStates
    BY <1>2, <1>3, <2>1
  <2>3. /\ scan[k - 1].in_string /\ scan[k - 1].depth = d
        /\ scan[k - 1].escape_next <=> Escaped(text, i + 1, k)
    BY <1>11, <2>1
  <2>4. CASE Escaped(text, i + 1, k)
    <3>1. k # j /\ ~Escaped(text, i + 1, k + 1)
      BY <1>4, <1>5, <1>6, <2>4
    <3>2. scan[k] = [scan[k - 1] EXCEPT !.escape_next = FALSE]
      BY <2>2, <2>3, <2>4, NextState
    <3>3. PICK e : scan[k - 1] = [in_string |-> TRUE, escape_next |-> e, depth |-> d]
      BY <1>11
    <3>4. scan[k] = [in_string |-> TRUE, escape_next |-> FALSE, depth |-> d]
      <4>1. scan[k] = [[in_string |-> TRUE, escape_next |-> e, depth |-> d] EXCEPT !.escape_next = FALSE]
        BY <3>2, <3>3
      <4>2. QED
        BY <4>1
    <3>5. Escaped(text, i + 1, k + 1) = FALSE
      BY <3>1 DEF Escaped
    <3>6. QED
      BY <3>1, <3>4, <3>5
  <2>5. CASE ~Escaped(text, i + 1, k)
    <3>1. scan[k] = [in_string |-> text[k] # Quote, escape_next |-> text[k] = Backslash, depth |-> d]
      BY <2>2, <2>3, <2>5, NextState
    <3>2. text[k] = Quote <=> k = j
      BY <1>1, <1>4, <1>5, <2>1, <2>5
    <3>3. Escaped(text, i + 1, k + 1) <=> text[k] = Backslash
      BY <1>6, <2>5
    <3>4. CASE k = j
      BY <1>8, <3>1, <3>2, <3>4 DEF Level
    <3>5. CASE k # j
      BY <3>1, <3>2, <3>3, <3>5 DEF Escaped
    <3>6. QED
      BY <3>4, <3>5
  <2>6. QED
    BY <2>4, <2>5
<1> HIDE DEF Inside
<1>12. wrong = {}
  <2>1. SUFFICES ASSUME wrong # {}
                 PROVE  FALSE
    OBVIOUS
  <2>2. wrong \in SUBSET Nat
    BY <1>1
  <2>3. PICK k \in wrong : \A m \in wrong : k <= m
    BY <2>1, <2>2, LeastPlace
  <2>4. k \in i + 1 .. j /\ k # j /\ k - 1 \in i .. j - 1 /\ k - 1 \notin wrong
    BY <1>1, <1>10, <2>3
  <2>5. scan[k - 1] = Inside(k - 1)
    BY <2>4
  <2>6. scan[k] = Inside(k)
    BY <1>11, <2>4, <2>5
  <2>7. QED
    BY <2>3, <2>6
<1>13. \A k \in i .. j - 1 : scan[k] = Inside(k)
  BY <1>12
<1>14. scan[j] = Level(d)
  <2>1. j \in i + 1 .. j /\ j - 1 \in i .. j - 1
    BY <1>1
  <2>2. QED
    BY <1>11, <1>13, <2>1
<1>15. \A k \in i .. j : scan[k].depth = d
  <2> SUFFICES ASSUME NEW k \in i .. j
               PROVE  scan[k].depth = d
    OBVIOUS
  <2>1. CASE k = j
    BY <1>14, <2>1 DEF Level
  <2>2. CASE k # j
    <3>1. scan[k] = Inside(k)
      BY <1>1, <1>13, <2>2
    <3>2. QED
      BY <3>1 DEF Inside
  <2>3. QED
    BY <2>1, <2>2
<1>16. QED
  BY <1>14, <1>15 DEF scan
-----------------------------------------------------------------------------
\* Joined texts and pieces of texts, place by place.
LEMMA JoinedSeq ==
  ASSUME NEW S, NEW first \in Seq(S), NEW second \in Seq(S)
  PROVE  /\ first \o second \in Seq(S) /\ Len(first \o second) = Len(first) + Len(second)
         /\ \A i \in 1 .. Len(first) : (first \o second)[i] = first[i]
         /\ \A i \in 1 .. Len(second) : (first \o second)[Len(first) + i] = second[i]
OBVIOUS

LEMMA Joined ==
  ASSUME NEW first \in Texts, NEW second \in Texts
  PROVE  /\ first \o second \in Texts /\ Len(first \o second) = Len(first) + Len(second)
         /\ \A i \in 1 .. Len(first) : (first \o second)[i] = first[i]
         /\ \A i \in 1 .. Len(second) : (first \o second)[Len(first) + i] = second[i]
BY DEF Texts

LEMMA SubText ==
  ASSUME NEW text \in Texts, NEW first \in 1 .. Len(text), NEW last \in first .. Len(text)
  PROVE  /\ SubSeq(text, first, last) \in Texts
         /\ Len(SubSeq(text, first, last)) = last - first + 1
         /\ \A i \in 1 .. last - first + 1 : SubSeq(text, first, last)[i] = text[first + i - 1]
BY DEF Texts

LEMMA SameText ==
  ASSUME NEW text \in Texts, NEW other \in Texts, Len(text) = Len(other),
         \A i \in 1 .. Len(text) : text[i] = other[i]
  PROVE  text = other
BY DEF Texts

LEMMA TextFacts ==
  ASSUME NEW text \in Texts
  PROVE  Len(text) \in Nat /\ \A i \in 1 .. Len(text) : i \in Nat \ {0}
BY DEF Texts

\* What json.loads takes for a value, from the values inside it.
LEMMA ValuesNest ==
  ASSUME NEW text \in Texts, NEW i \in 1 .. Len(text), NEW j \in 1 .. Len(text)
  PROVE  Values(text)[i][j] <=>
            \/ i = j /\ text[i] = "1"
            \/ IsString(text, i, j)
            \/ /\ i < j /\ text[i] = "[" /\ text[j] = "]"
               /\ j = i + 1 \/ Values(text)[i + 1][j - 1]
            \/ /\ i < j /\ text[i] = "{" /\ text[j] = "}"
               /\ \/ j = i + 1
                  \/ \E k \in i + 2 .. j - 3 :
                         /\ IsString(text, i + 1, k) /\ text[k + 1] = ":"
                         /\ Values(text)[k + 2][j - 1]
<1> DEFINE n == Len(text)
           Rule(f, a, b) ==
                \/ a = b /\ text[a] = "1"
                \/ IsString(text, a, b)
                \/ /\ a < b /\ text[a] = "[" /\ text[b] = "]"
                   /\ b = a + 1 \/ f[a + 1][b - 1]
                \/ /\ a < b /\ text[a] = "{" /\ text[b] = "}"
                   /\ \/ b = a + 1
                      \/ \E k \in a + 2 .. b - 3 :
                             /\ IsString(text, a + 1, k) /\ text[k + 1] = ":"
                             /\ f[k + 2][b - 1]
           Row(f, a) == [b \in 1 .. n |-> Rule(f, a, b)]
           Below(m) == \E f : /\ f = [a \in 1 .. n |-> f[a]]
                              /\ \A a \in m .. n : f[a] = Row(f, a)
           starts == {m \in 1 .. n + 1 : Below(m)}
<1>1. n \in Nat
  BY TextFacts
<1> HIDE DEF n
<1>2. ASSUME NEW f, NEW g, NEW a \in 1 .. n, \A b \in a + 1 .. n : f[b] = g[b]
      PROVE  Row(f, a) = Row(g, a)
  <2> SUFFICES ASSUME NEW b \in 1 .. n
               PROVE  Rule(f, a, b) = Rule(g, a, b)
    BY Zenon
  <2>1. a < b => f[a + 1] = g[a + 1]
    BY <1>1, <1>2
  <2>2. \A k \in a + 2 .. b - 3 : f[k + 2] = g[k + 2]
    BY <1>1, <1>2
  <2>3. QED
    BY <2>1, <2>2
<1> HIDE DEF Row
<1>3. n + 1 \in starts
  <2> DEFINE f == [a \in 1 .. n |-> 0]
  <2>1. f = [a \in 1 .. n |-> f[a]] /\ \A a \in n + 1 .. n : f[a] = Row(f, a)
    BY <1>1
  <2>2. QED
    BY <1>1, <2>1
<1>4. ASSUME NEW m \in 1 .. n, Below(m + 1)
      PROVE  Below(m)
  <2>1. PICK f : f = [a \in 1 .. n |-> f[a]] /\ \A a \in m + 1 .. n : f[a] = Row(f, a)
    BY <1>4
  <2> DEFINE g == [a \in 1 .. n |-> IF a # m THEN f[a] ELSE Row(f, m)]
  <2>2. (\A a \in 1 .. n : a # m => g[a] = f[a]) /\ g[m] = Row(f, m)
    OBVIOUS
  <2>3. g = [a \in 1 .. n |-> g[a]]
    OBVIOUS
  <2> HIDE DEF g
  <2>4. ASSUME NEW a \in m .. n
        PROVE  g[a] = Row(g, a)
    <3>1. a \in 1 .. n /\ \A b \in a + 1 .. n : f[b] = g[b]
      BY <1>1, <2>2
    <3>2. Row(f, a) = Row(g, a)
      BY <1>2, <3>1
    <3>3. CASE a = m
      BY <2>2, <3>2, <3>3
    <3>4. CASE a # m
      <4>1. a \in m + 1 .. n
        BY <1>1, <3>4
      <4>2. QED
        BY <2>1, <2>2, <3>1, <3>2, <3>4, <4>1
    <3>5. QED
      BY <3>3, <3>4
  <2>5. QED
    BY <2>3, <2>4
<1>5. 1 \in starts
  <2> HIDE DEF Below
  <2>1. PICK m \in starts : \A k \in starts : m <= k
    <3>1. starts \in SUBSET Nat /\ starts # {}
      BY <1>1, <1>3
    <3> HIDE DEF starts
    <3>2. QED
      BY <3>1, LeastPlace
  <2>2. CASE m = 1
    BY <2>1, <2>2
  <2>3. CASE m # 1
    <3>1. m - 1 \in 1 .. n /\ (m - 1) + 1 = m /\ m - 1 < m
      BY <1>1, <2>1, <2>3
    <3>2. m - 1 \in starts
      BY <1>1, <1>4, <2>1, <3>1
    <3>3. QED
      BY <1>1, <2>1, <3>1, <3>2
  <2>4. QED
    BY <2>2, <2>3
<1>6. PICK f : f = [a \in 1 .. n |-> f[a]] /\ \A a \in 1 .. n : f[a] = Row(f, a)
  BY <1>5
<1>7. f = [a \in 1 .. n |-> Row(f, a)]
  BY <1>6
<1>8. Values(text) = [a \in 1 .. n |-> Row(Values(text), a)]
  BY <1>7 DEF Values, Row, n
<1>9. Values(text)[i][j] = Rule(Values(text), i, j)
  <2> DEFINE values == Values(text)
  <2> HIDE DEF values
  <2>1. values = [a \in 1 .. n |-> Row(values, a)]
    BY <1>8 DEF values
  <2>2. values[i] = Row(values, i)
    BY <2>1 DEF n
  <2>3. values[i][j] = Rule(values, i, j)
    BY <2>2 DEF Row, n
  <2>4. QED
    BY <2>3 DEF values
<1>10. QED
  BY <1>9
\* A value leaves the scan at its level, and never takes it below; after an opener
\* it takes it back only at its end.
LEMMA ValueScanned ==
  ASSUME NEW text \in Texts, NEW i \in 1 .. Len(text), NEW j \in 1 .. Len(text), NEW d \in Int,
         Values(text)[i][j], Scan(text, 1)[i - 1] = Level(d)
  PROVE  /\ i <= j /\ Scan(text, 1)[j] = Level(d)
         /\ \A k \in i .. j : Scan(text, 1)[k].depth >= d
         /\ text[i] \in Openers => \A k \in i .. j - 1 : Scan(text, 1)[k].depth > d
<1> DEFINE n == Len(text)
           scan == Scan(text, 1)
           Fine(a, b, e) ==
                /\ a <= b /\ scan[b] = Level(e)
                /\ \A k \in a .. b : scan[k].depth >= e
                /\ text[a] \in Openers => \A k \in a .. b - 1 : scan[k].depth > e
           Good(a) == \A b \in 1 .. n, e \in Int :
                          Values(text)[a][b] /\ scan[a - 1] = Level(e) => Fine(a, b, e)
           fit == {m \in 1 .. n + 1 : \A a \in m .. n : Good(a)}
<1>1. n \in Nat
  BY TextFacts
<1>2. \A k \in 1 .. n : scan[k] = next_char_state(scan[k - 1], text[k])
  <2>1. 1 \in 1 .. Len(text)
    BY <1>1
  <2>2. QED
    BY <2>1, ScanRuns
<1>3. \A e \in Int : Level(e) \in ScanStates /\ Level(e).depth = e /\ ~Level(e).in_string /\ ~Level(e).escape_next
  BY DEF Level, ScanStates
<1>4. ASSUME NEW k \in 1 .. n, NEW e \in Int, scan[k - 1] = Level(e)
      PROVE  /\ text[k] \in Openers => scan[k] = Level(e + 1)
             /\ text[k] \in Closers => scan[k] = Level(e - 1)
             /\ text[k] \in {"1", ":"} => scan[k] = Level(e)
  <2>1. scan[k] = [in_string |-> text[k] = Quote, escape_next |-> FALSE, depth |-> e + Delta(text[k])]
    <3> DEFINE level == Level(e)
               char == text[k]
    <3>1. level \in ScanStates /\ level.depth = e /\ ~level.in_string /\ ~level.escape_next
      BY <1>3
    <3>2. scan[k] = next_char_state(level, char)
      BY <1>2, <1>4
    <3> HIDE DEF level, scan, char
    <3>3. next_char_state(level, char) =
              [in_string |-> char = Quote, escape_next |-> FALSE,
               depth |-> level.depth + Delta(char)]
      BY <3>1, NextState
    <3>4. QED
      BY <3>1, <3>2, <3>3 DEF char
  <2> HIDE DEF scan
  <2>2. text[k] \in Openers => Delta(text[k]) = 1 /\ text[k] # Quote
    BY DEF Delta, Openers, Quote
  <2>3. text[k] \in Closers => Delta(text[k]) = -1 /\ text[k] # Quote
    BY DEF Delta, Openers, Closers, Quote
  <2>4. text[k] \in {"1", ":"} => Delta(text[k]) = 0 /\ text[k] # Quote
    BY DEF Delta, Openers, Closers, Quote
  <2>5. text[k] \in Openers => scan[k] = Level(e + 1)
    BY <2>1, <2>2 DEF Level
  <2>6. text[k] \in Closers => scan[k] = Level(e - 1)
    <3>1. e + (-1) = e - 1
      OBVIOUS
    <3>2. QED
      BY <2>1, <2>3, <3>1 DEF Level
  <2>7. text[k] \in {"1", ":"} => scan[k] = Level(e)
    <3>1. e + 0 = e
      OBVIOUS
    <3>2. QED
      BY <2>1, <2>4, <3>1 DEF Level
  <2>8. QED
    BY <2>5, <2>6, <2>7
<1>4a. ASSUME NEW a \in 1 .. n, NEW b \in 1 .. n, NEW e \in Int,
              IsString(text, a, b), scan[a - 1] = Level(e)
       PROVE  (\A k \in a .. b : scan[k].depth = e) /\ scan[b] = Level(e)
  BY <1>4a, StringScanned
<1> HIDE DEF n, scan
<1>5. ASSUME NEW a \in 1 .. n, \A b \in a + 1 .. n : Good(b), NEW b \in 1 .. n, NEW e \in Int,
             Values(text)[a][b], scan[a - 1] = Level(e)
      PROVE  Fine(a, b, e)
  <2>1. CASE a = b /\ text[a] = "1"
    <3>1. scan[b] = Level(e) /\ text[a] \notin Openers
      BY <1>4, <1>5, <2>1 DEF Openers
    <3>2. \A k \in a .. b : scan[k].depth >= e
      BY <1>1, <1>3, <2>1, <3>1
    <3>3. QED
      BY <1>1, <2>1, <3>1, <3>2
  <2>2. CASE IsString(text, a, b)
    <3>1. (\A k \in a .. b : scan[k].depth = e) /\ scan[b] = Level(e)
      BY <1>5, <2>2, <1>4a
    <3>2. a < b /\ text[a] \notin Openers
      BY <2>2 DEF IsString, Openers, Quote
    <3>3. QED
      BY <1>1, <3>1, <3>2
  <2>3. ASSUME a < b, text[a] \in Openers, text[b] \in Closers, b # a + 1,
               scan[b - 1] = Level(e + 1), \A k \in a + 1 .. b - 1 : scan[k].depth >= e + 1
        PROVE  Fine(a, b, e)
    <3>1. scan[a] = Level(e + 1)
      BY <1>4, <1>5, <2>3
    <3>2. scan[b] = Level(e)
      <4> DEFINE up == e + 1
      <4>1. up \in Int /\ up - 1 = e /\ scan[b - 1] = Level(up)
        BY <2>3
      <4> HIDE DEF up
      <4>2. QED
        BY <1>4, <2>3, <4>1
    <3>3. \A k \in a .. b - 1 : scan[k].depth > e
      <4> SUFFICES ASSUME NEW k \in a .. b - 1
                   PROVE  scan[k].depth > e
        OBVIOUS
      <4>1. CASE k = a
        BY <1>3, <3>1, <4>1
      <4>2. CASE k # a
        <5>1. k \in a + 1 .. b - 1 /\ k \in 1 .. n
          BY <1>1, <4>2
        <5>2. scan[k].depth >= e + 1 /\ scan[k].depth \in Int
          <6>1. 1 \in 1 .. Len(text) /\ k \in 1 - 1 .. Len(text)
            BY <1>1, <5>1 DEF n
          <6>2. scan[k] \in ScanStates
            BY <6>1, ScanType DEF scan
          <6>3. QED
            BY <2>3, <5>1, <6>2 DEF ScanStates
        <5>3. QED
          BY <5>2
      <4>3. QED
        BY <4>1, <4>2
    <3>4. \A k \in a .. b : scan[k].depth >= e
      <4> SUFFICES ASSUME NEW k \in a .. b
                   PROVE  scan[k].depth >= e
        OBVIOUS
      <4>1. CASE k = b
        BY <1>3, <3>2, <4>1
      <4>2. CASE k # b
        <5>1. k \in a .. b - 1 /\ k \in 1 .. n
          BY <1>1, <4>2
        <5>2. scan[k].depth \in Int
          <6>1. 1 \in 1 .. Len(text) /\ k \in 1 - 1 .. Len(text)
            BY <1>1, <5>1 DEF n
          <6>2. scan[k] \in ScanStates
            BY <6>1, ScanType DEF scan
          <6>3. QED
            BY <6>2 DEF ScanStates
        <5>3. scan[k].depth > e
          BY <3>3, <5>1
        <5>4. QED
          BY <5>2, <5>3
      <4>3. QED
        BY <4>1, <4>2
    <3>5. QED
      BY <1>1, <2>3, <3>2, <3>3, <3>4
  <2>4. ASSUME a < b, text[a] \in Openers, text[b] \in Closers, b = a + 1
        PROVE  Fine(a, b, e)
    <3>1. scan[a] = Level(e + 1)
      BY <1>4, <1>5, <2>4
    <3>2. scan[b] = Level(e)
      <4>1. b - 1 = a /\ (e + 1) - 1 = e
        BY <2>4
      <4>2. scan[b - 1] = Level(e + 1) /\ e + 1 \in Int
        BY <3>1, <4>1
      <4>3. scan[b] = Level((e + 1) - 1)
        BY <1>4, <2>4, <4>2
      <4>4. QED
        BY <4>1, <4>3
    <3>3. scan[a].depth > e /\ scan[b].depth >= e /\ scan[a].depth >= e
      BY <1>3, <3>1, <3>2
    <3>4. \A k \in a .. b : k = a \/ k = b
      BY <1>1, <2>4
    <3>5. \A k \in a .. b - 1 : k = a
      BY <1>1, <2>4
    <3>6. \A k \in a .. b : scan[k].depth >= e
      BY <3>3, <3>4
    <3>7. \A k \in a .. b - 1 : scan[k].depth > e
      BY <3>3, <3>5
    <3>8. QED
      BY <2>4, <3>2, <3>6, <3>7
  <2>5. CASE a < b /\ text[a] = "[" /\ text[b] = "]" /\ Values(text)[a + 1][b - 1] /\ b # a + 1
    <3>1. a + 1 \in a + 1 .. n /\ b - 1 \in 1 .. n /\ (a + 1) - 1 = a /\ e + 1 \in Int
      BY <1>1, <2>5
    <3>2. text[a] \in Openers /\ text[b] \in Closers
      BY <2>5 DEF Openers, Closers
    <3>3. scan[(a + 1) - 1] = Level(e + 1)
      BY <1>4, <1>5, <3>1, <3>2
    <3>4. Fine(a + 1, b - 1, e + 1)
      BY <1>5, <2>5, <3>1, <3>3
    <3>5. QED
      BY <2>3, <2>5, <3>2, <3>4
  <2>6. ASSUME a < b, text[a] = "{", text[b] = "}",
               NEW k \in a + 2 .. b - 3, IsString(text, a + 1, k), text[k + 1] = ":",
               Values(text)[k + 2][b - 1]
        PROVE  Fine(a, b, e)
    <3>1. /\ a + 1 \in 1 .. n /\ k \in 1 .. n /\ k + 1 \in 1 .. n /\ k + 2 \in a + 1 .. n
          /\ b - 1 \in 1 .. n /\ (a + 1) - 1 = a /\ (k + 1) - 1 = k /\ (k + 2) - 1 = k + 1
          /\ e + 1 \in Int /\ b # a + 1
      <4>1. a \in Nat /\ b \in Nat /\ 1 <= a /\ b <= n
        BY <1>1
      <4>2. k \in Nat /\ a + 2 <= k /\ k <= b - 3
        BY <4>1
      <4>3. QED
        BY <1>1, <4>1, <4>2
    <3>2. text[a] \in Openers /\ text[b] \in Closers
      BY <2>6 DEF Openers, Closers
    <3>3. scan[(a + 1) - 1] = Level(e + 1)
      BY <1>4, <1>5, <3>1, <3>2
    <3>4. (\A m \in a + 1 .. k : scan[m].depth = e + 1) /\ scan[k] = Level(e + 1)
      <4> DEFINE first == a + 1
                 up == e + 1
      <4>1. /\ first \in 1 .. n /\ k \in 1 .. n /\ up \in Int
            /\ IsString(text, first, k) /\ scan[first - 1] = Level(up)
        BY <2>6, <3>1, <3>3
      <4> HIDE DEF first, up
      <4>2. (\A m \in first .. k : scan[m].depth = up) /\ scan[k] = Level(up)
        BY <1>4a, <4>1, Zenon
      <4>3. QED
        BY <4>2 DEF first, up
    <3>5. scan[k + 1] = Level(e + 1)
      <4> DEFINE next == k + 1
                 up == e + 1
      <4>1. next \in 1 .. n /\ up \in Int /\ scan[next - 1] = Level(up) /\ text[next] \in {"1", ":"}
        BY <2>6, <3>1, <3>4
      <4> HIDE DEF next, up
      <4>2. scan[next] = Level(up)
        BY <1>4, <4>1
      <4>3. QED
        BY <4>2 DEF next, up
    <3>6. Fine(k + 2, b - 1, e + 1)
      BY <1>5, <2>6, <3>1, <3>5
    <3>7. \A m \in a + 1 .. b - 1 : scan[m].depth >= e + 1
      <4> SUFFICES ASSUME NEW m \in a + 1 .. b - 1
                   PROVE  scan[m].depth >= e + 1
        OBVIOUS
      <4>1. m \in a + 1 .. k \/ m = k + 1 \/ m \in k + 2 .. b - 1
        BY <1>1
      <4>2. CASE m \in a + 1 .. k
        <5>1. scan[m].depth = e + 1
          BY <3>4, <4>2
        <5>2. QED
          BY <5>1
      <4>3. CASE m = k + 1
        BY <1>3, <3>1, <3>5, <4>3
      <4>4. CASE m \in k + 2 .. b - 1
        BY <3>6, <4>4
      <4>5. QED
        BY <4>1, <4>2, <4>3, <4>4
    <3>8. QED
      BY <2>3, <2>6, <3>1, <3>2, <3>6, <3>7
  <2>7. \/ a = b /\ text[a] = "1"
        \/ IsString(text, a, b)
        \/ /\ a < b /\ text[a] = "[" /\ text[b] = "]"
           /\ b = a + 1 \/ Values(text)[a + 1][b - 1]
        \/ /\ a < b /\ text[a] = "{" /\ text[b] = "}"
           /\ \/ b = a + 1
              \/ \E k \in a + 2 .. b - 3 :
                     /\ IsString(text, a + 1, k) /\ text[k + 1] = ":"
                     /\ Values(text)[k + 2][b - 1]
    BY <1>5, ValuesNest DEF n
  <2> HIDE DEF Fine
  <2>8. CASE /\ a < b /\ b = a + 1
             /\ (text[a] = "[" /\ text[b] = "]") \/ (text[a] = "{" /\ text[b] = "}")
    BY <2>4, <2>8 DEF Openers, Closers
  <2>9. QED
    BY <2>1, <2>2, <2>5, <2>6, <2>7, <2>8
<1> HIDE DEF Fine
<1>6. n + 1 \in fit
  BY <1>1
<1>7. 1 \in fit
  <2>1. PICK m \in fit : \A k \in fit : m <= k
    <3>1. fit \in SUBSET Nat /\ fit # {}
      BY <1>1, <1>6
    <3> HIDE DEF fit
    <3>2. QED
      BY <3>1, LeastPlace
  <2>2. CASE m = 1
    BY <2>1, <2>2
  <2>3. CASE m # 1
    <3>1. m - 1 \in 1 .. n /\ m - 1 < m /\ \A a \in m .. n : Good(a)
      BY <1>1, <2>1, <2>3
    <3>2. Good(m - 1)
      <4>1. \A b \in (m - 1) + 1 .. n : Good(b)
        BY <1>1, <3>1
      <4>2. QED
        BY <1>5, <3>1, <4>1
    <3> HIDE DEF Good
    <3>3. \A a \in m - 1 .. n : a = m - 1 \/ a \in m .. n
      BY <1>1, <3>1
    <3>4. \A a \in m - 1 .. n : Good(a)
      BY <3>1, <3>2, <3>3
    <3>5. m - 1 \in fit
      BY <1>1, <3>1, <3>4
    <3>6. QED
      BY <1>1, <2>1, <3>1, <3>5
  <2>4. QED
    BY <2>2, <2>3
<1>8. Fine(i, j, d)
  BY <1>7 DEF n, scan
<1>9. /\ i <= j /\ scan[j] = Level(d)
      /\ \A k \in i .. j : scan[k].depth >= d
      /\ text[i] \in Openers => \A k \in i .. j - 1 : scan[k].depth > d
  BY <1>8 DEF Fine
<1>10. QED
  BY <1>9 DEF scan

\* The block of a text that parses is the whole text.
LEMMA WholeBlock ==
  ASSUME NEW text \in Texts, loads(text)
  PROVE  Len(text) \in Nat \ {0} /\ text[1] \in Openers /\ BlockEnd(text, 1) = Len(text)
<1> DEFINE n == Len(text)
           scan == Scan(text, 1)
           ends == {i \in 1 .. n : scan[i].depth = 0}
<1>1. n \in Nat \ {0} /\ text[1] \in Openers /\ Values(text)[1][n]
  BY DEF loads, Texts
<1>2. scan[1 - 1] = Level(0) /\ 1 \in 1 .. n /\ n \in 1 .. n
  BY <1>1, ScanRuns DEF Outside, Level
<1>3. scan[n] = Level(0) /\ \A k \in 1 .. n - 1 : scan[k].depth > 0
  BY <1>1, <1>2, ValueScanned
<1>4. BlockEnd(text, 1) = Earliest(ends)
  BY DEF BlockEnd
<1> HIDE DEF scan, n
<1>5. n \in ends
  BY <1>2, <1>3 DEF Level
<1>6. \A i \in ends : n <= i
  <2> SUFFICES ASSUME NEW i \in ends, ~(n <= i)
               PROVE  FALSE
    OBVIOUS
  <2>1. i \in 1 .. n - 1 /\ scan[i].depth = 0
    BY <1>1
  <2>2. QED
    BY <1>3, <2>1
<1>7. ends \in SUBSET Nat
  BY <1>1
<1>8. Earliest(ends) = n
  <2> HIDE DEF ends
  <2>1. QED
    BY <1>5, <1>6, <1>7, EarliestIs
<1>9. QED
  BY <1>1, <1>4, <1>8 DEF n
-----------------------------------------------------------------------------
(* Extracting JSON: the first block that parses. *)

\* The opener that is found is the first one.
LEMMA NextOpener ==
  ASSUME NEW text \in Texts, NEW pos \in 1 .. Len(text) + 1
  PROVE  LET start == next_opener(text, pos) IN
         /\ start = 0 => \A i \in pos .. Len(text) : text[i] \notin Openers
         /\ start # 0 => /\ start \in pos .. Len(text) /\ text[start] \in Openers
                         /\ \A i \in pos .. start - 1 : text[i] \notin Openers
<1> DEFINE n == Len(text)
           places == {i \in pos .. n : text[i] \in Openers}
           start == Earliest(places)
<1>1. n \in Nat /\ next_opener(text, pos) = start
  BY TextFacts DEF next_opener
<1> HIDE DEF n
<1>2. places \in SUBSET Nat /\ 0 \notin places
  BY <1>1 DEF n
<1>3. /\ places = {} => start = 0
      /\ places # {} => start \in places /\ \A j \in places : start <= j
  <2> HIDE DEF places
  <2>1. QED
    BY <1>2, EarliestPlace
<1> HIDE DEF start
<1>4. CASE places = {}
  <2>1. start = 0 /\ \A i \in pos .. n : text[i] \notin Openers
    BY <1>3, <1>4
  <2>2. QED
    BY <1>1, <2>1 DEF n
<1>5. CASE places # {}
  <2>1. start \in places /\ start # 0
    BY <1>2, <1>3, <1>5
  <2>2. \A i \in pos .. start - 1 : text[i] \notin Openers
    <3> SUFFICES ASSUME NEW i \in pos .. start - 1, text[i] \in Openers
                 PROVE  FALSE
      OBVIOUS
    <3>1. pos \in Nat /\ start \in pos .. n
      BY <1>1, <2>1 DEF n
    <3>2. i \in pos .. n /\ i < start
      BY <1>1, <3>1
    <3>3. i \in places
      BY <3>2
    <3>4. start <= i
      BY <1>3, <1>5, <3>3
    <3>5. QED
      BY <1>1, <3>1, <3>2, <3>4
  <2>3. QED
    BY <1>1, <2>1, <2>2 DEF n
<1>6. QED
  BY <1>4, <1>5

\* The end of a block is the first place where the depth is zero.
LEMMA BlockEndPlace ==
  ASSUME NEW text \in Texts, NEW start \in 1 .. Len(text)
  PROVE  BlockEnd(text, start) \in {0} \cup start .. Len(text)
<1> DEFINE ends == {i \in start .. Len(text) : Scan(text, start)[i].depth = 0}
<1>1. BlockEnd(text, start) = Earliest(ends) /\ ends \in SUBSET Nat /\ ends \subseteq start .. Len(text)
  BY TextFacts DEF BlockEnd
<1> HIDE DEF ends
<1>2. QED
  BY <1>1, EarliestPlace

\* The scan goes on after a block that does not parse.
LEMMA BalancedWalks ==
  ASSUME NEW text \in Texts, NEW pos \in 1 .. Len(text) + 1
  PROVE  extract_balanced(text)[pos] =
            LET start == next_opener(text, pos)
                end == BlockEnd(text, start)
                block == SubSeq(text, start, end)
            IN  IF start = 0 \/ end = 0 THEN <<>>
                ELSE IF loads(block) THEN block
                ELSE extract_balanced(text)[end + 1]
<1> DEFINE n == Len(text)
           start(i) == next_opener(text, i)
           end(i) == BlockEnd(text, start(i))
           block(i) == SubSeq(text, start(i), end(i))
           stops == {i \in 1 .. n + 1 : start(i) = 0 \/ end(i) = 0 \/ loads(block(i))}
           found == [i \in 1 .. n + 1 |-> IF start(i) = 0 \/ end(i) = 0 THEN <<>> ELSE block(i)]
           next == [i \in 1 .. n + 1 |-> end(i) + 1]
           Rule(f, i) == IF start(i) = 0 \/ end(i) = 0 THEN <<>>
                         ELSE IF loads(block(i)) THEN block(i) ELSE f[end(i) + 1]
<1>1. n \in Nat
  BY TextFacts
<1>2. \A i \in (1 .. n + 1) \ stops : next[i] \in i + 1 .. n + 1
  <2> SUFFICES ASSUME NEW i \in 1 .. n + 1, start(i) # 0, end(i) # 0
               PROVE  end(i) + 1 \in i + 1 .. n + 1
    OBVIOUS
  <2>1. start(i) \in i .. n
    BY NextOpener
  <2>2. start(i) \in 1 .. n
    BY <1>1, <2>1
  <2>3. end(i) \in start(i) .. n
    BY <2>2, BlockEndPlace
  <2> HIDE DEF start, end
  <2>4. QED
    BY <1>1, <2>1, <2>3
<1> HIDE DEF n, start, end, block
<1>3. found \in [1 .. n + 1 -> {found[i] : i \in 1 .. n + 1}]
  OBVIOUS
<1>4. PICK f \in [1 .. n + 1 -> {found[i] : i \in 1 .. n + 1}] :
          \A i \in 1 .. n + 1 : f[i] = IF i \in stops THEN found[i] ELSE f[next[i]]
  <2> HIDE DEF stops, found, next
  <2> DEFINE m == n + 1
             Finds == {found[i] : i \in 1 .. m}
  <2>1. m \in Nat /\ found \in [1 .. m -> Finds]
    BY <1>1, <1>3
  <2>2. \A i \in (1 .. m) \ stops : next[i] \in i + 1 .. m
    BY <1>2
  <2> HIDE DEF m, Finds
  <2>3. \E f \in [1 .. m -> Finds] : Walks(f, m, stops, found, next)
    BY <2>1, <2>2, Walk
  <2>4. QED
    BY <2>3 DEF m, Finds, Walks
<1>5. f = [i \in 1 .. n + 1 |-> Rule(f, i)]
  <2>1. \A i \in 1 .. n + 1 : (IF i \in stops THEN found[i] ELSE f[next[i]]) = Rule(f, i)
    OBVIOUS
  <2> HIDE DEF stops, found, next, Rule
  <2>2. \A i \in 1 .. n + 1 : f[i] = Rule(f, i)
    BY <1>4, <2>1
  <2>3. QED
    BY <1>4, <2>2
<1>6. extract_balanced(text) = [i \in 1 .. n + 1 |-> Rule(extract_balanced(text), i)]
  BY <1>5 DEF extract_balanced, n, start, end, block
<1>7. extract_balanced(text)[pos] = Rule(extract_balanced(text), pos)
  <2> DEFINE from == extract_balanced(text)
  <2> HIDE DEF from, Rule
  <2>1. from = [i \in 1 .. n + 1 |-> Rule(from, i)]
    BY <1>6 DEF from
  <2>2. from[pos] = Rule(from, pos)
    BY <2>1 DEF n
  <2>3. QED
    BY <2>2 DEF from
<1>8. QED
  BY <1>7 DEF start, end, block

\* Prose is passed, and what follows the payload is not looked at.
LEMMA PayloadReached ==
  ASSUME NEW before \in Texts, NEW payload \in Texts, NEW after \in Texts,
         Passed(before), loads(payload)
  PROVE  extract_balanced(before \o payload \o after)[1] = payload
<1> DEFINE text == before \o payload \o after
           o == Len(before)
           p == Len(payload)
<1>1. /\ text \in Texts /\ o \in Nat /\ p \in Nat \ {0} /\ o + p <= Len(text) /\ Len(text) \in Nat
      /\ \A i \in 1 .. o : text[0 + i] = before[i]
      /\ \A i \in 1 .. p : text[o + i] = payload[i]
  BY WholeBlock DEF Texts
<1>2. payload[1] \in Openers /\ BlockEnd(payload, 1) = p
  BY WholeBlock
<1>3. PICK places \in SUBSET (1 .. o + 1) :
        /\ 1 \in places
        /\ \A pos \in places :
               LET start == next_opener(before, pos)
                   end == BlockEnd(before, start)
               IN  start # 0 => /\ end # 0 /\ end + 1 \in places
                                /\ ~loads(SubSeq(before, start, end))
  BY DEF Passed
<1> HIDE DEF text, o, p
<1>4. BlockEnd(text, o + 1) = o + p
  <2>1. 1 \in 1 .. Len(payload) /\ BlockEnd(payload, 1) # 0
    BY <1>1, <1>2 DEF p
  <2>2. o + Len(payload) <= Len(text) /\ \A i \in 1 .. Len(payload) : text[o + i] = payload[i]
    BY <1>1 DEF p
  <2>3. text \in Texts /\ o \in Nat
    BY <1>1
  <2>4. BlockEnd(text, o + 1) = o + BlockEnd(payload, 1)
    BY <2>1, <2>2, <2>3, SameEnd, Zenon
  <2>5. QED
    BY <1>2, <2>4
<1>5. SubSeq(text, o + 1, o + p) = payload
  <2> DEFINE first == o + 1
             last == o + p
             block == SubSeq(text, first, last)
  <2>1. first \in 1 .. Len(text) /\ last \in first .. Len(text) /\ last - first + 1 = p
    BY <1>1
  <2>2. \A i \in 1 .. p : first + i - 1 = o + i
    BY <1>1
  <2> HIDE DEF first, last
  <2>3. /\ block \in Texts /\ Len(block) = p
        /\ \A i \in 1 .. p : block[i] = text[first + i - 1]
    BY <1>1, <2>1, SubText
  <2> HIDE DEF block
  <2>4. \A i \in 1 .. Len(block) : block[i] = payload[i]
    BY <1>1, <2>2, <2>3
  <2>5. block = payload
    BY <2>3, <2>4, SameText DEF p
  <2>6. QED
    BY <2>5 DEF block, first, last
<1>6. ASSUME NEW pos \in 1 .. o + 1, \A i \in pos .. o : text[i] \notin Openers
      PROVE  extract_balanced(text)[pos] = payload
  <2>1. next_opener(text, pos) = o + 1
    <3>1. o + 1 \in pos .. Len(text) /\ text[o + 1] \in Openers /\ pos \in 1 .. Len(text) + 1
      BY <1>1, <1>2
    <3> DEFINE start == next_opener(text, pos)
    <3>2. start # 0 /\ start \in pos .. Len(text) /\ text[start] \in Openers
          /\ \A i \in pos .. start - 1 : text[i] \notin Openers
      BY <1>1, <3>1, NextOpener
    <3> HIDE DEF start
    <3>3. ~(start < o + 1)
      <4>1. start < o + 1 => start \in pos .. o
        BY <1>1, <3>2
      <4>2. QED
        BY <1>6, <3>2, <4>1
    <3>4. ~(start > o + 1)
      <4>1. start > o + 1 => o + 1 \in pos .. start - 1
        BY <1>1, <3>2
      <4>2. QED
        BY <3>1, <3>2, <4>1
    <3>5. start = o + 1
      BY <1>1, <3>2, <3>3, <3>4
    <3>6. QED
      BY <3>5 DEF start
  <2> DEFINE first == o + 1
             last == o + p
  <2>2. pos \in 1 .. Len(text) + 1 /\ first # 0 /\ last # 0
    BY <1>1
  <2>3. next_opener(text, pos) = first /\ BlockEnd(text, first) = last /\ SubSeq(text, first, last) = payload
    BY <1>4, <1>5, <2>1
  <2> HIDE DEF first, last
  <2>4. QED
    BY <1>1, <2>2, <2>3, BalancedWalks
<1>7. ASSUME NEW pos \in places, next_opener(before, pos) # 0
      PROVE  \E later \in places : /\ later > pos
                                   /\ extract_balanced(text)[pos] = extract_balanced(text)[later]
  <2> DEFINE start == next_opener(before, pos)
             end == BlockEnd(before, start)
  <2>1. end # 0 /\ end + 1 \in places /\ ~loads(SubSeq(before, start, end))
    BY <1>3, <1>7
  <2>2. /\ start \in pos .. o /\ before[start] \in Openers
        /\ \A i \in pos .. start - 1 : before[i] \notin Openers
    BY <1>3, <1>7, NextOpener DEF o
  <2> HIDE DEF start
  <2>3. /\ pos \in Nat \ {0} /\ pos <= o + 1 /\ start \in 1 .. o
        /\ start \in 1 .. Len(text) /\ pos \in 1 .. Len(text) + 1
    BY <1>1, <1>3, <2>2
  <2>4. end \in start .. o /\ BlockEnd(text, 0 + start) = 0 + end
    <3> DEFINE zero == 0
    <3>1. /\ zero \in Nat /\ zero + Len(before) <= Len(text)
          /\ \A i \in 1 .. Len(before) : text[zero + i] = before[i]
      BY <1>1 DEF o
    <3>2. start \in 1 .. Len(before) /\ BlockEnd(before, start) # 0
      BY <2>1, <2>3 DEF o
    <3> HIDE DEF zero
    <3>3. /\ BlockEnd(before, start) \in start .. Len(before)
          /\ BlockEnd(text, zero + start) = zero + BlockEnd(before, start)
      <4>1. text \in Texts
        BY <1>1
      <4>2. QED
        BY <3>1, <3>2, <4>1, SameEnd, Zenon
    <3>4. QED
      BY <3>3 DEF o, zero
  <2> HIDE DEF end
  <2>5. BlockEnd(text, start) = end
    BY <1>1, <2>3, <2>4
  <2>6. next_opener(text, pos) = start
    <3> DEFINE first == next_opener(text, pos)
    <3>1. start \in pos .. Len(text) /\ text[start] \in Openers
          /\ \A i \in pos .. start - 1 : text[i] \notin Openers
      BY <1>1, <2>2, <2>3
    <3>2. first # 0 /\ first \in pos .. Len(text) /\ text[first] \in Openers
          /\ \A i \in pos .. first - 1 : text[i] \notin Openers
      BY <1>1, <2>3, <3>1, NextOpener
    <3> HIDE DEF first
    <3>3. ~(first < start) /\ ~(start < first)
      <4>1. first < start => first \in pos .. start - 1
        BY <1>1, <2>3, <3>1, <3>2
      <4>2. start < first => start \in pos .. first - 1
        BY <1>1, <2>3, <3>1, <3>2
      <4>3. QED
        BY <3>1, <3>2, <4>1, <4>2
    <3>4. first = start
      BY <1>1, <2>3, <3>2, <3>3
    <3>5. QED
      BY <3>4 DEF first
  <2>7. SubSeq(text, start, end) = SubSeq(before, start, end)
    <3> DEFINE there == SubSeq(text, start, end)
               here == SubSeq(before, start, end)
    <3>1. /\ start \in 1 .. Len(text) /\ end \in start .. Len(text)
          /\ start \in 1 .. Len(before) /\ end \in start .. Len(before)
      BY <1>1, <2>3, <2>4 DEF o
    <3>2. /\ there \in Texts /\ Len(there) = end - start + 1
          /\ \A i \in 1 .. end - start + 1 : there[i] = text[start + i - 1]
      BY <1>1, <3>1, SubText
    <3>3. /\ here \in Texts /\ Len(here) = end - start + 1
          /\ \A i \in 1 .. end - start + 1 : here[i] = before[start + i - 1]
      BY <3>1, SubText
    <3> HIDE DEF there, here
    <3>4. \A i \in 1 .. end - start + 1 : text[start + i - 1] = before[start + i - 1]
      BY <1>1, <2>3, <2>4
    <3>5. there = here
      BY <3>2, <3>3, <3>4, SameText
    <3>6. QED
      BY <3>5 DEF there, here
  <2>8. extract_balanced(text)[pos] = extract_balanced(text)[end + 1]
    <3>1. start # 0 /\ end # 0
      BY <1>1, <2>3, <2>4
    <3>2. QED
      BY <1>1, <2>1, <2>3, <2>5, <2>6, <2>7, <3>1, BalancedWalks
  <2>9. end + 1 > pos
    BY <1>1, <2>2, <2>3, <2>4
  <2>10. QED
    BY <2>1, <2>8, <2>9
<1>8. ASSUME NEW pos \in places, next_opener(before, pos) = 0
      PROVE  extract_balanced(text)[pos] = payload
  <2>1. pos \in 1 .. o + 1 /\ \A i \in pos .. o : before[i] \notin Openers
    BY <1>3, <1>8, NextOpener DEF o
  <2>2. \A i \in pos .. o : text[i] \notin Openers
    BY <1>1, <2>1
  <2>3. QED
    BY <1>6, <2>1, <2>2
<1> DEFINE wrong == {m \in 0 .. o : /\ (o + 1) - m \in places
                                    /\ extract_balanced(text)[(o + 1) - m] # payload}
<1>9. wrong = {}
  <2>1. SUFFICES ASSUME wrong # {}
                 PROVE  FALSE
    OBVIOUS
  <2>2. wrong \in SUBSET Nat
    BY <1>1
  <2>3. PICK m \in wrong : \A k \in wrong : m <= k
    <3> HIDE DEF wrong
    <3>1. QED
      BY <2>1, <2>2, LeastPlace
  <2> DEFINE pos == (o + 1) - m
  <2>4. pos \in places /\ extract_balanced(text)[pos] # payload
    BY <2>3
  <2>5. PICK later \in places : later > pos /\ extract_balanced(text)[later] # payload
    <3> HIDE DEF pos
    <3>1. QED
      BY <1>7, <1>8, <2>4
  <2>6. (o + 1) - later \in 0 .. o /\ (o + 1) - ((o + 1) - later) = later /\ (o + 1) - later < m
    <3>1. later \in 1 .. o + 1 /\ m \in 0 .. o
      BY <1>3, <2>3
    <3>2. QED
      BY <1>1, <2>5, <3>1
  <2>7. (o + 1) - later \in wrong
    BY <2>5, <2>6
  <2>8. m \in Int /\ m <= (o + 1) - later /\ (o + 1) - later \in Int
    BY <2>2, <2>3, <2>6, <2>7
  <2>9. QED
    BY <2>6, <2>8
<1>10. extract_balanced(text)[1] = payload
  <2>1. o \in 0 .. o /\ (o + 1) - o = 1
    BY <1>1
  <2>2. QED
    BY <1>3, <1>9, <2>1
<1>11. QED
  BY <1>10 DEF text
-----------------------------------------------------------------------------
(* Extracting JSON: fences. *)

\* What find returns for a fence, and for a fence marked json.
LEMMA FenceFound ==
  ASSUME NEW text \in Texts, NEW from \in Nat \ {0}
  PROVE  LET i == find(text, Fence, from) IN
         /\ i = 0 => \A j \in from .. Len(text) : text[j] # "fence"
         /\ i # 0 => /\ i \in from .. Len(text) /\ text[i] = "fence"
                     /\ \A j \in from .. i - 1 : text[j] # "fence"
<1> DEFINE n == Len(text)
           places == {i \in from .. n : text[i] = "fence"}
           i == Earliest(places)
<1>1. n \in Nat
  BY TextFacts
<1>2. find(text, Fence, from) = i
  <2>1. Len(Fence) = 1 /\ Fence[1] = "fence"
    BY DEF Fence
  <2>2. \A j \in from .. n : (\A k \in 1 .. 1 : text[j + k - 1] = Fence[k]) <=> text[j] = "fence"
    <3> SUFFICES ASSUME NEW j \in from .. n
                 PROVE  (\A k \in 1 .. 1 : text[j + k - 1] = Fence[k]) <=> text[j] = "fence"
      OBVIOUS
    <3>1. j + 1 - 1 = j /\ \A k \in 1 .. 1 : k = 1
      BY <1>1
    <3>2. QED
      BY <2>1, <3>1
  <2>3. n + 1 - 1 = n
    BY <1>1
  <2>4. {j \in from .. n + 1 - 1 : \A k \in 1 .. 1 : text[j + k - 1] = Fence[k]} = places
    BY <2>2, <2>3
  <2>5. QED
    BY <2>1, <2>4 DEF find
<1> HIDE DEF n
<1>3. places \in SUBSET Nat /\ 0 \notin places
  BY <1>1
<1>4. /\ places = {} => i = 0
      /\ places # {} => i \in places /\ \A j \in places : i <= j
  <2> HIDE DEF places
  <2>1. QED
    BY <1>3, EarliestPlace
<1> HIDE DEF i
<1>5. CASE places = {}
  <2>1. i = 0 /\ \A j \in from .. n : text[j] # "fence"
    BY <1>4, <1>5
  <2>2. QED
    BY <1>2, <2>1 DEF n
<1>6. CASE places # {}
  <2>1. i \in from .. n /\ text[i] = "fence" /\ i # 0
    BY <1>3, <1>4, <1>6
  <2>2. ASSUME NEW j \in from .. i - 1, text[j] = "fence"
        PROVE  FALSE
    <3>1. j \in from .. n /\ j < i /\ j \in Int /\ i \in Int
      BY <1>1, <2>1
    <3>2. i <= j
      BY <1>4, <1>6, <2>2, <3>1
    <3>3. QED
      BY <3>1, <3>2
  <2>3. QED
    BY <1>2, <2>1, <2>2 DEF n
<1>7. QED
  BY <1>5, <1>6

LEMMA JsonFenceFound ==
  ASSUME NEW text \in Texts, NEW from \in Nat \ {0}
  PROVE  LET i == find(text, JsonFence, from) IN
         /\ i = 0 => \A j \in from .. Len(text) - 1 : ~(text[j] = "fence" /\ text[j + 1] = "json")
         /\ i # 0 => /\ i \in from .. Len(text) - 1 /\ text[i] = "fence" /\ text[i + 1] = "json"
                     /\ \A j \in from .. i - 1 : ~(text[j] = "fence" /\ text[j + 1] = "json")
<1> DEFINE n == Len(text)
           Marked(j) == text[j] = "fence" /\ text[j + 1] = "json"
           places == {i \in from .. n - 1 : Marked(i)}
           i == Earliest(places)
<1>1. n \in Nat
  BY TextFacts
<1>2. find(text, JsonFence, from) = i
  <2>1. Len(JsonFence) = 2 /\ JsonFence[1] = "fence" /\ JsonFence[2] = "json"
    BY DEF JsonFence
  <2>2. \A j \in from .. n - 1 : (\A k \in 1 .. 2 : text[j + k - 1] = JsonFence[k]) <=> Marked(j)
    <3> SUFFICES ASSUME NEW j \in from .. n - 1
                 PROVE  (\A k \in 1 .. 2 : text[j + k - 1] = JsonFence[k]) <=> Marked(j)
      OBVIOUS
    <3>1. j + 1 - 1 = j /\ j + 2 - 1 = j + 1 /\ \A k \in 1 .. 2 : k = 1 \/ k = 2
      BY <1>1
    <3>2. QED
      BY <2>1, <3>1
  <2>3. n + 1 - 2 = n - 1
    BY <1>1
  <2>4. {j \in from .. n + 1 - 2 : \A k \in 1 .. 2 : text[j + k - 1] = JsonFence[k]} = places
    BY <2>2, <2>3
  <2>5. QED
    BY <2>1, <2>4 DEF find
<1> HIDE DEF n, Marked
<1>3. places \in SUBSET Nat /\ 0 \notin places
  BY <1>1
<1>4. /\ places = {} => i = 0
      /\ places # {} => i \in places /\ \A j \in places : i <= j
  <2> HIDE DEF places
  <2>1. QED
    BY <1>3, EarliestPlace
<1> HIDE DEF i
<1>5. CASE places = {}
  <2>1. i = 0 /\ \A j \in from .. n - 1 : ~Marked(j)
    BY <1>4, <1>5
  <2>2. QED
    BY <1>2, <2>1 DEF n, Marked
<1>6. CASE places # {}
  <2>1. i \in from .. n - 1 /\ Marked(i) /\ i # 0
    BY <1>3, <1>4, <1>6
  <2>2. ASSUME NEW j \in from .. i - 1, Marked(j)
        PROVE  FALSE
    <3>1. j \in from .. n - 1 /\ j < i /\ j \in Int /\ i \in Int
      BY <1>1, <2>1
    <3>2. i <= j
      BY <1>4, <1>6, <2>2, <3>1
    <3>3. QED
      BY <3>1, <3>2
  <2>3. QED
    BY <1>2, <2>1, <2>2 DEF n, Marked
<1>7. QED
  BY <1>5, <1>6

\* One fence after another.
LEMMA GenericWalks ==
  ASSUME NEW text \in Texts, NEW place \in 1 .. Len(text) + 1
  PROVE  GenericBody(text)[place] =
            LET open == find(text, Fence, place)
                end == find(text, Fence, open + 1)
                body == Upto(text, open + 1, end)
            IN  IF open = 0 \/ end = 0 THEN <<>>
                ELSE IF body # <<>> /\ body[1] \in Openers THEN body
                ELSE GenericBody(text)[end + 1]
<1> DEFINE n == Len(text)
           open(i) == find(text, Fence, i)
           end(i) == find(text, Fence, open(i) + 1)
           body(i) == Upto(text, open(i) + 1, end(i))
           Json(i) == body(i) # <<>> /\ body(i)[1] \in Openers
           stops == {i \in 1 .. n + 1 : open(i) = 0 \/ end(i) = 0 \/ Json(i)}
           found == [i \in 1 .. n + 1 |-> IF open(i) = 0 \/ end(i) = 0 THEN <<>> ELSE body(i)]
           next == [i \in 1 .. n + 1 |-> end(i) + 1]
           Rule(f, i) == IF open(i) = 0 \/ end(i) = 0 THEN <<>>
                         ELSE IF Json(i) THEN body(i) ELSE f[end(i) + 1]
<1>1. n \in Nat
  BY TextFacts
<1>2. \A i \in (1 .. n + 1) \ stops : next[i] \in i + 1 .. n + 1
  <2> SUFFICES ASSUME NEW i \in 1 .. n + 1, open(i) # 0, end(i) # 0
               PROVE  end(i) + 1 \in i + 1 .. n + 1
    OBVIOUS
  <2>1. i \in Nat \ {0}
    BY <1>1
  <2>2. open(i) \in i .. n
    BY <2>1, FenceFound
  <2>3. open(i) + 1 \in Nat \ {0}
    BY <1>1, <2>1, <2>2
  <2>4. end(i) \in open(i) + 1 .. n
    BY <2>3, FenceFound
  <2> HIDE DEF open, end
  <2>5. QED
    BY <1>1, <2>2, <2>4
<1> HIDE DEF n, open, end, body, Json
<1>3. found \in [1 .. n + 1 -> {found[i] : i \in 1 .. n + 1}]
  OBVIOUS
<1>4. PICK f \in [1 .. n + 1 -> {found[i] : i \in 1 .. n + 1}] :
          \A i \in 1 .. n + 1 : f[i] = IF i \in stops THEN found[i] ELSE f[next[i]]
  <2> HIDE DEF stops, found, next
  <2> DEFINE m == n + 1
             Finds == {found[i] : i \in 1 .. m}
  <2>1. m \in Nat /\ found \in [1 .. m -> Finds]
    BY <1>1, <1>3
  <2>2. \A i \in (1 .. m) \ stops : next[i] \in i + 1 .. m
    BY <1>2
  <2> HIDE DEF m, Finds
  <2>3. \E f \in [1 .. m -> Finds] : Walks(f, m, stops, found, next)
    BY <2>1, <2>2, Walk
  <2>4. QED
    BY <2>3 DEF m, Finds, Walks
<1>5. f = [i \in 1 .. n + 1 |-> Rule(f, i)]
  <2>1. \A i \in 1 .. n + 1 : (IF i \in stops THEN found[i] ELSE f[next[i]]) = Rule(f, i)
    OBVIOUS
  <2> HIDE DEF stops, found, next, Rule
  <2>2. \A i \in 1 .. n + 1 : f[i] = Rule(f, i)
    BY <1>4, <2>1
  <2>3. QED
    BY <1>4, <2>2
<1>6. GenericBody(text) = [i \in 1 .. n + 1 |-> Rule(GenericBody(text), i)]
  BY <1>5 DEF GenericBody, n, open, end, body, Json
<1>7. GenericBody(text)[place] = Rule(GenericBody(text), place)
  <2> DEFINE generic == GenericBody(text)
  <2> HIDE DEF generic, Rule
  <2>1. generic = [i \in 1 .. n + 1 |-> Rule(generic, i)]
    BY <1>6 DEF generic
  <2>2. place \in 1 .. n + 1
    BY DEF n
  <2>3. generic[place] = Rule(generic, place)
    BY <2>1, <2>2, Zenon
  <2>4. QED
    BY <2>3 DEF generic
<1>8. QED
  BY <1>7 DEF open, end, body, Json

\* A text without fences.
LEMMA NoPlaces ==
  ASSUME NEW text \in Texts, FencePlaces(text) = {}
  PROVE  \A i \in 1 .. Len(text) : text[i] # "fence"
<1>1. DOMAIN text = 1 .. Len(text)
  BY DEF Texts
<1>2. QED
  BY <1>1 DEF FencePlaces

\* A text that stands between two fences, the word json after the first left out.
Between(text, body) ==
    \E i, j \in FencePlaces(text), k \in {1, 2} :
        /\ k = 2 => i < Len(text) /\ text[i + 1] = "json"
        /\ body = Upto(text, i + k, j)

LEMMA BetweenFences ==
  ASSUME NEW text \in Texts, NEW body, Between(text, body), loads(body)
  PROVE  body \in FencedJson(text)
<1> DEFINE starts == {i + 1 : i \in FencePlaces(text)} \cup
                     {i + 2 : i \in {j \in FencePlaces(text) : j < Len(text) /\ text[j + 1] = "json"}}
<1>1. PICK i \in FencePlaces(text), j \in FencePlaces(text), k \in {1, 2} :
         /\ k = 2 => i < Len(text) /\ text[i + 1] = "json"
         /\ body = Upto(text, i + k, j)
  BY DEF Between
<1>2. i + k \in starts
  BY <1>1
<1> HIDE DEF starts
<1>3. body \in {Upto(text, a, b) : a \in starts, b \in FencePlaces(text)}
  BY <1>1, <1>2
<1>4. QED
  BY <1>3 DEF FencedJson, starts

\* The body marked json stands between two fences.
LEMMA JsonBetween ==
  ASSUME NEW text \in Texts
  PROVE  JsonBody(text) = <<>> \/ Between(text, JsonBody(text))
<1> DEFINE n == Len(text)
           start == find(text, JsonFence, 1)
           close == find(text, Fence, start + 2)
<1>1. n \in Nat /\ DOMAIN text = 1 .. n
  BY TextFacts DEF Texts
<1> SUFFICES ASSUME start # 0, close # 0
             PROVE  Between(text, JsonBody(text))
  BY DEF JsonBody
<1>2. start \in 1 .. n - 1 /\ text[start] = "fence" /\ text[start + 1] = "json"
  BY JsonFenceFound
<1>3. close \in start + 2 .. n /\ text[close] = "fence"
  BY <1>1, <1>2, FenceFound
<1>4. start \in FencePlaces(text) /\ close \in FencePlaces(text) /\ start < n
  BY <1>1, <1>2, <1>3 DEF FencePlaces
<1>5. JsonBody(text) = Upto(text, start + 2, close)
  BY DEF JsonBody
<1> HIDE DEF start, close
<1>6. QED
  BY <1>2, <1>4, <1>5 DEF Between, n

\* So does the generic one, however many pairs of fences are passed over.
LEMMA GenericBetween ==
  ASSUME NEW text \in Texts
  PROVE  GenericBody(text)[1] = <<>> \/ Between(text, GenericBody(text)[1])
<1> DEFINE n == Len(text)
           generic == GenericBody(text)
           Good(i) == generic[i] = <<>> \/ Between(text, generic[i])
           wrong == {d \in 0 .. n : ~Good((n + 1) - d)}
<1>1. n \in Nat /\ DOMAIN text = 1 .. n
  BY TextFacts DEF Texts
<1>2. ASSUME NEW i \in 1 .. n + 1, ~Good(i)
      PROVE  \E later \in i + 1 .. n + 1 : ~Good(later)
  <2> DEFINE open == find(text, Fence, i)
             end == find(text, Fence, open + 1)
             body == Upto(text, open + 1, end)
  <2>1. generic[i] = IF open = 0 \/ end = 0 THEN <<>>
                     ELSE IF body # <<>> /\ body[1] \in Openers THEN body
                     ELSE generic[end + 1]
    BY GenericWalks
  <2>2. open # 0 /\ end # 0
    <3> HIDE DEF generic, open, end, body
    <3>1. QED
      BY <1>2, <2>1
  <2>3. open \in i .. n /\ text[open] = "fence"
    BY <1>1, <2>2, FenceFound
  <2>4. end \in open + 1 .. n /\ text[end] = "fence"
    <3>1. open + 1 \in Nat \ {0}
      BY <1>1, <2>3
    <3>2. QED
      BY <2>2, <3>1, FenceFound
  <2>5. Between(text, body)
    BY <1>1, <2>3, <2>4 DEF Between, FencePlaces
  <2>6. generic[i] = generic[end + 1]
    <3> HIDE DEF generic, open, end, body
    <3>1. QED
      BY <1>2, <2>1, <2>2, <2>5
  <2>7. end + 1 \in i + 1 .. n + 1
    BY <1>1, <2>3, <2>4
  <2> HIDE DEF generic, end
  <2>8. QED
    BY <1>2, <2>6, <2>7
<1>3. ASSUME NEW d \in wrong
      PROVE  \E less \in wrong : less < d
  <2>1. (n + 1) - d \in 1 .. n + 1 /\ ~Good((n + 1) - d) /\ d \in 0 .. n
    BY <1>1
  <2> HIDE DEF Good
  <2>2. PICK later \in ((n + 1) - d) + 1 .. n + 1 : ~Good(later)
    BY <1>2, <2>1
  <2>3. /\ (n + 1) - later \in 0 .. n /\ (n + 1) - ((n + 1) - later) = later
        /\ (n + 1) - later < d
    BY <1>1, <2>1, <2>2
  <2>4. QED
    BY <2>2, <2>3
<1>4. wrong = {}
  <2>1. wrong \in SUBSET Nat
    BY <1>1
  <2> HIDE DEF wrong
  <2>2. wrong # {} => \E d \in wrong : \A k \in wrong : d <= k
    BY <2>1, LeastPlace
  <2>3. QED
    BY <1>3, <2>1, <2>2
<1>5. Good(1)
  <2>1. n \in 0 .. n /\ (n + 1) - n = 1
    BY <1>1
  <2> HIDE DEF Good, n
  <2>2. Good((n + 1) - n)
    BY <1>4, <2>1
  <2>3. QED
    BY <2>1, <2>2
<1>6. QED
  BY <1>5

\* The first candidate that parses is the answer.
LEMMA FirstThatParses ==
  ASSUME NEW text \in Texts
  PROVE  /\ loads(text) => extract_json(text) = text
         /\ ~loads(text) /\ loads(JsonBody(text)) => extract_json(text) = JsonBody(text)
         /\ ~loads(text) /\ JsonBody(text) = <<>> /\ loads(GenericBody(text)[1]) =>
                extract_json(text) = GenericBody(text)[1]
         /\ ~loads(text) /\ JsonBody(text) = <<>> /\ GenericBody(text)[1] = <<>> =>
                extract_json(text) = extract_balanced(text)[1]
         /\ \/ loads(text)
            \/ loads(JsonBody(text)) /\ extract_json(text) = JsonBody(text)
            \/ loads(GenericBody(text)[1]) /\ extract_json(text) = GenericBody(text)[1]
            \/ extract_json(text) = extract_balanced(text)[1]
<1> DEFINE json == JsonBody(text)
           body == GenericBody(text)[1]
           candidates == <<text>> \o <<json, body>>
           places == {c \in DOMAIN candidates : loads(candidates[c])}
           first == Earliest(places)
<1>1. extract_json(text) = IF first # 0 THEN candidates[first] ELSE extract_balanced(text)[1]
  BY DEF extract_json, fenced_candidates
<1>2. /\ DOMAIN candidates = 1 .. 3 /\ candidates[1] = text
      /\ candidates[2] = json /\ candidates[3] = body
  <2> DEFINE Bodies == {text, json, body}
             one == <<text>>
             two == <<json, body>>
  <2>1. /\ one \in Seq(Bodies) /\ two \in Seq(Bodies) /\ Len(one) = 1 /\ Len(two) = 2
        /\ one[1] = text /\ two[1] = json /\ two[2] = body
    <3> HIDE DEF json, body
    <3>1. QED
      OBVIOUS
  <2> HIDE DEF one, two, json, body, Bodies
  <2>2. /\ one \o two \in Seq(Bodies) /\ Len(one \o two) = 3
        /\ (one \o two)[1] = one[1] /\ (one \o two)[2] = two[1] /\ (one \o two)[3] = two[2]
    <3>1. one \in Seq(Bodies) /\ two \in Seq(Bodies)
      BY <2>1
    <3>2. /\ one \o two \in Seq(Bodies) /\ Len(one \o two) = Len(one) + Len(two)
          /\ \A i \in 1 .. Len(one) : (one \o two)[i] = one[i]
          /\ \A i \in 1 .. Len(two) : (one \o two)[Len(one) + i] = two[i]
      BY <3>1, JoinedSeq
    <3>3. 1 \in 1 .. Len(one) /\ 1 \in 1 .. Len(two) /\ 2 \in 1 .. Len(two)
          /\ Len(one) + 1 = 2 /\ Len(one) + 2 = 3
      BY <2>1
    <3>4. (one \o two)[1] = one[1]
      BY <3>2, <3>3
    <3>5. (one \o two)[2] = two[1] /\ (one \o two)[3] = two[2]
      BY ONLY <3>2, <3>3, Zenon
    <3>6. QED
      BY <2>1, <3>2, <3>4, <3>5
  <2>3. DOMAIN (one \o two) = 1 .. 3
    BY <2>2
  <2>4. QED
    BY <2>1, <2>2, <2>3 DEF one, two
<1> HIDE DEF json, body, candidates
<1>3. /\ 1 \in places <=> loads(text)
      /\ 2 \in places <=> loads(json)
      /\ 3 \in places <=> loads(body)
      /\ places \in SUBSET Nat /\ \A c \in places : c \in 1 .. 3
  BY <1>2
<1>4. ~loads(<<>>)
  BY DEF loads
<1>5. places = {} => first = 0
  <2> HIDE DEF places
  <2>1. QED
    BY <1>3, EarliestPlace
<1>6. ASSUME NEW c \in places, \A k \in places : c <= k
      PROVE  first = c
  <2> HIDE DEF places
  <2>1. QED
    BY <1>3, <1>6, EarliestIs
<1> HIDE DEF places, first
<1>7. loads(text) => first = 1
  BY <1>3, <1>6
<1>8. ~loads(text) /\ loads(json) => first = 2
  <2>1. ~loads(text) => \A k \in places : 2 <= k
    BY <1>3
  <2>2. QED
    BY <1>3, <1>6, <2>1
<1>9. ~loads(text) /\ json = <<>> /\ loads(body) => first = 3
  <2>1. ~loads(text) /\ json = <<>> => \A k \in places : 3 <= k
    BY <1>3, <1>4
  <2>2. QED
    BY <1>3, <1>6, <2>1
<1>10. ~loads(text) /\ json = <<>> /\ body = <<>> => first = 0
  <2>1. ~loads(text) /\ json = <<>> /\ body = <<>> => places = {}
    BY <1>3, <1>4
  <2>2. QED
    BY <1>5, <2>1
<1>11. \/ loads(text)
       \/ loads(json) /\ first = 2
       \/ loads(body) /\ first = 3
       \/ first = 0
  <2>1. loads(body) /\ ~loads(text) /\ ~loads(json) => first = 3
    <3>1. ~loads(text) /\ ~loads(json) => \A k \in places : 3 <= k
      BY <1>3
    <3>2. QED
      BY <1>3, <1>6, <3>1
  <2>2. ~loads(body) /\ ~loads(text) /\ ~loads(json) => places = {}
    BY <1>3
  <2>3. QED
    BY <1>5, <1>8, <2>1, <2>2
<1>12. QED
  BY <1>1, <1>2, <1>7, <1>8, <1>9, <1>10, <1>11 DEF json, body
-----------------------------------------------------------------------------
(* Extracting JSON: the payload is found. *)


\* A text that parses and starts with prose and a payload is that payload.
LEMMA NothingAround ==
  ASSUME NEW before \in Texts, NEW payload \in Texts, NEW after \in Texts,
         Passed(before), loads(payload), loads(before \o payload \o after)
  PROVE  before \o payload \o after = payload
<1> DEFINE text == before \o payload \o after
           o == Len(before)
           p == Len(payload)
<1>1. /\ text \in Texts /\ o \in Nat /\ p \in Nat \ {0} /\ o + p <= Len(text) /\ Len(text) \in Nat
      /\ \A i \in 1 .. o : text[0 + i] = before[i]
      /\ \A i \in 1 .. p : text[o + i] = payload[i]
  BY WholeBlock DEF Texts
<1>2. payload[1] \in Openers /\ BlockEnd(payload, 1) = p
  BY WholeBlock
<1>3. text[1] \in Openers /\ BlockEnd(text, 1) = Len(text)
  BY <1>1, WholeBlock
<1>4. next_opener(before, 1) # 0 =>
            /\ BlockEnd(before, next_opener(before, 1)) # 0
            /\ BlockEnd(before, next_opener(before, 1)) + 1 \in 1 .. o + 1
  BY DEF Passed
<1> HIDE DEF text, o, p
<1> DEFINE zero == 0
<1>5. o = 0
  <2> SUFFICES ASSUME o # 0
               PROVE  FALSE
    OBVIOUS
  <2>1. 1 \in 1 .. Len(before) /\ before[1] \in Openers /\ 1 \in 1 .. Len(before) + 1
    BY <1>1, <1>3 DEF o
  <2> DEFINE start == next_opener(before, 1)
  <2>2. start # 0 /\ start \in 1 .. o /\ \A i \in 1 .. start - 1 : before[i] \notin Openers
    BY <2>1, NextOpener DEF o
  <2>3. start = 1
    <3> HIDE DEF start
    <3>1. start > 1 => 1 \in 1 .. start - 1
      BY <1>1, <2>2
    <3>2. QED
      BY <1>1, <2>1, <2>2, <3>1
  <2>4. BlockEnd(before, 1) # 0
    BY <1>4, <2>2, <2>3
  <2>5. /\ zero \in Nat /\ zero + Len(before) <= Len(text)
        /\ \A i \in 1 .. Len(before) : text[zero + i] = before[i]
    BY <1>1 DEF o
  <2>6. text \in Texts
    BY <1>1
  <2> HIDE DEF zero
  <2>7. /\ BlockEnd(before, 1) \in 1 .. Len(before)
        /\ BlockEnd(text, zero + 1) = zero + BlockEnd(before, 1)
    BY <2>1, <2>4, <2>5, <2>6, SameEnd, Zenon
  <2>8. zero + 1 = 1 /\ \A n \in Int : zero + n = n
    BY DEF zero
  <2>9. BlockEnd(text, 1) = BlockEnd(before, 1)
    BY <1>1, <2>7, <2>8 DEF o
  <2>10. Len(text) \in 1 .. o
    BY <1>3, <2>7, <2>9 DEF o
  <2>11. QED
    BY <1>1, <2>10
<1>6. Len(text) = p
  <2>1. /\ zero \in Nat /\ zero + Len(payload) <= Len(text)
        /\ \A i \in 1 .. Len(payload) : text[zero + i] = payload[i]
    BY <1>1, <1>5 DEF p
  <2>2. text \in Texts /\ 1 \in 1 .. Len(payload) /\ BlockEnd(payload, 1) # 0
    BY <1>1, <1>2 DEF p
  <2> HIDE DEF zero
  <2>3. BlockEnd(text, zero + 1) = zero + BlockEnd(payload, 1)
    BY <2>1, <2>2, SameEnd, Zenon
  <2>4. zero + 1 = 1 /\ \A n \in Int : zero + n = n
    BY DEF zero
  <2>5. QED
    BY <1>1, <1>2, <1>3, <2>3, <2>4
<1>7. \A i \in 1 .. Len(text) : text[i] = payload[i]
  BY <1>1, <1>5, <1>6
<1>8. text = payload
  BY <1>1, <1>6, <1>7, SameText DEF p
<1>9. QED
  BY <1>8 DEF text

\* A payload is found among prose and other texts, if nothing between two fences is.
LEMMA FoundBare ==
  ASSUME NEW before \in Texts, NEW payload \in Texts, NEW after \in Texts,
         Passed(before), loads(payload)
  PROVE  LET text == before \o payload \o after
         IN  extract_json(text) \in {payload} \cup FencedJson(text)
<1> DEFINE text == before \o payload \o after
<1> SUFFICES extract_json(text) \in {payload} \cup FencedJson(text)
  OBVIOUS
<1>1. text \in Texts
  BY DEF Texts
<1>2. extract_balanced(text)[1] = payload /\ (loads(text) => text = payload)
  BY PayloadReached, NothingAround
<1> HIDE DEF text
<1>3. ASSUME NEW body, Between(text, body), loads(body), extract_json(text) = body
      PROVE  extract_json(text) \in FencedJson(text)
  BY <1>1, <1>3, BetweenFences
<1>4. CASE loads(text)
  BY <1>1, <1>2, <1>4, FirstThatParses
<1>5. CASE loads(JsonBody(text)) /\ extract_json(text) = JsonBody(text)
  <2>1. Between(text, JsonBody(text))
    BY <1>1, <1>5, JsonBetween DEF loads
  <2>2. QED
    BY <1>3, <1>5, <2>1
<1>6. CASE loads(GenericBody(text)[1]) /\ extract_json(text) = GenericBody(text)[1]
  <2>1. Between(text, GenericBody(text)[1])
    BY <1>1, <1>6, GenericBetween DEF loads
  <2>2. QED
    BY <1>3, <1>6, <2>1
<1>7. CASE extract_json(text) = extract_balanced(text)[1]
  BY <1>2, <1>7
<1>8. QED
  BY <1>1, <1>4, <1>5, <1>6, <1>7, FirstThatParses

\* The text of a fenced payload, place by place.
FencedAt(text, lead, mark, payload, after) ==
    LET q == Len(lead) + Len(mark)
        p == Len(payload)
    IN  /\ text \in Texts /\ Len(text) = q + p + 1 + Len(after)
        /\ \A i \in 1 .. Len(lead) : text[i] = lead[i]
        /\ \A i \in 1 .. Len(mark) : text[Len(lead) + i] = mark[i]
        /\ \A i \in 1 .. p : text[q + i] = payload[i]
        /\ \A i \in 1 .. 1 + Len(after) : text[q + p + i] = (Fence \o after)[i]

LEMMA FencedText ==
  ASSUME NEW lead \in Texts, NEW mark \in {Fence, JsonFence}, NEW payload \in Texts, NEW after \in Texts
  PROVE  FencedAt(lead \o mark \o payload \o Fence \o after, lead, mark, payload, after)
<1> DEFINE one == lead \o mark
           two == one \o payload
           three == two \o Fence
           text == three \o after
           tail == Fence \o after
           q == Len(lead) + Len(mark)
           p == Len(payload)
<1>1. mark \in Texts /\ Len(mark) \in Nat
  <2>1. CASE mark = Fence
    BY <2>1 DEF Texts, Fence
  <2>2. CASE mark = JsonFence
    BY <2>2 DEF Texts, JsonFence
  <2>3. QED
    BY <2>1, <2>2
<1>2. Fence \in Texts /\ Len(Fence) = 1 /\ Len(lead) \in Nat /\ p \in Nat /\ Len(after) \in Nat
  <2>1. Fence \in Texts /\ Len(Fence) = 1
    BY DEF Texts, Fence
  <2>2. QED
    BY <2>1, TextFacts
<1>3. /\ one \in Texts /\ Len(one) = Len(lead) + Len(mark)
      /\ \A i \in 1 .. Len(lead) : one[i] = lead[i]
      /\ \A i \in 1 .. Len(mark) : one[Len(lead) + i] = mark[i]
  BY <1>1, Joined
<1> HIDE DEF one
<1>4. /\ two \in Texts /\ Len(two) = Len(one) + p
      /\ \A i \in 1 .. Len(one) : two[i] = one[i]
      /\ \A i \in 1 .. p : two[Len(one) + i] = payload[i]
  BY <1>3, Joined
<1> HIDE DEF two
<1>5. /\ three \in Texts /\ Len(three) = Len(two) + Len(Fence)
      /\ \A i \in 1 .. Len(two) : three[i] = two[i]
      /\ \A i \in 1 .. Len(Fence) : three[Len(two) + i] = Fence[i]
  BY <1>2, <1>4, Joined
<1> HIDE DEF three
<1>6. /\ text \in Texts /\ Len(text) = Len(three) + Len(after)
      /\ \A i \in 1 .. Len(three) : text[i] = three[i]
      /\ \A i \in 1 .. Len(after) : text[Len(three) + i] = after[i]
  BY <1>5, Joined
<1>7. /\ \A i \in 1 .. Len(Fence) : tail[i] = Fence[i]
      /\ \A i \in 1 .. Len(after) : tail[Len(Fence) + i] = after[i]
  BY <1>2, Joined
<1> HIDE DEF text, tail
<1>8. q \in Nat /\ Len(one) = q /\ Len(two) = q + p /\ Len(three) = q + p + 1
      /\ Len(text) = q + p + 1 + Len(after)
  BY <1>1, <1>2, <1>3, <1>4, <1>5, <1>6
<1>9. \A i \in 1 .. q : i \in 1 .. Len(one) /\ i \in 1 .. Len(two) /\ i \in 1 .. Len(three)
  <2> HIDE DEF q, p
  <2>1. QED
    BY <1>2, <1>8
<1>10. \A i \in 1 .. q : text[i] = one[i]
  BY <1>4, <1>5, <1>6, <1>9
<1>11. \A i \in 1 .. Len(lead) : text[i] = lead[i]
  BY <1>1, <1>2, <1>3, <1>10
<1>12. \A i \in 1 .. Len(mark) : text[Len(lead) + i] = mark[i]
  <2>1. \A i \in 1 .. Len(mark) : Len(lead) + i \in 1 .. q
    BY <1>1, <1>2
  <2>2. QED
    BY <1>3, <1>10, <2>1
<1> HIDE DEF q
<1>13. \A i \in 1 .. p : text[q + i] = payload[i]
  <2>1. \A i \in 1 .. p : q + i \in 1 .. Len(two) /\ q + i \in 1 .. Len(three) /\ Len(one) + i = q + i
    BY <1>2, <1>8
  <2>2. QED
    BY <1>4, <1>5, <1>6, <2>1
<1>14. \A i \in 1 .. 1 + Len(after) : text[q + p + i] = tail[i]
  <2> SUFFICES ASSUME NEW i \in 1 .. 1 + Len(after)
               PROVE  text[q + p + i] = tail[i]
    OBVIOUS
  <2>1. CASE i = 1
    <3>1. q + p + i \in 1 .. Len(three) /\ i \in 1 .. Len(Fence) /\ Len(two) + i = q + p + i
      BY <1>2, <1>8, <2>1
    <3>2. QED
      BY <1>5, <1>6, <1>7, <3>1
  <2>2. CASE i # 1
    <3> DEFINE k == i - 1
    <3>1. k \in 1 .. Len(after) /\ q + p + i = Len(three) + k /\ i = Len(Fence) + k
      BY <1>2, <1>8, <2>2
    <3> HIDE DEF k
    <3>2. QED
      BY <1>6, <1>7, <3>1
  <2>3. QED
    BY <2>1, <2>2
<1>15. QED
  BY <1>6, <1>8, <1>11, <1>12, <1>13, <1>14 DEF FencedAt, q, text, three, two, one, tail

\* A payload is found in the first fence, whatever surrounds that.
LEMMA FoundFenced ==
  ASSUME NEW lead \in Texts, NEW mark \in {Fence, JsonFence}, NEW payload \in Texts, NEW after \in Texts,
         loads(payload),
         \A i \in 1 .. Len(lead) : lead[i] # "fence",
         \A i \in 1 .. Len(payload) : payload[i] # "fence",
         mark = JsonFence \/ find(Fence \o after, JsonFence, 1) = 0
  PROVE  LET text == lead \o mark \o payload \o Fence \o after
         IN  loads(text) \/ extract_json(text) = payload
<1> DEFINE text == lead \o mark \o payload \o Fence \o after
           tail == Fence \o after
           m == Len(lead)
           q == m + Len(mark)
           p == Len(payload)
           n == Len(text)
           s == Len(after)
<1>1. /\ text \in Texts /\ n = q + p + 1 + s
      /\ \A i \in 1 .. m : text[i] = lead[i]
      /\ \A i \in 1 .. Len(mark) : text[m + i] = mark[i]
      /\ \A i \in 1 .. p : text[q + i] = payload[i]
      /\ \A i \in 1 .. 1 + s : text[q + p + i] = tail[i]
  <2>1. FencedAt(text, lead, mark, payload, after)
    BY FencedText
  <2> HIDE DEF text
  <2>2. QED
    BY <2>1 DEF FencedAt
<1>2. payload[1] \in Openers /\ p \in Nat \ {0} /\ m \in Nat /\ s \in Nat /\ n \in Nat
  BY <1>1, WholeBlock, TextFacts
<1>3. tail \in Texts /\ Len(tail) = 1 + s /\ tail[1] = "fence"
  <2>1. Fence \in Texts /\ Len(Fence) = 1 /\ Fence[1] = "fence"
    BY DEF Fence, Texts
  <2>2. /\ tail \in Texts /\ Len(tail) = Len(Fence) + s
        /\ \A i \in 1 .. Len(Fence) : tail[i] = Fence[i]
    BY <2>1, Joined
  <2> HIDE DEF tail, s
  <2>3. 1 \in 1 .. Len(Fence)
    BY <2>1
  <2>4. tail[1] = Fence[1]
    BY <2>2, <2>3
  <2>5. QED
    BY <2>1, <2>2, <2>4
<1>4. /\ mark[1] = "fence" /\ 1 \in 1 .. Len(mark) /\ Len(mark) \in Nat
      /\ mark = Fence => Len(mark) = 1
      /\ mark = JsonFence => Len(mark) = 2 /\ mark[2] = "json"
  <2>1. CASE mark = Fence
    <3>1. Len(mark) = 1 /\ mark[1] = "fence" /\ mark # JsonFence
      BY <2>1 DEF Fence, JsonFence
    <3>2. QED
      BY <3>1
  <2>2. CASE mark = JsonFence
    <3>1. Len(mark) = 2 /\ mark[1] = "fence" /\ mark[2] = "json" /\ mark # Fence
      BY <2>2 DEF Fence, JsonFence
    <3>2. QED
      BY <3>1
  <2>3. QED
    BY <2>1, <2>2
<1> HIDE DEF text, tail, m, n, s, p
<1> DEFINE close == q + p + 1
<1>5. q \in Nat /\ q > m /\ q >= 1 /\ close \in Nat /\ close <= n /\ m + 1 <= n /\ close > q + 1
  BY <1>1, <1>2, <1>4
<1>6. text[m + 1] = "fence" /\ text[close] = "fence" /\ text[q + 1] = payload[1]
  <2>1. 1 \in 1 .. 1 + s /\ 1 \in 1 .. p
    BY <1>2
  <2>2. QED
    BY <1>1, <1>3, <1>4, <2>1
<1> HIDE DEF q
<1>7. \A i \in 1 .. m : text[i] # "fence"
  BY <1>1 DEF m
<1>8. \A i \in q + 1 .. close - 1 : text[i] # "fence"
  <2> SUFFICES ASSUME NEW i \in q + 1 .. close - 1
               PROVE  text[i] # "fence"
    OBVIOUS
  <2>1. i - q \in 1 .. p /\ q + (i - q) = i
    BY <1>2, <1>5
  <2>2. QED
    BY <1>1, <2>1 DEF p
<1>9. \A from \in q + 1 .. close : find(text, Fence, from) = close
  <2> SUFFICES ASSUME NEW from \in q + 1 .. close
               PROVE  find(text, Fence, from) = close
    OBVIOUS
  <2> DEFINE i == find(text, Fence, from)
  <2>1. from \in Nat \ {0} /\ close \in from .. Len(text)
    BY <1>5 DEF n
  <2>2. i # 0 /\ i \in from .. Len(text) /\ text[i] = "fence" /\ \A j \in from .. i - 1 : text[j] # "fence"
    BY <1>1, <1>6, <2>1, FenceFound
  <2> HIDE DEF i
  <2>3. ~(i < close)
    <3>1. i < close => i \in q + 1 .. close - 1
      BY <1>5, <2>1, <2>2
    <3>2. QED
      BY <1>8, <2>2, <3>1
  <2>4. ~(close < i)
    <3>1. close < i => close \in from .. i - 1
      BY <1>5, <2>1, <2>2
    <3>2. QED
      BY <1>6, <2>2, <3>1
  <2>5. i = close
    BY <1>5, <2>1, <2>2, <2>3, <2>4
  <2>6. QED
    BY <2>5 DEF i
<1>10. Upto(text, q + 1, close) = payload
  <2> DEFINE first == q + 1
             last == close - 1
             block == SubSeq(text, first, last)
  <2>1. first \in 1 .. Len(text) /\ last \in first .. Len(text) /\ last - first + 1 = p
    BY <1>2, <1>5 DEF n
  <2>2. \A i \in 1 .. p : first + i - 1 = q + i
    BY <1>2, <1>5
  <2> HIDE DEF first, last
  <2>3. /\ block \in Texts /\ Len(block) = p
        /\ \A i \in 1 .. p : block[i] = text[first + i - 1]
    BY <1>1, <2>1, SubText
  <2> HIDE DEF block
  <2>4. \A i \in 1 .. Len(block) : block[i] = payload[i]
    BY <1>1, <2>2, <2>3
  <2>5. block = payload
    BY <2>3, <2>4, SameText DEF p
  <2>6. QED
    BY <2>5 DEF Upto, block, first, last
<1>11. CASE mark = JsonFence
  <2> DEFINE start == find(text, JsonFence, 1)
  <2>1. q = m + 2 /\ text[m + 2] = "json" /\ m + 1 \in 1 .. Len(text) - 1 /\ m + 1 + 1 = m + 2
    <3>1. q = m + 2 /\ 2 \in 1 .. Len(mark)
      <4>1. Len(mark) = 2
        BY <1>4, <1>11, Zenon
      <4>2. QED
        BY <4>1 DEF q
    <3>2. text[m + 2] = "json"
      BY <1>1, <1>4, <1>11, <3>1
    <3>3. QED
      BY <1>2, <1>5, <3>1, <3>2 DEF n
  <2>2. /\ start # 0 /\ start \in 1 .. Len(text) - 1 /\ text[start] = "fence"
        /\ \A j \in 1 .. start - 1 : ~(text[j] = "fence" /\ text[j + 1] = "json")
    BY <1>1, <1>6, <2>1, JsonFenceFound
  <2> HIDE DEF start
  <2>3. start = m + 1
    <3>1. start <= m => start \in 1 .. m
      BY <1>2, <2>2
    <3>2. start > m + 1 => m + 1 \in 1 .. start - 1
      BY <1>2, <2>1, <2>2
    <3>3. ~(start <= m) /\ ~(start > m + 1)
      BY <1>6, <1>7, <2>1, <2>2, <3>1, <3>2
    <3>4. QED
      BY <1>2, <2>2, <3>3
  <2>4. start + 2 = q + 1 /\ start + 2 \in q + 1 .. close /\ close # 0
    BY <1>2, <1>5, <2>1, <2>3
  <2>5. JsonBody(text) = payload
    BY <1>9, <1>10, <2>2, <2>4 DEF JsonBody, start
  <2>6. QED
    BY <1>1, <2>5, FirstThatParses DEF text
<1>12. CASE mark = Fence
  <2>1. q = m + 1
    BY <1>4, <1>12 DEF q
  <2>2. JsonBody(text) = <<>>
    <3> DEFINE start == find(text, JsonFence, 1)
    <3>1. start # 0 => start \in 1 .. n - 1 /\ text[start] = "fence" /\ text[start + 1] = "json"
      BY <1>1, JsonFenceFound DEF n
    <3> HIDE DEF start
    <3> SUFFICES ASSUME start # 0
                 PROVE  FALSE
      BY DEF JsonBody, start
    <3>2. start \in 1 .. m \/ start = m + 1 \/ start \in q + 1 .. close - 1 \/ start \in close .. n - 1
      BY <1>2, <1>5, <2>1, <3>1
    <3>3. CASE start = m + 1
      <4>1. text[start + 1] = payload[1]
        BY <1>6, <2>1, <3>3
      <4>2. QED
        BY <1>2, <3>1, <4>1 DEF Openers
    <3>4. CASE start \in close .. n - 1
      <4> DEFINE i == start - (q + p)
      <4>1. /\ i \in 1 .. 1 + s /\ i + 1 \in 1 .. 1 + s /\ i \in 1 .. (1 + s) - 1
            /\ start = q + p + i /\ start + 1 = q + p + (i + 1)
        BY <1>1, <1>2, <1>5, <3>4
      <4> HIDE DEF i
      <4>2. tail[i] = "fence" /\ tail[i + 1] = "json"
        BY <1>1, <3>1, <4>1
      <4>3. find(tail, JsonFence, 1) = 0
        BY <1>4, <1>12 DEF tail
      <4>4. \A j \in 1 .. Len(tail) - 1 : ~(tail[j] = "fence" /\ tail[j + 1] = "json")
        BY <1>3, <4>3, JsonFenceFound
      <4>5. QED
        BY <1>3, <4>1, <4>2, <4>4
    <3>5. QED
      BY <1>7, <1>8, <3>1, <3>2, <3>3, <3>4
  <2>3. GenericBody(text)[1] = payload
    <3> DEFINE open == find(text, Fence, 1)
    <3>1. /\ open # 0 /\ open \in 1 .. n /\ text[open] = "fence"
          /\ \A j \in 1 .. open - 1 : text[j] # "fence"
      <4>1. m + 1 \in 1 .. Len(text)
        BY <1>2, <1>5 DEF n
      <4>2. QED
        BY <1>1, <1>6, <4>1, FenceFound DEF n
    <3> HIDE DEF open
    <3>2. open = m + 1
      <4>1. open <= m => open \in 1 .. m
        BY <1>2, <3>1
      <4>2. open > m + 1 => m + 1 \in 1 .. open - 1
        BY <1>2, <3>1
      <4>3. ~(open <= m) /\ ~(open > m + 1)
        BY <1>6, <1>7, <3>1, <4>1, <4>2
      <4>4. QED
        BY <1>2, <3>1, <4>3
    <3>3. open + 1 = q + 1 /\ open + 1 \in q + 1 .. close /\ close # 0
      <4>1. open + 1 \in q .. close
        BY <1>2, <1>5, <2>1, <3>2
      <4>2. QED
        BY <1>2, <1>5, <2>1, <3>2, <4>1
    <3>4. /\ find(text, Fence, open + 1) = close /\ Upto(text, open + 1, close) = payload
          /\ payload # <<>> /\ close # 0
      BY <1>9, <1>10, <3>3 DEF loads
    <3> HIDE DEF close
    <3>5. 1 \in 1 .. Len(text) + 1
      BY <1>2 DEF n
    <3>6. QED
      BY <1>1, <1>2, <3>1, <3>4, <3>5, GenericWalks, Zenon DEF open
  <2>4. QED
    BY <1>1, <2>2, <2>3, FirstThatParses DEF text
<1>13. QED
  BY <1>11, <1>12 DEF text

\* What may stand before a fenced payload.
LEMMA ShortTexts == <<>> \in Texts /\ <<"{">> \in Texts /\ <<"[", Quote>> \in Texts
BY DEF Texts, Openers, Quote

\* A joined text has no fence if its parts have none.
LEMMA Fenceless ==
  ASSUME NEW first \in Texts, NEW second \in Texts
  PROVE  (\A i \in 1 .. Len(first \o second) : (first \o second)[i] # "fence")
            <=> /\ \A i \in 1 .. Len(first) : first[i] # "fence"
                /\ \A i \in 1 .. Len(second) : second[i] # "fence"
<1> DEFINE a == Len(first)
           b == Len(second)
           both == first \o second
<1>1. /\ Len(both) = a + b /\ a \in Nat /\ b \in Nat
      /\ \A i \in 1 .. a : both[i] = first[i]
      /\ \A i \in 1 .. b : both[a + i] = second[i]
  BY Joined, TextFacts
<1> HIDE DEF a, b, both
<1>2. \A i \in 1 .. a + b : i \in 1 .. a \/ (i - a \in 1 .. b /\ a + (i - a) = i)
  BY <1>1
<1>3. (\A i \in 1 .. a : i \in 1 .. a + b) /\ \A i \in 1 .. b : a + i \in 1 .. a + b
  BY <1>1
<1>4. (\A i \in 1 .. a + b : both[i] # "fence")
         <=> (\A i \in 1 .. a : first[i] # "fence") /\ \A i \in 1 .. b : second[i] # "fence"
  <2>1. ASSUME \A i \in 1 .. a + b : both[i] # "fence"
        PROVE  (\A i \in 1 .. a : first[i] # "fence") /\ \A i \in 1 .. b : second[i] # "fence"
    BY <1>1, <1>3, <2>1
  <2>2. ASSUME \A i \in 1 .. a : first[i] # "fence", \A i \in 1 .. b : second[i] # "fence",
               NEW i \in 1 .. a + b
        PROVE  both[i] # "fence"
    <3>1. CASE i \in 1 .. a
      BY <1>1, <2>2, <3>1
    <3>2. ASSUME NEW k \in 1 .. b, i = a + k
          PROVE  both[i] # "fence"
      BY <1>1, <2>2, <3>2
    <3>3. i \in 1 .. a \/ \E k \in 1 .. b : i = a + k
      BY <1>2
    <3>4. QED
      BY <3>1, <3>2, <3>3
  <2>3. QED
    BY <2>1, <2>2
<1>5. QED
  BY <1>1, <1>4 DEF a, b, both

\* extract_json, for every text that json.loads accepts, all prose that opens no
\* other block that it accepts, and anything after: it finds the payload the answer
\* was written around, or something that parses between two of the answer's fences,
\* and the payload if there is no such thing; and a well fenced payload after
\* openers that are never closed, too.
THEOREM PayloadsFound == PayloadFound
<1> SUFFICES ASSUME NEW payload \in Payloads, NEW before \in Prose, NEW after \in Tails
             PROVE  /\ LET text == before \o payload \o after
                       IN  extract_json(text) \in {payload} \cup FencedJson(text)
                    /\ \A noise \in {<<>>, <<"{">>, <<"[", Quote>>}, mark \in {Fence, JsonFence} :
                           LET lead == noise \o before
                               text == lead \o mark \o payload \o Fence \o after
                           IN  WellFenced(lead, mark, payload, after) =>
                                   loads(text) \/ extract_json(text) = payload
  BY DEF PayloadFound
<1>1. /\ payload \in Texts /\ loads(payload) /\ before \in Texts /\ Passed(before) /\ after \in Texts
  BY AnswersAssumption
<1>2. LET text == before \o payload \o after
      IN  extract_json(text) \in {payload} \cup FencedJson(text)
  BY <1>1, FoundBare
<1>3. ASSUME NEW noise \in {<<>>, <<"{">>, <<"[", Quote>>}, NEW mark \in {Fence, JsonFence},
             WellFenced(noise \o before, mark, payload, after)
      PROVE  LET text == noise \o before \o mark \o payload \o Fence \o after
             IN  loads(text) \/ extract_json(text) = payload
  <2> DEFINE lead == noise \o before
             all == lead \o payload
  <2>1. noise \in Texts
    BY ShortTexts
  <2>2. lead \in Texts
    BY <1>1, <2>1, Joined
  <2> HIDE DEF lead
  <2>3. all \in Texts
    BY <1>1, <2>2, Joined
  <2>4. /\ \A i \in 1 .. Len(lead) : lead[i] # "fence"
        /\ \A i \in 1 .. Len(payload) : payload[i] # "fence"
    <3>1. FencePlaces(all) = {}
      BY <1>3 DEF WellFenced, lead
    <3>2. \A i \in 1 .. Len(all) : all[i] # "fence"
      BY <2>3, <3>1, NoPlaces
    <3>3. QED
      BY <1>1, <2>2, <3>2, Fenceless
  <2>5. LET text == lead \o mark \o payload \o Fence \o after
        IN  loads(text) \/ extract_json(text) = payload
    <3>1. mark = JsonFence \/ find(Fence \o after, JsonFence, 1) = 0
      BY <1>3 DEF WellFenced
    <3>2. mark \in {Fence, JsonFence} /\ payload \in Texts /\ after \in Texts /\ loads(payload)
      BY <1>1
    <3>3. CASE mark = Fence
      BY <2>2, <2>4, <3>1, <3>2, <3>3, FoundFenced
    <3>4. CASE mark = JsonFence
      BY <2>2, <2>4, <3>2, <3>4, FoundFenced
    <3>5. QED
      BY <3>3, <3>4
  <2>6. QED
    BY <2>5 DEF lead
<1>4. QED
  BY <1>2, <1>3

\* Whenever structured() waits for an answer, that is what parsing it will find.
THEOREM AnswersFound == Spec => []AnswersParsed
<1>1. AnswersParsed
  BY PayloadsFound DEF AnswersParsed
<1>2. QED
  BY <1>1, PTL
=============================================================================
