----------------------------- MODULE RefineLoop -----------------------------
(***************************************************************************)
(* refine_loop(): generate, evaluate, checkpoint, ask the                  *)
(* ConvergenceDetector, and generate again from the best candidate so far. *)
(* The evaluator is the built-in one, itself a checked call, or the        *)
(* caller's.  A candidate is its place in score_history.                   *)
(***************************************************************************)
EXTENDS StepCalls, Sequences

CONSTANTS Scores,          \* the scores an evaluator gives, on any integer scale
          TargetScore,     \* target_score
          DeltaThreshold,  \* delta_threshold
          Patience,        \* patience
          MaxIterations    \* max_iterations, after the initial generation

ASSUME RefineAssumption ==
    /\ Scores \subseteq Nat
    /\ TargetScore \in Nat
    /\ DeltaThreshold \in Nat
    /\ Patience \in Nat \ {0}
    /\ MaxIterations \in Nat

VARIABLES
    builtin,   \* the built-in evaluator is used
    scores,    \* score_history
    best,      \* the candidate that is best_text
    stale      \* ConvergenceDetector._stale_count

loopVars == <<builtin, scores, best, stale>>

Abs(n) == IF n < 0 THEN -n ELSE n

\* The stale count once the newest score is recorded.  A change as large as the
\* threshold counts as none, as the code and its tests have it; the docstring of
\* ConvergenceDetector says "below".
StaleNow ==
    IF Len(scores) < 2 THEN stale
    ELSE IF Abs(scores[Len(scores)] - scores[Len(scores) - 1]) <= DeltaThreshold
         THEN stale + 1 ELSE 0

\* Faulty: one stale change more than patience allows.
ShouldStop_Late == scores[Len(scores)] >= TargetScore \/ StaleNow > Patience

\* ConvergenceDetector.should_stop, asked about the newest score.
ShouldStop == scores[Len(scores)] >= TargetScore \/ StaleNow >= Patience

\* The loop's locals at its start.
LoopInit(default) ==
    /\ builtin' = default
    /\ scores' = <<>>
    /\ best' = 0
    /\ stale' = 0
-----------------------------------------------------------------------------
Generated ==
    /\ Answered("generate", "evaluate")
    /\ UNCHANGED <<ending, loopVars>>

\* Faulty: the newest candidate replaces the best one when it is as good.
Better_OrEqual(s) == best = 0 \/ s >= scores[best]

Better(s) == best = 0 \/ s > scores[best]

\* The candidate's score is appended, and the candidate kept if it is better.
Scored(s) ==
    /\ scores' = Append(scores, s)
    /\ best' = IF Better(s) THEN Len(scores) + 1 ELSE best
    /\ UNCHANGED <<builtin, stale>>

\* The built-in evaluator's response holds a number.
Rated ==
    /\ builtin
    /\ Answered("evaluate", "checkpoint")
    /\ \E s \in Scores : Scored(s)
    /\ UNCHANGED ending

\* It holds none from 0 to 10: ValueError.
Unrated ==
    /\ builtin
    /\ Answered("evaluate", "checkpoint")
    /\ End("foreign", Zero)
    /\ UNCHANGED loopVars

\* The caller's evaluator returns.  Calls it makes on its own are not the step's:
\* neither checked against max_cost nor charged to the tracker.
Judged ==
    /\ ~builtin
    /\ At("evaluate")
    /\ phase' = "checkpoint"
    /\ \E s \in Scores : Scored(s)
    /\ UNCHANGED <<maxCost, tracker, callVars, ending, spent>>

\* It raises, or returns no score from 0 to 1, for which should_stop raises
\* ValueError once the checkpoint callback has seen it.
Misjudged ==
    /\ ~builtin
    /\ At("evaluate")
    /\ CallerRaises
    /\ UNCHANGED <<maxCost, tracker, phase, callVars, spent, loopVars>>

LastIteration == Len(scores) - 1 >= MaxIterations

\* The checkpoint callback returned or raised, which makes no difference.
Checkpointed ==
    /\ At("checkpoint")
    /\ stale' = StaleNow
    /\ IF ShouldStop \/ LastIteration
       THEN End("returned", tracker) /\ UNCHANGED phase
       ELSE phase' = "generate" /\ UNCHANGED ending
    /\ UNCHANGED <<maxCost, tracker, callVars, spent, builtin, scores, best>>

\* The task is cancelled there.
CheckpointCancelled ==
    /\ At("checkpoint")
    /\ End("foreign", Zero)
    /\ UNCHANGED <<maxCost, tracker, phase, callVars, spent, loopVars>>

\* The await is that of a provider call.
RefineCalling == phase = "generate" \/ (phase = "evaluate" /\ builtin)

RefineNext ==
    \/ Generated
    \/ Rated
    \/ Unrated
    \/ Judged
    \/ Misjudged
    \/ Checkpointed
    \/ CheckpointCancelled
-----------------------------------------------------------------------------
\* When should_stop is due, of a history and without a counter: the score met the
\* target, or none of the last Patience changes exceeded the threshold.
Converged(history) ==
    LET n == Len(history) IN
    \/ history[n] >= TargetScore
    \/ /\ n > Patience
       /\ \A i \in n - Patience + 1 .. n :
              Abs(history[i] - history[i - 1]) <= DeltaThreshold

\* refine_loop goes on while its history has not converged and iterations are
\* left, and returns at the first score where one of the two fails.
StopsWhereDue ==
    scores # <<>> /\ phase \in {"generate", "evaluate", "checkpoint"} =>
        /\ \A n \in 1 .. Len(scores) - 1 : ~Converged(SubSeq(scores, 1, n))
        /\ Len(scores) <= MaxIterations + 1
        /\ phase # "checkpoint" => ~Converged(scores) /\ Len(scores) <= MaxIterations
        /\ ending.how = "returned" => Converged(scores) \/ Len(scores) = MaxIterations + 1

\* The candidate the next prompt builds on, and the one returned, is the first
\* of those with the highest score: a later regression or draw never replaces it.
BestKept ==
    scores # <<>> =>
        /\ best \in 1 .. Len(scores)
        /\ \A i \in 1 .. Len(scores) :
               /\ scores[i] <= scores[best]
               /\ i < best => scores[i] < scores[best]
=============================================================================
