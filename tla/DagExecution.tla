---------------------------- MODULE DagExecution ----------------------------
(***************************************************************************)
(* What Workflow promises, whatever fails or crashes in between: finished  *)
(* steps are never lost or repeated, a step finishes only after everything *)
(* it depends on, and the workflow returns when every step has finished.   *)
(***************************************************************************)
CONSTANT Steps

VARIABLES deps,      \* deps[s]: the steps s depends on
          finished,  \* the steps whose output is durable
          returned   \* the workflow has handed its result to the caller
dagVars == <<deps, finished, returned>>

Init ==
    /\ deps \in [Steps -> SUBSET Steps]
    /\ finished = {}
    /\ returned = FALSE

\* Some steps that depend on finished steps only finish together.
Finish(batch) ==
    /\ ~returned
    /\ \A s \in batch : s \notin finished /\ deps[s] \subseteq finished
    /\ finished' = finished \cup batch
    /\ UNCHANGED <<deps, returned>>

Return ==
    /\ finished = Steps
    /\ returned' = TRUE
    /\ UNCHANGED <<deps, finished>>

Next == Return \/ \E batch \in SUBSET Steps : Finish(batch)

Spec == Init /\ [][Next]_dagVars
-----------------------------------------------------------------------------
\* A graph can be run to the end when no set of steps waits for itself.
Acyclic == \A loop \in SUBSET Steps :
               loop # {} => \E s \in loop : deps[s] \cap loop = {}

DagTypeOK ==
    /\ deps \in [Steps -> SUBSET Steps]
    /\ finished \in SUBSET Steps
    /\ returned \in BOOLEAN

\* What has finished can be replayed in dependency order: no step in it depends
\* on one outside it, and the steps outside are all there is left to do.
Closed == \A s \in finished : deps[s] \subseteq finished

\* Every loop of steps that wait for each other stays outside for ever, so a
\* workflow that returns was acyclic.
LoopsNeverFinish ==
    /\ \A loop \in SUBSET Steps :
           (\A s \in loop : deps[s] \cap loop # {}) => loop \cap finished = {}
    /\ returned => Acyclic
-----------------------------------------------------------------------------
\* What every step keeps: a finished step has only finished dependencies, and a
\* returned workflow has no other.
DagInv == DagTypeOK /\ Closed /\ LoopsNeverFinish
=============================================================================
