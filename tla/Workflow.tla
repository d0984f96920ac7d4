------------------------------ MODULE Workflow ------------------------------
(***************************************************************************)
(* Workflow.run(): batches of ready steps run by gather_strict(), outputs  *)
(* and cost applied after each batch, a WorkflowCheckpoint handed to the   *)
(* caller's checkpoint_fn, and the run resumed from the last checkpoint    *)
(* that became durable after a failure or a crash of the process.  Without *)
(* a checkpoint_fn a run skips "saving" and "saved", and a resumption is a *)
(* fresh run.                                                              *)
(*                                                                         *)
(* outputs holds step names only: initial_context may not collide with one *)
(* and no step can depend on its keys.  Of the values it tells apart only  *)
(* a step's own from the None of a step that cancelled itself.  cost       *)
(* counts how often a step's cost was added to total_cost.                 *)
(***************************************************************************)
EXTENDS Integers, FiniteSets

CONSTANTS Steps,
          Graphs,          \* the dependency graphs Workflow may be built with
          MaxConcurrency,  \* DEFAULT_MAX_CONCURRENCY of gather_strict
          MaxRestarts      \* bound on the caller's resumptions

ASSUME WorkflowAssumption ==
    /\ IsFiniteSet(Steps)
    /\ Graphs \subseteq [Steps -> SUBSET Steps]
    /\ MaxConcurrency \in Nat \ {0}
    /\ MaxRestarts \in Nat

VARIABLES
    deps,      \* depends_on, as validated by the constructor
    phase,     \* where run() is suspended, or how it ended
    outputs,   \* the steps with an entry in outputs of run()
    hollow,    \* those whose entry is gather_strict's placeholder None
    cost,      \* total_cost of run()
    count,     \* completed_count of run()
    st,        \* the steps of the current batch
    seen,      \* the context each of them was given
    aborting,  \* the TaskGroup has cancelled its unfinished steps
    saved,     \* the last checkpoint that became durable
    ran,       \* how often each step was run, over all runs
    restarts   \* how often the caller resumed

localVars == <<outputs, hollow, cost, count, st, seen, aborting>>
vars == <<deps, phase, localVars, saved, ran, restarts>>

Over == {"returned", "failed", "unresolved", "down"}
Phases == {"ready", "batch", "saving", "saved"} \cup Over
Ended == {"done", "failed", "cancelled"}
StepStates == {"idle", "queued", "asking", "running"} \cup Ended
Charges == [Steps -> Nat]
NoCharge == [s \in Steps |-> 0]
Checkpoint ==
    [outputs : SUBSET Steps, hollow : SUBSET Steps, cost : Charges, step_index : Nat]
\* What a caller that has stored no checkpoint yet resumes from: a fresh run.
FreshRun == [outputs |-> {}, hollow |-> {}, cost |-> NoCharge, step_index |-> 0]

Init ==
    /\ deps \in Graphs
    /\ phase = "ready"
    /\ outputs = {}
    /\ hollow = {}
    /\ cost = NoCharge
    /\ count = 0
    /\ st = [s \in Steps |-> "idle"]
    /\ seen = [s \in Steps |-> {}]
    /\ aborting = FALSE
    /\ saved = FreshRun
    /\ ran = NoCharge
    /\ restarts = 0
-----------------------------------------------------------------------------
(* The loop of run(). *)

Pending == Steps \ outputs

\* Faulty: one dependency is enough.
Ready_Any == {s \in Pending : deps[s] = {} \/ deps[s] \cap outputs # {}}

Ready == {s \in Pending : deps[s] \subseteq outputs}

Batch == {s \in Steps : st[s] # "idle"}

NextBatch ==
    /\ phase = "ready"
    /\ Ready # {}
    /\ phase' = "batch"
    /\ st' = [s \in Steps |-> IF s \in Ready THEN "queued" ELSE "idle"]
    /\ UNCHANGED <<deps, outputs, hollow, cost, count, seen, aborting, saved, ran, restarts>>

\* Faulty: gives up as soon as one step has to wait.
Unresolvable_Eager ==
    /\ phase = "ready"
    /\ Ready # Pending
    /\ phase' = "unresolved"
    /\ UNCHANGED <<deps, localVars, saved, ran, restarts>>

\* "Workflow dependencies could not be resolved"
Unresolvable ==
    /\ phase = "ready"
    /\ Pending # {}
    /\ Ready = {}
    /\ phase' = "unresolved"
    /\ UNCHANGED <<deps, localVars, saved, ran, restarts>>

Return ==
    /\ phase = "ready"
    /\ Pending = {}
    /\ phase' = "returned"
    /\ UNCHANGED <<deps, localVars, saved, ran, restarts>>
-----------------------------------------------------------------------------
(* _run_step in a slot of gather_strict's semaphore. *)

\* Faulty: a slot is never given back.
Holding_Leak == {s \in Batch : st[s] # "queued"}

Holding == {s \in Batch : st[s] \in {"asking", "running"}}

\* After the abort every suspended step resumes with CancelledError only.
Live(s, state) == phase = "batch" /\ ~aborting /\ st[s] = state

Goto(s, state) == st' = [st EXCEPT ![s] = state]

\* The step gets a slot; the approval gate and the start event come first.
Ask(s) ==
    /\ Live(s, "queued")
    /\ Cardinality(Holding) < MaxConcurrency
    /\ Goto(s, "asking")
    /\ UNCHANGED <<deps, phase, outputs, hollow, cost, count, seen, aborting, saved, ran, restarts>>

\* Approved and announced: step.run is called on a copy of the outputs.
Run(s) ==
    /\ Live(s, "asking")
    /\ Goto(s, "running")
    /\ seen' = [seen EXCEPT ![s] = outputs]
    /\ ran' = [ran EXCEPT ![s] = @ + 1]
    /\ UNCHANGED <<deps, phase, outputs, hollow, cost, count, aborting, saved, restarts>>

\* The step has its output and the end event was delivered.
Complete(s) ==
    /\ Live(s, "running")
    /\ Goto(s, "done")
    /\ UNCHANGED <<deps, phase, outputs, hollow, cost, count, seen, aborting, saved, ran, restarts>>

\* Denied, timed out, the step itself raised, or a trace callback did.
Fail(s) ==
    /\ Live(s, "asking") \/ Live(s, "running")
    /\ Goto(s, "failed")
    /\ UNCHANGED <<deps, phase, outputs, hollow, cost, count, seen, aborting, saved, ran, restarts>>

Cancelled(s) ==
    /\ phase = "batch"
    /\ aborting
    /\ st[s] \in {"queued", "asking", "running"}
    /\ Goto(s, "cancelled")
    /\ UNCHANGED <<deps, phase, outputs, hollow, cost, count, seen, aborting, saved, ran, restarts>>

\* The gate, the step or a trace callback ends in a CancelledError of its own,
\* as when a task the step awaits is cancelled.
CancelsItself(s) ==
    /\ Live(s, "asking") \/ Live(s, "running")
    /\ Goto(s, "cancelled")
    /\ UNCHANGED <<deps, phase, outputs, hollow, cost, count, seen, aborting, saved, ran, restarts>>

\* The done-callback of a failed step, or the caller of run(), cancels the rest.
Abort ==
    /\ phase = "batch"
    /\ aborting' = TRUE
    /\ UNCHANGED <<deps, phase, outputs, hollow, cost, count, st, seen, saved, ran, restarts>>
-----------------------------------------------------------------------------
(* The end of a batch, and its checkpoint. *)

NewBatch ==
    /\ st' = [s \in Steps |-> "idle"]
    /\ seen' = [s \in Steps |-> {}]
    /\ aborting' = FALSE

Done == {s \in Batch : st[s] = "done"}

\* gather_strict returned: all outputs of the batch are applied, or none.  A
\* TaskGroup passes over a child that cancelled itself, so its None is applied.
Collect ==
    /\ phase = "batch"
    /\ ~aborting
    /\ \A s \in Batch : st[s] \in {"done", "cancelled"}
    /\ outputs' = outputs \cup Batch
    /\ hollow' = hollow \cup (Batch \ Done)
    /\ cost' = [s \in Steps |-> IF s \in Done THEN cost[s] + 1 ELSE cost[s]]
    /\ count' = count + Cardinality(Batch)
    /\ phase' = "saving"
    /\ NewBatch
    /\ UNCHANGED <<deps, saved, ran, restarts>>

Failed(how) ==
    /\ phase' = how
    /\ outputs' = {}
    /\ hollow' = {}
    /\ cost' = NoCharge
    /\ count' = 0
    /\ NewBatch
    /\ UNCHANGED <<deps, saved, ran, restarts>>

BatchFails ==
    /\ phase = "batch"
    /\ \A s \in Batch : st[s] \in Ended
    /\ aborting \/ \E s \in Batch : st[s] = "failed"
    /\ Failed("failed")

\* Faulty: the checkpoint holds what the last batch added.
Persist_Last ==
    /\ phase = "saving"
    /\ saved' = [outputs |-> outputs \ saved.outputs, hollow |-> hollow \ saved.outputs,
                  cost |-> cost, step_index |-> count]
    /\ phase' = "saved"
    /\ UNCHANGED <<deps, localVars, ran, restarts>>

\* checkpoint_fn makes the checkpoint durable ...
Persist ==
    /\ phase = "saving"
    /\ saved' = [outputs |-> outputs, hollow |-> hollow, cost |-> cost, step_index |-> count]
    /\ phase' = "saved"
    /\ UNCHANGED <<deps, localVars, ran, restarts>>

\* ... and returns, or raises or is cancelled, before or after it did.
CheckpointReturns ==
    /\ phase = "saved"
    /\ phase' = "ready"
    /\ UNCHANGED <<deps, localVars, saved, ran, restarts>>

CheckpointRaises == phase \in {"saving", "saved"} /\ Failed("failed")
-----------------------------------------------------------------------------
(* The process and the caller. *)

Crash == phase \notin Over /\ Failed("down")

\* Faulty: resume_from restores the cost but not the outputs.
Resume_Forgets ==
    /\ phase \in Over \ {"returned"}
    /\ restarts < MaxRestarts
    /\ restarts' = restarts + 1
    /\ phase' = "ready"
    /\ outputs' = {}
    /\ hollow' = {}
    /\ cost' = saved.cost
    /\ count' = Cardinality(saved.outputs)
    /\ NewBatch
    /\ UNCHANGED <<deps, saved, ran>>

\* Faulty: resume_from restores the outputs but not the cost.
Resume_DropsCost ==
    /\ phase \in Over \ {"returned"}
    /\ restarts < MaxRestarts
    /\ restarts' = restarts + 1
    /\ phase' = "ready"
    /\ outputs' = saved.outputs
    /\ hollow' = saved.hollow
    /\ cost' = NoCharge
    /\ count' = Cardinality(saved.outputs)
    /\ NewBatch
    /\ UNCHANGED <<deps, saved, ran>>

\* run(resume_from=saved), or a fresh run() when nothing was saved.
Resume ==
    /\ phase \in Over \ {"returned"}
    /\ restarts < MaxRestarts
    /\ restarts' = restarts + 1
    /\ phase' = "ready"
    /\ outputs' = saved.outputs
    /\ hollow' = saved.hollow
    /\ cost' = saved.cost
    /\ count' = Cardinality(saved.outputs)
    /\ NewBatch
    /\ UNCHANGED <<deps, saved, ran>>

\* What run() and the steps do by themselves.
Step(s) ==
    \/ Ask(s)
    \/ Run(s)
    \/ Complete(s)
    \/ Fail(s)
    \/ Cancelled(s)
    \/ CancelsItself(s)

Loop ==
    \/ NextBatch
    \/ Unresolvable
    \/ Return
    \/ Collect
    \/ BatchFails
    \/ Persist
    \/ CheckpointReturns
    \/ CheckpointRaises

Stopped == phase \in Over /\ UNCHANGED vars

Next ==
    \/ \E s \in Steps : Step(s)
    \/ Loop
    \/ Abort
    \/ Crash
    \/ Resume
    \/ Stopped

\* Steps, approvals and checkpoint_fn come to an end (an approval gate without a
\* timeout is one the caller trusts to answer); nobody has to crash or resume.
Fairness ==
    /\ \A s \in Steps : WF_vars(Step(s))
    /\ WF_vars(Loop)

Spec == Init /\ [][Next]_vars

FairSpec == Spec /\ Fairness
-----------------------------------------------------------------------------
TypeOK ==
    /\ deps \in [Steps -> SUBSET Steps]
    /\ phase \in Phases
    /\ outputs \in SUBSET Steps
    /\ hollow \in SUBSET Steps
    /\ cost \in Charges
    /\ count \in Nat
    /\ st \in [Steps -> StepStates]
    /\ seen \in [Steps -> SUBSET Steps]
    /\ aborting \in BOOLEAN
    /\ saved \in Checkpoint
    /\ ran \in Charges
    /\ restarts \in 0 .. MaxRestarts

\* A step runs on the outputs of everything it depends on, and on nothing a
\* sibling of its batch produced, although all of them share the dict; what run()
\* and the checkpoint hold can be replayed in dependency order.
DependencyOrder ==
    /\ \A s \in Steps : st[s] \in {"running", "done"} =>
           deps[s] \subseteq seen[s] /\ seen[s] = outputs
    /\ \A s \in outputs : deps[s] \subseteq outputs
    /\ \A s \in saved.outputs : deps[s] \subseteq saved.outputs

\* Once a checkpoint with a step's output is durable the step never runs again,
\* however often the process crashes, checkpoint_fn raises or a step fails.
ResumeNeverRepeats ==
    [][/\ saved.outputs \subseteq saved'.outputs
       /\ \A s \in saved.outputs : ran'[s] = ran[s]]_vars

\* No step runs twice in one run(), not even one that lost its output because a
\* sibling failed: repetition takes a new run().
OncePerRun == \A s \in Steps : ran[s] <= restarts + 1

\* total_cost and step_index describe exactly the outputs they travel with, in
\* run() and in the checkpoint: resuming neither forgets nor repeats a charge,
\* and only a step without a result goes uncharged.
CheckpointConsistent ==
    /\ hollow \subseteq outputs
    /\ saved.hollow \subseteq saved.outputs
    /\ cost = [s \in Steps |-> IF s \in outputs \ hollow THEN 1 ELSE 0]
    /\ saved.cost =
           [s \in Steps |-> IF s \in saved.outputs \ saved.hollow THEN 1 ELSE 0]
    /\ count = Cardinality(outputs)
    /\ saved.step_index = Cardinality(saved.outputs)

\* A set of steps that wait for each other.
Loops == {loop \in SUBSET Steps : loop # {} /\ \A s \in loop : deps[s] \cap loop # {}}

\* run() gives up on the dependencies only when they really are cyclic, and
\* returns only when they are not and every step has an output.
UnresolvedOnlyOnCycle ==
    /\ phase = "unresolved" => Loops # {}
    /\ phase = "returned" => Loops = {} /\ outputs = Steps

\* Every run ends, in a result, an error or a crash: no step waits for ever for
\* a slot, a batch or a dependency.
WorkflowEnds == <>[](phase \in Over)

\* A workflow implements the abstract one, with the steps of the last durable
\* checkpoint as what is finished: crashes, failed batches and resumptions are
\* invisible.
Dag == INSTANCE DagExecution WITH finished <- saved.outputs, returned <- phase = "returned"
ImplementsDag == Dag!Spec
-----------------------------------------------------------------------------
(* What the repository's texts say, and the code does not do. *)

\* parallel.py, gather_strict: "Run coroutines concurrently with all-or-nothing
\* semantics"; docs/guides/workflows.md: "Resume treats names present in
\* checkpoint.outputs as completed steps".
CheckpointedStepsCompleted == saved.hollow = {}
=============================================================================
