--------------------------- MODULE WorkflowProofs ---------------------------
(***************************************************************************)
(* Safety of Workflow for every set of steps, every graph and any number   *)
(* of crashes, failures and resumptions.  The strengthening says where the *)
(* locals of run() stand against the durable checkpoint in each phase, and *)
(* which steps may still run for the first time in the current run().      *)
(***************************************************************************)
EXTENDS Workflow, FiniteSetTheorems, TLAPS

\* A batch is in flight only in phase "batch", and holds ready steps only.
BatchInv ==
    \A s \in Steps : st[s] # "idle" =>
        phase = "batch" /\ s \notin outputs /\ deps[s] \subseteq outputs

\* run() is ahead of the checkpoint only while a batch of ready steps is saved.
SavedInv ==
    /\ phase \in {"ready", "batch", "saved", "returned", "unresolved"} =>
           outputs = saved.outputs
    /\ phase \in {"failed", "down"} => outputs = {}
    /\ phase = "saving" =>
           /\ saved.outputs \subseteq outputs
           /\ \A s \in outputs \ saved.outputs : deps[s] \subseteq saved.outputs

\* A step without output that the current run() has not called yet was called in
\* earlier ones only.
RunInv ==
    /\ OncePerRun
    /\ \A s \in Steps :
           phase \notin Over /\ s \notin outputs /\ st[s] \in {"idle", "queued", "asking"} =>
               ran[s] <= restarts

\* No step of a loop ever gets an output.
LoopInv ==
    /\ \A loop \in Loops : loop \cap outputs = {} /\ loop \cap saved.outputs = {}
    /\ UnresolvedOnlyOnCycle

WInv ==
    /\ TypeOK
    /\ DependencyOrder
    /\ CheckpointConsistent
    /\ BatchInv
    /\ SavedInv
    /\ RunInv
    /\ LoopInv
-----------------------------------------------------------------------------
\* Sets of steps are finite, so that counting them makes sense.
LEMMA Counting ==
  ASSUME NEW S \in SUBSET Steps, NEW T \in SUBSET Steps
  PROVE  /\ IsFiniteSet(S) /\ Cardinality(S) \in Nat
         /\ S \cap T = {} => Cardinality(S \cup T) = Cardinality(S) + Cardinality(T)
<1>1. IsFiniteSet(S) /\ IsFiniteSet(T) /\ IsFiniteSet(S \cap T)
  <2>1. S \cap T \in SUBSET Steps /\ IsFiniteSet(Steps)
    BY WorkflowAssumption DEF WorkflowAssumption
  <2>2. QED
    BY <2>1, FS_Subset
<1>2. Cardinality(S) \in Nat /\ Cardinality(T) \in Nat
  BY <1>1, FS_CardinalityType
<1>3. Cardinality(S \cup T) = Cardinality(S) + Cardinality(T) - Cardinality(S \cap T)
  BY <1>1, FS_Union
<1>4. Cardinality({}) = 0
  BY FS_EmptySet
<1>5. ASSUME S \cap T = {}
      PROVE  Cardinality(S \cup T) = Cardinality(S) + Cardinality(T)
  <2>1. Cardinality(S \cap T) = 0
    BY <1>4, <1>5
  <2>2. QED
    BY <1>2, <1>3, <2>1
<1>6. QED
  BY <1>1, <1>2, <1>5

\* The steps a batch is made of and the steps of run() are sets of steps.
LEMMA BatchSteps == Batch \in SUBSET Steps /\ Ready \in SUBSET Steps /\ Pending \in SUBSET Steps
BY DEF Batch, Ready, Pending

LEMMA InitWInv == Init => WInv
<1> SUFFICES ASSUME Init
             PROVE  WInv
  OBVIOUS
<1>1. deps \in [Steps -> SUBSET Steps]
  BY WorkflowAssumption DEF WorkflowAssumption, Init
<1>2. aborting \in BOOLEAN
  BY DEF Init
<1>3. TypeOK
  <2>1. saved \in Checkpoint
    BY DEF Init, FreshRun, Checkpoint, Charges, NoCharge
  <2>2. restarts \in 0 .. MaxRestarts
    BY WorkflowAssumption DEF WorkflowAssumption, Init
  <2>3. QED
    BY <1>1, <1>2, <2>1, <2>2
    DEF Init, TypeOK, Phases, StepStates, Charges, NoCharge
<1>4. Cardinality({}) = 0
  BY FS_EmptySet
<1>5. DependencyOrder /\ BatchInv /\ SavedInv /\ RunInv
  BY DEF Init, DependencyOrder, BatchInv, SavedInv, RunInv, OncePerRun, FreshRun, NoCharge, Over
<1>6. CheckpointConsistent
  BY <1>4 DEF Init, CheckpointConsistent, FreshRun, NoCharge
<1>7. LoopInv
  BY DEF Init, LoopInv, UnresolvedOnlyOnCycle, FreshRun
<1>8. QED
  BY <1>3, <1>5, <1>6, <1>7 DEF WInv
-----------------------------------------------------------------------------
\* The steps of a batch change nothing but their own state, the context they
\* were given and the number of times they ran.
LEMMA StepWInv ==
  ASSUME WInv, NEW s \in Steps, Step(s)
  PROVE  WInv'
<1> USE DEF WInv, TypeOK
<1>1. UNCHANGED <<deps, phase, outputs, hollow, cost, count, aborting, saved, restarts>>
  BY DEF Step, Ask, Run, Complete, Fail, Cancelled, CancelsItself
<1>2. /\ phase = "batch"
      /\ st[s] \in {"queued", "asking", "running"}
      /\ \E state \in StepStates \ {"idle"} : st' = [st EXCEPT ![s] = state]
  BY DEF Step, Ask, Run, Complete, Fail, Cancelled, CancelsItself, Live, Goto, StepStates, Ended
<1>3. \/ ran' = ran /\ seen' = seen
      \/ /\ st[s] = "asking"
         /\ st' = [st EXCEPT ![s] = "running"]
         /\ ran' = [ran EXCEPT ![s] = @ + 1]
         /\ seen' = [seen EXCEPT ![s] = outputs]
  BY DEF Step, Ask, Run, Complete, Fail, Cancelled, CancelsItself, Live, Goto
<1>4. TypeOK'
  BY <1>1, <1>2, <1>3 DEF Charges
<1>5. DependencyOrder'
  <2>1. \A t \in Steps : st'[t] \in {"running", "done"} =>
            deps[t] \subseteq seen'[t] /\ seen'[t] = outputs
    <3>1. CASE Ask(s)
      BY <3>1 DEF Ask, Live, Goto, DependencyOrder
    <3>2. CASE Run(s)
      BY <3>2 DEF Run, Live, Goto, DependencyOrder, BatchInv
    <3>3. CASE Complete(s)
      BY <3>3 DEF Complete, Live, Goto, DependencyOrder
    <3>4. CASE Fail(s)
      BY <3>4 DEF Fail, Live, Goto, DependencyOrder
    <3>5. CASE Cancelled(s)
      BY <3>5 DEF Cancelled, Goto, DependencyOrder
    <3>6. CASE CancelsItself(s)
      BY <3>6 DEF CancelsItself, Goto, DependencyOrder
    <3>7. QED
      BY <3>1, <3>2, <3>3, <3>4, <3>5, <3>6 DEF Step
  <2>2. QED
    BY <1>1, <2>1 DEF DependencyOrder
<1>6. CheckpointConsistent' /\ SavedInv' /\ LoopInv'
  <2>1. CheckpointConsistent'
    BY <1>1 DEF CheckpointConsistent
  <2>2. SavedInv'
    BY <1>1 DEF SavedInv
  <2>3. LoopInv'
    BY <1>1 DEF LoopInv, Loops, UnresolvedOnlyOnCycle
  <2>4. QED
    BY <2>1, <2>2, <2>3
<1>7. BatchInv'
  BY <1>1, <1>2 DEF BatchInv
<1>8. RunInv'
  <2>1. CASE ran' = ran
    <3>1. \A t \in Steps : st'[t] \in {"idle", "queued", "asking"} =>
              st[t] \in {"idle", "queued", "asking"}
      BY DEF Step, Ask, Run, Complete, Fail, Cancelled, CancelsItself, Live, Goto
    <3>2. QED
      BY <1>1, <2>1, <3>1 DEF RunInv, OncePerRun
  <2>2. CASE st[s] = "asking" /\ st' = [st EXCEPT ![s] = "running"]
             /\ ran' = [ran EXCEPT ![s] = @ + 1]
    BY <1>1, <1>2, <2>2 DEF RunInv, OncePerRun, BatchInv, Over, Charges
  <2>3. QED
    BY <1>3, <2>1, <2>2
<1>9. QED
  BY <1>4, <1>5, <1>6, <1>7, <1>8
-----------------------------------------------------------------------------
\* What the end of a run and a resumption do to the batch.
LEMMA NewBatchInv ==
  ASSUME NewBatch
  PROVE  /\ st' \in [Steps -> StepStates] /\ seen' \in [Steps -> SUBSET Steps]
         /\ aborting' \in BOOLEAN
         /\ \A s \in Steps : st'[s] = "idle"
<1>1. st' = [s \in Steps |-> "idle"] /\ seen' = [s \in Steps |-> {}]
  BY DEF NewBatch
<1>2. aborting' \in BOOLEAN
  BY DEF NewBatch
<1>3. QED
  BY <1>1, <1>2 DEF StepStates

\* A run that ends without a result leaves nothing behind but its checkpoint.
LEMMA FailedWInv ==
  ASSUME WInv, NEW how \in {"failed", "down"}, Failed(how)
  PROVE  WInv'
<1> USE DEF WInv, TypeOK
<1>1. /\ phase' = how /\ outputs' = {} /\ hollow' = {} /\ cost' = NoCharge /\ count' = 0
      /\ UNCHANGED <<deps, saved, ran, restarts>>
  BY DEF Failed
<1>2. /\ st' \in [Steps -> StepStates] /\ seen' \in [Steps -> SUBSET Steps]
      /\ aborting' \in BOOLEAN
      /\ \A s \in Steps : st'[s] = "idle"
  BY NewBatchInv DEF Failed
<1>3. TypeOK'
  <2>1. cost' \in Charges /\ count' \in Nat /\ phase' \in Phases
        /\ outputs' \in SUBSET Steps /\ hollow' \in SUBSET Steps
    BY <1>1 DEF Charges, NoCharge, Phases, Over
  <2>2. UNCHANGED <<deps, saved, ran, restarts>>
    BY <1>1
  <2>3. QED
    BY <1>2, <2>1, <2>2
<1>4. CheckpointConsistent'
  <2>1. Cardinality({}) = 0
    BY FS_EmptySet
  <2>2. QED
    BY <1>1, <2>1 DEF CheckpointConsistent, NoCharge
<1>5. DependencyOrder' /\ BatchInv' /\ SavedInv'
  BY <1>1, <1>2 DEF DependencyOrder, BatchInv, SavedInv
<1>6. RunInv'
  BY <1>1 DEF RunInv, OncePerRun, Over
<1>7. LoopInv'
  BY <1>1 DEF LoopInv, Loops, UnresolvedOnlyOnCycle
<1>8. QED
  BY <1>3, <1>4, <1>5, <1>6, <1>7
-----------------------------------------------------------------------------
LEMMA NextBatchWInv ==
  ASSUME WInv, NextBatch
  PROVE  WInv'
<1> USE DEF WInv, TypeOK, NextBatch
<1>1. \A s \in Steps : st'[s] = (IF s \in Ready THEN "queued" ELSE "idle")
  OBVIOUS
<1>2. UNCHANGED <<deps, outputs, hollow, cost, count, seen, aborting, saved, ran, restarts>>
  OBVIOUS
<1>3. TypeOK'
  BY DEF Phases, StepStates
<1>4. DependencyOrder' /\ CheckpointConsistent'
  BY <1>1, <1>2 DEF DependencyOrder, CheckpointConsistent
<1>5. BatchInv' /\ SavedInv'
  BY <1>1, <1>2 DEF BatchInv, SavedInv, Ready, Pending
<1>6. RunInv'
  <2>1. \A s \in Steps : st[s] = "idle"
    BY DEF BatchInv
  <2>2. QED
    BY <1>2, <2>1 DEF RunInv, OncePerRun, Over
<1>7. LoopInv'
  BY <1>2 DEF LoopInv, Loops, UnresolvedOnlyOnCycle
<1>8. QED
  BY <1>3, <1>4, <1>5, <1>6, <1>7

\* When nothing is ready, the steps that are left wait for each other.
LEMMA UnresolvableWInv ==
  ASSUME WInv, Unresolvable
  PROVE  WInv'
<1> USE DEF WInv, TypeOK, Unresolvable
<1>1. UNCHANGED <<deps, localVars, saved, ran, restarts>> /\ phase' = "unresolved"
  OBVIOUS
<1>2. Pending \in Loops
  <2>1. ASSUME NEW s \in Pending
        PROVE  deps[s] \cap Pending # {}
    <3>1. s \in Steps /\ s \notin Ready
      BY DEF Pending
    <3>2. ~(deps[s] \subseteq outputs) /\ deps[s] \subseteq Steps
      BY <3>1 DEF Ready
    <3>3. QED
      BY <3>2 DEF Pending
  <2>2. QED
    BY <2>1, BatchSteps DEF Loops
<1>3. Loops' = Loops
  BY <1>1 DEF Loops
<1>4. TypeOK'
  BY <1>1 DEF localVars, Phases, Over
<1>5. DependencyOrder' /\ CheckpointConsistent' /\ BatchInv' /\ SavedInv'
  BY <1>1 DEF localVars, DependencyOrder, CheckpointConsistent, BatchInv, SavedInv
<1>6. RunInv'
  BY <1>1 DEF localVars, RunInv, OncePerRun, Over
<1>7. LoopInv'
  BY <1>1, <1>2, <1>3 DEF localVars, LoopInv, UnresolvedOnlyOnCycle
<1>8. QED
  BY <1>4, <1>5, <1>6, <1>7

\* When every step has its output, no loop is left to be outside.
LEMMA ReturnWInv ==
  ASSUME WInv, Return
  PROVE  WInv'
<1> USE DEF WInv, TypeOK, Return
<1>1. UNCHANGED <<deps, localVars, saved, ran, restarts>> /\ phase' = "returned"
  OBVIOUS
<1>2. outputs = Steps
  BY DEF Pending
<1>3. Loops = {}
  BY <1>2 DEF LoopInv, Loops
<1>4. Loops' = Loops
  BY <1>1 DEF Loops
<1>5. TypeOK'
  BY <1>1 DEF localVars, Phases, Over
<1>6. DependencyOrder' /\ CheckpointConsistent' /\ BatchInv' /\ SavedInv'
  BY <1>1 DEF localVars, DependencyOrder, CheckpointConsistent, BatchInv, SavedInv
<1>7. RunInv'
  BY <1>1 DEF localVars, RunInv, OncePerRun, Over
<1>8. LoopInv'
  BY <1>1, <1>2, <1>3, <1>4 DEF localVars, LoopInv, UnresolvedOnlyOnCycle
<1>9. QED
  BY <1>5, <1>6, <1>7, <1>8
-----------------------------------------------------------------------------

\* The whole batch gets its outputs and charges at once.
LEMMA CollectWInv ==
  ASSUME WInv, Collect
  PROVE  WInv'
<1> USE DEF WInv, TypeOK, Collect
<1>1. /\ outputs' = outputs \cup Batch /\ hollow' = hollow \cup (Batch \ Done)
      /\ phase' = "saving"
      /\ UNCHANGED <<deps, saved, ran, restarts>>
  OBVIOUS
<1>2. /\ st' \in [Steps -> StepStates] /\ seen' \in [Steps -> SUBSET Steps]
      /\ aborting' \in BOOLEAN
      /\ \A s \in Steps : st'[s] = "idle"
  BY NewBatchInv
<1>3. /\ Batch \in SUBSET Steps /\ outputs \cap Batch = {}
      /\ \A s \in Batch : s \in Steps /\ deps[s] \subseteq outputs
  BY BatchSteps DEF BatchInv, Batch
<1>4. /\ Cardinality(Batch) \in Nat
      /\ Cardinality(outputs \cup Batch) = Cardinality(outputs) + Cardinality(Batch)
  BY <1>3, Counting
<1>5. cost' = [s \in Steps |-> IF s \in outputs' \ hollow' THEN 1 ELSE 0]
  <2>1. Done \subseteq Batch /\ hollow \subseteq outputs
    BY DEF Done, CheckpointConsistent
  <2>2. \A s \in Steps : s \in outputs' \ hollow' <=> s \in (outputs \ hollow) \cup Done
    BY <1>1, <1>3, <2>1
  <2>3. QED
    BY <1>3, <2>1, <2>2 DEF CheckpointConsistent
<1>6. TypeOK'
  <2>1. cost' \in Charges
    BY <1>5 DEF Charges
  <2>2. count' \in Nat
    BY <1>4
  <2>3. phase' \in Phases /\ outputs' \in SUBSET Steps /\ hollow' \in SUBSET Steps
    BY <1>1, <1>3 DEF Phases
  <2>4. UNCHANGED <<deps, saved, ran, restarts>>
    BY <1>1
  <2>5. QED
    BY <1>2, <2>1, <2>2, <2>3, <2>4
<1>7. CheckpointConsistent'
  <2>1. count' = Cardinality(outputs')
    BY <1>1, <1>4 DEF CheckpointConsistent
  <2>2. UNCHANGED saved
    BY <1>1
  <2>3. hollow' \subseteq outputs'
    BY <1>1 DEF CheckpointConsistent
  <2>4. QED
    BY <1>5, <2>1, <2>2, <2>3 DEF CheckpointConsistent
<1>8. DependencyOrder' /\ BatchInv'
  BY <1>1, <1>2, <1>3 DEF DependencyOrder, BatchInv
<1>9. SavedInv'
  BY <1>1, <1>3 DEF SavedInv
<1>10. RunInv'
  <2>1. \A s \in Steps : s \notin outputs' => st[s] = "idle" /\ s \notin outputs
    BY <1>1 DEF Batch
  <2>2. QED
    BY <1>1, <2>1 DEF RunInv, OncePerRun, Over
<1>11. LoopInv'
  <2>1. ASSUME NEW loop \in Loops
        PROVE  loop \cap outputs' = {}
    <3>1. loop \cap outputs = {} /\ \A s \in loop : deps[s] \cap loop # {}
      BY DEF LoopInv, Loops
    <3>2. loop \cap Batch = {}
      BY <1>3, <3>1
    <3>3. QED
      BY <1>1, <3>1, <3>2
  <2>2. Loops' = Loops
    BY <1>1 DEF Loops
  <2>3. QED
    BY <1>1, <2>1, <2>2 DEF LoopInv, UnresolvedOnlyOnCycle
<1>12. QED
  BY <1>6, <1>7, <1>8, <1>9, <1>10, <1>11

\* The checkpoint catches up with run() ...
LEMMA PersistWInv ==
  ASSUME WInv, Persist
  PROVE  WInv'
<1> USE DEF WInv, TypeOK, Persist
<1>1. /\ saved'.outputs = outputs /\ saved'.hollow = hollow /\ saved'.cost = cost /\ saved'.step_index = count
      /\ phase' = "saved"
      /\ UNCHANGED <<deps, outputs, hollow, cost, count, st, seen, aborting, ran, restarts>>
  BY DEF localVars
<1>2. TypeOK'
  <2>1. saved' \in Checkpoint
    BY DEF Checkpoint
  <2>2. phase' \in Phases
    BY <1>1 DEF Phases
  <2>3. QED
    BY <1>1, <2>1, <2>2
<1>3. DependencyOrder' /\ BatchInv' /\ SavedInv'
  BY <1>1 DEF DependencyOrder, BatchInv, SavedInv
<1>4. CheckpointConsistent'
  BY <1>1 DEF CheckpointConsistent
<1>5. RunInv'
  BY <1>1 DEF RunInv, OncePerRun, Over
<1>6. LoopInv'
  BY <1>1 DEF LoopInv, Loops, UnresolvedOnlyOnCycle
<1>7. QED
  BY <1>2, <1>3, <1>4, <1>5, <1>6

\* ... so that a later run() can start where it left off.
LEMMA ResumeWInv ==
  ASSUME WInv, Resume
  PROVE  WInv'
<1> USE DEF WInv, TypeOK, Resume
<1>1. /\ outputs' = saved.outputs /\ hollow' = saved.hollow /\ cost' = saved.cost
      /\ count' = Cardinality(saved.outputs) /\ phase' = "ready"
      /\ restarts' = restarts + 1 /\ restarts < MaxRestarts
      /\ UNCHANGED <<deps, saved, ran>>
  OBVIOUS
<1>2. /\ st' \in [Steps -> StepStates] /\ seen' \in [Steps -> SUBSET Steps]
      /\ aborting' \in BOOLEAN
      /\ \A s \in Steps : st'[s] = "idle"
  BY NewBatchInv
<1>3. saved.outputs \in SUBSET Steps /\ saved.hollow \in SUBSET Steps /\ saved.cost \in Charges
  BY DEF Checkpoint
<1>4. TypeOK'
  <2>1. count' \in Nat
    BY <1>1, <1>3, Counting
  <2>2. restarts' \in 0 .. MaxRestarts
    BY <1>1, WorkflowAssumption DEF WorkflowAssumption
  <2>3. phase' \in Phases
    BY <1>1 DEF Phases
  <2>4. QED
    BY <1>1, <1>2, <1>3, <2>1, <2>2, <2>3
<1>5. DependencyOrder' /\ BatchInv' /\ SavedInv'
  BY <1>1, <1>2 DEF DependencyOrder, BatchInv, SavedInv
<1>6. CheckpointConsistent'
  BY <1>1 DEF CheckpointConsistent
<1>7. RunInv'
  BY <1>1 DEF RunInv, OncePerRun, Charges
<1>8. LoopInv'
  BY <1>1 DEF LoopInv, Loops, UnresolvedOnlyOnCycle
<1>9. QED
  BY <1>4, <1>5, <1>6, <1>7, <1>8
-----------------------------------------------------------------------------
\* A step that only moves the phase on, or cancels the batch, keeps everything.
LEMMA QuietWInv ==
  ASSUME WInv, Abort \/ CheckpointReturns \/ UNCHANGED vars
  PROVE  WInv'
<1> USE DEF WInv, TypeOK
<1>1. UNCHANGED <<deps, outputs, hollow, cost, count, st, seen, saved, ran, restarts>>
  BY DEF Abort, CheckpointReturns, localVars, vars
<1>2. phase' = phase \/ (phase = "saved" /\ phase' = "ready")
  BY DEF Abort, CheckpointReturns, vars
<1>3. aborting' \in BOOLEAN
  BY DEF Abort, CheckpointReturns, localVars, vars
<1>4. TypeOK'
  BY <1>1, <1>2, <1>3 DEF Phases
<1>5. DependencyOrder' /\ CheckpointConsistent'
  BY <1>1 DEF DependencyOrder, CheckpointConsistent
<1>6. BatchInv' /\ SavedInv'
  BY <1>1, <1>2 DEF BatchInv, SavedInv
<1>7. RunInv'
  BY <1>1, <1>2 DEF RunInv, OncePerRun, Over
<1>8. LoopInv'
  BY <1>1, <1>2 DEF LoopInv, Loops, UnresolvedOnlyOnCycle
<1>9. QED
  BY <1>4, <1>5, <1>6, <1>7, <1>8

LEMMA Inductive == WInv /\ [Next]_vars => WInv'
<1> SUFFICES ASSUME WInv, [Next]_vars
             PROVE  WInv'
  OBVIOUS
<1>1. CASE \E s \in Steps : Step(s)
  BY <1>1, StepWInv
<1>2. CASE Loop
  <2>1. CASE BatchFails \/ CheckpointRaises
    BY <2>1, FailedWInv DEF BatchFails, CheckpointRaises
  <2>2. QED
    BY <1>2, <2>1, NextBatchWInv, UnresolvableWInv, ReturnWInv, CollectWInv,
       PersistWInv, QuietWInv DEF Loop
<1>3. CASE Crash
  BY <1>3, FailedWInv DEF Crash
<1>4. CASE Resume
  BY <1>4, ResumeWInv
<1>5. CASE Abort \/ Stopped \/ UNCHANGED vars
  BY <1>5, QuietWInv DEF Stopped
<1>6. QED
  BY <1>1, <1>2, <1>3, <1>4, <1>5 DEF Next
-----------------------------------------------------------------------------
\* The variables keep their types in every run, crash and resumption.
THEOREM TypeCorrect == Spec => []TypeOK
<1>1. WInv => TypeOK
  BY DEF WInv
<1>2. QED
  BY <1>1, InitWInv, Inductive, PTL DEF Spec

\* Every step runs on the outputs of all it depends on, in every graph.
THEOREM Order == Spec => []DependencyOrder
<1>1. WInv => DependencyOrder
  BY DEF WInv
<1>2. QED
  BY <1>1, InitWInv, Inductive, PTL DEF Spec

\* One run() calls a step at most once, whatever fails in it.
THEOREM AtMostOncePerRun == Spec => []OncePerRun
<1>1. WInv => OncePerRun
  BY DEF WInv, RunInv
<1>2. QED
  BY <1>1, InitWInv, Inductive, PTL DEF Spec

\* Costs and counts travel with the outputs they belong to.
THEOREM Consistent == Spec => []CheckpointConsistent
<1>1. WInv => CheckpointConsistent
  BY DEF WInv
<1>2. QED
  BY <1>1, InitWInv, Inductive, PTL DEF Spec

\* Giving up on the dependencies and finding a loop in them are the same thing.
THEOREM Unresolved == Spec => []UnresolvedOnlyOnCycle
<1>1. WInv => UnresolvedOnlyOnCycle
  BY DEF WInv, LoopInv
<1>2. QED
  BY <1>1, InitWInv, Inductive, PTL DEF Spec
-----------------------------------------------------------------------------
\* A checkpoint only grows, and only the steps outside it can run.
LEMMA NoRepeat ==
  ASSUME WInv, [Next]_vars
  PROVE  /\ saved.outputs \subseteq saved'.outputs
         /\ \A s \in saved.outputs : ran'[s] = ran[s]
<1> USE DEF WInv, TypeOK
<1>1. CASE \E s \in Steps : Run(s)
  <2>1. PICK s \in Steps : Run(s)
    BY <1>1
  <2>2. s \notin saved.outputs
    BY <2>1 DEF Run, Live, BatchInv, SavedInv
  <2>3. QED
    BY <2>1, <2>2 DEF Run, Charges, Checkpoint
<1>2. CASE Persist
  BY <1>2 DEF Persist, SavedInv
<1>3. CASE ~Persist /\ ~\E s \in Steps : Run(s)
  <2>1. saved' = saved /\ ran' = ran
    BY <1>3 DEF Next, Step, Loop, Ask, Complete, Fail, Cancelled, CancelsItself, NextBatch, Unresolvable,
       Return, Collect, BatchFails, CheckpointReturns, CheckpointRaises, Failed, Abort,
       Crash, Resume, Stopped, vars
  <2>2. QED
    BY <2>1
<1>4. QED
  BY <1>1, <1>2, <1>3

\* A step whose output is in a durable checkpoint never runs again.
THEOREM NeverRepeated == Spec => ResumeNeverRepeats
<1>1. WInv /\ [Next]_vars =>
          [/\ saved.outputs \subseteq saved'.outputs
           /\ \A s \in saved.outputs : ran'[s] = ran[s]]_vars
  BY NoRepeat
<1>2. QED
  BY <1>1, InitWInv, Inductive, PTL DEF Spec, ResumeNeverRepeats
-----------------------------------------------------------------------------
LEMMA InitRefines == Init => Dag!Init
BY WorkflowAssumption DEF WorkflowAssumption, Init, Dag!Init, FreshRun

\* Making a checkpoint durable finishes its batch; returning is returning; all
\* else is invisible.
LEMMA NextRefines ==
  ASSUME WInv, [Next]_vars
  PROVE  [Dag!Next]_(Dag!dagVars)
<1> USE DEF WInv, TypeOK
<1>1. CASE Persist
  <2>1. /\ saved'.outputs = outputs /\ phase' = "saved" /\ phase = "saving" /\ deps' = deps
    BY <1>1 DEF Persist
  <2>2. outputs \ saved.outputs \in SUBSET Steps
    OBVIOUS
  <2>3. Dag!Finish(outputs \ saved.outputs)
    BY <2>1 DEF Dag!Finish, SavedInv
  <2>4. QED
    BY <2>2, <2>3 DEF Dag!Next
<1>2. CASE Return
  <2>1. saved.outputs = Steps /\ deps' = deps /\ saved' = saved /\ phase' = "returned"
    BY <1>2 DEF Return, Pending, SavedInv
  <2>2. QED
    BY <2>1 DEF Dag!Return, Dag!Next
<1>3. CASE ~Persist /\ ~Return
  <2>1. saved' = saved /\ deps' = deps
    BY <1>3 DEF Next, Step, Loop, Ask, Run, Complete, Fail, Cancelled, CancelsItself, NextBatch, Unresolvable,
       Collect, BatchFails, CheckpointReturns, CheckpointRaises, Failed, Abort,
       Crash, Resume, Stopped, vars
  <2>2. (phase' = "returned") = (phase = "returned")
    BY <1>3 DEF Next, Step, Loop, Ask, Run, Complete, Fail, Cancelled, CancelsItself, Live, NextBatch,
       Unresolvable, Collect, BatchFails, CheckpointReturns, CheckpointRaises, Failed, Abort,
       Crash, Resume, Stopped, Over, vars
  <2>3. QED
    BY <2>1, <2>2 DEF Dag!dagVars
<1>4. QED
  BY <1>1, <1>2, <1>3

\* Workflow.run(), with its crashes and resumptions, implements DagExecution.
THEOREM Refinement == Spec => ImplementsDag
<1>1. QED
  BY InitRefines, NextRefines, InitWInv, Inductive, PTL DEF Spec, ImplementsDag, Dag!Spec
-----------------------------------------------------------------------------
(* Progress. *)

\* How many more steps of run() a step of the workflow can take in its batch.
Height(state) ==
    CASE state = "idle" -> 4
      [] state = "queued" -> 3
      [] state = "asking" -> 2
      [] state = "running" -> 1
      [] OTHER -> 0

\* What run() can do before it has more outputs or is over.
StepsLeft == UNION {{s} \X (1 .. Height(st[s])) : s \in Steps}
PhasesLeft ==
    (IF aborting THEN {} ELSE {"abort"}) \cup
    (CASE phase = "saving" -> {"saved", "ready", "batch"}
       [] phase = "saved" -> {"ready", "batch"}
       [] phase = "ready" -> {"batch"}
       [] OTHER -> {})

\* run() ends, or fewer steps are without output, or there is less to do before.
Advances ==
    \/ phase \notin Over /\ phase' \in Over
    \/ Pending' \subseteq Pending /\ Pending' # Pending
    \/ /\ Pending' = Pending /\ StepsLeft' \subseteq StepsLeft /\ PhasesLeft' \subseteq PhasesLeft
       /\ StepsLeft' # StepsLeft \/ PhasesLeft' # PhasesLeft

\* A batch has steps.
BatchFull == phase = "batch" => Batch # {}

LEMMA StepDescends ==
  ASSUME WInv, NEW s \in Steps, Step(s)
  PROVE  /\ phase = "batch" /\ UNCHANGED <<phase, outputs, aborting>>
         /\ \A t \in Steps \ {s} : st'[t] = st[t]
         /\ st[s] # "idle" /\ st'[s] # "idle"
         /\ Height(st[s]) \in Nat /\ Height(st'[s]) \in Nat /\ Height(st'[s]) < Height(st[s])
<1>1. /\ phase = "batch" /\ UNCHANGED <<phase, outputs, aborting>>
      /\ \/ st[s] = "queued" /\ Goto(s, "asking")
         \/ st[s] = "asking" /\ Goto(s, "running")
         \/ st[s] = "running" /\ Goto(s, "done")
         \/ st[s] \in {"asking", "running"} /\ Goto(s, "failed")
         \/ st[s] \in {"queued", "asking", "running"} /\ Goto(s, "cancelled")
  BY DEF Step, Ask, Run, Complete, Fail, Cancelled, CancelsItself, Live
<1>2. ASSUME NEW state, Goto(s, state)
      PROVE  st'[s] = state /\ \A t \in Steps \ {s} : st'[t] = st[t]
  BY <1>2 DEF Goto, WInv, TypeOK
<1>3. /\ Height("queued") = 3 /\ Height("asking") = 2 /\ Height("running") = 1
      /\ Height("done") = 0 /\ Height("failed") = 0 /\ Height("cancelled") = 0
  BY DEF Height
<1>4. QED
  BY <1>1, <1>2, <1>3

LEMMA StepAdvances ==
  ASSUME WInv, NEW s \in Steps, Step(s)
  PROVE  Advances
<1> DEFINE high == Height(st[s])
           low == Height(st'[s])
<1>1. /\ UNCHANGED <<phase, outputs, aborting>>
      /\ \A t \in Steps \ {s} : st'[t] = st[t]
      /\ high \in Nat /\ low \in Nat /\ low < high
  BY StepDescends
<1>2. Pending' = Pending /\ PhasesLeft' = PhasesLeft
  BY <1>1 DEF Pending, PhasesLeft
<1>3. 1 .. low \subseteq 1 .. high /\ high \in 1 .. high /\ high \notin 1 .. low
  <2> HIDE DEF high, low
  <2>1. QED
    BY ONLY <1>1
<1>4. StepsLeft' \subseteq StepsLeft
  BY <1>1, <1>3 DEF StepsLeft
<1>5. <<s, high>> \in StepsLeft /\ <<s, high>> \notin StepsLeft'
  <2>1. <<s, high>> \in StepsLeft
    BY <1>3 DEF StepsLeft
  <2>2. <<s, high>> \notin StepsLeft'
    <3> HIDE DEF high
    <3>1. QED
      BY <1>3 DEF StepsLeft
  <2>3. QED
    BY <2>1, <2>2
<1>6. QED
  BY <1>2, <1>4, <1>5 DEF Advances

LEMMA LoopAdvances ==
  ASSUME WInv, BatchFull, Loop
  PROVE  Advances
<1>1. CASE Unresolvable \/ Return \/ BatchFails \/ CheckpointRaises
  BY <1>1 DEF Unresolvable, Return, BatchFails, CheckpointRaises, Failed, Over, Advances
<1>2. CASE NextBatch
  <2>1. Pending' = Pending /\ PhasesLeft' \subseteq PhasesLeft /\ PhasesLeft' # PhasesLeft
    <3>1. phase = "ready" /\ phase' = "batch" /\ aborting' = aborting /\ outputs' = outputs
      BY <1>2 DEF NextBatch
    <3>2. "batch" \in PhasesLeft
      BY <3>1 DEF PhasesLeft
    <3>3. "batch" \notin PhasesLeft' /\ PhasesLeft' \subseteq PhasesLeft
      BY <3>1 DEF PhasesLeft
    <3>4. QED
      BY <3>1, <3>2, <3>3 DEF Pending
  <2>2. \A s \in Steps : st[s] = "idle" /\ st'[s] \in {"idle", "queued"}
    BY <1>2 DEF NextBatch, WInv, BatchInv
  <2>3. \A s \in Steps : 1 .. Height(st'[s]) \subseteq 1 .. Height(st[s])
    <3>1. Height("idle") = 4 /\ Height("queued") = 3
      BY DEF Height
    <3>2. QED
      BY <2>2, <3>1
  <2>4. StepsLeft' \subseteq StepsLeft
    BY <2>3 DEF StepsLeft
  <2>5. QED
    BY <2>1, <2>4 DEF Advances
<1>3. CASE Collect
  <2>1. PICK s \in Steps : s \in Batch
    BY <1>3 DEF Collect, BatchFull, Batch
  <2>2. s \in Pending /\ s \notin Pending' /\ Pending' \subseteq Pending
    BY <1>3, <2>1 DEF Collect, Pending, Batch, WInv, BatchInv
  <2>3. QED
    BY <2>2 DEF Advances
<1>4. CASE Persist \/ CheckpointReturns
  <2>1. Pending' = Pending /\ StepsLeft' = StepsLeft
    BY <1>4 DEF Persist, CheckpointReturns, localVars, Pending, StepsLeft
  <2>2. PhasesLeft' \subseteq PhasesLeft /\ PhasesLeft' # PhasesLeft
    BY <1>4 DEF Persist, CheckpointReturns, localVars, PhasesLeft
  <2>3. QED
    BY <2>1, <2>2 DEF Advances
<1>5. QED
  BY <1>1, <1>2, <1>3, <1>4 DEF Loop

LEMMA NextBatchFull == WInv /\ BatchFull /\ [Next]_vars => BatchFull'
<1>1. ASSUME WInv, BatchFull, NEW s \in Steps, Step(s)
      PROVE  BatchFull'
  BY <1>1, StepDescends DEF BatchFull, Batch
<1>2. ASSUME NextBatch
      PROVE  BatchFull'
  BY <1>2 DEF NextBatch, BatchFull, Batch, Ready, Pending
<1>3. ASSUME Unresolvable \/ Return \/ Collect \/ BatchFails \/ Persist \/ CheckpointReturns
                 \/ CheckpointRaises \/ Crash \/ Resume
      PROVE  BatchFull'
  BY <1>3 DEF Unresolvable, Return, Collect, BatchFails, Persist, CheckpointReturns, CheckpointRaises,
              Crash, Resume, Failed, BatchFull
<1>4. ASSUME BatchFull, Abort \/ Stopped \/ UNCHANGED vars
      PROVE  BatchFull'
  BY <1>4 DEF Abort, Stopped, vars, localVars, BatchFull, Batch
<1>5. QED
  BY <1>1, <1>2, <1>3, <1>4 DEF Next, Loop

LEMMA WorkFinite ==
  ASSUME WInv
  PROVE  IsFiniteSet(StepsLeft) /\ IsFiniteSet(Pending)
<1> DEFINE top == 4
<1>1. IsFiniteSet(Steps)
  BY WorkflowAssumption DEF WorkflowAssumption
<1>2. \A s \in Steps : Height(st[s]) \in 0 .. top
  BY DEF Height
<1>3. top \in Nat
  OBVIOUS
<1> HIDE DEF top
<1>4. StepsLeft \subseteq Steps \X (1 .. top)
  BY <1>2, <1>3 DEF StepsLeft
<1>5. IsFiniteSet(1 .. top)
  BY <1>3, FS_Interval
<1>6. QED
  BY <1>1, <1>4, <1>5, FS_Product, FS_Subset DEF Pending

\* Between two resumptions every step of a workflow uses up a part of a finite
\* amount of work, whatever fails, hangs up or is cancelled: run() ends, unless it
\* waits for ever.
THEOREM BoundedRun ==
  Spec => [](IsFiniteSet(StepsLeft) /\ IsFiniteSet(Pending))
          /\ [][restarts' = restarts => Advances]_vars
<1>1. ASSUME WInv, BatchFull, Next, vars' # vars, restarts' = restarts
      PROVE  Advances
  <2>1. CASE Abort
    <3>1. aborting = FALSE /\ aborting' = TRUE
      BY <1>1, <2>1 DEF Abort, vars, localVars, WInv, TypeOK
    <3>2. Pending' = Pending /\ StepsLeft' = StepsLeft
      BY <2>1 DEF Abort, Pending, StepsLeft
    <3>3. "abort" \in PhasesLeft /\ "abort" \notin PhasesLeft' /\ PhasesLeft' \subseteq PhasesLeft
      BY <2>1, <3>1 DEF Abort, PhasesLeft
    <3>4. QED
      BY <3>2, <3>3 DEF Advances
  <2>2. CASE Crash
    BY <2>2 DEF Crash, Failed, Over, Advances
  <2>3. CASE Resume
    BY <1>1, <2>3 DEF Resume, WInv, TypeOK
  <2>4. QED
    BY <1>1, <2>1, <2>2, <2>3, StepAdvances, LoopAdvances DEF Next, Stopped
<1>2. WInv /\ BatchFull /\ [Next]_vars => [restarts' = restarts => Advances]_vars
  BY <1>1
<1>3. Init => BatchFull
  BY DEF Init, BatchFull
<1>4. WInv => IsFiniteSet(StepsLeft) /\ IsFiniteSet(Pending)
  BY WorkFinite
<1>5. QED
  BY <1>2, <1>3, <1>4, InitWInv, Inductive, NextBatchFull, PTL DEF Spec

\* The guards of Step(s) and of Loop.
MayStep(s) ==
    /\ phase = "batch"
    /\ st[s] \in IF aborting THEN {"queued", "asking", "running"}
                 ELSE IF Cardinality(Holding) < MaxConcurrency THEN {"queued", "asking", "running"}
                 ELSE {"asking", "running"}

MayLoop ==
    \/ phase \in {"ready", "saving", "saved"}
    \/ phase = "batch" /\ \A s \in Batch : st[s] \in Ended

\* The safety half of WorkflowEnds: while run() is under way, a step of its batch
\* can go on or run() itself can.  No step waits for a slot that nobody frees, and
\* a batch that has ended in any mix of ways is collected or fails.
THEOREM NeverStuck == Spec => [](phase \in Over \/ MayLoop \/ \E s \in Steps : MayStep(s))
<1>1. ASSUME WInv, phase \notin Over, ~MayLoop
      PROVE  \E s \in Steps : MayStep(s)
  <2>1. phase = "batch"
    BY <1>1 DEF MayLoop, WInv, TypeOK, Phases
  <2>2. PICK s \in Steps : st[s] \in {"queued", "asking", "running"}
    BY <1>1, <2>1 DEF MayLoop, Batch, WInv, TypeOK, StepStates
  <2>3. CASE MayStep(s)
    BY <2>3
  <2>4. CASE ~MayStep(s)
    <3>1. Cardinality(Holding) # 0
      BY <2>1, <2>2, <2>4, WorkflowAssumption DEF MayStep, WorkflowAssumption
    <3>2. PICK h \in Holding : TRUE
      BY <3>1, FS_EmptySet
    <3>3. h \in Steps /\ MayStep(h)
      BY <2>1, <3>2 DEF Holding, Batch, MayStep
    <3>4. QED
      BY <3>3
  <2>5. QED
    BY <2>3, <2>4
<1>2. WInv => phase \in Over \/ MayLoop \/ \E s \in Steps : MayStep(s)
  BY <1>1
<1>3. QED
  BY <1>2, InitWInv, Inductive, PTL DEF Spec
-----------------------------------------------------------------------------
(* The abstract execution by itself, of any graph and in any batches. *)

VARIABLES finished, returned

Execution == INSTANCE DagExecution

LEMMA DagInvInductive ==
  /\ Execution!Init => Execution!DagInv
  /\ Execution!DagInv /\ [Execution!Next]_(Execution!dagVars) => Execution!DagInv'
<1> USE DEF Execution!DagInv, Execution!DagTypeOK, Execution!Closed, Execution!LoopsNeverFinish
<1>1. Execution!Init => Execution!DagInv
  BY DEF Execution!Init
<1>2. ASSUME Execution!DagInv, NEW batch \in SUBSET Steps, Execution!Finish(batch)
      PROVE  Execution!DagInv'
  <2>1. Execution!DagTypeOK' /\ Execution!Closed'
    BY <1>2 DEF Execution!Finish
  <2>2. ASSUME NEW loop \in SUBSET Steps, \A s \in loop : deps[s] \cap loop # {}
        PROVE  loop \cap finished' = {}
    BY <1>2, <2>2 DEF Execution!Finish
  <2>3. QED
    BY <1>2, <2>1, <2>2 DEF Execution!Finish
<1>3. ASSUME Execution!DagInv, Execution!Return
      PROVE  Execution!DagInv'
  <2>1. ASSUME NEW loop \in SUBSET Steps, loop # {}
        PROVE  \E s \in loop : deps[s] \cap loop = {}
    BY <1>3, <2>1 DEF Execution!Return
  <2>2. Execution!Acyclic'
    BY <1>3, <2>1 DEF Execution!Return, Execution!Acyclic
  <2>3. QED
    BY <1>3, <2>2 DEF Execution!Return
<1>4. ASSUME Execution!DagInv, UNCHANGED Execution!dagVars
      PROVE  Execution!DagInv'
  BY <1>4 DEF Execution!dagVars, Execution!Acyclic
<1>5. QED
  BY <1>1, <1>2, <1>3, <1>4 DEF Execution!Next

\* Whatever the graph and whatever is finished together: dependencies finish
\* first, and a workflow with a loop never returns.
THEOREM DagSafe == Execution!Spec => [](Execution!Closed /\ Execution!LoopsNeverFinish)
<1>1. Execution!DagInv => Execution!Closed /\ Execution!LoopsNeverFinish
  BY DEF Execution!DagInv
<1>2. QED
  BY <1>1, DagInvInductive, PTL DEF Execution!Spec
=============================================================================
