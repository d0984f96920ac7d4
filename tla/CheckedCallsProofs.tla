------------------------- MODULE CheckedCallsProofs -------------------------
(***************************************************************************)
(* For every fan-out, concurrency, retry count, budget and usage:          *)
(* CheckedCalls is well typed, implements SpendMeter, and therefore keeps  *)
(* its call budget and bounds its token overshoot; traces, bills, refusals *)
(* and outcomes are what they claim to be; and the summary of a            *)
(* TraceCollector agrees with the tracker.                                 *)
(***************************************************************************)
EXTENDS Telemetry, FiniteSetTheorems, TLAPS

\* What types alone do not say: a task that has not begun has reserved nothing,
\* one that has begun has, and one that waits to retry has a retry left.
AttemptsInv ==
    \A t \in Tasks :
        /\ pc[t] = "queued" => attempts[t] = 0
        /\ pc[t] \in InFlightStates => attempts[t] > 0
        /\ pc[t] = "backoff" => attempts[t] <= MaxRetries

\* The reduce call belongs to the phase after the fan-out.
PhaseInv == \A r \in Reducers : pc[r] \in {"absent", "queued"} \/ FannedOut

IInv == TypeOK /\ AttemptsInv /\ PhaseInv
-----------------------------------------------------------------------------
(* The invariant. *)

LEMMA ZeroCost == Zero \in Cost
BY DEF Zero, Cost

LEMMA InitIInv == Init => IInv
<1> SUFFICES ASSUME Init
             PROVE  IInv
  OBVIOUS
<1> USE CallsAssumption DEF CallsAssumption, Init
<1>1. Zero \in Cost
  BY ZeroCost
<1>2. TypeOK
  <2>1. pc \in [Tasks -> PCs] /\ exc \in [Tasks -> Kinds]
    BY DEF PCs, Kinds
  <2>2. attempts \in [Tasks -> 0 .. MaxRetries + 1] /\ terminals \in [Tasks -> Nat]
    OBVIOUS
  <2>3. excCost \in [Tasks -> Cost] /\ used \in Cost /\ billed \in Cost
    BY <1>1
  <2>4. aborting \in BOOLEAN /\ cancelled \in BOOLEAN
    OBVIOUS
  <2>5. outcome \in Outcomes
    BY DEF Outcomes
  <2>6. QED
    BY <2>1, <2>2, <2>3, <2>4, <2>5 DEF TypeOK
<1>3. AttemptsInv
  BY DEF AttemptsInv, InFlightStates
<1>4. PhaseInv
  BY DEF PhaseInv, Tasks
<1>5. QED
  BY <1>2, <1>3, <1>4 DEF IInv

\* Only a task's own step moves it, so the fan-out stays complete.
LEMMA GotoPhase ==
  ASSUME TypeOK, PhaseInv, NEW t \in Tasks, NEW st \in PCs, Goto(t, st),
         t \in Samples => pc[t] # "done",
         t \in Reducers => FannedOut
  PROVE  PhaseInv'
<1>1. ASSUME NEW r \in Reducers, pc'[r] \notin {"absent", "queued"}
      PROVE  FannedOut /\ FannedOut'
  <2>1. FannedOut
    BY <1>1 DEF PhaseInv, Goto, TypeOK, Tasks
  <2>2. t \notin Samples
    BY <2>1 DEF FannedOut
  <2>3. QED
    BY <2>1, <2>2 DEF FannedOut, Goto, TypeOK, Tasks
<1>2. QED
  BY <1>1 DEF PhaseInv

\* Both outcomes of the check before an attempt.
LEMMA BeforeAttemptIInv ==
  ASSUME IInv, NEW t \in Tasks, pc[t] \in {"queued", "backoff"},
         t \in Reducers => FannedOut,
         BeforeAttempt(t), UNCHANGED groupVars
  PROVE  IInv'
<1> USE CallsAssumption DEF CallsAssumption, IInv
<1>1. attempts[t] + 1 \in 1 .. MaxRetries + 1
  BY DEF AttemptsInv, TypeOK
<1>2. CASE Refused(attempts[t] + 1)
  <2>1. Raise(t, "budget", used) /\ UNCHANGED <<attempts, used>>
    BY <1>2 DEF BeforeAttempt
  <2>2. TypeOK'
    BY <2>1 DEF TypeOK, Raise, Goto, PCs, Kinds, groupVars
  <2>3. AttemptsInv'
    BY <2>1 DEF AttemptsInv, Raise, Goto, TypeOK, InFlightStates
  <2>4. PhaseInv'
    BY <2>1, GotoPhase DEF Raise, PCs
  <2>5. QED
    BY <2>2, <2>3, <2>4
<1>3. CASE ~Refused(attempts[t] + 1)
  <2>1. /\ reserve_call
        /\ attempts' = [attempts EXCEPT ![t] = attempts[t] + 1]
        /\ Goto(t, "starting")
        /\ UNCHANGED <<terminals, exc, excCost>>
    BY <1>3 DEF BeforeAttempt
  <2>2. used' \in Cost
    BY <2>1 DEF reserve_call, TypeOK, Cost, Fields
  <2>3. TypeOK'
    BY <1>1, <2>1, <2>2 DEF TypeOK, Goto, PCs, InFlightStates, groupVars
  <2>4. AttemptsInv'
    BY <1>1, <2>1 DEF AttemptsInv, Goto, TypeOK, InFlightStates
  <2>5. PhaseInv'
    BY <2>1, GotoPhase DEF PCs, InFlightStates
  <2>6. QED
    BY <2>3, <2>4, <2>5
<1>4. QED
  BY <1>2, <1>3
\* One step per action: the typing of what it assigns, and for the tasks it
\* moves the two facts about attempts and phases.
LEMMA StepIInv ==
  ASSUME IInv, NEW t \in Tasks, Step(t)
  PROVE  IInv'
<1> USE CallsAssumption DEF CallsAssumption, IInv
<1>1. CASE Begin(t)
  <2>1. t \in Reducers => FannedOut
    BY <1>1 DEF Begin, MayStart
  <2>2. QED
    BY <1>1, <2>1, BeforeAttemptIInv DEF Begin
<1>2. CASE Retry(t)
  <2>1. t \in Reducers => FannedOut
    BY <1>2 DEF Retry, PhaseInv
  <2>2. QED
    BY <1>2, <2>1, BeforeAttemptIInv DEF Retry
<1>3. ASSUME pc[t] \notin {"absent", "queued"} \cup Ended, NEW st \in PCs, Goto(t, st),
             attempts' = attempts,
             st # "queued", st \in InFlightStates => pc[t] \in InFlightStates,
             st = "backoff" => attempts[t] <= MaxRetries
      PROVE  AttemptsInv' /\ PhaseInv'
  <2>1. AttemptsInv'
    BY <1>3 DEF AttemptsInv, Goto, TypeOK
  <2>2. (t \in Samples => pc[t] # "done") /\ (t \in Reducers => FannedOut)
    BY <1>3 DEF PhaseInv, Ended
  <2>3. PhaseInv'
    BY <1>3, <2>2, GotoPhase
  <2>4. QED
    BY <2>1, <2>3
<1> USE DEF PCs, InFlightStates, Ended
<1>4. CASE Dispatch(t)
  <2>1. TypeOK'
    BY <1>4 DEF Dispatch, TypeOK, Goto, groupVars
  <2>2. QED
    BY <1>3, <1>4, <2>1 DEF Dispatch
<1>5. CASE StartEventRaises(t)
  <2>1. TypeOK'
    BY <1>5, ZeroCost DEF StartEventRaises, Raise, TypeOK, Goto, Kinds, groupVars
  <2>2. QED
    BY <1>3, <1>5, <2>1 DEF StartEventRaises, Raise
<1>6. CASE Respond(t)
  <2>1. used' \in Cost
    BY <1>6 DEF Respond, record_without_call, TypeOK, Cost
  <2>2. TypeOK'
    BY <1>6, <2>1 DEF Respond, TypeOK, Goto, groupVars
  <2>3. QED
    BY <1>3, <1>6, <2>2 DEF Respond
<1>7. CASE RespondBadUsage(t)
  <2>1. used' \in Cost
    BY <1>7 DEF RespondBadUsage, TypeOK, Cost, TokenFields
  <2>2. TypeOK'
    BY <1>7, <2>1 DEF RespondBadUsage, TypeOK, Goto, Kinds, groupVars
  <2>3. QED
    BY <1>3, <1>7, <2>2 DEF RespondBadUsage
<1>8. CASE Backoff(t)
  <2>1. TypeOK'
    BY <1>8 DEF Backoff, TypeOK, Goto, groupVars
  <2>2. QED
    BY <1>3, <1>8, <2>1 DEF Backoff
<1>9. CASE GiveUp(t)
  <2>1. TypeOK'
    BY <1>9, ZeroCost DEF GiveUp, Raise, TypeOK, Goto, Kinds, groupVars
  <2>2. QED
    BY <1>3, <1>9, <2>1 DEF GiveUp, Raise
<1>10. CASE Finish(t)
  <2>1. TypeOK'
    BY <1>10 DEF Finish, TypeOK, Goto, groupVars
  <2>2. QED
    BY <1>3, <1>10, <2>1 DEF Finish
<1>11. CASE FinalEventRaises(t)
  <2>1. TypeOK'
    BY <1>11, ZeroCost DEF FinalEventRaises, TypeOK, Goto, Kinds, groupVars
  <2>2. QED
    BY <1>3, <1>11, <2>1 DEF FinalEventRaises
<1>12. CASE Cancelled(t)
  <2>1. TypeOK'
    BY <1>12 DEF Cancelled, TypeOK, Goto, groupVars
  <2>2. AttemptsInv'
    BY <1>12 DEF Cancelled, AttemptsInv, Goto, TypeOK
  <2>3. PhaseInv'
    BY <1>12, GotoPhase DEF Cancelled
  <2>4. QED
    BY <2>1, <2>2, <2>3
<1>13. CASE CancelsItself(t)
  <2>1. TypeOK'
    BY <1>13 DEF CancelsItself, TypeOK, Goto, groupVars
  <2>2. QED
    BY <1>3, <1>13, <2>1 DEF CancelsItself
<1>14. QED
  BY <1>1, <1>2, <1>4, <1>5, <1>6, <1>7, <1>8, <1>9, <1>10, <1>11, <1>12, <1>13 DEF Step

LEMMA NextIInv == IInv /\ [Next]_vars => IInv'
<1> SUFFICES ASSUME IInv, [Next]_vars
             PROVE  IInv'
  OBVIOUS
<1> USE DEF IInv
<1>1. ASSUME UNCHANGED taskVars
      PROVE  AttemptsInv' /\ PhaseInv'
  BY <1>1 DEF taskVars, AttemptsInv, PhaseInv, FannedOut
<1>2. CASE \E t \in Tasks : Step(t)
  BY <1>2, StepIInv
<1>3. CASE Abort
  BY <1>1, <1>3 DEF Abort, TypeOK, taskVars
<1>4. CASE CallerCancels
  BY <1>1, <1>4 DEF CallerCancels, TypeOK, taskVars
<1>5. CASE Conclude
  <2>1. ASSUME NEW result \in Outcomes, NEW cost \in Cost, Close(result, cost)
        PROVE  IInv'
    BY <1>1, <2>1 DEF Close, TypeOK, taskVars
  <2>2. used \in Cost /\ \A t \in Tasks : excCost[t] \in Cost
    BY DEF TypeOK
  <2>3. QED
    BY <1>5, <2>1, <2>2, ZeroCost
       DEF Conclude, Return, Disagree, RaiseVanished, RaiseSingle, RaiseGroup, RaiseCancelled, Outcomes
<1>6. CASE BadReducePrompt
  BY <1>1, <1>6 DEF BadReducePrompt, TypeOK, Outcomes, taskVars
<1>7. CASE UNCHANGED vars
  BY <1>1, <1>7 DEF vars, taskVars, groupVars, TypeOK
<1>8. QED
  BY <1>2, <1>3, <1>4, <1>5, <1>6, <1>7 DEF Next, Over

\* TypeOK is an invariant for every value of the constants.
THEOREM TypeCorrect == Spec => []TypeOK
<1>1. IInv => TypeOK
  BY DEF IInv
<1>2. QED
  BY <1>1, InitIInv, NextIInv, PTL DEF Spec
-----------------------------------------------------------------------------
(* Counting the calls in flight. *)

LEMMA Finite == IsFiniteSet(Tasks) /\ \A S \in SUBSET Tasks : IsFiniteSet(S)
<1> USE CallsAssumption DEF CallsAssumption
<1>1. IsFiniteSet(Reducers)
  <2>1. CASE Reducers = {}
    BY <2>1, FS_EmptySet
  <2>2. CASE Reducers # {}
    <3>1. PICK r \in Reducers : TRUE
      BY <2>2
    <3>2. Reducers = {r}
      BY <3>1
    <3>3. IsFiniteSet({r})
      BY FS_Singleton
    <3>4. QED
      BY <3>2, <3>3
  <2>3. QED
    BY <2>1, <2>2
<1>2. IsFiniteSet(Tasks)
  BY <1>1, FS_Union DEF Tasks
<1>3. QED
  BY <1>2, FS_Subset

LEMMA InFlightCount ==
  /\ InFlight \subseteq Tasks
  /\ IsFiniteSet(InFlight)
  /\ Cardinality(InFlight) \in Nat
<1>1. InFlight \subseteq Tasks
  BY DEF InFlight
<1>2. QED
  BY <1>1, Finite, FS_CardinalityType

\* What moving one task does to the number in flight.
LEMMA GotoInFlight ==
  ASSUME TypeOK, NEW t \in Tasks, NEW st \in PCs, Goto(t, st)
  PROVE  /\ pc[t] \notin InFlightStates /\ st \in InFlightStates =>
               Cardinality(InFlight)' = Cardinality(InFlight) + 1
         /\ pc[t] \in InFlightStates /\ st \notin InFlightStates =>
               /\ Cardinality(InFlight)' = Cardinality(InFlight) - 1
               /\ Cardinality(InFlight) > 0
         /\ (pc[t] \in InFlightStates <=> st \in InFlightStates) =>
               InFlight' = InFlight
<1> USE DEF InFlight, Goto, TypeOK
<1>1. ASSUME pc[t] \notin InFlightStates, st \in InFlightStates
      PROVE  Cardinality(InFlight)' = Cardinality(InFlight) + 1
  <2>1. InFlight' = InFlight \cup {t} /\ t \notin InFlight
    BY <1>1
  <2> HIDE DEF InFlight
  <2>2. Cardinality(InFlight \cup {t}) = Cardinality(InFlight) + 1
    BY <2>1, InFlightCount, FS_AddElement
  <2>3. QED
    BY <2>1, <2>2
<1>2. ASSUME pc[t] \in InFlightStates, st \notin InFlightStates
      PROVE  /\ Cardinality(InFlight)' = Cardinality(InFlight) - 1
             /\ Cardinality(InFlight) > 0
  <2>1. InFlight' = InFlight \ {t} /\ t \in InFlight
    BY <1>2
  <2> HIDE DEF InFlight
  <2>2. Cardinality(InFlight \ {t}) = Cardinality(InFlight) - 1
    BY <2>1, InFlightCount, FS_RemoveElement
  <2>3. Cardinality(InFlight) # 0
    BY <2>1, InFlightCount, FS_EmptySet
  <2>4. QED
    BY <2>1, <2>2, <2>3, InFlightCount
<1>3. ASSUME pc[t] \in InFlightStates <=> st \in InFlightStates
      PROVE  InFlight' = InFlight
  BY <1>3
<1>4. QED
  BY <1>1, <1>2, <1>3

\* The semaphore, and the order of the phases, leave room for the call that
\* starts: fewer than MaxConcurrency calls are in flight.
LEMMA SlotFree ==
  ASSUME IInv, NEW t \in Tasks, pc[t] = "queued", MayStart(t)
  PROVE  Cardinality(InFlight) < MaxConcurrency
<1> USE CallsAssumption DEF CallsAssumption, IInv
<1>1. CASE t \in Samples
  <2>1. ~FannedOut
    BY <1>1 DEF FannedOut
  <2>2. InFlight \subseteq Holding
    BY <2>1 DEF InFlight, Holding, PhaseInv, Tasks, InFlightStates, Ended
  <2>3. Cardinality(Holding) < MaxConcurrency
    BY <1>1 DEF MayStart
  <2>4. Holding \subseteq Tasks
    BY DEF Holding, Tasks
  <2>5. IsFiniteSet(Holding) /\ Cardinality(InFlight) <= Cardinality(Holding)
    BY <2>2, <2>4, Finite, FS_Subset
  <2>6. Cardinality(Holding) \in Nat
    BY <2>5, FS_CardinalityType
  <2>7. QED
    BY <2>3, <2>5, <2>6, InFlightCount
<1>2. CASE t \notin Samples
  <2>1. t \in Reducers /\ FannedOut
    BY <1>2 DEF Tasks, MayStart
  <2>2. InFlight = {}
    BY <2>1 DEF InFlight, FannedOut, Tasks, InFlightStates
  <2>3. QED
    BY <2>2, FS_EmptySet
<1>3. QED
  BY <1>1, <1>2
-----------------------------------------------------------------------------
(* The run implements the meter. *)

\* What MeterSafe assumes of its constants holds of the ones it is given here.
LEMMA MeterConstantsHold == Meter!MeterConstants
BY CallsAssumption
   DEF CallsAssumption, Meter!MeterConstants, Meter!MeterFields, Meter!TokenFields,
       Fields, TokenFields

LEMMA InitRefines == Init => Meter!Init
<1> SUFFICES ASSUME Init
             PROVE  Meter!Init
  OBVIOUS
<1>1. InFlight = {}
  BY DEF Init, InFlight, InFlightStates
<1>2. used = [f \in Meter!MeterFields |-> 0]
  BY DEF Init, Zero, Meter!MeterFields, Meter!TokenFields, Fields, TokenFields
<1>3. Cardinality(InFlight) = 0
  BY <1>1, FS_EmptySet
<1>4. QED
  BY <1>2, <1>3 DEF Init, Meter!Init

\* A first attempt is an Admit, a later one a Retry, a refusal a Drop or, for a
\* call that had not begun, a stutter.
LEMMA BeforeAttemptRefines ==
  ASSUME IInv, NEW t \in Tasks, Live, BeforeAttempt(t), UNCHANGED groupVars,
         \/ pc[t] = "queued" /\ MayStart(t)
         \/ pc[t] = "backoff"
  PROVE  [Meter!Next]_(Meter!meterVars)
<1> USE CallsAssumption DEF CallsAssumption, IInv
<1>1. outcome = "running" /\ outcome' = "running"
  BY DEF Live, groupVars
<1>2. CASE Refused(attempts[t] + 1)
  <2>1. Goto(t, "erroring") /\ used' = used
    BY <1>2 DEF BeforeAttempt, Raise
  <2>2. CASE pc[t] = "queued"
    <3>1. InFlight' = InFlight
      BY <2>1, <2>2, GotoInFlight DEF InFlightStates, PCs
    <3>2. QED
      BY <1>1, <2>1, <3>1 DEF Meter!meterVars
  <2>3. CASE pc[t] = "backoff"
    <3>1. /\ Cardinality(InFlight)' = Cardinality(InFlight) - 1
          /\ Cardinality(InFlight) > 0
      BY <2>1, <2>3, GotoInFlight DEF InFlightStates, PCs
    <3>2. Meter!Drop
      BY <1>1, <2>1, <3>1 DEF Meter!Drop
    <3>3. QED
      BY <3>2 DEF Meter!Next
  <2>4. QED
    BY <2>2, <2>3
<1>3. CASE ~Refused(attempts[t] + 1)
  <2>1. Goto(t, "starting") /\ reserve_call
    BY <1>3 DEF BeforeAttempt
  <2>2. Meter!ChargeCall
    BY <2>1 DEF reserve_call, Meter!ChargeCall
  <2>3. \A f \in CheckedFields(attempts[t] + 1) : Meter!Room(f)
    <3>1. ASSUME NEW f \in Fields, ~Exhausted(f)
          PROVE  Meter!Room(f)
      BY <3>1 DEF Exhausted, Meter!Room, TypeOK, Cost
    <3>2. CheckedFields(attempts[t] + 1) \subseteq Fields
      BY DEF CheckedFields, Fields
    <3>3. QED
      BY <1>3, <3>1, <3>2 DEF Refused
  <2>4. CASE pc[t] = "queued" /\ MayStart(t)
    <3>1. Cardinality(InFlight)' = Cardinality(InFlight) + 1
      BY <2>1, <2>4, GotoInFlight DEF InFlightStates, PCs
    <3>2. Cardinality(InFlight) < MaxConcurrency
      BY <2>4, SlotFree
    <3>3. CheckedFields(attempts[t] + 1) = Meter!MeterFields
      BY <2>4 DEF AttemptsInv, CheckedFields, Fields, TokenFields,
                  Meter!MeterFields, Meter!TokenFields
    <3>4. Meter!Admit
      BY <1>1, <2>2, <2>3, <3>1, <3>2, <3>3 DEF Meter!Admit
    <3>5. QED
      BY <3>4 DEF Meter!Next
  <2>5. CASE pc[t] = "backoff"
    <3>1. InFlight' = InFlight
      BY <2>1, <2>5, GotoInFlight DEF InFlightStates, PCs
    <3>2. Cardinality(InFlight) > 0
      <4>1. t \in InFlight
        BY <2>5 DEF InFlight, InFlightStates
      <4>2. QED
        BY <4>1, InFlightCount, FS_EmptySet
    <3>3. Meter!Room("llm_calls")
      BY <2>3 DEF CheckedFields, Fields
    <3>4. Meter!Retry
      BY <1>1, <2>2, <3>1, <3>2, <3>3 DEF Meter!Retry
    <3>5. QED
      BY <3>4 DEF Meter!Next
  <2>6. QED
    BY <2>4, <2>5
<1>4. QED
  BY <1>2, <1>3

\* A response settles its call, an error or a cancellation drops it, and the
\* other steps of a task do not touch spend.
LEMMA StepRefines ==
  ASSUME IInv, NEW t \in Tasks, Step(t)
  PROVE  [Meter!Next]_(Meter!meterVars)
<1> USE CallsAssumption DEF CallsAssumption, IInv
<1>1. CASE Begin(t) \/ Retry(t)
  BY <1>1, BeforeAttemptRefines DEF Begin, Retry
<1>2. ASSUME NEW st \in PCs, Goto(t, st), used' = used, UNCHANGED groupVars,
             outcome = "running", st \in InFlightStates => pc[t] \in InFlightStates
      PROVE  [Meter!Next]_(Meter!meterVars)
  <2>1. CASE pc[t] \in InFlightStates <=> st \in InFlightStates
    <3>1. InFlight' = InFlight
      BY <1>2, <2>1, GotoInFlight
    <3>2. QED
      BY <1>2, <3>1 DEF Meter!meterVars, groupVars
  <2>2. CASE pc[t] \in InFlightStates /\ st \notin InFlightStates
    <3>1. /\ Cardinality(InFlight)' = Cardinality(InFlight) - 1
          /\ Cardinality(InFlight) > 0
      BY <1>2, <2>2, GotoInFlight
    <3>2. Meter!Drop
      BY <1>2, <3>1 DEF Meter!Drop, groupVars
    <3>3. QED
      BY <3>2 DEF Meter!Next
  <2>3. QED
    BY <1>2, <2>1, <2>2
<1>3. ASSUME pc[t] = "waiting", NEW st \in PCs, Goto(t, st), UNCHANGED groupVars,
             outcome = "running", st \notin InFlightStates,
             used' \in Cost, used'["llm_calls"] = used["llm_calls"],
             \A f \in TokenFields : used'[f] \in used[f] .. used[f] + MaxUsage
      PROVE  [Meter!Next]_(Meter!meterVars)
  <2>1. /\ Cardinality(InFlight)' = Cardinality(InFlight) - 1
        /\ Cardinality(InFlight) > 0
    BY <1>3, GotoInFlight DEF InFlightStates
  <2>2. Meter!TokenFields = TokenFields /\ Meter!MeterFields = Fields
    BY DEF Meter!TokenFields, TokenFields, Meter!MeterFields, Fields
  <2> DEFINE u == [f \in TokenFields |-> used'[f] - used[f]]
  <2>3. u \in [TokenFields -> 0 .. MaxUsage]
    BY <1>3 DEF TypeOK, Cost, Fields
  <2>4. used' = [f \in Fields |-> IF f \in TokenFields THEN used[f] + u[f] ELSE used[f]]
    BY <1>3 DEF TypeOK, Cost, Fields
  <2> HIDE DEF u
  <2>5. Meter!Settle
    BY <1>3, <2>1, <2>2, <2>3, <2>4 DEF Meter!Settle, groupVars
  <2>6. QED
    BY <2>5 DEF Meter!Next
<1>4. CASE Dispatch(t) \/ Backoff(t)
  BY <1>2, <1>4 DEF Dispatch, Backoff, Live, PCs, InFlightStates
<1>5. CASE StartEventRaises(t) \/ GiveUp(t)
  BY <1>2, <1>5 DEF StartEventRaises, GiveUp, Raise, Live, PCs, InFlightStates
<1>6. CASE Finish(t) \/ FinalEventRaises(t) \/ Cancelled(t) \/ CancelsItself(t)
  BY <1>2, <1>6
     DEF Finish, FinalEventRaises, Cancelled, CancelsItself, Live, PCs, InFlightStates, Ended
<1>7. CASE Respond(t)
  <2>1. PICK u \in Usages : record_without_call(u)
    BY <1>7 DEF Respond
  <2>2. \A f \in TokenFields : u[f] \in 0 .. MaxUsage
    OBVIOUS
  <2>3. used' \in Cost /\ used'["llm_calls"] = used["llm_calls"]
    BY <2>1, <2>2 DEF record_without_call, TypeOK, Cost, Fields, TokenFields
  <2>4. \A f \in TokenFields : used'[f] \in used[f] .. used[f] + MaxUsage
    BY <2>1, <2>2 DEF record_without_call, TypeOK, Cost, Fields, TokenFields
  <2>5. QED
    BY <1>3, <1>7, <2>3, <2>4 DEF Respond, Live, PCs, InFlightStates
<1>8. CASE RespondBadUsage(t)
  <2>1. CASE used' = used
    BY <1>2, <1>8, <2>1 DEF RespondBadUsage, Live, PCs, Ended, InFlightStates
  <2>2. CASE used' # used
    <3>1. PICK u \in Usages :
            used' = [used EXCEPT !["input_tokens"] = @ + u["input_tokens"]]
      BY <1>8, <2>2 DEF RespondBadUsage
    <3>2. u["input_tokens"] \in 0 .. MaxUsage
      BY DEF TokenFields
    <3>3. used' \in Cost /\ used'["llm_calls"] = used["llm_calls"]
      BY <3>1, <3>2 DEF TypeOK, Cost, Fields, TokenFields
    <3>4. \A f \in TokenFields : used'[f] \in used[f] .. used[f] + MaxUsage
      BY <3>1, <3>2 DEF TypeOK, Cost, Fields, TokenFields
    <3>5. QED
      BY <1>3, <1>8, <3>3, <3>4 DEF RespondBadUsage, Live, PCs, Ended, InFlightStates
  <2>3. QED
    BY <2>1, <2>2
<1>9. QED
  BY <1>1, <1>4, <1>5, <1>6, <1>7, <1>8 DEF Step

\* The end of the run ends the meter: no call is in flight when it comes.
LEMMA CloseRefines ==
  ASSUME IInv, NEW result \in Outcomes \ {"running"}, NEW cost, Close(result, cost)
  PROVE  Meter!Conclude
<1>1. InFlight = {}
  BY DEF Close, AllEnded, IInv, PhaseInv, InFlight, Tasks, InFlightStates, Ended
<1>2. InFlight' = InFlight
  BY DEF Close, taskVars, InFlight
<1>3. Cardinality(InFlight) = 0
  BY <1>1, FS_EmptySet
<1>4. QED
  BY <1>2, <1>3 DEF Close, Meter!Conclude

LEMMA NextRefines == IInv /\ [Next]_vars => [Meter!Next]_(Meter!meterVars)
<1> SUFFICES ASSUME IInv, [Next]_vars
             PROVE  [Meter!Next]_(Meter!meterVars)
  OBVIOUS
<1>1. ASSUME UNCHANGED <<taskVars, used, outcome>>
      PROVE  UNCHANGED Meter!meterVars
  BY <1>1 DEF taskVars, InFlight, Meter!meterVars
<1>2. CASE \E t \in Tasks : Step(t)
  BY <1>2, StepRefines
<1>3. CASE Abort \/ CallerCancels
  BY <1>1, <1>3 DEF Abort, CallerCancels
<1>4. CASE Conclude
  <2>1. Meter!Conclude
    BY <1>4, CloseRefines
       DEF Conclude, Return, Disagree, RaiseVanished, RaiseSingle, RaiseGroup, RaiseCancelled, Outcomes
  <2>2. QED
    BY <2>1 DEF Meter!Next
<1>5. CASE BadReducePrompt
  <2>1. InFlight = {} /\ InFlight' = InFlight
    BY <1>5, CallsAssumption
       DEF CallsAssumption, BadReducePrompt, FannedOut, InFlight, InFlightStates, Tasks, taskVars
  <2>2. Cardinality(InFlight) = 0
    BY <2>1, FS_EmptySet
  <2>3. Meter!Conclude
    BY <1>5, <2>1, <2>2 DEF BadReducePrompt, Live, Meter!Conclude
  <2>4. QED
    BY <2>3 DEF Meter!Next
<1>6. CASE UNCHANGED vars
  BY <1>1, <1>6 DEF vars, groupVars
<1>7. QED
  BY <1>2, <1>3, <1>4, <1>5, <1>6 DEF Next, Over

\* Refinement, for every fan-out: the concurrent pattern is a spend meter.
THEOREM Refinement == Spec => ImplementsMeter
BY InitIInv, NextIInv, InitRefines, NextRefines, PTL
   DEF Spec, ImplementsMeter, Meter!Spec

\* Concurrent samples and their retries never race past the call budget.
THEOREM CallBudget == Spec => []CallBudgetRespected
<1>1. Meter!CallsWithinLimit => CallBudgetRespected
  BY DEF Meter!CallsWithinLimit, CallBudgetRespected, Zero, Fields, TokenFields,
         Meter!MeterFields, Meter!TokenFields
<1>2. QED
  BY <1>1, Refinement, MeterConstantsHold, Meter!MeterSafe, PTL DEF ImplementsMeter

\* The tracker ends at most MaxConcurrency responses above a token limit.
THEOREM TokenOvershoot == Spec => []OvershootBounded
BY Refinement, MeterConstantsHold, Meter!MeterSafe, PTL
   DEF ImplementsMeter, OvershootBounded
-----------------------------------------------------------------------------
(* Traces and billing. *)

\* The terminal event goes out on the way into "ending" or "erroring", once.
TraceInv ==
    \A t \in Tasks :
        /\ terminals[t] <= 1
        /\ pc[t] \in {"queued"} \cup InFlightStates => terminals[t] = 0
        /\ pc[t] \in {"ending", "done"} => terminals[t] = 1 /\ attempts[t] > 0

LEMMA StepTraceInv ==
  ASSUME IInv, TraceInv, NEW t \in Tasks, Step(t)
  PROVE  TraceInv'
<1> USE DEF IInv, TypeOK, AttemptsInv, TraceInv, Goto, InFlightStates, Ended
<1>1. ASSUME NEW kind, NEW cost, Raise(t, kind, cost), attempts' = attempts,
             pc[t] \in {"queued"} \cup InFlightStates
      PROVE  TraceInv'
  BY <1>1 DEF Raise
<1>2. CASE Begin(t) \/ Retry(t)
  <2>1. CASE Refused(attempts[t] + 1)
    BY <1>1, <1>2, <2>1 DEF Begin, Retry, BeforeAttempt
  <2>2. CASE ~Refused(attempts[t] + 1)
    BY <1>2, <2>2 DEF Begin, Retry, BeforeAttempt
  <2>3. QED
    BY <2>1, <2>2
<1>3. CASE StartEventRaises(t) \/ GiveUp(t)
  BY <1>1, <1>3 DEF StartEventRaises, GiveUp
<1>4. CASE Dispatch(t) \/ Backoff(t)
  BY <1>4 DEF Dispatch, Backoff
<1>5. CASE Respond(t)
  BY <1>5 DEF Respond
<1>6. CASE RespondBadUsage(t)
  BY <1>6 DEF RespondBadUsage
<1>7. CASE Finish(t)
  BY <1>7 DEF Finish
<1>8. CASE FinalEventRaises(t)
  BY <1>8 DEF FinalEventRaises
<1>9. CASE Cancelled(t) \/ CancelsItself(t)
  BY <1>9 DEF Cancelled, CancelsItself
<1>10. QED
  BY <1>2, <1>3, <1>4, <1>5, <1>6, <1>7, <1>8, <1>9 DEF Step

LEMMA NextTraceInv == IInv /\ TraceInv /\ [Next]_vars => TraceInv'
<1>1. ASSUME TraceInv, UNCHANGED taskVars
      PROVE  TraceInv'
  BY <1>1 DEF TraceInv, taskVars
<1>2. QED
  BY <1>1, StepTraceInv
     DEF Next, Abort, CallerCancels, BadReducePrompt, Conclude, Return, Disagree, RaiseVanished, RaiseSingle,
         RaiseGroup, RaiseCancelled, Close, Over, vars

\* One terminal event per call that returns, none before, never a second.
THEOREM TraceClosed == Spec => []TraceClosedOnce
<1>1. Init => TraceInv
  BY DEF Init, TraceInv, InFlightStates
<1>2. TraceInv => TraceClosedOnce
  BY DEF TraceInv, TraceClosedOnce
<1>3. QED
  BY <1>1, <1>2, InitIInv, NextIInv, NextTraceInv, PTL DEF Spec

\* An exception carries at most what the tracker holds, and the bill is drawn up
\* once, when nothing is spent any more.
BillInv ==
    /\ \A t \in Tasks : \A f \in Fields : excCost[t][f] <= used[f]
    /\ outcome = "running" => billed = Zero
    /\ NeverOverbilled

LEMMA ZeroIsLeast ==
  ASSUME TypeOK, NEW f \in Fields
  PROVE  used[f] \in Nat /\ Zero[f] = 0
BY DEF TypeOK, Cost, Zero

\* The tracker only counts up.
LEMMA UsedGrows ==
  ASSUME IInv, NEW t \in Tasks, Step(t), NEW f \in Fields
  PROVE  used[f] <= used'[f]
<1> USE CallsAssumption DEF CallsAssumption, IInv, TypeOK, Cost
<1>1. CASE Begin(t) \/ Retry(t)
  BY <1>1 DEF Begin, Retry, BeforeAttempt, reserve_call
<1>2. CASE Respond(t)
  BY <1>2 DEF Respond, record_without_call
<1>3. CASE RespondBadUsage(t)
  BY <1>3 DEF RespondBadUsage, TokenFields
<1>4. QED
  BY <1>1, <1>2, <1>3
     DEF Step, Dispatch, StartEventRaises, Backoff, GiveUp, Finish,
         FinalEventRaises, Cancelled, CancelsItself

LEMMA StepBillInv ==
  ASSUME IInv, BillInv, NEW t \in Tasks, Step(t)
  PROVE  BillInv'
<1>1. outcome = "running" /\ UNCHANGED groupVars
  BY DEF Step, Begin, Dispatch, StartEventRaises, Respond, RespondBadUsage, Backoff,
         GiveUp, Retry, Finish, FinalEventRaises, Cancelled, CancelsItself, Live
<1>2. IInv' /\ TypeOK' /\ TypeOK
  BY StepIInv DEF IInv
<1>3. billed' = Zero /\ NeverOverbilled'
  <2>1. billed' = Zero /\ outcome' = "running"
    BY <1>1 DEF BillInv, groupVars
  <2>2. \A f \in Fields : Zero[f] <= used'[f]
    BY <1>2 DEF TypeOK, Cost, Zero
  <2>3. QED
    BY <2>1, <2>2 DEF NeverOverbilled
<1>4. \A x \in Tasks : excCost'[x] \in {excCost[x], used, Zero}
  BY DEF Step, Begin, Dispatch, StartEventRaises, Respond, RespondBadUsage, Backoff,
         GiveUp, Retry, Finish, FinalEventRaises, Cancelled, CancelsItself, BeforeAttempt, Raise,
         IInv, TypeOK
<1>5. ASSUME NEW x \in Tasks, NEW f \in Fields
      PROVE  excCost'[x][f] <= used'[f]
  <2>1. used[f] <= used'[f] /\ used[f] \in Nat /\ used'[f] \in Nat
    BY <1>2, UsedGrows DEF TypeOK, Cost
  <2>2. excCost[x][f] <= used[f] /\ excCost[x][f] \in Nat
    BY <1>2 DEF BillInv, TypeOK, Cost
  <2>3. Zero[f] = 0
    BY DEF Zero
  <2>4. QED
    BY <1>4, <2>1, <2>2, <2>3
<1>6. QED
  BY <1>1, <1>3, <1>5 DEF BillInv, groupVars

\* Kit.usage never exceeds what was measured and equals it for a run that
\* returns.
THEOREM Billing == Spec => []NeverOverbilled
<1>1. Init => BillInv
  BY DEF Init, BillInv, NeverOverbilled, Zero
<1>2. IInv /\ BillInv /\ [Next]_vars => BillInv'
  <2> SUFFICES ASSUME IInv, BillInv, [Next]_vars
               PROVE  BillInv'
    OBVIOUS
  <2>1. CASE \E t \in Tasks : Step(t)
    BY <2>1, StepBillInv
  <2>2. ASSUME UNCHANGED <<taskVars, used, outcome, billed>>
        PROVE  BillInv'
    BY <2>2 DEF BillInv, NeverOverbilled, taskVars
  <2>3. CASE Abort \/ CallerCancels
    BY <2>2, <2>3 DEF Abort, CallerCancels
  <2>4. CASE Conclude
    <3>1. ASSUME NEW result \in Outcomes \ {"running"}, NEW cost, Close(result, cost),
                 \A f \in Fields : cost[f] <= used[f],
                 result = "returned" => cost = used
          PROVE  BillInv'
      BY <3>1 DEF BillInv, NeverOverbilled, Close, taskVars
    <3>2. \A f \in Fields : Zero[f] <= used[f] /\ used[f] <= used[f]
      BY ZeroIsLeast DEF IInv
    <3>3. \A t \in Tasks : \A f \in Fields : excCost[t][f] <= used[f]
      BY DEF BillInv
    <3>4. CASE Return
      BY <3>1, <3>2, <3>4 DEF Return, Outcomes
    <3>5. CASE Disagree \/ RaiseVanished \/ RaiseGroup \/ RaiseCancelled
      BY <3>1, <3>2, <3>5 DEF Disagree, RaiseVanished, RaiseGroup, RaiseCancelled, Outcomes
    <3>6. CASE RaiseSingle
      BY <3>1, <3>2, <3>3, <3>6 DEF RaiseSingle, Outcomes
    <3>7. QED
      BY <2>4, <3>4, <3>5, <3>6 DEF Conclude
  <2>5. CASE BadReducePrompt
    BY <2>5 DEF BadReducePrompt, BillInv, NeverOverbilled, taskVars
  <2>6. CASE UNCHANGED vars
    BY <2>2, <2>6 DEF vars, groupVars
  <2>7. QED
    BY <2>1, <2>3, <2>4, <2>5, <2>6 DEF Next, Over
<1>3. BillInv => NeverOverbilled
  BY DEF BillInv
<1>4. QED
  BY <1>1, <1>2, <1>3, InitIInv, NextIInv, PTL DEF Spec
-----------------------------------------------------------------------------
(* Refusals and outcomes. *)

\* Only the except clause of a refused call leaves a refusal in exc, from where
\* the call can only end; and a limit that is used up stays used up.
RefusedInv ==
    \A t \in Tasks : exc[t] = "budget" =>
        /\ pc[t] \in {"erroring"} \cup Ended
        /\ \E f \in Fields : Exhausted(f)

LEMMA StaysExhausted ==
  ASSUME IInv, NEW t \in Tasks, Step(t), NEW f \in Fields, Exhausted(f)
  PROVE  Exhausted(f)'
<1> USE CallsAssumption DEF CallsAssumption
<1>1. used[f] <= used'[f]
  BY UsedGrows
<1>2. used[f] \in Nat /\ used'[f] \in Nat /\ Budget[f] \in Int
  BY StepIInv DEF IInv, TypeOK, Cost
<1>3. QED
  BY <1>1, <1>2 DEF Exhausted

\* What the steps of t do to t when it is not refused, and to the other tasks.
LEMMA StepExc ==
  ASSUME IInv, RefusedInv, NEW t \in Tasks, Step(t)
  PROVE  /\ \A x \in Tasks \ {t} :
                pc'[x] = pc[x] /\ exc'[x] = exc[x] /\ attempts'[x] = attempts[x]
         /\ exc'[t] = "budget" =>
                /\ pc'[t] \in {"erroring"} \cup Ended
                /\ exc[t] = "budget" \/ \E f \in Fields : Exhausted(f)
         /\ pc[t] \in {"erroring"} \cup Ended => attempts'[t] = attempts[t]
<1> USE DEF IInv, TypeOK, Goto, Ended, RefusedInv
<1>1. CASE Begin(t) \/ Retry(t)
  <2>1. BeforeAttempt(t) /\ pc[t] \in {"queued", "backoff"}
    BY <1>1 DEF Begin, Retry
  <2>2. CASE Refused(attempts[t] + 1)
    <3>1. \E f \in Fields : Exhausted(f)
      BY <2>2 DEF Refused, CheckedFields, Fields
    <3>2. QED
      BY <2>1, <2>2, <3>1 DEF BeforeAttempt, Raise
  <2>3. CASE ~Refused(attempts[t] + 1)
    BY <2>1, <2>3 DEF BeforeAttempt
  <2>4. QED
    BY <2>2, <2>3
<1>2. CASE StartEventRaises(t) \/ GiveUp(t)
  BY <1>2 DEF StartEventRaises, GiveUp, Raise
<1>3. CASE Dispatch(t) \/ Backoff(t) \/ Respond(t)
  BY <1>3 DEF Dispatch, Backoff, Respond
<1>4. CASE RespondBadUsage(t) \/ FinalEventRaises(t)
  BY <1>4 DEF RespondBadUsage, FinalEventRaises
<1>5. CASE Finish(t) \/ Cancelled(t) \/ CancelsItself(t)
  BY <1>5 DEF Finish, Cancelled, CancelsItself
<1>6. QED
  BY <1>1, <1>2, <1>3, <1>4, <1>5 DEF Step

LEMMA StepRefusedInv ==
  ASSUME IInv, RefusedInv, NEW t \in Tasks, Step(t)
  PROVE  RefusedInv'
<1> SUFFICES ASSUME NEW x \in Tasks, exc'[x] = "budget"
             PROVE  /\ pc'[x] \in {"erroring"} \cup Ended
                    /\ \E f \in Fields : Exhausted(f)'
  BY DEF RefusedInv
<1>1. pc'[x] \in {"erroring"} \cup Ended
  BY StepExc DEF RefusedInv
<1>2. PICK f \in Fields : Exhausted(f)
  BY StepExc DEF RefusedInv
<1>3. Exhausted(f)'
  BY <1>2, StaysExhausted
<1>4. QED
  BY <1>1, <1>3

LEMMA NextRefusedInv == IInv /\ RefusedInv /\ [Next]_vars => RefusedInv'
<1>1. ASSUME RefusedInv, UNCHANGED <<taskVars, used>>
      PROVE  RefusedInv'
  BY <1>1 DEF RefusedInv, Exhausted, taskVars
<1>2. QED
  BY <1>1, StepRefusedInv
     DEF Next, Abort, CallerCancels, BadReducePrompt, Conclude, Return, Disagree, RaiseVanished, RaiseSingle,
         RaiseGroup, RaiseCancelled, Close, Over, vars

\* A refused call reserves no further attempt, and whoever sees its error still
\* finds the limit it was refused on used up.
THEOREM RefusedForGood == Spec => RefusalFinal
<1>1. Init => RefusedInv
  BY DEF Init, RefusedInv
<1>2. IInv /\ RefusedInv /\ [Next]_vars =>
        [\A t \in Tasks : exc[t] = "budget" =>
            /\ attempts'[t] = attempts[t]
            /\ \E f \in Fields : Exhausted(f)]_vars
  <2> SUFFICES ASSUME IInv, RefusedInv, [Next]_vars, NEW x \in Tasks, exc[x] = "budget"
               PROVE  attempts'[x] = attempts[x]
    BY DEF RefusedInv
  <2>1. CASE \E t \in Tasks : Step(t)
    BY <2>1, StepExc DEF RefusedInv
  <2>2. QED
    BY <2>1
       DEF Next, Abort, CallerCancels, BadReducePrompt, Conclude, Return, Disagree, RaiseVanished, RaiseSingle,
           RaiseGroup, RaiseCancelled, Close, Over, vars, taskVars
<1>3. QED
  BY <1>1, <1>2, InitIInv, NextIInv, NextRefusedInv, PTL DEF Spec, RefusalFinal

\* The cause of an abort stays known, and a run that has ended has nothing in
\* flight any more.
AbortInv ==
    /\ aborting => cancelled \/ Failed \cap Samples # {}
    /\ outcome # "running" => InFlight = {}

\* How a call ended is how it stays: every step starts from a task that has not.
LEMMA StepKeepsEnds ==
  ASSUME IInv, NEW t \in Tasks, Step(t)
  PROVE  /\ pc[t] \notin Ended
         /\ \A x \in Tasks \ {t} : pc'[x] = pc[x] /\ attempts'[x] = attempts[x]
         /\ outcome = "running" /\ UNCHANGED groupVars
<1>1. pc[t] \notin Ended /\ outcome = "running" /\ UNCHANGED groupVars
  BY DEF Step, Begin, Dispatch, StartEventRaises, Respond, RespondBadUsage, Backoff, GiveUp,
         Retry, Finish, FinalEventRaises, Cancelled, CancelsItself, Ended, Live, groupVars
<1>2. \A x \in Tasks \ {t} : pc'[x] = pc[x] /\ attempts'[x] = attempts[x]
  BY DEF Step, Begin, Dispatch, StartEventRaises, Respond, RespondBadUsage, Backoff, GiveUp,
         Retry, Finish, FinalEventRaises, Cancelled, CancelsItself, BeforeAttempt, Raise, Goto,
         IInv, TypeOK
<1>3. QED
  BY <1>1, <1>2

LEMMA NextAbortInv == IInv /\ AbortInv /\ [Next]_vars => AbortInv'
<1> SUFFICES ASSUME IInv, AbortInv, [Next]_vars
             PROVE  AbortInv'
  OBVIOUS
<1>1. CASE \E t \in Tasks : Step(t)
  <2>1. PICK t \in Tasks : Step(t)
    BY <1>1
  <2>2. Failed \subseteq Failed'
    BY <2>1, StepKeepsEnds DEF Failed, Ended
  <2>3. QED
    BY <2>1, <2>2, StepKeepsEnds DEF AbortInv, groupVars
<1>2. ASSUME UNCHANGED taskVars
      PROVE  Failed' = Failed /\ InFlight' = InFlight
  BY <1>2 DEF taskVars, Failed, InFlight
<1>3. CASE Abort \/ CallerCancels
  BY <1>2, <1>3 DEF Abort, CallerCancels, Live, AbortInv
<1>4. CASE Conclude
  <2>1. AllEnded /\ UNCHANGED <<taskVars, aborting, cancelled>>
    BY <1>4 DEF Conclude, Return, Disagree, RaiseVanished, RaiseSingle, RaiseGroup,
                RaiseCancelled, Close
  <2>2. InFlight = {}
    BY <2>1 DEF AllEnded, IInv, PhaseInv, InFlight, Tasks, InFlightStates, Ended
  <2>3. QED
    BY <1>2, <2>1, <2>2 DEF AbortInv
<1>5. CASE BadReducePrompt
  <2>1. InFlight = {}
    BY <1>5, CallsAssumption
       DEF CallsAssumption, BadReducePrompt, FannedOut, InFlight, InFlightStates, Tasks
  <2>2. QED
    BY <1>2, <1>5, <2>1 DEF BadReducePrompt, AbortInv
<1>6. CASE UNCHANGED vars
  BY <1>2, <1>6 DEF vars, groupVars, AbortInv
<1>7. QED
  BY <1>1, <1>3, <1>4, <1>5, <1>6 DEF Next, Over

\* Children of a fan-out are stopped for a cause and for good: no sibling's own
\* cancellation stops them, no abort changes how one ended or lets it spend on,
\* none is left behind, and the reduce call needs every response.
THEOREM StoppedForCause == Spec => AbortsForCause
<1>1. Init => AbortInv
  BY DEF Init, AbortInv
<1>2. IInv /\ AbortInv /\ AbortInv' /\ [Next]_vars =>
        [/\ \A t \in Tasks : pc[t] \in {"queued", "backoff"} /\ pc'[t] = "cancelled" =>
               cancelled \/ Failed \cap Samples # {}
         /\ \A t \in Tasks : pc[t] \in Ended => pc'[t] = pc[t]
         /\ aborting => used' = used
         /\ outcome' # "running" => InFlight = {}
         /\ \A r \in Reducers : attempts'[r] > attempts[r] => FannedOut]_vars
  <2> SUFFICES ASSUME IInv, AbortInv, AbortInv', Next
               PROVE  /\ \A t \in Tasks : pc[t] \in {"queued", "backoff"} /\ pc'[t] = "cancelled" =>
                            cancelled \/ Failed \cap Samples # {}
                      /\ \A t \in Tasks : pc[t] \in Ended => pc'[t] = pc[t]
                      /\ aborting => used' = used
                      /\ outcome' # "running" => InFlight = {}
                      /\ \A r \in Reducers : attempts'[r] > attempts[r] => FannedOut
    OBVIOUS
  <2>1. \A r \in Reducers : ~(attempts[r] > attempts[r])
    BY CallsAssumption DEF CallsAssumption, IInv, TypeOK, Tasks
  <2>2. CASE \E t \in Tasks : Step(t)
    <3>1. PICK t \in Tasks : Step(t)
      BY <2>2
    <3>2. /\ pc[t] \notin Ended
          /\ \A x \in Tasks \ {t} : pc'[x] = pc[x] /\ attempts'[x] = attempts[x]
          /\ outcome' = "running"
      BY <3>1, StepKeepsEnds DEF groupVars
    <3>3. Live \/ Cancelled(t)
      BY <3>1 DEF Step, Begin, Dispatch, StartEventRaises, Respond, RespondBadUsage, Backoff,
                  GiveUp, Retry, Finish, FinalEventRaises, CancelsItself
    <3>4. aborting => Cancelled(t)
      BY <3>3 DEF Live
    <3>5. ASSUME pc[t] \in {"queued", "backoff"}, pc'[t] = "cancelled"
          PROVE  Cancelled(t)
      <4>1. pc[t] \notin {"starting", "waiting", "ending", "erroring"}
        BY <3>5
      <4>2. Begin(t) \/ Retry(t) \/ Cancelled(t)
        BY <3>1, <4>1 DEF Step, Dispatch, StartEventRaises, Respond, RespondBadUsage, Backoff,
                          GiveUp, Finish, FinalEventRaises, CancelsItself
      <4>3. ~BeforeAttempt(t)
        BY <3>5 DEF BeforeAttempt, Raise, Goto, IInv, TypeOK
      <4>4. QED
        BY <4>2, <4>3 DEF Begin, Retry
    <3>6. \A x \in Tasks : pc[x] \in {"queued", "backoff"} /\ pc'[x] = "cancelled" =>
             cancelled \/ Failed \cap Samples # {}
      <4> SUFFICES ASSUME NEW x \in Tasks, pc[x] \in {"queued", "backoff"}, pc'[x] = "cancelled"
                   PROVE  cancelled \/ Failed \cap Samples # {}
        OBVIOUS
      <4>1. x = t
        BY <3>2
      <4>2. aborting
        BY <3>5, <4>1 DEF Cancelled
      <4>3. QED
        BY <4>2 DEF AbortInv
    <3>7. aborting => used' = used
      BY <3>4 DEF Cancelled
    <3>8. ASSUME NEW r \in Reducers, attempts'[r] > attempts[r]
          PROVE  FannedOut
      <4>1. r = t
        BY <2>1, <3>2, <3>8 DEF Tasks
      <4>2. Begin(t) \/ Retry(t)
        BY <2>1, <3>1, <3>8, <4>1
           DEF Step, Dispatch, StartEventRaises, Respond, RespondBadUsage, Backoff, GiveUp,
               Finish, FinalEventRaises, Cancelled, CancelsItself
      <4>3. CASE Begin(t)
        BY <4>1, <4>3, CallsAssumption DEF CallsAssumption, Begin, MayStart
      <4>4. CASE Retry(t)
        BY <4>1, <4>4 DEF Retry, IInv, PhaseInv
      <4>5. QED
        BY <4>2, <4>3, <4>4
    <3>9. \A x \in Tasks : pc[x] \in Ended => pc'[x] = pc[x]
      BY <3>2
    <3>10. QED
      BY <3>2, <3>6, <3>7, <3>8, <3>9
  <2>3. CASE ~\E t \in Tasks : Step(t)
    <3>1. UNCHANGED <<taskVars, used>>
      BY <2>3 DEF Next, Abort, CallerCancels, BadReducePrompt, Conclude, Return, Disagree,
                  RaiseVanished, RaiseSingle, RaiseGroup, RaiseCancelled, Close, Over, vars
    <3>2. UNCHANGED <<pc, attempts, used>> /\ InFlight' = InFlight
      BY <3>1 DEF taskVars, InFlight
    <3>3. outcome' # "running" => InFlight = {}
      BY <3>2 DEF AbortInv
    <3>4. \A t \in Tasks : ~(pc[t] \in {"queued", "backoff"} /\ pc'[t] = "cancelled")
      BY <3>2
    <3>5. QED
      BY <2>1, <3>2, <3>3, <3>4
  <2>4. QED
    BY <2>2, <2>3
<1>3. QED
  BY <1>1, <1>2, InitIInv, NextIInv, NextAbortInv, PTL DEF Spec, AbortsForCause
-----------------------------------------------------------------------------
(* Progress. *)

\* How many steps a call can still take, by where it is and the attempts it has
\* reserved: a round is an attempt, its dispatch, and the way into the backoff.
Height(state, tries) ==
    LET rounds == 4 * (MaxRetries + 1 - tries)
    IN  CASE state = "starting" -> rounds + 4
          [] state = "waiting" -> rounds + 3
          [] state \in {"queued", "backoff"} -> rounds + 2
          [] state \in {"ending", "erroring"} -> 1
          [] OTHER -> 0

\* What the run can still do: steps of its calls, an abort and a conclusion.
CallsLeft == UNION {{t} \X (1 .. Height(pc[t], attempts[t])) : t \in Tasks}
GroupLeft ==
    (IF aborting THEN {} ELSE {"abort"}) \cup (IF outcome = "running" THEN {"conclude"} ELSE {})

Shrinks ==
    /\ CallsLeft' \subseteq CallsLeft /\ GroupLeft' \subseteq GroupLeft
    /\ CallsLeft' # CallsLeft \/ GroupLeft' # GroupLeft

\* A call's steps go one way: to a later attempt, or to its end.
LEMMA StepDescends ==
  ASSUME IInv, NEW t \in Tasks, Step(t)
  PROVE  /\ \A x \in Tasks \ {t} : pc'[x] = pc[x] /\ attempts'[x] = attempts[x]
         /\ Height(pc[t], attempts[t]) \in Nat /\ Height(pc'[t], attempts'[t]) \in Nat
         /\ Height(pc'[t], attempts'[t]) < Height(pc[t], attempts[t])
         /\ UNCHANGED <<aborting, outcome>>
<1> USE CallsAssumption DEF CallsAssumption
<1>1. pc[t] \in PCs /\ attempts[t] \in 0 .. MaxRetries + 1 /\ MaxRetries + 1 - attempts[t] \in Nat
      /\ (pc[t] = "queued" => attempts[t] = 0) /\ (pc[t] = "backoff" => attempts[t] <= MaxRetries)
  BY DEF IInv, TypeOK, AttemptsInv
<1>2. ASSUME NEW state, Goto(t, state)
      PROVE  pc'[t] = state /\ \A x \in Tasks \ {t} : pc'[x] = pc[x]
  BY <1>2 DEF IInv, TypeOK, Goto
<1>3. ASSUME pc[t] \notin {"absent", "ending", "erroring"} \cup Ended
      PROVE  Height(pc[t], attempts[t]) > 1 /\ Height(pc[t], attempts[t]) \in Nat
  BY <1>1, <1>3 DEF Height, PCs, InFlightStates, Ended
<1>4. ASSUME pc[t] \in {"ending", "erroring"}
      PROVE  Height(pc[t], attempts[t]) = 1
  BY <1>4 DEF Height
<1>5. \A state \in Ended : \A tries : Height(state, tries) = 0
  BY DEF Height, Ended
<1>6. \A state \in {"ending", "erroring"} : \A tries : Height(state, tries) = 1
  BY DEF Height
<1>7. CASE Begin(t) \/ Retry(t)
  <2>1. BeforeAttempt(t) /\ pc[t] \in {"queued", "backoff"} /\ UNCHANGED groupVars
    BY <1>7 DEF Begin, Retry
  <2>2. CASE Refused(attempts[t] + 1)
    <3>1. Goto(t, "erroring") /\ attempts' = attempts
      BY <2>1, <2>2 DEF BeforeAttempt, Raise
    <3>2. QED
      BY <1>2, <1>3, <1>6, <2>1, <3>1 DEF groupVars, Ended
  <2>3. CASE ~Refused(attempts[t] + 1)
    <3>1. Goto(t, "starting") /\ attempts' = [attempts EXCEPT ![t] = attempts[t] + 1]
      BY <2>1, <2>3 DEF BeforeAttempt
    <3>2. attempts'[t] = attempts[t] + 1 /\ \A x \in Tasks \ {t} : attempts'[x] = attempts[x]
      BY <3>1 DEF IInv, TypeOK
    <3>3. pc'[t] = "starting" /\ \A x \in Tasks \ {t} : pc'[x] = pc[x]
      BY <1>2, <3>1
    <3>4. Height("starting", attempts[t] + 1) = 4 * (MaxRetries + 1 - (attempts[t] + 1)) + 4
      BY DEF Height
    <3>5. Height(pc[t], attempts[t]) = 4 * (MaxRetries + 1 - attempts[t]) + 2
      BY <2>1 DEF Height
    <3>6. attempts[t] <= MaxRetries /\ attempts[t] \in Nat /\ MaxRetries \in Nat
      BY <1>1, <2>1
    <3>7. /\ Height(pc[t], attempts[t]) \in Nat /\ Height("starting", attempts[t] + 1) \in Nat
          /\ Height("starting", attempts[t] + 1) < Height(pc[t], attempts[t])
      BY ONLY <3>4, <3>5, <3>6
    <3>8. QED
      BY <2>1, <3>2, <3>3, <3>7 DEF groupVars
  <2>4. QED
    BY <2>2, <2>3
<1>8. CASE StartEventRaises(t) \/ GiveUp(t) \/ Respond(t)
  <2>1. /\ pc[t] \in {"starting", "waiting"} /\ attempts' = attempts /\ UNCHANGED groupVars
        /\ Goto(t, "erroring") \/ Goto(t, "ending")
    BY <1>8 DEF StartEventRaises, GiveUp, Respond, Raise
  <2>2. QED
    BY <1>2, <1>3, <1>6, <2>1 DEF groupVars, Ended
<1>9. CASE Dispatch(t) \/ Backoff(t)
  <2>1. /\ attempts' = attempts /\ UNCHANGED groupVars
        /\ \/ pc[t] = "starting" /\ Goto(t, "waiting")
           \/ pc[t] = "waiting" /\ Goto(t, "backoff")
    BY <1>9 DEF Dispatch, Backoff
  <2>2. \/ pc[t] = "starting" /\ pc'[t] = "waiting"
        \/ pc[t] = "waiting" /\ pc'[t] = "backoff"
    BY <1>2, <2>1
  <2>3. /\ Height(pc[t], attempts[t]) \in Nat /\ Height(pc'[t], attempts[t]) \in Nat
        /\ Height(pc'[t], attempts[t]) < Height(pc[t], attempts[t])
    BY <1>1, <2>2 DEF Height
  <2>4. QED
    BY <1>2, <2>1, <2>3 DEF groupVars
<1>10. CASE RespondBadUsage(t) \/ FinalEventRaises(t) \/ Finish(t) \/ Cancelled(t) \/ CancelsItself(t)
  <2>1. /\ pc[t] \notin {"absent"} \cup Ended /\ attempts' = attempts
        /\ Goto(t, "done") \/ Goto(t, "failed") \/ Goto(t, "cancelled")
        /\ UNCHANGED <<aborting, outcome>>
    BY <1>10 DEF RespondBadUsage, FinalEventRaises, Finish, Cancelled, CancelsItself, Ended, groupVars
  <2>2. pc'[t] \in Ended
    BY <1>2, <2>1 DEF Ended
  <2>3. QED
    BY <1>2, <1>3, <1>4, <1>5, <2>1, <2>2
<1>11. QED
  BY <1>7, <1>8, <1>9, <1>10 DEF Step

LEMMA StepShrinks ==
  ASSUME IInv, NEW t \in Tasks, Step(t)
  PROVE  Shrinks
<1> DEFINE high == Height(pc[t], attempts[t])
           low == Height(pc'[t], attempts'[t])
<1>1. /\ \A x \in Tasks \ {t} : pc'[x] = pc[x] /\ attempts'[x] = attempts[x]
      /\ high \in Nat /\ low \in Nat /\ low < high /\ UNCHANGED <<aborting, outcome>>
  BY StepDescends
<1>2. GroupLeft' = GroupLeft
  BY <1>1 DEF GroupLeft
<1>3. CallsLeft' \subseteq CallsLeft
  <2> SUFFICES ASSUME NEW x \in Tasks, NEW n \in 1 .. Height(pc'[x], attempts'[x])
               PROVE  n \in 1 .. Height(pc[x], attempts[x])
    BY DEF CallsLeft
  <2>1. CASE x = t
    <3>1. n \in 1 .. low
      BY <2>1
    <3> HIDE DEF high, low
    <3>2. n \in 1 .. high
      BY ONLY <1>1, <3>1
    <3>3. QED
      BY <2>1, <3>2 DEF high
  <2>2. CASE x # t
    BY <1>1, <2>2
  <2>3. QED
    BY <2>1, <2>2
<1>4. <<t, high>> \in CallsLeft /\ <<t, high>> \notin CallsLeft'
  <2>1. high \in 1 .. high /\ high \notin 1 .. low
    <3> HIDE DEF high, low
    <3>1. QED
      BY ONLY <1>1
  <2>2. <<t, high>> \in CallsLeft
    BY <2>1 DEF CallsLeft
  <2>3. <<t, high>> \notin CallsLeft'
    <3> HIDE DEF high
    <3>1. QED
      BY <2>1 DEF CallsLeft
  <2>4. QED
    BY <2>2, <2>3
<1>5. QED
  BY <1>2, <1>3, <1>4 DEF Shrinks

LEMMA CallsLeftFinite ==
  ASSUME IInv
  PROVE  IsFiniteSet(CallsLeft)
<1> USE CallsAssumption DEF CallsAssumption
<1> DEFINE top == 4 * MaxRetries + 8
<1>1. \A t \in Tasks : Height(pc[t], attempts[t]) \in 0 .. top
  <2> SUFFICES ASSUME NEW t \in Tasks
               PROVE  Height(pc[t], attempts[t]) \in 0 .. top
    OBVIOUS
  <2>1. attempts[t] \in 0 .. MaxRetries + 1 /\ MaxRetries \in Nat
    BY DEF IInv, TypeOK
  <2>2. QED
    BY <2>1 DEF Height
<1>2. CallsLeft \subseteq Tasks \X (1 .. top)
  <2> HIDE DEF top
  <2>1. top \in Nat
    BY DEF top
  <2>2. QED
    BY <1>1, <2>1 DEF CallsLeft
<1>3. IsFiniteSet(1 .. top)
  BY FS_Interval
<1>4. QED
  BY <1>2, <1>3, Finite, FS_Product, FS_Subset

\* However often the provider fails and whoever is cancelled when, every step of a
\* run uses up a part of a finite amount of work: no run goes on for ever.
THEOREM BoundedRun == Spec => [](IsFiniteSet(CallsLeft)) /\ [][Shrinks]_vars
<1>1. ASSUME IInv, Next, vars' # vars
      PROVE  Shrinks
  <2>1. CASE \E t \in Tasks : Step(t)
    BY <1>1, <2>1, StepShrinks
  <2>2. ASSUME UNCHANGED taskVars
        PROVE  CallsLeft' = CallsLeft
    BY <2>2 DEF taskVars, CallsLeft
  <2>3. CASE Abort \/ CallerCancels
    BY <2>2, <2>3 DEF Abort, CallerCancels, Live, GroupLeft, Shrinks, taskVars
  <2>4. CASE Conclude
    <3>1. /\ outcome = "running" /\ outcome' # "running" /\ aborting' = aborting
          /\ UNCHANGED taskVars
      BY <2>4 DEF Conclude, Return, Disagree, RaiseVanished, RaiseSingle, RaiseGroup,
                  RaiseCancelled, Close
    <3>2. QED
      BY <2>2, <3>1 DEF GroupLeft, Shrinks
  <2>5. CASE BadReducePrompt
    BY <2>2, <2>5 DEF BadReducePrompt, Live, GroupLeft, Shrinks, taskVars
  <2>6. QED
    BY <1>1, <2>1, <2>3, <2>4, <2>5 DEF Next, Over
<1>2. IInv /\ [Next]_vars => [Shrinks]_vars
  BY <1>1
<1>3. IInv => IsFiniteSet(CallsLeft)
  BY CallsLeftFinite
<1>4. QED
  BY <1>2, <1>3, InitIInv, NextIInv, PTL DEF Spec

\* The guard of Step(t).
Ready(t) ==
    /\ outcome = "running"
    /\ pc[t] \notin {"absent"} \cup Ended
    /\ \/ aborting /\ (t \in Samples \/ FannedOut)
       \/ ~aborting /\ (pc[t] = "queued" => MayStart(t))

\* The guard of Conclude.
Settled ==
    /\ AllEnded
    /\ \/ ~cancelled /\ Failed \cup Vanished = {}
       \/ ~cancelled /\ Failed = {} /\ Vanished \cap Samples # {}
       \/ (\E t \in Tasks : Failed = {t}) \/ Cardinality(Failed) > 1
       \/ Failed = {} /\ (cancelled \/ Vanished \cap Reducers # {})

\* A sample is a task from the start.
NoneAbsent == \A s \in Samples : pc[s] # "absent"

LEMMA NextNoneAbsent == IInv /\ NoneAbsent /\ [Next]_vars => NoneAbsent'
<1>1. ASSUME NoneAbsent, UNCHANGED taskVars
      PROVE  NoneAbsent'
  BY <1>1 DEF NoneAbsent, taskVars
<1>2. ASSUME IInv, NoneAbsent, NEW t \in Tasks, Step(t)
      PROVE  NoneAbsent'
  <2>1. \E state : state # "absent" /\ Goto(t, state)
    <3>1. CASE Begin(t) \/ Retry(t)
      BY <3>1 DEF Begin, Retry, BeforeAttempt, Raise
    <3>2. CASE StartEventRaises(t) \/ Respond(t) \/ RespondBadUsage(t) \/ GiveUp(t)
      BY <3>2 DEF StartEventRaises, Respond, RespondBadUsage, GiveUp, Raise
    <3>3. CASE Dispatch(t) \/ Backoff(t) \/ Finish(t) \/ FinalEventRaises(t)
      BY <3>3 DEF Dispatch, Backoff, Finish, FinalEventRaises
    <3>4. CASE Cancelled(t) \/ CancelsItself(t)
      BY <3>4 DEF Cancelled, CancelsItself
    <3>5. QED
      BY <1>2, <3>1, <3>2, <3>3, <3>4 DEF Step
  <2>2. QED
    BY <1>2, <2>1 DEF Goto, NoneAbsent, IInv, TypeOK, Tasks
<1>3. QED
  BY <1>1, <1>2
     DEF Next, Abort, CallerCancels, BadReducePrompt, Conclude, Return, Disagree, RaiseVanished, RaiseSingle,
         RaiseGroup, RaiseCancelled, Close, Over, vars

\* A slot that is taken is held by a sample that can go on.
LEMMA SampleReady ==
  ASSUME IInv, NoneAbsent, outcome = "running", NEW s \in Samples, pc[s] \notin Ended
  PROVE  \E t \in Tasks : Ready(t)
<1>1. Samples \subseteq Tasks /\ pc[s] # "absent"
  BY DEF Tasks, NoneAbsent
<1>2. CASE aborting \/ pc[s] # "queued" \/ MayStart(s)
  BY <1>1, <1>2 DEF Ready
<1>3. CASE ~aborting /\ ~MayStart(s)
  <2>1. Cardinality(Holding) # 0
    BY <1>3, CallsAssumption DEF MayStart, CallsAssumption
  <2>2. PICK h \in Holding : TRUE
    BY <2>1, FS_EmptySet
  <2>3. Ready(h) /\ h \in Tasks
    BY <1>1, <1>3, <2>2 DEF Holding, Ready, NoneAbsent
  <2>4. QED
    BY <2>3
<1>4. QED
  BY <1>2, <1>3

LEMMA EndedSettled ==
  ASSUME AllEnded
  PROVE  Settled
<1>1. CASE Failed = {}
  BY <1>1 DEF Settled, Failed, Vanished, Tasks
<1>2. CASE Failed # {}
  <2>1. PICK t \in Tasks : t \in Failed
    BY <1>2 DEF Failed
  <2>2. CASE Failed = {t}
    BY <2>2 DEF Settled
  <2>3. CASE Failed # {t}
    <3>1. PICK x \in Failed : x # t
      BY <2>1, <2>3
    <3>2. {t, x} \subseteq Failed /\ IsFiniteSet(Failed)
      BY <2>1, <3>1, Finite DEF Failed
    <3>3. Cardinality({t, x}) = 2
      <4>1. IsFiniteSet({t}) /\ Cardinality({t}) = 1 /\ x \notin {t} /\ {t, x} = {t} \cup {x}
        BY <3>1, FS_Singleton
      <4>2. Cardinality({t} \cup {x}) = Cardinality({t}) + 1
        BY <4>1, FS_AddElement
      <4>3. QED
        BY <4>1, <4>2
    <3>4. Cardinality(Failed) >= 2 /\ Cardinality(Failed) \in Nat
      BY <3>2, <3>3, FS_Subset, FS_CardinalityType
    <3>5. QED
      BY <3>4 DEF Settled
  <2>4. QED
    BY <2>2, <2>3
<1>3. QED
  BY <1>1, <1>2

\* The safety half of Termination: until it has concluded, a task of the run can go
\* on or the run can conclude.  No sample waits for a slot that nobody will free,
\* and no mix of failures, cancellations and abort is one nobody handles.
THEOREM NeverStuck == Spec => [](outcome = "running" => Settled \/ \E t \in Tasks : Ready(t))
<1>1. ASSUME IInv, NoneAbsent, outcome = "running"
      PROVE  Settled \/ \E t \in Tasks : Ready(t)
  <2>1. CASE AllEnded
    BY <2>1, EndedSettled
  <2>2. CASE \E s \in Samples : pc[s] \notin Ended
    BY <1>1, <2>2, SampleReady
  <2>3. CASE FannedOut /\ \E r \in Reducers : pc[r] \notin {"absent"} \cup Ended
    <3>1. PICK r \in Reducers : pc[r] \notin {"absent"} \cup Ended
      BY <2>3
    <3>2. r \in Tasks /\ MayStart(r)
      BY <2>3, CallsAssumption DEF Tasks, MayStart, CallsAssumption
    <3>3. QED
      BY <1>1, <2>3, <3>1, <3>2 DEF Ready
  <2>4. QED
    BY <2>1, <2>2, <2>3 DEF AllEnded
<1>2. Init => NoneAbsent
  BY DEF Init, NoneAbsent
<1>3. QED
  BY <1>1, <1>2, InitIInv, NextIInv, NextNoneAbsent, PTL DEF Spec
-----------------------------------------------------------------------------
(* The collector's summary. *)

\* One more value: its units are added.
LEMMA UnitsAdded ==
  ASSUME NEW old, NEW new, NEW x, IsFiniteSet(Units(old)), x \notin DOMAIN old,
         DOMAIN new = DOMAIN old \cup {x}, new[x] \in Nat,
         \A y \in DOMAIN old : new[y] = old[y]
  PROVE  IsFiniteSet(Units(new)) /\ Total(new) = Total(old) + new[x] /\ Total(old) \in Nat
<1> DEFINE U == Units(old)
           d == new[x]
           More == {x} \X (1 .. d)
<1>1. U \cap More = {}
  BY DEF Units
<1>2. Units(new) = U \cup More
  <2>1. ASSUME NEW p \in Units(new)
        PROVE  p \in U \cup More
    <3>1. PICK y \in DOMAIN new : p \in {y} \X (1 .. new[y])
      BY DEF Units
    <3>2. CASE y = x
      BY <3>1, <3>2
    <3>3. CASE y # x
      <4>1. y \in DOMAIN old /\ new[y] = old[y]
        BY <3>3
      <4>2. QED
        BY <3>1, <4>1 DEF Units
    <3>4. QED
      BY <3>2, <3>3
  <2>2. ASSUME NEW p \in U
        PROVE  p \in Units(new)
    <3>1. PICK y \in DOMAIN old : p \in {y} \X (1 .. old[y])
      BY DEF Units
    <3>2. new[y] = old[y] /\ y \in DOMAIN new
      OBVIOUS
    <3>3. QED
      BY <3>1, <3>2 DEF Units
  <2>3. ASSUME NEW p \in More
        PROVE  p \in Units(new)
    BY <2>3 DEF Units
  <2>. HIDE DEF U, More
  <2>4. QED
    BY <2>1, <2>2, <2>3
<1>3. IsFiniteSet(More) /\ Cardinality(More) = d
  <2>1. ASSUME NEW n \in Nat
        PROVE  IsFiniteSet(1 .. n) /\ Cardinality(1 .. n) = n
    <3>1. 1 \in Int /\ n \in Int
      OBVIOUS
    <3>2. IsFiniteSet(1 .. n) /\ Cardinality(1 .. n) = IF 1 > n THEN 0 ELSE n - 1 + 1
      BY ONLY <3>1, FS_Interval
    <3>3. QED
      BY <3>2
  <2>2. IsFiniteSet(1 .. d) /\ Cardinality(1 .. d) = d
    BY <2>1
  <2>3. IsFiniteSet({x}) /\ Cardinality({x}) = 1
    BY ONLY FS_Singleton
  <2>4. IsFiniteSet(More) /\ Cardinality(More) = Cardinality({x}) * Cardinality(1 .. d)
    BY ONLY <2>2, <2>3, FS_Product
  <2>5. d \in Nat
    OBVIOUS
  <2>. HIDE DEF d
  <2>6. QED
    BY <2>2, <2>3, <2>4, <2>5
<1>4. /\ IsFiniteSet(U \cup More)
      /\ Cardinality(U \cup More) = Cardinality(U) + Cardinality(More) - Cardinality(U \cap More)
  <2>1. IsFiniteSet(U)
    OBVIOUS
  <2>. HIDE DEF U, More
  <2>2. QED
    BY <1>3, <2>1, FS_Union
<1>5. Cardinality(U \cap More) = 0 /\ Cardinality(U) \in Nat /\ d \in Nat
  BY <1>1, FS_EmptySet, FS_CardinalityType
<1>. HIDE DEF U, More, d
<1>6. QED
  BY <1>2, <1>3, <1>4, <1>5 DEF Total, U, d

\* One value replaced by another: the sum changes by their difference.
LEMMA UnitsReplaced ==
  ASSUME NEW old, NEW new, NEW x \in DOMAIN old, IsFiniteSet(Units(old)),
         DOMAIN new = DOMAIN old, old[x] \in Nat, new[x] \in Nat,
         \A y \in DOMAIN old : y # x => new[y] = old[y]
  PROVE  /\ IsFiniteSet(Units(new))
         /\ Total(old) \in Nat /\ Total(new) \in Nat
         /\ Total(new) + old[x] = Total(old) + new[x]
<1> DEFINE rest == [y \in DOMAIN old \ {x} |-> old[y]]
<1>1. DOMAIN rest = DOMAIN old \ {x} /\ \A y \in DOMAIN rest : rest[y] = old[y] /\ rest[y] = new[y]
  OBVIOUS
<1>. HIDE DEF rest
<1>2. IsFiniteSet(Units(rest))
  <2>1. Units(rest) \subseteq Units(old)
    <3>1. ASSUME NEW p \in Units(rest)
          PROVE  p \in Units(old)
      <4>1. PICK y \in DOMAIN rest : p \in {y} \X (1 .. rest[y])
        BY DEF Units
      <4>2. y \in DOMAIN old /\ rest[y] = old[y]
        BY <1>1
      <4>3. QED
        BY <4>1, <4>2 DEF Units
    <3>2. QED
      BY <3>1
  <2>2. QED
    BY <2>1, FS_Subset
<1>3. x \notin DOMAIN rest /\ DOMAIN old = DOMAIN rest \cup {x}
  BY <1>1
<1>4. Total(old) = Total(rest) + old[x] /\ Total(rest) \in Nat
  <2>1. old[x] \in Nat /\ \A y \in DOMAIN rest : old[y] = rest[y]
    BY <1>1
  <2>2. QED
    BY ONLY <1>2, <1>3, <2>1, UnitsAdded
<1>5. IsFiniteSet(Units(new)) /\ Total(new) = Total(rest) + new[x]
  <2>1. DOMAIN new = DOMAIN rest \cup {x} /\ \A y \in DOMAIN rest : new[y] = rest[y]
    BY <1>1, <1>3
  <2>2. QED
    BY <1>2, <1>3, <2>1, UnitsAdded
<1>6. QED
  BY <1>4, <1>5
\* What a step tells the collector and the tracker: an attempt and its start
\* event, an answer and its end event, an error event, or nothing.
Started(t) ==
    /\ terminals[t] = 0
    /\ attempts' = [attempts EXCEPT ![t] = @ + 1]
    /\ terminals' = terminals
    /\ reserve_call

Closed(t) ==
    /\ terminals[t] = 0
    /\ attempts' = attempts
    /\ terminals' = [terminals EXCEPT ![t] = @ + 1]

Answered(t) == Closed(t) /\ pc'[t] = "ending" /\ \E u \in Usages : record_without_call(u)

Erred(t) == Closed(t) /\ pc'[t] = "erroring" /\ used' = used

\* A response recorded in part has no event at all.
Mangled == UNCHANGED <<attempts, terminals>> /\ Lost' # {} /\ used'["llm_calls"] = used["llm_calls"]

LEMMA StepEvents ==
  ASSUME IInv, TraceInv, NEW t \in Tasks, Step(t)
  PROVE  Started(t) \/ Answered(t) \/ Erred(t) \/ Mangled \/ UNCHANGED <<attempts, terminals, used>>
<1> USE DEF IInv, TypeOK, TraceInv, Goto, InFlightStates
<1>1. ASSUME NEW kind, NEW cost, Raise(t, kind, cost), attempts' = attempts, used' = used,
             pc[t] \in {"queued"} \cup InFlightStates
      PROVE  Erred(t)
  BY <1>1 DEF Raise, Erred, Closed
<1>2. CASE Begin(t) \/ Retry(t)
  <2>1. CASE Refused(attempts[t] + 1)
    BY <1>1, <1>2, <2>1 DEF Begin, Retry, BeforeAttempt
  <2>2. CASE ~Refused(attempts[t] + 1)
    BY <1>2, <2>2 DEF Begin, Retry, BeforeAttempt, Started
  <2>3. QED
    BY <2>1, <2>2
<1>3. CASE StartEventRaises(t) \/ GiveUp(t)
  BY <1>1, <1>3 DEF StartEventRaises, GiveUp
<1>4. CASE Respond(t)
  BY <1>4 DEF Respond, Answered, Closed
<1>5. CASE RespondBadUsage(t)
  <2>1. t \in Lost'
    BY <1>5 DEF RespondBadUsage, Lost
  <2>2. used'["llm_calls"] = used["llm_calls"]
    BY <1>5 DEF RespondBadUsage, Cost, Fields
  <2>3. QED
    BY <1>5, <2>1, <2>2 DEF RespondBadUsage, Mangled
<1>6. CASE Dispatch(t) \/ Backoff(t) \/ Finish(t) \/ FinalEventRaises(t) \/ Cancelled(t) \/ CancelsItself(t)
  BY <1>6 DEF Dispatch, Backoff, Finish, FinalEventRaises, Cancelled, CancelsItself
<1>7. QED
  BY <1>2, <1>3, <1>4, <1>5, <1>6 DEF Step

\* A lost call stays lost.
LEMMA StaysLost ==
  ASSUME IInv, NEW t \in Tasks, Step(t)
  PROVE  Lost \subseteq Lost'
<1>1. pc[t] # "failed"
  BY DEF Step, Begin, Dispatch, StartEventRaises, Respond, RespondBadUsage, Backoff, GiveUp,
         Retry, Finish, FinalEventRaises, Cancelled, CancelsItself, Ended
<1>2. \A x \in Tasks \ {t} : pc'[x] = pc[x] /\ terminals'[x] = terminals[x]
  BY DEF Step, Begin, Dispatch, StartEventRaises, Respond, RespondBadUsage, Backoff, GiveUp,
         Retry, Finish, FinalEventRaises, Cancelled, CancelsItself, BeforeAttempt, Raise, Goto,
         IInv, TypeOK
<1>3. QED
  BY <1>1, <1>2 DEF Lost

\* The collector knows how often each open call was tried, and has a record of
\* none of them; and it knows the sums, as long as no call is lost.
OpenInv ==
    /\ opened \in [Tasks -> Nat]
    /\ \A t \in Tasks : terminals[t] = 0 => opened[t] = attempts[t]
    /\ \A rec \in records : rec.call \in Tasks /\ terminals[rec.call] # 0
    /\ \A a, b \in records : a.call = b.call => a = b

AttemptsAdd ==
    /\ IsFiniteSet(Units(opened)) /\ IsFiniteSet(Units(AttemptsOf))
    /\ Total(opened) \in Nat /\ AttemptTotal \in Nat
    /\ AttemptTotal + Total(opened) = used["llm_calls"]

TokensAdd(f) ==
    /\ IsFiniteSet(Units(TokensOf(f)))
    /\ UsageTotal(f) \in Nat
    /\ UsageTotal(f) <= used[f]
    /\ Lost = {} => UsageTotal(f) = used[f]

CollectorInv == OpenInv /\ AttemptsAdd /\ \A f \in TokenFields : TokensAdd(f)

\* Nothing to collect: the tokens of a response recorded in part only widen the gap.
LEMMA NothingCollected ==
  ASSUME IInv, IInv', CollectorInv, UNCHANGED <<attempts, terminals, telemetryVars>>,
         used'["llm_calls"] = used["llm_calls"],
         \A f \in TokenFields : used[f] <= used'[f],
         Lost' = {} => Lost = {} /\ used' = used
  PROVE  CollectorInv'
<1>1. OpenInv'
  BY DEF CollectorInv, OpenInv, telemetryVars
<1>2. opened' = opened /\ AttemptsOf' = AttemptsOf /\ AttemptTotal' = AttemptTotal
  BY DEF telemetryVars, AttemptsOf, AttemptTotal
<1>3. AttemptsAdd'
  BY <1>2 DEF CollectorInv, AttemptsAdd
<1>4. ASSUME NEW f \in TokenFields
      PROVE  TokensAdd(f)'
  <2>1. TokensOf(f)' = TokensOf(f) /\ UsageTotal(f)' = UsageTotal(f)
    BY DEF telemetryVars, TokensOf, UsageTotal
  <2>2. used[f] \in Nat /\ used'[f] \in Nat /\ used[f] <= used'[f]
    BY DEF IInv, TypeOK, Cost, Fields
  <2>3. TokensAdd(f)
    BY DEF CollectorInv
  <2>4. QED
    BY <2>1, <2>2, <2>3 DEF TokensAdd
<1>5. QED
  BY <1>1, <1>3, <1>4 DEF CollectorInv
LEMMA StartCollected ==
  ASSUME IInv, IInv', CollectorInv, NEW t \in Tasks, Started(t), OnStart(t), Lost \subseteq Lost'
  PROVE  CollectorInv'
<1>1. /\ attempts[t] \in Nat /\ attempts'[t] = attempts[t] + 1 /\ opened[t] = attempts[t]
      /\ \A x \in Tasks \ {t} : attempts'[x] = attempts[x]
  BY CallsAssumption DEF CallsAssumption, Started, IInv, TypeOK, CollectorInv, OpenInv
<1>2. /\ DOMAIN opened = Tasks /\ DOMAIN opened' = Tasks
      /\ opened'[t] = opened[t] + 1 /\ \A x \in Tasks : x # t => opened'[x] = opened[x]
      /\ opened[t] \in Nat
  BY <1>1 DEF OnStart, CollectorInv, OpenInv
<1>3. OpenInv'
  <2>1. opened' \in [Tasks -> Nat]
    BY <1>1 DEF OnStart, CollectorInv, OpenInv
  <2>2. \A x \in Tasks : terminals'[x] = 0 => opened'[x] = attempts'[x]
    BY <1>1, <1>2 DEF Started, CollectorInv, OpenInv
  <2>3. QED
    BY <2>1, <2>2 DEF OnStart, Started, CollectorInv, OpenInv
<1>4. AttemptsAdd'
  <2>1. /\ IsFiniteSet(Units(opened')) /\ Total(opened) \in Nat /\ Total(opened') \in Nat
        /\ Total(opened') + opened[t] = Total(opened) + opened'[t]
    <3>1. IsFiniteSet(Units(opened)) /\ opened'[t] \in Nat
      BY <1>2 DEF CollectorInv, AttemptsAdd
    <3>2. t \in DOMAIN opened /\ DOMAIN opened' = DOMAIN opened
          /\ \A x \in DOMAIN opened : x # t => opened'[x] = opened[x]
      BY <1>2
    <3>3. QED
      BY ONLY <1>2, <3>1, <3>2, UnitsReplaced
  <2>2. Total(opened') = Total(opened) + 1
    BY <1>2, <2>1
  <2>3. AttemptsOf' = AttemptsOf /\ AttemptTotal' = AttemptTotal
    BY DEF OnStart, AttemptsOf, AttemptTotal
  <2>4. used["llm_calls"] \in Nat /\ used'["llm_calls"] = used["llm_calls"] + 1
    BY DEF Started, reserve_call, IInv, TypeOK, Cost, Fields
  <2>5. Units(opened)' = Units(opened') /\ Total(opened)' = Total(opened')
    BY DEF Units, Total
  <2>6. AttemptsAdd
    BY DEF CollectorInv
  <2>7. QED
    BY <2>1, <2>2, <2>3, <2>4, <2>5, <2>6 DEF AttemptsAdd
<1>5. ASSUME NEW f \in TokenFields
      PROVE  TokensAdd(f)'
  <2>1. TokensOf(f)' = TokensOf(f) /\ UsageTotal(f)' = UsageTotal(f)
    BY DEF OnStart, TokensOf, UsageTotal
  <2>2. used'[f] = used[f]
    BY DEF Started, reserve_call, IInv, TypeOK, Cost, TokenFields, Fields
  <2>3. TokensAdd(f)
    BY DEF CollectorInv
  <2>4. QED
    BY <2>1, <2>2, <2>3 DEF TokensAdd
<1>6. QED
  BY <1>3, <1>4, <1>5 DEF CollectorInv

\* The record a terminal event makes.
NewRecord(t) ==
    [call |-> t, ok |-> pc'[t] = "ending", attempts |-> attempts'[t],
     tokens |-> IF pc'[t] = "ending" THEN EventTokens ELSE Unreported]

\* What a record takes over, the open calls lose.
LEMMA RecordMade ==
  ASSUME IInv, CollectorInv, NEW t \in Tasks, Closed(t), Finalize(t),
         used'["llm_calls"] = used["llm_calls"]
  PROVE  /\ OpenInv' /\ AttemptsAdd'
         /\ NewRecord(t) \notin records /\ records' = records \cup {NewRecord(t)}
<1> DEFINE new == NewRecord(t)
<1>1. /\ terminals[t] = 0 /\ terminals'[t] # 0 /\ attempts' = attempts
      /\ \A x \in Tasks \ {t} : terminals'[x] = terminals[x]
  BY DEF Closed, IInv, TypeOK
<1>2. /\ opened[t] = attempts[t] /\ opened[t] \in Nat /\ opened \in [Tasks -> Nat]
      /\ \A rec \in records : rec.call \in Tasks /\ rec.call # t /\ terminals[rec.call] # 0
      /\ \A a, b \in records : a.call = b.call => a = b
  BY <1>1 DEF CollectorInv, OpenInv
<1>3. new.call = t /\ new.attempts = opened[t]
  BY <1>1, <1>2 DEF NewRecord
<1>4. records' = records \cup {new}
  BY DEF Finalize, NewRecord
<1>. HIDE DEF new
<1>5. new \notin records
  BY <1>2, <1>3
<1>6. /\ DOMAIN opened = Tasks /\ DOMAIN opened' = Tasks /\ opened'[t] = 0
      /\ \A x \in Tasks : x # t => opened'[x] = opened[x]
      /\ opened' \in [Tasks -> Nat]
  BY <1>2 DEF Finalize
<1>7. OpenInv'
  <2>1. \A x \in Tasks : terminals'[x] = 0 => opened'[x] = attempts'[x]
    BY <1>1, <1>6 DEF CollectorInv, OpenInv
  <2>2. \A rec \in records' : rec.call \in Tasks /\ terminals'[rec.call] # 0
    BY <1>1, <1>2, <1>3, <1>4
  <2>3. \A a, b \in records' : a.call = b.call => a = b
    BY <1>2, <1>3, <1>4
  <2>4. QED
    BY <1>6, <2>1, <2>2, <2>3 DEF OpenInv
<1>8. AttemptsAdd'
  <2>1. AttemptsAdd
    BY DEF CollectorInv
  <2>2. /\ IsFiniteSet(Units(opened')) /\ Total(opened) \in Nat /\ Total(opened') \in Nat
        /\ Total(opened') + opened[t] = Total(opened) + opened'[t]
    <3>1. IsFiniteSet(Units(opened)) /\ opened'[t] \in Nat /\ opened[t] \in Nat
      BY <1>2, <1>6, <2>1 DEF AttemptsAdd
    <3>2. t \in DOMAIN opened /\ DOMAIN opened' = DOMAIN opened
          /\ \A x \in DOMAIN opened : x # t => opened'[x] = opened[x]
      BY <1>6
    <3>3. QED
      BY ONLY <3>1, <3>2, UnitsReplaced
  <2>3. /\ IsFiniteSet(Units(AttemptsOf')) /\ Total(AttemptsOf) \in Nat
        /\ Total(AttemptsOf') = Total(AttemptsOf) + opened[t]
    <3>1. /\ IsFiniteSet(Units(AttemptsOf)) /\ new \notin DOMAIN AttemptsOf
          /\ DOMAIN AttemptsOf' = DOMAIN AttemptsOf \cup {new}
      BY <1>4, <1>5, <2>1 DEF AttemptsAdd, AttemptsOf
    <3>2. AttemptsOf'[new] = opened[t] /\ \A rec \in DOMAIN AttemptsOf : AttemptsOf'[rec] = AttemptsOf[rec]
      BY <1>3, <1>4 DEF AttemptsOf
    <3>3. AttemptsOf'[new] \in Nat
      BY <1>2, <3>2
    <3>4. QED
      BY ONLY <3>1, <3>2, <3>3, UnitsAdded
  <2>4. /\ Units(opened)' = Units(opened') /\ Total(opened)' = Total(opened')
        /\ Units(AttemptsOf)' = Units(AttemptsOf') /\ Total(AttemptsOf)' = Total(AttemptsOf')
        /\ AttemptTotal = Total(AttemptsOf) /\ AttemptTotal' = Total(AttemptsOf')
    BY DEF Units, Total, AttemptTotal
  <2>5. Total(opened') + Total(AttemptsOf') = Total(opened) + Total(AttemptsOf)
    BY <1>2, <1>6, <2>2, <2>3
  <2>6. AttemptTotal' \in Nat
    BY <1>2, <2>3, <2>4
  <2>7. QED
    BY <2>1, <2>2, <2>3, <2>4, <2>5, <2>6 DEF AttemptsAdd
<1>9. QED
  BY <1>4, <1>5, <1>7, <1>8 DEF new
\* A record without tokens adds nothing to the usage.
LEMMA NoTokens ==
  ASSUME NEW t, NEW f, records' = records \cup {NewRecord(t)}, NewRecord(t).tokens = Unreported
  PROVE  TokensOf(f)' = TokensOf(f)
<1>1. {r \in records' : r.tokens # Unreported} = {r \in records : r.tokens # Unreported}
  OBVIOUS
<1>2. QED
  BY <1>1 DEF TokensOf

LEMMA ErrorCollected ==
  ASSUME IInv, CollectorInv, NEW t \in Tasks, Erred(t), Finalize(t), Lost \subseteq Lost'
  PROVE  CollectorInv'
<1>1. /\ OpenInv' /\ AttemptsAdd'
      /\ records' = records \cup {NewRecord(t)}
  BY RecordMade DEF Erred
<1>2. NewRecord(t).tokens = Unreported
  BY DEF Erred, NewRecord
<1>3. ASSUME NEW f \in TokenFields
      PROVE  TokensAdd(f)'
  <2>1. TokensOf(f)' = TokensOf(f)
    BY <1>1, <1>2, NoTokens
  <2>2. TokensAdd(f) /\ used' = used
    BY DEF CollectorInv, Erred
  <2>3. QED
    BY <2>1, <2>2 DEF TokensAdd, UsageTotal, Total, Units
<1>4. QED
  BY <1>1, <1>3 DEF CollectorInv

LEMMA AnswerCollected ==
  ASSUME IInv, CollectorInv, NEW t \in Tasks, Answered(t), Finalize(t), Lost \subseteq Lost'
  PROVE  CollectorInv'
<1> DEFINE new == NewRecord(t)
<1>1. PICK u \in Usages : record_without_call(u)
  BY DEF Answered
<1>2. u \in [TokenFields -> Nat]
  BY CallsAssumption DEF CallsAssumption
<1>3. /\ used'["llm_calls"] = used["llm_calls"]
      /\ \A f \in TokenFields : used[f] \in Nat /\ used'[f] = used[f] + u[f]
  BY <1>1 DEF record_without_call, IInv, TypeOK, Cost, Fields, TokenFields
<1>4. Reported = u
  BY <1>2, <1>3 DEF Reported
<1>5. /\ OpenInv' /\ AttemptsAdd'
      /\ new \notin records /\ records' = records \cup {new}
  BY <1>3, RecordMade DEF Answered
<1>6. new.tokens = EventTokens
  BY DEF Answered, NewRecord
<1>7. ASSUME NEW f \in TokenFields
      PROVE  TokensAdd(f)'
  <2>1. /\ TokensAdd(f) /\ u[f] \in Nat /\ used[f] \in Nat /\ used'[f] = used[f] + u[f]
    BY <1>2, <1>3 DEF CollectorInv
  <2>2. /\ IsFiniteSet(Units(TokensOf(f)'))
        /\ Total(TokensOf(f)') = Total(TokensOf(f)) + u[f]
    <3>1. CASE u = Silent
      <4>1. new.tokens = Unreported /\ u[f] = 0
        BY <1>4, <1>6, <3>1 DEF EventTokens, Silent
      <4>2. TokensOf(f)' = TokensOf(f)
        BY <1>5, <4>1, NoTokens
      <4>3. Total(TokensOf(f)) \in Nat /\ IsFiniteSet(Units(TokensOf(f)))
        BY <2>1 DEF TokensAdd, UsageTotal
      <4>4. QED
        BY <4>1, <4>2, <4>3
    <3>2. CASE u # Silent
      <4>1. new.tokens = {u}
        BY <1>4, <1>6, <3>2 DEF EventTokens
      <4>. HIDE DEF new
      <4>2. /\ new \notin DOMAIN TokensOf(f)
            /\ DOMAIN TokensOf(f)' = DOMAIN TokensOf(f) \cup {new}
        BY <1>5, <4>1 DEF TokensOf, Unreported
      <4>3. TokensOf(f)'[new] = (CHOOSE usage \in new.tokens : TRUE)[f]
        BY <1>5, <4>1 DEF TokensOf, Unreported
      <4>4. (CHOOSE usage \in new.tokens : TRUE) = u
        BY <4>1
      <4>5. TokensOf(f)'[new] = u[f]
        BY <4>3, <4>4
      <4>6. \A rec \in DOMAIN TokensOf(f) : TokensOf(f)'[rec] = TokensOf(f)[rec]
        BY <1>5 DEF TokensOf
      <4>7. IsFiniteSet(Units(TokensOf(f))) /\ TokensOf(f)'[new] \in Nat
        BY <2>1, <4>5 DEF TokensAdd
      <4> DEFINE before == TokensOf(f)
                 after == TokensOf(f)'
      <4>8. /\ new \notin DOMAIN before /\ DOMAIN after = DOMAIN before \cup {new}
            /\ IsFiniteSet(Units(before)) /\ after[new] \in Nat /\ after[new] = u[f]
            /\ \A rec \in DOMAIN before : after[rec] = before[rec]
        BY <4>2, <4>5, <4>6, <4>7
      <4>. HIDE DEF before, after
      <4>9. IsFiniteSet(Units(after)) /\ Total(after) = Total(before) + u[f]
        BY ONLY <4>8, UnitsAdded
      <4>10. QED
        BY <4>9 DEF before, after
    <3>3. QED
      BY <3>1, <3>2
  <2>3. /\ Units(TokensOf(f))' = Units(TokensOf(f)') /\ UsageTotal(f)' = Total(TokensOf(f)')
        /\ UsageTotal(f) = Total(TokensOf(f))
    BY DEF Units, UsageTotal, Total
  <2>4. Lost' = {} => Lost = {}
    OBVIOUS
  <2>5. QED
    BY <2>1, <2>2, <2>3, <2>4 DEF TokensAdd
<1>8. QED
  BY <1>5, <1>7 DEF CollectorInv

\* The initial collector has seen nothing, the initial tracker spent nothing.
LEMMA CollectorInit == TelemetryInit => CollectorInv
<1> SUFFICES ASSUME TelemetryInit
             PROVE  CollectorInv
  OBVIOUS
<1>1. OpenInv
  BY DEF TelemetryInit, Init, OpenInv
<1>2. IsFiniteSet({}) /\ Cardinality({}) = 0
  BY FS_EmptySet
<1>3. Units(opened) = {} /\ Units(AttemptsOf) = {}
  BY DEF TelemetryInit, Units, AttemptsOf
<1>4. AttemptsAdd
  <2>1. used["llm_calls"] = 0
    BY DEF TelemetryInit, Init, Zero, Fields
  <2>2. Total(opened) = 0 /\ AttemptTotal = 0
    BY <1>2, <1>3 DEF AttemptTotal, Total
  <2>3. QED
    BY <1>2, <1>3, <2>1, <2>2 DEF AttemptsAdd
<1>5. ASSUME NEW f \in TokenFields
      PROVE  TokensAdd(f)
  <2>1. Units(TokensOf(f)) = {}
    BY DEF TelemetryInit, Units, TokensOf
  <2>2. used[f] = 0
    BY DEF TelemetryInit, Init, Zero, Fields, TokenFields
  <2>3. QED
    BY <1>2, <2>1, <2>2 DEF TokensAdd, UsageTotal, Total
<1>6. QED
  BY <1>1, <1>4, <1>5 DEF CollectorInv

\* The event of a step reaches the collector as what it is.
LEMMA CollectorStep ==
  ASSUME IInv, IInv', TraceInv, CollectorInv, NEW t \in Tasks, Step(t), Collect
  PROVE  CollectorInv'
<1>1. Lost \subseteq Lost'
  BY StaysLost
<1>2. \A x \in Tasks : attempts[x] \in Nat /\ terminals[x] \in Nat
  BY CallsAssumption DEF CallsAssumption, IInv, TypeOK
<1>3. \A f \in TokenFields : used[f] <= used'[f]
  BY UsedGrows DEF Fields
<1>4. CASE Started(t)
  <2>1. /\ attempts'[t] = attempts[t] + 1 /\ terminals' = terminals
        /\ \A x \in Tasks : x # t => attempts'[x] = attempts[x]
    BY <1>4 DEF Started, IInv, TypeOK
  <2>2. OnStart(t)
    BY <1>2, <2>1 DEF Collect
  <2>3. QED
    BY <1>1, <1>4, <2>2, StartCollected
<1>5. CASE Answered(t) \/ Erred(t)
  <2>1. Closed(t)
    BY <1>5 DEF Answered, Erred
  <2>2. /\ terminals'[t] = terminals[t] + 1 /\ attempts' = attempts
        /\ \A x \in Tasks : x # t => terminals'[x] = terminals[x]
    BY <2>1 DEF Closed, IInv, TypeOK
  <2>3. Finalize(t)
    BY <1>2, <2>2 DEF Collect
  <2>4. QED
    BY <1>1, <1>5, <2>3, AnswerCollected, ErrorCollected
<1>6. CASE Mangled \/ UNCHANGED <<attempts, terminals, used>>
  <2>1. UNCHANGED <<attempts, terminals>> /\ used'["llm_calls"] = used["llm_calls"]
    BY <1>6 DEF Mangled
  <2>2. UNCHANGED telemetryVars
    BY <1>2, <2>1 DEF Collect
  <2>3. Lost' = {} => Lost = {} /\ used' = used
    BY <1>1, <1>6 DEF Mangled
  <2>4. QED
    BY <1>3, <2>1, <2>2, <2>3, NothingCollected
<1>7. QED
  BY <1>4, <1>5, <1>6, StepEvents

LEMMA CollectorNext ==
  ASSUME IInv, IInv', TraceInv, CollectorInv, [TelemetryNext]_<<vars, telemetryVars>>
  PROVE  CollectorInv'
<1>1. ASSUME UNCHANGED <<taskVars, used>>, Collect \/ UNCHANGED telemetryVars
      PROVE  CollectorInv'
  <2>1. UNCHANGED <<pc, attempts, terminals, used>>
    BY <1>1 DEF taskVars
  <2>2. \A x \in Tasks : attempts[x] \in Nat /\ terminals[x] \in Nat
    BY CallsAssumption DEF CallsAssumption, IInv, TypeOK
  <2>3. UNCHANGED telemetryVars
    BY <1>1, <2>1, <2>2 DEF Collect
  <2>4. Lost' = Lost /\ \A f \in TokenFields : used[f] <= used'[f]
    BY <2>1 DEF Lost, IInv, TypeOK, Cost, Fields
  <2>5. QED
    BY <2>1, <2>3, <2>4, NothingCollected
<1>2. CASE UNCHANGED <<vars, telemetryVars>>
  BY <1>1, <1>2 DEF vars
<1>3. CASE TelemetryNext
  <2>1. CASE \E t \in Tasks : Step(t)
    BY <1>3, <2>1, CollectorStep DEF TelemetryNext
  <2>2. CASE Abort \/ CallerCancels \/ BadReducePrompt \/ Conclude \/ Over
    BY <1>1, <1>3, <2>2
       DEF TelemetryNext, Abort, CallerCancels, BadReducePrompt, Conclude, Return, Disagree, RaiseVanished,
           RaiseSingle, RaiseGroup, RaiseCancelled, Close, Over, vars
  <2>3. QED
    BY <1>3, <2>1, <2>2 DEF TelemetryNext, Next
<1>4. QED
  BY <1>2, <1>3

\* However the calls of a fan-out interleave, fail and are cancelled, the
\* collector's summary agrees with the tracker they share: its attempts always,
\* its tokens unless a response was recorded in part.
THEOREM Summary == TelemetrySpec => []SummaryAgrees
<1>1. TelemetryInit => IInv /\ TraceInv /\ CollectorInv
  BY InitIInv, CollectorInit DEF TelemetryInit, Init, TraceInv, InFlightStates
<1>2. IInv /\ TraceInv /\ CollectorInv /\ [TelemetryNext]_<<vars, telemetryVars>>
          => (IInv /\ TraceInv /\ CollectorInv)'
  <2> SUFFICES ASSUME IInv, TraceInv, CollectorInv, [TelemetryNext]_<<vars, telemetryVars>>
               PROVE  (IInv /\ TraceInv /\ CollectorInv)'
    OBVIOUS
  <2>1. [Next]_vars
    BY DEF TelemetryNext
  <2>2. IInv' /\ TraceInv'
    BY <2>1, NextIInv, NextTraceInv
  <2>3. QED
    BY <2>2, CollectorNext
<1>3. CollectorInv => SummaryAgrees
  BY DEF CollectorInv, OpenInv, AttemptsAdd, TokensAdd, SummaryAgrees
<1>4. QED
  BY <1>1, <1>2, <1>3, PTL DEF TelemetrySpec
=============================================================================
