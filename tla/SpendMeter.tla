----------------------------- MODULE SpendMeter -----------------------------
(***************************************************************************)
(* What one pattern run (consensus, map_reduce, ...) promises about spend, *)
(* whoever schedules its calls: a meter.  A logical call is admitted only  *)
(* while every budget field has room and at most MaxOpen calls are open; a *)
(* retry is admitted while the call budget has room; an open call is       *)
(* settled once, adding at most MaxUsage to each token field, or dropped.  *)
(* Once the run is over the meter never moves again.                       *)
(***************************************************************************)
EXTENDS Integers, TLAPS

CONSTANTS Limit,     \* max_cost: 0 is unlimited, -1 is used up, n > 0 is a cap
          MaxOpen,   \* logical calls that may be open at once
          MaxUsage   \* most tokens one response may report in a field

TokenFields == {"input_tokens", "output_tokens"}
MeterFields == {"llm_calls"} \cup TokenFields

\* What the theorems below ask of the constants.
MeterConstants ==
    /\ Limit \in [MeterFields -> Nat \cup {-1}]
    /\ MaxOpen \in Nat \ {0}
    /\ MaxUsage \in Nat

VARIABLES spent,   \* tokens and calls charged so far, per field
          open,    \* logical calls admitted and not yet settled or dropped
          over     \* the run has ended
meterVars == <<spent, open, over>>

Room(f) == Limit[f] = 0 \/ spent[f] < Limit[f]

ChargeCall == spent' = [spent EXCEPT !["llm_calls"] = @ + 1]

Init ==
    /\ spent = [f \in MeterFields |-> 0]
    /\ open = 0
    /\ over = FALSE

Admit ==
    /\ ~over
    /\ open < MaxOpen
    /\ \A f \in MeterFields : Room(f)
    /\ ChargeCall
    /\ open' = open + 1
    /\ UNCHANGED over

Retry ==
    /\ ~over
    /\ open > 0
    /\ Room("llm_calls")
    /\ ChargeCall
    /\ UNCHANGED <<open, over>>

Settle ==
    /\ ~over
    /\ open > 0
    /\ open' = open - 1
    /\ \E u \in [TokenFields -> 0 .. MaxUsage] :
           spent' = [f \in MeterFields |->
                        IF f \in TokenFields THEN spent[f] + u[f] ELSE spent[f]]
    /\ UNCHANGED over

Drop ==
    /\ ~over
    /\ open > 0
    /\ open' = open - 1
    /\ UNCHANGED <<spent, over>>

Conclude ==
    /\ ~over
    /\ open = 0
    /\ over' = TRUE
    /\ UNCHANGED <<spent, open>>

Next == Admit \/ Retry \/ Settle \/ Drop \/ Conclude

Spec == Init /\ [][Next]_meterVars
-----------------------------------------------------------------------------
MeterTypeOK ==
    /\ spent \in [MeterFields -> Nat]
    /\ open \in 0 .. MaxOpen
    /\ over \in BOOLEAN

\* The call budget is never exceeded, and nothing is charged against a budget
\* field that was handed over already used up.
CallsWithinLimit ==
    /\ Limit["llm_calls"] > 0 => spent["llm_calls"] <= Limit["llm_calls"]
    /\ (\E f \in MeterFields : Limit[f] = -1) =>
           spent = [f \in MeterFields |-> 0]

\* A token budget is a check before dispatch, not a ceiling: the overshoot is
\* what the calls that were open when the limit was reached can still report.
OvershootBounded ==
    \A f \in TokenFields :
        Limit[f] > 0 => spent[f] <= Limit[f] - 1 + MaxOpen * MaxUsage
-----------------------------------------------------------------------------
\* The strengthening: what is spent, with every open call counted at the most
\* it can still report, is within what a full house could have added to a field
\* that was one token short of its limit.  Admit is where it is earned.
Exposure ==
    \A f \in TokenFields :
        Limit[f] > 0 =>
            spent[f] + open * MaxUsage <= Limit[f] - 1 + MaxOpen * MaxUsage

\* A budget handed over used up admits no call, so none can retry or report.
Sealed == (\E f \in MeterFields : Limit[f] = -1) => open = 0

MeterInv == MeterTypeOK /\ CallsWithinLimit /\ Sealed /\ Exposure

\* The two facts about products the exposure argument rests on: one call more
\* or less, and fewer calls.
LEMMA OneMore ==
  ASSUME NEW n \in Nat, NEW m \in Nat
  PROVE  (n + 1) * m = n * m + m
OBVIOUS

LEMMA FewerCalls ==
  ASSUME NEW n \in Nat, NEW k \in Nat, NEW m \in Nat, n <= k
  PROVE  n * m <= k * m
<1>1. PICK d \in Nat : k = n + d
  <2>1. k - n \in Nat /\ k = n + (k - n)
    OBVIOUS
  <2>2. QED
    BY <2>1
<1>2. k * m = n * m + d * m /\ d * m \in Nat /\ n * m \in Nat
  BY <1>1
<1>3. QED
  BY <1>2

\* Every open call may still report: settling one of them, with at most
\* MaxUsage per field, moves exposure into what is spent.
LEMMA ExposureKept ==
  ASSUME MeterConstants, MeterInv, Next
  PROVE  Exposure'
<1> USE DEF MeterConstants, MeterFields, TokenFields
<1> USE DEF MeterInv, MeterTypeOK
<1> DEFINE Full == MaxOpen * MaxUsage
<1>1. open * MaxUsage \in Nat /\ Full \in Nat
  OBVIOUS
<1>2. CASE Admit
  <2>1. open' = open + 1 /\ open + 1 <= MaxOpen /\ open \in Nat
    BY <1>2 DEF Admit
  <2>2. open' * MaxUsage <= Full
    BY <2>1, FewerCalls
  <2>3. ASSUME NEW f \in TokenFields, Limit[f] > 0
        PROVE  spent'[f] <= Limit[f] - 1
    BY <1>2, <2>3 DEF Admit, ChargeCall, Room
  <2>4. spent' \in [MeterFields -> Nat] /\ open' * MaxUsage \in Nat
    BY <1>2, <2>1 DEF Admit, ChargeCall
  <2> HIDE DEF Full
  <2>5. QED
    BY <1>1, <2>2, <2>3, <2>4 DEF Exposure, Full
<1>3. CASE Retry
  BY <1>3 DEF Retry, ChargeCall, Exposure
<1>4. CASE Settle
  <2>1. PICK n \in Nat : open = n + 1 /\ open' = n
    <3>1. open - 1 \in Nat /\ open = (open - 1) + 1 /\ open' = open - 1
      BY <1>4 DEF Settle
    <3>2. QED
      BY <3>1
  <2>2. open * MaxUsage = open' * MaxUsage + MaxUsage /\ open' * MaxUsage \in Nat
    BY <2>1, OneMore
  <2>3. \A f \in TokenFields : spent'[f] <= spent[f] + MaxUsage /\ spent'[f] \in Nat
    BY <1>4 DEF Settle
  <2> DEFINE Now == open * MaxUsage
             Then == open' * MaxUsage
  <2> HIDE DEF Full, Now, Then
  <2>4. QED
    BY <1>1, <2>2, <2>3 DEF Exposure, Full, Now, Then
<1>5. CASE Drop
  <2>1. PICK n \in Nat : open = n + 1 /\ open' = n
    <3>1. open - 1 \in Nat /\ open = (open - 1) + 1 /\ open' = open - 1
      BY <1>5 DEF Drop
    <3>2. QED
      BY <3>1
  <2>2. open * MaxUsage = open' * MaxUsage + MaxUsage /\ open' * MaxUsage \in Nat
    BY <2>1, OneMore
  <2>3. spent' = spent
    BY <1>5 DEF Drop
  <2> DEFINE Now == open * MaxUsage
             Then == open' * MaxUsage
  <2> HIDE DEF Full, Now, Then
  <2>4. QED
    BY <1>1, <2>2, <2>3 DEF Exposure, Full, Now, Then
<1>6. CASE Conclude
  BY <1>6 DEF Conclude, Exposure
<1>7. QED
  BY <1>2, <1>3, <1>4, <1>5, <1>6 DEF Next

\* No step of the meter breaks its invariant, whatever the limits.
LEMMA MeterInvInductive ==
  ASSUME MeterConstants
  PROVE  /\ Init => MeterInv
         /\ MeterInv /\ [Next]_meterVars => MeterInv'
<1> USE DEF MeterConstants, MeterFields, TokenFields
<1>1. ASSUME Init
      PROVE  MeterInv
  <2>1. MeterTypeOK /\ CallsWithinLimit /\ Sealed
    <3>1. MeterTypeOK
      <4> HIDE DEF MeterFields
      <4>1. spent \in [MeterFields -> Nat]
        BY <1>1 DEF Init
      <4>2. open \in 0 .. MaxOpen
        BY <1>1 DEF Init
      <4>3. over \in BOOLEAN
        BY <1>1 DEF Init
      <4>4. QED
        BY <4>1, <4>2, <4>3 DEF MeterTypeOK
    <3>2. CallsWithinLimit
      BY <1>1 DEF Init, CallsWithinLimit
    <3>3. Sealed
      BY <1>1 DEF Init, Sealed
    <3>4. QED
      BY <3>1, <3>2, <3>3
  <2>2. MaxOpen * MaxUsage \in Nat
    OBVIOUS
  <2>3. Exposure
    BY <1>1, <2>2 DEF Init, Exposure
  <2>4. QED
    BY <2>1, <2>3 DEF MeterInv
<1>2. ASSUME MeterInv, Next
      PROVE  MeterInv'
  <2> USE <1>2 DEF MeterInv, MeterTypeOK, CallsWithinLimit, Sealed
  <2>1. (MeterTypeOK /\ CallsWithinLimit /\ Sealed)'
    <3>1. CASE Admit
      BY <3>1 DEF Admit, ChargeCall, Room
    <3>2. CASE Retry
      BY <3>2 DEF Retry, ChargeCall, Room
    <3>3. CASE Settle
      BY <3>3 DEF Settle
    <3>4. CASE Drop
      BY <3>4 DEF Drop
    <3>5. CASE Conclude
      BY <3>5 DEF Conclude
    <3>6. QED
      BY <3>1, <3>2, <3>3, <3>4, <3>5 DEF Next
  <2>2. QED
    BY <2>1, ExposureKept
<1>3. ASSUME MeterInv, UNCHANGED meterVars
      PROVE  MeterInv'
  BY <1>3 DEF meterVars, MeterInv, MeterTypeOK, CallsWithinLimit, Sealed, Exposure
<1>4. QED
  BY <1>1, <1>2, <1>3

\* The meter keeps the call budget and bounds the token overshoot for every
\* limit, every concurrency and every size of response.
THEOREM MeterSafe ==
  ASSUME MeterConstants
  PROVE  Spec => [](CallsWithinLimit /\ OvershootBounded)
<1>1. ASSUME MeterInv
      PROVE  CallsWithinLimit /\ OvershootBounded
  <2> USE DEF MeterConstants, MeterFields, TokenFields
  <2>1. open * MaxUsage \in Nat /\ MaxOpen * MaxUsage \in Nat
    BY <1>1 DEF MeterInv, MeterTypeOK
  <2>2. QED
    BY <1>1, <2>1 DEF MeterInv, MeterTypeOK, Exposure, OvershootBounded
<1>2. QED
  BY <1>1, MeterInvInductive, PTL DEF Spec
=============================================================================
