-------------------------- MODULE KitSessionProofs --------------------------
(***************************************************************************)
(* Pacing, conversations, streams and usage of KitSession for every set of *)
(* turns and streams, every rate, capacity and Retry-After and any number  *)
(* of attempts and lines; last, that no call goes on for ever by itself.   *)
(* The token bucket's facts are about its clock and credit only, so one    *)
(* lemma serves the bucket alone and the bucket in a session.              *)
(***************************************************************************)
EXTENDS KitSession, SequenceTheorems, FiniteSetTheorems, TLAPS

ClockTypeOK ==
    /\ now \in Nat
    /\ credit \in 0 .. Cap
    /\ refilled \in 0 .. now
    /\ penalty \in Nat
    /\ grants \in Seq(Nat)
    /\ drains \in SUBSET [until : Nat, after : Nat]

\* What is spent since the i-th grant and what could be taken now are no more than
\* a full bucket and the refill since then: the potential behind RateBound.
Spent(i) == (Len(grants) - i + 1) * Period

CreditInv ==
    \A i \in 1 .. Len(grants) :
        /\ grants[i] <= now
        /\ Spent(i) + Refilled <= Cap + (now - grants[i])

\* The penalty outlasts every cooldown, and a cooldown knows past grants only.
PenaltyInv ==
    \A d \in drains : d.until <= penalty /\ d.after <= Len(grants)

BucketInv ==
    /\ ClockTypeOK
    /\ CreditInv
    /\ RateBound
    /\ PenaltyInv
    /\ CooldownHonoured

\* What any step does to the clock and the bucket.
ClockStep ==
    \/ Tick
    \/ Take
    \/ \E c \in Callers : Cooling(c) \/ Dry(c)
    \/ \E seconds \in Cooldowns : drain(seconds)
    \/ UNCHANGED clockVars
-----------------------------------------------------------------------------
LEMMA OneMore ==
  ASSUME NEW m \in Int, NEW n \in Int
  PROVE  (m + 1) * n = m * n + n
OBVIOUS

\* The refill keeps the credit within the capacity and never lowers it.
LEMMA RefillBounds ==
  ASSUME ClockTypeOK
  PROVE  Refilled \in 0 .. Cap /\ credit <= Refilled
BY BucketAssumption DEF ClockTypeOK, BucketAssumption, Refilled, Least

\* The clock's step refills at most one tick.
LEMMA TickInv ==
  ASSUME BucketInv, Tick
  PROVE  BucketInv'
<1> USE BucketAssumption DEF BucketAssumption
<1>1. ClockTypeOK /\ ClockTypeOK'
  BY DEF BucketInv, Tick, ClockTypeOK
<1>2. Refilled \in Nat /\ Refilled' \in Nat /\ Refilled' <= Refilled + 1
  BY <1>1 DEF ClockTypeOK, Tick, Refilled, Least
<1>3. CreditInv'
  <2> SUFFICES ASSUME NEW i \in 1 .. Len(grants')
               PROVE  grants'[i] <= now' /\ Spent(i)' + Refilled' <= Cap + (now' - grants'[i])
    BY DEF CreditInv
  <2>1. grants' = grants /\ now' = now + 1 /\ Spent(i)' = Spent(i)
    BY DEF Tick, Spent
  <2>2. grants[i] <= now /\ Spent(i) + Refilled <= Cap + (now - grants[i])
    BY <2>1 DEF BucketInv, CreditInv
  <2>3. Spent(i) \in Int /\ grants[i] \in Nat /\ now \in Nat
    BY <1>1, <2>1 DEF Spent, ClockTypeOK
  <2>4. Cap \in Nat
    OBVIOUS
  <2>5. grants'[i] = grants[i]
    BY <2>1
  <2>. HIDE DEF Spent, Refilled
  <2>6. grants[i] <= now'
    BY ONLY <2>1, <2>2, <2>3
  <2>7. Spent(i) + Refilled' <= Cap + (now' - grants[i])
    BY ONLY <1>2, <2>1, <2>2, <2>3, <2>4, SMTT(30)
  <2>8. QED
    BY ONLY <2>1, <2>5, <2>6, <2>7
<1>4. RateBound' /\ PenaltyInv' /\ CooldownHonoured'
  BY DEF BucketInv, RateBound, PenaltyInv, CooldownHonoured, Tick
<1>5. QED
  BY <1>1, <1>3, <1>4 DEF BucketInv

\* Taking a token moves Period ticks of credit into what is spent.
LEMMA TakeInv ==
  ASSUME BucketInv, Take
  PROVE  BucketInv'
<1> USE BucketAssumption DEF BucketAssumption
<1>0. ClockTypeOK /\ Refilled \in 0 .. Cap
  BY RefillBounds DEF BucketInv
<1>1. /\ now' = now /\ penalty' = penalty /\ drains' = drains
      /\ credit' = Refilled - Period /\ refilled' = now /\ Refilled >= Period /\ now >= penalty
      /\ grants' = Append(grants, now)
  BY DEF Take
<1>2. ClockTypeOK'
  BY <1>0, <1>1 DEF ClockTypeOK
<1>3. Refilled' = Refilled - Period
  <2>1. Refilled' = Least(Cap, credit' + (now' - refilled'))
    BY DEF Refilled
  <2>2. QED
    BY <1>0, <1>1, <2>1 DEF Least, ClockTypeOK
<1>4. /\ Len(grants') = Len(grants) + 1 /\ Len(grants) \in Nat
      /\ grants'[Len(grants) + 1] = now
      /\ \A i \in 1 .. Len(grants) : grants'[i] = grants[i] /\ grants[i] \in Nat
  BY <1>0, <1>1 DEF ClockTypeOK
<1>5. \A i \in 1 .. Len(grants) :
          /\ Spent(i) \in Int /\ Spent(i)' = Spent(i) + Period
          /\ Spent(i) + Refilled <= Cap + (now - grants[i]) /\ grants[i] <= now
  <2> SUFFICES ASSUME NEW i \in 1 .. Len(grants)
               PROVE  /\ Spent(i) \in Int /\ Spent(i)' = Spent(i) + Period
                      /\ Spent(i) + Refilled <= Cap + (now - grants[i]) /\ grants[i] <= now
    OBVIOUS
  <2>1. Spent(i)' = ((Len(grants) - i + 1) + 1) * Period
    BY <1>4 DEF Spent
  <2>2. Len(grants) - i + 1 \in Int /\ Period \in Int
    BY <1>4
  <2>3. Spent(i)' = Spent(i) + Period
    BY <2>1, <2>2, OneMore DEF Spent
  <2>4. Spent(i) \in Int
    BY <2>2 DEF Spent
  <2>5. QED
    BY <2>3, <2>4 DEF BucketInv, CreditInv
<1>6. CreditInv'
  <2> SUFFICES ASSUME NEW i \in 1 .. Len(grants')
               PROVE  grants'[i] <= now' /\ Spent(i)' + Refilled' <= Cap + (now' - grants'[i])
    BY DEF CreditInv
  <2>1. CASE i = Len(grants) + 1
    <3>1. Spent(i)' = 1 * Period
      BY <2>1, <1>4 DEF Spent
    <3>2. now \in Nat /\ grants'[i] = now
      BY <2>1, <1>0, <1>4 DEF ClockTypeOK
    <3>3. QED
      BY <3>1, <3>2, <1>0, <1>1, <1>3
  <2>2. CASE i \in 1 .. Len(grants)
    <3>1. /\ grants[i] <= now /\ Spent(i) \in Int /\ Spent(i)' = Spent(i) + Period
          /\ Spent(i) + Refilled <= Cap + (now - grants[i])
      BY <2>2, <1>5
    <3>2. now \in Nat /\ grants[i] \in Nat /\ grants'[i] = grants[i]
      BY <2>2, <1>0, <1>4 DEF ClockTypeOK
    <3>3. QED
      BY <3>1, <3>2, <1>0, <1>1, <1>3
  <2>3. QED
    BY <2>1, <2>2, <1>4
<1>7. RateBound'
  <2> SUFFICES ASSUME NEW i \in 1 .. Len(grants'), NEW j \in 1 .. Len(grants'), i <= j
               PROVE  (j - i + 1) * Period <= Cap + (grants'[j] - grants'[i])
    BY DEF RateBound
  <2>1. CASE j \in 1 .. Len(grants)
    BY <2>1, <1>4 DEF BucketInv, RateBound
  <2>2. CASE j = Len(grants) + 1 /\ i = j
    BY <2>2, <1>0, <1>4 DEF ClockTypeOK
  <2>3. CASE j = Len(grants) + 1 /\ i \in 1 .. Len(grants)
    <3>1. (j - i + 1) * Period = Spent(i)'
      BY <2>3, <1>4 DEF Spent
    <3>2. /\ grants[i] <= now /\ Spent(i) \in Int /\ Spent(i)' = Spent(i) + Period
          /\ Spent(i) + Refilled <= Cap + (now - grants[i])
      BY <2>3, <1>5
    <3>3. now \in Nat /\ grants[i] \in Nat /\ grants'[i] = grants[i] /\ grants'[j] = now
      BY <2>3, <1>0, <1>4 DEF ClockTypeOK
    <3>4. Refilled \in 0 .. Cap /\ Refilled >= Period /\ Cap \in Nat /\ Period \in Nat
      BY <1>0, <1>1
    <3>5. QED
      BY ONLY <3>1, <3>2, <3>3, <3>4
  <2>4. QED
    BY <2>1, <2>2, <2>3, <1>4
<1>8. PenaltyInv' /\ CooldownHonoured'
  <2> SUFFICES ASSUME NEW d \in drains
               PROVE  /\ d.until <= penalty /\ d.after <= Len(grants')
                      /\ \A i \in d.after + 1 .. Len(grants') : grants'[i] >= d.until
    BY <1>1 DEF PenaltyInv, CooldownHonoured
  <2>1. /\ d.until <= penalty /\ d.after <= Len(grants) /\ d.until \in Nat /\ d.after \in Nat
        /\ \A i \in d.after + 1 .. Len(grants) : grants[i] >= d.until
    BY <1>0 DEF BucketInv, PenaltyInv, CooldownHonoured, ClockTypeOK
  <2>2. QED
    BY <2>1, <1>0, <1>1, <1>4 DEF ClockTypeOK
<1>9. QED
  BY <1>2, <1>6, <1>7, <1>8 DEF BucketInv

\* A pass that finds no token only settles the refill so far.
LEMMA DryInv ==
  ASSUME BucketInv, NEW c \in Callers, Dry(c)
  PROVE  BucketInv'
<1> USE BucketAssumption DEF BucketAssumption
<1>0. ClockTypeOK /\ Refilled \in 0 .. Cap
  BY RefillBounds DEF BucketInv
<1>1. /\ now' = now /\ penalty' = penalty /\ drains' = drains /\ grants' = grants
      /\ credit' = Refilled /\ refilled' = now
  BY DEF Dry
<1>2. ClockTypeOK'
  BY <1>0, <1>1 DEF ClockTypeOK
<1>3. Refilled' = Refilled
  <2>1. Refilled' = Least(Cap, credit' + (now' - refilled'))
    BY DEF Refilled
  <2>2. QED
    BY <1>0, <1>1, <2>1 DEF Least, ClockTypeOK
<1>4. CreditInv'
  BY <1>1, <1>3 DEF BucketInv, CreditInv, Spent
<1>5. RateBound' /\ PenaltyInv' /\ CooldownHonoured'
  BY <1>1 DEF BucketInv, RateBound, PenaltyInv, CooldownHonoured
<1>6. QED
  BY <1>2, <1>4, <1>5 DEF BucketInv

\* A drain lowers the credit and lengthens the penalty.
LEMMA DrainInv ==
  ASSUME BucketInv, NEW seconds \in Cooldowns, drain(seconds)
  PROVE  BucketInv'
<1> USE BucketAssumption DEF BucketAssumption
<1>0. ClockTypeOK /\ Refilled \in 0 .. Cap /\ credit <= Refilled /\ seconds \in Nat
  BY RefillBounds DEF BucketInv
<1>1. /\ now' = now /\ grants' = grants /\ refilled' = now
      /\ credit' = Most(0, credit - seconds) /\ penalty' = Most(penalty, now + seconds)
      /\ drains' = {d \in drains : d.until > now}
                       \cup {[until |-> now + seconds, after |-> Len(grants)]}
  BY DEF drain, Cooldown
<1>2. /\ credit' \in 0 .. credit
      /\ penalty' \in Nat /\ penalty' >= penalty /\ penalty' >= now + seconds
  BY <1>0, <1>1 DEF ClockTypeOK, Most
<1>3. ClockTypeOK'
  <2>1. credit' \in 0 .. Cap /\ refilled' \in 0 .. now' /\ now' \in Nat /\ grants' \in Seq(Nat)
    BY <1>0, <1>1, <1>2 DEF ClockTypeOK
  <2>2. [until |-> now + seconds, after |-> Len(grants)] \in [until : Nat, after : Nat]
    BY <1>0 DEF ClockTypeOK
  <2>3. drains' \in SUBSET [until : Nat, after : Nat]
    BY <1>0, <1>1, <2>2 DEF ClockTypeOK
  <2>4. QED
    BY <2>1, <2>3, <1>2 DEF ClockTypeOK
<1>4. Refilled' \in Nat /\ Refilled' <= Refilled
  <2>1. Refilled' = Least(Cap, credit' + (now' - refilled'))
    BY DEF Refilled
  <2>2. now \in Nat /\ credit \in 0 .. Cap /\ credit' \in Nat /\ credit' <= credit
    BY <1>0, <1>2 DEF ClockTypeOK
  <2>3. credit' + (now' - refilled') = credit'
    BY <2>2, <1>1
  <2>4. Refilled' = credit'
    BY <2>1, <2>2, <2>3 DEF Least
  <2>5. QED
    BY <2>2, <2>4, <1>0
<1>5. CreditInv'
  <2> SUFFICES ASSUME NEW i \in 1 .. Len(grants)
               PROVE  grants[i] <= now /\ Spent(i) + Refilled' <= Cap + (now - grants[i])
    BY <1>1 DEF CreditInv, Spent
  <2>1. grants[i] <= now /\ Spent(i) + Refilled <= Cap + (now - grants[i])
    BY DEF BucketInv, CreditInv
  <2>2. Spent(i) \in Int /\ grants[i] \in Nat /\ now \in Nat
    BY <1>0 DEF Spent, ClockTypeOK
  <2>3. QED
    BY <2>1, <2>2, <1>0, <1>4
<1>6. RateBound'
  BY <1>1 DEF BucketInv, RateBound
<1>7. PenaltyInv' /\ CooldownHonoured'
  <2> SUFFICES ASSUME NEW d \in drains'
               PROVE  /\ d.until <= penalty' /\ d.after <= Len(grants)
                      /\ \A i \in d.after + 1 .. Len(grants) : grants[i] >= d.until
    BY <1>1 DEF PenaltyInv, CooldownHonoured
  <2>1. CASE d \in drains
    <3>1. /\ d.until <= penalty /\ d.after <= Len(grants) /\ d.until \in Nat
          /\ \A i \in d.after + 1 .. Len(grants) : grants[i] >= d.until
      BY <2>1, <1>0 DEF BucketInv, PenaltyInv, CooldownHonoured, ClockTypeOK
    <3>2. QED
      BY <3>1, <1>0, <1>2 DEF ClockTypeOK
  <2>2. CASE d = [until |-> now + seconds, after |-> Len(grants)]
    BY <2>2, <1>0, <1>2 DEF ClockTypeOK
  <2>3. QED
    BY <2>1, <2>2, <1>1
<1>8. QED
  BY <1>3, <1>5, <1>6, <1>7 DEF BucketInv

LEMMA BucketStart ==
  ASSUME BucketInit
  PROVE  BucketInv
<1>1. ClockTypeOK
  BY BucketAssumption DEF BucketAssumption, BucketInit, ClockTypeOK
<1>2. Len(grants) = 0 /\ drains = {}
  BY DEF BucketInit
<1>3. QED
  BY <1>1, <1>2 DEF BucketInv, CreditInv, RateBound, PenaltyInv, CooldownHonoured

\* BucketInv is kept by whatever can happen to the bucket.
LEMMA BucketStep ==
  ASSUME BucketInv, ClockStep
  PROVE  BucketInv'
<1>1. CASE Tick
  BY <1>1, TickInv
<1>2. CASE Take
  BY <1>2, TakeInv
<1>3. CASE UNCHANGED clockVars
  BY <1>3 DEF clockVars, BucketInv, ClockTypeOK, CreditInv, Spent, Refilled, Least, RateBound,
              PenaltyInv, CooldownHonoured
<1>4. ASSUME NEW c \in Callers, Cooling(c)
      PROVE  BucketInv'
  BY <1>4, <1>3 DEF Cooling
<1>5. ASSUME NEW c \in Callers, Dry(c)
      PROVE  BucketInv'
  BY <1>5, DryInv
<1>6. ASSUME NEW seconds \in Cooldowns, drain(seconds)
      PROVE  BucketInv'
  BY <1>6, DrainInv
<1>7. QED
  BY <1>1, <1>2, <1>3, <1>4, <1>5, <1>6 DEF ClockStep

\* The token bucket alone: however acquirers and drains interleave, what it grants
\* stays within its rate.
THEOREM BucketRate == BucketSpec => []RateBound
<1>1. BucketInit => BucketInv
  BY BucketStart
<1>2. BucketInv /\ [BucketNext]_bucketVars => BucketInv'
  <2>1. BucketNext => ClockStep
    BY DEF BucketNext, ClockStep
  <2>2. UNCHANGED bucketVars => ClockStep
    BY DEF bucketVars, clockVars, ClockStep
  <2>3. QED
    BY <2>1, <2>2, BucketStep
<1>3. BucketInv => RateBound
  BY DEF BucketInv
<1>4. QED
  BY <1>1, <1>2, <1>3, PTL DEF BucketSpec
-----------------------------------------------------------------------------
\* What any step of a session does to the bucket is one of its own steps.
LEMMA SessionClock ==
  ASSUME [Next]_vars
  PROVE  ClockStep
<1>1. CASE Clock
  BY <1>1 DEF Clock, ClockStep
<1>2. ASSUME NEW t \in Turns, Begin(t)
      PROVE  ClockStep
  BY <1>2 DEF Begin, ClockStep
<1>3. ASSUME NEW t \in Turns, TurnStep(t)
      PROVE  ClockStep
  <2>1. CASE Wait(t)
    BY <2>1 DEF Wait, ClockStep, Turns
  <2>2. CASE Acquire(t)
    BY <2>2 DEF Acquire, ClockStep
  <2>3. CASE Answer(t)
    BY <2>3 DEF Answer, ClockStep
  <2>4. CASE RateLimited(t)
    BY <2>4 DEF RateLimited, ClockStep
  <2>5. CASE Backoff(t)
    BY <2>5 DEF Backoff, ClockStep
  <2>6. CASE Fail(t)
    BY <2>6 DEF Fail, ClockStep
  <2>7. QED
    BY <1>3, <2>1, <2>2, <2>3, <2>4, <2>5, <2>6 DEF TurnStep
<1>4. CASE UNCHANGED bucketVars
  BY <1>4 DEF bucketVars, clockVars, ClockStep
<1>5. QED
  BY <1>1, <1>2, <1>3, <1>4 DEF Next, vars

\* Whatever turns and streams overlap, BucketInv holds in a session.
LEMMA SessionBucket == Spec => []BucketInv
<1>1. Init => BucketInv
  BY BucketStart DEF Init
<1>2. BucketInv /\ [Next]_vars => BucketInv'
  BY SessionClock, BucketStep
<1>3. QED
  BY <1>1, <1>2, PTL DEF Spec

\* Kit and with_retry: dispatches and attempts together take no more tokens from
\* the bucket in any stretch of time than its capacity and rate allow.
THEOREM Rate == Spec => []RateBound
<1>1. BucketInv => RateBound
  BY DEF BucketInv
<1>2. QED
  BY <1>1, SessionBucket, PTL

\* with_retry: after a 429 with a retry left, no dispatch or attempt of any turn gets
\* a token before its Retry-After is over, whatever other 429s come in between.
THEOREM Cooldowns429 == Spec => []CooldownHonoured
<1>1. BucketInv => CooldownHonoured
  BY DEF BucketInv
<1>2. QED
  BY <1>1, SessionBucket, PTL
-----------------------------------------------------------------------------
Message == [turn : Turns, role : {"user", "assistant"}]

TurnTypeOK ==
    /\ messages \in Seq(Message)
    /\ history \in [Turns -> Seq(Message)]
    /\ DOMAIN pc = Turns

\* Every answer in a conversation is a finished turn's, after what it was sent.
Seen(conversation) ==
    \A i \in 1 .. Len(conversation) :
        conversation[i].role = "assistant" =>
            /\ pc[conversation[i].turn] = "done"
            /\ SubSeq(conversation, 1, i - 1) = history[conversation[i].turn]

\* So it is for Kit.messages, because it is for whatever a turn has read of it.
SeenInv ==
    /\ TurnTypeOK
    /\ Seen(messages)
    /\ \A t \in Turns : Seen(history[t])

LEMMA Appended ==
  ASSUME NEW conversation \in Seq(Message), NEW m \in Message
  PROVE  LET longer == Append(conversation, m) IN
         /\ longer \in Seq(Message)
         /\ Len(longer) = Len(conversation) + 1
         /\ longer[Len(longer)] = m
         /\ SubSeq(longer, 1, Len(longer) - 1) = conversation
         /\ \A i \in 1 .. Len(conversation) :
                /\ longer[i] = conversation[i]
                /\ SubSeq(longer, 1, i - 1) = SubSeq(conversation, 1, i - 1)
<1> DEFINE longer == Append(conversation, m)
<1>1. /\ longer \in Seq(Message) /\ Len(longer) = Len(conversation) + 1
      /\ longer[Len(longer)] = m /\ Len(conversation) \in Nat
      /\ \A i \in 1 .. Len(conversation) : longer[i] = conversation[i]
  OBVIOUS
<1>2. SubSeq(longer, 1, Len(longer) - 1) = conversation
  BY <1>1
<1>3. ASSUME NEW i \in 1 .. Len(conversation)
      PROVE  SubSeq(longer, 1, i - 1) = SubSeq(conversation, 1, i - 1)
  BY <1>1, <1>3
<1>4. QED
  BY <1>1, <1>2, <1>3

LEMMA MessageTurn ==
  ASSUME NEW conversation \in Seq(Message), NEW i \in 1 .. Len(conversation)
  PROVE  conversation[i].turn \in Turns
<1>1. conversation[i] \in Message
  OBVIOUS
<1>2. QED
  BY <1>1 DEF Message

LEMMA SeenInit == Init => SeenInv
<1> SUFFICES ASSUME Init
             PROVE  SeenInv
  OBVIOUS
<1>1. TurnTypeOK
  BY DEF Init, TurnTypeOK
<1>2. Len(messages) = 0 /\ \A t \in Turns : Len(history[t]) = 0
  BY DEF Init
<1>3. QED
  BY <1>1, <1>2 DEF SeenInv, Seen

\* A step that ends no turn with an answer and begins none.
LEMMA SeenKept ==
  ASSUME SeenInv, UNCHANGED <<messages, history>>,
         DOMAIN pc' = Turns, \A t \in Turns : pc[t] = "done" => pc'[t] = "done"
  PROVE  SeenInv'
<1>1. TurnTypeOK'
  BY DEF SeenInv, TurnTypeOK
<1>2. ASSUME NEW conversation \in Seq(Message), Seen(conversation)
      PROVE  \A i \in 1 .. Len(conversation) : conversation[i].role = "assistant" =>
                 /\ pc'[conversation[i].turn] = "done"
                 /\ SubSeq(conversation, 1, i - 1) = history'[conversation[i].turn]
  <2> SUFFICES ASSUME NEW i \in 1 .. Len(conversation), conversation[i].role = "assistant"
               PROVE  /\ pc'[conversation[i].turn] = "done"
                      /\ SubSeq(conversation, 1, i - 1) = history'[conversation[i].turn]
    OBVIOUS
  <2>1. conversation[i].turn \in Turns
    BY MessageTurn
  <2>2. QED
    BY <1>2, <2>1 DEF Seen
<1>3. ASSUME NEW t \in Turns
      PROVE  Seen(history[t])'
  <2>1. history[t] \in Seq(Message) /\ Seen(history[t])
    BY DEF SeenInv, TurnTypeOK
  <2>2. \A i \in 1 .. Len(history[t]) : history[t][i].role = "assistant" =>
            /\ pc'[history[t][i].turn] = "done"
            /\ SubSeq(history[t], 1, i - 1) = history'[history[t][i].turn]
    BY ONLY <1>2, <2>1
  <2>3. history' = history
    OBVIOUS
  <2>4. QED
    BY ONLY <2>2, <2>3 DEF Seen
<1>4. Seen(messages)'
  <2>1. messages \in Seq(Message) /\ Seen(messages)
    BY DEF SeenInv, TurnTypeOK
  <2>2. \A i \in 1 .. Len(messages) : messages[i].role = "assistant" =>
            /\ pc'[messages[i].turn] = "done"
            /\ SubSeq(messages, 1, i - 1) = history'[messages[i].turn]
    BY ONLY <1>2, <2>1
  <2>3. messages' = messages
    OBVIOUS
  <2>4. QED
    BY ONLY <2>2, <2>3 DEF Seen
<1>5. QED
  BY <1>1, <1>3, <1>4 DEF SeenInv

\* A turn begins with the conversation it reads.
LEMMA SeenBegin ==
  ASSUME SeenInv, NEW t \in Turns, Begin(t)
  PROVE  SeenInv'
<1>1. /\ messages' = messages /\ messages \in Seq(Message)
      /\ history' = [history EXCEPT ![t] = Append(messages, User(t))]
      /\ pc[t] = "new" /\ pc' = [pc EXCEPT ![t] = "dispatching"]
      /\ history \in [Turns -> Seq(Message)] /\ DOMAIN pc = Turns
      /\ User(t) \in Message /\ User(t).role # "assistant"
  BY DEF SeenInv, TurnTypeOK, Begin, Goto, User, Message
<1>2. Append(messages, User(t)) \in Seq(Message)
  BY <1>1
<1>3. TurnTypeOK'
  BY <1>1, <1>2 DEF TurnTypeOK
<1>4. ASSUME NEW conversation \in Seq(Message), Seen(conversation),
             NEW i \in 1 .. Len(conversation), conversation[i].role = "assistant"
      PROVE  /\ pc'[conversation[i].turn] = "done"
             /\ SubSeq(conversation, 1, i - 1) = history'[conversation[i].turn]
  <2>1. conversation[i].turn \in Turns
    BY MessageTurn
  <2>2. /\ pc[conversation[i].turn] = "done"
        /\ SubSeq(conversation, 1, i - 1) = history[conversation[i].turn]
    BY <1>4 DEF Seen
  <2>3. conversation[i].turn # t
    BY <2>2, <1>1
  <2>4. QED
    BY <2>1, <2>2, <2>3, <1>1
<1>5. \A conversation \in Seq(Message) : Seen(conversation) =>
          \A i \in 1 .. Len(conversation) : conversation[i].role = "assistant" =>
              /\ pc'[conversation[i].turn] = "done"
              /\ SubSeq(conversation, 1, i - 1) = history'[conversation[i].turn]
  BY <1>4
<1>6. Seen(messages)'
  BY <1>1, <1>5 DEF SeenInv, Seen
<1>7. ASSUME NEW u \in Turns
      PROVE  Seen(history[u])'
  <2>1. CASE u # t
    <3>1. history'[u] = history[u] /\ history[u] \in Seq(Message) /\ Seen(history[u])
      BY <2>1, <1>1 DEF SeenInv
    <3>2. \A i \in 1 .. Len(history[u]) : history[u][i].role = "assistant" =>
              /\ pc'[history[u][i].turn] = "done"
              /\ SubSeq(history[u], 1, i - 1) = history'[history[u][i].turn]
      BY <3>1, <1>5
    <3>3. QED
      BY <3>1, <3>2 DEF Seen
  <2>2. CASE u = t
    <3>1. history'[u] = Append(messages, User(t))
      BY <2>2, <1>1
    <3>2. \A i \in 1 .. Len(messages) : messages[i].role = "assistant" =>
              /\ pc'[messages[i].turn] = "done"
              /\ SubSeq(messages, 1, i - 1) = history'[messages[i].turn]
      BY <1>1, <1>5 DEF SeenInv
    <3>3. ASSUME NEW i \in 1 .. Len(history'[u]), history'[u][i].role = "assistant"
          PROVE  /\ pc'[history'[u][i].turn] = "done"
                 /\ SubSeq(history'[u], 1, i - 1) = history'[history'[u][i].turn]
      <4>1. i \in 1 .. Len(messages)
        BY <3>1, <3>3, <1>1, Appended
      <4>2. /\ history'[u][i] = messages[i]
            /\ SubSeq(history'[u], 1, i - 1) = SubSeq(messages, 1, i - 1)
        BY <4>1, <3>1, <1>1, Appended
      <4>3. QED
        BY <4>1, <4>2, <3>2, <3>3
    <3>4. QED
      BY <3>3 DEF Seen
  <2>3. QED
    BY <2>1, <2>2
<1>8. QED
  BY <1>3, <1>6, <1>7 DEF SeenInv

\* A turn that is answered leaves its history and the answer.
LEMMA SeenAnswer ==
  ASSUME SeenInv, NEW t \in Turns, Answer(t)
  PROVE  SeenInv'
<1>1. /\ messages' = Append(history[t], Assistant(t)) /\ history' = history
      /\ history[t] \in Seq(Message) /\ history \in [Turns -> Seq(Message)]
      /\ pc' = [pc EXCEPT ![t] = "done"] /\ DOMAIN pc = Turns
      /\ Assistant(t) \in Message /\ Assistant(t).turn = t
  BY DEF SeenInv, TurnTypeOK, Answer, Transcript, End, Goto, Assistant, Message
<1>2. TurnTypeOK'
  BY <1>1, Appended DEF TurnTypeOK
<1>3. ASSUME NEW conversation \in Seq(Message), Seen(conversation)
      PROVE  \A i \in 1 .. Len(conversation) : conversation[i].role = "assistant" =>
                 /\ pc'[conversation[i].turn] = "done"
                 /\ SubSeq(conversation, 1, i - 1) = history'[conversation[i].turn]
  <2> SUFFICES ASSUME NEW i \in 1 .. Len(conversation), conversation[i].role = "assistant"
               PROVE  /\ pc'[conversation[i].turn] = "done"
                      /\ SubSeq(conversation, 1, i - 1) = history'[conversation[i].turn]
    OBVIOUS
  <2>1. conversation[i].turn \in Turns
    BY MessageTurn
  <2>2. QED
    BY <1>1, <1>3, <2>1 DEF Seen
<1>4. ASSUME NEW u \in Turns
      PROVE  Seen(history[u])'
  BY <1>1, <1>3 DEF SeenInv, TurnTypeOK, Seen
<1>5. ASSUME NEW i \in 1 .. Len(messages'), messages'[i].role = "assistant"
      PROVE  /\ pc'[messages'[i].turn] = "done"
             /\ SubSeq(messages', 1, i - 1) = history'[messages'[i].turn]
  <2>1. CASE i \in 1 .. Len(history[t])
    <3>1. /\ messages'[i] = history[t][i]
          /\ SubSeq(messages', 1, i - 1) = SubSeq(history[t], 1, i - 1)
      BY <2>1, <1>1, Appended
    <3>2. QED
      BY <2>1, <3>1, <1>1, <1>3, <1>5 DEF SeenInv
  <2>2. CASE i = Len(messages')
    <3>1. messages'[i] = Assistant(t) /\ SubSeq(messages', 1, i - 1) = history[t]
      BY <2>2, <1>1, Appended
    <3>2. QED
      BY <3>1, <1>1
  <2>3. QED
    BY <2>1, <2>2, <1>1, Appended
<1>6. QED
  BY <1>2, <1>4, <1>5 DEF SeenInv, Seen

LEMMA SeenStep ==
  ASSUME SeenInv, [Next]_vars
  PROVE  SeenInv'
<1>0. DOMAIN pc = Turns
  BY DEF SeenInv, TurnTypeOK
<1>1. CASE UNCHANGED turnVars
  BY <1>1, <1>0, SeenKept DEF turnVars
<1>2. CASE Clock
  BY <1>2, <1>1 DEF Clock
<1>3. ASSUME NEW t \in Turns, TurnStep(t)
      PROVE  SeenInv'
  <2>1. CASE Wait(t)
    BY <2>1, <1>1 DEF Wait
  <2>2. CASE Acquire(t)
    <3>1. UNCHANGED <<messages, history>> /\ pc[t] # "done"
      BY <2>2 DEF Acquire
    <3>2. DOMAIN pc' = Turns /\ \A u \in Turns : u # t => pc'[u] = pc[u]
      BY <2>2, <1>0 DEF Acquire, Goto
    <3>3. QED
      BY <3>1, <3>2, SeenKept
  <2>3. CASE Answer(t)
    BY <2>3, SeenAnswer
  <2>4. CASE RateLimited(t) \/ Backoff(t) \/ Fail(t)
    <3>1. UNCHANGED <<messages, history>> /\ pc[t] # "done"
      BY <2>4 DEF RateLimited, Backoff, Fail, Pending, Acquiring
    <3>2. DOMAIN pc' = Turns /\ \A u \in Turns : u # t => pc'[u] = pc[u]
      BY <2>4, <1>0 DEF RateLimited, Backoff, Fail, Goto, End
    <3>3. QED
      BY <3>1, <3>2, SeenKept
  <2>5. QED
    BY <1>3, <2>1, <2>2, <2>3, <2>4 DEF TurnStep
<1>4. QED
  BY <1>1, <1>2, <1>3, SeenBegin DEF Next, vars

\* Kit.turn: however many turns overlap, the conversation is never torn apart: an
\* answer always stands right after what was sent to get it.
THEOREM Transcripts == Spec => []TranscriptWhole
<1>1. SeenInv => TranscriptWhole
  <2>1. SeenInv => Seen(messages) /\ DOMAIN messages = 1 .. Len(messages)
    BY DEF SeenInv, TurnTypeOK
  <2>2. QED
    BY <2>1 DEF Seen, TranscriptWhole
<1>2. QED
  BY <1>1, SeenInit, SeenStep, PTL DEF Spec
-----------------------------------------------------------------------------
(* Streams. *)

Content == {"delta", "garbled"}

Items == Content \cup {"usage", "error", "None"}

Usage == [calls : Nat, tokens : Nat]

\* Where the deltas stand in a queue, and the frames that are no JSON object.
Deltas(q) == {i \in 1 .. Len(q) : q[i] \in Content}

Places == Folded \cup Unfolded \cup {"new", "open", "waiting", "yielded", "joining"}

Finished == {"returned", "gave up", "raised"}

Stages == Finished \cup {"idle", "reading", "complete", "broken", "crashing"}

StreamTypeOK ==
    /\ stream \in [Streams -> Places]
    /\ thread \in [Streams -> Stages]
    /\ queue \in [Streams -> Seq(Items)]
    /\ lines \in [Streams -> Nat]
    /\ reported \in [Streams -> BOOLEAN]
    /\ yielded \in [Streams -> Nat]
    /\ local \in [Streams -> Usage]
    /\ unwinding \in [Streams -> {"none", "error", "cancelled"}]

\* The reader of s still takes items, or has just taken the sentinel.
ReadingOn(s) ==
    \/ stream[s] \in {"waiting", "yielded"}
    \/ stream[s] = "joining" /\ unwinding[s] = "none"

\* No delta is lost between the producer and a reader that has not failed.
Counted(s) ==
    stream[s] # "failed" => yielded[s] + Cardinality(Deltas(queue[s])) = lines[s]

\* The sentinel is the last item.
SentinelLast(s) ==
    \A i \in 1 .. Len(queue[s]) :
        queue[s][i] = "None" => i = Len(queue[s]) /\ thread[s] \in Finished

ReadToEnd(s) ==
    stream[s] = "joining" /\ unwinding[s] = "none" => queue[s] = <<>> /\ thread[s] \in Finished

\* An error that broke the producer is read before the sentinel.
ErrorAhead(s) ==
    thread[s] \in {"broken", "gave up"} /\ ReadingOn(s) =>
        \E i \in 1 .. Len(queue[s]) : queue[s][i] = "error"

Untallied(s) == stream[s] \notin Folded => local[s].tokens = 0

\* No producer runs before the first delta is asked for.
Unasked(s) == stream[s] \in {"new", "open"} => thread[s] = "idle"

QueueInv(s) ==
    /\ Unasked(s)
    /\ Counted(s)
    /\ SentinelLast(s)
    /\ ReadToEnd(s)
    /\ ErrorAhead(s)
    /\ Untallied(s)
    /\ Whole(s)

StreamInv == StreamTypeOK /\ \A s \in Streams : QueueInv(s)

LEMMA DeltasFinite ==
  ASSUME NEW q \in Seq(Items)
  PROVE  IsFiniteSet(Deltas(q)) /\ Cardinality(Deltas(q)) \in Nat
<1>1. ASSUME NEW n \in Nat
      PROVE  IsFiniteSet(1 .. n)
  <2>1. 1 \in Int /\ n \in Int
    OBVIOUS
  <2>2. QED
    BY ONLY <2>1, FS_Interval
<1>2. Len(q) \in Nat
  OBVIOUS
<1>3. IsFiniteSet(1 .. Len(q))
  BY <1>1, <1>2
<1>4. Deltas(q) \in SUBSET (1 .. Len(q))
  BY DEF Deltas
<1>5. IsFiniteSet(Deltas(q))
  BY ONLY <1>3, <1>4, FS_Subset
<1>6. QED
  BY <1>5, FS_CardinalityType

LEMMA DeltasAppend ==
  ASSUME NEW q \in Seq(Items), NEW item \in Items
  PROVE  Cardinality(Deltas(Append(q, item))) =
             Cardinality(Deltas(q)) + IF item \in Content THEN 1 ELSE 0
<1> DEFINE n == Len(q) + 1
<1>1. /\ Len(q) \in Nat /\ Len(Append(q, item)) = n /\ Append(q, item)[n] = item
      /\ \A i \in 1 .. Len(q) : Append(q, item)[i] = q[i]
  OBVIOUS
<1>2. CASE item \in Content
  <2>1. Deltas(Append(q, item)) = Deltas(q) \cup {n} /\ n \notin Deltas(q)
    BY <1>1, <1>2 DEF Deltas
  <2>2. Cardinality(Deltas(q) \cup {n}) = Cardinality(Deltas(q)) + 1
    BY <2>1, DeltasFinite, FS_AddElement
  <2>3. QED
    BY <1>2, <2>1, <2>2
<1>3. CASE item \notin Content
  <2>1. Deltas(Append(q, item)) = Deltas(q)
    BY <1>1, <1>3 DEF Deltas
  <2>2. QED
    BY <1>3, <2>1, DeltasFinite
<1>4. QED
  BY <1>2, <1>3

LEMMA TailIndices ==
  ASSUME NEW q \in Seq(Items), q # <<>>
  PROVE  /\ Tail(q) \in Seq(Items) /\ Len(q) \in Nat \ {0} /\ Len(Tail(q)) = Len(q) - 1
         /\ Head(q) = q[1] /\ q[1] \in Items
         /\ \A i \in 1 .. Len(q) - 1 : Tail(q)[i] = q[i + 1]
<1>1. Len(q) \in Nat /\ Len(q) # 0
  OBVIOUS
<1>2. QED
  BY <1>1

LEMMA DeltasTail ==
  ASSUME NEW q \in Seq(Items), q # <<>>
  PROVE  Cardinality(Deltas(q)) =
             Cardinality(Deltas(Tail(q))) + IF Head(q) \in Content THEN 1 ELSE 0
<1> DEFINE f == [i \in Deltas(Tail(q)) |-> i + 1]
           Later == Deltas(q) \ {1}
<1>1. /\ Tail(q) \in Seq(Items) /\ Len(q) \in Nat \ {0} /\ Len(Tail(q)) = Len(q) - 1
      /\ \A i \in 1 .. Len(q) - 1 : Tail(q)[i] = q[i + 1]
      /\ Head(q) = q[1]
  BY TailIndices
<1>2. \A i \in Deltas(Tail(q)) : i \in Int /\ i + 1 \in Later
  BY <1>1 DEF Deltas
<1>3. ASSUME NEW j \in Later
      PROVE  \E i \in Deltas(Tail(q)) : f[i] = j
  <2>1. j \in 2 .. Len(q) /\ q[j] \in Content
    BY <1>1 DEF Deltas
  <2>2. j - 1 \in Deltas(Tail(q)) /\ (j - 1) + 1 = j
    BY <1>1, <2>1 DEF Deltas
  <2>3. QED
    BY <2>2
<1>4. f \in Bijection(Deltas(Tail(q)), Later)
  <2>1. f \in [Deltas(Tail(q)) -> Later]
    BY <1>2
  <2>2. \A a, b \in Deltas(Tail(q)) : f[a] = f[b] => a = b
    BY <1>2
  <2>. HIDE DEF f, Later
  <2>3. QED
    BY <1>3, <2>1, <2>2 DEF Bijection, Injection, Surjection, IsInjective
<1>5. Cardinality(Later) = Cardinality(Deltas(Tail(q)))
  <2>1. IsFiniteSet(Deltas(Tail(q)))
    BY <1>1, DeltasFinite
  <2>2. ExistsBijection(Deltas(Tail(q)), Later)
    BY <1>4 DEF ExistsBijection
  <2>. HIDE DEF Later
  <2>3. QED
    BY <2>1, <2>2, FS_Bijection
<1>6. /\ IsFiniteSet(Deltas(q)) /\ Cardinality(Deltas(q)) \in Nat
      /\ Cardinality(Later) = IF 1 \in Deltas(q) THEN Cardinality(Deltas(q)) - 1
                                                 ELSE Cardinality(Deltas(q))
  BY DeltasFinite, FS_RemoveElement
<1>7. 1 \in Deltas(q) <=> Head(q) \in Content
  BY <1>1 DEF Deltas
<1>8. QED
  BY <1>5, <1>6, <1>7

\* A step of one stream leaves the others as they are.
LEMMA OtherStreams ==
  ASSUME NEW s \in Streams, StreamTypeOK, StreamStep(s), NEW u \in Streams, u # s
  PROVE  /\ stream'[u] = stream[u] /\ thread'[u] = thread[u] /\ queue'[u] = queue[u]
         /\ lines'[u] = lines[u] /\ reported'[u] = reported[u] /\ yielded'[u] = yielded[u]
         /\ local'[u] = local[u] /\ unwinding'[u] = unwinding[u]
<1> USE DEF StreamTypeOK, At, Become, Put, threadVars, readerVars
<1>1. CASE PutLine(s) \/ PutUsageFrame(s)
  BY <1>1 DEF PutLine, PutUsageFrame
<1>2. CASE PutError(s) \/ Crash(s) \/ EndOfResponse(s) \/ PutSentinel(s)
  BY <1>2 DEF PutError, Crash, EndOfResponse, PutSentinel
<1>3. CASE Get(s)
  BY <1>3 DEF Get, Join, Fold
<1>4. CASE Joined(s)
  BY <1>4 DEF Joined, Fold
<1>5. CASE Refuse(s) \/ Announce(s) \/ AskNext(s)
  BY <1>5 DEF Refuse, Announce, AskNext
<1>6. CASE CancelReader(s) \/ CloseStream(s)
  BY <1>6 DEF CancelReader, CloseStream, Join, Fold
<1>7. QED
  BY <1>1, <1>2, <1>3, <1>4, <1>5, <1>6 DEF StreamStep, ProducerStep, ReaderStep, ConsumerStep

\* An item is put at the end of the queue of s.
Grown(s, item) ==
    /\ queue' \in [Streams -> Seq(Items)]
    /\ Len(queue[s]) \in Nat /\ Len(queue'[s]) = Len(queue[s]) + 1
    /\ queue'[s][Len(queue[s]) + 1] = item
    /\ \A i \in 1 .. Len(queue[s]) : queue'[s][i] = queue[s][i]
    /\ Cardinality(Deltas(queue'[s])) =
           Cardinality(Deltas(queue[s])) + IF item \in Content THEN 1 ELSE 0

LEMMA PutGrows ==
  ASSUME NEW s \in Streams, NEW item \in Items, StreamTypeOK, Put(s, item)
  PROVE  Grown(s, item)
<1> DEFINE q == queue[s]
<1>1. q \in Seq(Items)
  BY DEF StreamTypeOK
<1>2. Append(q, item) \in Seq(Items)
  BY <1>1
<1>3. queue' \in [Streams -> Seq(Items)] /\ queue'[s] = Append(q, item)
  BY <1>2 DEF Put, StreamTypeOK
<1>4. /\ Len(q) \in Nat /\ Len(queue'[s]) = Len(q) + 1 /\ queue'[s][Len(q) + 1] = item
      /\ \A i \in 1 .. Len(q) : queue'[s][i] = q[i]
  BY <1>1, <1>3
<1>5. QED
  BY <1>1, <1>3, <1>4, DeltasAppend DEF Grown

\* What the producer puts, and where it stands after it.
LEMMA ProducerKeeps ==
  ASSUME NEW s \in Streams, StreamInv, ProducerStep(s)
  PROVE  StreamTypeOK' /\ QueueInv(s)'
<1> DEFINE q == queue[s]
<1>1. /\ StreamTypeOK /\ QueueInv(s) /\ q \in Seq(Items)
      /\ lines[s] \in Nat /\ yielded[s] \in Nat /\ Cardinality(Deltas(q)) \in Nat
  BY DeltasFinite DEF StreamInv, StreamTypeOK
<1>2. UNCHANGED readerVars /\ thread[s] \notin Finished
  BY DEF ProducerStep, PutLine, PutUsageFrame, PutError, Crash, EndOfResponse, PutSentinel,
         Finished
<1>3. \A i \in 1 .. Len(q) : q[i] # "None"
  BY <1>1, <1>2 DEF QueueInv, SentinelLast
<1>4. Unasked(s)' /\ ReadToEnd(s)' /\ Untallied(s)' /\ Whole(s)'
  <2>1. ~ (stream[s] = "joining" /\ unwinding[s] = "none") /\ stream[s] # "ended"
    BY <1>1, <1>2 DEF QueueInv, ReadToEnd, Whole, Finished
  <2>2. stream[s] \notin {"new", "open"}
    BY <1>1 DEF QueueInv, Unasked, ProducerStep, PutLine, PutUsageFrame, PutError, Crash,
                EndOfResponse, PutSentinel
  <2>3. QED
    BY <1>1, <1>2, <2>1, <2>2 DEF QueueInv, Unasked, ReadToEnd, Untallied, Whole, readerVars
<1>0. /\ stream[s] # "failed" => yielded[s] + Cardinality(Deltas(q)) = lines[s]
      /\ yielded' = yielded /\ stream' = stream
  BY <1>1, <1>2 DEF QueueInv, Counted, readerVars
<1>12. ASSUME NEW item \in Items, Grown(s, item),
              lines'[s] = lines[s] + IF item \in Content THEN 1 ELSE 0
       PROVE  Counted(s)'
  <2> SUFFICES ASSUME stream[s] # "failed"
               PROVE  yielded'[s] + Cardinality(Deltas(queue'[s])) = lines'[s]
    BY <1>0 DEF Counted
  <2>1. yielded[s] \in Nat /\ lines[s] \in Nat /\ Cardinality(Deltas(q)) \in Nat
    BY <1>1
  <2>2. Cardinality(Deltas(queue'[s])) = Cardinality(Deltas(q)) + IF item \in Content THEN 1 ELSE 0
    BY <1>12 DEF Grown
  <2>3. yielded'[s] = yielded[s] /\ yielded[s] + Cardinality(Deltas(q)) = lines[s]
    BY <1>0
  <2>4. yielded[s] + Cardinality(Deltas(queue'[s])) = lines'[s]
    BY ONLY <1>12, <2>1, <2>2, <2>3
  <2>5. QED
    BY <2>3, <2>4 DEF Counted
<1>13. ASSUME NEW item \in Items \ {"None"}, Grown(s, item)
       PROVE  SentinelLast(s)'
  <2> SUFFICES ASSUME NEW i \in 1 .. Len(queue'[s])
               PROVE  queue'[s][i] # "None"
    BY DEF SentinelLast
  <2>1. /\ Len(q) \in Nat /\ Len(queue'[s]) = Len(q) + 1 /\ queue'[s][Len(q) + 1] = item
        /\ \A j \in 1 .. Len(q) : queue'[s][j] = q[j]
    BY <1>13 DEF Grown
  <2>2. i \in 1 .. Len(q) \/ i = Len(q) + 1
    BY ONLY <2>1
  <2>3. QED
    BY ONLY <1>3, <2>1, <2>2
<1>5. ReadingOn(s)' = ReadingOn(s)
  BY <1>2 DEF ReadingOn, readerVars
<1>6. CASE PutLine(s)
  <2>1. /\ Put(s, "delta") \/ Put(s, "garbled")
        /\ lines' = [lines EXCEPT ![s] = @ + 1] /\ UNCHANGED <<thread, reported>>
    BY <1>6 DEF PutLine
  <2>2. PICK item \in Content : Grown(s, item)
    BY <1>1, <2>1, PutGrows DEF Items, Content
  <2>3. StreamTypeOK'
    <3>1. lines' \in [Streams -> Nat]
      BY <1>1, <2>1 DEF StreamTypeOK
    <3>2. QED
      BY <1>1, <1>2, <2>1, <2>2, <3>1 DEF StreamTypeOK, readerVars, Grown
  <2>4. lines'[s] = lines[s] + 1 /\ thread'[s] = thread[s] /\ thread[s] = "reading"
    BY <1>1, <1>6, <2>1 DEF StreamTypeOK, PutLine
  <2>5. Counted(s)'
    BY <1>12, <2>2, <2>4 DEF Items
  <2>6. SentinelLast(s)'
    BY <1>13, <2>2 DEF Items, Content
  <2>7. ErrorAhead(s)'
    BY <2>4 DEF ErrorAhead
  <2>8. QED
    BY <1>4, <2>3, <2>5, <2>6, <2>7 DEF QueueInv
<1>7. CASE PutUsageFrame(s)
  <2>1. /\ Put(s, "usage") /\ reported' = [reported EXCEPT ![s] = TRUE]
        /\ UNCHANGED <<thread, lines>>
    BY <1>7 DEF PutUsageFrame
  <2>2. Grown(s, "usage")
    BY <1>1, <2>1, PutGrows DEF Items
  <2>3. StreamTypeOK'
    BY <1>1, <1>2, <2>1, <2>2 DEF StreamTypeOK, readerVars, Grown
  <2>4. thread'[s] = "reading"
    BY <1>7, <2>1 DEF PutUsageFrame
  <2>5. Counted(s)'
    <3>1. lines[s] \in Nat /\ lines' = lines
      BY <1>1, <2>1
    <3>2. QED
      BY <1>12, <2>2, <3>1 DEF Items, Content
  <2>6. SentinelLast(s)'
    BY <1>13, <2>2 DEF Items
  <2>7. ErrorAhead(s)'
    BY <2>4 DEF ErrorAhead
  <2>8. QED
    BY <1>4, <2>3, <2>5, <2>6, <2>7 DEF QueueInv
<1>8. CASE PutError(s)
  <2>1. /\ Put(s, "error") /\ thread' = [thread EXCEPT ![s] = "broken"]
        /\ UNCHANGED <<lines, reported>>
    BY <1>8 DEF PutError, Become
  <2>2. Grown(s, "error")
    BY <1>1, <2>1, PutGrows DEF Items
  <2>3. StreamTypeOK'
    BY <1>1, <1>2, <2>1, <2>2 DEF Stages, StreamTypeOK, readerVars, Grown
  <2>5. Counted(s)'
    <3>1. lines[s] \in Nat /\ lines' = lines
      BY <1>1, <2>1
    <3>2. QED
      BY <1>12, <2>2, <3>1 DEF Items, Content
  <2>6. SentinelLast(s)'
    BY <1>13, <2>2 DEF Items
  <2>7. ErrorAhead(s)'
    <3>1. Len(q) + 1 \in 1 .. Len(queue'[s]) /\ queue'[s][Len(q) + 1] = "error"
      BY <2>2 DEF Grown
    <3>2. QED
      BY <3>1 DEF ErrorAhead
  <2>8. QED
    BY <1>4, <2>3, <2>5, <2>6, <2>7 DEF QueueInv
<1>9. CASE Crash(s) \/ EndOfResponse(s)
  <2>1. /\ UNCHANGED <<queue, lines, reported>> /\ thread'[s] \in {"complete", "crashing"}
        /\ thread' \in [Streams -> Stages]
    BY <1>1, <1>9 DEF Stages, Finished, Crash, EndOfResponse, Become, StreamTypeOK
  <2>2. StreamTypeOK'
    BY <1>1, <1>2, <2>1 DEF StreamTypeOK, readerVars
  <2>3. Counted(s)' /\ SentinelLast(s)' /\ ErrorAhead(s)'
    BY <1>1, <1>2, <1>3, <2>1 DEF QueueInv, Counted, SentinelLast, ErrorAhead, readerVars
  <2>4. QED
    BY <1>4, <2>2, <2>3 DEF QueueInv
<1>10. CASE PutSentinel(s)
  <2>1. /\ Put(s, "None") /\ UNCHANGED <<lines, reported>>
        /\ thread' \in [Streams -> Stages]
        /\ thread'[s] \in Finished /\ thread'[s] # "broken"
        /\ thread'[s] = "gave up" => thread[s] = "broken"
    BY <1>1, <1>10 DEF Stages, PutSentinel, Become, StreamTypeOK, Finished
  <2>2. Grown(s, "None")
    BY <1>1, <2>1, PutGrows DEF Items
  <2>3. StreamTypeOK'
    BY <1>1, <1>2, <2>1, <2>2 DEF StreamTypeOK, readerVars, Grown
  <2>5. Counted(s)'
    <3>1. lines[s] \in Nat /\ lines' = lines
      BY <1>1, <2>1
    <3>2. QED
      BY <1>12, <2>2, <3>1 DEF Items, Content
  <2>6. SentinelLast(s)'
    <3> SUFFICES ASSUME NEW i \in 1 .. Len(queue'[s]), queue'[s][i] = "None"
                 PROVE  i = Len(queue'[s])
      BY <2>1 DEF SentinelLast
    <3>1. i \notin 1 .. Len(q)
      BY <1>3, <2>2 DEF Grown
    <3>2. QED
      BY <2>2, <3>1 DEF Grown
  <2>7. ErrorAhead(s)'
    <3> SUFFICES ASSUME thread[s] = "broken", ReadingOn(s)
                 PROVE  \E i \in 1 .. Len(queue'[s]) : queue'[s][i] = "error"
      BY <1>5, <2>1 DEF ErrorAhead
    <3>1. PICK i \in 1 .. Len(q) : q[i] = "error"
      BY <1>1 DEF QueueInv, ErrorAhead
    <3>2. i \in 1 .. Len(queue'[s]) /\ queue'[s][i] = "error"
      BY <2>2, <3>1 DEF Grown
    <3>3. QED
      BY <3>2
  <2>8. QED
    BY <1>4, <2>3, <2>5, <2>6, <2>7 DEF QueueInv
<1>11. QED
  BY <1>6, <1>7, <1>8, <1>9, <1>10 DEF ProducerStep

LEMMA OneEarlier ==
  ASSUME NEW n \in Nat, NEW i \in 1 .. n, i # 1
  PROVE  i - 1 \in 1 .. n - 1 /\ (i - 1) + 1 = i
OBVIOUS

\* The reader takes the items in order, and the sentinel last.
LEMMA GetKeeps ==
  ASSUME NEW s \in Streams, StreamInv, Get(s)
  PROVE  StreamTypeOK' /\ QueueInv(s)'
<1> DEFINE q == queue[s]
           rest == Tail(q)
<1>1. /\ StreamTypeOK /\ QueueInv(s) /\ q \in Seq(Items) /\ q # <<>>
      /\ lines[s] \in Nat /\ yielded[s] \in Nat /\ stream[s] = "waiting"
      /\ UNCHANGED <<threadVars, local>>
  BY DEF StreamInv, StreamTypeOK, Get
<1>2. /\ rest \in Seq(Items) /\ Len(q) \in Nat \ {0} /\ Len(rest) = Len(q) - 1
      /\ Head(q) = q[1] /\ q[1] \in Items
      /\ \A i \in 1 .. Len(q) - 1 : rest[i] = q[i + 1]
  BY <1>1, TailIndices
<1>3. /\ Cardinality(Deltas(q)) = Cardinality(Deltas(rest)) + IF Head(q) \in Content THEN 1 ELSE 0
      /\ Cardinality(Deltas(rest)) \in Nat
  BY <1>1, <1>2, DeltasTail, DeltasFinite
<1>4. queue' \in [Streams -> Seq(Items)] /\ queue'[s] = rest
  <2>1. queue' = [queue EXCEPT ![s] = rest]
    BY DEF Get
  <2>2. QED
    BY <1>1, <1>2, <2>1 DEF StreamTypeOK
<1>5. \/ /\ Head(q) = "delta"
         /\ yielded' = [yielded EXCEPT ![s] = @ + 1]
         /\ At(s, "yielded")
         /\ UNCHANGED unwinding
      \/ /\ Head(q) = "garbled"
         /\ At(s, "failed")
         /\ UNCHANGED <<yielded, unwinding>>
      \/ /\ Head(q) = "usage"
         /\ UNCHANGED <<stream, yielded, unwinding>>
      \/ /\ Head(q) = "error"
         /\ At(s, "joining")
         /\ unwinding' = [unwinding EXCEPT ![s] = "error"]
         /\ UNCHANGED yielded
      \/ /\ Head(q) = "None"
         /\ At(s, "joining")
         /\ unwinding' = [unwinding EXCEPT ![s] = "none"]
         /\ UNCHANGED yielded
  BY DEF Get, Join, Fold
<1>6. StreamTypeOK'
  <2>1. stream' \in [Streams -> Places]
    <3>1. stream \in [Streams -> Places]
      BY <1>1 DEF StreamTypeOK
    <3>2. \/ stream' = stream
          \/ stream' = [stream EXCEPT ![s] = "yielded"]
          \/ stream' = [stream EXCEPT ![s] = "joining"]
          \/ stream' = [stream EXCEPT ![s] = "failed"]
      BY <1>5 DEF At
    <3>3. "yielded" \in Places /\ "joining" \in Places /\ "failed" \in Places
      BY DEF Places, Folded
    <3>4. QED
      BY ONLY <3>1, <3>2, <3>3
  <2>2. yielded' \in [Streams -> Nat]
    <3>1. yielded' = yielded \/ yielded' = [yielded EXCEPT ![s] = @ + 1]
      BY <1>5
    <3>2. yielded \in [Streams -> Nat]
      BY <1>1 DEF StreamTypeOK
    <3>3. QED
      BY <3>1, <3>2
  <2>4. unwinding' \in [Streams -> {"none", "error", "cancelled"}]
    BY <1>1, <1>5 DEF StreamTypeOK
  <2>3. QED
    BY <1>1, <1>4, <2>1, <2>2, <2>4 DEF StreamTypeOK, threadVars
<1>7. SentinelLast(s)'
  <2> SUFFICES ASSUME NEW i \in 1 .. Len(rest), rest[i] = "None"
               PROVE  i = Len(rest) /\ thread[s] \in Finished
    BY <1>1, <1>4 DEF SentinelLast, threadVars
  <2>1. i + 1 \in 1 .. Len(q) /\ q[i + 1] = "None"
    BY <1>2
  <2>2. i + 1 = Len(q) /\ thread[s] \in Finished
    BY <1>1, <2>1 DEF QueueInv, SentinelLast
  <2>3. QED
    BY <1>2, <2>2
<1>8. /\ stream'[s] \in {"waiting", "yielded", "joining", "failed"}
      /\ local'[s].tokens = 0
      /\ thread'[s] = thread[s]
  BY <1>1, <1>5 DEF QueueInv, Untallied, Folded, threadVars, At, StreamTypeOK
<1>9. Unasked(s)' /\ Untallied(s)' /\ Whole(s)'
  BY <1>8 DEF Unasked, Untallied, Whole
<1>10. Counted(s)'
  <2> SUFFICES ASSUME stream'[s] # "failed"
               PROVE  yielded'[s] + Cardinality(Deltas(rest)) = lines'[s]
    BY <1>4 DEF Counted
  <2>1. yielded'[s] = yielded[s] + IF Head(q) \in Content THEN 1 ELSE 0
    BY <1>1, <1>5 DEF StreamTypeOK, At, Content
  <2>2. lines'[s] = lines[s]
    BY <1>1 DEF threadVars
  <2>3. yielded[s] + Cardinality(Deltas(q)) = lines[s]
    BY <1>1 DEF QueueInv, Counted
  <2>4. QED
    BY <1>1, <1>3, <2>1, <2>2, <2>3
<1>11. thread[s] \in {"broken", "gave up"} => \E i \in 1 .. Len(q) : q[i] = "error"
  BY <1>1 DEF QueueInv, ErrorAhead, ReadingOn
<1>12. CASE Head(q) \in {"delta", "usage"}
  <2>1. stream'[s] # "joining"
    BY <1>1, <1>5, <1>12 DEF At, StreamTypeOK
  <2>2. ErrorAhead(s)'
    <3> SUFFICES ASSUME thread[s] \in {"broken", "gave up"}
                 PROVE  \E j \in 1 .. Len(rest) : rest[j] = "error"
      BY <1>4, <1>8 DEF ErrorAhead
    <3>1. PICK i \in 1 .. Len(q) : q[i] = "error"
      BY <1>11
    <3>0. i # 1
      BY <1>2, <1>12, <3>1
    <3>2. i - 1 \in 1 .. Len(q) - 1 /\ (i - 1) + 1 = i
      <4>2. Len(q) \in Nat
        BY <1>2
      <4>. HIDE DEF q
      <4>3. QED
        BY <3>0, <3>1, <4>2, OneEarlier
    <3>3. i - 1 \in 1 .. Len(rest) /\ rest[i - 1] = "error"
      BY <1>2, <3>1, <3>2
    <3>4. QED
      BY <3>3
  <2>3. QED
    BY <1>6, <1>7, <1>9, <1>10, <2>1, <2>2 DEF QueueInv, ReadToEnd
<1>13. CASE Head(q) = "error"
  <2>1. stream'[s] = "joining" /\ unwinding'[s] = "error"
    BY <1>1, <1>5, <1>13 DEF At, StreamTypeOK
  <2>2. QED
    BY <1>6, <1>7, <1>9, <1>10, <2>1 DEF QueueInv, ReadToEnd, ErrorAhead, ReadingOn
<1>14. CASE Head(q) = "None"
  <2>1. 1 \in 1 .. Len(q) /\ q[1] = "None"
    BY <1>2, <1>14
  <2>2. 1 = Len(q) /\ thread[s] \in Finished
    BY <1>1, <2>1 DEF QueueInv, SentinelLast
  <2>3. \A i \in 1 .. Len(q) : q[i] # "error"
    BY <2>1, <2>2
  <2>4. rest = <<>> /\ thread[s] \notin {"broken", "gave up"}
    <3>1. thread[s] \notin {"broken", "gave up"}
      BY <1>11, <2>3
    <3>2. Len(rest) = 0
      BY <1>2, <2>2
    <3>3. rest = <<>>
      BY <1>2, <3>2, EmptySeq
    <3>4. QED
      BY <3>1, <3>3
  <2>5. ReadToEnd(s)' /\ ErrorAhead(s)'
    BY <1>4, <1>8, <2>2, <2>4 DEF ReadToEnd, ErrorAhead
  <2>6. QED
    BY <1>6, <1>7, <1>9, <1>10, <2>5 DEF QueueInv
<1>16. CASE Head(q) = "garbled"
  <2>1. stream'[s] = "failed"
    BY <1>1, <1>5, <1>16 DEF At, StreamTypeOK
  <2>2. QED
    BY <1>6, <1>7, <1>9, <1>10, <2>1 DEF QueueInv, ReadToEnd, ErrorAhead, ReadingOn
<1>15. QED
  BY <1>2, <1>12, <1>13, <1>14, <1>16 DEF Items, Content

\* A stream that was read to its end, by a producer that neither broke nor raised,
\* ends whole; any other end is no success.
LEMMA JoinedKeeps ==
  ASSUME NEW s \in Streams, StreamInv, Joined(s)
  PROVE  StreamTypeOK' /\ QueueInv(s)'
<1>1. /\ StreamTypeOK /\ QueueInv(s) /\ stream[s] = "joining" /\ thread[s] \in Finished
      /\ UNCHANGED <<threadVars, queue, yielded, unwinding>>
      /\ local[s].tokens = 0 /\ local[s] \in Usage
  BY DEF StreamInv, StreamTypeOK, Joined, Finished, QueueInv, Untallied, Folded
<1>2. /\ local' = local \/ local' = [local EXCEPT ![s].tokens = 1]
      /\ stream' \in [Streams -> Places]
      /\ stream'[s] \in Folded
  BY <1>1 DEF Places, Joined, Fold, At, StreamTypeOK, Folded
<1>3. local' \in [Streams -> Usage]
  <2>1. [local[s] EXCEPT !.tokens = 1] \in Usage
    BY <1>1 DEF Usage
  <2>2. local \in [Streams -> Usage]
    BY <1>1 DEF StreamTypeOK
  <2>3. QED
    BY <1>2, <2>1, <2>2
<1>4. StreamTypeOK'
  BY <1>1, <1>2, <1>3 DEF StreamTypeOK, threadVars
<1>5. /\ Unasked(s)' /\ Counted(s)' /\ SentinelLast(s)' /\ ReadToEnd(s)' /\ ErrorAhead(s)'
      /\ Untallied(s)'
  BY <1>1, <1>2 DEF QueueInv, Unasked, Counted, SentinelLast, ReadToEnd, ErrorAhead, ReadingOn,
                    Untallied, threadVars, Folded
<1>6. ASSUME stream'[s] = "ended"
      PROVE  /\ unwinding[s] = "none" /\ ~JoinRaises(s)
             /\ local' = IF reported[s] THEN [local EXCEPT ![s].tokens = 1] ELSE local
  BY <1>1, <1>6 DEF Joined, Fold, At, StreamTypeOK
<1>7. ASSUME stream'[s] = "ended"
      PROVE  thread[s] = "returned" /\ yielded[s] = lines[s]
  <2>1. queue[s] = <<>> /\ thread[s] # "raised"
    BY <1>1, <1>6, <1>7 DEF QueueInv, ReadToEnd, JoinRaises
  <2>2. thread[s] # "gave up"
    <3>1. ReadingOn(s) /\ Len(queue[s]) = 0
      BY <1>1, <1>6, <1>7, <2>1 DEF ReadingOn
    <3>2. \A i \in 1 .. Len(queue[s]) : queue[s][i] # "error"
      BY <3>1
    <3>3. ErrorAhead(s)
      BY <1>1 DEF QueueInv
    <3>4. QED
      BY <3>1, <3>2, <3>3 DEF ErrorAhead
  <2>3. Deltas(queue[s]) = {}
    BY <2>1 DEF Deltas
  <2>4. Cardinality(Deltas(queue[s])) = 0
    BY <2>3, FS_EmptySet
  <2>5. yielded[s] \in Nat /\ yielded[s] + Cardinality(Deltas(queue[s])) = lines[s]
    BY <1>1 DEF QueueInv, Counted, StreamTypeOK
  <2>6. yielded[s] = lines[s]
    BY ONLY <2>4, <2>5
  <2>7. QED
    BY <1>1, <2>1, <2>2, <2>6 DEF Finished
<1>8. ASSUME stream'[s] = "ended"
      PROVE  local'[s].tokens = IF reported[s] THEN 1 ELSE 0
  BY <1>1, <1>6, <1>8 DEF StreamTypeOK, Usage
<1>9. Whole(s)'
  BY <1>1, <1>7, <1>8 DEF Whole, threadVars
<1>10. QED
  BY <1>4, <1>5, <1>9 DEF QueueInv

\* What the consumer does to its stream.
LEMMA ConsumerKeeps ==
  ASSUME NEW s \in Streams, StreamInv, ConsumerStep(s)
  PROVE  StreamTypeOK' /\ QueueInv(s)'
<1>1. /\ StreamTypeOK /\ QueueInv(s) /\ UNCHANGED <<queue, lines, reported, yielded>>
  BY DEF StreamInv, ConsumerStep, Refuse, Announce, AskNext, CancelReader, CloseStream, threadVars
<1>2. CASE Refuse(s) \/ Announce(s)
  <2>1. /\ stream[s] = "new" /\ stream'[s] \in {"refused", "open", "unannounced"}
        /\ stream' \in [Streams -> Places]
        /\ UNCHANGED <<thread, unwinding>>
        /\ local' = local \/ local' = [local EXCEPT ![s].calls = 1]
    BY <1>1, <1>2 DEF Places, Refuse, Announce, At, StreamTypeOK, Folded, Unfolded, threadVars
  <2>2. local' \in [Streams -> Usage] /\ local'[s].tokens = local[s].tokens
    <3>1. local[s] \in Usage /\ local \in [Streams -> Usage]
      BY <1>1 DEF StreamTypeOK
    <3>2. /\ [local[s] EXCEPT !.calls = 1] \in Usage
          /\ [local[s] EXCEPT !.calls = 1].tokens = local[s].tokens
      BY <3>1 DEF Usage
    <3>3. QED
      BY <2>1, <3>1, <3>2
  <2>3. StreamTypeOK'
    BY <1>1, <2>1, <2>2 DEF StreamTypeOK
  <2>4. QED
    BY <1>1, <2>1, <2>2, <2>3
       DEF QueueInv, Unasked, Counted, SentinelLast, ReadToEnd, ErrorAhead, ReadingOn, Untallied,
           Folded, Whole
<1>3. CASE AskNext(s)
  <2>1. /\ stream[s] \in {"open", "yielded"} /\ stream'[s] = "waiting"
        /\ stream' \in [Streams -> Places]
        /\ thread' \in [Streams -> Stages]
        /\ \/ thread[s] = "idle" /\ thread'[s] = "reading"
           \/ stream[s] = "yielded" /\ thread'[s] = thread[s]
        /\ UNCHANGED <<local, unwinding>>
    BY <1>1, <1>3 DEF Places, Stages, AskNext, At, Become, StreamTypeOK, QueueInv, Unasked
  <2>2. StreamTypeOK'
    BY <1>1, <2>1 DEF StreamTypeOK
  <2>3. SentinelLast(s)'
    BY <1>1, <2>1 DEF QueueInv, SentinelLast, Finished
  <2>4. ErrorAhead(s)'
    BY <1>1, <2>1 DEF QueueInv, ErrorAhead, ReadingOn
  <2>5. QED
    BY <1>1, <2>1, <2>2, <2>3, <2>4
       DEF QueueInv, Unasked, Counted, ReadToEnd, Untallied, Folded, Whole
<1>4. CASE CancelReader(s) \/ CloseStream(s)
  <2>1. /\ UNCHANGED <<thread, local>>
        /\ stream' \in [Streams -> Places]
        /\ unwinding' \in [Streams -> {"none", "error", "cancelled"}]
        /\ stream[s] \notin Folded
        /\ \/ stream'[s] \in {"cancelled", "closed", "unused"}
           \/ stream'[s] = "joining" /\ unwinding'[s] = "cancelled"
    BY <1>1, <1>4 DEF Places, CancelReader, CloseStream, Join, Fold, At, StreamTypeOK, threadVars, Folded,
                      Unfolded
  <2>2. StreamTypeOK'
    BY <1>1, <2>1 DEF StreamTypeOK
  <2>3. QED
    BY <1>1, <2>1, <2>2
       DEF QueueInv, Unasked, Counted, SentinelLast, ReadToEnd, ErrorAhead, ReadingOn, Untallied,
           Folded, Whole
<1>5. QED
  BY <1>2, <1>3, <1>4 DEF ConsumerStep

LEMMA StreamInit == Init => StreamInv
<1> SUFFICES ASSUME Init
             PROVE  StreamInv
  OBVIOUS
<1>1. PICK calls : StreamsInit(calls)
  BY DEF Init
<1>2. StreamTypeOK
  BY <1>1 DEF Places, Stages, StreamsInit, StreamTypeOK, NoUsage, Usage, Items, Unfolded
<1>3. ASSUME NEW s \in Streams
      PROVE  QueueInv(s)
  <2>1. /\ stream[s] \in {"new", "absent"} /\ thread[s] = "idle" /\ queue[s] = <<>> /\ lines[s] = 0
        /\ yielded[s] = 0 /\ local[s] = NoUsage /\ unwinding[s] = "none"
    BY <1>1 DEF StreamsInit
  <2>2. Deltas(queue[s]) = {} /\ Len(queue[s]) = 0
    BY <2>1 DEF Deltas
  <2>3. Cardinality(Deltas(queue[s])) = 0
    BY <2>2, FS_EmptySet
  <2>4. QED
    BY <2>1, <2>2, <2>3
       DEF QueueInv, Unasked, Counted, SentinelLast, ReadToEnd, ErrorAhead, ReadingOn, Untallied,
           Folded, Whole, NoUsage
<1>4. QED
  BY <1>2, <1>3 DEF StreamInv

\* The streams keep what they are about, whatever else runs.
LEMMA StreamKept == StreamInv /\ [Next]_vars => StreamInv'
<1> SUFFICES ASSUME StreamInv, [Next]_vars
             PROVE  StreamInv'
  OBVIOUS
<1>1. ASSUME NEW s \in Streams, StreamStep(s)
      PROVE  StreamInv'
  <2>1. StreamTypeOK' /\ QueueInv(s)'
    BY <1>1, ProducerKeeps, GetKeeps, JoinedKeeps, ConsumerKeeps DEF StreamStep, ReaderStep
  <2>2. ASSUME NEW u \in Streams, u # s
        PROVE  QueueInv(u)'
    <3>1. QueueInv(u) /\ StreamTypeOK
      BY DEF StreamInv
    <3>2. /\ stream'[u] = stream[u] /\ thread'[u] = thread[u] /\ queue'[u] = queue[u]
          /\ lines'[u] = lines[u] /\ reported'[u] = reported[u] /\ yielded'[u] = yielded[u]
          /\ local'[u] = local[u] /\ unwinding'[u] = unwinding[u]
      BY <1>1, <2>2, <3>1, OtherStreams
    <3>3. QED
      BY <3>1, <3>2
         DEF QueueInv, Unasked, Counted, SentinelLast, ReadToEnd, ErrorAhead, ReadingOn, Untallied, Whole
  <2>3. QED
    BY <2>1, <2>2 DEF StreamInv
<1>2. CASE UNCHANGED streamVars
  <2>1. UNCHANGED <<stream, yielded, local, unwinding, thread, lines, reported, queue>>
    BY <1>2 DEF streamVars, readerVars, threadVars
  <2>2. StreamTypeOK'
    BY <2>1 DEF StreamInv, StreamTypeOK
  <2>3. ASSUME NEW u \in Streams
        PROVE  QueueInv(u)'
    <3>1. QueueInv(u)
      BY DEF StreamInv
    <3>2. Unasked(u)' /\ Counted(u)' /\ SentinelLast(u)' /\ ReadToEnd(u)'
      BY <2>1, <3>1 DEF QueueInv, Unasked, Counted, SentinelLast, ReadToEnd
    <3>3. ErrorAhead(u)' /\ Untallied(u)' /\ Whole(u)'
      BY <2>1, <3>1 DEF QueueInv, ErrorAhead, ReadingOn, Untallied, Whole
    <3>4. QED
      BY <3>2, <3>3 DEF QueueInv
  <2>4. QED
    BY <2>2, <2>3 DEF StreamInv
<1>3. CASE Clock \/ \E t \in Turns : Begin(t) \/ TurnStep(t)
  BY <1>2, <1>3 DEF Clock, Begin, TurnStep, Wait, Acquire, Answer, RateLimited, Backoff, Fail
<1>4. QED
  BY <1>1, <1>2, <1>3 DEF Next, vars

-----------------------------------------------------------------------------
(* The sum of what the calls cost. *)

Fields == {"calls", "tokens"}

\* Kit.usage is the sum, which is finite: only finished turns have a cost.
Settled(f) ==
    /\ IsFiniteSet(Units(cost, f))
    /\ IsFiniteSet(Units(FoldedCosts, f))
    /\ usage[f] = Total(cost, f) + Total(FoldedCosts, f)

SettledInv ==
    /\ cost \in [Turns -> Usage]
    /\ attempts \in [Turns -> Nat]
    /\ usage \in Usage
    /\ DOMAIN pc = Turns
    /\ \A t \in Turns : pc[t] # "done" => cost[t] = NoUsage
    /\ \A f \in Fields : Settled(f)

\* One more call, which had no cost: its units are added.
LEMMA UnitsAdded ==
  ASSUME NEW old, NEW new, NEW f, NEW x, IsFiniteSet(Units(old, f)),
         DOMAIN new = DOMAIN old \cup {x}, new[x][f] \in Nat,
         x \in DOMAIN old => old[x][f] = 0,
         \A c \in DOMAIN old : c # x => new[c][f] = old[c][f]
  PROVE  IsFiniteSet(Units(new, f)) /\ Total(new, f) = Total(old, f) + new[x][f]
<1> DEFINE U == Units(old, f)
           d == new[x][f]
           More == {x} \X (1 .. d)
<1>1. \A c, i : <<c, i>> \in U <=> c \in DOMAIN old /\ i \in 1 .. old[c][f]
  BY DEF Units
<1>2. \A p \in U : \E c, i : p = <<c, i>>
  BY DEF Units
<1>3. \A p \in U : p \notin More
  <2> SUFFICES ASSUME NEW p \in U, p \in More
               PROVE  FALSE
    OBVIOUS
  <2>1. PICK i \in 1 .. d : p = <<x, i>>
    OBVIOUS
  <2>2. x \in DOMAIN old /\ i \in 1 .. old[x][f]
    BY <1>1, <2>1
  <2>3. QED
    BY <2>2
<1>4. Units(new, f) = U \cup More
  <2>1. ASSUME NEW p \in Units(new, f)
        PROVE  p \in U \cup More
    <3>1. PICK c \in DOMAIN new : p \in {c} \X (1 .. new[c][f])
      BY DEF Units
    <3>2. CASE c = x
      BY <3>1, <3>2
    <3>3. CASE c # x
      <4>1. c \in DOMAIN old /\ new[c][f] = old[c][f]
        BY <3>3
      <4>2. QED
        BY <3>1, <4>1 DEF Units
    <3>4. QED
      BY <3>2, <3>3
  <2>2. ASSUME NEW p \in U
        PROVE  p \in Units(new, f)
    <3>1. PICK c \in DOMAIN old : p \in {c} \X (1 .. old[c][f])
      BY DEF Units
    <3>2. c # x
      BY <3>1
    <3>3. new[c][f] = old[c][f] /\ c \in DOMAIN new
      BY <3>2
    <3>4. QED
      BY <3>1, <3>3 DEF Units
  <2>3. ASSUME NEW p \in More
        PROVE  p \in Units(new, f)
    BY <2>3 DEF Units
  <2>. HIDE DEF U, More
  <2>4. QED
    BY <2>1, <2>2, <2>3
<1>5. IsFiniteSet(More) /\ Cardinality(More) = d
  <2>1. ASSUME NEW n \in Nat
        PROVE  IsFiniteSet(1 .. n) /\ Cardinality(1 .. n) = n
    <3>1. 1 \in Int /\ n \in Int
      OBVIOUS
    <3>2. IsFiniteSet(1 .. n) /\ Cardinality(1 .. n) = IF 1 > n THEN 0 ELSE n - 1 + 1
      BY ONLY <3>1, FS_Interval
    <3>3. QED
      BY <3>2
  <2>2. IsFiniteSet(1 .. d) /\ Cardinality(1 .. d) = d
    BY <2>1
  <2>3. IsFiniteSet({x}) /\ Cardinality({x}) = 1
    BY ONLY FS_Singleton
  <2>4. IsFiniteSet(More) /\ Cardinality(More) = Cardinality({x}) * Cardinality(1 .. d)
    BY ONLY <2>2, <2>3, FS_Product
  <2>5. d \in Nat
    OBVIOUS
  <2>. HIDE DEF d
  <2>6. QED
    BY <2>2, <2>3, <2>4, <2>5
<1>6. U \cap More = {}
  BY <1>3
<1>7. /\ IsFiniteSet(U \cup More)
      /\ Cardinality(U \cup More) = Cardinality(U) + Cardinality(More) - Cardinality(U \cap More)
  <2>1. IsFiniteSet(U)
    OBVIOUS
  <2>. HIDE DEF U, More
  <2>2. QED
    BY <1>5, <2>1, FS_Union
<1>8. Cardinality(U \cap More) = 0 /\ Cardinality(U) \in Nat /\ d \in Nat
  BY <1>6, FS_EmptySet, FS_CardinalityType
<1>. HIDE DEF U, More, d
<1>9. QED
  BY <1>4, <1>5, <1>7, <1>8 DEF Total, U, d

LEMMA SettledInit == Init => SettledInv
<1> SUFFICES ASSUME Init
             PROVE  SettledInv
  OBVIOUS
<1>1. /\ cost = [t \in Turns |-> NoUsage] /\ attempts = [t \in Turns |-> 0] /\ usage = NoUsage
      /\ DOMAIN pc = Turns
      /\ \A s \in Streams : stream[s] \in {"new", "absent"}
  BY DEF Init, StreamsInit
<1>2. ASSUME NEW f \in Fields
      PROVE  Settled(f)
  <2>1. NoUsage[f] = 0
    BY DEF NoUsage, Fields
  <2>2. Units(cost, f) = {}
    BY <1>1, <2>1 DEF Units
  <2>3. Units(FoldedCosts, f) = {}
    BY <1>1 DEF Units, FoldedCosts, Folded
  <2>4. QED
    BY <1>1, <2>1, <2>2, <2>3, FS_EmptySet DEF Settled, Total
<1>3. QED
  BY <1>1, <1>2 DEF SettledInv, NoUsage, Usage

\* A step in which no cost changes.
LEMMA SettledKept ==
  ASSUME SettledInv, UNCHANGED <<cost, usage>>, FoldedCosts' = FoldedCosts,
         attempts' \in [Turns -> Nat], DOMAIN pc' = Turns,
         \A t \in Turns : pc[t] = "done" => pc'[t] = "done"
  PROVE  SettledInv'
<1>1. ASSUME NEW f \in Fields
      PROVE  Settled(f)'
  <2>1. Settled(f)
    BY DEF SettledInv
  <2>2. Units(cost, f)' = Units(cost, f) /\ Units(FoldedCosts, f)' = Units(FoldedCosts, f)
    BY DEF Units
  <2>3. QED
    BY <2>1, <2>2 DEF Settled, Total
<1>2. QED
  BY <1>1 DEF SettledInv

\* Whatever turn and stream end at the same time, Kit.usage gets the whole of both.
LEMMA SettledAnswer ==
  ASSUME SettledInv, NEW t \in Turns, Answer(t)
  PROVE  SettledInv'
<1> DEFINE c == [calls |-> attempts[t], tokens |-> 1]
<1>1. /\ pc[t] = "called" /\ cost[t] = NoUsage /\ cost \in [Turns -> Usage] /\ usage \in Usage
      /\ cost' = [cost EXCEPT ![t] = c] /\ usage' = Plus(usage, cost'[t])
      /\ pc' = [pc EXCEPT ![t] = "done"] /\ UNCHANGED <<attempts, streamVars>>
      /\ DOMAIN pc = Turns /\ attempts \in [Turns -> Nat]
      /\ \A u \in Turns : pc[u] # "done" => cost[u] = NoUsage
  BY DEF SettledInv, Answer, End, Goto
<1>2. c \in Usage
  BY <1>1 DEF Usage
<1>3. /\ cost' \in [Turns -> Usage] /\ cost'[t] = c
      /\ \A u \in Turns : u # t => cost'[u] = cost[u] /\ pc'[u] = pc[u]
      /\ pc'[t] = "done" /\ DOMAIN pc' = Turns
  BY <1>1, <1>2
<1>4. usage' \in Usage
  BY <1>1, <1>2, <1>3 DEF Usage, Plus
<1>5. FoldedCosts' = FoldedCosts
  BY <1>1 DEF FoldedCosts, streamVars, readerVars
<1>6. ASSUME NEW f \in Fields
      PROVE  Settled(f)'
  <2>1. Settled(f)
    BY DEF SettledInv
  <2>2. usage[f] \in Nat /\ c[f] \in Nat /\ usage'[f] = usage[f] + c[f] /\ cost[t][f] = 0
    BY <1>1, <1>2, <1>3 DEF Usage, Plus, Fields, NoUsage
  <2>3. IsFiniteSet(Units(cost', f)) /\ Total(cost', f) = Total(cost, f) + c[f]
    <3>1. /\ IsFiniteSet(Units(cost, f)) /\ DOMAIN cost' = DOMAIN cost \cup {t} /\ cost'[t][f] = c[f]
          /\ \A u \in DOMAIN cost : u # t => cost'[u][f] = cost[u][f]
      BY <1>1, <1>3, <2>1 DEF Settled
    <3>. HIDE DEF c
    <3>2. QED
      BY <2>2, <3>1, UnitsAdded
  <2>4. Units(FoldedCosts, f)' = Units(FoldedCosts, f)
    BY <1>5 DEF Units
  <2>5. Total(cost, f) \in Nat /\ Total(FoldedCosts, f) \in Nat
    BY <2>1, FS_CardinalityType DEF Settled, Total
  <2>6. usage'[f] = Total(cost', f) + Total(FoldedCosts, f)
    <3>1. usage[f] = Total(cost, f) + Total(FoldedCosts, f)
      BY <2>1 DEF Settled
    <3>. HIDE DEF c
    <3>2. QED
      BY ONLY <2>2, <2>3, <2>5, <3>1
  <2>7. Total(FoldedCosts, f)' = Total(FoldedCosts, f) /\ Units(cost, f)' = Units(cost', f)
    BY <2>4 DEF Total, Units
  <2>8. Total(cost, f)' = Total(cost', f)
    BY <2>7 DEF Total
  <2>9. QED
    BY <2>1, <2>3, <2>4, <2>6, <2>7, <2>8 DEF Settled
<1>7. QED
  BY <1>1, <1>3, <1>4, <1>6 DEF SettledInv

\* A step of a stream folds its cost, and ends it, or changes no folded cost.
LEMMA StreamFolds ==
  ASSUME NEW s \in Streams, StreamInv, StreamStep(s)
  PROVE  \/ UNCHANGED usage /\ FoldedCosts' = FoldedCosts
         \/ stream[s] \notin Folded /\ stream'[s] \in Folded /\ usage' = Plus(usage, local'[s])
<1>1. StreamTypeOK
  BY DEF StreamInv
<1>2. ASSUME UNCHANGED usage, stream[s] \notin Folded, stream'[s] \notin Folded
      PROVE  FoldedCosts' = FoldedCosts
  <2>1. \A u \in Streams : u # s => stream'[u] = stream[u] /\ local'[u] = local[u]
    BY <1>1, OtherStreams
  <2>2. \A u \in Streams : stream[u] \in Folded => u # s
    BY <1>2
  <2>3. {u \in Streams : stream'[u] \in Folded} = {u \in Streams : stream[u] \in Folded}
    BY <1>2, <2>1
  <2>4. QED
    BY <2>1, <2>2, <2>3 DEF FoldedCosts
<1>3. CASE ProducerStep(s)
  <2>1. UNCHANGED <<readerVars, usage>>
    BY <1>3 DEF ProducerStep, PutLine, PutUsageFrame, PutError, Crash, EndOfResponse, PutSentinel
  <2>2. QED
    BY <2>1 DEF FoldedCosts, readerVars
<1>4. CASE Get(s)
  <2>1. /\ stream[s] = "waiting"
        /\ \/ stream'[s] \in {"waiting", "yielded", "joining"} /\ UNCHANGED usage
           \/ stream'[s] = "failed" /\ usage' = Plus(usage, local'[s])
    BY <1>1, <1>4 DEF Get, Join, Fold, At, StreamTypeOK
  <2>2. QED
    BY <1>2, <2>1 DEF Folded
<1>5. CASE Joined(s)
  <2>1. /\ stream[s] = "joining" /\ stream'[s] \in {"cancelled", "failed", "ended"}
        /\ usage' = Plus(usage, local'[s])
    BY <1>1, <1>5 DEF Joined, Fold, At, StreamTypeOK
  <2>2. QED
    BY <2>1 DEF Folded
<1>6. CASE Refuse(s) \/ Announce(s) \/ AskNext(s)
  <2>1. /\ stream[s] \in {"new", "open", "yielded"} /\ UNCHANGED usage
        /\ stream'[s] \in {"refused", "open", "unannounced", "waiting"}
    BY <1>1, <1>6 DEF Refuse, Announce, AskNext, At, StreamTypeOK
  <2>2. QED
    BY <1>2, <2>1 DEF Folded
<1>7. CASE CancelReader(s) \/ CloseStream(s)
  <2>1. /\ stream[s] \in {"waiting", "joining", "open", "yielded"}
        /\ \/ stream'[s] \in {"joining", "unused"} /\ UNCHANGED usage
           \/ stream'[s] \in {"cancelled", "closed"} /\ usage' = Plus(usage, local'[s])
    BY <1>1, <1>7 DEF CancelReader, CloseStream, Join, Fold, At, StreamTypeOK
  <2>2. QED
    BY <1>2, <2>1 DEF Folded
<1>8. QED
  BY <1>3, <1>4, <1>5, <1>6, <1>7 DEF StreamStep, ReaderStep, ConsumerStep

\* A stream that ends adds all that was counted for it.
LEMMA SettledFold ==
  ASSUME SettledInv, StreamInv, StreamInv', NEW s \in Streams, StreamStep(s), UNCHANGED turnVars,
         stream[s] \notin Folded, stream'[s] \in Folded, usage' = Plus(usage, local'[s])
  PROVE  SettledInv'
<1>1. /\ UNCHANGED <<cost, attempts, pc>> /\ usage \in Usage /\ local'[s] \in Usage
      /\ StreamTypeOK
  BY DEF SettledInv, turnVars, StreamInv, StreamTypeOK
<1>2. \A u \in Streams : u # s => stream'[u] = stream[u] /\ local'[u] = local[u]
  BY <1>1, OtherStreams
<1>3. /\ DOMAIN FoldedCosts' = DOMAIN FoldedCosts \cup {s} /\ s \notin DOMAIN FoldedCosts
      /\ FoldedCosts'[s] = local'[s]
      /\ \A u \in DOMAIN FoldedCosts : FoldedCosts'[u] = FoldedCosts[u]
  BY <1>2 DEF FoldedCosts
<1>4. usage' \in Usage
  BY <1>1 DEF Usage, Plus
<1>5. ASSUME NEW f \in Fields
      PROVE  Settled(f)'
  <2> DEFINE d == local'[s][f]
  <2>1. Settled(f)
    BY DEF SettledInv
  <2>2. usage[f] \in Nat /\ d \in Nat /\ usage'[f] = usage[f] + d
    BY <1>1 DEF Usage, Plus, Fields
  <2>3. IsFiniteSet(Units(FoldedCosts', f)) /\ Total(FoldedCosts', f) = Total(FoldedCosts, f) + d
    <3>1. /\ IsFiniteSet(Units(FoldedCosts, f)) /\ FoldedCosts'[s][f] = d
          /\ \A u \in DOMAIN FoldedCosts : u # s => FoldedCosts'[u][f] = FoldedCosts[u][f]
      BY <1>3, <2>1 DEF Settled
    <3>2. FoldedCosts'[s][f] \in Nat /\ (s \in DOMAIN FoldedCosts => FoldedCosts[s][f] = 0)
      BY <1>3, <2>2, <3>1
    <3>3. DOMAIN FoldedCosts' = DOMAIN FoldedCosts \cup {s}
      BY <1>3
    <3>4. /\ IsFiniteSet(Units(FoldedCosts', f))
          /\ Total(FoldedCosts', f) = Total(FoldedCosts, f) + FoldedCosts'[s][f]
      BY ONLY <3>1, <3>2, <3>3, UnitsAdded
    <3>5. QED
      BY <3>1, <3>4
  <2>4. Units(cost, f)' = Units(cost, f)
    BY <1>1 DEF Units
  <2>5. Total(cost, f) \in Nat /\ Total(FoldedCosts, f) \in Nat
    BY <2>1, FS_CardinalityType DEF Settled, Total
  <2>6. usage'[f] = Total(cost, f) + Total(FoldedCosts', f)
    <3>1. usage[f] = Total(cost, f) + Total(FoldedCosts, f)
      BY <2>1 DEF Settled
    <3>. HIDE DEF d
    <3>2. QED
      BY ONLY <2>2, <2>3, <2>5, <3>1
  <2>7. Total(cost, f)' = Total(cost, f) /\ Units(FoldedCosts, f)' = Units(FoldedCosts', f)
    BY <2>4 DEF Total, Units
  <2>8. Total(FoldedCosts, f)' = Total(FoldedCosts', f)
    BY <2>7 DEF Total
  <2>9. QED
    BY <2>1, <2>3, <2>4, <2>6, <2>7, <2>8 DEF Settled
<1>6. QED
  BY <1>1, <1>4, <1>5 DEF SettledInv

LEMMA SettledStep ==
  ASSUME SettledInv, StreamInv, StreamInv', [Next]_vars
  PROVE  SettledInv'
<1>0. /\ attempts \in [Turns -> Nat] /\ DOMAIN pc = Turns
  BY DEF SettledInv
<1>1. ASSUME UNCHANGED <<turnVars, usage>>, FoldedCosts' = FoldedCosts
      PROVE  SettledInv'
  BY <1>0, <1>1, SettledKept DEF turnVars
<1>2. ASSUME UNCHANGED streamVars
      PROVE  FoldedCosts' = FoldedCosts
  BY <1>2 DEF FoldedCosts, streamVars, readerVars
<1>3. CASE Clock \/ UNCHANGED vars
  BY <1>1, <1>2, <1>3 DEF Clock, vars
<1>4. ASSUME NEW s \in Streams, StreamStep(s), UNCHANGED turnVars
      PROVE  SettledInv'
  <2>1. CASE UNCHANGED usage /\ FoldedCosts' = FoldedCosts
    BY <1>1, <1>4, <2>1
  <2>2. QED
    BY <1>4, <2>1, StreamFolds, SettledFold
<1>5. ASSUME NEW t \in Turns, Begin(t) \/ TurnStep(t)
      PROVE  SettledInv'
  <2>1. CASE Answer(t)
    BY <2>1, SettledAnswer
  <2>2. CASE Wait(t)
    BY <1>1, <1>2, <2>2 DEF Wait
  <2>3. CASE Begin(t) \/ Acquire(t) \/ RateLimited(t) \/ Backoff(t) \/ Fail(t)
    <3>1. UNCHANGED <<cost, usage, streamVars>>
      BY <2>3 DEF Begin, Acquire, RateLimited, Backoff, Fail
    <3>2. pc[t] # "done" /\ \E state : pc' = [pc EXCEPT ![t] = state]
      BY <2>3 DEF Begin, Acquire, RateLimited, Backoff, Fail, Goto, End, Pending, Acquiring
    <3>3. attempts' \in [Turns -> Nat]
      <4>1. \/ attempts' = attempts
            \/ \E n : attempts' = [attempts EXCEPT ![t] = n] /\ n \in {1, attempts[t], attempts[t] + 1}
        BY <1>0, <2>3 DEF Begin, Acquire, RateLimited, Backoff, Fail
      <4>2. QED
        BY <1>0, <4>1
    <3>4. DOMAIN pc' = Turns /\ \A u \in Turns : pc[u] = "done" => pc'[u] = "done"
      BY <1>0, <3>2
    <3>5. QED
      BY <1>2, <3>1, <3>3, <3>4, SettledKept
  <2>4. QED
    BY <1>5, <2>1, <2>2, <2>3 DEF TurnStep
<1>6. QED
  BY <1>3, <1>4, <1>5 DEF Next

\* _folded, _run_tracked and _stream_urllib: Kit.usage is always the sum of what the
\* finished turns cost and of all that was counted for the streams that are over,
\* and a stream that ends like a complete one has delivered its whole response.
THEOREM UsageIsSum == Spec => []UsageSettled
<1>1. Init => StreamInv /\ SettledInv
  BY StreamInit, SettledInit
<1>2. StreamInv /\ SettledInv /\ [Next]_vars => (StreamInv /\ SettledInv)'
  BY StreamKept, SettledStep
<1>3. StreamInv /\ SettledInv => UsageSettled
  BY DEF StreamInv, QueueInv, SettledInv, Settled, Fields, UsageSettled
<1>4. QED
  BY <1>1, <1>2, <1>3, PTL DEF Spec
-----------------------------------------------------------------------------
(* No consumer is stranded. *)

\* The producer of a stream is running, and has at least its sentinel to put.
Producing == {"reading", "complete", "broken", "crashing"}

\* Until the reader leaves its loop the sentinel is to come, or in the queue.
SentinelDue(s) ==
    /\ stream[s] \in {"waiting", "yielded", "joining"} => thread[s] # "idle"
    /\ stream[s] \in {"waiting", "yielded"} /\ thread[s] \in Finished =>
           \E i \in 1 .. Len(queue[s]) : queue[s][i] = "None"

DueInv == \A s \in Streams : SentinelDue(s)

\* A consumer that waits for an item has one, or a thread that will put one; and
\* one that joins the thread joins one that was started.
NoneStranded ==
    \A s \in Streams :
        /\ stream[s] = "waiting" /\ queue[s] = <<>> => thread[s] \in Producing
        /\ stream[s] = "joining" => thread[s] \in Producing \cup Finished

LEMMA DueProducer ==
  ASSUME NEW s \in Streams, StreamInv, SentinelDue(s), ProducerStep(s)
  PROVE  SentinelDue(s)'
<1>1. StreamTypeOK /\ stream' = stream /\ thread[s] \in Producing
  BY DEF StreamInv, ProducerStep, PutLine, PutUsageFrame, PutError, Crash, EndOfResponse, PutSentinel,
         readerVars, Producing
<1>2. CASE PutLine(s) \/ PutUsageFrame(s) \/ PutError(s) \/ Crash(s) \/ EndOfResponse(s)
  <2>1. thread'[s] \in Producing
    BY <1>1, <1>2
       DEF PutLine, PutUsageFrame, PutError, Crash, EndOfResponse, Become, Producing, StreamTypeOK
  <2>2. QED
    BY <2>1 DEF SentinelDue, Producing, Finished
<1>3. CASE PutSentinel(s)
  <2>1. Put(s, "None")
    BY <1>3 DEF PutSentinel
  <2>2. Grown(s, "None")
    BY <1>1, <2>1, PutGrows DEF Items
  <2>3. Len(queue[s]) + 1 \in 1 .. Len(queue'[s]) /\ queue'[s][Len(queue[s]) + 1] = "None"
    BY <2>2 DEF Grown
  <2>4. thread'[s] # "idle"
    BY <1>1, <1>3 DEF PutSentinel, Become, StreamTypeOK
  <2>5. QED
    BY <2>3, <2>4 DEF SentinelDue
<1>4. QED
  BY <1>2, <1>3 DEF ProducerStep

\* What Get takes off the queue is not the sentinel, unless the reader leaves.
LEMMA DueGet ==
  ASSUME NEW s \in Streams, StreamInv, SentinelDue(s), Get(s)
  PROVE  SentinelDue(s)'
<1> DEFINE q == queue[s]
           rest == Tail(q)
<1>1. /\ StreamTypeOK /\ q \in Seq(Items) /\ q # <<>> /\ stream[s] = "waiting"
      /\ thread' = thread
  BY DEF StreamInv, StreamTypeOK, Get, threadVars
<1>2. /\ rest \in Seq(Items) /\ Len(q) \in Nat \ {0} /\ Len(rest) = Len(q) - 1
      /\ Head(q) = q[1]
      /\ \A i \in 1 .. Len(q) - 1 : rest[i] = q[i + 1]
  BY <1>1, TailIndices
<1>3. queue'[s] = rest
  BY <1>1 DEF Get, StreamTypeOK
<1>4. thread'[s] # "idle"
  BY <1>1 DEF SentinelDue
<1>5. CASE stream'[s] = "joining"
  BY <1>4, <1>5 DEF SentinelDue
<1>6. CASE stream'[s] # "joining"
  <2>1. q[1] # "None"
    BY <1>1, <1>2, <1>6 DEF Get, Join, Fold, At, StreamTypeOK
  <2>2. ASSUME thread[s] \in Finished
        PROVE  \E i \in 1 .. Len(rest) : rest[i] = "None"
    <3>1. PICK i \in 1 .. Len(q) : q[i] = "None"
      BY <1>1, <2>2 DEF SentinelDue
    <3>2. i - 1 \in 1 .. Len(rest) /\ i - 1 \in 1 .. Len(q) - 1 /\ (i - 1) + 1 = i
      BY <1>2, <2>1, <3>1
    <3>3. rest[i - 1] = "None"
      BY <1>2, <3>1, <3>2
    <3>4. QED
      BY <3>2, <3>3
  <2>. HIDE DEF rest
  <2>3. QED
    BY <1>1, <1>3, <1>4, <2>2 DEF SentinelDue
<1>7. QED
  BY <1>5, <1>6

LEMMA DueConsumer ==
  ASSUME NEW s \in Streams, StreamInv, SentinelDue(s), Joined(s) \/ ConsumerStep(s)
  PROVE  SentinelDue(s)'
<1>1. StreamTypeOK /\ Unasked(s)
  BY DEF StreamInv, QueueInv
<1>2. CASE Joined(s) \/ Refuse(s) \/ Announce(s) \/ CloseStream(s)
  <2>1. stream'[s] \notin {"waiting", "yielded", "joining"}
    BY <1>1, <1>2 DEF Joined, Refuse, Announce, CloseStream, Fold, At, StreamTypeOK
  <2>2. QED
    BY <2>1 DEF SentinelDue
<1>3. CASE AskNext(s)
  <2>1. queue' = queue
    BY <1>3 DEF AskNext
  <2>2. CASE stream[s] = "open" /\ Become(s, "reading")
    <3>1. thread'[s] = "reading"
      BY <1>1, <2>2 DEF Become, StreamTypeOK
    <3>2. QED
      BY <3>1 DEF SentinelDue, Finished
  <2>3. CASE stream[s] = "yielded" /\ UNCHANGED thread
    BY <2>1, <2>3 DEF SentinelDue
  <2>4. QED
    BY <1>3, <2>2, <2>3 DEF AskNext
<1>4. CASE CancelReader(s)
  <2>1. stream'[s] \in {"joining", "cancelled"} /\ thread' = thread /\ stream[s] \in {"waiting", "joining"}
    BY <1>1, <1>4 DEF CancelReader, Join, Fold, At, threadVars, StreamTypeOK
  <2>2. QED
    BY <2>1 DEF SentinelDue
<1>5. QED
  BY <1>2, <1>3, <1>4 DEF ConsumerStep

LEMMA DueKept == StreamInv /\ DueInv /\ [Next]_vars => DueInv'
<1> SUFFICES ASSUME StreamInv, DueInv, [Next]_vars
             PROVE  DueInv'
  OBVIOUS
<1>1. ASSUME NEW s \in Streams, StreamStep(s)
      PROVE  DueInv'
  <2>1. SentinelDue(s)'
    BY <1>1, DueProducer, DueGet, DueConsumer DEF StreamStep, ReaderStep, DueInv
  <2>2. ASSUME NEW u \in Streams, u # s
        PROVE  SentinelDue(u)'
    <3>1. stream'[u] = stream[u] /\ thread'[u] = thread[u] /\ queue'[u] = queue[u]
      BY <1>1, <2>2, OtherStreams DEF StreamInv
    <3>2. QED
      BY <3>1 DEF DueInv, SentinelDue
  <2>3. QED
    BY <2>1, <2>2 DEF DueInv
<1>2. CASE UNCHANGED streamVars
  BY <1>2 DEF streamVars, readerVars, threadVars, DueInv, SentinelDue
<1>3. CASE Clock \/ \E t \in Turns : Begin(t) \/ TurnStep(t)
  BY <1>2, <1>3 DEF Clock, Begin, TurnStep, Wait, Acquire, Answer, RateLimited, Backoff, Fail
<1>4. QED
  BY <1>1, <1>2, <1>3 DEF Next, vars

\* _stream_urllib: no consumer ever waits on a queue that nothing will fill,
\* whatever the producer runs into and whenever the consumer is cancelled.
THEOREM NoConsumerStranded == Spec => []NoneStranded
<1>1. Init => DueInv
  BY DEF Init, StreamsInit, DueInv, SentinelDue
<1>2. StreamInv /\ DueInv => NoneStranded
  <2> SUFFICES ASSUME StreamInv, DueInv, NEW s \in Streams
               PROVE  /\ stream[s] = "waiting" /\ queue[s] = <<>> => thread[s] \in Producing
                      /\ stream[s] = "joining" => thread[s] \in Producing \cup Finished
    BY DEF NoneStranded
  <2>1. SentinelDue(s) /\ thread[s] \in Producing \cup Finished \cup {"idle"}
    BY DEF StreamInv, StreamTypeOK, DueInv, Stages, Producing
  <2>2. queue[s] = <<>> => ~ \E i \in 1 .. Len(queue[s]) : queue[s][i] = "None"
    OBVIOUS
  <2>3. QED
    BY <2>1, <2>2 DEF SentinelDue
<1>3. QED
  BY <1>1, <1>2, StreamInit, StreamKept, DueKept, PTL DEF Spec
-----------------------------------------------------------------------------
(* How much work a session is. *)

\* A turn is within its attempts.
TurnInv ==
    /\ pc \in [Turns -> Pending \cup {"absent", "new", "done", "failed"}]
    /\ attempts \in [Turns -> Nat]
    /\ wake \in [Turns -> Nat]
    /\ \A t \in Turns : pc[t] \in {"pacing", "called"} => attempts[t] \in 1 .. MaxAttempts

\* What a turn has left, besides sleeping: its attempts, each with its pacing.
LeftAt(where, n) ==
    CASE where = "new" -> 2 * MaxAttempts + 2
      [] where = "dispatching" -> 2 * MaxAttempts + 1
      [] where = "pacing" -> 2 * (MaxAttempts - n) + 2
      [] where = "called" -> 2 * (MaxAttempts - n) + 1
      [] OTHER -> 0
TurnLeft(t) == LeftAt(pc[t], attempts[t])

Asleep(t) == now < wake[t]

\* What a stream has left: what its consumer may ask for, what its producer may do, the
\* frames of the response, and the items on their way.
ReaderLeft(where) ==
    CASE where = "new" -> 5
      [] where = "open" -> 4
      [] where = "yielded" -> 3
      [] where = "waiting" -> 2
      [] where = "joining" -> 1
      [] OTHER -> 0
ThreadLeft(where) ==
    CASE where = "idle" -> 8
      [] where = "reading" -> 7
      [] where \in {"complete", "broken", "crashing"} -> 3
      [] OTHER -> 0
FramesLeft(n, done) == 3 * (MaxLines - n) + IF done THEN 0 ELSE 3
StreamLeft(s) ==
    ReaderLeft(stream[s]) + ThreadLeft(thread[s])
    + FramesLeft(lines[s], reported[s]) + 2 * Len(queue[s])

\* A response is within its lines, and a stream within what it had to begin with.
LinesInv == \A s \in Streams : lines[s] <= MaxLines /\ StreamLeft(s) <= 3 * MaxLines + 16

\* That is bounded, for turns and for streams.
LeftBounded ==
    /\ \A t \in Turns : TurnLeft(t) \in 0 .. 2 * MaxAttempts + 2
    /\ \A s \in Streams : StreamLeft(s) \in 0 .. 3 * MaxLines + 16

\* No step gives a call more to do.  A step of a call leaves it less to do or, of a
\* turn that was awake, asleep; and what is asleep stays so until the clock goes on.
CallsShrink ==
    /\ \A t \in Turns :
           /\ TurnLeft(t)' <= TurnLeft(t)
           /\ Begin(t) \/ TurnStep(t) =>
                  TurnLeft(t)' < TurnLeft(t) \/ (~Asleep(t) /\ Asleep(t)')
           /\ Asleep(t) /\ now' = now => TurnLeft(t)' < TurnLeft(t) \/ Asleep(t)'
    /\ \A s \in Streams :
           /\ StreamLeft(s)' <= StreamLeft(s)
           /\ StreamStep(s) => StreamLeft(s)' < StreamLeft(s)

\* The step of a turn is one of pacing that sleeps, or leaves it less to do.
LEMMA TurnShrinks ==
  ASSUME NEW t \in Turns, BucketInv, TurnInv, Begin(t) \/ TurnStep(t)
  PROVE  /\ TurnInv'
         /\ \A u \in Turns \ {t} : TurnLeft(u)' = TurnLeft(u) /\ wake'[u] = wake[u]
         /\ now' = now
         /\ \/ TurnLeft(t)' < TurnLeft(t)
            \/ TurnLeft(t)' = TurnLeft(t) /\ ~Asleep(t) /\ Asleep(t)'
<1> USE DEF Goto, End, clockVars, turnVars, Pending, Acquiring
<1>1. /\ now \in Nat /\ penalty \in Nat /\ Refilled \in 0 .. Cap /\ Period \in Nat \ {0}
      /\ MaxAttempts \in Nat \ {0} /\ Cooldowns \subseteq Nat /\ Jitters \subseteq Nat
  BY RefillBounds, BucketAssumption, SessionAssumption
     DEF BucketInv, ClockTypeOK, BucketAssumption, SessionAssumption
<1>2. CASE Begin(t)
  <2>1. /\ pc[t] = "new" /\ pc' = [pc EXCEPT ![t] = "dispatching"] /\ attempts' = attempts
        /\ wake' = [wake EXCEPT ![t] = now] /\ now' = now
    BY <1>2 DEF Begin
  <2>2. TurnLeft(t)' < TurnLeft(t)
    BY <1>1, <2>1 DEF TurnInv, TurnLeft, LeftAt
  <2>3. TurnInv' /\ \A u \in Turns \ {t} : TurnLeft(u)' = TurnLeft(u) /\ wake'[u] = wake[u]
    BY <1>1, <2>1 DEF TurnInv, TurnLeft
  <2>4. QED
    BY <2>1, <2>2, <2>3
<1>3. CASE Wait(t)
  <2>1. /\ UNCHANGED <<pc, attempts, now>> /\ now >= wake[t]
        /\ \/ now < penalty /\ wake' = [wake EXCEPT ![t] = penalty]
           \/ Refilled < Period /\ wake' = [wake EXCEPT ![t] = now + (Period - Refilled)]
    BY <1>3 DEF Wait, Cooling, Dry
  <2>2. ~Asleep(t) /\ Asleep(t)' /\ wake' \in [Turns -> Nat]
    BY <1>1, <2>1 DEF TurnInv, Asleep
  <2>3. TurnInv' /\ \A u \in Turns \ {t} : TurnLeft(u)' = TurnLeft(u) /\ wake'[u] = wake[u]
    BY <2>1, <2>2 DEF TurnInv, TurnLeft
  <2>4. QED
    BY <2>1, <2>2, <2>3 DEF TurnLeft
<1>4. CASE Acquire(t)
  <2>1. /\ now' = now /\ wake' = [wake EXCEPT ![t] = now]
        /\ \/ pc[t] = "dispatching" /\ pc' = [pc EXCEPT ![t] = "pacing"]
           \/ pc[t] = "pacing" /\ pc' = [pc EXCEPT ![t] = "called"]
        /\ attempts' = [attempts EXCEPT ![t] = IF pc[t] = "dispatching" THEN 1 ELSE @]
    BY <1>4 DEF Acquire, Take
  <2>2. TurnInv'
    BY <1>1, <2>1 DEF TurnInv
  <2>3. \/ pc[t] = "dispatching" /\ pc'[t] = "pacing" /\ attempts'[t] = 1
        \/ /\ pc[t] = "pacing" /\ pc'[t] = "called" /\ attempts'[t] = attempts[t]
           /\ attempts[t] \in 1 .. MaxAttempts
    BY <2>1 DEF TurnInv
  <2>4. TurnLeft(t)' < TurnLeft(t)
    BY <1>1, <2>3 DEF TurnLeft, LeftAt
  <2>5. \A u \in Turns \ {t} : TurnLeft(u)' = TurnLeft(u) /\ wake'[u] = wake[u]
    BY <2>1 DEF TurnInv, TurnLeft
  <2>6. QED
    BY <2>1, <2>2, <2>4, <2>5
<1>5. CASE RateLimited(t) \/ Backoff(t)
  <2>1. /\ now' = now /\ pc[t] = "called" /\ attempts[t] < MaxAttempts
        /\ pc' = [pc EXCEPT ![t] = "pacing"] /\ attempts' = [attempts EXCEPT ![t] = @ + 1]
        /\ \E delay \in Nat : wake' = [wake EXCEPT ![t] = now + delay]
    BY <1>1, <1>5 DEF RateLimited, Backoff, drain, Most
  <2>2. TurnInv'
    BY <1>1, <2>1 DEF TurnInv
  <2>3. attempts[t] \in 1 .. MaxAttempts /\ attempts'[t] = attempts[t] + 1 /\ pc'[t] = "pacing"
    BY <2>1 DEF TurnInv
  <2>4. TurnLeft(t)' < TurnLeft(t)
    BY <1>1, <2>1, <2>3 DEF TurnLeft, LeftAt
  <2>5. \A u \in Turns \ {t} : TurnLeft(u)' = TurnLeft(u) /\ wake'[u] = wake[u]
    BY <2>1 DEF TurnInv, TurnLeft
  <2>6. QED
    BY <2>1, <2>2, <2>4, <2>5
<1>6. CASE Answer(t) \/ Fail(t)
  <2>1. /\ now' = now /\ pc[t] \in Pending /\ attempts' = attempts
        /\ wake' = [wake EXCEPT ![t] = 0]
        /\ \E state \in {"done", "failed"} : pc' = [pc EXCEPT ![t] = state]
    BY <1>6 DEF Answer, Fail
  <2>2. TurnInv'
    BY <2>1 DEF TurnInv
  <2>3. pc'[t] \in {"done", "failed"} /\ (pc[t] \in {"pacing", "called"} => attempts[t] \in 1 .. MaxAttempts)
    BY <2>1 DEF TurnInv
  <2>4. TurnLeft(t)' < TurnLeft(t)
    BY <1>1, <2>1, <2>3 DEF TurnLeft, LeftAt
  <2>5. \A u \in Turns \ {t} : TurnLeft(u)' = TurnLeft(u) /\ wake'[u] = wake[u]
    BY <2>1 DEF TurnInv, TurnLeft
  <2>6. QED
    BY <2>1, <2>2, <2>4, <2>5
<1>7. QED
  BY <1>2, <1>3, <1>4, <1>5, <1>6 DEF TurnStep

LEMMA Frames ==
  ASSUME NEW n \in Nat, NEW done \in BOOLEAN
  PROVE  /\ FramesLeft(n, done) \in Int
         /\ FramesLeft(n + 1, done) = FramesLeft(n, done) - 3
         /\ FramesLeft(n, TRUE) = FramesLeft(n, FALSE) - 3
BY SessionAssumption DEF FramesLeft, SessionAssumption

\* The step of a stream moves its consumer, its producer, a frame or an item on.
LEMMA StreamShrinks ==
  ASSUME NEW s \in Streams, StreamInv, LinesInv, StreamStep(s)
  PROVE  /\ LinesInv'
         /\ \A u \in Streams \ {s} : StreamLeft(u)' = StreamLeft(u)
         /\ StreamLeft(s)' < StreamLeft(s)
<1> DEFINE q == queue[s]
           reader == ReaderLeft(stream[s])
           reader1 == ReaderLeft(stream'[s])
           producer == ThreadLeft(thread[s])
           producer1 == ThreadLeft(thread'[s])
           frames == FramesLeft(lines[s], reported[s])
           frames1 == FramesLeft(lines'[s], reported'[s])
           items == Len(q)
           items1 == Len(queue'[s])
<1>1. /\ StreamTypeOK /\ q \in Seq(Items)
      /\ lines[s] \in Nat /\ lines[s] <= MaxLines /\ MaxLines \in Nat /\ reported[s] \in BOOLEAN
  BY SessionAssumption DEF StreamInv, StreamTypeOK, LinesInv, SessionAssumption
<1>2. reader \in Int /\ reader1 \in Int /\ producer \in Int /\ producer1 \in Int
  <2>1. \A where : ReaderLeft(where) \in Int /\ ThreadLeft(where) \in Int
    BY DEF ReaderLeft, ThreadLeft
  <2>2. QED
    BY <2>1, Zenon
<1>3. \A u \in Streams \ {s} : StreamLeft(u)' = StreamLeft(u) /\ lines'[u] = lines[u]
  BY <1>1, OtherStreams DEF StreamLeft
<1>4. ASSUME NEW item \in Items, Put(s, item)
      PROVE  items1 = items + 1
  BY <1>1, <1>4, PutGrows DEF Grown
<1>5. frames \in Int /\ items \in Int
  <2>1. frames \in Int
    BY <1>1, Frames
  <2>2. items \in Int
    BY <1>1
  <2>3. QED
    BY <2>1, <2>2
<1>6. /\ StreamLeft(s) = reader + producer + frames + 2 * items
      /\ StreamLeft(s)' = reader1 + producer1 + frames1 + 2 * items1
  BY DEF StreamLeft
<1> HIDE DEF reader, reader1, producer, producer1, frames, frames1, items, items1
<1>7. ASSUME frames1 \in Int, items1 \in Int,
             reader1 + producer1 + frames1 + 2 * items1 < reader + producer + frames + 2 * items,
             lines'[s] <= MaxLines
      PROVE  LinesInv' /\ StreamLeft(s)' < StreamLeft(s)
  <2>1. StreamLeft(s)' < StreamLeft(s)
    BY <1>6, <1>7
  <2>2. StreamLeft(s)' \in Int /\ StreamLeft(s) \in Int
    BY <1>1, <1>2, <1>5, <1>6, <1>7
  <2>3. StreamLeft(s) <= 3 * MaxLines + 16
    BY DEF LinesInv
  <2>4. StreamLeft(s)' <= 3 * MaxLines + 16
    BY <1>1, <2>1, <2>2, <2>3
  <2>5. QED
    BY <1>3, <1>7, <2>1, <2>4 DEF LinesInv
<1>8. ASSUME lines' = lines, reported' = reported
      PROVE  frames1 = frames
  BY <1>8 DEF frames, frames1
<1>9. CASE PutLine(s)
  <2>1. /\ lines'[s] = lines[s] + 1 /\ lines'[s] <= MaxLines /\ items1 = items + 1
        /\ stream' = stream /\ thread' = thread /\ reported' = reported
    <3>1. Put(s, "delta") \/ Put(s, "garbled")
      BY <1>9 DEF PutLine
    <3>2. items1 = items + 1
      BY <1>4, <3>1 DEF Items, Content
    <3>3. QED
      BY <1>1, <1>9, <3>2 DEF PutLine, StreamTypeOK, readerVars
  <2>2. frames1 = frames - 3
    BY <1>1, <2>1, Frames DEF frames, frames1
  <2>3. reader1 = reader /\ producer1 = producer
    BY <2>1 DEF reader, reader1, producer, producer1
  <2>4. /\ frames1 \in Int /\ items1 \in Int
        /\ reader1 + producer1 + frames1 + 2 * items1 < reader + producer + frames + 2 * items
    BY ONLY <1>2, <1>5, <2>1, <2>2, <2>3
  <2>5. lines'[s] <= MaxLines
    BY ONLY <1>1, <2>1
  <2>6. QED
    BY <1>3, <1>7, <2>4, <2>5
<1>10. CASE PutUsageFrame(s)
  <2>1. /\ reported[s] = FALSE /\ reported'[s] = TRUE /\ items1 = items + 1
        /\ stream' = stream /\ thread' = thread /\ lines' = lines
    BY <1>1, <1>4, <1>10 DEF PutUsageFrame, StreamTypeOK, Items, readerVars
  <2>2. frames1 = frames - 3
    BY <1>1, <2>1, Frames DEF frames, frames1
  <2>3. reader1 = reader /\ producer1 = producer
    BY <2>1 DEF reader, reader1, producer, producer1
  <2>4. /\ frames1 \in Int /\ items1 \in Int
        /\ reader1 + producer1 + frames1 + 2 * items1 < reader + producer + frames + 2 * items
    BY ONLY <1>2, <1>5, <2>1, <2>2, <2>3
  <2>5. lines'[s] <= MaxLines
    BY ONLY <1>1, <2>1
  <2>6. QED
    BY <1>3, <1>7, <2>4, <2>5
<1>11. CASE PutError(s) \/ Crash(s) \/ EndOfResponse(s) \/ PutSentinel(s)
  <2>1. /\ stream' = stream /\ lines' = lines /\ reported' = reported
        /\ items1 = items \/ items1 = items + 1
        /\ \/ thread[s] = "reading" /\ thread'[s] \in {"broken", "crashing", "complete"}
           \/ /\ thread[s] \in {"broken", "crashing", "complete"}
              /\ thread'[s] \in {"returned", "gave up", "raised"}
    <3>1. CASE PutError(s)
      BY <1>1, <1>4, <3>1 DEF PutError, Become, StreamTypeOK, Items, readerVars
    <3>2. CASE Crash(s) \/ EndOfResponse(s)
      BY <1>1, <3>2 DEF Crash, EndOfResponse, Become, StreamTypeOK, readerVars, items, items1
    <3>3. CASE PutSentinel(s)
      BY <1>1, <1>4, <3>3 DEF PutSentinel, Become, StreamTypeOK, Items, readerVars
    <3>4. QED
      BY <1>11, <3>1, <3>2, <3>3
  <2>2. producer1 <= producer - 3
    <3>1. CASE thread[s] = "reading" /\ thread'[s] \in {"broken", "crashing", "complete"}
      <4>1. producer = 7 /\ producer1 = 3
        BY <3>1 DEF producer, producer1, ThreadLeft
      <4>2. QED
        BY <4>1
    <3>2. CASE /\ thread[s] \in {"broken", "crashing", "complete"}
               /\ thread'[s] \in {"returned", "gave up", "raised"}
      <4>1. producer = 3 /\ producer1 = 0
        BY <3>2 DEF producer, producer1, ThreadLeft
      <4>2. QED
        BY <4>1
    <3>3. QED
      BY <2>1, <3>1, <3>2
  <2>3. reader1 = reader
    BY <2>1 DEF reader, reader1
  <2>4. frames1 = frames /\ lines'[s] <= MaxLines
    BY <1>1, <1>8, <2>1
  <2>5. items1 \in Int /\ items1 <= items + 1
    <3>1. items1 = items \/ items1 = items + 1
      BY <2>1
    <3>2. QED
      BY ONLY <1>5, <3>1
  <2>6. QED
    BY <1>1, <1>2, <1>3, <1>5, <1>7, <2>2, <2>3, <2>4, <2>5
<1>12. CASE Get(s)
  <2>1. /\ thread' = thread /\ lines' = lines /\ reported' = reported
        /\ stream[s] = "waiting" /\ stream'[s] \in {"waiting", "yielded", "joining", "failed"}
    BY <1>1, <1>12 DEF Get, Join, Fold, At, threadVars, StreamTypeOK
  <2>2. items1 = items - 1
    <3>1. q # <<>> /\ queue'[s] = Tail(q)
      BY <1>1, <1>12 DEF Get, StreamTypeOK
    <3>2. QED
      BY <1>1, <3>1, TailIndices DEF items, items1
  <2>3. reader1 <= reader + 1
    BY <2>1 DEF reader, reader1, ReaderLeft
  <2>4. producer1 = producer
    BY <2>1 DEF producer, producer1
  <2>5. frames1 = frames /\ lines'[s] <= MaxLines
    BY <1>1, <1>8, <2>1
  <2>6. QED
    BY <1>1, <1>2, <1>3, <1>5, <1>7, <2>2, <2>3, <2>4, <2>5
<1>13. CASE Joined(s) \/ ConsumerStep(s)
  <2>1. /\ lines' = lines /\ reported' = reported /\ queue' = queue
        /\ \/ thread' = thread
           \/ thread[s] = "idle" /\ thread'[s] = "reading"
        /\ \/ stream[s] = "joining" /\ stream'[s] \in Folded
           \/ stream[s] = "new" /\ stream'[s] \in Unfolded \cup {"open"}
           \/ stream[s] = "open" /\ stream'[s] \in Unfolded \cup {"waiting"}
           \/ stream[s] = "yielded" /\ stream'[s] \in Folded \cup {"waiting"}
           \/ stream[s] = "waiting" /\ stream'[s] = "joining"
    <3>1. CASE Joined(s)
      BY <1>1, <3>1 DEF Joined, Fold, At, threadVars, StreamTypeOK, Folded
    <3>2. CASE Refuse(s) \/ Announce(s)
      BY <1>1, <3>2 DEF Refuse, Announce, At, threadVars, StreamTypeOK, Unfolded
    <3>3. CASE AskNext(s)
      <4>1. stream[s] = "open" => thread[s] = "idle"
        BY DEF StreamInv, QueueInv, Unasked
      <4>2. QED
        BY <1>1, <3>3, <4>1 DEF AskNext, Become, At, StreamTypeOK
    <3>4. CASE CancelReader(s) \/ CloseStream(s)
      BY <1>1, <3>4 DEF CancelReader, CloseStream, Join, Fold, At, threadVars, StreamTypeOK, Folded, Unfolded
    <3>5. QED
      BY <1>13, <3>1, <3>2, <3>3, <3>4 DEF ConsumerStep
  <2>2. reader1 <= reader - 1
    BY <2>1 DEF reader, reader1, ReaderLeft, Folded, Unfolded
  <2>3. producer1 <= producer
    <3>1. CASE thread' = thread
      BY <1>2, <3>1 DEF producer, producer1
    <3>2. CASE thread[s] = "idle" /\ thread'[s] = "reading"
      BY <3>2 DEF producer, producer1, ThreadLeft
    <3>3. QED
      BY <2>1, <3>1, <3>2
  <2>4. items1 = items
    BY <2>1 DEF items, items1
  <2>5. frames1 = frames /\ lines'[s] <= MaxLines
    BY <1>1, <1>8, <2>1
  <2>6. QED
    BY <1>1, <1>2, <1>3, <1>5, <1>7, <2>2, <2>3, <2>4, <2>5
<1>14. QED
  BY <1>9, <1>10, <1>11, <1>12, <1>13 DEF StreamStep, ProducerStep, ReaderStep

LEMMA BoundsHold ==
  ASSUME StreamInv, TurnInv, LinesInv
  PROVE  LeftBounded
<1>1. MaxAttempts \in Nat \ {0} /\ MaxLines \in Nat
  BY SessionAssumption DEF SessionAssumption
<1>2. ASSUME NEW t \in Turns
      PROVE  TurnLeft(t) \in 0 .. 2 * MaxAttempts + 2
  BY <1>1 DEF TurnInv, TurnLeft, LeftAt
<1>3. ASSUME NEW s \in Streams
      PROVE  StreamLeft(s) \in Nat
  <2> DEFINE reader == ReaderLeft(stream[s])
             producer == ThreadLeft(thread[s])
             frames == FramesLeft(lines[s], reported[s])
             items == Len(queue[s])
  <2>1. reader \in Nat /\ producer \in Nat
    BY DEF ReaderLeft, ThreadLeft
  <2>2. lines[s] \in Nat /\ lines[s] <= MaxLines /\ queue[s] \in Seq(Items)
    BY DEF StreamInv, StreamTypeOK, LinesInv
  <2>3. items \in Nat
    BY <2>2
  <2>4. frames \in Nat
    BY <1>1, <2>2 DEF FramesLeft
  <2>5. StreamLeft(s) = reader + producer + frames + 2 * items
    BY DEF StreamLeft
  <2> HIDE DEF reader, producer, frames, items
  <2>6. reader + producer + frames + 2 * items \in Nat
    BY ONLY <2>1, <2>3, <2>4
  <2>7. QED
    BY <2>5, <2>6
<1>4. QED
  BY <1>1, <1>2, <1>3 DEF LinesInv, LeftBounded

LEMMA WorkInit == Init => TurnInv /\ LinesInv
<1> SUFFICES ASSUME Init
             PROVE  TurnInv /\ LinesInv
  OBVIOUS
<1>1. TurnInv
  <2>1. attempts = [t \in Turns |-> 0] /\ wake = [t \in Turns |-> 0]
    BY DEF Init, BucketInit, Turns
  <2>2. PICK calls : pc = [t \in Turns |-> IF t \in calls THEN "new" ELSE "absent"]
    BY DEF Init
  <2>3. QED
    BY <2>1, <2>2 DEF TurnInv
<1>2. MaxLines \in Nat
  BY SessionAssumption DEF SessionAssumption
<1>3. PICK calls : StreamsInit(calls)
  BY DEF Init
<1>4. ASSUME NEW s \in Streams
      PROVE  lines[s] <= MaxLines /\ StreamLeft(s) <= 3 * MaxLines + 16
  <2>1. /\ stream[s] \in {"new", "absent"} /\ thread[s] = "idle" /\ Len(queue[s]) = 0 /\ lines[s] = 0
        /\ reported[s] = FALSE
    BY <1>3 DEF StreamsInit
  <2>2. ReaderLeft(stream[s]) \in 0 .. 5 /\ ThreadLeft(thread[s]) = 8
    BY <2>1 DEF ReaderLeft, ThreadLeft
  <2>3. FramesLeft(lines[s], reported[s]) = 3 * MaxLines + 3
    BY <1>2, <2>1 DEF FramesLeft
  <2>4. StreamLeft(s) <= 3 * MaxLines + 16
    BY <1>2, <2>1, <2>2, <2>3 DEF StreamLeft
  <2>5. QED
    BY <1>2, <2>1, <2>4
<1>5. QED
  BY <1>1, <1>4 DEF LinesInv

\* What one step does to the work of all calls.
LEMMA WorkStep ==
  ASSUME BucketInv, StreamInv, TurnInv, LinesInv, [Next]_vars
  PROVE  /\ TurnInv' /\ LinesInv'
         /\ \A t \in Turns :
                /\ TurnLeft(t)' = TurnLeft(t) \/ TurnLeft(t)' < TurnLeft(t)
                /\ Asleep(t) /\ now' = now => TurnLeft(t)' < TurnLeft(t) \/ Asleep(t)'
         /\ \A s \in Streams : StreamLeft(s)' = StreamLeft(s) \/ StreamLeft(s)' < StreamLeft(s)
<1>1. ASSUME UNCHANGED streamVars
      PROVE  LinesInv' /\ \A s \in Streams : StreamLeft(s)' = StreamLeft(s)
  BY <1>1 DEF streamVars, readerVars, threadVars, LinesInv, StreamLeft
<1>2. ASSUME UNCHANGED <<pc, attempts, wake>>
      PROVE  /\ TurnInv'
             /\ \A t \in Turns : TurnLeft(t)' = TurnLeft(t) /\ wake'[t] = wake[t]
  BY <1>2 DEF TurnInv, TurnLeft
<1>3. CASE Clock \/ UNCHANGED vars
  <2>1. UNCHANGED <<pc, attempts, wake, streamVars>>
    BY <1>3 DEF Clock, Tick, vars, bucketVars, turnVars
  <2>2. QED
    BY <1>1, <1>2, <2>1 DEF Asleep
<1>4. ASSUME NEW t \in Turns, Begin(t) \/ TurnStep(t)
      PROVE  /\ TurnInv' /\ LinesInv'
             /\ \A u \in Turns :
                    /\ TurnLeft(u)' = TurnLeft(u) \/ TurnLeft(u)' < TurnLeft(u)
                    /\ Asleep(u) /\ now' = now => TurnLeft(u)' < TurnLeft(u) \/ Asleep(u)'
             /\ \A s \in Streams : StreamLeft(s)' = StreamLeft(s)
  <2>1. UNCHANGED streamVars
    BY <1>4 DEF Begin, TurnStep, Wait, Acquire, Answer, RateLimited, Backoff, Fail
  <2>2. /\ TurnInv' /\ now' = now
        /\ \A u \in Turns \ {t} : TurnLeft(u)' = TurnLeft(u) /\ wake'[u] = wake[u]
        /\ \/ TurnLeft(t)' < TurnLeft(t)
           \/ TurnLeft(t)' = TurnLeft(t) /\ ~Asleep(t) /\ Asleep(t)'
    BY <1>4, TurnShrinks
  <2>3. ASSUME NEW u \in Turns \ {t}, Asleep(u)
        PROVE  Asleep(u)'
    BY <2>2, <2>3 DEF Asleep
  <2>4. QED
    BY <1>1, <2>1, <2>2, <2>3
<1>5. ASSUME NEW s \in Streams, StreamStep(s), UNCHANGED <<bucketVars, turnVars>>
      PROVE  /\ TurnInv' /\ LinesInv'
             /\ \A t \in Turns : TurnLeft(t)' = TurnLeft(t) /\ (Asleep(t) => Asleep(t)')
             /\ \A u \in Streams : StreamLeft(u)' = StreamLeft(u) \/ StreamLeft(u)' < StreamLeft(u)
  <2>1. UNCHANGED <<pc, attempts, wake, now>>
    BY <1>5 DEF bucketVars, turnVars
  <2>2. QED
    BY <1>2, <1>5, <2>1, StreamShrinks DEF Asleep
<1>6. QED
  BY <1>3, <1>4, <1>5 DEF Next

LEMMA WorkInvariance == Spec => [](BucketInv /\ StreamInv /\ TurnInv /\ LinesInv)
<1>1. TurnInv /\ LinesInv /\ BucketInv /\ StreamInv /\ [Next]_vars => (TurnInv /\ LinesInv)'
  BY WorkStep
<1>2. QED
  BY <1>1, WorkInit, SessionBucket, StreamInit, StreamKept, PTL DEF Spec

\* The safety half of CallsEnd: between two ticks of the clock a turn takes a bounded
\* number of steps, however often rivals take its token, for each uses up a part of
\* its attempts or puts it to sleep to a later time: acquire() never spins.  And a
\* stream takes a bounded number of steps, whatever its consumer and producer do.
THEOREM BoundedCalls == Spec => []LeftBounded /\ [][CallsShrink]_vars
<1>1. ASSUME BucketInv, StreamInv, TurnInv, LinesInv, LeftBounded, LeftBounded', Next
      PROVE  CallsShrink
  <2>1. /\ \A t \in Turns : TurnLeft(t) \in Int /\ TurnLeft(t)' \in Int
        /\ \A s \in Streams : StreamLeft(s) \in Int /\ StreamLeft(s)' \in Int
    BY <1>1 DEF LeftBounded
  <2>2. ASSUME NEW t \in Turns
        PROVE  /\ TurnLeft(t)' <= TurnLeft(t)
               /\ Begin(t) \/ TurnStep(t) =>
                      TurnLeft(t)' < TurnLeft(t) \/ (~Asleep(t) /\ Asleep(t)')
               /\ Asleep(t) /\ now' = now => TurnLeft(t)' < TurnLeft(t) \/ Asleep(t)'
    <3>1. TurnLeft(t)' <= TurnLeft(t)
      BY <1>1, <2>1, WorkStep
    <3>2. QED
      BY <1>1, <3>1, WorkStep, TurnShrinks
  <2>3. ASSUME NEW s \in Streams
        PROVE  StreamLeft(s)' <= StreamLeft(s) /\ (StreamStep(s) => StreamLeft(s)' < StreamLeft(s))
    <3>1. StreamLeft(s)' <= StreamLeft(s)
      BY <1>1, <2>1, WorkStep
    <3>2. QED
      BY <1>1, <3>1, StreamShrinks
  <2>4. QED
    BY <2>2, <2>3 DEF CallsShrink
<1>2. StreamInv /\ TurnInv /\ LinesInv => LeftBounded
  BY BoundsHold
<1>3. BucketInv /\ StreamInv /\ TurnInv /\ LinesInv /\ LeftBounded /\ LeftBounded' /\ [Next]_vars
      => [CallsShrink]_vars
  BY <1>1
<1>4. QED
  BY <1>2, <1>3, WorkInvariance, PTL DEF Spec
=============================================================================
