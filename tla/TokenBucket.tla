----------------------------- MODULE TokenBucket -----------------------------
(***************************************************************************)
(* TokenBucket: acquire(), which loops around its sleeps, and drain(),     *)
(* which other tasks call while acquirers sleep.                           *)
(*                                                                         *)
(* The clock counts in ticks.  A token is worth Period ticks of refill, so *)
(* `credit` is _tokens in ticks and grows by one per tick: rate is one     *)
(* token per Period ticks, capacity is Cap / Period tokens.  Rounding of   *)
(* floating point numbers is left out.                                     *)
(***************************************************************************)
EXTENDS Integers, Sequences

CONSTANTS Callers,     \* tasks that use the bucket
          Period,      \* ticks in which one token refills
          Cap,         \* capacity in ticks
          Cooldowns,   \* the Retry-After times drain() is called with
          Horizon      \* the clock stops here

ASSUME BucketAssumption ==
    /\ Period \in Nat \ {0}
    /\ Cap \in Nat /\ Cap >= Period
    /\ Cooldowns \subseteq Nat
    /\ Horizon \in Nat

VARIABLES
    now,        \* time.monotonic()
    credit,     \* _tokens
    refilled,   \* _last_refill
    penalty,    \* _penalty_until
    wake,       \* when the sleep of an acquirer ends
    grants,     \* history: when each token was taken
    drains      \* history: the end of each cooldown not yet over, and the grants before it

bucketVars == <<now, credit, refilled, penalty, wake, grants, drains>>
clockVars == <<now, credit, refilled, penalty, grants, drains>>

Least(a, b) == IF a < b THEN a ELSE b
Most(a, b) == IF a > b THEN a ELSE b

BucketInit ==
    /\ now = 0
    /\ credit = Cap
    /\ refilled = 0
    /\ penalty = 0
    /\ wake = [c \in Callers |-> 0]
    /\ grants = <<>>
    /\ drains = {}

\* Time passes.
Tick ==
    /\ now < Horizon
    /\ now' = now + 1
    /\ UNCHANGED <<credit, refilled, penalty, wake, grants, drains>>

\* Faulty: the refill is not capped.
Refilled_Uncapped == credit + (now - refilled)

\* _tokens after _refill().
Refilled == Least(Cap, credit + (now - refilled))

\* One pass of acquire()'s loop: when acquire() is called, and when one of its
\* sleeps ends.  It sleeps out a cooldown first and looks again.
Cooling(c) ==
    /\ now < penalty
    /\ wake' = [wake EXCEPT ![c] = penalty]
    /\ UNCHANGED clockVars

\* A whole token is there and is taken; acquire() returns.
Take ==
    /\ now >= penalty
    /\ Refilled >= Period
    /\ credit' = Refilled - Period
    /\ refilled' = now
    /\ grants' = Append(grants, now)
    /\ UNCHANGED <<now, penalty, drains>>

\* None is: sleep until it would have refilled with nobody else about.
Dry(c) ==
    /\ now >= penalty
    /\ Refilled < Period
    /\ credit' = Refilled
    /\ refilled' = now
    /\ wake' = [wake EXCEPT ![c] = now + (Period - Refilled)]
    /\ UNCHANGED <<now, penalty, grants, drains>>

\* Faulty: a shorter cooldown replaces a longer one.
Cooldown_Latest(seconds) == now + seconds

Cooldown(seconds) == Most(penalty, now + seconds)

drain(seconds) ==
    /\ credit' = Most(0, credit - seconds)
    /\ refilled' = now
    /\ penalty' = Cooldown(seconds)
    /\ drains' = {d \in drains : d.until > now}
                     \cup {[until |-> now + seconds, after |-> Len(grants)]}
    /\ UNCHANGED <<now, grants>>

\* The bucket alone: callers acquire and drain in any order.
BucketNext ==
    \/ Tick
    \/ \E c \in Callers : Cooling(c) \/ Dry(c)
    \/ Take /\ UNCHANGED wake
    \/ \E seconds \in Cooldowns : drain(seconds) /\ UNCHANGED wake

BucketSpec == BucketInit /\ [][BucketNext]_bucketVars
-----------------------------------------------------------------------------
\* Between any two grants there are no more tokens than a full bucket and the
\* refill of the time between them give, however acquirers and drains interleave.
RateBound ==
    \A i, j \in 1 .. Len(grants) :
        i <= j => (j - i + 1) * Period <= Cap + (grants[j] - grants[i])

\* No token is granted while a cooldown that began before it lasts, whatever
\* other drains came between.  with_retry drains for the 429s that it will retry:
\* one of a last attempt, or of a stream, begins no cooldown.
CooldownHonoured ==
    \A d \in drains : \A i \in d.after + 1 .. Len(grants) : grants[i] >= d.until
=============================================================================
