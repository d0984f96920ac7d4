----------------------------- MODULE KitSession -----------------------------
(***************************************************************************)
(* One Kit and the calls an application makes on it concurrently: turns of *)
(* the conversation, paced by the token bucket, and streams, which share   *)
(* its usage.  The bucket is the Kit's rate_limiter and, as the            *)
(* rate_limit_strategy of RetryConfig, that of every attempt: a turn takes *)
(* a token when it is dispatched and one per attempt.                      *)
(*                                                                         *)
(* A turn is one model call without tool rounds and without a budget;      *)
(* ReactLoop and CheckedCalls model these.  A timer fires, and a provider  *)
(* call is answered, at most Lag ticks after it may.                       *)
(***************************************************************************)
EXTENDS TokenBucket, KitStreams, FiniteSets

CONSTANTS Sessions,      \* the sets of calls an application may make
          MaxAttempts,   \* 1 + max_retries
          Jitters,       \* backoff delays
          Lag,           \* how late a task may run
          LastStart      \* no turn starts later than that

Turns == Callers

ASSUME SessionAssumption ==
    /\ Sessions \subseteq SUBSET (Turns \cup Streams)
    /\ MaxAttempts \in Nat \ {0}
    /\ Jitters \subseteq Nat
    /\ Lag \in Nat \ {0}
    /\ LastStart \in Nat
    /\ MaxLines \in Nat

VARIABLES
    messages,   \* Kit.messages
    pc,         \* where each turn is
    history,    \* the conversation a turn sends: what it has read, and its own
    attempts,   \* attempts of its model call
    cost        \* PatternResult.cost

turnVars == <<messages, pc, history, attempts, cost>>
vars == <<bucketVars, streamVars, usage, turnVars>>

User(t) == [turn |-> t, role |-> "user"]
Assistant(t) == [turn |-> t, role |-> "assistant"]

Init ==
    /\ BucketInit
    /\ usage = NoUsage
    /\ messages = <<>>
    /\ history = [t \in Turns |-> <<>>]
    /\ attempts = [t \in Turns |-> 0]
    /\ cost = [t \in Turns |-> NoUsage]
    /\ \E calls \in Sessions :
           /\ pc = [t \in Turns |-> IF t \in calls THEN "new" ELSE "absent"]
           /\ StreamsInit(calls)

Acquiring == {"dispatching", "pacing"}
Pending == Acquiring \cup {"called"}

Goto(t, state) == pc' = [pc EXCEPT ![t] = state]

End(t, state) ==
    /\ Goto(t, state)
    /\ wake' = [wake EXCEPT ![t] = 0]

\* Kit.turn reads the conversation before its first await.
Begin(t) ==
    /\ pc[t] = "new"
    /\ now <= LastStart
    /\ history' = [history EXCEPT ![t] = Append(messages, User(t))]
    /\ wake' = [wake EXCEPT ![t] = now]
    /\ Goto(t, "dispatching")
    /\ UNCHANGED <<messages, attempts, cost, clockVars, usage, streamVars>>

\* A pass of acquire() that sleeps: its tokens are not there yet.
Wait(t) ==
    /\ pc[t] \in Acquiring
    /\ now >= wake[t]
    /\ Cooling(t) \/ Dry(t)
    /\ UNCHANGED <<turnVars, usage, streamVars>>

\* One that returns: the turn goes on to its attempt, or the attempt to the
\* provider, whose answer is due from now on.
Acquire(t) ==
    /\ now >= wake[t]
    /\ Take
    /\ wake' = [wake EXCEPT ![t] = now]
    /\ \/ pc[t] = "dispatching" /\ Goto(t, "pacing")
       \/ pc[t] = "pacing" /\ Goto(t, "called")
    /\ attempts' = [attempts EXCEPT ![t] = IF pc[t] = "dispatching" THEN 1 ELSE @]
    /\ UNCHANGED <<messages, history, cost, usage, streamVars>>

\* Faulty: the answer is appended to the conversation as it is now.
Transcript_Current(t) == messages \o <<User(t), Assistant(t)>>

\* The transcript of react_loop.
Transcript(t) == Append(history[t], Assistant(t))

\* turn() replaces the conversation by its own transcript.
Answer(t) ==
    /\ pc[t] = "called"
    /\ messages' = Transcript(t)
    /\ cost' = [cost EXCEPT ![t] = [calls |-> attempts[t], tokens |-> 1]]
    /\ usage' = Plus(usage, cost'[t])
    /\ End(t, "done")
    /\ UNCHANGED <<history, attempts, clockVars, streamVars>>

\* A 429 with retries left: drain, sleep, and another attempt.
RateLimited(t) ==
    /\ pc[t] = "called"
    /\ attempts[t] < MaxAttempts
    /\ \E seconds \in Cooldowns, jitter \in Jitters :
           /\ drain(seconds)
           /\ wake' = [wake EXCEPT ![t] = now + Most(jitter, seconds)]
    /\ attempts' = [attempts EXCEPT ![t] = @ + 1]
    /\ Goto(t, "pacing")
    /\ UNCHANGED <<messages, history, cost, usage, streamVars>>

\* Another retryable error.
Backoff(t) ==
    /\ pc[t] = "called"
    /\ attempts[t] < MaxAttempts
    /\ \E jitter \in Jitters : wake' = [wake EXCEPT ![t] = now + jitter]
    /\ attempts' = [attempts EXCEPT ![t] = @ + 1]
    /\ Goto(t, "pacing")
    /\ UNCHANGED <<messages, history, cost, clockVars, usage, streamVars>>

\* A provider error that is not retried, which carries no cost, or cancellation,
\* at any await.  The conversation is as it was.
Fail(t) ==
    /\ pc[t] \in Pending
    /\ End(t, "failed")
    /\ UNCHANGED <<messages, history, attempts, cost, clockVars, usage, streamVars>>

TurnStep(t) ==
    \/ Wait(t)
    \/ Acquire(t)
    \/ Answer(t)
    \/ RateLimited(t)
    \/ Backoff(t)
    \/ Fail(t)

\* Time passes while nobody is Lag ticks overdue; it matters to turns alone.
Clock ==
    /\ \E t \in Turns : pc[t] \in Pending \/ (pc[t] = "new" /\ now < LastStart)
    /\ \A t \in Turns : pc[t] \in Pending => now < wake[t] + Lag
    /\ Tick
    /\ UNCHANGED <<turnVars, usage, streamVars>>

Next ==
    \/ Clock
    \/ \E t \in Turns : Begin(t) \/ TurnStep(t)
    \/ \E s \in Streams : StreamStep(s) /\ UNCHANGED <<bucketVars, turnVars>>

\* Time goes on, the loop runs its tasks, providers answer or break off within
\* their timeouts.  An application need not begin a call or read a stream.
Fairness ==
    /\ WF_vars(Clock)
    /\ \A t \in Turns : WF_vars(TurnStep(t))
    /\ \A s \in Streams :
           /\ WF_vars(ProducerStep(s) /\ UNCHANGED <<bucketVars, turnVars>>)
           /\ WF_vars(ReaderStep(s) /\ UNCHANGED <<bucketVars, turnVars>>)

Spec == Init /\ [][Next]_vars /\ Fairness
-----------------------------------------------------------------------------
\* Kit.turn: whatever turns overlap, the conversation is one the model has seen:
\* every answer in it stands right after the history that was sent for it.  (The
\* exchange of a turn that another one overlaps may be missing as a whole.)
TranscriptWhole ==
    \A i \in DOMAIN messages :
        messages[i].role = "assistant" =>
            SubSeq(messages, 1, i - 1) = history[messages[i].turn]

\* The units of a field that costs name, each with the call it belongs to, so
\* that their number is the field's sum.
Units(costs, field) == UNION {{c} \X (1 .. costs[c][field]) : c \in DOMAIN costs}

Total(costs, field) == Cardinality(Units(costs, field))

\* The cost of each stream that is over and has reached the provider.
FoldedCosts == [s \in {x \in Streams : stream[x] \in Folded} |-> local[s]]

\* A stream that ended without an error has delivered the whole response, and its
\* usage frame is recorded.
Whole(s) ==
    stream[s] = "ended" =>
        /\ thread[s] = "returned"
        /\ yielded[s] = lines[s]
        /\ local[s].tokens = IF reported[s] THEN 1 ELSE 0

\* _folded, _run_tracked and _stream_urllib: Kit.usage is always the sum of what
\* the finished turns cost and of all that was ever counted for each stream that
\* reached the provider and is over, however it ended and whatever ran in between;
\* and no stream ends like a complete one when its producer has failed.
UsageSettled ==
    /\ \A f \in {"calls", "tokens"} :
           usage[f] = Total(cost, f) + Total(FoldedCosts, f)
    /\ \A s \in Streams : Whole(s)

=============================================================================
