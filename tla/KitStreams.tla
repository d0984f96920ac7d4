----------------------------- MODULE KitStreams -----------------------------
(***************************************************************************)
(* The streams of a Kit: checked_stream() and the generators around it,    *)
(* _folded over _tracked_stream over _stream over _stream_urllib, and the  *)
(* producer thread, which reads the response and hands its lines to the    *)
(* event loop through a queue.  A stream does not wait for the rate        *)
(* limiter.                                                                *)
(*                                                                         *)
(* A response is up to MaxLines content deltas, or frames that are no JSON *)
(* object, and perhaps a usage frame of one token; frames with none of     *)
(* these are skipped.                                                      *)
(***************************************************************************)
EXTENDS Integers, Sequences

CONSTANTS Streams,    \* the streams the application asks for
          MaxLines    \* content deltas and garbled frames in a response

VARIABLES
    stream,    \* where the consumer of each stream is
    thread,    \* the producer thread of each stream
    queue,     \* the items it has put on the loop's queue
    lines,     \* content deltas and garbled frames it has read
    reported,  \* the response has sent its usage frame
    yielded,   \* content deltas the consumer was given
    local,     \* the CostTracker of each stream
    unwinding, \* the exception with which _stream_urllib awaits the producer
    usage      \* Kit.usage

threadVars == <<thread, lines, reported>>
readerVars == <<stream, yielded, local, unwinding>>
streamVars == <<readerVars, threadVars, queue>>

NoUsage == [calls |-> 0, tokens |-> 0]

Plus(a, b) == [calls |-> a.calls + b.calls, tokens |-> a.tokens + b.tokens]

\* Ends at which _folded has run, and at which it never did.
Folded == {"ended", "failed", "closed", "cancelled"}
Unfolded == {"absent", "refused", "unannounced", "unused"}

\* Streams the application asks for: those of the session.
StreamsInit(asked) ==
    /\ stream = [s \in Streams |-> IF s \in asked THEN "new" ELSE "absent"]
    /\ thread = [s \in Streams |-> "idle"]
    /\ queue = [s \in Streams |-> <<>>]
    /\ lines = [s \in Streams |-> 0]
    /\ reported = [s \in Streams |-> FALSE]
    /\ yielded = [s \in Streams |-> 0]
    /\ local = [s \in Streams |-> NoUsage]
    /\ unwinding = [s \in Streams |-> "none"]

At(s, state) == stream' = [stream EXCEPT ![s] = state]
-----------------------------------------------------------------------------
(* checked_stream. *)

\* max_cost is used up: nothing is reserved and nothing is folded.
Refuse(s) ==
    /\ stream[s] = "new"
    /\ At(s, "refused")
    /\ UNCHANGED <<yielded, local, unwinding, threadVars, queue, usage>>

\* The call is reserved and the start event goes out; a trace callback that
\* raises ends it there.  Nothing is sent before the first delta is asked for.
Announce(s) ==
    /\ stream[s] = "new"
    /\ local' = [local EXCEPT ![s].calls = 1]
    /\ At(s, "open") \/ At(s, "unannounced")
    /\ UNCHANGED <<yielded, unwinding, threadVars, queue, usage>>
-----------------------------------------------------------------------------
(* The producer thread. *)

Put(s, item) == queue' = [queue EXCEPT ![s] = Append(@, item)]

Become(s, state) == thread' = [thread EXCEPT ![s] = state]

PutLine(s) ==
    /\ thread[s] = "reading"
    /\ lines[s] < MaxLines
    /\ lines' = [lines EXCEPT ![s] = @ + 1]
    /\ Put(s, "delta") \/ Put(s, "garbled")
    /\ UNCHANGED <<thread, reported, readerVars, usage>>

PutUsageFrame(s) ==
    /\ thread[s] = "reading"
    /\ ~reported[s]
    /\ reported' = [reported EXCEPT ![s] = TRUE]
    /\ Put(s, "usage")
    /\ UNCHANGED <<thread, lines, readerVars, usage>>

\* An HTTP error, a transport error or a timeout.
PutError(s) ==
    /\ thread[s] = "reading"
    /\ Become(s, "broken")
    /\ Put(s, "error")
    /\ UNCHANGED <<lines, reported, readerVars, usage>>

\* Any other exception, of the HTTP client or of decode(), ends the thread.
Crash(s) ==
    /\ thread[s] = "reading"
    /\ Become(s, "crashing")
    /\ UNCHANGED <<lines, reported, queue, readerVars, usage>>

EndOfResponse(s) ==
    /\ thread[s] = "reading"
    /\ Become(s, "complete")
    /\ UNCHANGED <<lines, reported, queue, readerVars, usage>>


\* "finally": the sentinel, however the thread ends.
PutSentinel(s) ==
    /\ \/ thread[s] = "complete" /\ Become(s, "returned")
       \/ thread[s] = "broken" /\ Become(s, "gave up")
       \/ thread[s] = "crashing" /\ Become(s, "raised")
    /\ Put(s, "None")
    /\ UNCHANGED <<lines, reported, readerVars, usage>>

-----------------------------------------------------------------------------
(* The generators, driven by their consumer. *)

\* The next delta is asked for; the first time starts the request.
AskNext(s) ==
    /\ \/ stream[s] = "open" /\ Become(s, "reading")
       \/ stream[s] = "yielded" /\ UNCHANGED thread
    /\ At(s, "waiting")
    /\ UNCHANGED <<lines, reported, yielded, local, unwinding, queue, usage>>

\* _stream_urllib leaves its loop, and awaits the producer in its "finally".
Join(s, exception) ==
    /\ At(s, "joining")
    /\ unwinding' = [unwinding EXCEPT ![s] = exception]

\* Faulty: the fold is the last statement of _folded, not its "finally".
Fold_OnSuccess(s, state) ==
    /\ At(s, state)
    /\ usage' = IF state = "ended" THEN Plus(usage, local'[s]) ELSE usage

\* _folded's "finally": what the stream has cost is added to Kit.usage.
Fold(s, state) ==
    /\ At(s, state)
    /\ usage' = Plus(usage, local'[s])

\* An item of the queue: a delta goes to the consumer; a frame that is no JSON object
\* raises in _stream, which leaves _stream_urllib where it is, so that the stream fails
\* without awaiting the producer.
Get(s) ==
    /\ UNCHANGED <<threadVars, local>>
    /\ stream[s] = "waiting"
    /\ queue[s] # <<>>
    /\ queue' = [queue EXCEPT ![s] = Tail(@)]
    /\ LET item == Head(queue[s]) IN
       \/ /\ item = "delta"
          /\ yielded' = [yielded EXCEPT ![s] = @ + 1]
          /\ At(s, "yielded")
          /\ UNCHANGED <<unwinding, usage>>
       \/ item = "garbled" /\ Fold(s, "failed") /\ UNCHANGED <<yielded, unwinding>>
       \/ item = "usage" /\ UNCHANGED <<stream, yielded, unwinding, usage>>
       \/ item = "error" /\ Join(s, "error") /\ UNCHANGED <<yielded, usage>>
       \/ item = "None" /\ Join(s, "none") /\ UNCHANGED <<yielded, usage>>

\* Faulty: the producer is not awaited.
JoinRaises_Never(s) == unwinding[s] = "error"

\* The stream ends with an exception: the item's, or the thread's own.
JoinRaises(s) == unwinding[s] = "error" \/ thread[s] = "raised"

\* The producer is done.  A stream that was read to its end records the tokens
\* of its usage frame, or fails on one that is no token count; the callback of
\* the end event may raise after that.
Joined(s) ==
    /\ stream[s] = "joining"
    /\ thread[s] \in {"returned", "gave up", "raised"}
    /\ \/ /\ unwinding[s] = "cancelled" /\ ~JoinRaises(s)
          /\ UNCHANGED local
          /\ Fold(s, "cancelled")
       \/ /\ JoinRaises(s)
          /\ UNCHANGED local
          /\ Fold(s, "failed")
       \/ /\ unwinding[s] = "none" /\ ~JoinRaises(s)
          /\ local' = IF reported[s] THEN [local EXCEPT ![s].tokens = 1] ELSE local
          /\ Fold(s, "ended") \/ Fold(s, "failed")
       \/ /\ unwinding[s] = "none" /\ ~JoinRaises(s) /\ reported[s]
          /\ UNCHANGED local
          /\ Fold(s, "failed")
    /\ UNCHANGED <<threadVars, queue, yielded, unwinding>>

\* The consumer is cancelled while it waits for an item, and the producer is
\* awaited all the same; or while it waits for the producer.
CancelReader(s) ==
    /\ UNCHANGED local
    /\ \/ stream[s] = "waiting" /\ Join(s, "cancelled") /\ UNCHANGED usage
       \/ stream[s] = "joining" /\ Fold(s, "cancelled") /\ UNCHANGED unwinding
    /\ UNCHANGED <<threadVars, queue, yielded>>

\* The consumer closes the stream: before its first delta no generator has
\* run; after one, the fold happens now and the thread reads on.
CloseStream(s) ==
    /\ UNCHANGED local
    /\ \/ stream[s] = "open" /\ At(s, "unused") /\ UNCHANGED usage
       \/ stream[s] = "yielded" /\ Fold(s, "closed")
    /\ UNCHANGED <<threadVars, queue, yielded, unwinding>>

ProducerStep(s) ==
    \/ PutLine(s)
    \/ PutUsageFrame(s)
    \/ PutError(s)
    \/ Crash(s)
    \/ EndOfResponse(s)
    \/ PutSentinel(s)

\* What the loop does for a consumer that has asked for the next delta.
ReaderStep(s) == Get(s) \/ Joined(s)

ConsumerStep(s) ==
    \/ Refuse(s)
    \/ Announce(s)
    \/ AskNext(s)
    \/ CancelReader(s)
    \/ CloseStream(s)

StreamStep(s) == ProducerStep(s) \/ ReaderStep(s) \/ ConsumerStep(s)
=============================================================================
