----------------------------- MODULE ReactLoop -----------------------------
(***************************************************************************)
(* A conversation held with Kit.turn(): each turn is one react_loop() over *)
(* the session's messages and a new user message.  A round trims (and may  *)
(* summarise) the transcript, calls the provider, and runs the tool calls  *)
(* it asks for concurrently under gather_resilient(), each behind the      *)
(* ApprovalGate, whose callback races its timeout.                         *)
(*                                                                         *)
(* A message is known by its role and place; a "call" message requests     *)
(* `slot' tools, a "tool" message answers request `slot'.  The provider    *)
(* call is the one CheckedCalls models: here it answers or raises.         *)
(* Turns of one session are taken one after the other.                     *)
(***************************************************************************)
EXTENDS Integers, Sequences, FiniteSetsExt

CONSTANTS MaxTurns,       \* bound on the turns of the session
          MaxRounds,      \* max_rounds
          MaxRequests,    \* bound on the tool calls of one response
          MaxCalls,       \* max_tool_calls_per_round
          MaxConcurrency, \* semaphore size of gather_resilient
          MaxHistory,     \* max_history_messages
          Summarizing,    \* a summarizer is given
          Policies        \* the gates to consider: see Gates

Gates == {"none", "blocking", "raise", "approve", "deny"}

ASSUME ReactAssumption ==
    /\ {MaxTurns, MaxRounds, MaxRequests, MaxCalls, MaxConcurrency, MaxHistory} \subseteq Nat \ {0}
    /\ Summarizing \in BOOLEAN
    /\ Policies \subseteq Gates

VARIABLES
    policy,   \* "none", no timeout ("blocking"), or the gate's on_timeout
    session,  \* Kit.messages
    turn,     \* turns begun
    phase,    \* where react_loop is suspended, or how it ended
    round,    \* round_num
    history,  \* the transcript of the turn
    window,   \* the messages kept, and the dropped ones a summary covers
    cache,    \* summary_cache: what each boundary's summary covers
    tool,     \* the tool calls of the round
    answer,   \* what the approval callback said, if it did
    ran,      \* how often each tool call of the round was executed
    made,     \* metadata["tool_calls_made"]
    rejected  \* metadata["rejected_tool_calls"]

loopVars == <<session, turn, round, history, window, cache, made, rejected>>
toolVars == <<tool, answer, ran>>
vars == <<policy, phase, loopVars, toolVars>>

Slots == 1 .. MaxCalls
Over == {"returned", "maxed", "raised"}
Phases == {"top", "summarizing", "calling", "tools", "saving"} \cup Over
Ended == {"observed", "failed", "cancelled"}
ToolStates == {"idle", "queued", "asking", "executing", "ending"} \cup Ended

Message(role, t, r, n) == [role |-> role, turn |-> t, round |-> r, slot |-> n]
Messages == [role : {"user", "system", "call", "tool", "answer"}, turn : 0 .. MaxTurns,
             round : 0 .. MaxRounds, slot : 0 .. MaxRequests]

\* No tool call is under way.
Idle == [state |-> [i \in Slots |-> "idle"],
         said |-> [i \in Slots |-> "none"],
         count |-> [i \in Slots |-> 0]]

Init ==
    /\ policy \in Policies
    /\ session = <<>>
    /\ turn = 0
    /\ phase = "returned"
    /\ round = 0
    /\ history = <<>>
    /\ window = [kept |-> <<>>, covers |-> <<>>]
    /\ cache = {}
    /\ tool = Idle.state
    /\ answer = Idle.said
    /\ ran = Idle.count
    /\ made = 0
    /\ rejected = 0
-----------------------------------------------------------------------------
(* Trimming and summarising. *)

\* The places where a block starts: a call is one block with its results.
BlockStarts(h) == {k \in 2 .. Len(h) : h[k].role # "tool"} \cup {Len(h) + 1}

\* Faulty: the tail may start in the middle of a block.
Cut_Anywhere(h) == Min({k \in 2 .. Len(h) + 1 : Len(h) + 1 - k < MaxHistory})

\* The longest tail of whole blocks that fits behind the first message.
Cut(h) == Min({k \in BlockStarts(h) : Len(h) + 1 - k < MaxHistory})

Trim(h) ==
    IF Len(h) <= MaxHistory THEN h
    ELSE <<h[1]>> \o SubSeq(h, Cut(h), Len(h))

\* Faulty: the boundary is counted from the tail.
Boundary_FromTail(h, kept) == Len(kept) - 1

\* Where the dropped messages end: history[1:boundary] in the code.
Boundary(h, kept) == Len(h) - (Len(kept) - 1)

Dropped(h, kept) == SubSeq(h, 2, Boundary(h, kept))

\* What the provider is sent: a summary goes in behind the first message.
Sent ==
    IF window.covers = <<>> THEN window.kept
    ELSE <<window.kept[1], Message("system", turn, round, 0)>> \o Tail(window.kept)
-----------------------------------------------------------------------------
(* The loop of react_loop. *)

\* Faulty: the user's message is added to the transcript in place.
NextTurn_KeepsFailed ==
    /\ phase \in Over
    /\ turn < MaxTurns
    /\ turn' = turn + 1
    /\ history' = Append(history, Message("user", turn + 1, 0, 0))
    /\ phase' = "top"
    /\ round' = 1
    /\ cache' = {}
    /\ made' = 0
    /\ rejected' = 0
    /\ UNCHANGED <<policy, session, window, toolVars>>

\* Kit.turn: a new loop over the session and the user's message.
NextTurn ==
    /\ phase \in Over
    /\ turn < MaxTurns
    /\ turn' = turn + 1
    /\ history' = Append(session, Message("user", turn + 1, 0, 0))
    /\ phase' = "top"
    /\ round' = 1
    /\ cache' = {}
    /\ made' = 0
    /\ rejected' = 0
    /\ UNCHANGED <<policy, session, window, toolVars>>

Begin(kept, covers, next) ==
    /\ window' = [kept |-> kept, covers |-> covers]
    /\ phase' = next
    /\ UNCHANGED <<policy, session, turn, round, history, cache, made, rejected, toolVars>>

RoundsLeft == round <= MaxRounds

\* The round starts: with the whole transcript, with what trimming keeps, with a
\* summary made in an earlier round, or with one that has to be made.
NextRound ==
    /\ phase = "top"
    /\ RoundsLeft
    /\ LET kept == Trim(history)
           cached == {c \in cache : c.boundary = Boundary(history, kept)} IN
       \/ /\ kept = history \/ ~Summarizing
          /\ Begin(kept, <<>>, "calling")
       \/ /\ kept # history /\ Summarizing
          /\ \E c \in cached : Begin(kept, c.covers, "calling")
       \/ /\ kept # history /\ Summarizing /\ cached = {}
          /\ Begin(kept, <<>>, "summarizing")

Summarized ==
    /\ phase = "summarizing"
    /\ LET covers == Dropped(history, window.kept) IN
       /\ window' = [window EXCEPT !.covers = covers]
       /\ cache' = cache \cup
              {[boundary |-> Boundary(history, window.kept), covers |-> covers]}
    /\ phase' = "calling"
    /\ UNCHANGED <<policy, session, turn, round, history, made, rejected, toolVars>>

\* The final answer: the transcript becomes the session's.
Answered ==
    /\ phase = "calling"
    /\ history' = Append(history, Message("answer", turn, round, 0))
    /\ session' = history'
    /\ phase' = "returned"
    /\ UNCHANGED <<policy, turn, round, window, cache, made, rejected, toolVars>>

\* A response with n tool calls; the first MaxCalls of them are run.
Requested(n) ==
    /\ phase = "calling"
    /\ history' = Append(history, Message("call", turn, round, n))
    /\ tool' = [i \in Slots |-> IF i <= n THEN "queued" ELSE "idle"]
    /\ phase' = "tools"
    /\ UNCHANGED <<policy, session, turn, round, window, cache, made, rejected, answer, ran>>

\* The tasks of a round are over and their state is gone.
Forget ==
    /\ tool' = Idle.state
    /\ answer' = Idle.said
    /\ ran' = Idle.count

\* The provider, the budget, the summarizer or the caller's cancellation ends
\* the turn; the session keeps the messages it had.
Raised ==
    /\ phase \in {"summarizing", "calling", "tools", "saving"}
    /\ phase' = "raised"
    /\ Forget
    /\ UNCHANGED <<policy, loopVars>>

MaxIterations ==
    /\ phase = "top"
    /\ ~RoundsLeft
    /\ phase' = "maxed"
    /\ UNCHANGED <<policy, loopVars, toolVars>>
-----------------------------------------------------------------------------
(* The tool calls of a round: _run_one, the gate and _execute_tool_call. *)

\* Faulty: a call that ended keeps its slot.
Running_Leak == {i \in Slots : tool[i] \notin {"idle", "queued"}}

Running == {i \in Slots : tool[i] \in {"asking", "executing", "ending"}}

Goto(i, state) == phase = "tools" /\ tool' = [tool EXCEPT ![i] = state]

\* The call gets a slot of the semaphore; its start event goes out first.
Start(i) ==
    /\ tool[i] = "queued"
    /\ Cardinality(Running) < MaxConcurrency
    /\ Goto(i, "asking")
    /\ UNCHANGED <<policy, phase, loopVars, answer, ran>>

\* The approval callback answers, perhaps when nobody waits for it any more: a
\* callback in a worker thread is not stopped by the timeout.
Say(i) ==
    /\ phase = "tools"
    /\ policy # "none"
    /\ tool[i] \notin {"idle", "queued"}
    /\ answer[i] = "none"
    /\ \E says \in {"yes", "no"} : answer' = [answer EXCEPT ![i] = says]
    /\ UNCHANGED <<policy, phase, loopVars, tool, ran>>

\* _execute_tool_call: the tool is called, or is unknown, or its arguments are
\* invalid.
Execute(i) ==
    \/ Goto(i, "executing") /\ ran' = [ran EXCEPT ![i] = @ + 1]
    \/ Goto(i, "ending") /\ UNCHANGED ran

Decide(i) ==
    /\ tool[i] = "asking"
    /\ \/ policy = "none" /\ Execute(i)
       \/ answer[i] = "yes" /\ Execute(i)
       \/ answer[i] = "no" /\ Goto(i, "ending") /\ UNCHANGED ran
    /\ UNCHANGED <<policy, phase, loopVars, answer>>

\* Faulty: a request that timed out goes on to its tool unless the gate raises.
Lapse_FailsOpen(i) ==
    /\ tool[i] = "asking"
    /\ \/ policy \in {"approve", "deny"} /\ Execute(i)
       \/ policy = "raise" /\ Goto(i, "failed") /\ UNCHANGED ran
    /\ UNCHANGED <<policy, phase, loopVars, answer>>

\* No answer reached the event loop in time.
Lapse(i) ==
    /\ tool[i] = "asking"
    /\ \/ policy = "approve" /\ Execute(i)
       \/ policy = "deny" /\ Goto(i, "ending") /\ UNCHANGED ran
       \/ policy = "raise" /\ Goto(i, "failed") /\ UNCHANGED ran
    /\ UNCHANGED <<policy, phase, loopVars, answer>>

\* The tool returned, raised or timed out: each becomes an observation; then the
\* end event was delivered.
Progress(i) ==
    /\ \/ tool[i] = "executing" /\ Goto(i, "ending")
       \/ tool[i] = "ending" /\ Goto(i, "observed")
    /\ UNCHANGED <<policy, phase, loopVars, answer, ran>>

\* The approval callback or a trace callback raised: a per-tool failure.
Break(i) ==
    /\ tool[i] \in {"asking", "ending"}
    /\ Goto(i, "failed")
    /\ UNCHANGED <<policy, phase, loopVars, answer, ran>>

\* The tool or a callback ends in a CancelledError of its own.
CancelsItself(i) ==
    /\ tool[i] \in {"asking", "executing", "ending"}
    /\ Goto(i, "cancelled")
    /\ UNCHANGED <<policy, phase, loopVars, answer, ran>>

AllEnded == \A i \in Slots : tool[i] \in {"idle"} \cup Ended
Cancelled == {i \in Slots : tool[i] = "cancelled"}

\* Faulty: a call that failed leaves no message.
Observations_DropFailed(n) ==
    SelectSeq([i \in 1 .. n |-> Message("tool", turn, round, i)],
              LAMBDA m : m.slot \notin Slots \/ tool[m.slot] # "failed")

\* One tool message per request, in request order; a surplus request gets a
\* rejection.
Observations(n) == [i \in 1 .. n |-> Message("tool", turn, round, i)]

\* Faulty: a rejected call counts as made, too.
Gathered_CountsAll ==
    /\ phase = "tools"
    /\ AllEnded
    /\ Cancelled = {}
    /\ LET n == history[Len(history)].slot IN
       /\ history' = history \o Observations(n)
       /\ made' = made + n
       /\ rejected' = rejected + n - Min({n, MaxCalls})
    /\ phase' = "saving"
    /\ Forget
    /\ UNCHANGED <<policy, session, turn, round, window, cache>>

Gathered ==
    /\ phase = "tools"
    /\ AllEnded
    /\ Cancelled = {}
    /\ LET n == history[Len(history)].slot
           run == Min({n, MaxCalls}) IN
       /\ history' = history \o Observations(n)
       /\ made' = made + run
       /\ rejected' = rejected + n - run
    /\ phase' = "saving"
    /\ Forget
    /\ UNCHANGED <<policy, session, turn, round, window, cache>>

\* gather_resilient returned a CancelledError as a value: it is raised again.
Reraised ==
    /\ phase = "tools"
    /\ AllEnded
    /\ Cancelled # {}
    /\ phase' = "raised"
    /\ Forget
    /\ UNCHANGED <<policy, loopVars>>

\* on_checkpoint returned or raised.
Saved ==
    /\ phase = "saving"
    /\ round' = round + 1
    /\ phase' = "top"
    /\ UNCHANGED <<policy, session, turn, history, window, cache, made, rejected, toolVars>>
-----------------------------------------------------------------------------
ToolStep(i) ==
    \/ Start(i)
    \/ Say(i)
    \/ Decide(i)
    \/ Lapse(i)
    \/ Progress(i)
    \/ Break(i)
    \/ CancelsItself(i)

LoopStep ==
    \/ NextRound
    \/ Summarized
    \/ Answered
    \/ \E n \in 1 .. MaxRequests : Requested(n)
    \/ Gathered
    \/ Reraised
    \/ Saved
    \/ MaxIterations

Stopped == phase \in Over /\ UNCHANGED vars

Next ==
    \/ \E i \in Slots : ToolStep(i)
    \/ LoopStep
    \/ Raised
    \/ NextTurn
    \/ Stopped

\* Providers, tools and callbacks come to an end, by a timeout if they have one;
\* nobody has to take another turn, to cancel or to fail.
Fairness ==
    /\ \A i \in Slots : WF_vars(ToolStep(i))
    /\ WF_vars(LoopStep)

Spec == Init /\ [][Next]_vars

FairSpec == Spec /\ Fairness
-----------------------------------------------------------------------------
TypeOK ==
    /\ policy \in Policies
    /\ session \in Seq(Messages)
    /\ turn \in 0 .. MaxTurns
    /\ phase \in Phases
    /\ round \in 0 .. MaxRounds + 1
    /\ history \in Seq(Messages)
    /\ window \in [kept : Seq(Messages), covers : Seq(Messages)]
    /\ cache \subseteq [boundary : Nat, covers : Seq(Messages)]
    /\ tool \in [Slots -> ToolStates]
    /\ answer \in [Slots -> {"none", "yes", "no"}]
    /\ ran \in [Slots -> Nat]
    /\ made \in Nat
    /\ rejected \in Nat

\* Every call in a transcript is followed by one result for each request, in
\* request order, and there are no other results.
Complete(h) ==
    /\ \A k \in DOMAIN h : h[k].role = "call" =>
           \A i \in 1 .. h[k].slot :
               k + i \in DOMAIN h /\ h[k + i] = Message("tool", h[k].turn, h[k].round, i)
    /\ \A k \in DOMAIN h : h[k].role = "tool" =>
           LET c == k - h[k].slot IN
           c \in DOMAIN h /\ h[c].role = "call" /\ h[k].slot <= h[c].slot

\* Whichever tools fail, time out, are refused or surplus, the transcript that is
\* sent on, handed to on_checkpoint or kept in the session answers every request.
TranscriptComplete ==
    /\ Complete(session)
    /\ phase \in {"top", "summarizing", "calling", "saving", "returned"} => Complete(history)

\* What the provider is sent after trimming is a conversation again: the prompt
\* first, a summary between whole blocks, and no more than max_history_messages
\* messages; a summary comes on top of that number, though the docstring bounds
\* the "message history ... before each LLM call" without saying so.
WindowComplete ==
    phase \in {"summarizing", "calling"} =>
        /\ Complete(Sent)
        /\ Sent[1] = history[1]
        /\ Len(Sent) <= IF window.covers = <<>> THEN MaxHistory ELSE MaxHistory + 1

\* A summary, however old, covers exactly the messages missing between the first
\* one and the rest of the window.
SummaryFaithful ==
    phase = "calling" /\ Summarizing =>
        <<window.kept[1]>> \o window.covers \o Tail(window.kept) = history

\* A tool runs once, and only when its request was approved: by the callback, or
\* by the timeout of a gate that approves on timeout.
ApprovalHonoured ==
    \A i \in Slots :
        /\ ran[i] <= 1
        /\ ran[i] = 1 /\ policy \notin {"none", "approve"} => answer[i] = "yes"

\* The counts a result reports are those of its turn's part of the transcript.
CallsAccounted ==
    LET results == {k \in DOMAIN history : history[k].role = "tool" /\ history[k].turn = turn} IN
    /\ made + rejected = Cardinality(results)
    /\ made <= MaxCalls * MaxRounds

\* The session only grows, by whole turns: a turn that fails leaves no trace.
SessionGrows ==
    [][session' # session =>
          /\ Len(session') > Len(session)
          /\ SubSeq(session', 1, Len(session)) = session
          /\ \A k \in Len(session) + 1 .. Len(session') : session'[k].turn = turn
          /\ session'[Len(session) + 1].role = "user"
          /\ session'[Len(session')].role = "answer"]_vars

\* Every turn ends, whatever its tools and their approvals do.
TurnsEnd == <>[](phase \in Over)
=============================================================================
