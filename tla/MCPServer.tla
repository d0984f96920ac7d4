----------------------------- MODULE MCPServer -----------------------------
(***************************************************************************)
(* The MCP server on stdio: serve(), which reads a line, dispatches it and *)
(* writes the response before it reads the next, while the client writes   *)
(* lines whenever it likes.                                                *)
(*                                                                         *)
(* Of a line only its form counts, whether it has an id, and its method;   *)
(* the arguments of a tool and what it answers are left open.              *)
(***************************************************************************)
EXTENDS Naturals, Sequences

CONSTANT MaxLines   \* lines the client writes

ASSUME ServerAssumption == MaxLines \in Nat

\* A message is malformed with a wrong version, or a method that is no string.
Methods == {"initialize", "ping", "tools/list", "tools/call"}

VARIABLES
    sent,          \* the lines the client has written
    closed,        \* it has closed its end: EOF after the last line
    taken,         \* lines serve() has read
    phase,         \* where serve() is
    response,      \* what it is about to write
    out,           \* what it has written
    initialized,   \* _initialized
    memoized,      \* the default provider factory is used, not an injected one
    cached,        \* _memoize_provider's cached provider is there
    built          \* providers the default factory has built

clientVars == <<sent, closed>>
providerVars == <<memoized, cached, built>>
vars == <<clientVars, taken, phase, response, out, initialized, providerVars>>

\* A blank line; text that is no JSON; text on which json.loads raises anything but
\* a JSONDecodeError (too deep a nesting, an integer of too many digits); JSON that
\* is no object; and messages.
Forms == {"blank", "garbage", "undecodable", "scalar", "message"}

Line == [form : Forms \ {"message"}]
    \cup [form : {"message"}, id : BOOLEAN, method : Methods \cup {"other", "malformed"}]

Init ==
    /\ sent = <<>>
    /\ closed = FALSE
    /\ taken = 0
    /\ phase = "reading"
    /\ response = "none"
    /\ out = <<>>
    /\ initialized = FALSE
    /\ memoized \in BOOLEAN
    /\ cached = FALSE
    /\ built = 0
-----------------------------------------------------------------------------
(* The client. *)

Send ==
    /\ ~closed
    /\ Len(sent) < MaxLines
    /\ \E line \in Line : sent' = Append(sent, line)
    /\ UNCHANGED <<closed, taken, phase, response, out, initialized, providerVars>>

Hangup ==
    /\ ~closed
    /\ closed' = TRUE
    /\ UNCHANGED <<sent, taken, phase, response, out, initialized, providerVars>>
-----------------------------------------------------------------------------
(* serve. *)

ReadLine ==
    /\ phase = "reading"
    /\ taken < Len(sent)
    /\ taken' = taken + 1
    /\ phase' = IF sent[taken + 1].form = "blank" THEN "reading" ELSE "dispatching"
    /\ UNCHANGED <<clientVars, response, out, initialized, providerVars>>

EndOfFile ==
    /\ phase = "reading"
    /\ closed /\ taken = Len(sent)
    /\ phase' = "over"
    /\ UNCHANGED <<clientVars, taken, response, out, initialized, providerVars>>

Respond(kind) == phase' = "writing" /\ response' = kind

Asks(line) == line.form = "message" /\ line.id

Valid(line) == line.method # "malformed"

\* Faulty: a line that is no JSON is passed over like a blank one.
Malformed_Skipped(line) ==
    /\ \/ line.form = "garbage" /\ phase' = "reading" /\ UNCHANGED response
       \/ line.form = "scalar" /\ Respond("invalid request")
       \/ Asks(line) /\ ~Valid(line) /\ Respond("invalid request")
    /\ UNCHANGED <<initialized, providerVars>>

\* What is no request in the sense of JSON-RPC is answered with an error.
Malformed(line) ==
    /\ \/ line.form = "garbage" /\ Respond("parse error")
       \/ line.form = "scalar" /\ Respond("invalid request")
       \/ Asks(line) /\ ~Valid(line) /\ Respond("invalid request")
    /\ UNCHANGED <<initialized, providerVars>>

\* Faulty: an initialize notification opens the gate.
Notification_Acts(line) ==
    /\ line.form = "message" /\ ~line.id
    /\ phase' = "reading"
    /\ initialized' = (initialized \/ line.method = "initialize")
    /\ UNCHANGED <<response, providerVars>>

\* Faulty: a malformed notification is answered.
Notification_Complains(line) ==
    /\ line.form = "message" /\ ~line.id
    /\ \/ Valid(line) /\ phase' = "reading" /\ UNCHANGED response
       \/ ~Valid(line) /\ Respond("invalid request")
    /\ UNCHANGED <<initialized, providerVars>>

\* Notifications, malformed ones too, change nothing and are not answered.
Notification(line) ==
    /\ line.form = "message" /\ ~line.id
    /\ phase' = "reading"
    /\ UNCHANGED <<response, initialized, providerVars>>

Ungated == {"initialize", "ping"}

Refused(line) ==
    /\ ~initialized
    /\ line.method \notin Ungated
    /\ Respond("not initialized")
    /\ UNCHANGED <<initialized, providerVars>>

\* The methods that need no tool.
Served(line) ==
    /\ initialized \/ line.method \in Ungated
    /\ line.method # "tools/call"
    /\ Respond(IF line.method \in Methods THEN "result" ELSE "method not found")
    /\ initialized' = (initialized \/ line.method = "initialize")
    /\ UNCHANGED providerVars

\* The default factory: None without its environment variables, a provider with
\* them, the first of which _memoize_provider keeps.  An injected factory builds nothing
\* the server is answerable for.
Provided ==
    \/ ~memoized /\ UNCHANGED providerVars
    \/ cached /\ UNCHANGED providerVars
    \/ /\ memoized /\ ~cached
       /\ built' = built + 1
       /\ cached' = TRUE
       /\ UNCHANGED memoized

\* tools/call, up to its first await: bad parameters, an unknown tool, no
\* provider and bad arguments are answered at once.
ToolCall(line) ==
    /\ initialized
    /\ line.method = "tools/call"
    /\ UNCHANGED initialized
    /\ \/ Respond("invalid params") /\ UNCHANGED providerVars
       \/ ~cached /\ Respond("tool error") /\ UNCHANGED providerVars
       \/ Provided /\ Respond("tool error")
       \/ Provided /\ phase' = "calling" /\ UNCHANGED response

\* _process_line catches what json.loads raises only if it is a JSONDecodeError:
\* any other exception ends serve().
Undecodable(line) ==
    /\ line.form = "undecodable"
    /\ phase' = "choked"
    /\ UNCHANGED <<response, initialized, providerVars>>

\* An Exception out of the dispatch of a request past the gate, which is where the
\* code that a tool's own handlers do not guard is: _process_line still answers.
Failed(line) ==
    /\ initialized
    /\ line.method \in {"tools/list", "tools/call"}
    /\ Respond("internal error")
    /\ UNCHANGED <<initialized, providerVars>>

\* _process_line with handle_message.
Dispatch ==
    /\ phase = "dispatching"
    /\ LET line == sent[taken] IN
       \/ Malformed(line)
       \/ Undecodable(line)
       \/ Notification(line)
       \/ /\ Asks(line) /\ Valid(line)
          /\ Refused(line) \/ Served(line) \/ ToolCall(line) \/ Failed(line)
    /\ UNCHANGED <<clientVars, taken, out>>

\* The handler returns its text, or raises an Exception of any kind.
ToolReturns ==
    /\ phase = "calling"
    /\ Respond("result") \/ Respond("tool error")
    /\ UNCHANGED <<clientVars, taken, out, initialized, providerVars>>

\* The response is written and flushed before the next line is read.
Write ==
    /\ phase = "writing"
    /\ out' = Append(out, [line |-> taken, kind |-> response])
    /\ phase' = "reading"
    /\ UNCHANGED <<clientVars, taken, response, initialized, providerVars>>

\* The stream breaks, on bytes that are not UTF-8 or a closed pipe, or a tool raises
\* a CancelledError, which is no Exception: serve() catches neither and ends.
Die ==
    /\ \/ phase \in {"reading", "writing"} /\ phase' = "cut off"
       \/ phase = "calling" /\ phase' = "cancelled"
    /\ UNCHANGED <<clientVars, taken, response, out, initialized, providerVars>>

ServerStep == ReadLine \/ EndOfFile \/ Dispatch \/ ToolReturns \/ Write

Next == Send \/ Hangup \/ ServerStep \/ Die

\* Tools end, for their provider calls do, and the client reads what is written.
Spec == Init /\ [][Next]_vars /\ WF_vars(ServerStep)
-----------------------------------------------------------------------------
\* Errors without an id answer what could not be read as a message.
WantsReply(line) == line.form \in {"garbage", "undecodable", "scalar"} \/ Asks(line)

Replies == INSTANCE OrderedReplies WITH
    Requests <- 1 .. MaxLines,
    asked <- {n \in DOMAIN sent : WantsReply(sent[n])},
    answered <- [i \in DOMAIN out |-> out[i].line]

\* handle_message and serve: one reply for each line that wants one, in the
\* order of the lines, however far the client has run ahead, and none for a
\* notification or a blank line.
RepliesInOrder == Replies!Spec

\* The client has sent an initialize request before its n-th line.
HandshakeBefore(n) ==
    \E j \in 1 .. n - 1 : Asks(sent[j]) /\ sent[j].method = "initialize"

\* The handshake gate: of the valid requests for anything but initialize and
\* ping, those that come before an initialize request, and only those, are
\* refused; a notification does not open the gate.  Until then no provider is
\* built, and after that the default factory builds at most one.
GateHolds ==
    /\ \A i \in DOMAIN out :
           LET line == sent[out[i].line]
           IN  out[i].kind = "not initialized" <=>
                   /\ Asks(line) /\ Valid(line)
                   /\ line.method \notin Ungated
                   /\ ~HandshakeBefore(out[i].line)
    /\ built > 0 => HandshakeBefore(taken)
    /\ built <= 1

\* The stream has broken or a tool was cancelled.
Stopped == phase \in {"cut off", "cancelled"}

\* It, or a line before it, is one that json.loads gives up on: the reply it wants
\* does not come, although serve() is documented to answer a line that is not valid
\* JSON with a parse error "rather than terminating the loop".
Blocked(n) == \E j \in 1 .. n : sent[j].form = "undecodable"

\* Whatever a tool, a handler or a line of no sense does, a line that wants a reply
\* gets it, also after the client has hung up; only a broken stream, a cancelled tool
\* and, against serve()'s documentation, an undecodable line keep it from its reply.
RepliesArrive ==
    \A n \in 1 .. MaxLines :
        n <= Len(sent) /\ WantsReply(sent[n]) /\ ~Blocked(n) ~>
            Stopped \/ \E i \in DOMAIN out : out[i].line = n
=============================================================================
