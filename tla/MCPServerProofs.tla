--------------------------- MODULE MCPServerProofs ---------------------------
(***************************************************************************)
(* For every number of lines and whatever they are: the handshake gate of  *)
(* MCPServer holds, and its replies are those of OrderedReplies.           *)
(***************************************************************************)
EXTENDS MCPServer, SequenceTheorems, TLAPS

\* serve() has a line in hand, or has fallen over it.
Busy == phase \in {"dispatching", "calling", "writing", "choked"}

Phases == {"reading", "dispatching", "calling", "writing", "choked", "over", "cut off", "cancelled"}

Kinds == {"none", "parse error", "invalid request", "not initialized", "result",
          "method not found", "invalid params", "tool error", "internal error"}

Response == [line : Nat, kind : Kinds]

TypeOK ==
    /\ sent \in Seq(Line) /\ Len(sent) <= MaxLines
    /\ taken \in 0 .. Len(sent)
    /\ Busy => taken > 0
    /\ phase \in Phases
    /\ response \in Kinds
    /\ out \in Seq(Response)
    /\ \A i \in DOMAIN out : out[i].line \in 1 .. taken
    /\ initialized \in BOOLEAN
    /\ cached \in BOOLEAN

\* What has been written answers the lines before the one in hand that want a
\* reply, and a reply is prepared only for such a line.
AnsweredInv ==
    /\ ~Stopped =>
           \A n \in 1 .. taken :
               (\E i \in DOMAIN out : out[i].line = n)
                   <=> WantsReply(sent[n]) /\ (Busy => n < taken)
    /\ phase \in {"calling", "writing"} => WantsReply(sent[taken])
    /\ phase = "choked" => sent[taken].form = "undecodable"

Opens(line) == Asks(line) /\ line.method = "initialize"

\* _initialized is set by the initialize requests that have been dispatched.
GateInv ==
    initialized <=>
        \E j \in 1 .. taken : Opens(sent[j]) /\ (phase = "dispatching" => j < taken)

\* Valid and refused when it came before every initialize request.
TooEarly(n) ==
    Asks(sent[n]) /\ Valid(sent[n]) /\ sent[n].method \notin Ungated /\ ~HandshakeBefore(n)

RefusalInv ==
    /\ \A i \in DOMAIN out : out[i].kind = "not initialized" <=> TooEarly(out[i].line)
    /\ phase = "writing" => (response = "not initialized" <=> TooEarly(taken))
    /\ phase = "calling" => HandshakeBefore(taken)

ProviderInv ==
    /\ built = IF cached THEN 1 ELSE 0
    /\ cached => HandshakeBefore(taken)

ServerInv == TypeOK /\ AnsweredInv /\ GateInv /\ RefusalInv /\ ProviderInv
-----------------------------------------------------------------------------
LEMMA InitServerInv == Init => ServerInv
<1> SUFFICES ASSUME Init
             PROVE  ServerInv
  OBVIOUS
<1> USE ServerAssumption DEF ServerAssumption, Init
<1>1. TypeOK
  <2>1. sent \in Seq(Line) /\ out \in Seq(Response)
    OBVIOUS
  <2>2. Len(sent) <= MaxLines /\ taken \in 0 .. Len(sent)
    OBVIOUS
  <2>3. phase \in Phases /\ ~Busy /\ response \in Kinds
    BY DEF Busy, Phases, Kinds
  <2>4. \A i \in DOMAIN out : out[i].line \in 1 .. taken
    OBVIOUS
  <2> QED
    BY <2>1, <2>2, <2>3, <2>4 DEF TypeOK
<1>2. AnsweredInv /\ GateInv /\ RefusalInv /\ ProviderInv
  BY DEF AnsweredInv, GateInv, RefusalInv, ProviderInv
<1> QED
  BY <1>1, <1>2 DEF ServerInv

\* A line the client adds changes nothing about the lines before it.
LEMMA SendInv ==
  ASSUME ServerInv, Send
  PROVE  ServerInv'
<1> USE ServerAssumption DEF ServerAssumption, ServerInv
<1>1. PICK line \in Line : sent' = Append(sent, line)
  BY DEF Send
<1>2. /\ Len(sent') = Len(sent) + 1
      /\ \A n \in 1 .. Len(sent) : sent'[n] = sent[n]
  BY <1>1 DEF TypeOK
<1>3. \A n \in 1 .. taken : sent'[n] = sent[n]
  BY <1>2 DEF TypeOK
<1>4. TypeOK'
  <2>1. sent' \in Seq(Line)
    BY <1>1 DEF TypeOK
  <2>2. Len(sent') <= MaxLines /\ taken' \in 0 .. Len(sent')
    BY <1>2 DEF TypeOK, Send
  <2> QED
    BY <2>1, <2>2 DEF TypeOK, Send, Busy, providerVars
<1>5. AnsweredInv'
  <2>1. \A n \in 1 .. taken : WantsReply(sent[n])' <=> WantsReply(sent[n])
    BY <1>3 DEF WantsReply, Asks
  <2>2. taken > 0 => taken \in 1 .. taken /\ sent'[taken] = sent[taken]
    BY <1>3 DEF TypeOK
  <2> QED
    BY <2>1, <2>2 DEF AnsweredInv, TypeOK, Send, Busy, Stopped
<1>6. \A n \in 1 .. taken : HandshakeBefore(n)' <=> HandshakeBefore(n)
  <2> SUFFICES ASSUME NEW n \in 1 .. taken
               PROVE  HandshakeBefore(n)' <=> HandshakeBefore(n)
    OBVIOUS
  <2>1. \A j \in 1 .. n - 1 : sent'[j] = sent[j]
    BY <1>3 DEF TypeOK
  <2> QED
    BY <2>1 DEF HandshakeBefore, Asks
<1>7. GateInv'
  BY <1>3 DEF GateInv, Opens, Asks, Send
<1>8. RefusalInv'
  <2>1. \A n \in 1 .. taken : TooEarly(n)' <=> TooEarly(n)
    BY <1>3, <1>6 DEF TooEarly, Asks, Valid, Ungated
  <2>2. Busy => taken \in 1 .. taken
    BY DEF TypeOK
  <2>3. \A i \in DOMAIN out : TooEarly(out[i].line)' <=> TooEarly(out[i].line)
    BY <2>1 DEF Send, TypeOK
  <2>4. Busy => (TooEarly(taken)' <=> TooEarly(taken)) /\ (HandshakeBefore(taken)' <=> HandshakeBefore(taken))
    BY <1>6, <2>1, <2>2 DEF Send
  <2> QED
    BY <2>3, <2>4 DEF RefusalInv, Send, Busy
<1>9. ProviderInv'
  BY <1>6 DEF ProviderInv, Send, TypeOK, HandshakeBefore, providerVars
<1> QED
  BY <1>4, <1>5, <1>7, <1>8, <1>9
\* A hang-up, the end of the input and the end of the server.
LEMMA QuietInv ==
  ASSUME ServerInv, Hangup \/ EndOfFile \/ Die \/ UNCHANGED vars
  PROVE  ServerInv'
<1> USE DEF ServerInv
<1>1. /\ UNCHANGED <<sent, taken, response, out, initialized, providerVars>>
      /\ phase' = phase \/ (phase = "reading" /\ phase' = "over") \/ Stopped'
      /\ phase = "dispatching" \/ phase = "choked" => phase' = phase
  BY DEF Hangup, EndOfFile, Die, Stopped, clientVars, vars
<1>2. TypeOK'
  BY <1>1 DEF TypeOK, Busy, Stopped, Phases, providerVars
<1>3. AnsweredInv'
  BY <1>1 DEF AnsweredInv, Busy, Stopped, WantsReply, Asks
<1>4. GateInv'
  BY <1>1 DEF GateInv, Stopped, Opens, Asks
<1>5. RefusalInv' /\ ProviderInv'
  BY <1>1 DEF RefusalInv, Stopped, ProviderInv, TooEarly, HandshakeBefore, Asks, Valid, Ungated, providerVars
<1> QED
  BY <1>2, <1>3, <1>4, <1>5

LEMMA ReadLineInv ==
  ASSUME ServerInv, ReadLine
  PROVE  ServerInv'
<1> USE DEF ServerInv, ReadLine, clientVars, providerVars
<1> DEFINE line == sent[taken + 1]
<1>1. phase' = "dispatching" \/ (phase' = "reading" /\ ~WantsReply(line) /\ ~Opens(line))
  BY DEF WantsReply, Opens, Asks
<1>2. taken \in Nat /\ Len(sent) \in Nat /\ taken' \in 1 .. Len(sent)
  BY DEF TypeOK
<1>3. TypeOK'
  BY <1>1, <1>2 DEF TypeOK, Busy, Phases
<1>4. AnsweredInv'
  <2>1. \A n \in 1 .. taken' : WantsReply(sent[n])' <=> WantsReply(sent[n])
    BY DEF WantsReply, Asks
  <2>2. \A i \in DOMAIN out : out[i].line # taken + 1
    BY <1>2 DEF TypeOK
  <2>3. \A n \in 1 .. taken : (\E i \in DOMAIN out : out[i].line = n) <=> WantsReply(sent[n])
    BY DEF AnsweredInv, Busy, Stopped
  <2> QED
    BY <1>1, <1>2, <2>1, <2>2, <2>3 DEF AnsweredInv, Busy
<1>5. GateInv'
  BY <1>1, <1>2 DEF GateInv, Opens, Asks
<1>6. RefusalInv'
  BY <1>1 DEF RefusalInv, TooEarly, HandshakeBefore, Asks, Valid, Ungated
<1>7. ProviderInv'
  BY <1>2 DEF ProviderInv, HandshakeBefore, Asks
<1> QED
  BY <1>3, <1>4, <1>5, <1>6, <1>7

\* What handle_message makes of the line in hand.
LEMMA DispatchOutcome ==
  ASSUME ServerInv, Dispatch
  PROVE  /\ UNCHANGED <<sent, taken, out>>
         /\ phase' \in {"reading", "calling", "writing", "choked"} /\ response' \in Kinds
         /\ phase' = "choked" => sent[taken].form = "undecodable"
         /\ phase' = "reading" <=> ~WantsReply(sent[taken])
         /\ initialized' <=> initialized \/ Opens(sent[taken])
         /\ phase' = "writing" =>
                (response' = "not initialized" <=> TooEarly(taken))
         /\ phase' = "calling" \/ cached' # cached => initialized
         /\ built' = IF cached' THEN 1 ELSE 0
         /\ cached' \in BOOLEAN /\ (cached => cached')
<1> DEFINE line == sent[taken]
<1>1. initialized <=> HandshakeBefore(taken)
  <2>1. taken \in Nat /\ phase = "dispatching"
    BY DEF ServerInv, TypeOK, Dispatch
  <2>2. \A j : j \in 1 .. taken /\ j < taken <=> j \in 1 .. taken - 1
    BY ONLY <2>1
  <2> QED
    BY <2>1, <2>2 DEF ServerInv, GateInv, HandshakeBefore, Opens
<1>2. /\ built = (IF cached THEN 1 ELSE 0)
      /\ cached \in BOOLEAN /\ initialized \in BOOLEAN /\ response \in Kinds
  BY DEF ServerInv, ProviderInv, TypeOK
<1>3. /\ UNCHANGED <<sent, taken, out>>
      /\ \/ Malformed(line)
         \/ Undecodable(line)
         \/ Notification(line)
         \/ /\ Asks(line) /\ Valid(line)
            /\ Refused(line) \/ Served(line) \/ ToolCall(line) \/ Failed(line)
  BY DEF Dispatch, clientVars
<1> USE DEF Respond, Kinds, providerVars
<1>4. CASE Malformed(line)
  BY <1>2, <1>3, <1>4 DEF Malformed, WantsReply, Asks, Opens, TooEarly, Valid
<1>5. CASE Notification(line)
  BY <1>2, <1>3, <1>5 DEF Notification, WantsReply, Asks, Opens, TooEarly
<1>6. CASE Asks(line) /\ Valid(line) /\ Refused(line)
  BY <1>1, <1>2, <1>3, <1>6 DEF Refused, WantsReply, Opens, TooEarly, Ungated
<1>7. CASE Asks(line) /\ Valid(line) /\ Served(line)
  BY <1>1, <1>2, <1>3, <1>7 DEF Served, WantsReply, Opens, TooEarly, Ungated
<1>8. CASE Asks(line) /\ Valid(line) /\ ToolCall(line)
  <2>1. initialized /\ initialized' /\ line.method = "tools/call"
    BY <1>8 DEF ToolCall
  <2>2. ~TooEarly(taken) /\ WantsReply(line)
    BY <1>1, <1>8, <2>1 DEF TooEarly, WantsReply
  <2>3. /\ cached' \in BOOLEAN /\ (cached => cached')
        /\ built' = IF cached' THEN 1 ELSE 0
    <3>1. UNCHANGED <<cached, built>> \/ (~cached /\ cached' = TRUE /\ built' = built + 1)
      BY <1>8 DEF ToolCall, Provided
    <3>2. CASE UNCHANGED <<cached, built>>
      <4>1. cached' = cached /\ built' = built
        BY <3>2
      <4> QED
        BY <1>2, <4>1
    <3>3. CASE ~cached /\ cached' = TRUE /\ built' = built + 1
      <4>1. built = 0
        BY <1>2, <3>3
      <4>2. built' = 1
        BY <3>3, <4>1
      <4> QED
        BY <3>3, <4>2
    <3> QED
      BY <3>1, <3>2, <3>3
  <2>4. \/ phase' = "writing" /\ response' \in {"invalid params", "tool error"}
        \/ phase' = "calling" /\ response' = response
    BY <1>8 DEF ToolCall
  <2> QED
    BY <1>2, <1>3, <2>1, <2>2, <2>3, <2>4
<1>9. CASE Undecodable(line)
  BY <1>2, <1>3, <1>9 DEF Undecodable, WantsReply, Asks, Opens
<1>10. CASE Asks(line) /\ Valid(line) /\ Failed(line)
  BY <1>1, <1>2, <1>3, <1>10 DEF Failed, WantsReply, Opens, TooEarly
<1> QED
  BY <1>3, <1>4, <1>5, <1>6, <1>7, <1>8, <1>9, <1>10

LEMMA DispatchInv ==
  ASSUME ServerInv, Dispatch
  PROVE  ServerInv'
<1>1. phase = "dispatching" /\ taken \in Nat /\ taken > 0
  BY DEF ServerInv, TypeOK, Busy, Dispatch
<1>2. UNCHANGED <<sent, taken, out>>
  BY DispatchOutcome
<1>3. /\ \A n \in 1 .. taken : WantsReply(sent[n])' <=> WantsReply(sent[n])
      /\ HandshakeBefore(taken)' <=> HandshakeBefore(taken)
      /\ \A n : TooEarly(n)' <=> TooEarly(n)
  BY <1>2 DEF WantsReply, HandshakeBefore, TooEarly, Asks, Valid, Ungated
<1>4. TypeOK'
  <2>1. initialized' \in BOOLEAN
    BY DEF Dispatch, Malformed, Undecodable, Notification, Refused, Served, ToolCall, Failed,
           ServerInv, TypeOK
  <2> QED
    BY <1>1, <2>1, DispatchOutcome DEF ServerInv, TypeOK, Busy, Phases
<1>5. AnsweredInv'
  <2>1. \A n \in 1 .. taken :
           (\E i \in DOMAIN out : out[i].line = n) <=> WantsReply(sent[n]) /\ n < taken
    BY <1>1 DEF ServerInv, AnsweredInv, Busy, Stopped
  <2>2. /\ phase' \in {"reading", "calling", "writing", "choked"}
        /\ phase' = "choked" => sent[taken].form = "undecodable"
    BY DispatchOutcome
  <2>3. phase' = "reading" <=> ~WantsReply(sent[taken])
    BY DispatchOutcome
  <2>4. \A n \in 1 .. taken : n < taken \/ n = taken
    BY <1>1
  <2> QED
    BY <1>1, <1>2, <1>3, <2>1, <2>2, <2>3, <2>4 DEF AnsweredInv, Busy
<1>6. GateInv'
  <2>1. initialized <=> \E j \in 1 .. taken : Opens(sent[j]) /\ j < taken
    BY <1>1 DEF ServerInv, GateInv
  <2>2. initialized' <=> initialized \/ Opens(sent[taken])
    BY DispatchOutcome
  <2>3. \A j \in 1 .. taken : j < taken \/ j = taken
    BY <1>1
  <2>4. initialized' <=> \E j \in 1 .. taken : Opens(sent[j])
    BY <1>1, <2>1, <2>2, <2>3
  <2>5. phase' # "dispatching"
    BY DispatchOutcome
  <2> QED
    BY <1>2, <2>4, <2>5 DEF GateInv, Opens, Asks
<1>7. initialized => HandshakeBefore(taken)
  <2>1. \A j \in 1 .. taken : j < taken => j \in 1 .. taken - 1
    BY <1>1
  <2> QED
    BY <1>1, <2>1 DEF ServerInv, GateInv, HandshakeBefore, Opens
<1>8. RefusalInv'
  <2>1. \A i \in DOMAIN out : out[i].kind = "not initialized" <=> TooEarly(out[i].line)
    BY DEF ServerInv, RefusalInv
  <2>2. phase' = "writing" => (response' = "not initialized" <=> TooEarly(taken))
    BY DispatchOutcome
  <2>3. phase' = "calling" => HandshakeBefore(taken)
    BY <1>7, DispatchOutcome
  <2> QED
    BY <1>2, <1>3, <2>1, <2>2, <2>3 DEF RefusalInv
<1>9. ProviderInv'
  <2>1. cached' => HandshakeBefore(taken)
    BY <1>7, DispatchOutcome DEF ServerInv, ProviderInv
  <2> QED
    BY <1>2, <1>3, <2>1, DispatchOutcome DEF ProviderInv
<1> QED
  BY <1>4, <1>5, <1>6, <1>8, <1>9 DEF ServerInv

LEMMA ToolReturnsInv ==
  ASSUME ServerInv, ToolReturns
  PROVE  ServerInv'
<1> USE DEF ToolReturns, Respond, clientVars, providerVars
<1>1. TypeOK'
  BY DEF ServerInv, TypeOK, Busy, Phases, Kinds
<1>2. AnsweredInv' /\ GateInv' /\ ProviderInv'
  BY DEF ServerInv, AnsweredInv, GateInv, ProviderInv, Busy, Stopped, WantsReply, Opens, Asks,
         HandshakeBefore
<1>3. ~TooEarly(taken)' /\ response' # "not initialized"
  BY DEF ServerInv, RefusalInv, TooEarly, HandshakeBefore, Asks
<1>4. RefusalInv'
  BY <1>3 DEF ServerInv, RefusalInv, TooEarly, HandshakeBefore, Asks, Valid, Ungated
<1> QED
  BY <1>1, <1>2, <1>4 DEF ServerInv

LEMMA WriteInv ==
  ASSUME ServerInv, Write
  PROVE  ServerInv'
<1> DEFINE reply == [line |-> taken, kind |-> response]
<1>1. /\ phase = "writing" /\ phase' = "reading"
      /\ UNCHANGED <<sent, taken, response, initialized, cached, built>>
      /\ out' = Append(out, reply)
  BY DEF Write, clientVars, providerVars
<1>2. taken \in Nat /\ taken > 0 /\ out \in Seq(Response) /\ reply \in Response
  BY <1>1 DEF ServerInv, TypeOK, Busy, Response
<1>3. /\ out' \in Seq(Response)
      /\ Len(out') = Len(out) + 1 /\ Len(out) \in Nat
      /\ \A i \in DOMAIN out : i \in DOMAIN out' /\ out'[i] = out[i]
      /\ \A i \in DOMAIN out' : i \in DOMAIN out \/ (i = Len(out) + 1 /\ out'[i] = reply)
      /\ Len(out) + 1 \in DOMAIN out' /\ out'[Len(out) + 1] = reply
  BY <1>1, <1>2
<1>4. /\ \A n : WantsReply(sent[n])' <=> WantsReply(sent[n])
      /\ \A n : HandshakeBefore(n)' <=> HandshakeBefore(n)
      /\ \A n : TooEarly(n)' <=> TooEarly(n)
  BY <1>1 DEF WantsReply, HandshakeBefore, TooEarly, Asks, Valid, Ungated
<1>5. TypeOK'
  <2>1. \A i \in DOMAIN out' : out'[i].line \in 1 .. taken
    BY <1>2, <1>3 DEF ServerInv, TypeOK
  <2> QED
    BY <1>1, <1>3, <2>1 DEF ServerInv, TypeOK, Busy, Phases
<1>6. AnsweredInv'
  <2>1. \A n \in 1 .. taken :
           (\E i \in DOMAIN out : out[i].line = n) <=> WantsReply(sent[n]) /\ n < taken
    BY <1>1 DEF ServerInv, AnsweredInv, Busy, Stopped
  <2>2. WantsReply(sent[taken])
    BY <1>1 DEF ServerInv, AnsweredInv
  <2>3. \A n \in 1 .. taken :
           (\E i \in DOMAIN out' : out'[i].line = n) <=> WantsReply(sent[n])
    <3> SUFFICES ASSUME NEW n \in 1 .. taken
                 PROVE  (\E i \in DOMAIN out' : out'[i].line = n) <=> WantsReply(sent[n])
      OBVIOUS
    <3>1. CASE n = taken
      BY <1>3, <2>2, <3>1
    <3>2. CASE n < taken
      <4>1. (\E i \in DOMAIN out' : out'[i].line = n) <=> \E i \in DOMAIN out : out[i].line = n
        BY <1>2, <1>3, <3>2
      <4> QED
        BY <2>1, <3>2, <4>1
    <3> QED
      BY <1>2, <3>1, <3>2
  <2> QED
    BY <1>1, <1>4, <2>3 DEF AnsweredInv, Busy
<1>7. GateInv' /\ ProviderInv'
  BY <1>1, <1>4 DEF ServerInv, GateInv, ProviderInv, Opens, Asks
<1>8. RefusalInv'
  <2>1. \A i \in DOMAIN out' : out'[i].kind = "not initialized" <=> TooEarly(out'[i].line)
    <3>1. \A i \in DOMAIN out : out[i].kind = "not initialized" <=> TooEarly(out[i].line)
      BY DEF ServerInv, RefusalInv
    <3>2. reply.kind = "not initialized" <=> TooEarly(reply.line)
      BY <1>1 DEF ServerInv, RefusalInv
    <3> HIDE DEF reply
    <3> QED
      BY <1>3, <3>1, <3>2
  <2> QED
    BY <1>1, <1>4, <2>1 DEF RefusalInv
<1> QED
  BY <1>5, <1>6, <1>7, <1>8 DEF ServerInv

LEMMA StepInv == ServerInv /\ [Next]_vars => ServerInv'
BY SendInv, QuietInv, ReadLineInv, DispatchInv, ToolReturnsInv, WriteInv DEF Next, ServerStep

LEMMA Invariant == Spec => []ServerInv
BY InitServerInv, StepInv, PTL DEF Spec
-----------------------------------------------------------------------------
\* The variables of the server keep their types; it has a line in hand only
\* after it has read one, and writes only about lines it has read.
THEOREM TypeCorrect == Spec => []TypeOK
<1>1. ServerInv => TypeOK
  BY DEF ServerInv
<1> QED
  BY <1>1, Invariant, PTL

\* The handshake gate, and the one provider the default factory builds.
THEOREM Gate == Spec => []GateHolds
<1>1. ServerInv => GateHolds
  <2> SUFFICES ASSUME ServerInv
               PROVE  GateHolds
    OBVIOUS
  <2>1. \A i \in DOMAIN out : out[i].kind = "not initialized" <=> TooEarly(out[i].line)
    BY DEF ServerInv, RefusalInv
  <2>2. built <= 1 /\ (built > 0 => HandshakeBefore(taken))
    BY DEF ServerInv, ProviderInv
  <2> QED
    BY <2>1, <2>2 DEF GateHolds, TooEarly
<1> QED
  BY <1>1, Invariant, PTL
-----------------------------------------------------------------------------
(* MCPServer implements OrderedReplies. *)

\* The lines that want a reply and have none are those from the line in hand on.
LEMMA PendingLines ==
  ASSUME ServerInv, ~Stopped
  PROVE  Replies!Pending =
             {n \in DOMAIN sent : WantsReply(sent[n]) /\ (n > taken \/ (Busy /\ n = taken))}
<1> DEFINE written(n) == \E i \in DOMAIN out : out[i].line = n
<1>1. /\ taken \in 0 .. Len(sent) /\ Len(sent) \in Nat /\ DOMAIN sent = 1 .. Len(sent)
      /\ \A i \in DOMAIN out : out[i].line \in 1 .. taken
  BY DEF ServerInv, TypeOK
<1>2. \A n \in 1 .. taken : written(n) <=> WantsReply(sent[n]) /\ (Busy => n < taken)
  BY DEF ServerInv, AnsweredInv
<1>3. \A n \in DOMAIN sent : n \in 1 .. taken \/ (n > taken /\ ~written(n))
  BY <1>1
<1>4. \A n \in 1 .. taken : n < taken \/ n = taken
  BY <1>1
<1>5. \A n \in 1 .. taken : ~(n > taken)
  BY <1>1
<1> HIDE DEF written
<1>6. \A n \in DOMAIN sent :
         WantsReply(sent[n]) /\ ~written(n)
             <=> WantsReply(sent[n]) /\ (n > taken \/ (Busy /\ n = taken))
  BY <1>1, <1>2, <1>3, <1>4, <1>5
<1>7. Replies!Pending = {n \in DOMAIN sent : WantsReply(sent[n]) /\ ~written(n)}
  BY DEF Replies!Pending, written
<1> QED
  BY <1>6, <1>7

LEMMA InitReplies == Init => Replies!Init
BY DEF Init, Replies!Init

LEMMA SendAsks ==
  ASSUME ServerInv, Send
  PROVE  [Replies!Next]_(Replies!repliesVars)
<1> DEFINE asked == {n \in DOMAIN sent : WantsReply(sent[n])}
           new == Len(sent) + 1
<1>1. PICK line \in Line : sent' = Append(sent, line)
  BY DEF Send
<1>2. /\ Len(sent) \in Nat /\ new \in 1 .. MaxLines
      /\ DOMAIN sent = 1 .. Len(sent) /\ DOMAIN sent' = 1 .. new
      /\ \A n \in 1 .. Len(sent) : sent'[n] = sent[n]
  BY <1>1, ServerAssumption DEF ServerInv, TypeOK, Send, ServerAssumption
<1>3. \A n \in 1 .. new : n \in 1 .. Len(sent) \/ n = new
  BY <1>2
<1>4. \A n \in DOMAIN sent : WantsReply(sent[n])' <=> WantsReply(sent[n])
  BY <1>2 DEF WantsReply, Asks
<1>5. \A n \in asked : n < new
  BY <1>2
<1>6. UNCHANGED [i \in DOMAIN out |-> out[i].line]
  BY DEF Send
<1>7. asked' = asked \/ asked' = asked \cup {new}
  BY <1>2, <1>3, <1>4
<1>8. CASE asked' = asked
  BY <1>6, <1>8 DEF Replies!repliesVars
<1>9. CASE asked' = asked \cup {new}
  <2>1. Replies!Ask
    BY <1>2, <1>5, <1>6, <1>9 DEF Replies!Ask
  <2> QED
    BY <2>1 DEF Replies!Next
<1> QED
  BY <1>7, <1>8, <1>9

LEMMA WriteReplies ==
  ASSUME ServerInv, Write
  PROVE  Replies!Reply
<1> DEFINE answered == [i \in DOMAIN out |-> out[i].line]
<1>1. /\ phase = "writing" /\ sent' = sent
      /\ out' = Append(out, [line |-> taken, kind |-> response])
  BY DEF Write, clientVars
<1>2. /\ out \in Seq(Response) /\ taken \in DOMAIN sent
      /\ WantsReply(sent[taken]) /\ Busy
      /\ DOMAIN sent = 1 .. Len(sent) /\ Len(sent) \in Nat
  BY <1>1 DEF ServerInv, TypeOK, AnsweredInv, Busy
<1>3. taken \in Replies!Pending /\ \A other \in Replies!Pending : taken <= other
  BY <1>1, <1>2, PendingLines DEF Stopped
<1>4. answered' = Append(answered, taken)
  <2>1. /\ Len(out) \in Nat /\ DOMAIN out = 1 .. Len(out)
        /\ out \in [1 .. Len(out) -> Response]
    BY <1>2, LenProperties
  <2>2. answered \in [1 .. Len(out) -> Nat]
    BY <2>1 DEF Response
  <2>3. answered \in Seq(Nat) /\ Len(answered) = Len(out)
    BY <2>1, <2>2, SeqDef
  <2>4. /\ DOMAIN out' = 1 .. Len(out) + 1
        /\ \A i \in 1 .. Len(out) + 1 :
              out'[i].line = IF i = Len(out) + 1 THEN taken ELSE out[i].line
    BY <1>1, <1>2, <2>1
  <2>5. taken \in Nat
    BY <1>2
  <2> DEFINE written == Append(answered, taken)
  <2> HIDE DEF answered
  <2>6. written \in [1 .. Len(out) + 1 -> Nat]
    <3>1. written \in Seq(Nat) /\ Len(written) = Len(out) + 1
      BY <2>1, <2>3, <2>5
    <3> QED
      BY <3>1, LenProperties
  <2>7. \A i \in 1 .. Len(out) + 1 :
           written[i] = IF i = Len(out) + 1 THEN taken ELSE answered[i]
    BY <2>1, <2>3, <2>5
  <2>8. answered' = [i \in 1 .. Len(out) + 1 |-> out'[i].line]
    BY <2>4 DEF answered
  <2>9. \A i \in 1 .. Len(out) : answered[i] = out[i].line
    BY <2>1 DEF answered
  <2>10. \A i \in 1 .. Len(out) + 1 : written[i] = out'[i].line
    <3>1. \A i \in 1 .. Len(out) + 1 : i \in 1 .. Len(out) \/ i = Len(out) + 1
      BY <2>1
    <3> HIDE DEF written
    <3> QED
      BY <2>4, <2>7, <2>9, <3>1
  <2> HIDE DEF written
  <2>11. answered' = written
    BY <2>6, <2>8, <2>10
  <2> QED
    BY <2>11 DEF written
<1>5. UNCHANGED {n \in DOMAIN sent : WantsReply(sent[n])}
  BY <1>1 DEF WantsReply, Asks
<1> QED
  BY <1>3, <1>4, <1>5 DEF Replies!Reply

LEMMA NextReplies ==
  ASSUME ServerInv, [Next]_vars
  PROVE  [Replies!Next]_(Replies!repliesVars)
<1>1. CASE Write
  BY <1>1, WriteReplies DEF Replies!Next
<1>2. CASE UNCHANGED <<sent, out>>
  BY <1>2 DEF Replies!repliesVars, WantsReply, Asks
<1>3. Send \/ Write \/ UNCHANGED <<sent, out>>
  BY DEF Next, ServerStep, Hangup, ReadLine, EndOfFile, Dispatch, ToolReturns, Die, clientVars, vars
<1> QED
  BY <1>1, <1>2, <1>3, SendAsks

\* However far the client runs ahead: each line that wants a reply gets one, in
\* the order of the lines, and nothing else is written.
THEOREM OrderKept == Spec => RepliesInOrder
BY InitReplies, NextReplies, Invariant, PTL DEF Spec, RepliesInOrder, Replies!Spec
-----------------------------------------------------------------------------
(* Progress. *)

\* How far serve() has come: four steps for a line, the last of which is to be
\* back at reading.
Position ==
    4 * taken - (CASE phase = "dispatching" -> 4
                   [] phase = "calling" -> 3
                   [] phase = "writing" -> 2
                   [] phase = "reading" -> 1
                   [] OTHER -> 0)

\* The guard of ServerStep.
MayServe ==
    \/ phase = "reading" /\ (taken < Len(sent) \/ closed)
    \/ phase \in {"dispatching", "calling", "writing"}

Replied(n) == \E i \in DOMAIN out : out[i].line = n

\* The loop ends only at the end of the input.
EndInv == phase = "over" => closed /\ taken = Len(sent)

LEMMA DispatchMoves ==
  ASSUME Dispatch
  PROVE  /\ phase = "dispatching" /\ phase' \in {"reading", "calling", "writing", "choked"}
         /\ taken' = taken
BY DEF Dispatch, Malformed, Undecodable, Notification, Refused, Served, ToolCall, Failed, Respond

LEMMA EndInvKept == ServerInv /\ EndInv /\ [Next]_vars => EndInv'
<1>1. ASSUME EndInv, Send \/ Hangup \/ UNCHANGED vars
      PROVE  EndInv'
  BY <1>1 DEF Send, Hangup, EndInv, vars, clientVars
<1>2. ASSUME ServerStep \/ Die
      PROVE  EndInv'
  <2>1. CASE EndOfFile
    BY <2>1 DEF EndOfFile, EndInv, clientVars
  <2>2. CASE ReadLine \/ Dispatch \/ ToolReturns \/ Write \/ Die
    BY <2>2, DispatchMoves DEF ReadLine, ToolReturns, Respond, Write, Die, EndInv
  <2>3. QED
    BY <1>2, <2>1, <2>2 DEF ServerStep
<1>3. QED
  BY <1>1, <1>2 DEF Next

LEMMA ServerStepMoves ==
  ASSUME ServerInv, ServerStep
  PROVE  Position' > Position
<1>1. taken \in Nat
  BY DEF ServerInv, TypeOK
<1>2. CASE ReadLine
  <2>1. phase = "reading" /\ phase' \in {"reading", "dispatching"} /\ taken' = taken + 1
    BY <1>2 DEF ReadLine
  <2>2. QED
    BY <1>1, <2>1 DEF Position
<1>3. CASE EndOfFile
  BY <1>1, <1>3 DEF EndOfFile, Position
<1>4. CASE Dispatch
  <2>1. phase = "dispatching" /\ taken' = taken
        /\ phase' \in {"reading", "calling", "writing", "choked"}
    BY <1>4, DispatchMoves
  <2>2. Position = 4 * taken - 4
    BY <2>1 DEF Position
  <2>3. Position' \in {4 * taken - 1, 4 * taken - 3, 4 * taken - 2, 4 * taken}
    BY <1>1, <2>1 DEF Position
  <2>4. QED
    BY <1>1, <2>2, <2>3
<1>5. CASE ToolReturns
  <2>1. phase = "calling" /\ phase' = "writing" /\ taken' = taken
    BY <1>5 DEF ToolReturns, Respond
  <2>2. Position = 4 * taken - 3 /\ Position' = 4 * taken - 2
    BY <2>1 DEF Position
  <2>3. QED
    BY <1>1, <2>2
<1>6. CASE Write
  BY <1>1, <1>6 DEF Write, Position
<1>7. QED
  BY <1>2, <1>3, <1>4, <1>5, <1>6 DEF ServerStep

\* Every step of serve() brings it forward, nothing puts it back, and there is an
\* end: the lines in front of any request are dealt with in a bounded number of steps.
THEOREM BoundedServe ==
  Spec => [](Position \in -1 .. 4 * MaxLines)
          /\ [][Position' >= Position /\ (ServerStep => Position' > Position)]_vars
<1>1. ASSUME ServerInv
      PROVE  Position \in -1 .. 4 * MaxLines
  <2>1. taken \in Nat /\ taken <= MaxLines /\ MaxLines \in Nat /\ (taken > 0 \/ ~Busy)
    BY <1>1, ServerAssumption DEF ServerInv, TypeOK, ServerAssumption
  <2>2. QED
    BY <2>1 DEF Position, Busy
<1>2. ASSUME ServerInv, Next
      PROVE  Position' >= Position /\ (ServerStep => Position' > Position)
  <2>1. taken \in Nat /\ Position \in Int
    <3>1. taken \in Nat
      BY <1>2 DEF ServerInv, TypeOK
    <3>2. QED
      BY <3>1 DEF Position
  <2>2. CASE ServerStep
    <3>1. taken' \in Nat
      BY <1>2, StepInv DEF ServerInv, TypeOK
    <3>2. Position' \in Int
      BY <3>1 DEF Position
    <3>3. Position' > Position
      BY <1>2, <2>2, ServerStepMoves
    <3>4. QED
      BY <2>1, <3>2, <3>3
  <2>3. CASE Send \/ Hangup
    <3>1. Position' = Position
      BY <2>3 DEF Send, Hangup, Position
    <3>2. ~ServerStep \/ Position' > Position
      BY <1>2, ServerStepMoves
    <3>3. QED
      BY <2>1, <3>1, <3>2
  <2>4. CASE Die
    <3>1. Position' >= Position
      <4>1. phase \in {"reading", "calling", "writing"} /\ phase' \in {"cut off", "cancelled"} /\ taken' = taken
        BY <2>4 DEF Die
      <4>2. Position \in {4 * taken - 3, 4 * taken - 2, 4 * taken - 1}
        BY <2>1, <4>1 DEF Position
      <4>3. Position' = 4 * taken
        <5>1. Position' = 4 * taken' - 0
          BY <4>1 DEF Position
        <5>2. taken' = taken /\ taken \in Nat
          BY <2>1, <4>1
        <5>3. QED
          BY ONLY <5>1, <5>2
      <4>4. QED
        BY <2>1, <4>2, <4>3
    <3>2. ~ServerStep \/ Position' > Position
      BY <1>2, ServerStepMoves
    <3>3. QED
      BY <3>1, <3>2
  <2>5. QED
    BY <1>2, <2>2, <2>3, <2>4 DEF Next
<1>3. ServerInv /\ [Next]_vars => [Position' >= Position /\ (ServerStep => Position' > Position)]_vars
  BY <1>2
<1>4. QED
  BY <1>1, <1>3, InitServerInv, StepInv, PTL DEF Spec

\* The safety half of RepliesArrive: a line without the reply it wants is in hand
\* or still to be read, and serve() can go on, unless the stream has broken, a tool
\* was cancelled, or the line or one before it is undecodable.  No reply is skipped,
\* however far the client runs ahead or whenever it hangs up.
THEOREM NoReplyLost ==
  Spec => [](\A n \in 1 .. Len(sent) :
                 WantsReply(sent[n]) /\ ~Blocked(n) /\ ~Replied(n) =>
                     Stopped \/ (taken <= n /\ MayServe))
<1>1. ASSUME ServerInv, EndInv, ~Stopped,
             NEW n \in 1 .. Len(sent), WantsReply(sent[n]), ~Blocked(n), ~Replied(n)
      PROVE  taken <= n /\ MayServe
  <2>1. /\ taken \in Nat /\ Len(sent) \in Nat /\ taken <= Len(sent) /\ phase \in Phases
        /\ Busy => taken > 0
    BY <1>1 DEF ServerInv, TypeOK
  <2>2. n \in 1 .. taken => Busy /\ ~(n < taken)
    BY <1>1 DEF ServerInv, AnsweredInv, Replied
  <2>3. taken <= n
    BY <2>1, <2>2
  <2>4. CASE Busy
    <3>1. taken \in 1 .. n
      BY <2>1, <2>3, <2>4
    <3>2. phase # "choked"
      BY <1>1, <3>1 DEF ServerInv, AnsweredInv, Blocked
    <3>3. QED
      BY <2>3, <2>4, <3>2 DEF Busy, MayServe
  <2>5. CASE ~Busy
    <3>1. taken < n
      BY <2>1, <2>2, <2>5
    <3>2. taken < Len(sent)
      BY <2>1, <3>1
    <3>3. phase # "over"
      BY <1>1, <2>1, <3>2 DEF EndInv
    <3>4. phase = "reading"
      BY <1>1, <2>1, <2>5, <3>3 DEF Phases, Busy, Stopped
    <3>5. QED
      BY <2>3, <3>2, <3>4 DEF MayServe
  <2>6. QED
    BY <2>4, <2>5
<1>2. ServerInv /\ EndInv => \A n \in 1 .. Len(sent) :
                                 WantsReply(sent[n]) /\ ~Blocked(n) /\ ~Replied(n) =>
                                     Stopped \/ (taken <= n /\ MayServe)
  BY <1>1
<1>3. Init => EndInv
  BY DEF Init, EndInv
<1>4. QED
  BY <1>2, <1>3, InitServerInv, StepInv, EndInvKept, PTL DEF Spec
=============================================================================
