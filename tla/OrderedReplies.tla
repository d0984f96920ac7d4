--------------------------- MODULE OrderedReplies ---------------------------
(***************************************************************************)
(* What a client may expect of the MCP server, whatever it does inside:    *)
(* messages that want a reply get exactly one each, in the order in which  *)
(* they were sent, and nothing else is ever written.                       *)
(***************************************************************************)
EXTENDS Naturals, Sequences

CONSTANT Requests   \* the numbers that messages which want a reply may have

VARIABLES asked,      \* those sent so far; a later one has a larger number
          answered    \* those answered, in the order of their replies

repliesVars == <<asked, answered>>

Init == asked = {} /\ answered = <<>>

Ask ==
    /\ \E request \in Requests :
           /\ \A earlier \in asked : earlier < request
           /\ asked' = asked \cup {request}
    /\ UNCHANGED answered

Pending == {request \in asked : \A i \in DOMAIN answered : answered[i] # request}

Reply ==
    /\ \E first \in Pending :
           /\ \A other \in Pending : first <= other
           /\ answered' = Append(answered, first)
    /\ UNCHANGED asked

Next == Ask \/ Reply

Spec == Init /\ [][Next]_repliesVars
=============================================================================
