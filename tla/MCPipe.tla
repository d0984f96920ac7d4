------------------------------- MODULE MCPipe -------------------------------
(* TLC instance of Pipe: pipelines and budget, and the answers that structured
   parses. *)
EXTENDS Pipe

CONSTANTS CallLimit, TokenLimit

MCBudget == [llm_calls |-> CallLimit, tokens |-> TokenLimit]

\* Errors of the caller's code: without a cost, and with a large one.
MCOwnCosts == {Zero, [llm_calls |-> 9, tokens |-> 9]}

\* Every step alone, and every step before or after a refine_loop.
MCPipelines ==
    LET Loop == [pattern |-> "refine", capped |-> TRUE] IN
    {<<s>> : s \in StepKinds} \cup {<<s, Loop>> : s \in StepKinds} \cup {<<Loop, s>> : s \in StepKinds}

\* Strings of up to two of these, alone, nested and as a key.
Pieces == {<<"1">>, <<"{">>, <<"]">>, <<"fence">>, <<Backslash, Quote>>, <<Backslash, Backslash>>}
Quoted(inside) == <<Quote>> \o inside \o <<Quote>>
Strings == {Quoted(<<>>)} \cup {Quoted(p) : p \in Pieces} \cup {Quoted(p \o q) : p, q \in Pieces}
Array(value) == <<"[">> \o value \o <<"]">>
Object(key, value) == <<"{">> \o key \o <<":">> \o value \o <<"}">>

MCPayloads ==
    LET Simple == {<<"[", "]">>, <<"{", "}">>} \cup {Array(s) : s \in Strings} IN
    Simple \cup {Array(p) : p \in Simple}
           \cup {Object(Quoted(p), v) : p \in Pieces, v \in {<<"1">>, <<"[", "]">>, Quoted(<<"}">>)}}
           \cup {Array(Quoted(Fence \o <<"[", "1", "]">> \o Fence))}

\* Words, stray closers and quotes, an open fence, and format hints.
MCProse ==
    LET Words == {<<>>, <<"1">>, <<Quote>>, <<"}">>, <<Backslash>>, <<"fence">>, <<"fence", "json">>}
        Hints == {<<"{", "1", "}">>, <<"{">> \o Quoted(<<"{">>) \o <<"}">>, <<"{", "[", "1", "]", "}">>}
    IN  Words \cup {h \o w : h \in Hints, w \in Words}

\* Nothing, strays, a second payload, bare and in a fence, and one that makes the
\* closing fence of the first look like the opening of another.
MCTails ==
    {<<>>, <<"}">>, <<"{", Quote>>, <<"[", "1", "]">>,
     Fence \o <<"[", "]">> \o Fence, <<"json", "[", "]">> \o Fence}
=============================================================================
