--------------------------- MODULE JsonExtraction ---------------------------
(***************************************************************************)
(* extract_json(): the JSON object or array in a model's answer, from the  *)
(* whole answer, a code fence, or the first balanced block that parses.    *)
(*                                                                         *)
(* A text is a sequence of tokens: brackets, a quote, a backslash, a       *)
(* colon, a fence, the word json, and "1" for any other character.  White  *)
(* space is left out, and so are commas: a container has one element at    *)
(* most.  The result is the piece of the text that parses; <<>> is         *)
(* ValueError.                                                             *)
(***************************************************************************)
EXTENDS Integers, FiniteSets, Sequences

CONSTANTS Payloads,   \* objects and arrays in their JSON form
          Prose,      \* what a model writes before its answer
          Tails       \* what it writes after it

Quote == "\""
Backslash == "\\"
Openers == {"{", "["}
Closers == {"}", "]"}
Fence == <<"fence">>
JsonFence == <<"fence", "json">>
Texts == Seq(Openers \cup Closers \cup {Quote, Backslash, ":", "fence", "json", "1"})

\* The first of the places, 0 if there is none.
Earliest(places) ==
    IF places = {} THEN 0 ELSE CHOOSE i \in places : \A j \in places : i <= j

\* str.find
find(text, mark, start) ==
    Earliest({i \in start .. Len(text) + 1 - Len(mark) :
                 \A k \in 1 .. Len(mark) : text[i + k - 1] = mark[k]})

Upto(text, first, end) == SubSeq(text, first, end - 1)
-----------------------------------------------------------------------------
(* json.loads, with a dict or a list for its result. *)

\* The character at i of a string has an odd number of backslashes before it.
Escaped(text, first, i) ==
    Cardinality({k \in first .. i - 1 : \A j \in k .. i - 1 : text[j] = Backslash}) % 2 = 1

IsString(text, i, j) ==
    /\ i < j
    /\ text[i] = Quote /\ text[j] = Quote
    /\ \A k \in i + 1 .. j :
           /\ text[k] = Quote => (Escaped(text, i + 1, k) <=> k < j)
           /\ Escaped(text, i + 1, k) => text[k] \in {Quote, Backslash}

\* value[i][j]: the characters from i to j are a value.
Values(text) ==
    LET value[i \in 1 .. Len(text)] ==
            [j \in 1 .. Len(text) |->
                \/ i = j /\ text[i] = "1"
                \/ IsString(text, i, j)
                \/ /\ i < j /\ text[i] = "[" /\ text[j] = "]"
                   /\ j = i + 1 \/ value[i + 1][j - 1]
                \/ /\ i < j /\ text[i] = "{" /\ text[j] = "}"
                   /\ \/ j = i + 1
                      \/ \E k \in i + 2 .. j - 3 :
                             /\ IsString(text, i + 1, k) /\ text[k + 1] = ":"
                             /\ value[k + 2][j - 1]]
    IN  value

loads(text) == text # <<>> /\ text[1] \in Openers /\ Values(text)[1][Len(text)]
-----------------------------------------------------------------------------
\* The first fenced body that starts like JSON, of the fences from search on.
GenericBody(text) ==
    LET generic[search \in 1 .. Len(text) + 1] ==
            LET open == find(text, Fence, search)
                end == find(text, Fence, open + 1)
                body == Upto(text, open + 1, end)
            IN  IF open = 0 \/ end = 0 THEN <<>>
                ELSE IF body # <<>> /\ body[1] \in Openers THEN body
                ELSE generic[end + 1]
    IN  generic

\* The first fenced body marked json.
JsonBody(text) ==
    LET start == find(text, JsonFence, 1)
        close == find(text, Fence, start + 2)
    IN  IF start = 0 \/ close = 0 THEN <<>> ELSE Upto(text, start + 2, close)

\* The bodies to try, <<>> where there is none: it does not parse.
fenced_candidates(text) == <<JsonBody(text), GenericBody(text)[1]>>

Delta(char) == IF char \in Openers THEN 1 ELSE IF char \in Closers THEN -1 ELSE 0

\* Faulty: a backslash does not protect the quote after it.
next_char_state_Unescaped(state, char) ==
    IF char = Quote THEN [state EXCEPT !.in_string = ~@]
    ELSE IF state.in_string THEN state
    ELSE [state EXCEPT !.depth = @ + Delta(char)]

next_char_state(state, char) ==
    IF state.escape_next THEN [state EXCEPT !.escape_next = FALSE]
    ELSE IF state.in_string
         THEN [state EXCEPT !.escape_next = char = Backslash, !.in_string = char # Quote]
    ELSE [state EXCEPT !.in_string = char = Quote, !.depth = @ + Delta(char)]

\* The state of a scan that starts at start, after each character.
Scan(text, start) ==
    LET state[i \in start - 1 .. Len(text)] ==
            IF i = start - 1
            THEN [in_string |-> FALSE, escape_next |-> FALSE, depth |-> 0]
            ELSE next_char_state(state[i - 1], text[i])
    IN  state

\* The closer that brings the depth back to zero, 0 if there is none.
BlockEnd(text, start) ==
    LET state == Scan(text, start)
    IN  Earliest({i \in start .. Len(text) : state[i].depth = 0})

next_opener(text, start) == Earliest({i \in start .. Len(text) : text[i] \in Openers})

\* Blocks are tried from left to right and do not overlap.  The scan ends at an
\* opener that is never closed.
extract_balanced(text) ==
    LET from[pos \in 1 .. Len(text) + 1] ==
            LET start == next_opener(text, pos)
                end == BlockEnd(text, start)
                block == SubSeq(text, start, end)
            IN  IF start = 0 \/ end = 0 THEN <<>>
                ELSE IF loads(block) THEN block
                ELSE from[end + 1]
    IN  from

extract_json(text) ==
    LET candidates == <<text>> \o fenced_candidates(text)
        first == Earliest({c \in DOMAIN candidates : loads(candidates[c])})
    IN  IF first # 0 THEN candidates[first] ELSE extract_balanced(text)[1]
-----------------------------------------------------------------------------
\* extract_balanced gets past a text that opens no block but format hints: each
\* is closed and does not parse.
Passed(text) ==
    \E places \in SUBSET (1 .. Len(text) + 1) :
        /\ 1 \in places
        /\ \A pos \in places :
               LET start == next_opener(text, pos)
                   end == BlockEnd(text, start)
               IN  start # 0 => /\ end # 0 /\ end + 1 \in places
                                /\ ~loads(SubSeq(text, start, end))

\* A payload is a text that parses.  Prose is a text that extract_balanced gets
\* past.  After a payload anything may follow.
ASSUME AnswersAssumption ==
    /\ \A payload \in Payloads : payload \in Texts /\ loads(payload)
    /\ \A before \in Prose : before \in Texts /\ Passed(before)
    /\ \A after \in Tails : after \in Texts

FencePlaces(text) == {i \in DOMAIN text : text[i] = "fence"}

\* What parses between two fences of a text, the word json after the first left out.
FencedJson(text) ==
    LET starts == {i + 1 : i \in FencePlaces(text)} \cup
                  {i + 2 : i \in {j \in FencePlaces(text) : j < Len(text) /\ text[j + 1] = "json"}}
    IN  {body \in {Upto(text, i, j) : i \in starts, j \in FencePlaces(text)} : loads(body)}

\* Between these fences stands the payload, and nothing before them is a fence; an
\* unmarked one is not closed as the opening of one marked json.
WellFenced(lead, mark, payload, after) ==
    /\ FencePlaces(lead \o payload) = {}
    /\ mark = JsonFence \/ find(Fence \o after, JsonFence, 1) = 0

\* What extract_json's three strategies find.  After prose that opens no block but
\* format hints that do not parse, and before anything, a second payload too, it
\* is the payload, with any brackets, quotes and fences in its strings: unless
\* something between two fences parses, which comes first wherever it stands, in
\* a string of the payload or behind it.  A payload in a fence is found whatever
\* stands around that, openers that are never closed included, as long as there
\* is no fence before it or in it, unless the text parses as a whole.
PayloadFound ==
    \A payload \in Payloads, before \in Prose, after \in Tails :
        /\ LET text == before \o payload \o after
           IN  extract_json(text) \in {payload} \cup FencedJson(text)
        /\ \A noise \in {<<>>, <<"{">>, <<"[", Quote>>}, mark \in {Fence, JsonFence} :
               LET lead == noise \o before
                   text == lead \o mark \o payload \o Fence \o after
               IN  WellFenced(lead, mark, payload, after) =>
                       loads(text) \/ extract_json(text) = payload
=============================================================================
