---------------------------- MODULE PartialAnswer ----------------------------
(***************************************************************************)
(* Reading an answer before it is complete: try_partial_parse and          *)
(* _find_last_outer_comma of engine/director_agent.py.                     *)
(*                                                                         *)
(* The answer is a JSON object, read one character after the other; a key  *)
(* is left out, and a value is a number, a list or a string, in which      *)
(* there may be what otherwise separates.  What json.loads accepts is what *)
(* the first fields of the answer were written as.                         *)
(***************************************************************************)
EXTENDS Integers, Sequences, SequencesExt

CONSTANTS
    None,
    Size,   \* fields of an answer: a bound
    Inside  \* characters of a string: a bound

VARIABLES
    fields,  \* the values of the answer
    buffer   \* what has been read of it

vars == <<fields, buffer>>

Quote == "q"
Escape == "e"
Letters == {"1", ",", "}", "]"}

\* A quote and an escape in a string are written after an escape.
Written(c) == IF c \in {Quote, Escape} THEN <<Escape, c>> ELSE <<c>>
Value(v) ==
    IF v.kind = "string" THEN <<Quote>> \o FlattenSeq([i \in DOMAIN v.of |-> Written(v.of[i])]) \o <<Quote>>
    ELSE IF v.kind = "list" THEN <<"[", "1", ",", "1", "]">>
    ELSE <<"1">>

RECURSIVE Joined(_)
Joined(vs) == IF Len(vs) <= 1 THEN FlattenSeq(vs) ELSE Head(vs) \o <<",">> \o Joined(Tail(vs))
Text(vs) == <<"{">> \o Joined([i \in DOMAIN vs |-> Value(vs[i])]) \o <<"}">>

\* The number of fields that a text is the text of.
Loaded(text) ==
    LET fit == {n \in 0..Len(fields) : Text(SubSeq(fields, 1, n)) = text}
    IN IF fit = {} THEN None ELSE CHOOSE n \in fit : TRUE

------------------------------------------------------------------------------
State == [depth |-> 0, inString |-> FALSE, escape |-> FALSE, last |-> 0, seen |-> 0]

\* Mutant: the character after an escape is taken for what it is.
ScanUnescaped(s, ch) ==
    LET t == [s EXCEPT !.seen = @ + 1]
    IN IF s.inString THEN [t EXCEPT !.inString = (ch # Quote)]
       ELSE IF ch = Quote THEN [t EXCEPT !.inString = TRUE]
       ELSE IF ch \in {"{", "["} THEN [t EXCEPT !.depth = @ + 1]
       ELSE IF ch \in {"}", "]"} THEN [t EXCEPT !.depth = @ - 1]
       ELSE IF ch = "," /\ s.depth = 1 THEN [t EXCEPT !.last = t.seen]
       ELSE t

\* One character of _find_last_outer_comma.
Scan(s, ch) ==
    LET t == [s EXCEPT !.seen = @ + 1]
    IN IF s.escape THEN [t EXCEPT !.escape = FALSE]
       ELSE IF s.inString THEN [t EXCEPT !.escape = (ch = Escape), !.inString = (ch # Quote)]
       ELSE IF ch = Quote THEN [t EXCEPT !.inString = TRUE]
       ELSE IF ch \in {"{", "["} THEN [t EXCEPT !.depth = @ + 1]
       ELSE IF ch \in {"}", "]"} THEN [t EXCEPT !.depth = @ - 1]
       ELSE IF ch = "," /\ s.depth = 1 THEN [t EXCEPT !.last = t.seen]
       ELSE t

LastOuterComma(text) == FoldLeft(Scan, State, text).last

\* try_partial_parse
Partial(text) ==
    IF Loaded(text) # None THEN Loaded(text)
    ELSE LET comma == LastOuterComma(text)
         IN IF comma = 0 THEN None ELSE Loaded(SubSeq(text, 1, comma - 1) \o <<"}">>)

------------------------------------------------------------------------------
Values ==
    [kind : {"number", "list"}, of : {<< >>}]
        \union [kind : {"string"}, of : UNION {[1..n -> Letters \union {Quote, Escape}] : n \in 0..Inside}]

Init == fields \in UNION {[1..n -> Values] : n \in 1..Size} /\ buffer = << >>

Receive ==
    /\ Len(buffer) < Len(Text(fields))
    /\ buffer' = SubSeq(Text(fields), 1, Len(buffer) + 1)
    /\ UNCHANGED fields

Next == Receive

Spec == Init /\ [][Next]_vars

------------------------------------------------------------------------------
(* Property *)

\* How long the text is up to and with the comma after n fields, or its end after the last.
Through(n) ==
    IF n = Len(fields) THEN Len(Text(fields))
    ELSE Len(Text(SubSeq(fields, 1, n)))

\* Of an answer that stops anywhere, every field is read after which a comma has come, each as
\* it is in the whole answer, and none that is not yet complete (director_agent.py
\* try_partial_parse: NPCs begin, and a turn is salvaged, by it).
CompleteIsRead ==
    LET whole == {n \in 1..Len(fields) : Through(n) <= Len(buffer)}
    IN Partial(buffer) = IF whole = {} THEN None ELSE CHOOSE n \in whole : \A k \in whole : k <= n
==============================================================================
