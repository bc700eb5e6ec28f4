------------------------- MODULE EventConditions -------------------------
(***************************************************************************)
(* The condition of a scripted event, from the tree a generator writes to  *)
(* the answer the running game gets.                                       *)
(*                                                                         *)
(*   engine/condition_tree.py        the tree, its check, its text         *)
(*   engine/condition_dsl.py         the text's tokens, its parser and the *)
(*                                   evaluation of what was parsed         *)
(*   services/events_data_builder.py what is stored of an event            *)
(*                                                                         *)
(* A generator builds a tree; the builder checks it and stores its text;   *)
(* the game parses the text again on every turn and asks whether it holds. *)
(* Text is a sequence of tokens: spaces and the spelling of a token are    *)
(* left out.  The path of old worlds, whose generators wrote the text      *)
(* themselves, is left out too.                                            *)
(***************************************************************************)
EXTENDS Integers, Sequences, FiniteSets

CONSTANTS
    Keys,     \* keys of world_state that are one identifier
    Dotted,   \* keys the text splits at a dot: "a.b"
    Words,    \* texts a condition may compare with
    Ints,     \* numbers a condition may compare with
    Days,     \* days of the clock and of time_after
    Places,   \* places of the player and of location_is
    Unset,    \* the value of a key nobody has set, and a place no tree names
    Size      \* bound: how often a tree is put into a larger one

VARIABLES
    tree,     \* what the generator has written so far
    grown,    \* how many nodes were put on top of its first leaf
    stored    \* the event as it is stored: NotYet, or disabled, or its text

vars == <<tree, grown, stored>>

Comparisons == {"==", "!=", ">=", "<=", ">", "<"}
NotYet == [state |-> "draft"]
Disabled == [state |-> "disabled"]

---------------------------------------------------------------------------
(* Trees *)

Field(k)  == [kind |-> "field", of |-> k]
Number(n) == [kind |-> "int", of |-> n]
Str(w)    == [kind |-> "str", of |-> w]
Bool(b)   == [kind |-> "bool", of |-> IF b THEN 1 ELSE 0]

Operands == {Field(k) : k \in Keys \union Dotted} \union {Number(n) : n \in Ints}
              \union {Str(w) : w \in Words} \union {Bool(b) : b \in BOOLEAN}

After(d) == [op |-> "func", name |-> "time_after", arg |-> d]
At(p)    == [op |-> "func", name |-> "location_is", arg |-> p]
Calls    == {After(d) : d \in Days \ {1}} \union {At(p) : p \in Places}

Compare(op, l, r) == [op |-> op, left |-> l, right |-> r]
Leaves == Calls \union {Compare(op, l, r) : op \in Comparisons, l \in Operands, r \in Operands}

Negation(t)    == [op |-> "NOT", operand |-> t]
Junction(o, s) == [op |-> o, operands |-> s]

\* The leaves that are put into larger trees, the others stand alone.
Stems == Calls \union {Compare(op, Field(k), Number(n)) : op \in Comparisons, k \in Keys, n \in Ints}

\* What a tree is joined with: a call, its negation, a junction of calls.
Parts == Calls \union {Negation(c) : c \in Calls}
           \union {Junction(o, <<c, d>>) : o \in {"AND", "OR"}, c \in Calls, d \in Calls}

---------------------------------------------------------------------------
(* A tree as text *)

Tok(k, v) == [kind |-> k, val |-> v]
Op(k)     == Tok(k, k)
Paren(s)  == <<Op("(")>> \o s \o <<Op(")")>>

OperandText(o) ==
    CASE o.kind = "int"   -> <<Tok("INT", o.of)>>
      [] o.kind = "bool"  -> <<Tok("INT", o.of)>>   \* as 1 and 0
      [] o.kind = "str"   -> <<Tok("STRING", o.of)>>
      [] o.kind = "field" ->
           <<Tok("IDENT", "world_state"), Op("."), Tok("IDENT", o.of)>>
             \o IF o.of \in Dotted THEN <<Op("."), Tok("IDENT", o.of)>> ELSE <<>>

RECURSIVE Text(_), Joined(_, _)

TextBare(t) ==
    CASE t.op = "func" -> <<Tok("IDENT", t.name)>> \o Paren(<<Tok("STRING", t.arg)>>)
      [] t.op \in Comparisons -> OperandText(t.left) \o <<Op(t.op)>> \o OperandText(t.right)
      [] t.op = "NOT" -> <<Op("NOT")>> \o Text(t.operand)
      [] t.op \in {"AND", "OR"} -> Text(t.operands[1]) \o Joined(Op(t.op), Tail(t.operands))

\* serialize_to_dsl: every operand of AND, OR and NOT is put in parentheses.
Text(t) ==
    CASE t.op = "func" -> <<Tok("IDENT", t.name)>> \o Paren(<<Tok("STRING", t.arg)>>)
      [] t.op \in Comparisons -> OperandText(t.left) \o <<Op(t.op)>> \o OperandText(t.right)
      [] t.op = "NOT" -> <<Op("NOT")>> \o Paren(Text(t.operand))
      [] t.op \in {"AND", "OR"} ->
           Paren(Text(t.operands[1])) \o Joined(Op(t.op), Tail(t.operands))

Joined(o, rest) ==
    IF rest = <<>> THEN <<>>
    ELSE <<o>> \o Paren(Text(Head(rest))) \o Joined(o, Tail(rest))

---------------------------------------------------------------------------
(* Text as an expression: recursive descent over the tokens *)

\* A parse: what was read and the place of the next token, or a failure.
Read(e, i) == [ok |-> TRUE, expr |-> e, next |-> i]
Fail       == [ok |-> FALSE]
KindAt(s, i) == IF i <= Len(s) THEN s[i].kind ELSE "EOF"
KindsAt(s, i, kinds) == \A j \in 1..Len(kinds) : KindAt(s, i + j - 1) = kinds[j]

Call(s, i) ==
    IF s[i].val \in {"time_after", "location_is"} /\ KindsAt(s, i + 1, <<"(", "STRING", ")">>)
    THEN Read([op |-> "func", name |-> s[i].val, arg |-> s[i + 2].val], i + 4)
    ELSE Fail

FieldOrCall(s, i) ==
    IF s[i].val # "world_state" THEN Call(s, i)
    ELSE IF KindsAt(s, i + 1, <<".", "IDENT">>) THEN Read(Field(s[i + 2].val), i + 3)
    ELSE Fail

\* The right of a comparison may be a text, ...
Operand(s, i) ==
    CASE KindAt(s, i) = "INT"    -> Read(Number(s[i].val), i + 1)
      [] KindAt(s, i) = "STRING" -> Read(Str(s[i].val), i + 1)
      [] KindAt(s, i) = "IDENT"  -> FieldOrCall(s, i)
      [] OTHER                   -> Fail

Comparison(s, l) ==
    IF ~l.ok \/ KindAt(s, l.next) \notin Comparisons THEN Fail
    ELSE LET r == Operand(s, l.next + 1)
         IN IF r.ok THEN Read(Compare(s[l.next].kind, l.expr, r.expr), r.next) ELSE Fail

RECURSIVE ParseOr(_, _), ParseAnd(_, _), ParseNot(_, _), OrTail(_, _), AndTail(_, _)

\* ... its left may not: a text that starts with a string is refused here.
ParseAtom(s, i) ==
    CASE KindAt(s, i) = "(" ->
           LET e == ParseOr(s, i + 1)
           IN IF e.ok /\ KindAt(s, e.next) = ")" THEN Read(e.expr, e.next + 1) ELSE Fail
      [] KindAt(s, i) = "INT" -> Comparison(s, Operand(s, i))
      [] KindAt(s, i) = "IDENT" ->
           LET e == FieldOrCall(s, i)
           IN IF e.ok /\ "op" \in DOMAIN e.expr /\ KindAt(s, e.next) \notin Comparisons
              THEN e ELSE Comparison(s, e)
      [] OTHER -> Fail

ParseNot(s, i) ==
    IF KindAt(s, i) # "NOT" THEN ParseAtom(s, i)
    ELSE LET e == ParseNot(s, i + 1) IN IF e.ok THEN Read(Negation(e.expr), e.next) ELSE Fail

Binary(o, l, r) == IF r.ok THEN Read(Junction(o, <<l.expr, r.expr>>), r.next) ELSE Fail

AndTail(s, l) == IF ~l.ok \/ KindAt(s, l.next) # "AND" THEN l
                 ELSE AndTail(s, Binary("AND", l, ParseNot(s, l.next + 1)))
ParseAnd(s, i) == AndTail(s, ParseNot(s, i))

OrTail(s, l) == IF ~l.ok \/ KindAt(s, l.next) # "OR" THEN l
                ELSE OrTail(s, Binary("OR", l, ParseAnd(s, l.next + 1)))
ParseOr(s, i) == OrTail(s, ParseAnd(s, i))

Parse(s) == LET e == ParseOr(s, 1) IN IF e.ok /\ e.next = Len(s) + 1 THEN e ELSE Fail

---------------------------------------------------------------------------
(* What an expression says of a world *)

\* Numbers and texts are told apart; a key nobody has set reads as 0, and a
\* dotted key is never set.
Num(n) == [num |-> TRUE, of |-> n]
Txt(w) == [num |-> FALSE, of |-> w]

Situations == [flag : [Keys -> {Num(n) : n \in Ints} \union {Txt(w) : w \in Words} \union {Unset}],
               day : Days, place : Places \union {Unset}]

Value(o, w) ==
    CASE o.kind = "int"   -> Num(o.of)
      [] o.kind = "bool"  -> Num(o.of)
      [] o.kind = "str"   -> Txt(o.of)
      [] o.kind = "field" -> IF o.of \notin Keys \/ w.flag[o.of] = Unset THEN Num(0)
                             ELSE w.flag[o.of]

\* Texts of one spelling are the only ones an order of texts is asked about.
Compares(op, a, b) ==
    CASE op = "==" -> a = b
      [] op = "!=" -> a # b
      [] OTHER -> IF ~a.num \/ ~b.num THEN ~a.num /\ ~b.num /\ op \in {">=", "<="}
                  ELSE CASE op = ">=" -> a.of >= b.of [] op = "<=" -> a.of <= b.of
                         [] op = ">"  -> a.of > b.of  [] op = "<"  -> a.of < b.of

Holds(c, w) == IF c.name = "time_after" THEN w.day >= c.arg ELSE w.place = c.arg

\* evaluate: of an expression that was parsed, whose junctions have two operands.
RECURSIVE Evaluate(_, _)
Evaluate(e, w) ==
    CASE e.op = "func" -> Holds(e, w)
      [] e.op \in Comparisons -> Compares(e.op, Value(e.left, w), Value(e.right, w))
      [] e.op = "NOT" -> ~Evaluate(e.operand, w)
      [] e.op = "AND" -> Evaluate(e.operands[1], w) /\ Evaluate(e.operands[2], w)
      [] e.op = "OR"  -> Evaluate(e.operands[1], w) \/ Evaluate(e.operands[2], w)

\* What the generator was told a tree means: junctions have any number of operands.
RECURSIVE Means(_, _)
Means(t, w) ==
    CASE t.op = "func" -> Holds(t, w)
      [] t.op \in Comparisons -> Compares(t.op, Value(t.left, w), Value(t.right, w))
      [] t.op = "NOT" -> ~Means(t.operand, w)
      [] t.op = "AND" -> \A i \in DOMAIN t.operands : Means(t.operands[i], w)
      [] t.op = "OR"  -> \E i \in DOMAIN t.operands : Means(t.operands[i], w)

RECURSIVE Walk(_, _, _)
WalkThroughNot(e, w, negated) ==
    IF e.op = "NOT" THEN Walk(e.operand, w, negated)
    ELSE [sat |-> IF Evaluate(e, w) # negated THEN 1 ELSE 0, all |-> 1]

\* _walk: how many leaves are satisfied, those under a NOT when they do not hold.
Walk(e, w, negated) ==
    CASE e.op \in {"AND", "OR"} ->
           LET l == Walk(e.operands[1], w, negated)
               r == Walk(e.operands[2], w, negated)
           IN [sat |-> l.sat + r.sat, all |-> l.all + r.all]
      [] e.op = "NOT" -> Walk(e.operand, w, ~negated)
      [] OTHER -> [sat |-> IF Evaluate(e, w) # negated THEN 1 ELSE 0, all |-> 1]

---------------------------------------------------------------------------
(* The generator and the builder *)

\* validate_tree: junctions have two operands at least.  It lets any operand
\* stand on either side of a comparison, and any key after the first dot.
RECURSIVE Valid(_)
Valid(t) == CASE t.op = "NOT" -> Valid(t.operand)
              [] t.op \in {"AND", "OR"} ->
                   Len(t.operands) >= 2 /\ \A i \in DOMAIN t.operands : Valid(t.operands[i])
              [] OTHER -> TRUE

Init == tree \in Leaves /\ grown = 0 /\ stored = NotYet

Grow(t) == /\ stored = NotYet
           /\ grown < Size
           /\ grown = 0 => tree \in Stems
           /\ tree' = t
           /\ grown' = grown + 1
           /\ UNCHANGED stored

Negate == Grow(Negation(tree))
Join(o, part) == Grow(Junction(o, <<tree, part>>)) \/ Grow(Junction(o, <<part, tree>>))
Wrap(o) == Grow(Junction(o, <<tree>>))   \* a junction of one operand: refused below
Extend(part) == tree.op \in {"AND", "OR"} /\ Grow([tree EXCEPT !.operands = Append(@, part)])

\* _validate_event: the text of a tree is stored without being parsed.
Store == /\ stored = NotYet
         /\ stored' = IF Valid(tree) THEN [state |-> "stored", text |-> Text(tree)] ELSE Disabled
         /\ UNCHANGED <<tree, grown>>

Next == \/ Negate
        \/ \E o \in {"AND", "OR"}, p \in Parts : Join(o, p)
        \/ \E p \in Calls : Extend(p)
        \/ \E o \in {"AND", "OR"} : Wrap(o)
        \/ Store

Spec == Init /\ [][Next]_vars

---------------------------------------------------------------------------
(* Properties *)

Readable == stored.state = "stored" /\ Parse(stored.text).ok

\* What the game asks of a stored condition is what its tree says, in every
\* world: the text keeps the grouping of AND, OR and NOT however deep they
\* nest and however many operands they have (condition_tree.py, condition_dsl.py).
StoredMeansTree ==
    Readable => LET e == Parse(stored.text).expr
                IN \A w \in Situations : Evaluate(e, w) = Means(tree, w)

\* The director is told a condition is complete only when it holds, and that
\* nothing of it is satisfied only when it does not (event_progress.py): the
\* count of leaves goes through NOT and agrees with the evaluation at both ends.
ProgressAgrees ==
    Readable => LET e == Parse(stored.text).expr
                IN \A w \in Situations :
                     LET p == Walk(e, w, FALSE)
                     IN /\ p.sat = p.all => Evaluate(e, w)
                        /\ p.sat = 0 => ~Evaluate(e, w)

\* "condition_dsl 能被 engine.condition_dsl.parse 接受，否则 disabled=true"
\* (events_data_builder.py): an event that is not disabled has a condition the
\* game can parse.  The code does not keep this.
StoredIsReadable == stored.state = "stored" => Parse(stored.text).ok
===========================================================================
