----------------------------- MODULE PictureStage -----------------------------
(***************************************************************************)
(* All the pictures of a generated world at once, and those of a script    *)
(* one after the other: _run_images, _run_concurrent_with_pulse and the    *)
(* stages "script_visual_brief" and "script_images" of create_script in    *)
(* services/world_creator_agent_v2.py, with                                *)
(* derive_script_cover_helpers of services/cover_brief_helper.py.          *)
(*                                                                         *)
(* How one picture is made, with its prompts, retries and upload, is       *)
(* Pictures; here it is real, the placeholder, too late or an exception.   *)
(* A real picture is named by what it was painted for.                     *)
(***************************************************************************)
EXTENDS Integers, Sequences, FiniteSets, SequencesExt

CONSTANTS
    None,
    Placeholder,
    People,      \* who is to have a portrait, in order
    Slots,       \* pictures painted at once (6 in the code)
    Titles,      \* of endings
    MaxEndings   \* a bound

VARIABLES
    kind,     \* "world" or "script"
    task,     \* per picture of a world "waiting", "painting", "painted" or "cancelled"
    result,   \* and what came of it
    heard,    \* the pictures whose end was reported, in order
    payload,  \* the address per picture, once they are written
    warned,   \* the pictures that the author is told about
    endings,  \* of a script: title and picture
    left,     \* titles of endings yet to be painted
    at

vars == <<kind, task, result, heard, payload, warned, endings, left, at>>

Order == <<"hero", "cover">> \o People
Portraits == ToSet(People)
Targets == ToSet(Order)
Everywhere(url) == [t \in Targets |-> url]
Upto(S, n) == UNION {[1..k -> S] : k \in 0..n}

Init ==
    /\ kind \in {"world", "script"}
    /\ task = Everywhere("waiting") /\ result = Everywhere(None)
    /\ heard = << >> /\ payload = Everywhere(None) /\ warned = {} /\ left = << >>
    /\ IF kind = "world" THEN endings = << >>
       ELSE endings \in Upto([title : Titles, picture : {None}], MaxEndings)
    /\ at = "brief"

------------------------------------------------------------------------------
(* A world *)

\* Without a generator or a brief every picture is the placeholder, and nobody is told.
Skip ==
    /\ kind = "world" /\ at = "brief"
    /\ payload' = Everywhere(Placeholder) /\ at' = "done"
    /\ UNCHANGED <<kind, task, result, heard, warned, endings, left>>

\* Who has no brief of his own gets the placeholder without waiting for a slot.
Begin(briefed) ==
    /\ kind = "world" /\ at = "brief"
    /\ task' = [t \in Targets |-> IF t \in Portraits \ briefed THEN "painted" ELSE "waiting"]
    /\ result' = [t \in Targets |-> IF t \in Portraits \ briefed THEN Placeholder ELSE None]
    /\ at' = "painting"
    /\ UNCHANGED <<kind, heard, payload, warned, endings, left>>

Painting == {t \in Targets : task[t] = "painting"}

Take(t) ==
    /\ at = "painting" /\ task[t] = "waiting" /\ Cardinality(Painting) < Slots
    /\ task' = [task EXCEPT ![t] = "painting"]
    /\ UNCHANGED <<kind, result, heard, payload, warned, endings, left, at>>

\* A deadline that passes is a placeholder; so is an exception, once it is read.
Paint(t, outcome) ==
    /\ task[t] = "painting"
    /\ task' = [task EXCEPT ![t] = "painted"]
    /\ result' = [result EXCEPT ![t] = IF outcome = "real" THEN t ELSE Placeholder]
    /\ UNCHANGED <<kind, heard, payload, warned, endings, left, at>>

\* Each end is reported as it comes.
Hear(t) ==
    /\ at = "painting" /\ task[t] = "painted" /\ t \notin ToSet(heard)
    /\ heard' = Append(heard, t)
    /\ UNCHANGED <<kind, task, result, payload, warned, endings, left, at>>

\* Whoever reads the reports is gone: what is not painted is cancelled.
Leave ==
    /\ at = "painting"
    /\ task' = [t \in Targets |-> IF task[t] = "painted" THEN "painted" ELSE "cancelled"]
    /\ at' = "left"
    /\ UNCHANGED <<kind, result, heard, payload, warned, endings, left>>

\* Mutant: results are in the order in which they came.
ResultAsHeard(t) == result[heard[CHOOSE i \in DOMAIN Order : Order[i] = t]]

\* _run_concurrent_with_pulse: results are in the order of the tasks.
Result(t) == result[t]

\* A cover that failed is cut out of the hero, if that is there and the cutting succeeds.
Write(cut) ==
    /\ at = "painting" /\ ToSet(heard) = Targets
    /\ LET urls == [t \in Targets |-> Result(t)]
           cover == IF urls["cover"] = Placeholder /\ urls["hero"] # Placeholder /\ cut THEN "hero" ELSE urls["cover"]
           new == [urls EXCEPT !["cover"] = cover]
       IN payload' = new /\ warned' = {t \in Targets : new[t] = Placeholder}
    /\ at' = "done"
    /\ UNCHANGED <<kind, task, result, heard, endings, left>>

------------------------------------------------------------------------------
(* A script *)

\* derive_script_cover_helpers: one brief for every title, empty titles have none.
TitlesOf(list) == FoldLeft(LAMBDA out, e : IF e.title \in ToSet(out) \union {""} THEN out ELSE Append(out, e.title), << >>, list)

\* Nothing is painted without a generator or the brief of its world.
SkipScript ==
    /\ kind = "script" /\ at = "brief"
    /\ payload' = [payload EXCEPT !["cover"] = Placeholder] /\ at' = "done"
    /\ UNCHANGED <<kind, task, result, heard, warned, endings, left>>

Cover(outcome) ==
    /\ kind = "script" /\ at = "brief"
    /\ payload' = [payload EXCEPT !["cover"] = IF outcome = "real" THEN "cover" ELSE Placeholder]
    /\ warned' = IF outcome = "real" THEN {} ELSE {"cover"}
    /\ left' = TitlesOf(endings) /\ at' = "cards"
    /\ UNCHANGED <<kind, task, result, heard, endings>>

\* An ending whose picture fails has none.
Card(outcome) ==
    /\ at = "cards" /\ left # << >>
    /\ left' = Tail(left)
    /\ endings' = [i \in DOMAIN endings |->
           IF outcome = "real" /\ endings[i].title = Head(left) THEN [endings[i] EXCEPT !.picture = Head(left)] ELSE endings[i]]
    /\ UNCHANGED <<kind, task, result, heard, payload, warned, at>>

EndCards ==
    /\ at = "cards" /\ left = << >>
    /\ at' = "done"
    /\ UNCHANGED <<kind, task, result, heard, payload, warned, endings, left>>

Next ==
    \/ Skip \/ \E briefed \in SUBSET Portraits : Begin(briefed)
    \/ \E t \in Targets : Take(t) \/ Hear(t) \/ \E outcome \in {"real", "failed"} : Paint(t, outcome)
    \/ Leave \/ \E cut \in BOOLEAN : Write(cut)
    \/ SkipScript \/ \E outcome \in {"real", "failed"} : Cover(outcome) \/ Card(outcome)
    \/ EndCards

Spec == Init /\ [][Next]_vars

------------------------------------------------------------------------------
(* Properties *)

\* However the pictures overtake each other, each is where it belongs, and only a cover may be
\* another one's; no ending shows a placeholder or the picture of another (_run_images,
\* create_script).
PictureOfItsOwn ==
    /\ \A t \in Targets : payload[t] \in {None, Placeholder, t} \/ (t = "cover" /\ payload[t] = "hero")
    /\ \A i \in DOMAIN endings : endings[i].picture \in {None, endings[i].title}

\* Of pictures that were tried, the author is told of exactly those that are placeholders
\* (_run_images: nobody knows otherwise which to make anew).
PlaceholderIsTold ==
    at = "done" /\ (heard # << >> \/ warned # {}) => warned = {t \in Targets : payload[t] = Placeholder}

\* Not so when nothing was tried: the placeholders of a stage that is skipped are not told of.
SkippedIsTold == at = "done" => warned = {t \in Targets : payload[t] = Placeholder}
==============================================================================
