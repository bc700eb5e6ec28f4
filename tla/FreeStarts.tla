------------------------------ MODULE FreeStarts ------------------------------
(***************************************************************************)
(* The beginnings from which free play may start, per character:           *)
(* _run_free_start_stages of services/world_creator_agent_v2.py.  A model  *)
(* answers for the leading characters in one call, and once more for those *)
(* that are missing; it may answer for anybody, twice, with places and     *)
(* relations that do not exist.                                            *)
(***************************************************************************)
EXTENDS Integers, Sequences, FiniteSets, SequencesExt

CONSTANTS
    Playable,    \* names, in order
    Candidates,  \* names of the world's specification, in order; some may not be playable
    MaxNames,    \* leading characters at most
    Stranger,    \* a name or a place that the world does not have
    Places,      \* of the world, in order
    Home,        \* per character his place; it need not be one of the world's
    MaxItems, MaxStages   \* bounds on an answer

VARIABLES
    first,    \* per name what the first call gave
    entries,  \* the beginnings that are kept: [name, stages]
    warned,   \* names the author is told have none
    at

vars == <<first, entries, warned, at>>

Cast == DOMAIN Home

\* Those of a list that are in S, and those that are not in it before, in their order.
Those(list, S) ==
    LET out[k \in 0..Len(list)] ==
          IF k = 0 THEN << >> ELSE IF list[k] \in S THEN Append(out[k - 1], list[k]) ELSE out[k - 1]
    IN out[Len(list)]

Distinct(list) ==
    LET out[k \in 0..Len(list)] ==
          IF k = 0 THEN << >> ELSE IF list[k] \in ToSet(out[k - 1]) THEN out[k - 1] ELSE Append(out[k - 1], list[k])
    IN out[Len(list)]

\* The names of the specification that are playable go first.
Leading ==
    LET once == Distinct(Those(Candidates, ToSet(Playable)) \o Playable)
    IN SubSeq(once, 1, IF Len(once) < MaxNames THEN Len(once) ELSE MaxNames)

\* A stage as the model writes it: without a milestone it counts for nothing.
Raws ==
    {[milestone |-> m, place |-> Stranger, knows |-> Stranger] : m \in BOOLEAN}
    \union [milestone : {TRUE}, place : {Places[Len(Places)]}, knows : Cast]

Upto(S, n) == UNION {[1..k -> S] : k \in 0..n}
Answers == Upto([name : Cast \union {Stranger}, stages : Upto(Raws, MaxStages)], MaxItems)

PlaceOf(raw, name) ==
    IF raw.place \in ToSet(Places) THEN raw.place
    ELSE IF Home[name] \in ToSet(Places) THEN Home[name] ELSE Places[1]

\* _shape_stages: a stage has the number that it had in the answer.
Shaped(raws, name) ==
    LET kept == Those([i \in DOMAIN raws |-> i], {i \in DOMAIN raws : raws[i].milestone})
        knows(raw) == {raw.knows} \intersect (Cast \ {name})
    IN [k \in DOMAIN kept |-> [id |-> kept[k], place |-> PlaceOf(raws[kept[k]], name), knows |-> knows(raws[kept[k]])]]

NoStages == [n \in {} |-> << >>]

\* _parse_batch: of those who were asked about, the first item with two stages counts.
Parsed(answer, names) ==
    LET of(n) == {i \in DOMAIN answer : answer[i].name = n /\ Len(Shaped(answer[i].stages, n)) >= 2}
        had == {n \in ToSet(names) : of(n) # {}}
        stages(n) == Shaped(answer[CHOOSE i \in of(n) : \A j \in of(n) : i <= j].stages, n)
    IN [n \in had |-> stages(n)]

\* Those who have beginnings, in the order of the leading names.
Kept(byName) ==
    LET names == Those(Leading, DOMAIN byName)
    IN [k \in DOMAIN names |-> [name |-> names[k], stages |-> byName[names[k]]]]

Finish(byName) ==
    /\ entries' = Kept(byName) /\ warned' = ToSet(Leading) \ DOMAIN byName
    /\ at' = "done"

Init == first = NoStages /\ entries = << >> /\ warned = {} /\ at = "first"

\* With nobody to play the stage is skipped.
Skip ==
    /\ at = "first" /\ Playable = << >>
    /\ at' = "done" /\ UNCHANGED <<first, entries, warned>>

\* If the first call fails, nobody has beginnings.
Fail ==
    /\ at = "first" /\ Playable # << >>
    /\ Finish(NoStages) /\ UNCHANGED first

First(answer) ==
    /\ at = "first" /\ Playable # << >>
    /\ first' = Parsed(answer, Leading)
    /\ IF ToSet(Leading) = DOMAIN first' THEN Finish(first')
       ELSE at' = "again" /\ UNCHANGED <<entries, warned>>

Missing == Those(Leading, ToSet(Leading) \ DOMAIN first)

\* Mutant: whoever the second answer is about is taken from it.
AskedAll == Leading

\* Only those who are missing are asked for, and heard.
Asked == Missing

\* The second answer, or an exception, after which what there is stays.
Again(answer) ==
    /\ at = "again"
    /\ LET more == Parsed(answer, Asked)
       IN Finish([n \in DOMAIN first \union DOMAIN more |-> IF n \in DOMAIN more THEN more[n] ELSE first[n]])
    /\ UNCHANGED first

AgainFails == at = "again" /\ Finish(first) /\ UNCHANGED first

Next ==
    \/ Skip \/ Fail \/ AgainFails
    \/ \E answer \in Answers : First(answer) \/ Again(answer)

Spec == Init /\ [][Next]_vars

------------------------------------------------------------------------------
(* Properties *)

\* A leading character either has two beginnings or more, each with a number of its own, in a
\* place of the world and with relations to others of the cast, or the author is told; nobody
\* else has any, and what the first call gave stays (_run_free_start_stages).
BeginningsAreSound ==
    at = "done" /\ Playable # << >> =>
        /\ \A i, j \in DOMAIN entries : entries[i].name = entries[j].name => i = j
        /\ warned = ToSet(Leading) \ {entries[i].name : i \in DOMAIN entries}
        /\ \A i \in DOMAIN entries :
             LET name == entries[i].name  stages == entries[i].stages
             IN /\ name \in ToSet(Leading) /\ Len(stages) >= 2
                /\ \A k \in DOMAIN stages :
                     /\ stages[k].place \in ToSet(Places) /\ stages[k].knows \subseteq Cast \ {name}
                     /\ k > 1 => stages[k - 1].id < stages[k].id
                /\ (name \in DOMAIN first => stages = first[name])
==============================================================================
