----------------------------- MODULE QualityVote -----------------------------
(***************************************************************************)
(* How the judges of a world come to one verdict: one judge as a rule, a   *)
(* second when the first sees a risk or fails, a third when the first two   *)
(* disagree.                                                               *)
(*                                                                         *)
(*   services/world_critic_service.py  score_world_soft                    *)
(*   services/generation_rubric.py     compute_blocking_flags              *)
(*                                                                         *)
(* The scores that can block, ip_consistency and collision, are one score; *)
(* tension stands for all that only makes a judge unsure.                  *)
(***************************************************************************)
EXTENDS Integers, Sequences, FiniteSets, FiniteSetsExt, SequencesExt

CONSTANTS
    None,       \* a judge that failed, a score that is not a number
    Scores,     \* what a judge may score
    Codes,      \* kinds of violation; "missing" is canon_entity_missing
    Blocking,   \* BLOCKING_SOFT_THRESHOLD
    Risky       \* a score up to this one asks for a second judge

VARIABLES
    contract,   \* every required name is there and the scale is met
    asked,      \* the judges' answers in order, None for one that failed
    verdict     \* None until there is one

vars == <<contract, asked, verdict>>

Violation == [code : Codes, major : BOOLEAN]

\* What a judge reports: nothing, one violation, or one kind as grave and as not.
Reports == {<<>>} \union {<<v>> : v \in Violation}
             \union {<<[code |-> c, major |-> a], [code |-> c, major |-> ~a]>> :
                       c \in Codes \ {"missing"}, a \in BOOLEAN}
Answers == [score : Scores \union {None}, tension : {Min(Scores), Max(Scores)}, says : Reports]

\* _apply_contract: what the contract does not require is no major omission.
Held(a) ==
    IF a = None \/ ~contract THEN a
    ELSE [a EXCEPT !.says = [k \in DOMAIN @ |->
             IF @[k].code = "missing" THEN [@[k] EXCEPT !.major = FALSE] ELSE @[k]]]

Majors(a) == {v.code : v \in {w \in ToSet(a.says) : w.major}}

\* The first judge is not enough.
Borderline(a) ==
    a = None \/ a.score = None \/ a.score <= Risky \/ a.tension <= Risky \/ Majors(a) # {}

Differ(x, y) == x # None /\ y # None /\ (x - y >= 2 \/ y - x >= 2)

Disagree(a, b) ==
    /\ a # None /\ b # None
    /\ Differ(a.score, b.score) \/ Differ(a.tension, b.tension) \/ Majors(a) # Majors(b)

---------------------------------------------------------------------------
(* The verdict *)

\* The judges that answered, and those of them that gave a score.
Runs == {k \in DOMAIN asked : asked[k] # None}
Scored == {k \in Runs : asked[k].score # None}
Numbers == {asked[k].score : k \in Scored}
AtMost(v) == Cardinality({k \in Scored : asked[k].score <= v})

\* Mutant: the higher of two middles.
MedianHigh == Min({v \in Numbers : 2 * AtMost(v) > Cardinality(Scored)})

\* _median_int: the middle of the scores in order, the lower one of two, is the first that
\* half of them do not exceed.
Median == Min({v \in Numbers : 2 * AtMost(v) >= Cardinality(Scored)})

\* A judge counts once for a kind of violation, with what it said of it first;
\* one judge that says it is major makes it so.
Firsts(a) == {a.says[k] : k \in {i \in DOMAIN a.says : \A j \in 1..(i - 1) : a.says[j].code # a.says[i].code}}
Naming(c) == {k \in Runs : \E v \in Firsts(asked[k]) : v.code = c}
Votes(c) == Cardinality(Naming(c))

Named == {v.code : v \in UNION {Firsts(asked[k]) : k \in Runs}}
Major(c) == \E k \in Runs : [code |-> c, major |-> TRUE] \in Firsts(asked[k])

\* _merge_quality_violations: two votes confirm, or one when nobody else had to be asked.
Confirmed ==
    {c \in Named : Votes(c) >= 2 \/ (Cardinality(Runs) = 1 /\ ~Borderline(asked[1]))}

\* compute_blocking_flags: a low score, and every major violation, confirmed or not.
Flags == (IF Numbers # {} /\ Median <= Blocking THEN {"score"} ELSE {})
           \union {c \in Named : Major(c)}

---------------------------------------------------------------------------
Enough ==
    \/ Len(asked) = 1 /\ ~Borderline(asked[1])
    \/ Len(asked) = 2 /\ ~Disagree(asked[1], asked[2])
    \/ Len(asked) = 3

Ask(a) ==
    /\ verdict = None /\ ~Enough
    /\ asked' = Append(asked, Held(a))
    /\ UNCHANGED <<contract, verdict>>

\* A judge nobody could reach is no verdict: the job asks a person instead.
Decide ==
    /\ verdict = None /\ Enough
    /\ verdict' = [flags |-> IF Runs = {} THEN {"unavailable"} ELSE Flags,
                   confirmed |-> Confirmed]
    /\ UNCHANGED <<contract, asked>>

Init == contract \in BOOLEAN /\ asked = <<>> /\ verdict = None

Next == \/ \E a \in Answers \union {None} : Ask(a)
        \/ Decide

Spec == Init /\ [][Next]_vars

---------------------------------------------------------------------------
(* Properties *)

Low == {k \in Scored : asked[k].score <= Blocking}
Fine == Scored \ Low

\* A world passes a judge's low score only when more judges score it fine than low,
\* whoever fails or is asked third (world_critic_service.py _median_int: the lower
\* middle is the careful one).
LowIsOutvoted ==
    verdict # None /\ verdict.flags = {} /\ Low # {} => Cardinality(Low) < Cardinality(Fine)

\* What counts as confirmed was seen by two judges, or by one that had no doubt and
\* saw nothing major: no judge seconds itself (_merge_quality_violations).
NobodySecondsItself ==
    verdict # None => \A c \in verdict.confirmed :
        \/ \E j, k \in Runs : j # k /\ c \in {v.code : v \in ToSet(asked[j].says)}
                                    /\ c \in {v.code : v \in ToSet(asked[k].says)}
        \/ Len(asked) = 1 /\ ~Major(c)

\* A major violation that any judge reports keeps the world from passing, confirmed
\* or not (generation_rubric.py: "quality_review").  The code does not hold this:
\* a judge that reports a kind as a warning first loses the major one that follows.
MajorBlocks ==
    verdict # None => \A k \in Runs : Majors(asked[k]) \subseteq verdict.flags
=============================================================================
