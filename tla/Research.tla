------------------------------- MODULE Research -------------------------------
(***************************************************************************)
(* Whether a world is of a known work, and what is known of it: phase A of  *)
(* a world generation (services/ip_recognizer.py), the author's choice that *)
(* starts phase B (api/workshop.py continue-generation), and the research   *)
(* of the work (services/ip_research_pipeline.py, ip_pack_extractors, and    *)
(* _run_ip_research of services/world_creator_agent_v2.py).                 *)
(*                                                                         *)
(* A name is what _norm_name makes of it, so two characters may have one.   *)
(* Of a search only counts whether it returns a text and whether that names *)
(* a source; of a character, whether it is indispensable and whether it     *)
(* belongs to the version of the work that was settled on.  "known_ip" and  *)
(* "hybrid" are treated alike by everything that follows, and so are one.   *)
(***************************************************************************)
EXTENDS Integers, Sequences, FiniteSets

CONSTANTS
    None,
    Keys,     \* normalized names
    Votes,    \* attempts of the recognizer
    Longest,  \* how many characters a compilation may list: a bound
    Groups,   \* how many groups the last call may form: a bound
    Least,    \* characters without which a pack is too thin
    Runs      \* how often the author may choose: a bound

VARIABLES
    rec,      \* the recognizer's best answer so far
    votes,    \* answers it has had
    task,     \* the latest generation task of the draft
    runs,     \* times the author has chosen
    found,    \* what the two searches returned
    written,  \* the characters as they were compiled
    pack,     \* the characters of the pack
    at        \* where the task is

vars == <<rec, votes, task, runs, found, written, pack, at>>

Recognition == [known : BOOLEAN, named : BOOLEAN]
Original == [known |-> FALSE, named |-> FALSE]
IsHit(r) == r # None /\ r.known /\ r.named

\* How a research may end.
Ends == {"skipped", "stopped", "degraded", "packed"}

Task == [phase : {"A", "B"}, recognized : Recognition \union {None}, given : Recognition \union {None},
         mode : {"strict", "loose", "none"}]

---------------------------------------------------------------------------
(* Phase A *)

\* A title in brackets needs no vote.
Titled ==
    /\ at = "voting" /\ votes = 0
    /\ rec' = [known |-> TRUE, named |-> TRUE] /\ at' = "recognized"
    /\ UNCHANGED <<votes, task, runs, found, written, pack>>

\* recognize_ip: the first hit ends it, else the first answer stays; None is a failure.
Vote(answer) ==
    /\ at = "voting" /\ votes < Votes
    /\ votes' = votes + 1
    /\ rec' = IF IsHit(answer) \/ rec = None THEN answer ELSE rec
    /\ at' = IF IsHit(answer) THEN "recognized" ELSE IF votes + 1 = Votes THEN "searching" ELSE at
    /\ UNCHANGED <<task, runs, found, written, pack>>

\* What the network says of it may turn a miss into a hit, and only that.
Rescue(answer) ==
    /\ at = "searching"
    /\ rec' = IF IsHit(answer) THEN answer ELSE IF rec = None THEN Original ELSE rec
    /\ at' = "recognized"
    /\ UNCHANGED <<votes, task, runs, found, written, pack>>

\* record_intermediate; a recognizer that fails as a whole is an original work.
Recognized(r) ==
    /\ at = "recognized" /\ r \in {rec, Original}
    /\ task' = [task EXCEPT !.recognized = r]
    /\ at' = "choosing"
    /\ UNCHANGED <<rec, votes, runs, found, written, pack>>

\* continue_world_draft_generation: the choice takes what the latest task recognized,
\* and the task it makes has recognized nothing; only a running phase B refuses it.
Continue(mode) ==
    /\ at \in {"choosing"} \union Ends /\ runs < Runs
    /\ runs' = runs + 1
    /\ task' = [phase |-> "B", recognized |-> None, given |-> task.recognized, mode |-> mode]
    /\ at' = "research" /\ found' = <<>> /\ written' = <<>> /\ pack' = None
    /\ UNCHANGED <<rec, votes>>

---------------------------------------------------------------------------
(* Phase B *)

\* No mode, or no work to be true to: nothing is looked up.
Skip ==
    /\ at = "research"
    /\ task.mode # "none" => (task.given # None => ~task.given.known)
    /\ at' = "skipped"
    /\ UNCHANGED <<rec, votes, task, runs, found, written, pack>>

Cited == \E k \in DOMAIN found : found[k] = "cited"

\* A work without a name has an empty pack, which a strict run refuses as unproven.
Nameless ==
    /\ at = "research"
    /\ task.mode # "none" /\ task.given # None /\ task.given.known /\ ~task.given.named
    /\ at' = IF task.mode = "strict" THEN "stopped" ELSE "packed"
    /\ pack' = {}
    /\ UNCHANGED <<rec, votes, task, runs, found, written>>

\* _gather_via_grok_fanout: two searches at once, each of which may fail.
Search(results) ==
    /\ at = "research" /\ task.mode # "none" /\ IsHit(task.given)
    /\ found' = results
    /\ at' = "compile"
    /\ UNCHANGED <<rec, votes, task, runs, written, pack>>

\* A strict run needs a source; then the model compiles what was found, or, when nothing
\* was, what it remembers.  A call that fails compiles nobody.
Compile(chars) ==
    /\ at = "compile"
    /\ IF task.mode = "strict" /\ ~Cited
       THEN at' = "stopped" /\ UNCHANGED written
       ELSE written' = chars /\ at' = "finalize"
    /\ UNCHANGED <<rec, votes, task, runs, found, pack>>

Of(keys) == {k \in DOMAIN written : written[k].key \in keys}

\* by_input: of two with one name the later counts.
Must(key) == LET last == CHOOSE k \in Of({key}) : \A j \in Of({key}) : j <= k IN written[last].must
Input == {written[k].key : k \in DOMAIN written}

\* Mutant: a name is not crossed off when a group has taken it.
MembersTwice(groups, i) == groups[i].aliases \intersect Input

\* A name belongs to the first group that lists it.
Members(groups, i) == (groups[i].aliases \intersect Input) \ UNION {groups[j].aliases : j \in 1..(i - 1)}

First == CHOOSE k \in Keys : TRUE

\* A canonical name must be one of the group's own; the fullest entry's is taken else.
Fits(groups, names) ==
    \A i \in DOMAIN groups :
        LET members == Members(groups, i)
        IN names[i] \in (IF members = {} THEN {First}
                         ELSE IF groups[i].canonical \in members THEN {groups[i].canonical} ELSE members)

\* _finalize_research_pack: one entry for each group, one for each name left over, and
\* those out that the answer puts out under the entry's own name.
Merged(groups, names) ==
    {[name |-> names[i], must |-> \E k \in Members(groups, i) : Must(k), of |-> Members(groups, i)] :
        i \in {j \in DOMAIN groups : Members(groups, j) # {}}}
      \union {[name |-> k, must |-> Must(k), of |-> {k}] :
        k \in Input \ UNION {groups[j].aliases : j \in DOMAIN groups}}

Entries(groups, names, out) ==
    {[name |-> m.name, of |-> m.of, in |-> m.name \notin out, must |-> m.must /\ m.name \notin out] :
        m \in Merged(groups, names)}

\* One call for aliases and for what belongs; too few characters, or its failure, leave
\* the list as it is, doubles included.
Raw == {[name |-> written[k].key, of |-> {written[k].key}, in |-> TRUE, must |-> written[k].must] : k \in DOMAIN written}
Finalize(groups, names, out) ==
    /\ at = "finalize"
    /\ Fits(groups, names)
    /\ pack' = IF Len(written) < 2 THEN Raw ELSE Entries(groups, names, out)
    /\ at' = "gate"
    /\ UNCHANGED <<rec, votes, task, runs, found, written>>

FinalizeFails ==
    /\ at = "finalize"
    /\ pack' = Raw /\ at' = "gate"
    /\ UNCHANGED <<rec, votes, task, runs, found, written>>

\* Mutant: those who were put out count.
CanonOfAll == pack

\* canon_characters.
InCanon == {c \in pack : c.in}

\* The pack is too thin, or not proven: a strict run stops, a loose one goes on without
\* it when it is thin.
Gate ==
    /\ at = "gate"
    /\ at' = IF task.mode = "strict" /\ (Cardinality(InCanon) < Least \/ ~Cited) THEN "stopped"
             ELSE IF Cardinality(InCanon) < Least THEN "degraded" ELSE "packed"
    /\ UNCHANGED <<rec, votes, task, runs, found, written, pack>>

---------------------------------------------------------------------------
Init ==
    /\ rec = None /\ votes = 0 /\ runs = 0
    /\ task = [phase |-> "A", recognized |-> None, given |-> None, mode |-> "none"]
    /\ found = <<>> /\ written = <<>> /\ pack = None
    /\ at = "voting"

Upto(S, n) == UNION {[1..k -> S] : k \in 0..n}

\* A canonical name from outside the group is as good as none.
Group == {g \in [canonical : Keys \union {None}, aliases : SUBSET Keys] :
             g.canonical # None => g.canonical \in g.aliases}

Next ==
    \/ Titled
    \/ \E a \in Recognition \union {None} : Vote(a) \/ Rescue(a)
    \/ \E r \in {rec, Original} : Recognized(r)
    \/ \E m \in {"strict", "loose", "none"} : Continue(m)
    \/ Skip \/ Nameless
    \/ \E rs \in [1..2 -> {"nothing", "bare", "cited"}] : Search(rs)
    \/ \E cs \in Upto([key : Keys, must : BOOLEAN], Longest) : Compile(cs)
    \/ /\ at = "finalize"
       /\ \E gs \in Upto(Group, Groups), out \in SUBSET Keys :
             \E names \in [DOMAIN gs -> Keys] : Finalize(gs, names, out)
    \/ FinalizeFails \/ Gate

Spec == Init /\ [][Next]_vars

---------------------------------------------------------------------------
(* Properties *)

\* Whatever groups the model forms, each name that was compiled is in exactly one entry
\* of the pack, and no two entries have one name (ip_research_pipeline.py
\* _finalize_research_pack; when its call fails nothing is merged).
EveryoneOnce ==
    at = "gate" => /\ \A k \in Input : \E c \in pack : k \in c.of
                   /\ \A c, d \in pack : c.name = d.name \/ c.of \intersect d.of # {} => c.name = d.name /\ c.of = d.of

\* A pack a strict run goes on with has a source and enough characters who belong to
\* the work (world_creator_agent_v2.py: "Strict fidelity is a contract").
StrictIsProven ==
    at = "packed" /\ task.mode = "strict" =>
        Cited /\ Cardinality({c \in pack : c.in}) >= Least

\* A strict run of a work that was recognized is researched or stopped.  The code does
\* not hold this: after a run of phase B the latest task has recognized nothing, and the
\* next choice makes an original world (world_creator_agent_v2.py: "it must stop before
\* builders can silently produce a free-styled imitation").
StrictIsResearched == at = "skipped" => ~(task.mode = "strict" /\ IsHit(rec))

\* Whom the last call puts out is out, under whichever of his names (the prompt asks for
\* the name as it was put in).  The code does not hold this for a name that was merged
\* into another.
OutIsOut ==
    [][\A gs \in Upto(Group, Groups), out \in SUBSET Keys : \A names \in [DOMAIN gs -> Keys] :
          at = "finalize" /\ Len(written) >= 2 /\ Finalize(gs, names, out) =>
             \A c \in pack' : c.of \intersect out # {} => ~c.in]_vars
=============================================================================
