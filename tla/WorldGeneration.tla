-------------------------- MODULE WorldGeneration --------------------------
(***************************************************************************)
(* One run of create_world: the nodes of the pipeline in                   *)
(* services/world_creator_agent_v2.py, the builders they call              *)
(* (character_roster_builder, events_data_builder, shared_events_builder,  *)
(* relations_pack_builder), and the shell that starts, counts and ends     *)
(* them, validates the payload and repairs it                              *)
(* (services/world_generation_orchestrator.py).                            *)
(*                                                                         *)
(* What a language model answers is any answer of the shape the parser     *)
(* lets through.  A name is a pair: whom it names, and how it is written.  *)
(* Names are matched without the note in brackets in one place and         *)
(* literally in another, and that difference is kept; so is the one        *)
(* between two spellings of a place.  The order of lists is left out: a    *)
(* choice of the first is any choice.                                      *)
(*                                                                         *)
(* Lore, texts, relations between characters, pictures and the events of   *)
(* the stream are left out, and so is the record of the actions taken:     *)
(* nothing in a run reads them.  A value that no later node reads is       *)
(* dropped from the state.                                                 *)
(***************************************************************************)
EXTENDS Integers, Sequences, FiniteSets

CONSTANTS
    Persons,        \* whom a writer may name
    Canon,          \* those of the original work, when there is one
    Places,         \* where characters may be
    Fidelities,     \* modes of the runs that are looked at
    MinCharacters,  \* below it the run stops early (3 in the code)
    MinEvents,      \* the same for events (5)
    RolesMin,       \* the scale's lower bound on characters
    RolesTarget,    \* how many it asks for
    PlayableMin, PlayableMax, \* its bounds on the characters one may play
    EventsTarget,   \* events it asks for
    EventCounts,    \* how many events a builder may return
    CallBudget,     \* calls to the language model the run may make
    NodeBudget,     \* nodes it may complete
    Extra           \* calls a node may make beyond its estimate

ASSUME ConstantsAssumption ==
    /\ Canon \subseteq Persons /\ IsFiniteSet(Persons) /\ IsFiniteSet(Places)
    /\ Fidelities \subseteq {"strict", "loose", "none"}
    /\ {MinCharacters, MinEvents, RolesMin, RolesTarget, PlayableMin, PlayableMax,
        EventsTarget, CallBudget, NodeBudget} \subseteq Nat
    /\ EventCounts \subseteq 0 .. EventsTarget /\ Extra \subseteq Nat /\ 0 \in Extra

VARIABLES
    fidelity,  \* the mode of the run
    pack,      \* what research found about the original work
    draft,     \* what the builders have made so far
    world,     \* the payload
    painted,   \* calls to the image model were made
    at,        \* the next node of the pipeline, or the one that runs
    row,       \* status of the persisted row of each node
    calls,     \* calls planned, and calls made
    end        \* how the run ended

vars == <<fidelity, pack, draft, world, painted, at, row, calls, end>>
content == <<fidelity, pack, draft, world, painted>>

Pipeline == <<"research_pack", "ip_research", "world_director", "world_base",
              "skeleton_builders", "detail_builders", "shared_events", "relations_pack",
              "events_data", "playable", "free_start_stages", "critic", "visual_brief",
              "images", "validating">>
Nodes == {Pipeline[i] : i \in DOMAIN Pipeline}

\* A name with or without a note in brackets ("Yunli (the sorrowful prince)").
Names == Persons \X {"plain", "noted"}
Plain(ps) == {<<p, "plain">> : p \in ps}

\* _norm_name: the note is cut off.
Norm(name) == name[1]
Norms(names) == {Norm(n) : n \in names}

\* "West Garden", the same with a space in it, and "Palace.West Garden".
PlaceNames == Places \X {"plain", "spaced", "within"}

\* Spaces and dots are cut out: a compound stays another name.
PlaceKey(q) == IF q[2] = "within" THEN q ELSE <<q[1], "plain">>

NoPack == [found |-> FALSE, must |-> {}]
NoWorld == [chars |-> {}, places |-> {}, refs |-> {}, playable |-> {}, events |-> 0, live |-> 0, cast |-> {}]
Worlds == [chars : SUBSET Names, places : SUBSET PlaceNames, refs : SUBSET PlaceNames,
           playable : SUBSET Names, events : Nat, live : Nat, cast : SUBSET Names]

TypeOK ==
    /\ fidelity \in Fidelities
    /\ pack \in [found : BOOLEAN, must : SUBSET Canon]
    /\ draft \in Worlds /\ world \in Worlds
    /\ painted \in BOOLEAN
    /\ at \in 1 .. Len(Pipeline) + 1
    /\ row \in [Nodes -> {"none", "running", "succeeded", "failed"}]
    /\ calls \in [planned : Nat, made : Nat]
    /\ end \in {"running", "result", "failed", "aborted", "killed", "stuck"}

Init ==
    /\ fidelity \in Fidelities
    /\ pack = NoPack
    /\ draft = NoWorld /\ world = NoWorld
    /\ painted = FALSE
    /\ at = 1
    /\ row = [n \in Nodes |-> "none"]
    /\ calls = [planned |-> 0, made |-> 0]
    /\ end = "running"

-----------------------------------------------------------------------------
(* The shell.                                                              *)

Ceil(a, b) == (a + b - 1) \div b
Greater(a, b) == IF a > b THEN a ELSE b

\* The mode other than "none" comes with a work that was recognised.
Dedicated == fidelity # "none"

Estimate(n) ==
    CASE n = "research_pack" -> IF Dedicated THEN 0 ELSE 2
      [] n = "ip_research" -> IF Dedicated THEN 4 ELSE 0
      [] n = "detail_builders" -> 1 + Ceil(RolesTarget, 6)
      [] n = "events_data" -> Ceil(EventsTarget, 3)
      [] n \in {"relations_pack", "playable", "images", "validating"} -> 0
      [] OTHER -> 1

HasSpec == at > 3
Completed(rows) == Cardinality({n \in Nodes : rows[n] = "succeeded"})

\* _check_budget, once there is a specification.
WithinBudget(c, rows, projected) ==
    /\ Completed(rows) <= NodeBudget
    /\ Greater(c.planned, c.made) + projected <= CallBudget

\* What create_world looks at between two nodes.
MayGoOn(n) ==
    /\ n = "shared_events" => Cardinality(draft.chars) >= MinCharacters
    /\ n = "playable" => draft.events >= MinEvents
    /\ n = "critic" => world # NoWorld

IsNext(n) == end = "running" /\ at <= Len(Pipeline) /\ Pipeline[at] = n /\ row[n] = "none"

\* stream_node and run_value_node, up to the first await of the node's work.
Start(n) ==
    /\ IsNext(n) /\ MayGoOn(n)
    /\ HasSpec => WithinBudget(calls, row, Estimate(n))
    /\ row' = [row EXCEPT ![n] = "running"]
    /\ calls' = [calls EXCEPT !.planned = @ + Estimate(n)]
    /\ UNCHANGED <<content, at, end>>

\* GenerationBudgetExceeded before the node has a row.
Overdrawn(n) ==
    /\ IsNext(n) /\ MayGoOn(n)
    /\ HasSpec /\ ~WithinBudget(calls, row, Estimate(n))
    /\ end' = "failed"
    /\ UNCHANGED <<content, at, row, calls>>

Running(n) == end = "running" /\ row[n] = "running"

\* Mutant: the budget is looked at before a node only.
FinishUnchecked(n) ==
    \E k \in Extra :
        /\ row' = [row EXCEPT ![n] = "succeeded"]
        /\ calls' = [calls EXCEPT !.made = @ + Estimate(n) + k]
        /\ end' = "running"
        /\ at' = at + 1

\* The row, the counters, and the budget again; the row of a node that worked
\* and went over the budget is written a second time, and its calls count twice.
Finish(n) ==
    \E k \in Extra :
        LET done == [row EXCEPT ![n] = "succeeded"]
            made == [calls EXCEPT !.made = @ + Estimate(n) + k]
            over == HasSpec /\ ~WithinBudget(made, done, 0)
        IN  /\ row' = IF over THEN [row EXCEPT ![n] = "failed"] ELSE done
            /\ calls' = IF over THEN [made EXCEPT !.made = @ + Estimate(n) + k] ELSE made
            /\ end' = IF over THEN "failed" ELSE "running"
            /\ at' = IF over THEN at ELSE at + 1

\* Mutant: a status the table does not know.
RaisesError(n) ==
    /\ Running(n)
    /\ row' = [row EXCEPT ![n] = "error"]
    /\ end' = "failed"
    /\ UNCHANGED <<content, at, calls>>

\* The node's work raises.
Raises(n) ==
    /\ Running(n)
    /\ row' = [row EXCEPT ![n] = "failed"]
    /\ end' = "failed"
    /\ UNCHANGED <<content, at, calls>>

\* Cancelled, or the process is gone: no handler catches it, the row stays.
Killed ==
    /\ end = "running"
    /\ end' = "killed"
    /\ UNCHANGED <<content, at, row, calls>>

-----------------------------------------------------------------------------
(* Research, scale, places, roster.                                        *)

\* A node whose product is not in the model.
Plods(n) ==
    /\ Running(n)
    /\ Finish(n)
    /\ UNCHANGED content

\* A pack with evidence and characters that must be there; in the loose mode
\* also one without, and none at all.
IpResearch ==
    /\ Running("ip_research")
    /\ pack' \in CASE fidelity = "strict" -> [found : {TRUE}, must : (SUBSET Canon) \ {{}}]
                   [] fidelity = "loose" -> [found : {TRUE}, must : SUBSET Canon] \cup {NoPack}
                   [] OTHER -> {NoPack}
    /\ Finish("ip_research")
    /\ UNCHANGED <<fidelity, draft, world, painted>>

\* plan, and set_spec, whose check no node is blamed for.
Director ==
    /\ Running("world_director")
    /\ \E k \in Extra :
           LET made == [calls EXCEPT !.made = @ + 1 + k]
               done == [row EXCEPT !["world_director"] = "succeeded"]
           IN  /\ row' = done /\ calls' = made /\ at' = at + 1
               /\ end' = IF WithinBudget(made, done, 0) THEN "running" ELSE "failed"
    /\ UNCHANGED content

\* Whatever places were written, or the ones of the pack.
WorldBase ==
    /\ Running("world_base")
    /\ \E ps \in SUBSET PlaceNames : draft' = [draft EXCEPT !.places = ps]
    /\ Finish("world_base")
    /\ UNCHANGED <<fidelity, pack, world, painted>>

\* Mutant: who is not in the canon stays.
KeepAll(names) == names

\* _prune_to_canon.
PruneToCanon(names) == IF Canon = {} THEN names ELSE {n \in names : Norm(n) \in Canon}

\* _ensure_must_have.
EnsureMustHave(names) == names \cup Plain(pack.must \ Norms(names))

\* The roster of the names the model has written.
Roster(names) ==
    LET kept == IF fidelity = "strict" /\ pack.found THEN PruneToCanon(names) ELSE names
    IN  IF pack.found THEN EnsureMustHave(kept) ELSE kept

Fewest(n, names) == IF Cardinality(names) < n THEN Cardinality(names) ELSE n

\* Flags are added up to the target when there are too few, and cut when too many.
MayBeFlagged(roster) ==
    {f \in SUBSET roster : Cardinality(f) \in Fewest(PlayableMin, roster) .. PlayableMax}

\* Dimensions of the lore, and the roster: none when the model cannot be used.
Skeleton ==
    /\ Running("skeleton_builders")
    /\ \/ \E names \in SUBSET Names :
              LET roster == Roster(names)
              IN  \E f \in MayBeFlagged(roster) :
                      draft' = [draft EXCEPT !.chars = roster, !.playable = f]
       \/ UNCHANGED draft
    /\ Finish("skeleton_builders")
    /\ UNCHANGED <<fidelity, pack, world, painted>>

-----------------------------------------------------------------------------
(* Characters in detail, and the places they refer to.                     *)

\* Mutant: the details are kept under whatever name they came with.
AsWritten(roster) == SUBSET roster

\* One character for an entry of the roster, under the roster's name; a
\* person the roster has twice comes once, and a batch may fail twice.
OnePerPerson(roster) ==
    {cs \in SUBSET roster : \A c, d \in cs : Norm(c) = Norm(d) => c = d}

\* _union_back_locations: a place referred to is listed, unless its key is.
UnionBack(places, refs) ==
    LET known == {PlaceKey(q) : q \in places}
        news == {q \in refs : PlaceKey(q) \notin known}
    IN  places \cup {CHOOSE q \in news : PlaceKey(q) = k : k \in {PlaceKey(q) : q \in news}}

\* _dedup_location_aliases: one entry for a key, and a compound gives way to
\* the entry of its last segment.
Survivor(places, q) ==
    LET of(k) == CHOOSE p \in places : PlaceKey(p) = k
        last == <<q[1], "plain">>
    IN  IF PlaceKey(q) # last /\ \E p \in places : PlaceKey(p) = last THEN of(last) ELSE of(PlaceKey(q))

Deduped(places) == {Survivor(places, q) : q \in places}
Renamed(places, refs) == {IF q \in places THEN Survivor(places, q) ELSE q : q \in refs}

\* Details, then the places, then the first gate.
Details ==
    /\ Running("detail_builders")
    /\ \E cs \in OnePerPerson(draft.chars), refs \in SUBSET PlaceNames :
           LET listed == UnionBack(draft.places, refs)
           IN  /\ cs = {} => refs = {}
               /\ draft' = [draft EXCEPT !.chars = cs, !.playable = @ \cap cs,
                                         !.places = Deduped(listed), !.refs = Renamed(listed, refs)]
    /\ Finish("detail_builders")
    /\ UNCHANGED <<fidelity, pack, world, painted>>

\* Two places listed under one and the same name: the name is mapped to itself, and the
\* search for the last name it leads to never ends, nor does the process do anything else.
Loops ==
    /\ Running("detail_builders") /\ draft.places # {}
    /\ row' = [row EXCEPT !["detail_builders"] = "succeeded"]
    /\ \E k \in Extra : calls' = [calls EXCEPT !.made = @ + Estimate("detail_builders") + k]
    /\ WithinBudget(calls', row', 0)
    /\ end' = "stuck"
    /\ UNCHANGED <<content, at>>

-----------------------------------------------------------------------------
(* Events, and who may be played.                                          *)

\* pipeline_aborted_low_content: an error event, no result, and no exception.
TooLittle ==
    /\ IsNext("shared_events") \/ IsNext("playable")
    /\ ~MayGoOn(Pipeline[at])
    /\ end' = "aborted"
    /\ UNCHANGED <<content, at, row, calls>>

\* Mutant: whom an event names is not looked up.
AnyCast(names, chars) == names

\* Names that are not characters are filtered out of what refers to them.
InCast(names, chars) == names \cap chars

\* Shared events, and the relations drawn from them.
SharedEvents ==
    /\ Running("shared_events")
    /\ \E names \in SUBSET Names : draft' = [draft EXCEPT !.cast = InCast(names, draft.chars)]
    /\ Finish("shared_events")
    /\ UNCHANGED <<fidelity, pack, world, painted>>

\* build_events_data: an event whose condition does not parse, or whose
\* actor is unknown, is kept, disabled.
BuiltEvents(w, n, live, names) ==
    [w EXCEPT !.events = n, !.live = live, !.cast = @ \cup InCast(names, w.chars)]

EventsData ==
    /\ Running("events_data")
    /\ \E n, live \in EventCounts, names \in SUBSET Names :
           live <= n /\ draft' = BuiltEvents(draft, n, live, names)
    /\ Finish("events_data")
    /\ UNCHANGED <<fidelity, pack, world, painted>>

\* The flagged characters and those whose role says so, or the first few:
\* in each case somebody.
Playable ==
    /\ Running("playable")
    /\ \E ps \in SUBSET draft.chars :
           draft.playable \subseteq ps /\ ps # {} /\ draft' = [draft EXCEPT !.playable = ps]
    /\ Finish("playable")
    /\ UNCHANGED <<fidelity, pack, world, painted>>

-----------------------------------------------------------------------------
(* The contract.                                                           *)

RolesNeeded == Greater(RolesMin, Cardinality(pack.must))
EventsNeeded == Greater(3, EventsTarget \div 2)

\* Mutant: the last check is the first one again.
BlockedEarly(w, final) ==
    \/ Cardinality(w.chars) < RolesNeeded
    \/ ~Plain(pack.must) \subseteq w.chars
    \/ Cardinality(w.playable) < PlayableMin

\* What no repair can mend.
Blocked(w, final) ==
    \/ Cardinality(w.chars) < RolesNeeded
    \/ ~Plain(pack.must) \subseteq w.chars
    \/ Cardinality(w.playable) < PlayableMin
    \/ final /\ w.events < EventsNeeded

\* Mutant: what characters refer to is not added to the places.
RepairCast(w) == [w EXCEPT !.playable = @ \cap w.chars]

\* _repair_payload, which validate_and_repair_payload runs when it would
\* change something.
Repaired(w) == [w EXCEPT !.playable = @ \cap w.chars, !.places = @ \cup w.refs]

\* The working payload, and the first check of it.
Assemble ==
    /\ IsNext("critic") /\ world = NoWorld
    /\ world' = Repaired(draft)
    /\ draft' = NoWorld
    /\ end' = IF Blocked(Repaired(draft), FALSE) THEN "failed" ELSE "running"
    /\ UNCHANGED <<fidelity, pack, painted, at, row, calls>>

\* _backfill_missing_must_have: nobody plays a character that is put back.
Backfilled(w) == [w EXCEPT !.chars = @ \cup Plain(pack.must \ Norms(@))]

\* A red flag has the events built again, once; an empty answer changes nothing.
Critic ==
    /\ Running("critic")
    /\ \/ world' = Backfilled(world)
       \/ \E n, live \in EventCounts, names \in SUBSET Names :
              /\ 0 < n /\ live <= n
              /\ world' = Backfilled(BuiltEvents(world, n, live, names))
    /\ Finish("critic")
    /\ UNCHANGED <<fidelity, pack, draft, painted>>

\* Skipped without a generator or a brief; a picture that fails is a placeholder.
Images ==
    /\ Running("images")
    /\ painted' \in BOOLEAN
    /\ Finish("images")
    /\ UNCHANGED <<fidelity, pack, draft, world>>

\* The second check, and the result.
Deliver ==
    /\ end = "running" /\ at > Len(Pipeline)
    /\ world' = Repaired(world)
    /\ end' = IF Blocked(Repaired(world), TRUE) THEN "failed" ELSE "result"
    /\ UNCHANGED <<fidelity, pack, draft, painted, at, row, calls>>

\* A run that has ended, or is stuck, does nothing more; any other can go on.
Over == end # "running" /\ UNCHANGED vars

-----------------------------------------------------------------------------
Next ==
    \/ \E n \in Nodes : Start(n) \/ Overdrawn(n) \/ Raises(n)
    \/ \E n \in {"research_pack", "relations_pack", "free_start_stages", "visual_brief", "validating"} :
           Plods(n)
    \/ IpResearch \/ Director \/ WorldBase \/ Skeleton \/ Details \/ Loops
    \/ TooLittle \/ SharedEvents \/ EventsData \/ Playable
    \/ Assemble \/ Critic \/ Images \/ Deliver
    \/ Killed \/ Over

Spec == Init /\ [][Next]_vars

-----------------------------------------------------------------------------
(* Properties.                                                             *)

\* A world that is delivered keeps the contract its run was planned with,
\* although it was rewritten after the check that came before the pictures.
ResultMeetsContract ==
    end = "result" =>
        /\ Plain(pack.must) \subseteq world.chars
        /\ Cardinality(world.chars) >= RolesNeeded
        /\ world.playable \subseteq world.chars /\ Cardinality(world.playable) >= PlayableMin
        /\ world.events >= EventsNeeded

\* Every place a delivered character refers to is one the player can be in,
\* under the very name that is referred to.
RefsResolve == end = "result" => world.refs \subseteq world.places

\* A strict run delivers characters of the original work, and no others.
StrictIsCanon == end = "result" /\ fidelity = "strict" => Norms(world.chars) \subseteq Canon

\* Nobody is in the world twice under two spellings of one name.
OnePersonOnce == \A c, d \in world.chars : Norm(c) = Norm(d) => c = d

\* Events and relations name characters of the world that is assembled from
\* them, whichever node wrote them last.
CastClosed == world.cast \subseteq world.chars

\* Whatever was pruned, renamed, backfilled and repaired on the way, a world is at one with
\* itself: places resolve, nobody is doubled, events and relations know their people, and a
\* strict run tells of the original's (world_generation_orchestrator.py, world_creator_agent_v2.py).
WorldIsConsistent == RefsResolve /\ OnePersonOnce /\ CastClosed /\ StrictIsCanon

\* No run is stopped for want of a character the critic would have put back:
\* "the last deterministic gate ... so that the protagonist cannot vanish".
LostIsBackfilled ==
    end = "failed" /\ world # NoWorld => Plain(pack.must) \subseteq world.chars

\* A delivered world has the events "that can be triggered" its scale asks for.
EnoughCanTrigger == end = "result" => world.live >= EventsNeeded

\* A world is delivered within the calls it was given, by nodes that all succeeded.
PaidFor ==
    end = "result" =>
        /\ Greater(calls.planned, calls.made) <= CallBudget
        /\ \A n \in Nodes : row[n] = "succeeded"

=============================================================================
