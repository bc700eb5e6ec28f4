--------------------------- MODULE ScriptGeneration ---------------------------
(***************************************************************************)
(* A script of a world from its generation to a game on it: create_script   *)
(* of services/world_creator_agent_v2.py with the characters it may add to  *)
(* the cast (services/script_roster_augmentation.py), the draft, the gates  *)
(* of publication (services/publish_service.py, generation_schema.py,       *)
(* cross_artifact_validator.py), and who plays whom in a game               *)
(* (services/game_service.py).  Meanwhile the author may publish the world  *)
(* again with other characters.                                             *)
(*                                                                         *)
(* A script's texts and pictures are left out; so are the critics, who only *)
(* warn, and edits of the draft.  A row of a character is its name and      *)
(* which of the rows of that name it is: a character that is removed and    *)
(* added again is another row.  Events are told by the NPC they wait for.   *)
(***************************************************************************)
EXTENDS Integers, FiniteSets

CONSTANTS
    None,
    Names,        \* names of characters
    Canon,        \* those of the original work's pack, which a script may add
    Additions,    \* how many it may add
    Few,          \* no more candidates than this: all are chosen (3)
    Target,       \* how many a model may choose
    MinEndings,   \* fewer and the generation stops (2)
    Enough,       \* so many valid endings make up for invalid ones (3)
    Attempts,     \* of asking for endings
    MinEvents,    \* what publication asks for (3)
    EventCounts,  \* how many events the builder may return
    Rows          \* how many rows a name may have had: a bound

VARIABLES
    world,    \* the rows of the world's characters: name, row, playable
    used,     \* how many rows each name has had
    seen,     \* the world as the generation read it
    stage,    \* of the generation
    tries,    \* attempts at the endings
    made,     \* what it has made so far
    draft,    \* the payload of the draft, None before there is one
    script,   \* the row of the script
    game      \* a game on it: the row of who is played

vars == <<world, used, seen, stage, tries, made, draft, script, game>>

Character == [name : Names, row : 1..Rows, playable : BOOLEAN]
NamesOf(cs) == {c.name : c \in cs}
Ids(cs) == {<<c.name, c.row>> : c \in cs}
Playable(cs) == {c \in cs : c.playable}

Nothing == [pack |-> FALSE, locals |-> {}, waits |-> {}, present |-> {}, events |-> 0, disabled |-> FALSE, endings |-> 0, chosen |-> {}]

---------------------------------------------------------------------------
(* Generation: what a model answers is any answer the parser lets through *)

\* _build_script_world_data, and what of the original work the world inherited.
Begin(strict) ==
    /\ stage = "none"
    /\ seen' = world
    /\ made' = [Nothing EXCEPT !.pack = strict]
    /\ stage' = "augment" /\ tries' = 0
    /\ UNCHANGED <<world, used, draft, script, game>>

\* Of the original work, whom the world lacks.
Pool == IF made.pack THEN Canon \ NamesOf(seen) ELSE {}

\* augment_script_roster: any failure adds nobody.
Augment(names) ==
    /\ stage = "augment"
    /\ names \subseteq Pool /\ Cardinality(names) <= Additions
    /\ made' = [made EXCEPT !.locals = names]
    /\ stage' = "events"
    /\ UNCHANGED <<world, used, seen, tries, draft, script, game>>

Cast == NamesOf(seen) \union made.locals

\* build_events_data: an event that waits for somebody unknown is kept and disabled;
\* three failures leave a script without events.
Events(count, waits) ==
    /\ stage = "events"
    /\ count = 0 => waits = {}
    /\ Cardinality(waits) <= count
    /\ made' = [made EXCEPT !.events = count, !.waits = waits \intersect Cast, !.disabled = ~(waits \subseteq Cast)]
    /\ stage' = "endings"
    /\ UNCHANGED <<world, used, seen, tries, draft, script, game>>

\* _generate_endings_v2: an answer without a flaw is taken however short it is.
Endings(valid, flawed) ==
    /\ stage = "endings"
    /\ IF valid >= Enough \/ (valid > 0 /\ ~flawed)
       THEN made' = [made EXCEPT !.endings = valid] /\ stage' = "counted" /\ UNCHANGED tries
       ELSE /\ tries' = tries + 1
            /\ stage' = IF tries + 1 = Attempts THEN "counted" ELSE stage
            /\ UNCHANGED made
    /\ UNCHANGED <<world, used, seen, draft, script, game>>

\* Fewer than two endings end the run with an error.
Count ==
    /\ stage = "counted"
    /\ stage' = IF made.endings < MinEndings THEN "aborted" ELSE "playable"
    /\ UNCHANGED <<world, used, seen, tries, made, draft, script, game>>

\* _select_script_playable_curated: all of a few, the first of a world without any,
\* some of many, or all of them when the answer is of no use.
Choices ==
    LET all == Playable(seen)
        some == {c \in SUBSET all : c # {} /\ Cardinality(c) <= Target}
    IN IF all = {} THEN {seen}
       ELSE {all} \union (IF Cardinality(all) > Few THEN some ELSE {})

\* Who is not playable in the world has no id to be chosen by.
Choose(cs) ==
    /\ stage = "playable"
    /\ cs \in Choices
    /\ made' = [made EXCEPT !.chosen = Ids(Playable(cs))]
    /\ stage' = "result"
    /\ UNCHANGED <<world, used, seen, tries, draft, script, game>>

\* Mutant: the draft forgets whom the script added.
NormalizeOldFields(payload) == [payload EXCEPT !.locals = {}]

\* normalize_script_payload forwards what the generation made.
Normalize(payload) == payload

\* apply_result_payload; the task is over.
Result ==
    /\ stage = "result"
    /\ draft' = Normalize(made)
    /\ stage' = "done"
    /\ UNCHANGED <<world, used, seen, tries, made, script, game>>

---------------------------------------------------------------------------
(* The author *)

\* apply_world_payload: rows are found by name; who is left out goes, unless a game
\* is played as him, and then stays as he was.
Edit(names, playable) ==
    LET kept == {c \in world : c.name \in names}
        held == {c \in world : c.name \notin names /\ game # None /\ <<c.name, c.row>> = game.plays}
        new == names \ NamesOf(world)
    IN
    /\ \A n \in new : used[n] < Rows
    /\ world' = held
         \union {[c EXCEPT !.playable = c.name \in playable] : c \in kept}
         \union {[name |-> n, row |-> used[n] + 1, playable |-> n \in playable] : n \in new}
    /\ used' = [n \in Names |-> IF n \in new THEN used[n] + 1 ELSE used[n]]
    /\ UNCHANGED <<seen, stage, tries, made, draft, script, game>>

\* validate_script_payload: the schema, and no event the generator gave up.
WellFormed(payload) == payload.events >= MinEvents /\ payload.endings >= MinEndings /\ ~payload.disabled

\* validate_cross_artifact looks at a list of present NPCs, which the builder of events
\* leaves empty: it lets every generated event pass.
Crossed(payload) == payload.present \subseteq NamesOf(world) \union payload.locals

\* apply_script_payload: the chosen who can still be played.
Roster(payload) == payload.chosen \intersect Ids(Playable(world))

\* _materialize_script_draft for a private save and for publication.
Materialize(public) ==
    /\ draft # None /\ WellFormed(draft) /\ Crossed(draft)
    /\ script # None => (script.public => public)
    /\ script' = [public |-> public, locals |-> draft.locals, waits |-> draft.waits, roster |-> Roster(draft)]
    /\ UNCHANGED <<world, used, seen, stage, tries, made, draft, game>>

---------------------------------------------------------------------------
(* Games *)

\* Mutant: the roster is not asked.
MayBeAnybody(c) == c \in world

\* start_game asks the roster of a script that has one, and whether the row is there.
MayBe(c) == c \in world /\ (script.roster # {} => <<c.name, c.row>> \in script.roster)

\* Only the author may start a private script, and nobody's opening can load one.
Start(c) ==
    /\ game = None /\ script # None /\ MayBe(c)
    /\ game' = [plays |-> <<c.name, c.row>>, name |-> c.name, opened |-> script.public]
    /\ UNCHANGED <<world, used, seen, stage, tries, made, draft, script>>

Leave == game # None /\ game' = None /\ UNCHANGED <<world, used, seen, stage, tries, made, draft, script>>

\* _load_session_npcs: the world's but the player, and the script's whose name is free.
Attached == {n \in script.locals : n \notin NamesOf(world) /\ n # game.name}
Npcs == {c.name : c \in {d \in world : <<d.name, d.row>> # game.plays}} \union Attached

---------------------------------------------------------------------------
Init ==
    /\ \E names \in SUBSET Names, playable \in SUBSET Names :
          /\ names # {} /\ playable \subseteq names
          /\ world = {[name |-> n, row |-> 1, playable |-> n \in playable] : n \in names}
          /\ used = [n \in Names |-> IF n \in names THEN 1 ELSE 0]
    /\ seen = {} /\ stage = "none" /\ tries = 0 /\ made = Nothing
    /\ draft = None /\ script = None /\ game = None

Next ==
    \/ \E strict \in BOOLEAN : Begin(strict)
    \/ \E names \in SUBSET Canon : Augment(names)
    \/ \E count \in EventCounts, waits \in SUBSET Names : Events(count, waits)
    \/ \E valid \in 0..Enough, flawed \in BOOLEAN : Endings(valid, flawed)
    \/ Count
    \/ \E cs \in SUBSET seen : Choose(cs)
    \/ Result
    \/ \E names \in SUBSET Names : \E playable \in SUBSET names : Edit(names, playable)
    \/ \E public \in BOOLEAN : Materialize(public)
    \/ \E c \in world : Start(c)
    \/ Leave

Spec == Init /\ [][Next]_vars

---------------------------------------------------------------------------
(* Properties *)

\* Whomever an event waits for takes part in a game, unless the author has removed him
\* from the world since the script was generated: what the script added to the cast
\* goes with it from the generator through the draft to the game
\* (world_creator_agent_v2.py: the locals, publish_service.py, game_service.py).
EventsHaveTheirCast ==
    game # None /\ script # None =>
        \A n \in script.waits : n \in Npcs \/ n = game.name \/ n \in NamesOf(seen) \ NamesOf(world)

\* Who plays a script was chosen for it, unless none of the chosen could be played
\* any more when it was published (game_service.py:262, publish_service.py:416).
OnlyChosenPlay ==
    [][\A c \in world : Start(c) =>
          \/ <<c.name, c.row>> \in draft.chosen
          \/ script.roster = {}]_vars

\* The author can play his private script (publish_service.py:695 "a private script
\* must be playable by its owner").  The code does not hold this: start_game lets him
\* in and opens a session, and _load_world_data refuses every script that is not public.
PrivateIsPlayable == game # None => game.opened

\* An event of a script that is published waits for somebody there is
\* (publish_service.py:711).  The code does not hold this: the check reads a field the
\* generator does not write, so an edit of the world in between is not noticed.
PublishedHasCast ==
    [][\A public \in BOOLEAN : Materialize(public) => draft.waits \subseteq NamesOf(world) \union draft.locals]_vars
=============================================================================
