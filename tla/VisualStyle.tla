----------------------------- MODULE VisualStyle -----------------------------
(***************************************************************************)
(* The art style of a world and of what belongs to it: pick_art_style and  *)
(* its helpers in services/cover_brief.py, derive_world_cover_brief of     *)
(* services/cover_brief_helper.py, the stage that keeps it                 *)
(* (_run_visual_brief_stage of services/world_creator_agent_v2.py), the    *)
(* pictures made later (services/image_regeneration.py), and the way of    *)
(* the style into the world's row (apply_world_payload of                  *)
(* services/publish_service.py).                                           *)
(*                                                                         *)
(* A model says anew for every brief what genre and culture the world is   *)
(* of and which styles would suit it; it may fail, and what it says of an  *)
(* unknown culture or style is not heard.  The code picks by the hash of   *)
(* the world's name.  A score is in hundredths.                            *)
(***************************************************************************)
EXTENDS Integers, Sequences, FiniteSets, SequencesExt

CONSTANTS
    None,
    Styles,
    Allowed,   \* per culture the styles it may have
    Pools,     \* per genre its styles in order; "other" is one of the genres
    Default,   \* a style that every culture may have
    Hash,      \* per name of a world the hash by which its style is picked, in 0..99
    Scores,    \* that a style may get
    Longest,   \* of the scores in an answer: a bound
    Targets    \* pictures of a draft

VARIABLES
    draft,     \* [name, lore, visual]: lore says whether it has a lore pack
    world,     \* [name, visual] of its row, None if it is not published
    arts       \* per picture, "script" is the cover of a script, what it was made in

vars == <<draft, world, arts>>

Cultures == DOMAIN Allowed
Genres == DOMAIN Pools
\* Those of a list that are in S, in their order.
Those(list, S) ==
    LET out[k \in 0..Len(list)] ==
          IF k = 0 THEN << >> ELSE IF list[k] \in S THEN Append(out[k - 1], list[k]) ELSE out[k - 1]
    IN out[Len(list)]

ToMap(scores) == [s \in {scores[i].style : i \in DOMAIN scores} |-> scores[CHOOSE i \in DOMAIN scores : scores[i].style = s].score]

\* style_allowed_for_culture: without a culture every style is.
Suits(style, culture) == style \in Styles /\ (culture \in Cultures => style \in Allowed[culture])

\* filtered_style_pool
Pool(genre, culture) ==
    LET fit == {s \in Styles : Suits(s, culture)}
        of == Those(Pools[IF genre \in Genres THEN genre ELSE "other"], fit)
        other == Those(Pools["other"], fit)
    IN IF of # << >> THEN of ELSE IF culture \in Cultures /\ other # << >> THEN other ELSE <<Default>>

\* Of one style the first score counts.
Heard(scores, S) ==
    LET out[k \in 0..Len(scores)] ==
          IF k = 0 THEN << >>
          ELSE IF scores[k].style \in S \ {out[k - 1][i].style : i \in DOMAIN out[k - 1]}
          THEN Append(out[k - 1], scores[k]) ELSE out[k - 1]
    IN out[Len(scores)]

\* In a list with the highest first, behind those that are no lower.
Placed(list, x) ==
    LET above == Cardinality({i \in DOMAIN list : list[i].score >= x.score})
    IN SubSeq(list, 1, above) \o <<x>> \o SubSeq(list, above + 1, Len(list))

\* The six highest, the highest first.
Highest(scores) ==
    LET out[k \in 0..Len(scores)] == IF k = 0 THEN << >> ELSE Placed(out[k - 1], scores[k])
        all == out[Len(scores)]
    IN SubSeq(all, 1, IF Len(all) < 6 THEN Len(all) ELSE 6)

\* Mutant: the model's favourites join whatever the culture.
SanitizedByName(scores, culture) == Highest(Heard(scores, Styles))

\* _sanitize_style_scores: none of what the culture forbids.
Sanitized(scores, culture) == Highest(Heard(scores, {s \in Styles : Suits(s, culture)}))

\* At most two styles that are not in the pool join it, if they suit very well.
Surprises(pool, scores) ==
    LET high == Those(scores, {x \in ToSet(scores) : x.score >= 82 /\ x.style \notin ToSet(pool)})
    IN [k \in 1..(IF Len(high) < 2 THEN Len(high) ELSE 2) |-> high[k].style]

\* Those that suit badly go, unless only two are left.
Weighted(genre, culture, scores) ==
    LET pool == Pool(genre, culture)
        candidates == pool \o Surprises(pool, scores)
        map == ToMap(scores)
        stays(s) == ~(s \in DOMAIN map /\ map[s] < 28 /\ Len(candidates) > 2)
        weight(s) == IF s \in DOMAIN map THEN 35 + map[s] ELSE 75
        left == Those(candidates, {s \in ToSet(candidates) : stays(s)})
    IN IF left = << >> THEN [k \in DOMAIN pool |-> [style |-> pool[k], weight |-> 100]]
       ELSE [k \in DOMAIN left |-> [style |-> left[k], weight |-> weight(left[k])]]

Total(list) == FoldLeft(LAMBDA sum, x : sum + x.weight, 0, list)

\* _deterministic_weighted_pick: the hash says where in the sum of the weights the style is.
Picked(list, hash) ==
    IF \A i, j \in DOMAIN list : list[i].weight = list[j].weight THEN list[(hash % Len(list)) + 1].style
    ELSE LET reached == {i \in DOMAIN list : hash * Total(list) < 100 * Total(SubSeq(list, 1, i))}
         IN list[IF reached = {} THEN Len(list) ELSE CHOOSE i \in reached : \A j \in reached : i <= j].style

\* derive_world_cover_brief: the style that is kept wins, if it suits the culture.
Brief(name, visual, said) ==
    LET here == IF visual # None /\ visual.culture # None THEN visual.culture ELSE said.culture
    IN IF visual # None /\ Suits(visual.art, here)
       THEN [art |-> visual.art, culture |-> here]
       ELSE [art |-> Picked(Weighted(said.genre, said.culture, Sanitized(said.scores, said.culture)), Hash[name]), culture |-> said.culture]

Answers ==
    [genre : Genres, culture : Cultures \union {None},
     scores : UNION {[1..k -> [style : Styles, score : Scores]] : k \in 0..Longest}]

Init ==
    /\ draft \in [name : DOMAIN Hash, lore : BOOLEAN, visual : {None}]
    /\ world = None
    /\ arts = [t \in Targets \union {"script"} |-> None]

\* A world is generated: the style is kept, and all pictures are in it.  A draft may also be
\* written by hand, and then has none.
Generate(said) ==
    /\ draft.visual = None /\ world = None /\ \A t \in Targets : arts[t] = None
    /\ LET new == Brief(draft.name, None, said)
       IN /\ draft' = [draft EXCEPT !.visual = new]
          /\ arts' = [t \in DOMAIN arts |-> IF t \in Targets THEN new ELSE arts[t]]
    /\ UNCHANGED world

Rename(name) ==
    /\ draft' = [draft EXCEPT !.name = name]
    /\ UNCHANGED <<world, arts>>

\* Mutant: a lore pack replaces that of the world, and the style stays behind in the draft.
LoreAsItIs(payload, row) == IF payload.lore THEN None ELSE row

\* apply_world_payload: the style goes into the lore pack, which a payload with one replaces.
Lore(payload, row) ==
    IF payload.visual # None THEN payload.visual
    ELSE IF payload.lore THEN None ELSE row

Publish ==
    /\ world' = [name |-> draft.name, visual |-> Lore(draft, IF world = None THEN None ELSE world.visual)]
    /\ UNCHANGED <<draft, arts>>

\* A picture of the draft is made anew; what the draft keeps stays.
Redo(t, said) ==
    /\ arts' = [arts EXCEPT ![t] = Brief(draft.name, draft.visual, said)]
    /\ UNCHANGED <<draft, world>>

\* The cover of a script, at first or anew, goes by the world.
Script(said) ==
    /\ world # None
    /\ arts' = [arts EXCEPT !["script"] = Brief(world.name, world.visual, said)]
    /\ UNCHANGED <<draft, world>>

Next ==
    \/ \E said \in Answers : Generate(said) \/ Script(said) \/ \E t \in Targets : Redo(t, said)
    \/ \E name \in DOMAIN Hash : Rename(name)
    \/ Publish

Spec == Init /\ [][Next]_vars

------------------------------------------------------------------------------
(* Properties *)

\* A style suits the culture of its world, whatever the model would like and however little is
\* left of a genre's styles (cover_brief.py: the hard filter).
StyleSuits == \A t \in DOMAIN arts : arts[t] # None => Suits(arts[t].art, arts[t].culture)

\* Once a world has a style and a culture, all its pictures and those of its scripts are in that
\* style, whatever the model says later, renamed or published (cover_brief_helper.py: a world
\* family does not drift).
OneStyle ==
    draft.visual # None /\ draft.visual.culture # None =>
        \A t \in DOMAIN arts : arts[t] # None => arts[t].art = draft.visual.art

\* Not so without a culture, as when the model failed: a later culture may forbid the style.
NeverDrifts == draft.visual # None => \A t \in DOMAIN arts : arts[t] # None => arts[t].art = draft.visual.art
==============================================================================
