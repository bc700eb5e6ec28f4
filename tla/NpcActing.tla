------------------------------ MODULE NpcActing ------------------------------
(***************************************************************************)
(* How the NPCs of one turn decide what they do: each asks its model,      *)
(* which may look things up before it submits an action; what it submits   *)
(* is made well-formed; the prose is woven from all of them.               *)
(*                                                                         *)
(*   engine/npc_agent.py    the loop of queries, and the two steps of a    *)
(*                          climax                                         *)
(*   engine/npc_action.py   validate_action                                *)
(*   engine/npc_tools.py    the queries                                    *)
(*   engine/orchestrator.py the NPCs side by side, the order they are told *)
(*                          in, what stays of them                         *)
(***************************************************************************)
EXTENDS Integers, Sequences, FiniteSets, FiniteSetsExt, SequencesExt

CONSTANTS
    None,        \* nothing submitted
    Npcs,        \* the cast of the turn, 1..n in the director's order
    MaxQueries,  \* npc_action_max_tools_per_call
    Together     \* npc_max_concurrency

VARIABLES
    intensity,   \* dramatic_intensity
    role,        \* scene_role of each NPC
    mind,        \* of each NPC: its step, the rounds and queries of the step, its strategy
    action,      \* of each NPC: what it does, once it has decided
    woven,       \* the NPCs in the order the narrator is given them
    notes,       \* NPCs whose note becomes a memory of their own
    starved      \* NPCs whose step ran out of rounds though they never asked too much

vars == <<intensity, role, mind, action, woven, notes, starved>>

Roles == {"primary", "secondary", "background"}
Speaking == {"speak", "interject"}
Internal == {"observe", "scheme"}

\* What a model submits: its type, whether it says (or does) what the type asks
\* for, whether it notes something for itself, and whether it thinks it decisive.
Payloads ==
    {p \in [type : {"speak", "interject", "act", "scheme", "?"}, full : BOOLEAN,
            note : BOOLEAN, high : BOOLEAN] : p.high => p.full}

---------------------------------------------------------------------------
(* validate_action *)

Omitted == [type |-> "observe", full |-> FALSE, note |-> FALSE, high |-> FALSE, omitted |-> TRUE]

\* A background NPC neither interrupts nor dominates; an unknown type, or one
\* that lacks its words or its deed, is silent; the note is kept in either case.
Validated(r, p) ==
    IF p = None \/ p.type = "?" THEN Omitted
    ELSE LET type == IF p.type = "interject" /\ r = "background" THEN "observe" ELSE p.type
         IN [type    |-> type,
             full    |-> p.full /\ type \notin Internal,
             note    |-> p.note,
             high    |-> p.high /\ r # "background",
             omitted |-> type \in Speaking \union {"act"} /\ ~p.full]

Visible(a) == ~a.omitted /\ a.full

---------------------------------------------------------------------------
(* The loop *)

Waiting == [step |-> "queued", asked |-> 0, queries |-> 0, greedy |-> FALSE, plan |-> FALSE]
Running == {n \in Npcs : mind[n].step \in {"reflect", "act"}}
Climax(n) == intensity = "climax" /\ role[n] = "primary"

Begin(n) ==
    /\ mind[n].step = "queued"
    /\ Cardinality(Running) < Together
    /\ mind' = [mind EXCEPT ![n].step = IF Climax(n) THEN "reflect" ELSE "act"]
    /\ UNCHANGED <<intensity, role, action, woven, notes, starved>>

\* A step ends: reflecting leads to acting, with the strategy that was noted
\* down; acting ends with the action, which takes the strategy as its note when
\* it has none.
Ends(n, p) ==
    LET a == Validated(role[n], p)
    IN IF mind[n].step = "reflect"
       THEN /\ mind' = [mind EXCEPT ![n] = [Waiting EXCEPT !.step = "act", !.plan = a.note]]
            /\ UNCHANGED action
       ELSE /\ mind' = [mind EXCEPT ![n].step = "done"]
            /\ action' = [action EXCEPT ![n] = [a EXCEPT !.note = @ \/ mind[n].plan]]

\* Mutant: one round for every query.
RoundsOfQueries == MaxQueries

\* The rounds of a step: two more than there are queries.
Rounds == MaxQueries + 2

\* The queries a reply may hold: none in a turn whose model is given no query tools.
Queries == IF intensity = "low" THEN {0} ELSE 0..MaxQueries

\* The model answers with some queries and perhaps an action after them.  The
\* queries beyond the cap are passed over; a round that brings no action leads to
\* the next one, as long as there is one.
Reply(n, queries, p) ==
    LET m == mind[n]
        greedy == m.greedy \/ m.queries + queries > MaxQueries
        last == m.asked + 1 >= Rounds
    IN /\ n \in Running
       /\ queries > 0 \/ p # None
       /\ IF p # None \/ last
          THEN /\ Ends(n, p)
               /\ starved' = IF p = None /\ ~greedy THEN starved \union {n} ELSE starved
          ELSE /\ mind' = [mind EXCEPT ![n].asked = @ + 1, ![n].greedy = greedy,
                                       ![n].queries = Min({MaxQueries, @ + queries})]
               /\ UNCHANGED <<action, starved>>
       /\ UNCHANGED <<intensity, role, woven, notes>>

\* The model fails, or calls no tool at all: the step ends with nothing.
Mute(n) ==
    /\ n \in Running
    /\ Ends(n, None)
    /\ UNCHANGED <<intensity, role, woven, notes, starved>>

\* Only the steps of a climax have a time limit.  An act that is cut off says
\* nothing, and what was decided while reflecting goes with it.
Timeout(n) ==
    /\ n \in Running /\ Climax(n)
    /\ IF mind[n].step = "reflect"
       THEN Ends(n, None)
       ELSE /\ mind' = [mind EXCEPT ![n].step = "done"]
            /\ action' = [action EXCEPT ![n] = Omitted]
    /\ UNCHANGED <<intensity, role, woven, notes, starved>>

---------------------------------------------------------------------------
(* The turn *)

\* What is seen comes first, then what is only thought, then who stays silent;
\* within the first two the decisive ones lead, in the order of the cast.
Rank(a) ==
    IF a.omitted THEN 5
    ELSE (IF Visible(a) THEN 1 ELSE 3) + (IF a.high THEN 0 ELSE 1)

Before(m, n) ==
    \/ Rank(action[m]) < Rank(action[n])
    \/ Rank(action[m]) = Rank(action[n]) /\ m < n

\* The narrator is given everybody once the slowest NPC is done; the notes of all
\* of them, the silent ones included, become memories of the turn.
Weave ==
    /\ woven = <<>>
    /\ \A n \in Npcs : mind[n].step = "done"
    /\ woven' = SetToSortSeq(Npcs, Before)
    /\ notes' = {n \in Npcs : action[n].note}
    /\ UNCHANGED <<intensity, role, mind, action, starved>>

---------------------------------------------------------------------------
Init ==
    /\ intensity \in {"low", "high", "climax"}
    /\ role \in [Npcs -> Roles]
    /\ mind = [n \in Npcs |-> Waiting]
    /\ action = [n \in Npcs |-> None]
    /\ woven = <<>>
    /\ notes = {}
    /\ starved = {}

Next ==
    \/ \E n \in Npcs : \/ Begin(n) \/ Mute(n) \/ Timeout(n)
                       \/ \E q \in Queries, p \in Payloads \union {None} : Reply(n, q, p)
    \/ Weave

Spec == Init /\ [][Next]_vars

---------------------------------------------------------------------------
(* Properties *)

\* An NPC that stays within its queries is always asked once more for its action:
\* npc_agent.py's loop ends a step for want of rounds only when the model wanted
\* more queries than npc_action_max_tools_per_call.
RoomToSubmit == starved = {}

\* The strategy an NPC settled on while reflecting is among the memories of the
\* turn, whatever it then does or fails to do ("so the strategy persists",
\* npc_agent.py).  The code does not hold this when the act is cut off.
StrategyPersists ==
    woven # <<>> => \A n \in Npcs : mind[n].plan => n \in notes
=============================================================================
