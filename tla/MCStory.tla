------------------------------ MODULE MCStory ------------------------------
(***************************************************************************)
(* A script with events and endings, the same retold with retries and      *)
(* recaps, a free world with claims, and a smaller one that is retried;    *)
(* and side by side with the story the texts of its conditions and the     *)
(* models it is told by.                                                   *)
(* "which" says what an execution is about; the parts share no state.      *)
(***************************************************************************)
EXTENDS Story, TLC

CONSTANTS
    Gone,                              \* a row that was deleted
    p1, m1, m2, a1, a2, chat,          \* a provider, its models, administrators, a capability
    k, ab, word, hall, unset           \* keys, a word and a place of conditions

Leaf(t, a) == [op |-> "leaf", test |-> t, arg |-> a]
Not(l)     == [op |-> "not", left |-> l]
Both(l, r) == [op |-> "and", left |-> l, right |-> r]
Either(l, r) == [op |-> "or", left |-> l, right |-> r]

\* 3: the second day, or the lamp is not lit;  5: not (lit and the second day)
Trees == <<Leaf("time_after", 2), Leaf("is_set", "lamp"), Not(2), Either(1, 3), Both(1, 2), Not(5),
           Leaf("player_did", "shout"), Either(5, 7)>>

Event(id, kind, cond, certain, sets, clue) ==
  [id |-> id, kind |-> kind, cond |-> cond, certain |-> certain, sets |-> sets, clue |-> clue,
   disabled |-> FALSE, npc |-> None]

Updates(clues, later) == [clue : clues, later : later, place : {None}]

Ending(type, hard, limit, after, soft, priority) ==
  [type |-> type, hard |-> hard, limit |-> limit, after |-> after, soft |-> soft, priority |-> priority]

Script ==
  [mode |-> "script", nodes |-> Trees,
   last |-> 5, extra |-> 0, inputs |-> 0..2,
   updates |-> Updates({"none", "bad", "good"}, BOOLEAN), names |-> {1, 2},
   events |-> <<Event("e1", "conditional", 4, FALSE, {"lamp"}, TRUE),
                Event("e2", "conditional", 8, TRUE, {}, FALSE)>>,
   legacy |-> <<[name |-> "l1", needs |-> "clues", least |-> 2,
                 updates |-> [clue |-> "none", later |-> FALSE, place |-> None]]>>,
   endings |-> {Ending("good", None, 0, 0, TRUE, 2), Ending("bad", "time", 2, 0, FALSE, 1)},
   milestones |-> <<>>, claims |-> {}, npcs |-> {}, ties |-> {}, knows |-> {},
   schedule |-> <<>>, moves |-> {"none"}]

\* The same without its events, and with two retries or recaps.
Retold ==
  [Script EXCEPT !.last = 7, !.extra = 2, !.inputs = {1}, !.events = <<>>, !.names = {},
                 !.updates = Updates({"none", "good"}, {FALSE}), !.legacy[1].needs = "time",
                 !.endings = {Ending("good", None, 0, 0, TRUE, 2), Ending("slow", "quiet", 2, 3, FALSE, 1)}]

Claim(key, text, type, requires, required, gone) ==
  [fact |-> <<key, text>>, type |-> type, requires |-> requires, required |-> required, gone |-> gone]

\* The exile is claimed on the king's word, then on the guard's; the heir on the exile.
Free ==
  [mode |-> "free", nodes |-> <<Leaf("time_after", 2)>>,
   events |-> <<[Event("plot", "npc_intent_driven", 1, TRUE, {}, FALSE) EXCEPT !.npc = "guard"]>>, legacy |-> <<>>, endings |-> {},
   last |-> 3, extra |-> 0, inputs |-> {1}, updates |-> Updates({"none"}, BOOLEAN), names |-> {},
   milestones |-> <<[cond |-> 1, fact |-> <<"war", "declared">>, gone |-> None]>>,
   claims |-> {Claim("exile", "banished", "authority_decree", {"war"}, "king", "king"),
               Claim("exile", "banished", "authority_decree", {}, "guard", "king"),
               Claim("heir", "named", "prerequisite", {"exile"}, None, None)},
   npcs |-> {"king", "guard"}, ties |-> {{"king", "guard"}}, knows |-> {"guard"},
   schedule |-> [king |-> [i \in 0..1 |-> "hall"], guard |-> [i \in 0..1 |-> IF i = 0 THEN None ELSE "hall"]],
   moves |-> {"none", "advance"}]

\* The king alone, two turns, one of them perhaps tried again or recapped.
Retried ==
  [Free EXCEPT !.extra = 1, !.events = <<>>, !.npcs = {"king"}, !.ties = {}, !.knows = {},
               !.schedule = [king |-> [i \in 0..1 |-> "hall"]], !.moves = {"none"},
               !.claims = {c \in @ : c.required # "guard"}]

MCWorlds == {Script, Retold, Free, Retried}

-----------------------------------------------------------------------------
VARIABLES which, s1, s2, s3, s4, s5, s6, s7

allVars == <<which, vars, s1, s2, s3, s4, s5, s6, s7>>

Slots_ == INSTANCE ModelSlots WITH
    Providers <- {p1}, Models <- {m1, m2}, Slots <- {"main"}, Kind <- [main |-> "text"],
    Needs <- [main |-> {chat}], Admins <- {a1, a2}, First <- m1, FirstOf <- p1,
    provider <- s1, model <- s2, probe <- s3, slot <- s4, seeded <- s5, work <- s6, passed <- s7
Conditions_ == INSTANCE EventConditions WITH
    Keys <- {k}, Dotted <- {ab}, Words <- {word}, Ints <- {0, 1}, Days <- {1, 2}, Places <- {hall},
    Unset <- unset, Size <- 2,
    tree <- s1, grown <- s2, stored <- s3

No4 == s4 = None /\ s5 = None /\ s6 = None /\ s7 = None
No1 == s1 = None /\ s2 = None /\ s3 = None /\ No4
rest4 == <<s4, s5, s6, s7>>
parts == <<s1, s2, s3, rest4>>

\* While a part is looked at, the story stays as it begins.
AllInit ==
    /\ which \in {"story", "conditions", "slots"}
    /\ Init /\ (which # "story" => world = Free)
    /\ CASE which = "conditions" -> Conditions_!Init /\ No4
         [] which = "slots" -> Slots_!Init
         [] OTHER -> No1

StoryNext == which = "story" /\ Next /\ UNCHANGED <<which, parts>>

ConditionsNext == which = "conditions" /\ Conditions_!Next /\ UNCHANGED <<which, vars, rest4>>

SlotsNext == which = "slots" /\ Slots_!Next /\ UNCHANGED <<which, vars>>

AllNext == StoryNext \/ ConditionsNext \/ SlotsNext

AllSpec == AllInit /\ [][AllNext]_allVars

Symmetry == Permutations({a1, a2})

-----------------------------------------------------------------------------
\* A stored condition says what its tree says, in every world, and what the director is
\* told of it agrees with it (condition_tree.py, event_progress.py).
TextIsTree == which = "conditions" => Conditions_!StoredMeansTree /\ Conditions_!ProgressAgrees

\* A slot never names a model or a provider that is gone, and its model has passed every
\* probe the slot needs (model_management.py).
BindingIsSound == which = "slots" => Slots_!BindingIsSound
=============================================================================
