------------------------------- MODULE Story -------------------------------
(***************************************************************************)
(* What one turn does to the game state of a session: the rule engine that *)
(* ticks the world before the director speaks, the director's answer       *)
(* carried out on the state, the grounding of what the player claims, the  *)
(* events, the story's act, and the end of the story.                      *)
(*   engine/orchestrator.py _process_action_v2, engine/world_simulator.py, *)
(*   engine/state_manager.py, engine/narrative_arc.py, ending_system.py,   *)
(*   event_system.py, condition_dsl.py, event_progress.py,                 *)
(*   structural_grounding.py, structural_ledger.py, info_propagation.py,   *)
(*   world_clock.py, offstage_scheduler.py, npc_catchup.py                 *)
(* The coroutines of the turn are TurnPipeline's, the rows it is saved in  *)
(* are GameTurn's: here the turn is the sequence of what it does to the    *)
(* state, and the answers of the models are the choices.                   *)
(***************************************************************************)
EXTENDS Integers, Sequences, FiniteSets, SequencesExt

CONSTANTS
  Worlds,      \* the worlds a session may be played in (see WorldAssumption)
  None,        \* no condition, no place, no NPC, no ending
  Segments,    \* MAX_SEGMENTS
  ClimaxRound, ClimaxClues, IntroRound, IntroClues, \* thresholds of detect_act
  ForcedAfter, ForcedQuiet, ForcedLinger, \* FORCED_AFTER_ROUND, .._NO_PROGRESS_ROUNDS, .._CLIMAX_LINGER_ROUNDS
  LogMax,      \* OFFSTAGE_LOG_MAX_PER_NPC
  Away, TickAfter, \* rounds after which a returning NPC is caught up, an absent one ticked
  MaxRetries   \* the limit of retry_action

ASSUME ThresholdAssumption ==
  /\ {Segments, ClimaxRound, ClimaxClues, IntroRound, IntroClues, ForcedAfter,
      ForcedQuiet, ForcedLinger, LogMax, Away, TickAfter} \subseteq Nat \ {0}
  /\ MaxRetries \in Nat
  /\ ClimaxRound > 1 /\ ForcedAfter > 1  \* no story is at its climax, or stalled, in its opening

ListOf(x) == Len(x) \in Nat /\ DOMAIN x = 1..Len(x)

ASSUME WorldAssumption ==
  \A w \in Worlds :
    /\ ListOf(w.events) /\ ListOf(w.legacy) /\ ListOf(w.milestones)
    /\ IsFiniteSet(w.endings) /\ \A e \in w.endings : e.type # None /\ e.priority \in Int
    /\ w.knows \subseteq w.npcs /\ None \notin w.npcs
    \* bounds: turns, retries and recaps, what the player types and what the director's answer updates
    /\ {w.last, w.extra} \subseteq Nat /\ w.inputs \subseteq 0..Segments
    /\ \A u \in w.updates : DOMAIN u = {"clue", "later", "place"}

VARIABLES
  world,   \* the world's data, fixed when the session starts
  s,       \* GameState; with it, for the properties only, what happened in the turns that stand
  played,  \* sessions.rounds_played; the opening was the first
  again,   \* state_snapshot, last_action_text and retry_count: what a retry goes back to
  pc,      \* where the turn is: idle -> begun -> ticked -> told -> updated -> fired -> idle
  turn,    \* what the turn was asked, and what its later parts need of the director's answer
  ended,   \* the ending the session got, None while it runs
  ticks,   \* off-stage ticks on their way
  extra    \* retries and recaps so far, to bound them

vars == <<world, s, played, again, pc, turn, ended, ticks, extra>>

Acts == {"intro", "middle", "climax"}
ClaimStatus == {"none", "in_play", "exposed", "grounded"}

(***************************************************************************)
(* Conditions: the tree a condition_dsl parses to, as a table of nodes.    *)
(* A leaf asks for a day, a place, a world_state key or a past action.     *)
(***************************************************************************)
Day(g) == g.time + 1

LeafHolds(leaf, g) ==
  CASE leaf.test = "time_after"  -> Day(g) >= leaf.arg
    [] leaf.test = "location_is" -> g.place = leaf.arg
    [] leaf.test = "is_set"      -> leaf.arg \in g.flags
    [] leaf.test = "player_did"  -> FALSE  \* player_actions holds records, never the text asked for

Holds(node, g) ==
  LET h[n \in DOMAIN world.nodes] ==
        LET x == world.nodes[n] IN
        CASE x.op = "leaf" -> LeafHolds(x, g)
          [] x.op = "not"  -> ~h[x.left]
          [] x.op = "and"  -> h[x.left] /\ h[x.right]
          [] x.op = "or"   -> h[x.left] \/ h[x.right]
  IN  h[node]

Leaves(node) ==
  LET l[n \in DOMAIN world.nodes] ==
        LET x == world.nodes[n] IN
        CASE x.op = "leaf" -> 1
          [] x.op = "not"  -> l[x.left]
          [] OTHER         -> l[x.left] + l[x.right]
  IN  l[node]

\* mutant
SatisfiedPlain(node, negated, g) ==
  LET w[n \in DOMAIN world.nodes] ==
        LET x == world.nodes[n] IN
        CASE x.op = "leaf" -> IF LeafHolds(x, g) # negated THEN 1 ELSE 0
          [] x.op = "not"  -> w[x.left]
          [] OTHER         -> w[x.left] + w[x.right]
  IN  w[node]

\* How many leaves stand as they would have to; below a NOT, how many do not hold.
Satisfied(node, negated, g) ==
  LET w[q \in (DOMAIN world.nodes) \X BOOLEAN] ==
        LET x == world.nodes[q[1]] IN
        CASE x.op = "leaf" -> IF LeafHolds(x, g) # q[2] THEN 1 ELSE 0
          [] x.op = "not"  -> w[<<x.left, ~q[2]>>]
          [] OTHER         -> w[<<x.left, q[2]>>] + w[<<x.right, q[2]>>]
  IN  w[<<node, negated>>]

(***************************************************************************)
(* Clues and updates. A clue's id is its place in the list, so the list is *)
(* its length; a text that is too short or looks like an id is refused.    *)
(***************************************************************************)
AppendClue(clues, valid) == IF valid THEN clues + 1 ELSE clues

ApplyUpdates(g, u) ==
  [g EXCEPT !.place = IF u.place = None THEN @ ELSE u.place,
            !.time  = IF u.later THEN @ + 1 ELSE @,
            !.clues = IF u.clue = "good" THEN AppendClue(@, TRUE) ELSE AppendClue(@, FALSE),
            !.round = @ + 1,
            !.quiet = IF u.clue = "good" THEN 0 ELSE @ + 1]

\* The effects of an event of events_data; `times` counts them, for the properties only.
Effects(g, e) ==
  [g EXCEPT !.flags = @ \cup e.sets,
            !.clues = AppendClue(@, e.clue),
            !.fired = @ \cup {e.id},
            !.times[e.id] = @ + 1]

(***************************************************************************)
(* The tick: news spread, the clock moves the NPCs, events and milestones. *)
(***************************************************************************)
Hears(n, g) ==
  \/ g.where[n] # None /\ \E k \in g.heard : g.where[k] = g.where[n]
  \/ g.round >= 2 /\ \E k \in g.heard : {n, k} \in world.ties
  \/ g.round >= 5

Spread(g) ==
  IF g.heard = {} THEN g
  ELSE [g EXCEPT !.heard = @ \cup {n \in world.npcs : Hears(n, g)}]

Clock(g) ==
  [g EXCEPT !.where = [n \in world.npcs |->
     IF world.schedule[n][g.time % 2] = None THEN g.where[n] ELSE world.schedule[n][g.time % 2]]]

\* The kind decides: "conditional" passes the dice and applies the effects, an
\* intent-driven event gives its NPC a new plan, anything else is left unmarked.
TickEvent(g, e, lucky) ==
  IF \/ e.disabled \/ e.id \in g.fired \/ e.cond = None
  THEN g
  ELSE IF ~Holds(e.cond, g) THEN g
  ELSE CASE e.kind = "conditional" /\ (e.certain \/ e \in lucky) -> Effects(g, e)
         [] e.kind = "npc_intent_driven" ->
              [g EXCEPT !.fired = @ \cup {e.id}, !.times[e.id] = @ + 1,
                        !.stage = [n \in world.npcs |-> IF n = e.npc THEN 0 ELSE @[n]]]
         [] OTHER -> g

ProcessEvents(g, lucky) ==
  FoldLeft(LAMBDA a, e : TickEvent(a, e, lucky), g, world.events)

\* The same key with another text is another fact; who leaves the world is dropped from it.
Commit(g, fact, gone) ==
  IF fact \in g.facts THEN g
  ELSE [g EXCEPT !.facts = @ \cup {fact},
                 !.where = [n \in world.npcs |-> IF n = gone THEN None ELSE @[n]]]

ProcessMilestones(g) ==
  FoldLeft(LAMBDA a, m : IF Holds(m.cond, a) THEN Commit(a, m.fact, m.gone) ELSE a, g, world.milestones)

Tick(g, lucky) == ProcessMilestones(ProcessEvents(Clock(Spread(g)), lucky))

\* What the player types: "go on" takes the next step he announced, anything
\* else starts afresh and may announce several.
Pending(input) ==
  IF input = 0
  THEN IF s.pending > 0 THEN s.pending - 1 ELSE 0
  ELSE input - 1

\* The events fired by the throw of a die once their condition holds.
Uncertain == {e \in {world.events[i] : i \in DOMAIN world.events} : ~e.certain}

\* Between turns.
Waiting == [recap |-> FALSE, input |-> 0, actors |-> {}, fired |-> {}]

\* The number the turn goes by: a recap bears that of the turn before it.
Number == IF turn.recap THEN played ELSE played + 1

\* A new action: what it starts from is kept for its retries (and not kept in a world in
\* which, to bound it, nothing is retried).
ProcessAction ==
  /\ pc = "idle" /\ ended = None /\ played < world.last
  /\ \E input \in world.inputs :
       /\ again' = IF world.extra = 0 THEN None ELSE [state |-> s, input |-> input, retries |-> 0]
       /\ turn' = [Waiting EXCEPT !.input = input]
  /\ pc' = "begun"
  /\ UNCHANGED <<world, s, played, ended, ticks, extra>>

\* retry_action: back to the state the last action started from, which it plays again;
\* rounds_played stays what it is.
RetryAction ==
  /\ pc = "idle" /\ ended = None /\ extra < world.extra
  /\ again # None /\ again.retries < MaxRetries
  /\ s' = again.state
  /\ again' = [again EXCEPT !.retries = @ + 1]
  /\ turn' = [Waiting EXCEPT !.input = again.input]
  /\ extra' = extra + 1
  /\ pc' = "begun"
  /\ UNCHANGED <<world, played, ended, ticks>>

\* pause_game asks for no status, so an ended session is played on too; resume_game plays
\* a recap, whose prompt the segmentation takes for an action of two steps.
ResumeGame ==
  /\ pc = "idle" /\ extra < world.extra
  /\ s' = IF ended = None THEN s ELSE [s EXCEPT !.spared = @ + 1]
  /\ ended' = None
  /\ extra' = extra + 1
  /\ turn' = [Waiting EXCEPT !.recap = TRUE, !.input = 2]
  /\ pc' = "begun"
  /\ UNCHANGED <<world, played, again, ticks>>

\* The turn is refused, raises or is left before its state is saved. What it did until
\* then it did to a copy, so this stands for a failure at any later point as well.
FailTurn ==
  /\ pc = "begun"
  /\ pc' = "idle" /\ turn' = Waiting
  /\ UNCHANGED <<world, s, played, again, ended, ticks, extra>>

Play ==
  /\ pc = "begun"
  /\ \E lucky \in SUBSET Uncertain :
       s' = Tick([s EXCEPT !.pending = Pending(turn.input)], lucky)
  /\ pc' = "ticked"
  /\ UNCHANGED <<world, played, again, turn, ended, ticks, extra>>

(***************************************************************************)
(* The director has answered and the NPCs of the scene have acted.         *)
(***************************************************************************)
\* The keys of the ledger, whatever the texts.
Known(g) == {f[1] : f \in g.facts}

\* mutant
VerdictListed(claim, g, actors, assents) ==
  IF claim.requires # {}
  THEN IF claim.requires \subseteq Known(g) THEN "grounded" ELSE "open"
  ELSE IF claim.required \notin actors THEN "open"
  ELSE IF claim.required \in assents THEN "grounded" ELSE "exposed"

\* is_grounded and check_entity_assent, on the premise the director read out of this turn's
\* input: its facts are all committed, or the entity whose consent it takes acted this turn
\* and backed it.
Verdict(claim, g, actors, assents) ==
  IF claim.type = "prerequisite" /\ claim.requires # {}
  THEN IF claim.requires \subseteq Known(g) THEN "grounded" ELSE "open"
  ELSE IF claim.required \notin actors THEN "open"
  ELSE IF claim.required \in assents THEN "grounded" ELSE "exposed"

\* The ledger has one entry for all claims of a key; its status is that of the latest verdict.
Judged(g, claim, verdict) ==
  LET key == claim.fact[1]
      seen == IF g.claims[key] = "none" THEN [g EXCEPT !.claims[key] = "in_play"] ELSE g
  IN  CASE verdict = "grounded" -> [Commit(seen, claim.fact, claim.gone) EXCEPT !.claims[key] = "grounded"]
        [] verdict = "exposed"  -> [seen EXCEPT !.claims[key] = "exposed"]
        [] verdict = "open"     -> seen

\* `said` keeps, for the properties only, what was claimed and who backed it by an action.
Grounding(g, claim, actors, assents) ==
  IF world.mode = "free" /\ claim # None
  THEN [Judged(g, claim, Verdict(claim, g, actors, assents))
          EXCEPT !.said = @ \cup {<<claim, n>> : n \in assents \cup {None}}]
  ELSE g

DetectAct(n, clues, climactic) ==
  IF n >= ClimaxRound \/ clues >= ClimaxClues \/ climactic THEN "climax"
  ELSE IF n < IntroRound /\ clues < IntroClues THEN "intro" ELSE "middle"

\* mutant
PlannedFurther(stage, move) == IF move = "advance" THEN stage + 1 ELSE stage

\* intent_update of an NPC's action, or of its catch-up
Planned(stage, move) ==
  CASE move = "advance"  -> IF stage + 1 > 2 THEN 2 ELSE stage + 1
    [] move = "pivot"    -> 0
    [] move = "complete" -> 2
    [] OTHER             -> stage

\* Who comes back after an absence, or was heard of meanwhile, is caught up first.
Returning(g, actors) ==
  {n \in actors : g.active[n] > 0 /\ (Number - g.active[n] > Away \/ g.log[n] > 0)}

CaughtUp(g, who) == [g EXCEPT !.log = [n \in world.npcs |-> IF n \in who THEN 0 ELSE @[n]]]

Moves(g, actors, move) ==
  [g EXCEPT !.stage = [n \in world.npcs |-> IF n \in actors THEN Planned(@[n], move) ELSE @[n]]]

\* A weak input (weak) keeps at most one NPC and no climax, whatever the director says.
Direct ==
  /\ pc = "ticked"
  /\ \E actors \in SUBSET world.npcs, claim \in world.claims \cup {None},
        climactic, weak \in BOOLEAN, move \in world.moves :
     \E assents \in SUBSET actors, caught \in SUBSET Returning(s, actors),
        kept \in {k \in SUBSET actors : IF weak THEN Cardinality(k) <= 1 ELSE k = actors} :
       LET g == Grounding(Moves(CaughtUp(s, caught), actors, move), claim, actors, assents) IN
       /\ s' = [g EXCEPT !.act = DetectAct(Number, g.clues, climactic /\ ~weak)]
       /\ turn' = [turn EXCEPT !.actors = kept]
  /\ pc' = "told"
  /\ UNCHANGED <<world, played, again, ended, ticks, extra>>

\* The events of the older list: all that hold in the updated state, one after
\* the other; effects that update the state count as a round of their own.
Matches(e, g) ==
  CASE e.needs = "clues" -> g.clues >= e.least
    [] e.needs = "quiet" -> g.quiet >= e.least
    [] e.needs = "time"  -> (IF g.time # 0 THEN g.time ELSE g.round) >= e.least
    [] e.needs = "place" -> g.place = e.least

CheckEvents(g) == {e \in ToSet(world.legacy) : e.name \notin g.legacy /\ Matches(e, g)}

ApplyEvent(g, e) ==
  LET h == IF e.updates = None THEN g ELSE ApplyUpdates(g, e.updates) IN
  [h EXCEPT !.legacy = @ \cup {e.name}]

Update ==
  /\ pc = "told"
  /\ \E answer \in world.updates :
       LET u == ApplyUpdates(s, answer)
           g == [u EXCEPT !.active = [n \in world.npcs |-> IF n \in turn.actors THEN u.round ELSE @[n]]]
           found == CheckEvents(g)
       IN  /\ s' = FoldLeft(LAMBDA h, e : IF e \in found THEN ApplyEvent(h, e) ELSE h, g, world.legacy)
           /\ turn' = [turn EXCEPT !.fired = {e.name : e \in found}]
  /\ pc' = "updated"
  /\ UNCHANGED <<world, played, again, ended, ticks, extra>>

\* mutant
FireAgain(g, e) == e.cond = None \/ Holds(e.cond, g)

\* The director may ask for events by id; what has fired stays fired, the
\* condition is asked again, and an event without one fires on his word.
Asked(g, e) ==
  /\ e.id \notin g.fired
  /\ e.cond = None \/ Holds(e.cond, g)

FireIntent(g, e) == IF Asked(g, e) THEN Effects(g, e) ELSE g

Fire ==
  /\ pc = "updated"
  /\ \E wanted \in BoundedSeq(DOMAIN world.events, IF world.mode = "script" THEN 2 ELSE 0) :
       s' = FoldLeft(LAMBDA g, i : FireIntent(g, world.events[i]), s, wanted)
  /\ turn' = [turn EXCEPT !.fired = @ \cup (s'.fired \ s.fired)]
  /\ pc' = "fired"
  /\ UNCHANGED <<world, played, again, ended, ticks, extra>>

(***************************************************************************)
(* The end of the turn: the board, the climax, the ending, the log of      *)
(* those who were not there.                                               *)
(***************************************************************************)
\* mutant
FiledUnchecked(g, refs) == g.board \cup refs

\* An operation on the case board that names an unknown clue voids the batch.
Filed(g, refs) == IF refs \subseteq 1..g.clues THEN g.board \cup refs ELSE g.board

HardMet(e, g) ==
  CASE e.hard = "time"       -> g.time > e.limit
    [] e.hard = "max_rounds" -> g.round >= e.limit
    [] e.hard = "quiet"      -> g.quiet >= e.limit /\ g.round >= e.after
    [] OTHER                 -> FALSE

HardEndings(g) ==
  LET met == {e \in world.endings : HardMet(e, g)} IN
  {e \in met : \A f \in met : f.priority <= e.priority}

Stalled(g) ==
  \/ g.quiet >= ForcedQuiet /\ g.round >= ForcedAfter
  \/ g.climax >= ForcedLinger

StallEndings ==
  LET of(t) == {e \in world.endings : e.type = t} IN
  IF of("timeout") # {} THEN of("timeout")
  ELSE IF of("normal") # {} THEN of("normal")
  ELSE IF of("bad") # {} THEN of("bad")
  ELSE {e \in world.endings : \A f \in world.endings : e.priority <= f.priority}

\* mutant
ResolveAiDrops(g, word) ==
  LET hard == HardEndings(g)
      soft == {e \in world.endings : e.soft /\ e.type = word}
  IN  IF world.mode = "free" THEN {}
      ELSE IF hard # {} THEN hard
      ELSE IF word # None THEN soft
      ELSE IF Stalled(g) THEN StallEndings ELSE {}

\* Endings whose author gave a hard condition, then the director's word if it
\* names a soft ending, then the floor below which no story stalls.
Resolve(g, word) ==
  LET hard   == HardEndings(g)
      soft   == {e \in world.endings : e.soft /\ e.type = word}
      chosen == IF hard # {} THEN hard ELSE soft
  IN  IF world.mode = "free" THEN {}
      ELSE IF chosen # {} THEN chosen
      ELSE IF Stalled(g) THEN StallEndings ELSE {}

Logged(g, off) ==
  [g EXCEPT !.log = [n \in world.npcs |->
     IF n \in off THEN (IF @[n] = LogMax THEN LogMax ELSE @[n] + 1) ELSE @[n]]]

TickDue(n, g) == g.active[n] > 0 /\ g.round - g.active[n] >= TickAfter

\* The state is saved, then the ending is written: a client that leaves between the two
\* leaves a session that goes on.
Close ==
  /\ pc = "fired"
  /\ \E refs \in IF world.mode = "script" THEN SUBSET world.names ELSE {{}},
        word \in {e.type : e \in world.endings} \cup {None, "unheard"},
        off \in SUBSET (world.npcs \ turn.actors) :
       LET b == [s EXCEPT !.board = Filed(s, refs)]
           g == [b EXCEPT !.climax = IF s.act = "climax" THEN @ + 1 ELSE 0,
                          !.turns = IF turn.recap THEN @ ELSE @ + 1]
           ends == Resolve(g, word)
           due == {n \in off : TickDue(n, g)}
       IN  \/ /\ ends = {} /\ ended' = None
              /\ s' = Logged(g, off) /\ ticks' = ticks \cup due
           \/ /\ \E e \in ends : ended' = e.type
              /\ s' = Logged(g, off) /\ ticks' = ticks \cup due
           \/ /\ ends # {} /\ ended' = None
              /\ s' = Logged([g EXCEPT !.spared = @ + 1], off) /\ ticks' = ticks
  /\ played' = Number
  /\ turn' = Waiting
  /\ pc' = "idle"
  /\ UNCHANGED <<world, again, extra>>

\* An off-stage NPC lives on in the background: its answer, if it comes, is applied
\* to the saved state.
OffstageTick(n) ==
  /\ pc = "idle" /\ n \in ticks
  /\ \/ \E move \in world.moves : s' = Moves(CaughtUp(s, {n}), {n}, move)
     \/ UNCHANGED s
  /\ ticks' = ticks \ {n}
  /\ UNCHANGED <<world, played, again, pc, turn, ended, extra>>

\* `turns`: the turns that stand; `spared`: endings that were due and did not last.
Fresh(w) ==
  [round |-> 1, quiet |-> 1, climax |-> 0, act |-> "intro", clues |-> 0, flags |-> {}, time |-> 0,
   place |-> None, fired |-> {}, legacy |-> {}, pending |-> 0, board |-> {}, facts |-> {},
   claims |-> [k \in {c.fact[1] : c \in w.claims} |-> "none"], stage |-> [n \in w.npcs |-> 0],
   where |-> [n \in w.npcs |-> None], heard |-> w.knows, log |-> [n \in w.npcs |-> 0],
   active |-> [n \in w.npcs |-> 0],
   times |-> [e \in {w.events[i].id : i \in DOMAIN w.events} |-> 0],
   said |-> {}, turns |-> 1, spared |-> 0]

Init ==
  /\ world \in Worlds
  /\ s = Fresh(world)
  /\ played = 1 /\ again = None /\ pc = "idle" /\ turn = Waiting /\ ended = None
  /\ ticks = {} /\ extra = 0

Next ==
  \/ ProcessAction \/ RetryAction \/ ResumeGame \/ FailTurn
  \/ Play \/ Direct \/ Update \/ Fire \/ Close
  \/ \E n \in world.npcs : OffstageTick(n)

Spec == Init /\ [][Next]_vars

(***************************************************************************)
(* Properties                                                              *)
(***************************************************************************)
EventIds == {world.events[i].id : i \in DOMAIN world.events}
Milestones == {world.milestones[i].fact : i \in DOMAIN world.milestones}
ClaimKeys == {c.fact[1] : c \in world.claims}

TypeOK ==
  /\ world \in Worlds
  /\ played \in Nat /\ s.round \in Nat /\ s.quiet \in Nat /\ s.climax \in Nat
  /\ s.clues \in Nat /\ s.time \in Nat
  /\ s.act \in Acts /\ s.pending \in 0..Segments
  /\ s.fired \subseteq EventIds /\ s.claims \in [ClaimKeys -> ClaimStatus]
  /\ s.stage \in [world.npcs -> 0..2] /\ s.log \in [world.npcs -> 0..LogMax]
  /\ s.heard \subseteq world.npcs /\ ticks \subseteq world.npcs
  /\ again # None => again.retries \in 0..MaxRetries
  /\ pc \in {"idle", "begun", "ticked", "told", "updated", "fired"}
  /\ ended \in {e.type : e \in world.endings} \cup {None}

\* An event of the script takes effect once, though the tick and the director
\* both may fire it, in one turn or in two (triggered_event_ids).
FiresOnce == \A e \in EventIds : s.times[e] <= 1 /\ (s.times[e] = 1 <=> e \in s.fired)

\* The board only ever names clues the player has found (case_board.py
\* _validate_clue_refs), whichever of the four places a clue came from.
BoardKnowsItsClues == s.board \subseteq 1..s.clues

\* A script with endings cannot hang, however often its turns are retried, failed or
\* interrupted by recaps: every turn from round ClimaxRound on counts as climax, so of the
\* turns that stand fewer than ForcedLinger can follow it, and no saved state is stalled and
\* still running, except for endings the client left before they were written or that a
\* pause took back (ending_system.py check_forced_ending).
EndsInTime ==
  pc = "idle" /\ ended = None /\ world.mode = "script" /\ world.endings # {} =>
    /\ s.turns - s.spared < ClimaxRound + ForcedLinger - 1
    /\ Stalled(s) => s.spared > 0

\* What the player claims becomes a fact of the world only if he claimed it in a turn on a
\* premise that held: the facts it rests on are facts, or the one whose consent that turn's
\* claim takes backed it by an action of his own. Neither repetition under any other premise
\* nor anybody else's compliance grounds it (INV-1, INV-2). What the author of the world made
\* a milestone comes about without the player.
FactsAreGrounded ==
  \A f \in s.facts \ Milestones :
    \E c \in world.claims :
      /\ c.fact = f
      /\ \/ /\ <<c, None>> \in s.said
            /\ c.type = "prerequisite" /\ c.requires # {} /\ c.requires \subseteq Known(s)
         \/ c.required # None /\ <<c, c.required>> \in s.said

\* When the director is told that every leaf of a condition stands, the condition
\* holds, and when every leaf of its negation does, it does not (event_progress.py).
FullMeansReady ==
  \A n \in DOMAIN world.nodes :
    /\ Satisfied(n, FALSE, s) = Leaves(n) => Holds(n, s)
    /\ Satisfied(n, TRUE, s) = Leaves(n) => ~Holds(n, s)

\* structural_ledger.py:18 "death / permanent exit: drop from presence, mark gone":
\* who left the world for good is nowhere in it. The schedule brings him back.
GoneStaysGone ==
  \A c \in world.claims :
    c.fact \in s.facts /\ c.gone # None => s.where[c.gone] = None

\* A claim that is a fact is not held against the player as exposed
\* (structural_grounding.py:200 "Grounded claims are facts now").
ExposedIsNoFact == \A k \in Known(s) \cap DOMAIN s.claims : s.claims[k] = "grounded"
=============================================================================
