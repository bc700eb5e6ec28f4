----------------------------- MODULE StoryProofs -----------------------------
(***************************************************************************)
(* Proofs about the story and about what tells it: first Story, for every  *)
(* world, with lists of events and milestones of any length, and for all   *)
(* thresholds; then LlmCalls, the calls to the models; then ModelSlots,    *)
(* which model each slot of the program is bound to.                       *)
(*                                                                         *)
(* The four lists a turn goes through are folds. A fold is the value of a  *)
(* function on the subsets of the indices, defined by recursion; that such *)
(* a function exists, and what it keeps, is shown by induction over those  *)
(* subsets, as sets, and so without an induction theorem over operators.   *)
(***************************************************************************)
EXTENDS Story, LlmCalls, FiniteSetTheorems, WellFoundedInduction, TLAPS

\* Induction over the numbers, for a set of them.
LEMMA NumberInduction ==
  ASSUME NEW N, 0 \in N, \A n \in Nat : n \in N => n + 1 \in N
  PROVE  \A n \in Nat : n \in N
<1> DEFINE B == Nat \ N
<1>1. ASSUME B # {} PROVE FALSE
  <2>1. PICK n \in B : \A m \in B : <<m, n>> \notin OpToRel(<, Nat)
    BY <1>1, NatLessThanWellFounded, WFMin, B \subseteq Nat
  <2>2. \A m \in B : ~(m < n)
    BY <2>1 DEF OpToRel
  <2>3. n \in Nat /\ n # 0
    BY <2>1
  <2>4. n - 1 \in Nat /\ n - 1 < n /\ (n - 1) + 1 = n
    BY <2>3
  <2> QED
    BY <2>1, <2>2, <2>3, <2>4
<1> QED
  BY <1>1

\* Induction over the subsets of a finite set: a family that holds the empty set and every set whose
\* removals of one element it holds, holds them all (the least cardinality of a counterexample is absurd).
LEMMA SubsetInduction ==
  ASSUME NEW S, IsFiniteSet(S), NEW G,
         \A T \in SUBSET S : (\A x \in T : T \ {x} \in G) => T \in G
  PROVE  \A T \in SUBSET S : T \in G
<1> DEFINE B == {T \in SUBSET S : T \notin G}
           C == {n \in Nat : \E T \in B : Cardinality(T) = n}
<1>1. ASSUME B # {} PROVE FALSE
  <2>1. \A T \in SUBSET S : IsFiniteSet(T) /\ Cardinality(T) \in Nat
    BY FS_Subset, FS_CardinalityType
  <2>2. C # {} /\ C \subseteq Nat
    BY <1>1, <2>1
  <2>3. PICK n \in C : \A m \in C : <<m, n>> \notin OpToRel(<, Nat)
    <3> HIDE DEF C
    <3> QED
      BY <2>2, NatLessThanWellFounded, WFMin
  <2>4. \A m \in C : ~(m < n)
    BY <2>2, <2>3 DEF OpToRel
  <2>5. PICK T \in B : Cardinality(T) = n
    BY <2>3
  <2>6. ASSUME NEW x \in T PROVE T \ {x} \in G
    <3>1. Cardinality(T \ {x}) = n - 1 /\ T \ {x} \in SUBSET S
      BY <2>1, <2>5, FS_RemoveElement
    <3>2. n \in Nat /\ Cardinality(T \ {x}) \in Nat
      BY <2>1, <3>1
    <3> QED
      BY <2>4, <3>1, <3>2
  <2> QED
    BY <2>5, <2>6
<1> QED
  BY <1>1


(***************************************************************************)
(* Folds over the lists of a world.                                        *)
(***************************************************************************)
\* A finite set of numbers has a greatest one.
LEMMA GreatestIsThere ==
  ASSUME NEW n \in Nat, NEW T \in SUBSET (1..n), T # {}
  PROVE  Max(T) \in T
<1> DEFINE G == {U \in SUBSET (1..n) : U # {} => \E x \in U : \A y \in U : x >= y}
<1>1. IsFiniteSet(1..n)
  BY FS_Interval
<1>2. ASSUME NEW U \in SUBSET (1..n), \A x \in U : U \ {x} \in G PROVE U \in G
  <2> SUFFICES ASSUME NEW x \in U PROVE \E z \in U : \A y \in U : z >= y
    OBVIOUS
  <2>1. CASE U \ {x} = {}
    BY <2>1
  <2>2. CASE U \ {x} # {}
    <3>1. PICK z \in U \ {x} : \A y \in U \ {x} : z >= y
      BY <1>2, <2>2
    <3>2. x \in Int /\ z \in Int /\ \A y \in U : y \in Int
      OBVIOUS
    <3>3. CASE x >= z
      BY <3>1, <3>2, <3>3
    <3>4. CASE ~(x >= z)
      BY <3>1, <3>2, <3>4
    <3> QED
      BY <3>3, <3>4
  <2> QED
    BY <2>1, <2>2
<1>3. T \in G
  <2> HIDE DEF G
  <2> QED
    BY <1>1, <1>2, SubsetInduction
<1> QED
  BY <1>3 DEF Max

\* One step of the four folds: over the events at the tick, over the milestones, over the events of
\* the older list and over the events the director asks for.
StepOf(kind, aux, g, i) ==
  CASE kind = "events"     -> TickEvent(g, world.events[i], aux)
    [] kind = "milestones" -> IF Holds(world.milestones[i].cond, g)
                              THEN Commit(g, world.milestones[i].fact, world.milestones[i].gone) ELSE g
    [] kind = "legacy"     -> IF world.legacy[i] \in aux THEN ApplyEvent(g, world.legacy[i]) ELSE g
    [] kind = "wanted"     -> FireIntent(g, world.events[aux[i]])

\* The recursion a fold over n elements is defined by, and the fold.
Runs(it, kind, aux, g, n) ==
  it = [T \in SUBSET (1..n) |-> IF T = {} THEN g ELSE StepOf(kind, aux, it[T \ {Max(T)}], Max(T))]

Result(kind, aux, g, n) == (CHOOSE it : Runs(it, kind, aux, g, n))[1..n]

LEMMA RunsExist ==
  ASSUME NEW kind, NEW aux, NEW g, NEW n \in Nat
  PROVE  \E it : Runs(it, kind, aux, g, n)
<1> DEFINE S == 1..n
           Level(m) == {T \in SUBSET S : Cardinality(T) =< m}
           Step(it, T) == IF T = {} THEN g ELSE StepOf(kind, aux, it[T \ {Max(T)}], Max(T))
           N == {m \in Nat : \E it : it = [T \in Level(m) |-> Step(it, T)]}
<1>0. IsFiniteSet(S) /\ \A T \in SUBSET S : IsFiniteSet(T) /\ Cardinality(T) \in Nat
  <2>1. IsFiniteSet(S)
    BY FS_Interval
  <2> QED
    BY <2>1, FS_Subset, FS_CardinalityType
<1>1. ASSUME NEW T \in SUBSET S, T # {}
      PROVE  T \ {Max(T)} \in SUBSET S /\ Cardinality(T \ {Max(T)}) = Cardinality(T) - 1
  BY <1>0, <1>1, GreatestIsThere, FS_RemoveElement
<1>2. 0 \in N
  <2> DEFINE it == [T \in Level(0) |-> g]
  <2>1. \A T \in Level(0) : T = {}
    BY <1>0, FS_EmptySet
  <2>2. it = [T \in Level(0) |-> Step(it, T)]
    BY <2>1
  <2> HIDE DEF it, Level, Step
  <2> QED
    BY <2>2
<1>3. ASSUME NEW m \in Nat, m \in N PROVE m + 1 \in N
  <2>1. PICK it : it = [T \in Level(m) |-> Step(it, T)]
    BY <1>3
  <2> DEFINE next == [T \in Level(m + 1) |-> IF T \in Level(m) THEN it[T] ELSE Step(it, T)]
  <2>2. ASSUME NEW T \in Level(m + 1), T # {} PROVE T \ {Max(T)} \in Level(m)
    <3>1. T \in SUBSET S /\ Cardinality(T) \in Nat /\ Cardinality(T) =< m + 1
      BY <1>0
    <3>2. T \ {Max(T)} \in SUBSET S /\ Cardinality(T \ {Max(T)}) = Cardinality(T) - 1
      BY <1>1, <2>2, <3>1
    <3> QED
      BY <3>1, <3>2
  <2>3. Level(m) \subseteq Level(m + 1)
    BY <1>0
  <2>4. \A T \in Level(m) : it[T] = Step(it, T)
    <3> HIDE DEF Level, Step
    <3> QED
      BY <2>1
  <2>5. ASSUME NEW T \in Level(m + 1) PROVE next[T] = Step(next, T)
    <3>1. CASE T = {}
      <4>1. next[T] = g
        <5> HIDE DEF Level
        <5> QED
          BY <2>4, <3>1
      <4> QED
        BY <3>1, <4>1
    <3>2. CASE T # {}
      <4>1. T \ {Max(T)} \in Level(m) /\ T \ {Max(T)} \in Level(m + 1)
        BY <2>2, <2>3, <3>2
      <4>2. next[T \ {Max(T)}] = it[T \ {Max(T)}]
        <5> HIDE DEF Level, Step
        <5> QED
          BY <4>1
      <4>3. Step(next, T) = Step(it, T)
        <5> HIDE DEF next, Level
        <5> QED
          BY <4>2
      <4>4. next[T] = Step(it, T)
        <5> HIDE DEF Level, Step
        <5> QED
          BY <2>4
      <4> QED
        BY <4>3, <4>4
    <3> QED
      BY <3>1, <3>2
  <2>6. next = [T \in Level(m + 1) |-> Step(next, T)]
    <3> HIDE DEF Step, Level
    <3> QED
      BY <2>5
  <2> HIDE DEF next, Step, Level
  <2> QED
    BY <2>6
<1>4. n \in N
  <2> HIDE DEF N
  <2> QED
    BY <1>2, <1>3, NumberInduction
<1>5. Level(n) = SUBSET S
  <2>1. Cardinality(S) = n
    BY FS_Interval
  <2>2. \A T \in SUBSET S : Cardinality(T) =< n
    BY <1>0, <2>1, FS_Subset
  <2> QED
    BY <2>2
<1>6. PICK it : it = [T \in SUBSET S |-> Step(it, T)]
  <2> HIDE DEF Step
  <2> QED
    BY <1>4, <1>5
<1> QED
  BY <1>6 DEF Runs

\* Each fold of the model is the result of such a run.
LEMMA EventsFold ==
  ASSUME NEW g, NEW lucky, ListOf(world.events)
  PROVE  ProcessEvents(g, lucky) = Result("events", lucky, g, Len(world.events))
BY DEF ProcessEvents, FoldLeft, MapThenFoldSet, Result, Runs, StepOf, ListOf

LEMMA MilestonesFold ==
  ASSUME NEW g, ListOf(world.milestones)
  PROVE  ProcessMilestones(g) = Result("milestones", 0, g, Len(world.milestones))
BY DEF ProcessMilestones, FoldLeft, MapThenFoldSet, Result, Runs, StepOf, ListOf

LEMMA LegacyFold ==
  ASSUME NEW g, NEW found, ListOf(world.legacy)
  PROVE  FoldLeft(LAMBDA h, e : IF e \in found THEN ApplyEvent(h, e) ELSE h, g, world.legacy)
           = Result("legacy", found, g, Len(world.legacy))
BY DEF FoldLeft, MapThenFoldSet, Result, Runs, StepOf, ListOf

LEMMA WantedFold ==
  ASSUME NEW g, NEW wanted, NEW n \in Nat, DOMAIN wanted = 1..n
  PROVE  FoldLeft(LAMBDA h, i : FireIntent(h, world.events[i]), g, wanted) = Result("wanted", wanted, g, n)
BY DEF FoldLeft, MapThenFoldSet, Result, Runs, StepOf

(***************************************************************************)
(* What every operation on the state keeps.                                *)
(***************************************************************************)
Fields == {"round", "quiet", "climax", "act", "clues", "flags", "time", "place", "fired", "legacy", "pending",
           "board", "facts", "claims", "stage", "where", "heard", "log", "active", "times",
           "said", "turns", "spared"}

\* The part of TypeOK that is about the state.
Typed(g) ==
  /\ DOMAIN g = Fields
  /\ g.round \in Nat /\ g.quiet \in Nat /\ g.climax \in Nat /\ g.clues \in Nat /\ g.time \in Nat
  /\ g.act \in Acts /\ g.pending \in 0..Segments
  /\ g.fired \subseteq EventIds /\ g.claims \in [ClaimKeys -> ClaimStatus]
  /\ g.stage \in [world.npcs -> 0..2] /\ g.log \in [world.npcs -> 0..LogMax]
  /\ g.heard \subseteq world.npcs /\ g.turns \in Nat /\ g.spared \in Nat

\* FiresOnce of a state.
Once(g) ==
  /\ g.times \in [EventIds -> Nat]
  /\ \A e \in EventIds : g.times[e] =< 1 /\ (g.times[e] = 1 <=> e \in g.fired)

Good(g) == Typed(g) /\ Once(g)

\* h is what an operation made of g: it is good, no clue is lost, no fact is lost and none is new
\* but those of K, nothing that was said is forgotten, and the board, the act, the climax and the
\* count of turns are as they were.
Keeps(g, h, K) ==
  /\ Good(h)
  /\ h.clues >= g.clues /\ g.said \subseteq h.said
  /\ h.board = g.board /\ h.act = g.act /\ h.climax = g.climax
  /\ h.turns = g.turns /\ h.spared = g.spared
  /\ g.facts \subseteq h.facts /\ h.facts \subseteq g.facts \cup K

LEMMA KeepsItself ==
  ASSUME NEW g, NEW K, Good(g)
  PROVE  Keeps(g, g, K)
BY DEF Keeps, Good, Typed

LEMMA KeepsOn ==
  ASSUME NEW g, NEW h, NEW j, NEW K, NEW L, Good(g), Keeps(g, h, K), Keeps(h, j, L)
  PROVE  Keeps(g, j, K \cup L)
<1>1. g.clues \in Nat /\ h.clues \in Nat /\ j.clues \in Nat
  BY DEF Keeps, Good, Typed
<1>2. j.clues >= g.clues
  BY <1>1 DEF Keeps
<1> QED
  BY <1>2 DEF Keeps

LEMMA SpreadKeeps ==
  ASSUME NEW g, NEW K, Good(g)
  PROVE  Keeps(g, Spread(g), K)
BY DEF Keeps, Good, Typed, Once, Spread, Fields

LEMMA ClockKeeps ==
  ASSUME NEW g, NEW K, Good(g)
  PROVE  Keeps(g, Clock(g), K)
BY DEF Keeps, Good, Typed, Once, Clock, Fields

LEMMA EffectsKeep ==
  ASSUME NEW g, NEW K, Good(g), NEW e, e.id \in EventIds, e.id \notin g.fired
  PROVE  Keeps(g, Effects(g, e), K)
<1> DEFINE h == Effects(g, e)
<1>1. /\ DOMAIN h = DOMAIN g
      /\ h.fired = g.fired \cup {e.id} /\ h.times = [g.times EXCEPT ![e.id] = @ + 1]
      /\ h.clues = AppendClue(g.clues, e.clue)
      /\ h.round = g.round /\ h.quiet = g.quiet /\ h.climax = g.climax /\ h.time = g.time
      /\ h.act = g.act /\ h.pending = g.pending /\ h.claims = g.claims /\ h.stage = g.stage
      /\ h.log = g.log /\ h.heard = g.heard /\ h.board = g.board /\ h.facts = g.facts
      /\ h.said = g.said /\ h.turns = g.turns /\ h.spared = g.spared
  BY DEF Effects, Good, Typed, Fields
<1> HIDE DEF h
<1>2. h.clues \in Nat /\ h.clues >= g.clues
  BY <1>1 DEF AppendClue, Good, Typed
<1>3. Typed(h)
  BY <1>1, <1>2 DEF Good, Typed
<1>4. g.times[e.id] = 0
  BY DEF Good, Once
<1>5. Once(h)
  <2>1. h.times \in [EventIds -> Nat] /\ h.times[e.id] = 1
    BY <1>1, <1>4 DEF Good, Once
  <2>2. \A f \in EventIds : f # e.id => h.times[f] = g.times[f] /\ (f \in h.fired <=> f \in g.fired)
    BY <1>1 DEF Good, Once
  <2> QED
    BY <1>1, <2>1, <2>2 DEF Good, Once
<1> QED
  BY <1>1, <1>2, <1>3, <1>5 DEF Keeps, Good, h

LEMMA TickEventKeeps ==
  ASSUME NEW g, NEW K, Good(g), NEW e, e.id \in EventIds, NEW lucky
  PROVE  Keeps(g, TickEvent(g, e, lucky), K)
<1> DEFINE fires == ~(e.disabled \/ e.id \in g.fired \/ e.cond = None) /\ Holds(e.cond, g)
           plan == [g EXCEPT !.fired = @ \cup {e.id}, !.times[e.id] = @ + 1,
                             !.stage = [n \in world.npcs |-> IF n = e.npc THEN 0 ELSE @[n]]]
<1>1. Keeps(g, g, K)
  BY KeepsItself
<1>2. CASE ~fires
  BY <1>1, <1>2 DEF TickEvent
<1>3. CASE fires /\ e.kind = "conditional"
  <2>1. Keeps(g, Effects(g, e), K)
    BY <1>3, EffectsKeep
  <2> QED
    BY <1>1, <1>3, <2>1 DEF TickEvent
<1>4. CASE fires /\ e.kind = "npc_intent_driven"
  <2>1. TickEvent(g, e, lucky) = plan
    BY <1>4 DEF TickEvent
  <2>2. /\ DOMAIN plan = DOMAIN g
        /\ plan.fired = g.fired \cup {e.id} /\ plan.times = [g.times EXCEPT ![e.id] = @ + 1]
        /\ plan.stage = [n \in world.npcs |-> IF n = e.npc THEN 0 ELSE g.stage[n]]
        /\ plan.clues = g.clues
        /\ plan.round = g.round /\ plan.quiet = g.quiet /\ plan.climax = g.climax /\ plan.time = g.time
        /\ plan.act = g.act /\ plan.pending = g.pending /\ plan.claims = g.claims
        /\ plan.log = g.log /\ plan.heard = g.heard /\ plan.board = g.board /\ plan.facts = g.facts
        /\ plan.said = g.said /\ plan.turns = g.turns /\ plan.spared = g.spared
    BY DEF Good, Typed, Fields
  <2> HIDE DEF plan
  <2>3. Typed(plan)
    BY <2>2 DEF Good, Typed
  <2>4. g.times[e.id] = 0
    BY <1>4 DEF Good, Once
  <2>5. plan.times \in [EventIds -> Nat] /\ plan.times[e.id] = 1
    BY <2>2, <2>4 DEF Good, Once
  <2>6. \A f \in EventIds : f # e.id => plan.times[f] = g.times[f] /\ (f \in plan.fired <=> f \in g.fired)
    BY <2>2 DEF Good, Once
  <2>7. Once(plan)
    BY <2>2, <2>5, <2>6 DEF Good, Once
  <2>8. g.clues >= g.clues
    BY DEF Good, Typed
  <2> QED
    BY <2>1, <2>2, <2>3, <2>7, <2>8 DEF Keeps, Good
<1>5. CASE fires /\ e.kind \notin {"conditional", "npc_intent_driven"}
  BY <1>1, <1>5 DEF TickEvent
<1> QED
  BY <1>2, <1>3, <1>4, <1>5

LEMMA CommitKeeps ==
  ASSUME NEW g, NEW K, Good(g), NEW fact, fact \in K, NEW gone
  PROVE  Keeps(g, Commit(g, fact, gone), K) /\ Commit(g, fact, gone).facts = g.facts \cup {fact}
BY DEF Keeps, Good, Typed, Once, Commit, Fields

LEMMA CaughtUpKeeps ==
  ASSUME NEW g, NEW K, Good(g), NEW who
  PROVE  /\ Keeps(g, CaughtUp(g, who), K)
         /\ CaughtUp(g, who).round = g.round /\ CaughtUp(g, who).quiet = g.quiet
BY ThresholdAssumption DEF Keeps, Good, Typed, Once, CaughtUp, Fields

LEMMA MovesKeep ==
  ASSUME NEW g, NEW K, Good(g), NEW actors, NEW move
  PROVE  /\ Keeps(g, Moves(g, actors, move), K)
         /\ Moves(g, actors, move).round = g.round /\ Moves(g, actors, move).quiet = g.quiet
<1>1. \A k \in 0..2 : Planned(k, move) \in 0..2
  BY DEF Planned
<1> QED
  BY <1>1 DEF Keeps, Good, Typed, Once, Moves, Fields

LEMMA LoggedKeeps ==
  ASSUME NEW g, NEW K, Good(g), NEW off
  PROVE  /\ Keeps(g, Logged(g, off), K)
         /\ Logged(g, off).round = g.round /\ Logged(g, off).quiet = g.quiet
<1>1. \A n \in world.npcs : (IF n \in off THEN (IF g.log[n] = LogMax THEN LogMax ELSE g.log[n] + 1) ELSE g.log[n])
                              \in 0..LogMax
  BY ThresholdAssumption DEF Good, Typed
<1> QED
  BY <1>1 DEF Keeps, Good, Typed, Once, Logged, Fields

LEMMA ApplyUpdatesKeeps ==
  ASSUME NEW g, NEW K, Good(g), NEW u
  PROVE  Keeps(g, ApplyUpdates(g, u), K)
BY DEF Keeps, Good, Typed, Once, ApplyUpdates, AppendClue, Fields

LEMMA ApplyEventKeeps ==
  ASSUME NEW g, NEW K, Good(g), NEW e
  PROVE  Keeps(g, ApplyEvent(g, e), K)
<1> DEFINE h == IF e.updates = None THEN g ELSE ApplyUpdates(g, e.updates)
<1>1. Keeps(g, h, K)
  BY KeepsItself, ApplyUpdatesKeeps
<1>2. ApplyEvent(g, e) = [h EXCEPT !.legacy = @ \cup {e.name}]
  BY DEF ApplyEvent
<1> HIDE DEF h
<1> QED
  BY <1>1, <1>2 DEF Keeps, Good, Typed, Once, Fields

LEMMA FireIntentKeeps ==
  ASSUME NEW g, NEW K, Good(g), NEW e, e.id \in EventIds
  PROVE  Keeps(g, FireIntent(g, e), K)
BY KeepsItself, EffectsKeep DEF FireIntent, Asked

\* What one step keeps, a fold of it keeps.
LEMMA FoldKeeps ==
  ASSUME NEW kind, NEW aux, NEW g, NEW n \in Nat, NEW K, Good(g),
         \A i \in 1..n : \A h : Good(h) => Keeps(h, StepOf(kind, aux, h, i), K)
  PROVE  Keeps(g, Result(kind, aux, g, n), K)
<1> DEFINE it == CHOOSE f : Runs(f, kind, aux, g, n)
           G == {T \in SUBSET (1..n) : Keeps(g, it[T], K)}
<1>1. Runs(it, kind, aux, g, n)
  BY RunsExist
<1>2. \A T \in SUBSET (1..n) : it[T] = IF T = {} THEN g ELSE StepOf(kind, aux, it[T \ {Max(T)}], Max(T))
  <2> HIDE DEF it
  <2> QED
    BY <1>1 DEF Runs
<1>3. IsFiniteSet(1..n)
  BY FS_Interval
<1>4. ASSUME NEW T \in SUBSET (1..n), \A x \in T : T \ {x} \in G PROVE T \in G
  <2> HIDE DEF it
  <2>1. CASE T = {}
    BY <1>2, <2>1, KeepsItself
  <2>2. CASE T # {}
    <3> DEFINE before == it[T \ {Max(T)}]
    <3>1. Max(T) \in T
      BY <2>2, GreatestIsThere
    <3>2. Keeps(g, before, K) /\ Max(T) \in 1..n
      BY <1>4, <3>1
    <3>3. it[T] = StepOf(kind, aux, before, Max(T))
      BY <1>2, <2>2
    <3>4. Keeps(before, it[T], K)
      <4> HIDE DEF before
      <4> QED
        BY <3>2, <3>3 DEF Keeps
    <3>5. Keeps(g, it[T], K \cup K)
      BY <3>2, <3>4, KeepsOn
    <3>6. K \cup K = K
      OBVIOUS
    <3> QED
      BY <3>5, <3>6
  <2> QED
    BY <2>1, <2>2
<1>5. \A T \in SUBSET (1..n) : T \in G
  <2> HIDE DEF G
  <2> QED
    BY <1>3, <1>4, SubsetInduction
<1> QED
  BY <1>5 DEF Result

\* The tick: what is new among the facts are milestones.
LEMMA TickKeeps ==
  ASSUME NEW g, Good(g), NEW lucky, ListOf(world.events), ListOf(world.milestones)
  PROVE  Keeps(g, Tick(g, lucky), Milestones)
<1> DEFINE a == Spread(g)
           b == Clock(a)
           c == ProcessEvents(b, lucky)
           d == ProcessMilestones(c)
           K == Milestones
<1>1. Keeps(g, a, K)
  BY SpreadKeeps
<1>2. Keeps(a, b, K)
  BY <1>1, ClockKeeps DEF Keeps
<1>3. Keeps(b, c, K)
  <2>1. ASSUME NEW i \in 1..Len(world.events), NEW h, Good(h)
        PROVE  Keeps(h, StepOf("events", lucky, h, i), K)
    <3>1. world.events[i].id \in EventIds
      BY DEF EventIds, ListOf
    <3>2. StepOf("events", lucky, h, i) = TickEvent(h, world.events[i], lucky)
      BY DEF StepOf
    <3> QED
      BY <2>1, <3>1, <3>2, TickEventKeeps
  <2>2. Good(b)
    BY <1>2 DEF Keeps
  <2>3. Len(world.events) \in Nat
    BY DEF ListOf
  <2>4. Keeps(b, Result("events", lucky, b, Len(world.events)), K)
    <3> HIDE DEF b, K
    <3> QED
      BY <2>1, <2>2, <2>3, FoldKeeps
  <2> QED
    BY <2>4, EventsFold
<1>4. Keeps(c, d, K)
  <2>1. ASSUME NEW i \in 1..Len(world.milestones), NEW h, Good(h)
        PROVE  Keeps(h, StepOf("milestones", 0, h, i), K)
    <3> DEFINE m == world.milestones[i]
    <3>1. m.fact \in K
      BY DEF Milestones, ListOf
    <3>2. StepOf("milestones", 0, h, i) = IF Holds(m.cond, h) THEN Commit(h, m.fact, m.gone) ELSE h
      BY DEF StepOf
    <3> HIDE DEF m, K
    <3>3. Keeps(h, Commit(h, m.fact, m.gone), K)
      BY <2>1, <3>1, CommitKeeps
    <3>4. Keeps(h, h, K)
      BY <2>1, KeepsItself
    <3> QED
      BY <3>2, <3>3, <3>4
  <2>2. Good(c)
    BY <1>3 DEF Keeps
  <2>3. Len(world.milestones) \in Nat
    BY DEF ListOf
  <2>4. Keeps(c, Result("milestones", 0, c, Len(world.milestones)), K)
    <3> HIDE DEF c, K
    <3> QED
      BY <2>1, <2>2, <2>3, FoldKeeps
  <2> QED
    BY <2>4, MilestonesFold
<1>5. Keeps(g, d, K)
  <2> HIDE DEF a, b, c, d, K
  <2>1. Keeps(g, b, K \cup K)
    BY <1>1, <1>2, KeepsOn
  <2>2. Keeps(g, c, (K \cup K) \cup K)
    BY <1>3, <2>1, KeepsOn
  <2>3. Keeps(g, d, ((K \cup K) \cup K) \cup K)
    BY <1>4, <2>2, KeepsOn
  <2>4. ((K \cup K) \cup K) \cup K = K
    OBVIOUS
  <2> QED
    BY <2>3, <2>4
<1> QED
  BY <1>5 DEF Tick

\* A claim that is judged changes no other fact, and becomes one only if the verdict says so.
LEMMA JudgedKeeps ==
  ASSUME NEW g, Good(g), NEW claim \in world.claims, NEW verdict \in {"grounded", "exposed", "open"}
  PROVE  /\ Keeps(g, Judged(g, claim, verdict), {claim.fact})
         /\ Judged(g, claim, verdict).facts = IF verdict = "grounded" THEN g.facts \cup {claim.fact} ELSE g.facts
<1> DEFINE k == claim.fact[1]
           F == {claim.fact}
           seen == IF g.claims[k] = "none" THEN [g EXCEPT !.claims[k] = "in_play"] ELSE g
           known == Commit(seen, claim.fact, claim.gone)
<1>0. k \in ClaimKeys
  BY DEF ClaimKeys
<1> HIDE DEF k
<1>1. Keeps(g, seen, F) /\ seen.facts = g.facts
  BY <1>0 DEF Keeps, Good, Typed, Once, Fields, ClaimStatus
<1>2. Keeps(seen, known, F) /\ known.facts = seen.facts \cup {claim.fact}
  <2>1. Good(seen) /\ claim.fact \in F
    BY <1>1 DEF Keeps
  <2> HIDE DEF seen, F
  <2> QED
    BY <2>1, CommitKeeps
<1> HIDE DEF seen
<1>3. Good(seen) /\ Good(known)
  BY <1>1, <1>2 DEF Keeps
<1>4. Judged(g, claim, verdict) =
        CASE verdict = "grounded" -> [known EXCEPT !.claims[k] = "grounded"]
          [] verdict = "exposed"  -> [seen EXCEPT !.claims[k] = "exposed"]
          [] verdict = "open"     -> seen
  BY DEF Judged, seen, k
<1> HIDE DEF known
<1>5. CASE verdict = "grounded"
  <2> DEFINE h == [known EXCEPT !.claims[k] = "grounded"]
  <2>1. Keeps(known, h, F) /\ h.facts = known.facts
    BY <1>0, <1>3 DEF Keeps, Good, Typed, Once, Fields, ClaimStatus
  <2> HIDE DEF h, F
  <2>2. Keeps(g, known, F \cup F)
    BY <1>1, <1>2, KeepsOn
  <2>3. Keeps(g, h, (F \cup F) \cup F)
    BY <2>1, <2>2, KeepsOn
  <2>4. (F \cup F) \cup F = F
    OBVIOUS
  <2>5. Judged(g, claim, verdict) = h
    BY <1>4, <1>5 DEF h
  <2> QED
    BY <1>1, <1>2, <1>5, <2>1, <2>3, <2>4, <2>5 DEF F
<1>6. CASE verdict = "exposed"
  <2> DEFINE h == [seen EXCEPT !.claims[k] = "exposed"]
  <2>1. Keeps(seen, h, F) /\ h.facts = seen.facts
    BY <1>0, <1>3 DEF Keeps, Good, Typed, Once, Fields, ClaimStatus
  <2> HIDE DEF h, F
  <2>2. Keeps(g, h, F \cup F)
    BY <1>1, <2>1, KeepsOn
  <2>3. Judged(g, claim, verdict) = h
    BY <1>4, <1>6 DEF h
  <2>4. F \cup F = F
    OBVIOUS
  <2> QED
    BY <1>1, <1>6, <2>1, <2>2, <2>3, <2>4 DEF F
<1>7. CASE verdict = "open"
  BY <1>1, <1>4, <1>7
<1> QED
  BY <1>5, <1>6, <1>7

\* The background and the log of the absent touch nothing an ending is judged by.
LEMMA AbsentKeep ==
  ASSUME NEW g, Good(g), NEW n, NEW move
  PROVE  LET h == Moves(CaughtUp(g, {n}), {n}, move) IN
         Keeps(g, h, {}) /\ h.round = g.round /\ h.quiet = g.quiet
<1> DEFINE c == CaughtUp(g, {n})
           h == Moves(c, {n}, move)
<1>1. Keeps(g, c, {}) /\ c.round = g.round /\ c.quiet = g.quiet
  BY CaughtUpKeeps
<1>2. Good(c)
  BY <1>1 DEF Keeps
<1>3. Keeps(c, h, {}) /\ h.round = c.round /\ h.quiet = c.quiet
  <2> HIDE DEF c
  <2> QED
    BY <1>2, MovesKeep
<1>4. Keeps(g, h, {} \cup {})
  <2> HIDE DEF c, h
  <2> QED
    BY <1>1, <1>3, KeepsOn
<1>5. {} \cup {} = {}
  OBVIOUS
<1> QED
  BY <1>1, <1>3, <1>4, <1>5

(***************************************************************************)
(* The invariant.                                                          *)
(***************************************************************************)
Phases == {"idle", "begun", "ticked", "told", "updated", "fired"}
EndingTypes == {e.type : e \in world.endings}

\* The rest of TypeOK, and what a turn was asked.
Sound ==
  /\ world \in Worlds /\ played \in Nat /\ ticks \subseteq world.npcs
  /\ pc \in Phases /\ ended \in EndingTypes \cup {None}
  /\ DOMAIN turn = {"recap", "input", "actors", "fired"}
  /\ turn.recap \in BOOLEAN /\ turn.input \in (0..Segments) \cup {2}

\* FactsAreGrounded of a state.
Grounded(g) ==
  \A f \in g.facts \ Milestones :
    \E c \in world.claims :
      /\ c.fact = f
      /\ \/ /\ <<c, None>> \in g.said
            /\ c.type = "prerequisite" /\ c.requires # {} /\ c.requires \subseteq Known(g)
         \/ c.required # None /\ <<c, c.required>> \in g.said

\* Of the turns played those that stand are as many at most; from ClimaxRound on each of them
\* was a turn at the climax, and is counted.
Lingering(g) ==
  /\ g.turns <= played
  /\ g.turns >= ClimaxRound => g.climax >= (g.turns - ClimaxRound) + 1

\* What holds of the state at every moment.
Fine(g) == Good(g) /\ g.board \subseteq 1..g.clues /\ Grounded(g) /\ Lingering(g)

Scripted == world.mode = "script" /\ world.endings # {}

\* What the turns that stand may come to while no ending was taken back.
Limit == ClimaxRound + ForcedLinger - 2

\* EndsInTime of a state that is saved.
Moving(g) == Scripted => g.turns - g.spared <= Limit /\ (Stalled(g) => g.spared > 0)

\* Which turns the end counts on.
Counted ==
  /\ pc # "idle" => ended = None
  /\ pc \in {"idle", "begun"} /\ ended = None => Moving(s)
  /\ Scripted => IF ended = None THEN s.turns - s.spared <= Limit ELSE s.turns - s.spared <= Limit + 1
  /\ pc \in {"told", "updated", "fired"} /\ Number >= ClimaxRound => s.act = "climax"

\* What a retry goes back to was a saved state of the running story.
Returnable ==
  again # None => /\ Fine(again.state) /\ Moving(again.state)
                  /\ DOMAIN again = {"state", "input", "retries"}
                  /\ again.input \in 0..Segments /\ again.retries \in 0..MaxRetries

IInv == Sound /\ Fine(s) /\ Counted /\ Returnable

\* What the type invariant says of the state, it says of the parts above.
LEMMA TypedIsTypeOK ==
  ASSUME Sound, Typed(s), Returnable
  PROVE  TypeOK
BY DEF Sound, Typed, Returnable, TypeOK, Phases, EndingTypes

LEMMA ListsOfWorld ==
  ASSUME world \in Worlds
  PROVE  /\ ListOf(world.events) /\ ListOf(world.legacy) /\ ListOf(world.milestones)
         /\ IsFiniteSet(world.endings) /\ world.knows \subseteq world.npcs /\ None \notin world.npcs
         /\ \A e \in world.endings : e.type # None /\ e.priority \in Int
         /\ world.inputs \subseteq 0..Segments
BY WorldAssumption

LEMMA Numbers ==
  /\ ClimaxRound \in Nat /\ ClimaxRound > 1 /\ ForcedLinger \in Nat /\ ForcedLinger >= 1
  /\ Limit \in Nat /\ MaxRetries \in Nat /\ Segments \in Nat /\ Segments >= 1
BY ThresholdAssumption DEF Limit

LEMMA InitIInv == Init => IInv
<1> SUFFICES ASSUME Init PROVE IInv
  OBVIOUS
<1>1. /\ world \in Worlds /\ s = Fresh(world) /\ played = 1 /\ pc = "idle" /\ ended = None /\ ticks = {}
      /\ again = None /\ turn = Waiting
  BY DEF Init
<1>2. Sound
  BY <1>1, Numbers DEF Sound, Phases, Waiting
<1>3. DOMAIN s = Fields
  BY <1>1 DEF Fresh, Fields
<1>4. /\ s.round = 1 /\ s.quiet = 1 /\ s.climax = 0 /\ s.clues = 0 /\ s.time = 0 /\ s.act = "intro"
      /\ s.pending = 0 /\ s.fired = {} /\ s.facts = {} /\ s.board = {} /\ s.heard = world.knows
      /\ s.turns = 1 /\ s.spared = 0
  BY <1>1 DEF Fresh
<1>5. /\ s.claims = [k \in ClaimKeys |-> "none"] /\ s.stage = [n \in world.npcs |-> 0]
      /\ s.log = [n \in world.npcs |-> 0] /\ s.times = [e \in EventIds |-> 0]
  BY <1>1 DEF Fresh, EventIds, ClaimKeys
<1>6. Typed(s)
  BY <1>1, <1>3, <1>4, <1>5, ListsOfWorld, ThresholdAssumption DEF Typed, Acts, ClaimStatus
<1>7. Once(s)
  BY <1>4, <1>5 DEF Once
<1>8. ~Stalled(s)
  BY <1>4, ThresholdAssumption DEF Stalled
<1>9. Lingering(s) /\ Grounded(s)
  BY <1>1, <1>4, ThresholdAssumption DEF Lingering, Grounded
<1>10. s.turns - s.spared <= Limit
  BY <1>4, Numbers DEF Limit
<1>11. Counted /\ Returnable
  BY <1>1, <1>8, <1>10 DEF Counted, Returnable, Moving
<1> QED
  BY <1>2, <1>4, <1>6, <1>7, <1>9, <1>11 DEF IInv, Fine, Good

\* The world does not change and no turn is taken back from `played`: what holds of the state goes on
\* to hold of what an operation makes of it.
LEMMA FineCarries ==
  ASSUME Fine(s), NEW K, K \subseteq Milestones, Keeps(s, s', K), world' = world,
         played \in Nat, played' \in Nat, played' >= played
  PROVE  Fine(s)'
<1>1. Good(s)'
  BY DEF Keeps, Good, Typed, Once, EventIds, ClaimKeys
<1>2. (s.board \subseteq 1..s.clues)'
  <2>1. s.clues \in Nat /\ s'.clues \in Nat /\ s'.clues >= s.clues /\ s'.board = s.board
    BY DEF Keeps, Fine, Good, Typed
  <2>2. 1..s.clues \subseteq 1..s'.clues
    BY <2>1
  <2> QED
    BY <2>1, <2>2 DEF Fine
<1>3. Grounded(s)'
  <2>1. Milestones' = Milestones
    BY DEF Milestones
  <2>2. s.facts \subseteq s'.facts /\ s'.facts \ Milestones \subseteq s.facts \ Milestones /\ s.said \subseteq s'.said
    BY DEF Keeps
  <2>3. Known(s) \subseteq Known(s')
    BY <2>2 DEF Known
  <2>4. ASSUME NEW f \in s'.facts \ Milestones
        PROVE  \E c \in world.claims :
                 /\ c.fact = f
                 /\ \/ /\ <<c, None>> \in s'.said
                       /\ c.type = "prerequisite" /\ c.requires # {} /\ c.requires \subseteq Known(s')
                    \/ c.required # None /\ <<c, c.required>> \in s'.said
    BY <2>2, <2>3 DEF Fine, Grounded
  <2> QED
    BY <2>1, <2>4 DEF Grounded, Known
<1>4. Lingering(s)'
  <2>1. s'.turns = s.turns /\ s'.climax = s.climax /\ s.turns \in Nat
    BY DEF Keeps, Fine, Good, Typed
  <2>2. Lingering(s)
    BY DEF Fine
  <2> QED
    BY <2>1, <2>2 DEF Lingering
<1> QED
  BY <1>1, <1>2, <1>3, <1>4 DEF Fine

\* What a retry goes back to was fine when it was kept, and is as long as no turn is taken back from
\* `played`.
LEMMA ReturnableCarries ==
  ASSUME Returnable, again # None, world' = world, again' = again, played \in Nat, played' \in Nat, played' >= played
  PROVE  Returnable'
<1> DEFINE g == again.state
<1>1. Fine(g) /\ Moving(g)
  BY DEF Returnable
<1>2. Good(g)'
  BY <1>1 DEF Fine, Good, Typed, Once, EventIds, ClaimKeys
<1>3. (g.board \subseteq 1..g.clues)'
  BY <1>1 DEF Fine
<1>4. Grounded(g)'
  <2>1. Milestones' = Milestones
    BY DEF Milestones
  <2> QED
    BY <1>1, <2>1 DEF Fine, Grounded, Known
<1>5. Lingering(g)'
  <2>1. g.turns \in Nat /\ g'.turns = g.turns /\ g'.climax = g.climax /\ Lingering(g)
    BY <1>1 DEF Fine, Good, Typed
  <2> HIDE DEF g
  <2> QED
    BY <2>1 DEF Lingering
<1>6. Moving(g)'
  BY <1>1 DEF Moving, Scripted, Stalled, Limit
<1> QED
  BY <1>2, <1>3, <1>4, <1>5, <1>6 DEF Fine, Returnable

\* An operation on the state that only moves the turn on keeps the invariant.
LEMMA TurnGoesOn ==
  ASSUME IInv, NEW K, K \subseteq Milestones, Keeps(s, s', K), pc # "idle",
         world' = world, played' = played, again' = again, ended' = ended, ticks' = ticks,
         DOMAIN turn' = DOMAIN turn, turn'.recap = turn.recap, turn'.input = turn.input,
         pc' \in {"ticked", "told", "updated", "fired"},
         pc' \in {"told", "updated", "fired"} => pc \in {"told", "updated", "fired"}
  PROVE  IInv'
<1>1. Sound /\ Fine(s) /\ Counted /\ Returnable
  BY DEF IInv
<1>2. played \in Nat
  BY <1>1 DEF Sound
<1>3. Fine(s)'
  BY <1>1, <1>2, FineCarries
<1>4. Returnable'
  BY <1>1, <1>2, ReturnableCarries DEF Returnable
<1>5. Sound'
  BY <1>1 DEF Sound, Phases, EndingTypes
<1>6. s'.turns = s.turns /\ s'.spared = s.spared /\ s'.act = s.act
  BY DEF Keeps
<1>7. Counted'
  BY <1>1, <1>6 DEF Counted, Scripted, Limit, Number
<1> QED
  BY <1>3, <1>4, <1>5, <1>7 DEF IInv

\* A stalled script with endings has an ending to offer: where none is of a preferred type, one of
\* the least priority, and a finite set of numbers has a least one.
LEMMA LeastIsThere ==
  ASSUME NEW E, IsFiniteSet(E), E # {}, \A e \in E : e.priority \in Int
  PROVE  \E e \in E : \A f \in E : e.priority <= f.priority
<1> DEFINE G == {T \in SUBSET E : T # {} => \E e \in T : \A f \in T : e.priority <= f.priority}
<1>1. ASSUME NEW T \in SUBSET E, \A x \in T : T \ {x} \in G PROVE T \in G
  <2> SUFFICES ASSUME NEW x \in T PROVE \E e \in T : \A f \in T : e.priority <= f.priority
    OBVIOUS
  <2>1. CASE T \ {x} = {}
    <3>1. T = {x} /\ x.priority \in Int
      BY <2>1
    <3> QED
      BY <3>1
  <2>2. CASE T \ {x} # {}
    <3>1. PICK e \in T \ {x} : \A f \in T \ {x} : e.priority <= f.priority
      BY <1>1, <2>2
    <3>2. x.priority \in Int /\ e.priority \in Int /\ \A f \in T : f.priority \in Int
      OBVIOUS
    <3>3. CASE x.priority <= e.priority
      BY <3>1, <3>2, <3>3
    <3>4. CASE ~(x.priority <= e.priority)
      BY <3>1, <3>2, <3>4
    <3> QED
      BY <3>3, <3>4
  <2> QED
    BY <2>1, <2>2
<1>2. E \in G
  <2> HIDE DEF G
  <2> QED
    BY <1>1, SubsetInduction
<1> QED
  BY <1>2

LEMMA StallIsResolved ==
  ASSUME world \in Worlds, world.mode = "script", world.endings # {}, NEW g, Stalled(g), NEW word
  PROVE  Resolve(g, word) # {}
<1>1. StallEndings # {}
  <2>1. \E e \in world.endings : \A f \in world.endings : e.priority <= f.priority
    BY ListsOfWorld, LeastIsThere
  <2> QED
    BY <2>1 DEF StallEndings
<1> QED
  BY <1>1 DEF Resolve

LEMMA ResolvedAreEndings ==
  ASSUME NEW g, NEW word
  PROVE  Resolve(g, word) \subseteq world.endings
BY DEF Resolve, HardEndings, StallEndings

\* A turn begins: with a new action, with the last one from the state it started from, as a recap.
LEMMA BeginStep ==
  ASSUME IInv, ProcessAction
  PROVE  IInv'
<1>1. Sound /\ Fine(s) /\ Counted /\ Returnable /\ played \in Nat
  BY DEF IInv, Sound
<1>2. PICK input \in world.inputs :
        /\ again' = IF world.extra = 0 THEN None ELSE [state |-> s, input |-> input, retries |-> 0]
        /\ turn' = [Waiting EXCEPT !.input = input]
  BY DEF ProcessAction
<1>3. /\ pc = "idle" /\ ended = None /\ pc' = "begun"
      /\ world' = world /\ s' = s /\ played' = played /\ ended' = ended /\ ticks' = ticks
  BY DEF ProcessAction
<1>4. input \in 0..Segments
  BY <1>1, ListsOfWorld DEF Sound
<1>5. Fine(s)'
  <2>1. Keeps(s, s', {})
    BY <1>1, <1>3, KeepsItself DEF Fine
  <2> QED
    BY <1>1, <1>3, <2>1, FineCarries
<1>6. Sound'
  BY <1>1, <1>2, <1>3, <1>4 DEF Sound, Phases, EndingTypes, Waiting
<1>7. Moving(s)'
  BY <1>1, <1>3 DEF Counted, Moving, Scripted, Stalled, Limit
<1>8. Counted'
  BY <1>1, <1>3, <1>7 DEF Counted, Scripted, Limit
<1>9. Returnable'
  <2>1. CASE world.extra = 0
    BY <1>2, <2>1 DEF Returnable
  <2>2. CASE world.extra # 0
    <3>1. again' = [state |-> s, input |-> input, retries |-> 0]
      BY <1>2, <2>2
    <3>2. again'.state = s' /\ again'.input = input /\ again'.retries = 0
      BY <1>3, <3>1
    <3>3. Fine(again.state)' /\ Moving(again.state)'
      BY <1>5, <1>7, <3>2
    <3>4. 0 \in 0..MaxRetries
      BY Numbers
    <3> QED
      BY <1>4, <3>1, <3>2, <3>3, <3>4 DEF Returnable
  <2> QED
    BY <2>1, <2>2
<1> QED
  BY <1>5, <1>6, <1>8, <1>9 DEF IInv

LEMMA RetryStep ==
  ASSUME IInv, RetryAction
  PROVE  IInv'
<1>1. Sound /\ Counted /\ Returnable /\ played \in Nat
  BY DEF IInv, Sound
<1>2. /\ pc = "idle" /\ ended = None /\ again # None /\ again.retries < MaxRetries
      /\ s' = again.state /\ again' = [again EXCEPT !.retries = @ + 1]
      /\ turn' = [Waiting EXCEPT !.input = again.input] /\ pc' = "begun"
      /\ world' = world /\ played' = played /\ ended' = ended /\ ticks' = ticks
  BY DEF RetryAction
<1>3. /\ Fine(again.state) /\ Moving(again.state)
      /\ DOMAIN again = {"state", "input", "retries"}
      /\ again.input \in 0..Segments /\ again.retries \in 0..MaxRetries
  BY <1>1, <1>2 DEF Returnable
<1>4. /\ again'.state = s' /\ again'.input = again.input /\ again'.retries = again.retries + 1
      /\ DOMAIN again' = {"state", "input", "retries"}
  BY <1>2, <1>3
<1>5. again.retries + 1 \in 0..MaxRetries
  BY <1>2, <1>3, Numbers
<1>6. Fine(s)'
  <2>1. Good(s') /\ Grounded(s') /\ Lingering(s') /\ s'.board \subseteq 1..s'.clues
    BY <1>2, <1>3 DEF Fine
  <2>2. Good(s)'
    BY <1>2, <2>1 DEF Good, Typed, Once, EventIds, ClaimKeys
  <2>3. Grounded(s)'
    <3>1. Milestones' = Milestones
      BY <1>2 DEF Milestones
    <3> QED
      BY <1>2, <2>1, <3>1 DEF Grounded, Known
  <2>4. Lingering(s)'
    BY <1>2, <2>1 DEF Lingering
  <2> QED
    BY <2>1, <2>2, <2>3, <2>4 DEF Fine
<1>7. Moving(s)'
  BY <1>2, <1>3 DEF Moving, Scripted, Stalled, Limit
<1>8. Sound'
  BY <1>1, <1>2, <1>3 DEF Sound, Phases, EndingTypes, Waiting
<1>9. Counted'
  BY <1>2, <1>7 DEF Counted, Moving
<1>10. Returnable'
  <2>1. Fine(again.state)' /\ Moving(again.state)'
    BY <1>4, <1>6, <1>7
  <2> QED
    BY <1>3, <1>4, <1>5, <2>1 DEF Returnable
<1> QED
  BY <1>6, <1>8, <1>9, <1>10 DEF IInv

LEMMA ResumeStep ==
  ASSUME IInv, ResumeGame
  PROVE  IInv'
<1>1. Sound /\ Fine(s) /\ Counted /\ Returnable /\ played \in Nat
  BY DEF IInv, Sound
<1>2. /\ pc = "idle" /\ pc' = "begun" /\ ended' = None
      /\ s' = IF ended = None THEN s ELSE [s EXCEPT !.spared = @ + 1]
      /\ turn' = [Waiting EXCEPT !.recap = TRUE, !.input = 2]
      /\ world' = world /\ played' = played /\ again' = again /\ ticks' = ticks
  BY DEF ResumeGame
<1>3. Good(s) /\ s.turns \in Nat /\ s.spared \in Nat /\ DOMAIN s = Fields
  BY <1>1 DEF Fine, Good, Typed
<1>4. /\ DOMAIN s' = Fields /\ s'.turns = s.turns /\ s'.climax = s.climax /\ s'.quiet = s.quiet
      /\ s'.round = s.round
      /\ s'.spared = IF ended = None THEN s.spared ELSE s.spared + 1
  BY <1>2, <1>3 DEF Fields
<1>5. Fine(s)'
  <2>1. Good(s)'
    BY <1>2, <1>3 DEF Good, Typed, Once, EventIds, ClaimKeys, Fields
  <2>2. (s.board \subseteq 1..s.clues)'
    BY <1>1, <1>2, <1>3 DEF Fine, Fields
  <2>3. s'.facts = s.facts /\ s'.said = s.said
    BY <1>2, <1>3 DEF Fields
  <2>4. Grounded(s)'
    <3>1. Milestones' = Milestones
      BY <1>2 DEF Milestones
    <3> QED
      BY <1>1, <1>2, <2>3, <3>1 DEF Fine, Grounded, Known
  <2>5. Lingering(s)'
    BY <1>1, <1>2, <1>4 DEF Fine, Lingering
  <2> QED
    BY <2>1, <2>2, <2>4, <2>5 DEF Fine
<1>6. Moving(s)'
  <2>1. CASE ended = None
    <3>1. Moving(s) /\ s' = s
      BY <1>1, <1>2, <2>1 DEF Counted
    <3> QED
      BY <1>2, <3>1 DEF Moving, Scripted, Stalled, Limit
  <2>2. CASE ended # None
    <3>1. Scripted => s.turns - s.spared <= Limit + 1
      BY <1>1, <2>2 DEF Counted
    <3>2. s'.spared = s.spared + 1
      BY <1>4, <2>2
    <3>3. s'.spared > 0 /\ (Scripted => s'.turns - s'.spared <= Limit)
      <4>1. s'.spared > 0
        BY <1>3, <3>2
      <4>2. ASSUME Scripted PROVE s'.turns - s'.spared <= Limit
        BY <1>3, <1>4, <3>1, <3>2, <4>2, Numbers
      <4> QED
        BY <4>1, <4>2
    <3> QED
      BY <1>2, <3>3 DEF Moving, Scripted, Limit
  <2> QED
    BY <2>1, <2>2
<1>7. Sound'
  <2>1. 2 \in (0..Segments) \cup {2}
    OBVIOUS
  <2> QED
    BY <1>1, <1>2, <2>1 DEF Sound, Phases, EndingTypes, Waiting
<1>8. Counted'
  BY <1>2, <1>6 DEF Counted, Moving
<1>9. Returnable'
  BY <1>1, <1>2, ReturnableCarries DEF Returnable
<1> QED
  BY <1>5, <1>7, <1>8, <1>9 DEF IInv

\* The turn that came to nothing leaves the state it began with.
LEMMA FailStep ==
  ASSUME IInv, FailTurn
  PROVE  IInv'
<1>1. Sound /\ Fine(s) /\ Counted /\ Returnable /\ played \in Nat
  BY DEF IInv, Sound
<1>2. /\ pc = "begun" /\ pc' = "idle" /\ turn' = Waiting
      /\ world' = world /\ s' = s /\ played' = played /\ again' = again /\ ended' = ended /\ ticks' = ticks
  BY DEF FailTurn
<1>3. Fine(s)'
  <2>1. Keeps(s, s', {})
    BY <1>1, <1>2, KeepsItself DEF Fine
  <2> QED
    BY <1>1, <1>2, <2>1, FineCarries
<1>4. Sound'
  BY <1>1, <1>2, Numbers DEF Sound, Phases, EndingTypes, Waiting
<1>5. Counted'
  BY <1>1, <1>2 DEF Counted, Moving, Scripted, Stalled, Limit
<1>6. Returnable'
  BY <1>1, <1>2, ReturnableCarries DEF Returnable
<1> QED
  BY <1>3, <1>4, <1>5, <1>6 DEF IInv

LEMMA PlayStep ==
  ASSUME IInv, Play
  PROVE  IInv'
<1> DEFINE p == [s EXCEPT !.pending = Pending(turn.input)]
<1>1. PICK lucky \in SUBSET Uncertain : s' = Tick(p, lucky)
  BY DEF Play
<1>2. Good(s) /\ world \in Worlds /\ turn.input \in (0..Segments) \cup {2}
  BY DEF IInv, Sound, Fine
<1>3. Pending(turn.input) \in 0..Segments
  BY <1>2, Numbers DEF Pending, Good, Typed
<1>4. Keeps(s, p, {})
  BY <1>2, <1>3 DEF Keeps, Good, Typed, Once, Fields
<1> HIDE DEF p
<1>5. Keeps(p, s', Milestones)
  BY <1>1, <1>2, <1>4, ListsOfWorld, TickKeeps DEF Keeps
<1>6. Keeps(s, s', {} \cup Milestones)
  BY <1>2, <1>4, <1>5, KeepsOn
<1>7. {} \cup Milestones = Milestones
  OBVIOUS
<1>8. /\ world' = world /\ played' = played /\ again' = again /\ turn' = turn /\ ended' = ended
      /\ ticks' = ticks /\ pc = "begun" /\ pc' = "ticked"
  BY DEF Play
<1> QED
  BY <1>6, <1>7, <1>8, TurnGoesOn

\* What the player claims this turn: the verdict puts it among the facts only when the facts its
\* premise rests on are there, or who must consent to it backed it.
LEMMA GroundingKeeps ==
  ASSUME NEW g, Good(g), NEW claim \in world.claims \cup {None}, NEW actors \in SUBSET world.npcs,
         NEW assents \in SUBSET actors, None \notin world.npcs
  PROVE  LET h == Grounding(g, claim, actors, assents) IN
         \/ Keeps(g, h, {})
         \/ /\ claim \in world.claims /\ Keeps(g, h, {claim.fact})
            /\ \/ /\ <<claim, None>> \in h.said
                  /\ claim.type = "prerequisite" /\ claim.requires # {} /\ claim.requires \subseteq Known(g)
               \/ claim.required # None /\ <<claim, claim.required>> \in h.said
<1> DEFINE h == Grounding(g, claim, actors, assents)
           v == Verdict(claim, g, actors, assents)
           j == Judged(g, claim, v)
           more == {<<claim, n>> : n \in assents \cup {None}}
<1>1. CASE ~(world.mode = "free" /\ claim # None)
  BY <1>1, KeepsItself DEF Grounding
<1>2. CASE world.mode = "free" /\ claim # None
  <2>1. claim \in world.claims /\ h = [j EXCEPT !.said = @ \cup more]
    BY <1>2 DEF Grounding
  <2>2. v \in {"grounded", "exposed", "open"}
    BY DEF Verdict
  <2>3. Keeps(g, j, {claim.fact}) /\ j.facts = IF v = "grounded" THEN g.facts \cup {claim.fact} ELSE g.facts
    <3> HIDE DEF v
    <3> QED
      BY <2>1, <2>2, JudgedKeeps
  <2>4. v = "grounded" => \/ claim.type = "prerequisite" /\ claim.requires # {} /\ claim.requires \subseteq Known(g)
                          \/ claim.required \in assents
    BY DEF Verdict
  <2>5. <<claim, None>> \in more /\ \A n \in assents : <<claim, n>> \in more
    OBVIOUS
  <2> HIDE DEF v, j, h, more
  <2>6. Keeps(j, h, {}) /\ h.said = j.said \cup more /\ h.facts = j.facts
    BY <2>1, <2>3 DEF Keeps, Good, Typed, Once, Fields
  <2>7. Keeps(g, h, {claim.fact} \cup {})
    BY <2>3, <2>6, KeepsOn
  <2>8. {claim.fact} \cup {} = {claim.fact}
    OBVIOUS
  <2>9. CASE v = "grounded"
    <3>1. claim.required \in assents => claim.required # None
      OBVIOUS
    <3>2. \/ /\ <<claim, None>> \in h.said
             /\ claim.type = "prerequisite" /\ claim.requires # {} /\ claim.requires \subseteq Known(g)
          \/ claim.required # None /\ <<claim, claim.required>> \in h.said
      BY <2>4, <2>5, <2>6, <2>9, <3>1
    <3> QED
      BY <2>1, <2>7, <2>8, <3>2 DEF h
  <2>10. CASE v # "grounded"
    <3>1. Keeps(g, h, {})
      BY <2>3, <2>6, <2>7, <2>8, <2>10 DEF Keeps
    <3> QED
      BY <3>1 DEF h
  <2> QED
    BY <2>9, <2>10
<1> QED
  BY <1>1, <1>2

LEMMA DirectStep ==
  ASSUME IInv, Direct
  PROVE  IInv'
<1>0. PICK actors \in SUBSET world.npcs, claim \in world.claims \cup {None},
           climactic \in BOOLEAN, weak \in BOOLEAN, move \in world.moves :
        \E assents \in SUBSET actors, caught \in SUBSET Returning(s, actors),
           kept \in {k \in SUBSET actors : IF weak THEN Cardinality(k) <= 1 ELSE k = actors} :
          LET g == Grounding(Moves(CaughtUp(s, caught), actors, move), claim, actors, assents) IN
          /\ s' = [g EXCEPT !.act = DetectAct(Number, g.clues, climactic /\ ~weak)]
          /\ turn' = [turn EXCEPT !.actors = kept]
  BY DEF Direct
<1>1. PICK assents \in SUBSET actors, caught \in SUBSET Returning(s, actors), kept \in SUBSET actors :
        LET g == Grounding(Moves(CaughtUp(s, caught), actors, move), claim, actors, assents) IN
        /\ s' = [g EXCEPT !.act = DetectAct(Number, g.clues, climactic /\ ~weak)]
        /\ turn' = [turn EXCEPT !.actors = kept]
  BY <1>0
<1> DEFINE c == CaughtUp(s, caught)
           m == Moves(c, actors, move)
           g == Grounding(m, claim, actors, assents)
           act == DetectAct(Number, g.clues, climactic /\ ~weak)
<1>2. /\ world' = world /\ played' = played /\ again' = again /\ ended' = ended /\ ticks' = ticks
      /\ pc = "ticked" /\ pc' = "told"
  BY DEF Direct
<1>3. Sound /\ Fine(s) /\ Counted /\ Returnable /\ Good(s) /\ world \in Worlds /\ played \in Nat
  BY DEF IInv, Sound, Fine
<1>4. Keeps(s, c, {})
  BY <1>3, CaughtUpKeeps
<1>5. Keeps(c, m, {})
  <2>1. Good(c)
    BY <1>4 DEF Keeps
  <2> HIDE DEF c
  <2> QED
    BY <2>1, MovesKeep
<1>6. Keeps(s, m, {}) /\ Good(m)
  <2> HIDE DEF c, m
  <2>1. Keeps(s, m, {} \cup {})
    BY <1>3, <1>4, <1>5, KeepsOn
  <2>2. {} \cup {} = {}
    OBVIOUS
  <2> QED
    BY <2>1, <2>2 DEF Keeps
<1>7. s' = [g EXCEPT !.act = act] /\ turn' = [turn EXCEPT !.actors = kept]
  BY <1>1
<1> HIDE DEF m
<1>8. \/ Keeps(m, g, {})
      \/ /\ claim \in world.claims /\ Keeps(m, g, {claim.fact})
         /\ \/ /\ <<claim, None>> \in g.said
               /\ claim.type = "prerequisite" /\ claim.requires # {} /\ claim.requires \subseteq Known(m)
            \/ claim.required # None /\ <<claim, claim.required>> \in g.said
  BY <1>3, <1>6, ListsOfWorld, GroundingKeeps
<1>9. act \in Acts /\ (Number >= ClimaxRound => act = "climax")
  BY DEF DetectAct, Acts
<1>10. \E K : Keeps(s, g, K)
  BY <1>3, <1>6, <1>8, KeepsOn
<1> HIDE DEF g, act
<1>11. /\ Good(s') /\ s'.act = act /\ s'.climax = s.climax /\ s'.board = s.board
       /\ s'.clues \in Nat /\ s'.clues >= s.clues /\ s'.facts = g.facts /\ s'.said = g.said
       /\ s'.turns = s.turns /\ s'.spared = s.spared /\ s.said \subseteq s'.said /\ s.facts \subseteq s'.facts
  BY <1>7, <1>9, <1>10 DEF Keeps, Good, Typed, Once, Fields
<1>12. Good(s)'
  BY <1>2, <1>11 DEF Good, Typed, Once, EventIds, ClaimKeys
<1>13. (s.board \subseteq 1..s.clues)'
  <2>1. s.clues \in Nat
    BY <1>3 DEF Good, Typed
  <2>2. 1..s.clues \subseteq 1..s'.clues
    BY <1>11, <2>1
  <2> QED
    BY <1>3, <1>11, <2>2 DEF Fine
<1>14. Grounded(s)'
  <2>1. Milestones' = Milestones
    BY <1>2 DEF Milestones
  <2>2. m.facts = s.facts
    BY <1>6 DEF Keeps
  <2>3. Known(m) \subseteq Known(s') /\ Known(s) \subseteq Known(s')
    BY <1>11, <2>2 DEF Known
  <2>4. ASSUME NEW f \in s.facts \ Milestones
        PROVE  \E k \in world.claims :
                 /\ k.fact = f
                 /\ \/ /\ <<k, None>> \in s'.said
                       /\ k.type = "prerequisite" /\ k.requires # {} /\ k.requires \subseteq Known(s')
                    \/ k.required # None /\ <<k, k.required>> \in s'.said
    BY <1>3, <1>11, <2>3 DEF Fine, Grounded
  <2>5. ASSUME NEW f \in s'.facts \ Milestones, f \notin s.facts
        PROVE  \E k \in world.claims :
                 /\ k.fact = f
                 /\ \/ /\ <<k, None>> \in s'.said
                       /\ k.type = "prerequisite" /\ k.requires # {} /\ k.requires \subseteq Known(s')
                    \/ k.required # None /\ <<k, k.required>> \in s'.said
    <3>1. ~Keeps(m, g, {})
      BY <1>11, <2>2, <2>5 DEF Keeps
    <3>2. claim \in world.claims /\ f = claim.fact
      BY <1>8, <1>11, <2>2, <2>5, <3>1 DEF Keeps
    <3> QED
      BY <1>8, <1>11, <2>3, <3>1, <3>2
  <2> QED
    BY <1>2, <2>1, <2>4, <2>5 DEF Grounded, Known
<1>15. Lingering(s)'
  BY <1>2, <1>3, <1>11 DEF Fine, Lingering
<1>16. /\ DOMAIN turn' = DOMAIN turn /\ turn'.recap = turn.recap /\ turn'.input = turn.input
  BY <1>3, <1>7 DEF Sound
<1>17. Sound'
  BY <1>2, <1>3, <1>16 DEF Sound, Phases, EndingTypes
<1>18. Counted'
  BY <1>2, <1>3, <1>9, <1>11, <1>16 DEF Counted, Scripted, Limit, Number
<1>19. Returnable'
  BY <1>2, <1>3, ReturnableCarries DEF Returnable
<1> QED
  BY <1>12, <1>13, <1>14, <1>15, <1>17, <1>18, <1>19 DEF IInv, Fine

LEMMA UpdateStep ==
  ASSUME IInv, Update
  PROVE  IInv'
<1>1. PICK answer \in world.updates :
        LET u == ApplyUpdates(s, answer)
            g == [u EXCEPT !.active = [n \in world.npcs |-> IF n \in turn.actors THEN u.round ELSE @[n]]]
            found == CheckEvents(g)
        IN  /\ s' = FoldLeft(LAMBDA h, e : IF e \in found THEN ApplyEvent(h, e) ELSE h, g, world.legacy)
            /\ turn' = [turn EXCEPT !.fired = {e.name : e \in found}]
  BY DEF Update
<1> DEFINE u == ApplyUpdates(s, answer)
           g == [u EXCEPT !.active = [n \in world.npcs |-> IF n \in turn.actors THEN u.round ELSE @[n]]]
           found == CheckEvents(g)
           K == {}
<1>2. Good(s) /\ world \in Worlds
  BY DEF IInv, Sound, Fine
<1>3. Keeps(s, u, K)
  BY <1>2, ApplyUpdatesKeeps
<1> HIDE DEF u
<1>4. Keeps(u, g, K)
  BY <1>3 DEF Keeps, Good, Typed, Once, Fields
<1>5. ListOf(world.legacy)
  BY <1>2, ListsOfWorld
<1>6. /\ s' = Result("legacy", found, g, Len(world.legacy))
      /\ turn' = [turn EXCEPT !.fired = {e.name : e \in found}]
  <2>1. /\ s' = FoldLeft(LAMBDA h, e : IF e \in found THEN ApplyEvent(h, e) ELSE h, g, world.legacy)
        /\ turn' = [turn EXCEPT !.fired = {e.name : e \in found}]
    BY <1>1 DEF u
  <2> HIDE DEF g, found
  <2> QED
    BY <1>5, <2>1, LegacyFold
<1> HIDE DEF g, found
<1>7. Keeps(g, s', K)
  <2>1. ASSUME NEW i \in 1..Len(world.legacy), NEW h, Good(h)
        PROVE  Keeps(h, StepOf("legacy", found, h, i), K)
    BY <2>1, ApplyEventKeeps, KeepsItself DEF StepOf
  <2>2. Good(g) /\ Len(world.legacy) \in Nat
    BY <1>4, <1>5 DEF Keeps, ListOf
  <2>3. Keeps(g, Result("legacy", found, g, Len(world.legacy)), K)
    <3> HIDE DEF K
    <3> QED
      BY <2>1, <2>2, FoldKeeps
  <2> QED
    BY <1>6, <2>3
<1>8. Keeps(s, s', (K \cup K) \cup K)
  <2> HIDE DEF K
  <2>1. Keeps(s, g, K \cup K)
    BY <1>2, <1>3, <1>4, KeepsOn
  <2> QED
    BY <1>2, <1>7, <2>1, KeepsOn
<1>9. (K \cup K) \cup K = {}
  OBVIOUS
<1>10. /\ world' = world /\ played' = played /\ again' = again /\ ended' = ended /\ ticks' = ticks
       /\ pc = "told" /\ pc' = "updated"
  BY DEF Update
<1>11. Keeps(s, s', {}) /\ {} \subseteq Milestones
  BY <1>8, <1>9
<1>12. DOMAIN turn' = DOMAIN turn /\ turn'.recap = turn.recap /\ turn'.input = turn.input
  BY <1>6 DEF IInv, Sound
<1> QED
  BY <1>10, <1>11, <1>12, TurnGoesOn

LEMMA FireStep ==
  ASSUME IInv, Fire
  PROVE  IInv'
<1>1. PICK wanted \in BoundedSeq(DOMAIN world.events, IF world.mode = "script" THEN 2 ELSE 0) :
        s' = FoldLeft(LAMBDA g, i : FireIntent(g, world.events[i]), s, wanted)
  BY DEF Fire
<1>2. PICK n \in Nat : wanted \in [1..n -> DOMAIN world.events]
  BY DEF BoundedSeq, SeqOf
<1>3. Good(s) /\ world \in Worlds
  BY DEF IInv, Sound, Fine
<1>4. s' = Result("wanted", wanted, s, n)
  BY <1>1, <1>2, WantedFold
<1>5. ASSUME NEW i \in 1..n, NEW h, Good(h)
      PROVE  Keeps(h, StepOf("wanted", wanted, h, i), {})
  <2>1. wanted[i] \in DOMAIN world.events
    BY <1>2
  <2>2. world.events[wanted[i]].id \in EventIds
    BY <2>1 DEF EventIds
  <2> QED
    BY <1>5, <2>2, FireIntentKeeps DEF StepOf
<1>6. Keeps(s, s', {})
  BY <1>3, <1>4, <1>5, FoldKeeps
<1>7. /\ world' = world /\ played' = played /\ again' = again /\ ended' = ended /\ ticks' = ticks
      /\ pc = "updated" /\ pc' = "fired" /\ turn' = [turn EXCEPT !.fired = @ \cup (s'.fired \ s.fired)]
  BY DEF Fire
<1>8. DOMAIN turn' = DOMAIN turn /\ turn'.recap = turn.recap /\ turn'.input = turn.input
  BY <1>7 DEF IInv, Sound
<1> QED
  BY <1>6, <1>7, <1>8, TurnGoesOn

\* The end of a turn: only clues that were found come on the board, the climax is counted on, and a
\* story that would stall is ended, or its ending is one that the client left before it was written.
LEMMA CloseStep ==
  ASSUME IInv, Close
  PROVE  IInv'
<1>1. PICK refs \in IF world.mode = "script" THEN SUBSET world.names ELSE {{}},
           word \in {e.type : e \in world.endings} \cup {None, "unheard"},
           off \in SUBSET (world.npcs \ turn.actors) :
       LET b == [s EXCEPT !.board = Filed(s, refs)]
           g == [b EXCEPT !.climax = IF s.act = "climax" THEN @ + 1 ELSE 0,
                          !.turns = IF turn.recap THEN @ ELSE @ + 1]
           ends == Resolve(g, word)
           due == {n \in off : TickDue(n, g)}
       IN  \/ /\ ends = {} /\ ended' = None
              /\ s' = Logged(g, off) /\ ticks' = ticks \cup due
           \/ /\ \E e \in ends : ended' = e.type
              /\ s' = Logged(g, off) /\ ticks' = ticks \cup due
           \/ /\ ends # {} /\ ended' = None
              /\ s' = Logged([g EXCEPT !.spared = @ + 1], off) /\ ticks' = ticks
  BY DEF Close
<1> DEFINE b == [s EXCEPT !.board = Filed(s, refs)]
           g == [b EXCEPT !.climax = IF s.act = "climax" THEN @ + 1 ELSE 0,
                          !.turns = IF turn.recap THEN @ ELSE @ + 1]
           ends == Resolve(g, word)
           due == {n \in off : TickDue(n, g)}
           left == [g EXCEPT !.spared = @ + 1]
<1>2. Sound /\ Fine(s) /\ Counted /\ Returnable /\ Good(s) /\ world \in Worlds /\ played \in Nat
  BY DEF IInv, Sound, Fine
<1>3. /\ world' = world /\ again' = again /\ played' = Number /\ turn' = Waiting
      /\ pc = "fired" /\ pc' = "idle"
  BY DEF Close
<1>4. /\ DOMAIN s = Fields /\ s.turns \in Nat /\ s.climax \in Nat /\ s.spared \in Nat /\ s.clues \in Nat
      /\ turn.recap \in BOOLEAN /\ ended = None
  BY <1>2, <1>3 DEF Good, Typed, Sound, Counted
<1>5. /\ Good(g) /\ g.clues = s.clues /\ g.facts = s.facts /\ g.said = s.said /\ g.board = Filed(s, refs)
      /\ g.climax = (IF s.act = "climax" THEN s.climax + 1 ELSE 0)
      /\ g.turns = (IF turn.recap THEN s.turns ELSE s.turns + 1) /\ g.spared = s.spared
  BY <1>2, <1>4 DEF Good, Typed, Once, Fields
<1>6. \/ /\ ends = {} /\ ended' = None
         /\ s' = Logged(g, off) /\ ticks' = ticks \cup due
      \/ /\ \E e \in ends : ended' = e.type
         /\ s' = Logged(g, off) /\ ticks' = ticks \cup due
      \/ /\ ends # {} /\ ended' = None
         /\ s' = Logged(left, off) /\ ticks' = ticks
  BY <1>1
<1> HIDE DEF g
<1>7. /\ Good(left) /\ left.clues = g.clues /\ left.facts = g.facts /\ left.said = g.said
      /\ left.board = g.board /\ left.climax = g.climax /\ left.turns = g.turns
      /\ left.spared = g.spared + 1 /\ left.quiet = g.quiet /\ left.round = g.round
  BY <1>5 DEF Good, Typed, Once, Fields
<1> HIDE DEF left, ends
<1>8. PICK h : /\ Good(h) /\ s' = Logged(h, off)
               /\ h.clues = s.clues /\ h.facts = s.facts /\ h.said = s.said /\ h.board = Filed(s, refs)
               /\ h.climax = g.climax /\ h.turns = g.turns /\ h.quiet = g.quiet /\ h.round = g.round
               /\ \/ h = g /\ ends = {} /\ ended' = None
                  \/ h = g /\ \E e \in ends : ended' = e.type
                  \/ h.spared = g.spared + 1 /\ ended' = None
  BY <1>5, <1>6, <1>7
<1>9. Keeps(h, s', {}) /\ s'.round = h.round /\ s'.quiet = h.quiet
  BY <1>8, LoggedKeeps
<1>10. /\ Good(s') /\ s'.climax = g.climax /\ s'.turns = g.turns /\ s'.spared = h.spared
       /\ s'.board = Filed(s, refs) /\ s'.facts = s.facts /\ s.said \subseteq s'.said
       /\ s'.clues \in Nat /\ s'.clues >= s.clues
  BY <1>4, <1>8, <1>9 DEF Keeps, Good, Typed
<1>11. Number \in Nat /\ Number >= played /\ g.turns \in Nat /\ g.turns <= Number
  BY <1>2, <1>4, <1>5 DEF Number, Fine, Lingering
<1>12. Lingering(s)'
  <2>1. s.turns >= ClimaxRound => s.climax >= (s.turns - ClimaxRound) + 1
    BY <1>2 DEF Fine, Lingering
  <2>2. ASSUME g.turns >= ClimaxRound PROVE g.climax >= (g.turns - ClimaxRound) + 1
    <3>1. Number >= ClimaxRound
      BY <1>11, <2>2, Numbers
    <3>2. g.climax = s.climax + 1
      BY <1>2, <1>3, <1>5, <3>1 DEF Counted
    <3> QED
      BY <1>4, <1>5, <2>1, <2>2, <3>2, Numbers
  <2> QED
    BY <1>3, <1>10, <1>11, <2>2 DEF Lingering
<1>13. Fine(s)'
  <2>1. Good(s)'
    BY <1>3, <1>10 DEF Good, Typed, Once, EventIds, ClaimKeys
  <2>2. (s.board \subseteq 1..s.clues)'
    <3>1. Filed(s, refs) \subseteq 1..s.clues
      BY <1>2 DEF Fine, Filed
    <3>2. 1..s.clues \subseteq 1..s'.clues
      BY <1>4, <1>10
    <3> QED
      BY <1>10, <3>1, <3>2
  <2>3. Grounded(s)'
    <3>1. Milestones' = Milestones
      BY <1>3 DEF Milestones
    <3> QED
      BY <1>2, <1>3, <1>10, <3>1 DEF Fine, Grounded, Known
  <2> QED
    BY <1>12, <2>1, <2>2, <2>3 DEF Fine
<1>14. ends \subseteq world.endings
  BY ResolvedAreEndings DEF ends
<1>15. Sound'
  <2>1. ended' \in EndingTypes \cup {None}
    BY <1>8, <1>14 DEF EndingTypes
  <2>2. ticks' \subseteq world.npcs
    BY <1>2, <1>6 DEF Sound
  <2> QED
    BY <1>2, <1>3, <1>11, <2>1, <2>2, Numbers DEF Sound, Phases, EndingTypes, Waiting
<1>16. Scripted => s.turns - s.spared <= Limit
  BY <1>2, <1>4 DEF Counted
<1>17. ASSUME Scripted, ended' = None
       PROVE  s'.turns - s'.spared <= Limit /\ (Stalled(s') => s'.spared > 0)
  <2>1. CASE h = g /\ ends = {}
    <3>1. ~Stalled(g)
      BY <1>2, <1>17, <2>1, StallIsResolved DEF ends, Scripted
    <3>2. ~(s'.climax >= ForcedLinger) /\ ~Stalled(s')
      BY <1>8, <1>9, <1>10, <3>1 DEF Stalled
    <3>3. s'.turns >= ClimaxRound => s'.climax >= (s'.turns - ClimaxRound) + 1
      BY <1>12 DEF Lingering
    <3>4. s'.turns \in Nat /\ s'.climax \in Nat /\ s'.spared \in Nat
      BY <1>10 DEF Good, Typed
    <3>5. s'.turns - s'.spared <= Limit
      <4>1. CASE s'.turns >= ClimaxRound
        BY <3>2, <3>3, <3>4, <4>1, Numbers DEF Limit
      <4>2. CASE ~(s'.turns >= ClimaxRound)
        BY <3>4, <4>2, Numbers DEF Limit
      <4> QED
        BY <4>1, <4>2
    <3> QED
      BY <3>2, <3>5
  <2>2. CASE h.spared = g.spared + 1
    <3>1. s'.spared = s.spared + 1 /\ s'.turns <= s.turns + 1 /\ s'.turns \in Nat
      BY <1>4, <1>5, <1>10, <1>11, <2>2
    <3> QED
      BY <1>4, <1>16, <1>17, <3>1, Numbers
  <2>3. CASE \E e \in ends : ended' = e.type
    BY <1>2, <1>14, <1>17, <2>3, ListsOfWorld
  <2> QED
    BY <1>8, <2>1, <2>2, <2>3
<1>18. ASSUME Scripted, ended' # None PROVE s'.turns - s'.spared <= Limit + 1
  <2>1. h = g
    BY <1>8, <1>18
  <2>2. s'.spared = s.spared /\ s'.turns <= s.turns + 1 /\ s'.turns \in Nat
    BY <1>4, <1>5, <1>10, <1>11, <2>1
  <2> QED
    BY <1>4, <1>16, <1>18, <2>2, Numbers
<1>19. Counted'
  <2>1. Scripted' <=> Scripted
    BY <1>3 DEF Scripted
  <2>2. Limit' = Limit
    BY DEF Limit
  <2>3. Stalled(s)' <=> Stalled(s')
    BY DEF Stalled
  <2>4. Moving(s)' <=> (Scripted => s'.turns - s'.spared <= Limit /\ (Stalled(s') => s'.spared > 0))
    BY <2>1, <2>2, <2>3 DEF Moving
  <2> QED
    BY <1>3, <1>17, <1>18, <2>1, <2>2, <2>4 DEF Counted
<1>20. Returnable'
  BY <1>2, <1>3, <1>11, ReturnableCarries DEF Returnable
<1> QED
  BY <1>13, <1>15, <1>19, <1>20 DEF IInv

LEMMA OffstageStep ==
  ASSUME IInv, NEW n \in world.npcs, OffstageTick(n)
  PROVE  IInv'
<1>1. /\ world' = world /\ played' = played /\ again' = again /\ turn' = turn /\ ended' = ended
      /\ pc = "idle" /\ pc' = pc /\ ticks' \subseteq ticks
  BY DEF OffstageTick
<1>2. Sound /\ Fine(s) /\ Counted /\ Returnable /\ Good(s) /\ played \in Nat
  BY DEF IInv, Fine, Sound
<1>3. Keeps(s, s', {}) /\ s'.round = s.round /\ s'.quiet = s.quiet
  <2>1. CASE s' = s
    BY <1>2, <2>1, KeepsItself
  <2>2. ASSUME NEW move, s' = Moves(CaughtUp(s, {n}), {n}, move)
        PROVE  Keeps(s, s', {}) /\ s'.round = s.round /\ s'.quiet = s.quiet
    BY <1>2, <2>2, AbsentKeep
  <2> QED
    BY <2>1, <2>2 DEF OffstageTick
<1>4. Fine(s)'
  BY <1>1, <1>2, <1>3, FineCarries
<1>5. s'.climax = s.climax /\ s'.turns = s.turns /\ s'.spared = s.spared
  BY <1>3 DEF Keeps
<1>6. Counted'
  BY <1>1, <1>2, <1>3, <1>5 DEF Counted, Moving, Scripted, Stalled, Limit
<1>7. Sound'
  BY <1>1, <1>2 DEF Sound, EndingTypes
<1>8. Returnable'
  BY <1>1, <1>2, ReturnableCarries DEF Returnable
<1> QED
  BY <1>4, <1>6, <1>7, <1>8 DEF IInv

LEMMA StepIInv == IInv /\ [Next]_vars => IInv'
<1> SUFFICES ASSUME IInv, [Next]_vars PROVE IInv'
  OBVIOUS
<1>1. CASE UNCHANGED vars
  <2>1. /\ world' = world /\ s' = s /\ played' = played /\ again' = again /\ pc' = pc /\ turn' = turn
        /\ ended' = ended /\ ticks' = ticks /\ played \in Nat
    BY <1>1 DEF vars, IInv, Sound
  <2>2. Fine(s)'
    <3>1. Keeps(s, s', {})
      BY <2>1, KeepsItself DEF IInv, Fine
    <3> QED
      BY <2>1, <3>1, FineCarries DEF IInv
  <2>3. Sound'
    BY <2>1 DEF IInv, Sound, EndingTypes
  <2>4. Counted'
    BY <2>1 DEF IInv, Counted, Moving, Scripted, Stalled, Limit, Number
  <2>5. Returnable'
    BY <2>1, ReturnableCarries DEF IInv, Returnable
  <2> QED
    BY <2>2, <2>3, <2>4, <2>5 DEF IInv
<1>2. CASE ProcessAction
  BY <1>2, BeginStep
<1>3. CASE RetryAction
  BY <1>3, RetryStep
<1>4. CASE ResumeGame
  BY <1>4, ResumeStep
<1>5. CASE FailTurn
  BY <1>5, FailStep
<1>6. CASE Play
  BY <1>6, PlayStep
<1>7. CASE Direct
  BY <1>7, DirectStep
<1>8. CASE Update
  BY <1>8, UpdateStep
<1>9. CASE Fire
  BY <1>9, FireStep
<1>10. CASE Close
  BY <1>10, CloseStep
<1>11. ASSUME NEW n \in world.npcs, OffstageTick(n) PROVE IInv'
  BY <1>11, OffstageStep
<1> QED
  BY <1>1, <1>2, <1>3, <1>4, <1>5, <1>6, <1>7, <1>8, <1>9, <1>10, <1>11 DEF Next

LEMMA InvariantHolds == Spec => []IInv
<1> QED
  BY InitIInv, StepIInv, PTL DEF Spec

\* The state keeps its types, in every world: fired events are the world's, nobody's plan, log or
\* whereabouts is kept of somebody it does not have, an ending that was reached is one of its endings.
THEOREM TypeCorrect == Spec => []TypeOK
<1>1. IInv => TypeOK
  BY TypedIsTypeOK DEF IInv, Fine, Good
<1> QED
  BY <1>1, InvariantHolds, PTL

\* An event of the script takes effect once, whoever fires it: the tick, the director in one turn or
\* in two, an NPC's intent (triggered_event_ids).
THEOREM EventsFireOnce == Spec => []FiresOnce
<1>1. IInv => FiresOnce
  BY DEF IInv, Fine, Good, Once, FiresOnce
<1> QED
  BY <1>1, InvariantHolds, PTL

\* Whatever the director files, turn after turn, the board names clues that were found.
THEOREM BoardIsSound == Spec => []BoardKnowsItsClues
<1>1. IInv => BoardKnowsItsClues
  BY DEF IInv, Fine, BoardKnowsItsClues
<1> QED
  BY <1>1, InvariantHolds, PTL

\* Nothing the player claims becomes a fact by being claimed: in some turn he claimed it on facts that
\* are committed, or the one whose consent that turn's claim takes backed it (INV-1, INV-2); whichever
\* premises a claim is repeated under, and with retries and recaps of its turns.
THEOREM ClaimsAreGrounded == Spec => []FactsAreGrounded
<1>1. IInv => FactsAreGrounded
  BY DEF IInv, Fine, Grounded, FactsAreGrounded
<1> QED
  BY <1>1, InvariantHolds, PTL

\* In a script that has endings the turns that stand and the session plays on with are fewer than
\* ForcedLinger beyond round ClimaxRound - 1, whatever the director and the player do, however often a
\* turn is retried, fails or is interrupted by a recap, and no saved state is stalled and still running:
\* but for the endings a client left before they were written, and those a pause took back.
THEOREM ScriptsEndInTime == Spec => []EndsInTime
<1>1. ASSUME IInv PROVE EndsInTime
  <2> SUFFICES ASSUME pc = "idle", ended = None, Scripted
               PROVE  s.turns - s.spared < ClimaxRound + ForcedLinger - 1 /\ (Stalled(s) => s.spared > 0)
    BY DEF EndsInTime, Scripted
  <2>1. s.turns - s.spared <= Limit /\ (Stalled(s) => s.spared > 0)
    BY <1>1 DEF IInv, Counted, Moving
  <2>2. s.turns \in Nat /\ s.spared \in Nat
    BY <1>1 DEF IInv, Fine, Good, Typed
  <2> QED
    BY <2>1, <2>2, Numbers DEF Limit
<1> QED
  BY <1>1, InvariantHolds, PTL

(***************************************************************************)
(* The calls to the models, for every number of calls, keys, retries and   *)
(* slots: no way a call may end, be tried again or be left loses a slot or *)
(* gives one back twice.                                                   *)
(*                                                                         *)
(* A step is one of three kinds: some call takes a slot, one that has a    *)
(* slot gives it back, or the calls that have one are the same as before.  *)
(***************************************************************************)
CallFields == {"pc", "mode", "key", "tried", "attempt", "out"}

\* A call is a record; which keys it has and what it has handed on does not matter here.
Shaped == DOMAIN call = Calls /\ \A c \in Calls : DOMAIN call[c] = CallFields

CallsInv == Shaped /\ free \in [Pools -> Nat] /\ NoSlotIsLost

HasSlot(c) == call[c].pc \in Held

\* The slot of c is taken from, or given back to, the pool of the model it asks.
Takes(c) ==
  /\ free[Pool(call[c].mode)] > 0
  /\ ~HasSlot(c) /\ HasSlot(c)' /\ call'[c].mode = call[c].mode
  /\ \A d \in Calls \ {c} : call'[d] = call[d]
  /\ free' = [free EXCEPT ![Pool(call[c].mode)] = @ - 1]

Gives(c) ==
  /\ HasSlot(c) /\ ~HasSlot(c)' /\ call'[c].mode = call[c].mode
  /\ \A d \in Calls \ {c} : call'[d] = call[d]
  /\ free' = [free EXCEPT ![Pool(call[c].mode)] = @ + 1]

Stays(c) ==
  /\ HasSlot(c) <=> HasSlot(c)'
  /\ HasSlot(c) => call'[c].mode = call[c].mode
  /\ \A d \in Calls \ {c} : call'[d] = call[d]
  /\ free' = free

-----------------------------------------------------------------------------
\* No call has a slot, and all slots are free: the invariant holds at first.
LEMMA InitInv == CallsInit => CallsInv
  <1> SUFFICES ASSUME CallsInit PROVE CallsInv
    OBVIOUS
  <1>1. Shaped
    BY DEF CallsInit, Shaped, CallFields
  <1>2. free \in [Pools -> Nat]
    BY CallsAssumption DEF CallsInit
  <1>3. ASSUME NEW p \in Pools
        PROVE  free[p] + Cardinality(Holders(p)) = Cap[p]
    <2>1. Holders(p) = {}
      BY DEF CallsInit, Holders, Held
    <2>2. Cardinality(Holders(p)) = 0
      BY <2>1, FS_EmptySet
    <2> QED
      BY <2>2, CallsAssumption DEF CallsInit
  <1> QED
    BY <1>1, <1>2, <1>3 DEF CallsInv, NoSlotIsLost

\* Those who hold the slots of a pool are finitely many.
LEMMA HoldersFinite ==
  ASSUME NEW p
  PROVE  IsFiniteSet(Holders(p)) /\ Cardinality(Holders(p)) \in Nat
  <1>1. Holders(p) \subseteq Calls
    BY DEF Holders
  <1> QED
    BY <1>1, CallsAssumption, FS_Subset, FS_CardinalityType

\* Every call asks a model of one of the two pools.
LEMMA PoolIsPool ==
  ASSUME NEW mode
  PROVE  Pool(mode) \in Pools
  BY DEF Pool, Pools

\* One who had no slot and has one now is one more.
LEMMA TakesKeeps ==
  ASSUME CallsInv, NEW c \in Calls, Takes(c)
  PROVE  free' \in [Pools -> Nat] /\ NoSlotIsLost'
  <1> DEFINE q == Pool(call[c].mode)
  <1>1. q \in Pools
    BY PoolIsPool
  <1>2. free' \in [Pools -> Nat] /\ free'[q] = free[q] - 1 /\ \A p \in Pools \ {q} : free'[p] = free[p]
    BY <1>1 DEF CallsInv, Takes
  <1>3. ASSUME NEW p \in Pools
        PROVE  free'[p] + Cardinality(Holders(p)') = Cap[p]
    <2>1. CASE p = q
      <3>1. c \notin Holders(p) /\ Holders(p)' = Holders(p) \cup {c}
        BY <2>1 DEF Takes, HasSlot, Holders
      <3>2. Cardinality(Holders(p)') = Cardinality(Holders(p)) + 1
        BY <3>1, HoldersFinite, FS_AddElement
      <3> QED
        BY <2>1, <3>2, <1>2, HoldersFinite DEF CallsInv, NoSlotIsLost
    <2>2. CASE p # q
      <3>1. Holders(p)' = Holders(p)
        BY <2>2 DEF Takes, HasSlot, Holders
      <3> QED
        BY <2>2, <3>1, <1>2 DEF CallsInv, NoSlotIsLost
    <2> QED
      BY <2>1, <2>2
  <1> QED
    BY <1>2, <1>3, CallsAssumption DEF NoSlotIsLost

\* One who had a slot and has none now is one less.
LEMMA GivesKeeps ==
  ASSUME CallsInv, NEW c \in Calls, Gives(c)
  PROVE  free' \in [Pools -> Nat] /\ NoSlotIsLost'
  <1> DEFINE q == Pool(call[c].mode)
  <1>1. q \in Pools
    BY PoolIsPool
  <1>2. free' \in [Pools -> Nat] /\ free'[q] = free[q] + 1 /\ \A p \in Pools \ {q} : free'[p] = free[p]
    BY <1>1 DEF CallsInv, Gives
  <1>3. ASSUME NEW p \in Pools
        PROVE  free'[p] + Cardinality(Holders(p)') = Cap[p]
    <2>1. CASE p = q
      <3>1. c \in Holders(p) /\ Holders(p)' = Holders(p) \ {c}
        BY <2>1 DEF Gives, HasSlot, Holders
      <3>2. Cardinality(Holders(p)') = Cardinality(Holders(p)) - 1
        BY <3>1, HoldersFinite, FS_RemoveElement
      <3> QED
        BY <2>1, <3>2, <1>2, HoldersFinite DEF CallsInv, NoSlotIsLost
    <2>2. CASE p # q
      <3>1. Holders(p)' = Holders(p)
        BY <2>2 DEF Gives, HasSlot, Holders
      <3> QED
        BY <2>2, <3>1, <1>2 DEF CallsInv, NoSlotIsLost
    <2> QED
      BY <2>1, <2>2
  <1> QED
    BY <1>2, <1>3, CallsAssumption DEF NoSlotIsLost

\* The calls that have a slot are those that had one.
LEMMA StaysKeeps ==
  ASSUME CallsInv, NEW c \in Calls, Stays(c)
  PROVE  free' \in [Pools -> Nat] /\ NoSlotIsLost'
  <1>1. ASSUME NEW p \in Pools
        PROVE  Holders(p)' = Holders(p)
    BY DEF Stays, HasSlot, Holders
  <1> QED
    BY <1>1 DEF CallsInv, NoSlotIsLost, Stays

-----------------------------------------------------------------------------
\* A call with a slot that ends, however it ends.
LEMMA EndGives ==
  ASSUME Shaped, NEW c \in Calls, HasSlot(c), NEW over \in Over, End(c, over)
  PROVE  Shaped' /\ Gives(c)
  <1>1. over \notin Held
    BY DEF Over, Held
  <1>2. /\ call' = [call EXCEPT ![c] = [@ EXCEPT !.pc = over, !.key = Nil, !.tried = {}]]
        /\ free' = [free EXCEPT ![Pool(call[c].mode)] = @ + 1]
    BY DEF End, Closed, GiveBack
  <1>3. Shaped'
    BY <1>2 DEF Shaped, CallFields
  <1>4. call'[c].pc = over /\ call'[c].mode = call[c].mode /\ \A d \in Calls \ {c} : call'[d] = call[d]
    BY <1>2 DEF Shaped, CallFields
  <1> QED
    BY <1>1, <1>2, <1>3, <1>4 DEF Gives, HasSlot

\* A failed attempt is followed by a rest, with the slot kept, or by the end.
LEMMA AttemptFailsKeeps ==
  ASSUME Shaped, NEW c \in Calls, call[c].pc = "calling", NEW transient \in BOOLEAN, AttemptFails(c, transient)
  PROVE  Shaped' /\ (Gives(c) \/ Stays(c))
  <1>1. HasSlot(c) /\ "failed" \in Over /\ "resting" \in Held
    BY DEF HasSlot, Held, Over
  <1>2. CASE End(c, "failed")
    BY <1>1, <1>2, EndGives
  <1>3. CASE ~End(c, "failed")
    <2>1. /\ call' = [call EXCEPT ![c] = [@ EXCEPT !.pc = "resting", !.attempt = @ + 1, !.key = Nil, !.tried = {}]]
          /\ free' = free
      BY <1>3 DEF AttemptFails
    <2>2. Shaped'
      BY <2>1 DEF Shaped, CallFields
    <2>3. call'[c].pc = "resting" /\ call'[c].mode = call[c].mode /\ \A d \in Calls \ {c} : call'[d] = call[d]
      BY <2>1 DEF Shaped, CallFields
    <2> QED
      BY <1>1, <2>1, <2>2, <2>3 DEF Stays, HasSlot
  <1> QED
    BY <1>2, <1>3

\* Opening a call and getting a place in the line is not yet a slot; the first in the line gets one.
LEMMA BeginningKeeps ==
  ASSUME Shaped, NEW c \in Calls, Open(c) \/ Take(c) \/ Retry(c)
  PROVE  Shaped' /\ (Takes(c) \/ Stays(c))
  <1>1. CASE Open(c)
    <2>1. \E mode \in Modes : \/ call' = [call EXCEPT ![c] = [@ EXCEPT !.pc = "queued", !.mode = mode, !.key = Chosen(c, cool)]]
                             \/ call' = [call EXCEPT ![c] = [@ EXCEPT !.pc = "queued", !.mode = mode]]
      BY <1>1 DEF Open
    <2>2. call[c].pc = "new" /\ free' = free
      BY <1>1 DEF Open
    <2>3. Shaped'
      BY <2>1 DEF Shaped, CallFields
    <2>4. call'[c].pc = "queued" /\ \A d \in Calls \ {c} : call'[d] = call[d]
      BY <2>1 DEF Shaped, CallFields
    <2> QED
      BY <2>2, <2>3, <2>4 DEF Stays, HasSlot, Held
  <1>2. CASE Take(c)
    <2>1. \/ call' = [call EXCEPT ![c].pc = "calling"]
          \/ call' = [call EXCEPT ![c] = [@ EXCEPT !.pc = "calling", !.key = Chosen(c, cool), !.tried = {Chosen(c, cool)}]]
      BY <1>2 DEF Take, Begin
    <2>2. /\ call[c].pc = "queued" /\ free[Pool(call[c].mode)] > 0
          /\ free' = [free EXCEPT ![Pool(call[c].mode)] = @ - 1]
      BY <1>2 DEF Take
    <2>3. Shaped'
      BY <2>1 DEF Shaped, CallFields
    <2>4. call'[c].pc = "calling" /\ call'[c].mode = call[c].mode /\ \A d \in Calls \ {c} : call'[d] = call[d]
      BY <2>1 DEF Shaped, CallFields
    <2> QED
      BY <2>2, <2>3, <2>4 DEF Takes, HasSlot, Held
  <1>3. CASE Retry(c)
    <2>1. /\ call' = [call EXCEPT ![c] = [@ EXCEPT !.pc = "calling", !.key = Chosen(c, cool), !.tried = {Chosen(c, cool)}]]
          /\ call[c].pc = "resting" /\ free' = free
      BY <1>3 DEF Retry, Begin
    <2>2. Shaped'
      BY <2>1 DEF Shaped, CallFields
    <2>3. call'[c].pc = "calling" /\ call'[c].mode = call[c].mode /\ \A d \in Calls \ {c} : call'[d] = call[d]
      BY <2>1 DEF Shaped, CallFields
    <2> QED
      BY <2>1, <2>2, <2>3 DEF Stays, HasSlot, Held
  <1> QED
    BY <1>1, <1>2, <1>3

\* Another key is asked with the slot the call has.
LEMMA KeyFailsKeeps ==
  ASSUME Shaped, NEW c \in Calls, NEW switchable \in BOOLEAN, NEW transient \in BOOLEAN, KeyFails(c, switchable, transient)
  PROVE  Shaped' /\ (Gives(c) \/ Stays(c))
  <1>1. call[c].pc = "calling"
    BY DEF KeyFails
  <1>2. CASE AttemptFails(c, transient)
    BY <1>1, <1>2, AttemptFailsKeeps
  <1>3. CASE ~AttemptFails(c, transient)
    <2>1. \E k : call' = [call EXCEPT ![c] = [@ EXCEPT !.key = k, !.tried = @ \cup {k}]]
      BY <1>3, Zenon DEF KeyFails
    <2>2. free' = free
      BY <1>3 DEF KeyFails
    <2>3. Shaped'
      BY <2>1 DEF Shaped, CallFields
    <2>4. call'[c].pc = call[c].pc /\ call'[c].mode = call[c].mode /\ \A d \in Calls \ {c} : call'[d] = call[d]
      BY <2>1 DEF Shaped, CallFields
    <2> QED
      BY <2>2, <2>3, <2>4 DEF Stays, HasSlot
  <1> QED
    BY <1>2, <1>3

\* Handing on, booking, and being left alone keep the slot.
LEMMA StreamKeeps ==
  ASSUME Shaped, NEW c \in Calls, Emit(c) \/ Usage(c) \/ StopReading(c)
  PROVE  Shaped' /\ Stays(c)
  <1>1. CASE Emit(c)
    <2>1. /\ call' = [call EXCEPT ![c].pc = "streaming", ![c].out = @ \cup {Source(c)}]
          /\ call[c].pc = "calling" /\ free' = free
      BY <1>1 DEF Emit
    <2>2. Shaped'
      BY <2>1 DEF Shaped, CallFields
    <2>3. call'[c].pc = "streaming" /\ call'[c].mode = call[c].mode /\ \A d \in Calls \ {c} : call'[d] = call[d]
      BY <2>1 DEF Shaped, CallFields
    <2> QED
      BY <2>1, <2>2, <2>3 DEF Stays, HasSlot, Held
  <1>2. CASE Usage(c)
    BY <1>2 DEF Usage, Shaped, Stays, HasSlot
  <1>3. CASE StopReading(c)
    <2>1. call' = [call EXCEPT ![c].pc = "dropped"] /\ call[c].pc = "streaming" /\ free' = free
      BY <1>3 DEF StopReading
    <2>2. Shaped'
      BY <2>1 DEF Shaped, CallFields
    <2>3. call'[c].pc = "dropped" /\ call'[c].mode = call[c].mode /\ \A d \in Calls \ {c} : call'[d] = call[d]
      BY <2>1 DEF Shaped, CallFields
    <2> QED
      BY <2>1, <2>2, <2>3 DEF Stays, HasSlot, Held
  <1> QED
    BY <1>1, <1>2, <1>3

\* Success, a broken stream, a picture or its failure, and the collector give the slot back.
LEMMA EndsKeep ==
  ASSUME Shaped, NEW c \in Calls,
         \/ Finish(c) \/ Breaks(c) \/ Collect(c) \/ PictureComes(c)
         \/ \E limited \in BOOLEAN : PictureFails(c, limited)
  PROVE  Shaped' /\ Gives(c)
  <1>1. "done" \in Over /\ "failed" \in Over /\ {"calling", "streaming", "dropped"} \subseteq Held
    BY DEF Over, Held
  <1>2. CASE Finish(c)
    BY <1>1, <1>2, EndGives DEF Finish, HasSlot
  <1>3. CASE Breaks(c) \/ Collect(c) \/ \E limited \in BOOLEAN : PictureFails(c, limited)
    BY <1>1, <1>3, EndGives DEF Breaks, Collect, PictureFails, HasSlot
  <1>4. CASE PictureComes(c)
    <2>1. PICK out : call' = [call EXCEPT ![c] = [@ EXCEPT !.pc = "done", !.key = Nil, !.out = out]]
      BY <1>4 DEF PictureComes
    <2>2. call[c].pc = "calling" /\ free' = [free EXCEPT ![Pool(call[c].mode)] = @ + 1]
      BY <1>4 DEF PictureComes, GiveBack
    <2>3. Shaped'
      BY <2>1 DEF Shaped, CallFields
    <2>4. call'[c].pc = "done" /\ call'[c].mode = call[c].mode /\ \A d \in Calls \ {c} : call'[d] = call[d]
      BY <2>1 DEF Shaped, CallFields
    <2> QED
      BY <2>2, <2>3, <2>4 DEF Gives, HasSlot, Held
  <1> QED
    BY <1>2, <1>3, <1>4

\* What is ended from outside gives its slot back, has none yet, or is left to the collector.
LEMMA OutsideKeeps ==
  ASSUME Shaped, NEW c \in Calls, TotalTimeout(c) \/ Cancel(c)
  PROVE  Shaped' /\ (Gives(c) \/ Stays(c))
  <1>1. "failed" \in Over /\ {"calling", "resting", "streaming"} \subseteq Held
    BY DEF Over, Held
  <1>2. CASE call[c].pc \in {"calling", "resting", "streaming"} /\ End(c, "failed")
    BY <1>1, <1>2, EndGives DEF HasSlot
  <1>3. CASE call[c].pc = "streaming" /\ call' = [call EXCEPT ![c].pc = "dropped"] /\ UNCHANGED free
    <2>1. Shaped'
      BY <1>3 DEF Shaped, CallFields
    <2>2. call'[c].pc = "dropped" /\ call'[c].mode = call[c].mode /\ \A d \in Calls \ {c} : call'[d] = call[d]
      BY <1>3 DEF Shaped, CallFields
    <2> QED
      BY <1>3, <2>1, <2>2 DEF Stays, HasSlot, Held
  <1>4. CASE call[c].pc = "queued" /\ Closed(c, "failed") /\ UNCHANGED free
    <2>1. call' = [call EXCEPT ![c] = [@ EXCEPT !.pc = "failed", !.key = Nil, !.tried = {}]]
      BY <1>4 DEF Closed
    <2>2. Shaped'
      BY <2>1 DEF Shaped, CallFields
    <2>3. call'[c].pc = "failed" /\ \A d \in Calls \ {c} : call'[d] = call[d]
      BY <2>1 DEF Shaped, CallFields
    <2> QED
      BY <1>4, <2>2, <2>3 DEF Stays, HasSlot, Held
  <1> QED
    BY <1>2, <1>3, <1>4 DEF TotalTimeout, Cancel

-----------------------------------------------------------------------------
\* Every step keeps the invariant.
LEMMA StepInv == CallsInv /\ [CallsNext]_callVars => CallsInv'
  <1> SUFFICES ASSUME CallsInv, [CallsNext]_callVars PROVE CallsInv'
    OBVIOUS
  <1>1. ASSUME NEW c \in Calls, Shaped' /\ (Takes(c) \/ Gives(c) \/ Stays(c))
        PROVE  CallsInv'
    BY <1>1, TakesKeeps, GivesKeeps, StaysKeeps DEF CallsInv
  <1>2. Shaped
    BY DEF CallsInv
  <1>3. CASE UNCHANGED callVars
    BY <1>3 DEF callVars, CallsInv, Shaped, NoSlotIsLost, Holders
  <1>4. CASE CoolsOff
    BY <1>4 DEF CoolsOff, CallsInv, Shaped, NoSlotIsLost, Holders
  <1>5. ASSUME NEW c \in Calls, Open(c) \/ Take(c) \/ Retry(c)
        PROVE  CallsInv'
    BY <1>1, <1>2, <1>5, BeginningKeeps
  <1>6. ASSUME NEW c \in Calls, NEW switchable \in BOOLEAN, NEW transient \in BOOLEAN, KeyFails(c, switchable, transient)
        PROVE  CallsInv'
    BY <1>1, <1>2, <1>6, KeyFailsKeeps
  <1>7. ASSUME NEW c \in Calls, FirstTokenLate(c)
        PROVE  CallsInv'
    BY <1>1, <1>2, <1>7, AttemptFailsKeeps DEF FirstTokenLate
  <1>8. ASSUME NEW c \in Calls, Emit(c) \/ Usage(c) \/ StopReading(c)
        PROVE  CallsInv'
    BY <1>1, <1>2, <1>8, StreamKeeps
  <1>9. ASSUME NEW c \in Calls, \/ Finish(c) \/ Breaks(c) \/ Collect(c) \/ PictureComes(c)
                                \/ \E limited \in BOOLEAN : PictureFails(c, limited)
        PROVE  CallsInv'
    BY <1>1, <1>2, <1>9, EndsKeep
  <1>10. ASSUME NEW c \in Calls, TotalTimeout(c) \/ Cancel(c)
         PROVE  CallsInv'
    BY <1>1, <1>2, <1>10, OutsideKeeps
  <1> QED
    BY <1>3, <1>4, <1>5, <1>6, <1>7, <1>8, <1>9, <1>10 DEF CallsNext, Proceeds

\* The invariant holds of every state.
THEOREM Invariant == CallsSpec => []CallsInv
  BY InitInv, StepInv, PTL DEF CallsSpec

\* However calls end - success, error, timeout, cancellation, a reader who went away - no slot is lost or
\* given back twice (router.py stream_with_tools, the finally).
THEOREM SlotsComeBack == CallsSpec => []NoSlotIsLost
  <1>1. CallsInv => NoSlotIsLost
    BY DEF CallsInv
  <1> QED
    BY <1>1, Invariant, PTL

\* There are never more calls under way than the pool has slots (router.py _acquire_global_concurrency_slot).
THEOREM CapHolds == CallsSpec => [](\A p \in Pools : Cardinality(Holders(p)) <= Cap[p])
  <1>1. CallsInv => \A p \in Pools : Cardinality(Holders(p)) <= Cap[p]
    <2> SUFFICES ASSUME CallsInv, NEW p \in Pools PROVE Cardinality(Holders(p)) <= Cap[p]
      OBVIOUS
    <2>1. free[p] \in Nat /\ free[p] + Cardinality(Holders(p)) = Cap[p] /\ Cardinality(Holders(p)) \in Nat
      BY HoldersFinite DEF CallsInv, NoSlotIsLost
    <2> QED
      BY <2>1
  <1> QED
    BY <1>1, Invariant, PTL

-----------------------------------------------------------------------------
(* What is booked was handed on.  A call hands nothing on before it        *)
(* streams, and then it keeps to one attempt and one key to its end.       *)

Before == {"new", "queued", "calling", "resting"}

Read(c) ==
  /\ \E one : call[c].out \subseteq {one}
  /\ call[c].pc \in Before => call[c].out = {} /\ books[c] = {}
  /\ call[c].pc = "streaming" => call[c].mode # "image" /\ call[c].out = {Source(c)}
  /\ call[c].mode # "image" => books[c] \subseteq call[c].out

AllRead == DOMAIN books = Calls /\ \A c \in Calls : Read(c)

\* A step of c that hands nothing on, books nothing and does not go on streaming.
Quiet(c) ==
  /\ books' = books
  /\ \A d \in Calls \ {c} : call'[d] = call[d]
  /\ call'[c].out = call[c].out /\ call'[c].pc # "streaming"
  /\ call'[c].pc \in Before => call[c].pc \in Before
  /\ call'[c].mode = call[c].mode \/ call[c].pc \in Before

\* Such a step keeps what was handed on and what was booked.
LEMMA QuietRead ==
  ASSUME AllRead, NEW c \in Calls, Quiet(c)
  PROVE  AllRead'
  <1>1. ASSUME NEW d \in Calls \ {c}
        PROVE  Read(d)'
    BY <1>1 DEF AllRead, Read, Quiet, Source
  <1>2. Read(c) /\ (call[c].pc \in Before => books[c] \subseteq call[c].out)
    BY DEF AllRead, Read
  <1>3. Read(c)'
    BY <1>2 DEF Read, Quiet
  <1> QED
    BY <1>1, <1>3 DEF AllRead, Quiet

\* The end of a call is quiet, whatever ends it.
LEMMA EndQuiet ==
  ASSUME Shaped, NEW c \in Calls, NEW over \in Over, Closed(c, over), books' = books
  PROVE  Quiet(c)
  <1>1. over \notin Before /\ over # "streaming"
    BY DEF Over, Before
  <1>2. call' = [call EXCEPT ![c] = [@ EXCEPT !.pc = over, !.key = Nil, !.tried = {}]]
    BY DEF Closed
  <1>3. /\ call'[c].pc = over /\ call'[c].mode = call[c].mode /\ call'[c].out = call[c].out
        /\ \A d \in Calls \ {c} : call'[d] = call[d]
    BY <1>2 DEF Shaped, CallFields
  <1> QED
    BY <1>1, <1>3 DEF Quiet

\* A failed attempt is tried again only when nothing was handed on.
LEMMA AttemptFailsQuiet ==
  ASSUME Shaped, NEW c \in Calls, call[c].pc = "calling", NEW transient \in BOOLEAN,
         AttemptFails(c, transient), books' = books
  PROVE  Quiet(c)
  <1>1. CASE Closed(c, "failed")
    BY <1>1, EndQuiet DEF Over
  <1>2. CASE ~Closed(c, "failed")
    <2>1. call' = [call EXCEPT ![c] = [@ EXCEPT !.pc = "resting", !.attempt = @ + 1, !.key = Nil, !.tried = {}]]
      BY <1>2 DEF AttemptFails, End
    <2>2. /\ call'[c].pc = "resting" /\ call'[c].mode = call[c].mode /\ call'[c].out = call[c].out
          /\ \A d \in Calls \ {c} : call'[d] = call[d]
      BY <2>1 DEF Shaped, CallFields
    <2> QED
      BY <2>2 DEF Quiet, Before
  <1> QED
    BY <1>1, <1>2

\* Opening a call, taking its slot and beginning again are quiet.
LEMMA BeginningQuiet ==
  ASSUME Shaped, NEW c \in Calls, Open(c) \/ Take(c) \/ Retry(c)
  PROVE  Quiet(c)
  <1>1. CASE Open(c)
    <2>1. \E mode \in Modes : \/ call' = [call EXCEPT ![c] = [@ EXCEPT !.pc = "queued", !.mode = mode, !.key = Chosen(c, cool)]]
                             \/ call' = [call EXCEPT ![c] = [@ EXCEPT !.pc = "queued", !.mode = mode]]
      BY <1>1 DEF Open
    <2>2. call'[c].pc = "queued" /\ call'[c].out = call[c].out /\ \A d \in Calls \ {c} : call'[d] = call[d]
      BY <2>1 DEF Shaped, CallFields
    <2> QED
      BY <1>1, <2>2 DEF Open, Quiet, Before
  <1>2. CASE Take(c) \/ Retry(c)
    <2>1. \/ call' = [call EXCEPT ![c].pc = "calling"]
          \/ call' = [call EXCEPT ![c] = [@ EXCEPT !.pc = "calling", !.key = Chosen(c, cool), !.tried = {Chosen(c, cool)}]]
      BY <1>2 DEF Take, Retry, Begin
    <2>2. /\ call'[c].pc = "calling" /\ call'[c].mode = call[c].mode /\ call'[c].out = call[c].out
          /\ \A d \in Calls \ {c} : call'[d] = call[d]
      BY <2>1 DEF Shaped, CallFields
    <2>3. call[c].pc \in Before /\ books' = books
      BY <1>2 DEF Take, Retry, Before
    <2> QED
      BY <2>2, <2>3 DEF Quiet
  <1> QED
    BY <1>1, <1>2

\* Another key is asked before anything was handed on.
LEMMA KeyFailsQuiet ==
  ASSUME Shaped, NEW c \in Calls, NEW switchable \in BOOLEAN, NEW transient \in BOOLEAN, KeyFails(c, switchable, transient)
  PROVE  Quiet(c)
  <1>1. call[c].pc = "calling" /\ books' = books
    BY DEF KeyFails
  <1>2. CASE AttemptFails(c, transient)
    BY <1>1, <1>2, AttemptFailsQuiet
  <1>3. CASE ~AttemptFails(c, transient)
    <2>1. \E k : call' = [call EXCEPT ![c] = [@ EXCEPT !.key = k, !.tried = @ \cup {k}]]
      BY <1>3, Zenon DEF KeyFails
    <2>2. /\ call'[c].pc = call[c].pc /\ call'[c].mode = call[c].mode /\ call'[c].out = call[c].out
          /\ \A d \in Calls \ {c} : call'[d] = call[d]
      BY <2>1 DEF Shaped, CallFields
    <2> QED
      BY <1>1, <2>2 DEF Quiet
  <1> QED
    BY <1>2, <1>3

\* Whatever ends a call, or leaves it to the collector, is quiet.
LEMMA EndsQuiet ==
  ASSUME Shaped, NEW c \in Calls,
         \/ Finish(c) \/ Breaks(c) \/ Collect(c) \/ StopReading(c) \/ TotalTimeout(c) \/ Cancel(c)
         \/ \E limited \in BOOLEAN : PictureFails(c, limited)
  PROVE  Quiet(c)
  <1>1. books' = books
    BY DEF Finish, Breaks, Collect, StopReading, TotalTimeout, Cancel, PictureFails
  <1>2. CASE Closed(c, "done") \/ Closed(c, "failed")
    BY <1>1, <1>2, EndQuiet DEF Over
  <1>3. CASE call' = [call EXCEPT ![c].pc = "dropped"]
    <2>1. /\ call'[c].pc = "dropped" /\ call'[c].mode = call[c].mode /\ call'[c].out = call[c].out
          /\ \A d \in Calls \ {c} : call'[d] = call[d]
      BY <1>3 DEF Shaped, CallFields
    <2> QED
      BY <1>1, <2>1 DEF Quiet, Before
  <1> QED
    BY <1>2, <1>3 DEF Finish, Breaks, Collect, StopReading, TotalTimeout, Cancel, PictureFails, End

\* The first event makes the attempt and the key the ones that are read.
LEMMA EmitRead ==
  ASSUME Shaped, AllRead, NEW c \in Calls, Emit(c)
  PROVE  AllRead'
  <1>1. /\ call' = [call EXCEPT ![c].pc = "streaming", ![c].out = @ \cup {Source(c)}]
        /\ call[c].pc = "calling" /\ call[c].mode # "image" /\ books' = books
    BY DEF Emit
  <1>2. call[c].out = {} /\ books[c] = {}
    BY <1>1 DEF AllRead, Read, Before
  <1>3. /\ call'[c].pc = "streaming" /\ call'[c].mode = call[c].mode /\ call'[c].out = call[c].out \cup {Source(c)}
        /\ call'[c].attempt = call[c].attempt /\ call'[c].key = call[c].key
        /\ \A d \in Calls \ {c} : call'[d] = call[d]
    <2> DEFINE src == Source(c)
    <2>1. call' = [call EXCEPT ![c].pc = "streaming", ![c].out = @ \cup {src}]
      BY <1>1
    <2> HIDE DEF src
    <2>2. /\ call'[c].pc = "streaming" /\ call'[c].mode = call[c].mode /\ call'[c].out = call[c].out \cup {src}
          /\ call'[c].attempt = call[c].attempt /\ call'[c].key = call[c].key
          /\ \A d \in Calls \ {c} : call'[d] = call[d]
      BY <2>1 DEF Shaped, CallFields
    <2> QED
      BY <2>2 DEF src
  <1>4. Source(c)' = Source(c) /\ call'[c].out = {Source(c)}
    BY <1>2, <1>3 DEF Source
  <1>5. Read(c)'
    BY <1>1, <1>2, <1>3, <1>4 DEF Read, Before
  <1>6. ASSUME NEW d \in Calls \ {c}
        PROVE  Read(d)'
    BY <1>1, <1>3, <1>6 DEF AllRead, Read, Source
  <1> QED
    BY <1>1, <1>5, <1>6 DEF AllRead

\* What a stream has used is booked for what it has handed on.
LEMMA UsageRead ==
  ASSUME AllRead, NEW c \in Calls, Usage(c)
  PROVE  AllRead'
  <1>1. call' = call /\ call[c].pc = "streaming" /\ books' = [books EXCEPT ![c] = @ \cup {Source(c)}]
    BY DEF Usage
  <1>2. Read(c) /\ books'[c] = books[c] \cup {Source(c)}
    BY <1>1 DEF AllRead
  <1>3. Read(c)'
    BY <1>1, <1>2 DEF Read, Before, Source
  <1>4. ASSUME NEW d \in Calls \ {c}
        PROVE  Read(d)'
    BY <1>1, <1>4 DEF AllRead, Read, Source
  <1> QED
    BY <1>1, <1>3, <1>4 DEF AllRead

\* A picture is one output of one key.
LEMMA PictureRead ==
  ASSUME Shaped, AllRead, NEW c \in Calls, PictureComes(c)
  PROVE  AllRead'
  <1>1. PICK out \in {{}, {Source(c)}} : call' = [call EXCEPT ![c] = [@ EXCEPT !.pc = "done", !.key = Nil, !.out = out]]
    BY DEF PictureComes
  <1>2. call[c].mode = "image" /\ books' = [books EXCEPT ![c] = @ \cup {Source(c)}]
    BY DEF PictureComes
  <1>3. /\ call'[c].pc = "done" /\ call'[c].mode = call[c].mode /\ call'[c].out = out
        /\ \A d \in Calls \ {c} : call'[d] = call[d]
    BY <1>1 DEF Shaped, CallFields
  <1>4. Read(c)'
    BY <1>2, <1>3 DEF Read, Before
  <1>5. ASSUME NEW d \in Calls \ {c}
        PROVE  Read(d)'
    BY <1>2, <1>3, <1>5 DEF AllRead, Read, Source
  <1> QED
    BY <1>2, <1>4, <1>5 DEF AllRead

\* Nothing was handed on or booked at first.
LEMMA InitRead == CallsInit => AllRead
  <1> SUFFICES ASSUME CallsInit PROVE AllRead
    OBVIOUS
  <1>1. DOMAIN books = Calls
    BY DEF CallsInit
  <1>2. ASSUME NEW c \in Calls
        PROVE  Read(c)
    <2>1. call[c].out = {} /\ books[c] = {} /\ call[c].pc = "new"
      BY DEF CallsInit
    <2>2. call[c].out \subseteq {Nil}
      BY <2>1
    <2> QED
      BY <2>1, <2>2 DEF Read
  <1> QED
    BY <1>1, <1>2 DEF AllRead

\* Every step keeps what is booked within what was handed on.
LEMMA StepRead == CallsInv /\ AllRead /\ [CallsNext]_callVars => AllRead'
  <1> SUFFICES ASSUME Shaped, AllRead, [CallsNext]_callVars PROVE AllRead'
    BY DEF CallsInv
  <1>1. CASE UNCHANGED callVars \/ CoolsOff
    BY <1>1 DEF callVars, CoolsOff, AllRead, Read, Source
  <1>2. ASSUME NEW c \in Calls, Open(c) \/ Take(c) \/ Retry(c)
        PROVE  AllRead'
    BY <1>2, BeginningQuiet, QuietRead
  <1>3. ASSUME NEW c \in Calls, NEW switchable \in BOOLEAN, NEW transient \in BOOLEAN, KeyFails(c, switchable, transient)
        PROVE  AllRead'
    BY <1>3, KeyFailsQuiet, QuietRead
  <1>4. ASSUME NEW c \in Calls, FirstTokenLate(c)
        PROVE  AllRead'
    BY <1>4, AttemptFailsQuiet, QuietRead DEF FirstTokenLate
  <1>5. ASSUME NEW c \in Calls, \/ Finish(c) \/ Breaks(c) \/ Collect(c) \/ StopReading(c) \/ TotalTimeout(c) \/ Cancel(c)
                                \/ \E limited \in BOOLEAN : PictureFails(c, limited)
        PROVE  AllRead'
    BY <1>5, EndsQuiet, QuietRead
  <1>6. ASSUME NEW c \in Calls, Emit(c) \/ Usage(c) \/ PictureComes(c)
        PROVE  AllRead'
    BY <1>6, EmitRead, UsageRead, PictureRead
  <1> QED
    BY <1>1, <1>2, <1>3, <1>4, <1>5, <1>6 DEF CallsNext, Proceeds

\* Both invariants hold of every state.
LEMMA ReadAlways == CallsSpec => [](CallsInv /\ AllRead)
  <1>1. CallsInit => CallsInv /\ AllRead
    BY InitInv, InitRead
  <1>2. (CallsInv /\ AllRead) /\ [CallsNext]_callVars => (CallsInv /\ AllRead)'
    BY StepInv, StepRead
  <1> QED
    BY <1>1, <1>2, PTL DEF CallsSpec

\* Sets with one element at most are small.
LEMMA AtMostOne ==
  ASSUME NEW S, NEW one, S \subseteq {one}
  PROVE  Cardinality(S) <= 1
  <1>1. S = {} \/ S = {one}
    OBVIOUS
  <1>2. Cardinality({}) = 0 /\ Cardinality({one}) = 1
    BY FS_EmptySet, FS_Singleton
  <1>3. Cardinality(S) = 0 \/ Cardinality(S) = 1
    BY <1>1, <1>2
  <1> QED
    BY <1>3

\* A text call is booked once at most, and only for the attempt and key whose output was handed on, though
\* attempts are repeated and keys switched (router.py _accumulate_usage).
THEOREM BooksAreRead == CallsSpec => []BookedIsRead
  <1>1. AllRead => BookedIsRead
    BY AtMostOne DEF AllRead, Read, BookedIsRead
  <1> QED
    BY <1>1, ReadAlways, PTL

\* Nobody is handed the output of two attempts, or of two keys, spliced together (key_pool.py
\* KeySwitchingProvider, router.py _stream_one_provider).
THEOREM OneOutput == CallsSpec => []NoSplice
  <1>1. AllRead => NoSplice
    BY AtMostOne DEF AllRead, Read, NoSplice
  <1> QED
    BY <1>1, ReadAlways, PTL

-----------------------------------------------------------------------------
(* Which model a slot is bound to: ModelSlots, beside the calls and apart  *)
(* from them.  A binding that was checked may meet a model that is gone by *)
(* then; the second look before the row is written decides.                *)

CONSTANTS Providers, Models, Slots, Kind, Needs, Admins, First, FirstOf, Gone

VARIABLES provider, model, probe, slot, seeded, work, passed

Reg == INSTANCE ModelSlots

ModelRows == [of : Providers, kind : Reg!Kinds, enabled : BOOLEAN]

\* The bootstrap's model is one of the models, a row is neither missing nor deleted, and a
\* deleted one is not missing.
Registry ==
  /\ First \in Models /\ FirstOf \in Providers
  /\ None \notin ModelRows /\ Gone \notin ModelRows /\ Gone # None

Works == [step : {"idle", "deleting", "probing", "probed"}, slot : Slots \cup {None},
          model : Models \cup {None} \cup SUBSET Models, was : Models \cup Providers \cup {None},
          ask : SUBSET Reg!Caps]

\* A binding knows its slot and its model, a deletion its provider.
WorkTyped ==
  /\ work \in [Admins -> Works]
  /\ \A a \in Admins : work[a].step \in {"probing", "probed"} => work[a].slot \in Slots /\ work[a].model \in Models

RegTyped ==
  /\ provider \in [Providers -> {"absent", "here", "gone"}]
  /\ model \in [Models -> ModelRows \cup {None, Gone}]
  /\ DOMAIN probe = Models /\ \A m \in Models : DOMAIN probe[m] = Reg!Caps
  /\ slot \in [Slots -> Models \cup {None}]
  /\ DOMAIN passed = Models

ProviderStands == \A m \in Reg!Here : provider[model[m].of] = "here"

\* What is said to have passed has passed.
ProbesTrue == \A m \in Models : \A c \in Reg!Caps : probe[m][c] \in {"passed", "passed, old"} => c \in passed[m]

\* What was read of a model's probes holds as long as the model is there.
FitTrue ==
  \A a \in Admins : work[a].step \in {"probing", "probed"} =>
    /\ model[work[a].model] # None
    /\ work[a].ask = {} /\ work[a].model \in Reg!Here => Needs[work[a].slot] \subseteq passed[work[a].model]

RegInv ==
  /\ WorkTyped /\ RegTyped /\ ProviderStands /\ ProbesTrue /\ Reg!BoundExists /\ Reg!BoundWasProbed
  /\ FitTrue

LEMMA RegInit == Registry /\ Reg!Init => RegInv
BY DEF Registry, Reg!Init, RegInv, WorkTyped, Works, RegTyped, ProviderStands, ProbesTrue, Reg!BoundExists,
       Reg!BoundWasProbed, Reg!Here, Reg!Idle, Reg!NoProbes, FitTrue

LEMMA RegWorks ==
  ASSUME RegInv, [Reg!Next]_(Reg!vars)
  PROVE  WorkTyped'
<1> USE DEF RegInv, WorkTyped, Works
<1>1. CASE UNCHANGED work
  BY <1>1
<1>2. ASSUME NEW a \in Admins, NEW p \in Providers, Reg!ListModels(a, p) PROVE WorkTyped'
  <2> DEFINE listed == {m \in Reg!Here : model[m].of = p}
             w == [step |-> "deleting", slot |-> None, model |-> listed, was |-> p, ask |-> {}]
  <2>1. work' = [work EXCEPT ![a] = w]
    BY <1>2 DEF Reg!ListModels
  <2>2. w \in Works /\ w.step = "deleting"
    <3>1. listed \in SUBSET Models
      BY DEF Reg!Here
    <3> HIDE DEF listed
    <3> QED
      BY <3>1
  <2> HIDE DEF w
  <2> QED
    BY <2>1, <2>2
<1>3. ASSUME NEW a \in Admins, Reg!DeleteProvider(a) \/ Reg!Bind(a) PROVE WorkTyped'
  <2>1. work' = [work EXCEPT ![a] = Reg!Idle]
    BY <1>3 DEF Reg!DeleteProvider, Reg!Bind
  <2>2. Reg!Idle \in Works /\ Reg!Idle.step = "idle"
    BY DEF Reg!Idle
  <2> QED
    BY <2>1, <2>2
<1>4. ASSUME NEW a \in Admins, NEW sl \in Slots, NEW m \in Models, Reg!CheckModel(a, sl, m) PROVE WorkTyped'
  <2>1. slot[sl] \in Models \cup {None} /\ Reg!Missing(m, sl) \in SUBSET Reg!Caps
        /\ Reg!Verified(m, sl) \in BOOLEAN
    BY DEF RegTyped, Reg!Missing, Reg!Caps, Reg!Verified
  <2> QED
    BY <1>4, <2>1 DEF Reg!CheckModel
<1>5. ASSUME NEW a \in Admins, Reg!ProbeMissing(a) PROVE WorkTyped'
  <2>1. CASE work' = [work EXCEPT ![a] = Reg!Idle]
    BY <2>1 DEF Reg!Idle
  <2>2. CASE work' = [work EXCEPT ![a].step = "probed"]
    BY <2>2, <1>5 DEF Reg!ProbeMissing
  <2> QED
    BY <1>5, <2>1, <2>2 DEF Reg!ProbeMissing
<1> QED
  BY <1>1, <1>2, <1>3, <1>4, <1>5 DEF Reg!Next, Reg!vars, Reg!Seed, Reg!CreateProvider, Reg!CreateModel,
     Reg!UpdateModel, Reg!DeleteModel, Reg!Probe, Reg!Expire, Reg!Unbind

Registered == RegTyped /\ ProviderStands /\ ProbesTrue /\ Reg!BoundExists /\ Reg!BoundWasProbed

LEMMA RegUnchanged ==
  ASSUME Registered, UNCHANGED <<provider, model, probe, slot, seeded, passed>>
  PROVE  Registered'
BY DEF Registered, RegTyped, ProviderStands, ProbesTrue, Reg!BoundExists, Reg!BoundWasProbed, Reg!Here

\* The bootstrap finds no provider, so no model, so no binding.
LEMMA RegSeed ==
  ASSUME Registry, Registered, Reg!Seed
  PROVE  Registered'
<1> USE DEF Registered, RegTyped
<1>1. \A m \in Models : m \notin Reg!Here
  BY DEF Reg!Seed, Reg!Here, ProviderStands, ModelRows
<1>2. \A sl \in Slots : slot[sl] = None
  BY <1>1 DEF Reg!BoundExists
<1> DEFINE new == [of |-> FirstOf, kind |-> "text", enabled |-> TRUE]
<1>3. new \in ModelRows /\ new \notin {None, Gone}
  <2>1. new \in ModelRows
    BY DEF ModelRows, Registry, Reg!Kinds
  <2> HIDE DEF new
  <2> QED
    BY <2>1 DEF Registry
<1>4. PICK bound : bound \subseteq Slots /\ slot' = [sl \in Slots |-> IF sl \in bound THEN First ELSE slot[sl]]
                  /\ seeded' = seeded \cup bound
  <2>1. PICK key \in BOOLEAN :
           LET bound == {sl \in Slots : key /\ Kind[sl] = "text" /\ slot[sl] = None} IN
             /\ slot' = [sl \in Slots |-> IF sl \in bound THEN First ELSE slot[sl]]
             /\ seeded' = seeded \cup bound
    BY DEF Reg!Seed
  <2> QED
    BY <2>1
<1>5. /\ provider' = [provider EXCEPT ![FirstOf] = "here"] /\ model' = [model EXCEPT ![First] = new]
      /\ probe' = probe /\ passed' = passed
  BY DEF Reg!Seed
<1>6. RegTyped'
  BY <1>3, <1>4, <1>5 DEF Registry
<1>7. ProviderStands' /\ ProbesTrue'
  BY <1>1, <1>3, <1>5 DEF Registry, ProviderStands, ProbesTrue, Reg!Here
<1>8. Reg!BoundExists'
  BY <1>2, <1>3, <1>4, <1>5 DEF Registry, Reg!BoundExists, Reg!Here
<1>9. Reg!BoundWasProbed'
  BY <1>2, <1>4 DEF Reg!BoundWasProbed
<1> QED
  BY <1>6, <1>7, <1>8, <1>9

LEMMA RegProvider ==
  ASSUME Registered, NEW p \in Providers, Reg!CreateProvider(p)
  PROVE  Registered'
BY DEF Registered, RegTyped, Reg!CreateProvider, ProviderStands, ProbesTrue, Reg!BoundExists, Reg!BoundWasProbed,
       Reg!Here, ModelRows

LEMMA RegRows ==
  ASSUME Registry, Registered, NEW m \in Models,
         (\E p \in Providers : Reg!CreateModel(m, p)) \/ Reg!UpdateModel(m)
  PROVE  Registered'
<1> USE DEF Registered, RegTyped
<1>2. ASSUME NEW r \in ModelRows, model' = [model EXCEPT ![m] = r], provider[r.of] = "here",
             UNCHANGED <<provider, probe, slot, seeded, passed>>
      PROVE  Registered'
  <2>1. r \notin {None, Gone}
    BY DEF Registry
  <2>2. RegTyped' /\ ProbesTrue' /\ Reg!BoundWasProbed'
    BY <1>2 DEF ProbesTrue, Reg!BoundWasProbed
  <2>3. ProviderStands' /\ Reg!BoundExists'
    BY <1>2, <2>1 DEF ProviderStands, Reg!BoundExists, Reg!Here
  <2> QED
    BY <2>2, <2>3
<1>3. ASSUME NEW p \in Providers, Reg!CreateModel(m, p) PROVE Registered'
  <2>1. PICK kind \in Reg!Kinds : model' = [model EXCEPT ![m] = [of |-> p, kind |-> kind, enabled |-> TRUE]]
    BY <1>3 DEF Reg!CreateModel
  <2> QED
    BY <1>2, <1>3, <2>1 DEF Reg!CreateModel, ModelRows
<1>4. CASE Reg!UpdateModel(m)
  <2>1. PICK kind \in Reg!Kinds, enabled \in BOOLEAN :
          model' = [model EXCEPT ![m] = [model[m] EXCEPT !.kind = kind, !.enabled = enabled]]
    BY <1>4 DEF Reg!UpdateModel
  <2>2. m \in Reg!Here /\ model[m] \in ModelRows
    BY <1>4 DEF Reg!UpdateModel, Reg!Here
  <2> DEFINE r == [model[m] EXCEPT !.kind = kind, !.enabled = enabled]
  <2>3. r \in ModelRows /\ r.of = model[m].of
    BY <2>2 DEF ModelRows
  <2>4. provider[r.of] = "here" /\ UNCHANGED <<provider, probe, slot, seeded, passed>>
    BY <1>4, <2>2, <2>3 DEF ProviderStands, Reg!UpdateModel
  <2> HIDE DEF r
  <2> QED
    BY <1>2, <2>1, <2>3, <2>4 DEF r
<1> QED
  BY <1>3, <1>4

\* What is deleted leaves its slots.
LEMMA RegWithout ==
  ASSUME Registered, NEW ms \in SUBSET Models, Reg!Without(ms), provider' \in [Providers -> {"absent", "here", "gone"}],
         \A m \in Reg!Here \ ms : provider'[model[m].of] = "here"
  PROVE  Registered'
<1> USE DEF Registered, RegTyped
<1>1. RegTyped'
  BY DEF Reg!Without, Reg!NoProbes
<1>2. \A m \in Reg!Here' : m \in Reg!Here \ ms /\ model'[m] = model[m]
  BY DEF Reg!Without, Reg!Here
<1>3. ProviderStands'
  BY <1>2 DEF ProviderStands
<1>4. ProbesTrue'
  BY DEF ProbesTrue, Reg!Without, Reg!NoProbes
<1>5. \A sl \in Slots : slot'[sl] # None => slot'[sl] = slot[sl] /\ slot[sl] \notin ms
  BY DEF Reg!Without
<1>6. \A m \in Reg!Here \ ms : m \in Reg!Here' /\ model'[m] = model[m] /\ passed'[m] = passed[m]
  BY DEF Reg!Without, Reg!Here
<1>7. Reg!BoundExists'
  BY <1>5, <1>6 DEF Reg!BoundExists
<1>8. Reg!BoundWasProbed'
  <2>1. \A sl \in Slots \ seeded' : slot'[sl] # None => sl \notin seeded
    BY <1>5 DEF Reg!Without
  <2> QED
    BY <1>5, <1>6, <2>1 DEF Reg!BoundWasProbed, Reg!BoundExists
<1> QED
  BY <1>1, <1>3, <1>4, <1>7, <1>8

LEMMA RegDeletesModel ==
  ASSUME Registered, NEW m \in Models, Reg!DeleteModel(m)
  PROVE  Registered'
<1>1. Reg!Without({m}) /\ provider' = provider
  BY DEF Reg!DeleteModel
<1> QED
  BY <1>1, RegWithout DEF Registered, RegTyped, ProviderStands

LEMMA RegDeletesProvider ==
  ASSUME Registered, NEW a \in Admins, Reg!DeleteProvider(a)
  PROVE  Registered'
<1> DEFINE p == work[a].was
           mine == {n \in Reg!Here : model[n].of = p}
<1>1. CASE UNCHANGED <<provider, model, probe, slot, seeded, passed>>
  BY <1>1, RegUnchanged
<1>2. CASE provider' = [provider EXCEPT ![p] = "gone"] /\ Reg!Without(mine)
  <2>1. mine \in SUBSET Models
    BY DEF Reg!Here
  <2>2. \A n \in Reg!Here \ mine : provider'[model[n].of] = "here"
    BY <1>2 DEF Registered, RegTyped, ProviderStands, Reg!Here, ModelRows
  <2>3. provider' \in [Providers -> {"absent", "here", "gone"}]
    BY <1>2 DEF Registered, RegTyped
  <2> QED
    BY <1>2, <2>1, <2>2, <2>3, RegWithout
<1> QED
  BY <1>1, <1>2 DEF Reg!DeleteProvider

\* Probes only ever add to what has passed.
LEMMA RegProbed ==
  ASSUME Registered, NEW m \in Models, NEW caps \in SUBSET Reg!Caps, NEW results \in Reg!Answers(caps),
         Reg!Probed(m, results), UNCHANGED <<provider, model, slot, seeded>>
  PROVE  Registered'
<1> USE DEF Registered, RegTyped
<1>1. DOMAIN results = caps
  BY DEF Reg!Answers
<1>2. /\ probe' = [probe EXCEPT ![m] = [c \in Reg!Caps |-> IF c \in DOMAIN results THEN results[c] ELSE probe[m][c]]]
      /\ passed' = [passed EXCEPT ![m] = passed[m] \cup {c \in DOMAIN results : results[c] = "passed"}]
  BY DEF Reg!Probed
<1>3. results \in [caps -> {"passed", "failed"}]
  BY DEF Reg!Answers
<1>4. RegTyped' /\ \A n \in Models : passed[n] \subseteq passed'[n]
  BY <1>2
<1>5. ProbesTrue'
  BY <1>1, <1>2, <1>3 DEF ProbesTrue
<1>6. ProviderStands' /\ Reg!BoundExists' /\ Reg!BoundWasProbed'
  BY <1>4 DEF ProviderStands, Reg!BoundExists, Reg!BoundWasProbed, Reg!Here
<1> QED
  BY <1>4, <1>5, <1>6

LEMMA RegExpires ==
  ASSUME Registered, NEW m \in Models, NEW c \in Reg!Caps, Reg!Expire(m, c)
  PROVE  Registered'
<1> USE DEF Registered, RegTyped
<1>1. probe' = [probe EXCEPT ![m] = [probe[m] EXCEPT ![c] = IF probe[m][c] = "passed" THEN "passed, old" ELSE "failed, old"]]
  BY DEF Reg!Expire
<1>2. UNCHANGED <<provider, model, slot, seeded, passed>> /\ probe[m][c] \in {"passed", "failed"}
  BY DEF Reg!Expire
<1>3. RegTyped' /\ ProbesTrue'
  BY <1>1, <1>2 DEF ProbesTrue
<1> QED
  BY <1>2, <1>3 DEF ProviderStands, Reg!BoundExists, Reg!BoundWasProbed, Reg!Here

\* The binding is written for a model that is there and says that it has passed.
LEMMA RegBinds ==
  ASSUME Registered, WorkTyped, FitTrue, NEW a \in Admins, Reg!Bind(a)
  PROVE  Registered'
<1> USE DEF Registered, RegTyped
<1> DEFINE w == work[a]
<1>1. w.slot \in Slots /\ w.model \in Models /\ UNCHANGED <<provider, model, probe, passed>>
  BY DEF Reg!Bind, WorkTyped
<1>2. CASE UNCHANGED <<slot, seeded>>
  BY <1>1, <1>2, RegUnchanged
<1>3. CASE w.model \in Reg!Here /\ (w.ask = {} \/ Reg!Verified(w.model, w.slot))
           /\ slot' = [slot EXCEPT ![w.slot] = w.model] /\ seeded' = seeded \ {w.slot}
  <2>1. Needs[w.slot] \subseteq passed[w.model]
    <3>1. Needs[w.slot] \subseteq Reg!Caps
      BY <1>1 DEF Reg!Caps
    <3>2. CASE w.ask = {}
      BY <1>3, <3>2 DEF Reg!Bind, FitTrue
    <3> QED
      BY <1>1, <1>3, <3>1, <3>2 DEF Reg!Verified, ProbesTrue
  <2>2. provider[model[w.model].of] = "here"
    BY <1>3 DEF ProviderStands
  <2>3. RegTyped' /\ ProviderStands' /\ ProbesTrue'
    BY <1>1, <1>3 DEF ProviderStands, ProbesTrue, Reg!Here
  <2>4. Reg!BoundExists'
    BY <1>1, <1>3, <2>2 DEF Reg!BoundExists, Reg!Here
  <2>5. Reg!BoundWasProbed'
    BY <1>1, <1>3, <2>1 DEF Reg!BoundWasProbed
  <2> QED
    BY <2>3, <2>4, <2>5
<1> QED
  BY <1>2, <1>3 DEF Reg!Bind

LEMMA RegUnbinds ==
  ASSUME Registered, NEW sl \in Slots, Reg!Unbind(sl)
  PROVE  Registered'
BY DEF Registered, RegTyped, Reg!Unbind, ProviderStands, ProbesTrue, Reg!BoundExists, Reg!BoundWasProbed, Reg!Here

\* What was read stays true: probes are only added to, and a model that is deleted does not
\* come back.
LEMMA RegFits ==
  ASSUME Registry, RegInv, [Reg!Next]_(Reg!vars)
  PROVE  FitTrue'
<1> USE DEF RegInv, WorkTyped, RegTyped
<1>1. ASSUME work' = work, \A m \in Models : model[m] # None => model'[m] # None,
             \A m \in Models : model[m] # None /\ m \in Reg!Here' => m \in Reg!Here /\ passed[m] \subseteq passed'[m]
      PROVE  FitTrue'
  BY <1>1 DEF FitTrue
<1>2. CASE UNCHANGED <<model, passed, work>>
  BY <1>2, <1>1 DEF Reg!Here
<1>3. CASE Reg!Seed
  BY <1>3, <1>1 DEF Reg!Seed, Reg!Here
<1>4. ASSUME NEW m \in Models, NEW p \in Providers, Reg!CreateModel(m, p) PROVE FitTrue'
  BY <1>4, <1>1 DEF Reg!CreateModel, Reg!Here
<1>5. ASSUME NEW m \in Models, Reg!UpdateModel(m) PROVE FitTrue'
  <2>1. PICK kind \in Reg!Kinds, enabled \in BOOLEAN :
          model' = [model EXCEPT ![m] = [model[m] EXCEPT !.kind = kind, !.enabled = enabled]]
    BY <1>5 DEF Reg!UpdateModel
  <2>2. m \in Reg!Here /\ model[m] \in ModelRows
    BY <1>5 DEF Reg!UpdateModel, Reg!Here
  <2>3. model'[m] \in ModelRows /\ model'[m] # None
    BY <2>1, <2>2 DEF ModelRows, Registry
  <2>4. work' = work /\ passed' = passed /\ \A n \in Models \ {m} : model'[n] = model[n]
    BY <1>5, <2>1 DEF Reg!UpdateModel
  <2> QED
    BY <1>1, <2>2, <2>3, <2>4 DEF Reg!Here
<1>6. ASSUME NEW ms \in SUBSET Reg!Here, Reg!Without(ms),
             \A a \in Admins : work'[a] = work[a] \/ work'[a].step = "idle"
      PROVE  FitTrue'
  <2>1. \A m \in Models \ ms : model'[m] = model[m] /\ passed'[m] = passed[m]
    BY <1>6 DEF Reg!Without
  <2>2. \A m \in ms : m \notin Reg!Here' /\ model'[m] # None
    BY <1>6 DEF Reg!Without, Reg!Here, Registry
  <2> QED
    BY <1>6, <2>1, <2>2 DEF FitTrue, Reg!Here
<1>7. ASSUME NEW m \in Models, Reg!DeleteModel(m) PROVE FitTrue'
  BY <1>7, <1>6 DEF Reg!DeleteModel
<1>8. ASSUME NEW a \in Admins, Reg!DeleteProvider(a) PROVE FitTrue'
  <2>1. \A b \in Admins : work'[b] = work[b] \/ work'[b].step = "idle"
    BY <1>8 DEF Reg!DeleteProvider, Reg!Idle
  <2>2. CASE UNCHANGED <<provider, model, probe, slot, seeded, passed>>
    BY <2>1, <2>2 DEF FitTrue, Reg!Here
  <2>3. CASE Reg!Without({m \in Reg!Here : model[m].of = work[a].was})
    BY <1>6, <2>1, <2>3
  <2> QED
    BY <1>8, <2>2, <2>3 DEF Reg!DeleteProvider
<1>9. ASSUME NEW m \in Models, NEW caps, NEW results \in Reg!Answers(caps), Reg!Probed(m, results), model' = model,
             \A a \in Admins :
               /\ work[a].step = "idle" => work'[a].step = "idle"
               /\ work[a].step = "deleting" => work'[a].step = "deleting"
               /\ work'[a].model = work[a].model /\ work'[a].slot = work[a].slot /\ work'[a].ask = work[a].ask
      PROVE  FitTrue'
  <2>1. \A n \in Models : passed[n] \subseteq passed'[n]
    <3>1. passed' = [passed EXCEPT ![m] = passed[m] \cup {c \in DOMAIN results : results[c] = "passed"}]
      BY <1>9 DEF Reg!Probed
    <3> QED
      BY <3>1
  <2> SUFFICES ASSUME NEW a \in Admins, work'[a].step \in {"probing", "probed"}
               PROVE  /\ model'[work'[a].model] # None
                      /\ work'[a].ask = {} /\ work'[a].model \in Reg!Here' => Needs[work'[a].slot] \subseteq passed'[work'[a].model]
    BY DEF FitTrue
  <2>2. work[a].step \in {"probing", "probed"} /\ work'[a].model = work[a].model /\ work'[a].slot = work[a].slot
        /\ work'[a].ask = work[a].ask
    <3>1. work[a].step \in {"idle", "deleting", "probing", "probed"}
      BY DEF Works
    <3>2. work[a].step = "idle" => work'[a].step = "idle"
      BY <1>9
    <3>3. work[a].step = "deleting" => work'[a].step = "deleting"
      BY <1>9
    <3>4. work'[a].model = work[a].model /\ work'[a].slot = work[a].slot /\ work'[a].ask = work[a].ask
      BY <1>9
    <3> QED
      BY <3>1, <3>2, <3>3, <3>4
  <2>3. work[a].model \in Models /\ model[work[a].model] # None
        /\ (work[a].ask = {} /\ work[a].model \in Reg!Here => Needs[work[a].slot] \subseteq passed[work[a].model])
    BY <2>2 DEF FitTrue
  <2>4. Reg!Here' = Reg!Here
    BY <1>9 DEF Reg!Here
  <2> QED
    BY <1>9, <2>1, <2>2, <2>3, <2>4
<1>10. ASSUME NEW m \in Models, NEW caps \in SUBSET Reg!Caps, Reg!Probe(m, caps) PROVE FitTrue'
  <2>1. PICK results \in Reg!Answers(caps) : Reg!Probed(m, results)
    BY <1>10 DEF Reg!Probe
  <2>2. work' = work /\ model' = model
    BY <1>10 DEF Reg!Probe
  <2> QED
    BY <1>9, <2>1, <2>2
<1>11. ASSUME NEW a \in Admins, Reg!ProbeMissing(a) PROVE FitTrue'
  <2>1. model' = model /\ work[a].model \in Models
    BY <1>11 DEF Reg!ProbeMissing
  <2>2. CASE work' = [work EXCEPT ![a] = Reg!Idle] /\ passed' = passed
    BY <2>1, <2>2 DEF FitTrue, Reg!Here, Reg!Idle
  <2>3. CASE work' = [work EXCEPT ![a].step = "probed"] /\ \E results \in Reg!Answers(work[a].ask) : Reg!Probed(work[a].model, results)
    <3>1. PICK results \in Reg!Answers(work[a].ask) : Reg!Probed(work[a].model, results)
      BY <2>3
    <3>2. \A b \in Admins : /\ work[b].step = "idle" => work'[b].step = "idle"
                            /\ work[b].step = "deleting" => work'[b].step = "deleting"
                            /\ work'[b].model = work[b].model /\ work'[b].slot = work[b].slot /\ work'[b].ask = work[b].ask
      BY <1>11, <2>3 DEF Works, Reg!ProbeMissing
    <3> QED
      BY <1>9, <2>1, <3>1, <3>2
  <2> QED
    BY <1>11, <2>2, <2>3 DEF Reg!ProbeMissing
<1>12. ASSUME NEW a \in Admins, NEW sl \in Slots, NEW m \in Models, Reg!CheckModel(a, sl, m) PROVE FitTrue'
  <2>1. m \in Reg!Here /\ model' = model /\ passed' = passed
    BY <1>12 DEF Reg!CheckModel
  <2>2. Reg!Verified(m, sl) => Needs[sl] \subseteq passed[m]
    BY DEF Reg!Verified, ProbesTrue, Reg!Caps
  <2>3. \A b \in Admins : work'[b] = work[b] \/ /\ work'[b].slot = sl /\ work'[b].model = m
                                                /\ work'[b].ask = {} => Reg!Verified(m, sl)
    BY <1>12 DEF Reg!CheckModel
  <2> QED
    BY <2>1, <2>2, <2>3 DEF FitTrue, Reg!Here
<1>13. ASSUME NEW a \in Admins, NEW p \in Providers, Reg!ListModels(a, p) PROVE FitTrue'
  <2>1. model' = model /\ passed' = passed /\ \A b \in Admins : work'[b] = work[b] \/ work'[b].step = "deleting"
    BY <1>13 DEF Reg!ListModels, Reg!Idle
  <2> QED
    BY <2>1 DEF FitTrue, Reg!Here
<1>14. ASSUME NEW a \in Admins, Reg!Bind(a) PROVE FitTrue'
  <2>1. model' = model /\ passed' = passed /\ \A b \in Admins : work'[b] = work[b] \/ work'[b].step = "idle"
    BY <1>14 DEF Reg!Bind, Reg!Idle
  <2> QED
    BY <2>1 DEF FitTrue, Reg!Here
<1> QED
  BY <1>2, <1>3, <1>4, <1>5, <1>7, <1>8, <1>10, <1>11, <1>12, <1>13, <1>14 DEF Reg!Next, Reg!vars, Reg!CreateProvider,
     Reg!Expire, Reg!Unbind

LEMMA RegStep ==
  ASSUME Registry, RegInv, [Reg!Next]_(Reg!vars)
  PROVE  RegInv'
<1>1. Registered /\ WorkTyped /\ FitTrue
  BY DEF RegInv, Registered
<1>2. ASSUME UNCHANGED Reg!vars PROVE Registered'
  BY <1>1, <1>2, RegUnchanged DEF Reg!vars
<1>3. ASSUME NEW a \in Admins, NEW p \in Providers, Reg!ListModels(a, p) PROVE Registered'
  BY <1>1, <1>3, RegUnchanged DEF Reg!ListModels
<1>4. ASSUME NEW a \in Admins, NEW sl \in Slots, NEW m \in Models, Reg!CheckModel(a, sl, m) PROVE Registered'
  BY <1>1, <1>4, RegUnchanged DEF Reg!CheckModel
<1>5. ASSUME NEW m \in Models, NEW caps \in SUBSET Reg!Caps, Reg!Probe(m, caps) PROVE Registered'
  BY <1>1, <1>5, RegProbed DEF Reg!Probe
<1>6. ASSUME NEW a \in Admins, Reg!ProbeMissing(a) PROVE Registered'
  <2>1. UNCHANGED <<provider, model, slot, seeded>> /\ work[a].model \in Models /\ work[a].ask \in SUBSET Reg!Caps
    BY <1>1, <1>6 DEF Reg!ProbeMissing, WorkTyped, Works
  <2>2. UNCHANGED <<probe, passed>> \/ \E results \in Reg!Answers(work[a].ask) : Reg!Probed(work[a].model, results)
    BY <1>6 DEF Reg!ProbeMissing
  <2> QED
    BY <1>1, <2>1, <2>2, RegUnchanged, RegProbed
<1>7. ASSUME NEW a \in Admins, Reg!DeleteProvider(a) \/ Reg!Bind(a) PROVE Registered'
  BY <1>1, <1>7, RegDeletesProvider, RegBinds
<1>8. ASSUME NEW m \in Models, \/ \E p \in Providers : Reg!CreateModel(m, p)
                              \/ Reg!UpdateModel(m) \/ Reg!DeleteModel(m)
                              \/ \E c \in Reg!Caps : Reg!Expire(m, c)
      PROVE  Registered'
  BY <1>1, <1>8, RegRows, RegDeletesModel, RegExpires
<1>9. ASSUME Reg!Seed \/ (\E p \in Providers : Reg!CreateProvider(p)) \/ \E sl \in Slots : Reg!Unbind(sl)
      PROVE  Registered'
  BY <1>1, <1>9, RegSeed, RegProvider, RegUnbinds
<1>10. Registered'
  BY <1>2, <1>3, <1>4, <1>5, <1>6, <1>7, <1>8, <1>9 DEF Reg!Next
<1> QED
  BY <1>10, RegWorks, RegFits DEF RegInv, Registered

LEMMA RegAlways == ASSUME Registry PROVE Reg!Spec => []RegInv
  BY RegInit, RegStep, PTL DEF Reg!Spec

\* model_management.py delete_model_provider, delete_model, bind_model_slot: whatever is
\* deleted, changed or probed by others while an administrator waits for his probes, no slot
\* ever names a model that is gone or whose provider is, and the model an administrator has
\* bound to it has passed every probe the slot needs.
THEOREM BindingsAreSound == ASSUME Registry PROVE Reg!Spec => []Reg!BindingIsSound
<1>1. RegInv => Reg!BindingIsSound
  BY DEF RegInv, Reg!BindingIsSound
<1> QED
  BY <1>1, RegAlways, PTL
=============================================================================
