-------------------------- MODULE CreditHoldsProofs --------------------------
(***************************************************************************)
(* Proofs about CreditHolds, for every set of actions and sweep loops,     *)
(* every estimate, cost and grant.  What held_units is compared with is a  *)
(* sum over the holds; what a step makes of it is shown first, for sums    *)
(* over any finite set.                                                    *)
(***************************************************************************)
EXTENDS CreditHolds, FiniteSetTheorems, WellFoundedInduction, TLAPS

(* Sums over finite sets. *)

\* Induction over the numbers, for a set of them.
LEMMA NumberInduction ==
  ASSUME NEW N, 0 \in N, \A n \in Nat : n \in N => n + 1 \in N
  PROVE  \A n \in Nat : n \in N
<1> DEFINE B == Nat \ N
<1>1. ASSUME B # {} PROVE FALSE
  <2>1. PICK n \in B : \A m \in B : <<m, n>> \notin OpToRel(<, Nat)
    BY <1>1, NatLessThanWellFounded, WFMin, B \subseteq Nat
  <2>2. \A m \in B : ~(m < n)
    BY <2>1 DEF OpToRel
  <2>3. n \in Nat /\ n # 0
    BY <2>1
  <2>4. n - 1 \in Nat /\ n - 1 < n /\ (n - 1) + 1 = n
    BY <2>3
  <2> QED
    BY <2>1, <2>2, <2>3, <2>4
<1> QED
  BY <1>1

\* Induction over the subsets of a finite set: a family that holds the empty set and every set whose
\* removals of one element it holds, holds them all (the least cardinality of a counterexample is absurd).
LEMMA SubsetInduction ==
  ASSUME NEW S, IsFiniteSet(S), NEW G,
         \A T \in SUBSET S : (\A x \in T : T \ {x} \in G) => T \in G
  PROVE  \A T \in SUBSET S : T \in G
<1> DEFINE B == {T \in SUBSET S : T \notin G}
           C == {n \in Nat : \E T \in B : Cardinality(T) = n}
<1>1. ASSUME B # {} PROVE FALSE
  <2>1. \A T \in SUBSET S : IsFiniteSet(T) /\ Cardinality(T) \in Nat
    BY FS_Subset, FS_CardinalityType
  <2>2. C # {} /\ C \subseteq Nat
    BY <1>1, <2>1
  <2>3. PICK n \in C : \A m \in C : <<m, n>> \notin OpToRel(<, Nat)
    <3> HIDE DEF C
    <3> QED
      BY <2>2, NatLessThanWellFounded, WFMin
  <2>4. \A m \in C : ~(m < n)
    BY <2>2, <2>3 DEF OpToRel
  <2>5. PICK T \in B : Cardinality(T) = n
    BY <2>3
  <2>6. ASSUME NEW x \in T PROVE T \ {x} \in G
    <3>1. Cardinality(T \ {x}) = n - 1 /\ T \ {x} \in SUBSET S
      BY <2>1, <2>5, FS_RemoveElement
    <3>2. n \in Nat /\ Cardinality(T \ {x}) \in Nat
      BY <2>1, <3>1
    <3> QED
      BY <2>4, <3>1, <3>2
  <2> QED
    BY <2>5, <2>6
<1> QED
  BY <1>1

\* One step of the recursion a sum is defined by: it takes out an arbitrary element.
Pick(T) == CHOOSE x \in T : TRUE
IsSum(g, f, S) ==
    g = [T \in SUBSET S |-> IF T = {} THEN 0 ELSE f[Pick(T)] + g[T \ {Pick(T)}]]

\* The sum is the value at S of a function that satisfies that recursion, if there is one.
LEMMA SumIsChosen ==
  ASSUME NEW f, NEW S
  PROVE  SumFunctionOnSet(f, S) = (CHOOSE g : IsSum(g, f, S))[S]
BY DEF SumFunctionOnSet, FoldFunctionOnSet, MapThenFoldSet, IsSum, Pick

\* It exists: on the subsets of at most n elements for every n, hence on all of them.
LEMMA SumExists ==
  ASSUME NEW S, IsFiniteSet(S), NEW f, \A x \in S : f[x] \in Int
  PROVE  \E g \in [SUBSET S -> Int] : IsSum(g, f, S)
<1> DEFINE Level(n) == {T \in SUBSET S : Cardinality(T) =< n}
           Step(g, T) == IF T = {} THEN 0 ELSE f[Pick(T)] + g[T \ {Pick(T)}]
           N == {n \in Nat : \E g \in [Level(n) -> Int] : \A T \in Level(n) : g[T] = Step(g, T)}
<1>1. \A T \in SUBSET S : IsFiniteSet(T) /\ Cardinality(T) \in Nat
  BY FS_Subset, FS_CardinalityType
<1>2. ASSUME NEW T \in SUBSET S, T # {}
      PROVE  /\ Pick(T) \in T /\ T \ {Pick(T)} \in SUBSET S /\ f[Pick(T)] \in Int
             /\ Cardinality(T \ {Pick(T)}) = Cardinality(T) - 1
  <2>1. Pick(T) \in T
    BY <1>2 DEF Pick
  <2> QED
    BY <1>1, <2>1, FS_RemoveElement
<1>3. 0 \in N
  <2> DEFINE g == [T \in Level(0) |-> 0]
  <2>1. \A T \in Level(0) : T = {}
    BY <1>1, FS_EmptySet
  <2>2. g \in [Level(0) -> Int] /\ \A T \in Level(0) : g[T] = Step(g, T)
    BY <2>1
  <2> QED
    BY <2>2
<1>4. ASSUME NEW n \in Nat, n \in N PROVE n + 1 \in N
  <2>1. PICK g \in [Level(n) -> Int] : \A T \in Level(n) : g[T] = Step(g, T)
    BY <1>4
  <2> DEFINE h == [T \in Level(n + 1) |-> IF T \in Level(n) THEN g[T] ELSE Step(g, T)]
  <2>2. ASSUME NEW T \in Level(n + 1), T # {} PROVE T \ {Pick(T)} \in Level(n)
    BY <1>1, <1>2, <2>2
  <2>3. Level(n) \subseteq Level(n + 1)
    BY <1>1
  <2>4. ASSUME NEW T \in Level(n + 1) PROVE h[T] \in Int /\ h[T] = Step(h, T)
    <3>1. CASE T = {}
      <4>1. T \in Level(n)
        BY <1>1, <3>1, FS_EmptySet
      <4> QED
        BY <2>1, <3>1, <4>1
    <3>2. CASE T # {}
      <4>1. T \ {Pick(T)} \in Level(n) /\ h[T \ {Pick(T)}] = g[T \ {Pick(T)}]
        BY <2>2, <2>3, <3>2
      <4>2. f[Pick(T)] \in Int /\ g[T \ {Pick(T)}] \in Int
        BY <1>2, <2>1, <3>2, <4>1
      <4>3. h[T] = f[Pick(T)] + g[T \ {Pick(T)}]
        BY <2>1, <3>2
      <4> QED
        BY <3>2, <4>1, <4>2, <4>3
    <3> QED
      BY <3>1, <3>2
  <2>5. h \in [Level(n + 1) -> Int]
    BY <2>4
  <2> HIDE DEF h, Step, Level
  <2> QED
    BY <2>4, <2>5
<1>5. Cardinality(S) \in N
  <2>1. \A n \in Nat : n \in N
    <3> HIDE DEF N
    <3> QED
      BY <1>3, <1>4, NumberInduction
  <2> QED
    BY <1>1, <2>1
<1>6. Level(Cardinality(S)) = SUBSET S
  BY <1>1, FS_Subset
<1>7. PICK g \in [SUBSET S -> Int] : \A T \in SUBSET S : g[T] = Step(g, T)
  BY <1>5, <1>6
<1>8. g = [T \in SUBSET S |-> Step(g, T)]
  BY <1>7
<1> QED
  BY <1>8 DEF IsSum

\* It is unique, and taking another set around the summed one changes nothing.
LEMMA SumUnique ==
  ASSUME NEW f, NEW S, NEW T, NEW g, NEW h, IsSum(g, f, S), IsSum(h, f, T), IsFiniteSet(S), S \subseteq T
  PROVE  \A U \in SUBSET S : g[U] = h[U]
<1> DEFINE G == {U \in SUBSET S : g[U] = h[U]}
<1>1. ASSUME NEW U \in SUBSET S, \A x \in U : U \ {x} \in G PROVE U \in G
  <2>1. U # {} => Pick(U) \in U
    BY DEF Pick
  <2>2. U \in SUBSET T
    OBVIOUS
  <2>3. g[U] = (IF U = {} THEN 0 ELSE f[Pick(U)] + g[U \ {Pick(U)}])
    BY DEF IsSum
  <2>4. h[U] = (IF U = {} THEN 0 ELSE f[Pick(U)] + h[U \ {Pick(U)}])
    BY <2>2 DEF IsSum
  <2> QED
    BY <1>1, <2>1, <2>3, <2>4
<1>2. \A U \in SUBSET S : U \in G
  <2> HIDE DEF G
  <2> QED
    BY <1>1, SubsetInduction
<1> QED
  BY <1>2

\* So a sum unfolds: it is nothing over no element, else the value of one element and the sum over the others.
LEMMA SumUnfolds ==
  ASSUME NEW S, IsFiniteSet(S), NEW f, \A x \in S : f[x] \in Int
  PROVE  /\ SumFunctionOnSet(f, S) \in Int
         /\ SumFunctionOnSet(f, S) = IF S = {} THEN 0 ELSE f[Pick(S)] + SumFunctionOnSet(f, S \ {Pick(S)})
<1> DEFINE Chosen(T) == CHOOSE g : IsSum(g, f, T)
<1>1. ASSUME NEW T \in SUBSET S PROVE IsSum(Chosen(T), f, T) /\ SumFunctionOnSet(f, T) = Chosen(T)[T]
  <2>1. \E g : IsSum(g, f, T)
    BY SumExists, FS_Subset
  <2>2. IsSum(Chosen(T), f, T)
    BY <2>1
  <2> QED
    BY <2>2, SumIsChosen
<1> HIDE DEF Chosen
<1>2. PICK g \in [SUBSET S -> Int] : IsSum(g, f, S)
  BY SumExists
<1>3. ASSUME NEW T \in SUBSET S PROVE SumFunctionOnSet(f, T) = g[T]
  BY <1>1, <1>2, SumUnique, FS_Subset
<1>4. S # {} => Pick(S) \in S
  BY DEF Pick
<1>5. g[S] = (IF S = {} THEN 0 ELSE f[Pick(S)] + g[S \ {Pick(S)}])
  BY <1>2 DEF IsSum
<1>6. SumFunctionOnSet(f, S) = g[S] /\ SumFunctionOnSet(f, S \ {Pick(S)}) = g[S \ {Pick(S)}]
  BY <1>3
<1> QED
  BY <1>2, <1>5, <1>6

\* The order of the elements does not matter: any of them can be taken out.
LEMMA SumRemove ==
  ASSUME NEW S, IsFiniteSet(S), NEW f, \A x \in S : f[x] \in Int, NEW a \in S
  PROVE  SumFunctionOnSet(f, S) = f[a] + SumFunctionOnSet(f, S \ {a})
<1> DEFINE Sum(T) == SumFunctionOnSet(f, T)
           G == {T \in SUBSET S : \A x \in T : Sum(T) = f[x] + Sum(T \ {x})}
<1>1. ASSUME NEW T \in SUBSET S, \A x \in T : T \ {x} \in G PROVE T \in G
  <2> SUFFICES ASSUME NEW x \in T PROVE Sum(T) = f[x] + Sum(T \ {x})
    OBVIOUS
  <2> DEFINE p == Pick(T)
  <2>1. p \in T
    BY DEF Pick
  <2>2. \A U \in SUBSET S : Sum(U) \in Int /\ IsFiniteSet(U)
    BY SumUnfolds, FS_Subset
  <2>3. Sum(T) = f[p] + Sum(T \ {p})
    BY <2>2, SumUnfolds
  <2>4. CASE x # p
    <3>1. T \ {p} \in G /\ T \ {x} \in G
      BY <1>1, <2>1
    <3>2. x \in T \ {p} /\ p \in T \ {x} /\ (T \ {p}) \ {x} = (T \ {x}) \ {p}
      BY <2>1, <2>4
    <3>3. Sum(T \ {p}) = f[x] + Sum((T \ {x}) \ {p}) /\ Sum(T \ {x}) = f[p] + Sum((T \ {x}) \ {p})
      BY <3>1, <3>2
    <3>4. f[x] \in Int /\ f[p] \in Int /\ Sum((T \ {x}) \ {p}) \in Int
      BY <2>1, <2>2
    <3>5. Sum(T \ {x}) \in Int /\ Sum(T \ {p}) \in Int
      BY <2>2
    <3> HIDE DEF Sum, p
    <3> QED
      BY <2>3, <3>3, <3>4, <3>5
  <2> QED
    BY <2>3, <2>4
<1>2. \A T \in SUBSET S : T \in G
  <2> HIDE DEF G
  <2> QED
    BY <1>1, SubsetInduction
<1> QED
  BY <1>2

\* A sum depends on the values over its set only.
LEMMA SumSame ==
  ASSUME NEW S, IsFiniteSet(S), NEW f, NEW g, \A x \in S : f[x] \in Int /\ g[x] = f[x]
  PROVE  SumFunctionOnSet(f, S) = SumFunctionOnSet(g, S)
<1> DEFINE G == {T \in SUBSET S : SumFunctionOnSet(f, T) = SumFunctionOnSet(g, T)}
<1>1. ASSUME NEW T \in SUBSET S, \A x \in T : T \ {x} \in G PROVE T \in G
  <2>1. IsFiniteSet(T) /\ (T # {} => Pick(T) \in T)
    BY FS_Subset DEF Pick
  <2>2. SumFunctionOnSet(f, T) = IF T = {} THEN 0 ELSE f[Pick(T)] + SumFunctionOnSet(f, T \ {Pick(T)})
    BY <2>1, SumUnfolds
  <2>3. SumFunctionOnSet(g, T) = IF T = {} THEN 0 ELSE g[Pick(T)] + SumFunctionOnSet(g, T \ {Pick(T)})
    BY <2>1, SumUnfolds
  <2> QED
    BY <1>1, <2>1, <2>2, <2>3
<1>2. \A T \in SUBSET S : T \in G
  <2> HIDE DEF G
  <2> QED
    BY <1>1, SubsetInduction
<1> QED
  BY <1>2

\* What an element adds nothing to can be left out.
LEMMA SumOverSupport ==
  ASSUME NEW S, IsFiniteSet(S), NEW U \in SUBSET S, NEW f,
         \A x \in S : f[x] \in Int, \A x \in S \ U : f[x] = 0
  PROVE  SumFunctionOnSet(f, S) = SumFunctionOnSet(f, U)
<1> DEFINE G == {T \in SUBSET S : SumFunctionOnSet(f, T) = SumFunctionOnSet(f, T \cap U)}
<1>1. ASSUME NEW T \in SUBSET S, \A x \in T : T \ {x} \in G PROVE T \in G
  <2>1. CASE \E x \in T : x \notin U
    <3>1. PICK x \in T : x \notin U
      BY <2>1
    <3>0. IsFiniteSet(T) /\ IsFiniteSet(T \ {x}) /\ \A y \in T : f[y] \in Int
      BY FS_Subset
    <3>2. SumFunctionOnSet(f, T) = f[x] + SumFunctionOnSet(f, T \ {x})
      BY <3>0, SumRemove
    <3>2a. SumFunctionOnSet(f, T \ {x}) \in Int
      BY <3>0, SumUnfolds
    <3>3. T \ {x} \in G /\ (T \ {x}) \cap U = T \cap U /\ f[x] = 0
      BY <1>1, <3>1
    <3>4. SumFunctionOnSet(f, T \ {x}) = SumFunctionOnSet(f, T \cap U)
      BY <3>3
    <3> QED
      BY <3>2, <3>2a, <3>3, <3>4
  <2>2. CASE T \subseteq U
    <3>1. T \cap U = T
      BY <2>2
    <3> QED
      BY <3>1
  <2> QED
    BY <2>1, <2>2
<1>2. S \in G
  <2> HIDE DEF G
  <2> QED
    BY <1>1, SubsetInduction
<1>3. S \cap U = U
  OBVIOUS
<1> QED
  BY <1>2, <1>3

-----------------------------------------------------------------------------
(* Types, and the finitely many holds there are at any time. *)

\* What every step preserves whatever the repairs do to the wallet.
RowsTyped == HoldType /\ ActionType /\ SweepType

\* No hold, action or sweep has begun: the initial rows are well typed.
LEMMA InitRows == Init => RowsTyped
BY ConstantsAssumption
   DEF Init, RowsTyped, HoldType, ActionType, SweepType, HoldStatus, Live

\* Holds, actions and sweeps keep their types, repairs included.
LEMMA RowsStep == RowsTyped /\ [Next]_vars => RowsTyped'
<1> SUFFICES ASSUME RowsTyped, [Next]_vars PROVE RowsTyped'
  OBVIOUS
<1> USE ConstantsAssumption DEF RowsTyped, HoldType, ActionType, SweepType, HoldStatus, Live
<1>1. ASSUME NEW a \in Actions, ReadWallet(a) PROVE RowsTyped'
  BY <1>1 DEF ReadWallet, Goto, NoWrite, walletVars, ledgerVars, holdVars, sweepVars
<1>2. ASSUME NEW a \in Actions, CreateWallet(a) PROVE RowsTyped'
  BY <1>2 DEF CreateWallet, InsertWallet, Goto, holdVars, sweepVars
<1>3. ASSUME NEW a \in Actions, Reserve(a) PROVE RowsTyped'
  BY <1>3 DEF Reserve, OpenHold, Goto, ledgerVars, sweepVars
<1>4. ASSUME NEW a \in Actions, Refuse(a) PROVE RowsTyped'
  BY <1>4 DEF Refuse, Goto, NoWrite, ledgerVars, holdVars, sweepVars
<1>5. ASSUME NEW a \in Actions, GateError(a) PROVE RowsTyped'
  BY <1>5 DEF GateError, OpenHold, Goto, NoWrite, ledgerVars, holdVars, sweepVars
<1>6. ASSUME NEW a \in Actions, Work(a) PROVE RowsTyped'
  BY <1>6 DEF Work, NoWrite, ledgerVars, holdVars, sweepVars
<1>7. ASSUME NEW a \in Actions, End(a) PROVE RowsTyped'
  BY <1>7 DEF End, Goto, NoWrite, ledgerVars, holdVars, sweepVars
<1>8. ASSUME NEW a \in Actions, SettleCheck(a) PROVE RowsTyped'
  BY <1>8 DEF SettleCheck, Goto, NoWrite, ledgerVars, holdVars, sweepVars
<1>9. ASSUME NEW a \in Actions, Settle(a) PROVE RowsTyped'
  BY <1>9 DEF Settle, SettleCore, Charge, SettleFree, Goto, NoWrite, ledgerVars, holdVars, sweepVars
<1>10. ASSUME NEW a \in Actions, SettleReread(a) PROVE RowsTyped'
  BY <1>10 DEF SettleReread, Goto, NoWrite, ledgerVars, holdVars, sweepVars
<1>11. ASSUME NEW a \in Actions, SettleRecover(a) PROVE RowsTyped'
  BY <1>11 DEF SettleRecover, MarkFailed, NextAttempt, ReleaseOnly, Goto, NoWrite,
               ledgerVars, holdVars, sweepVars
<1>12. ASSUME NEW a \in Actions, Crash(a) PROVE RowsTyped'
  BY <1>12 DEF Crash, Goto, NoWrite, ledgerVars, holdVars, sweepVars
<1>13. ASSUME NEW a \in Actions, Age(a) PROVE RowsTyped'
  BY <1>13 DEF Age, ledgerVars, actionVars, sweepVars
<1>14. ASSUME NEW s \in Sweepers, SweepLoadFailed(s) PROVE RowsTyped'
  BY <1>14 DEF SweepLoadFailed, SweepTo, NoWrite, ledgerVars, holdVars, actionVars
<1>15. ASSUME NEW s \in Sweepers, NEW a \in Actions, Replay(s, a) PROVE RowsTyped'
  <2>1. HoldType'
    <3>1. CASE Charge(a, captured[a])
      BY <3>1 DEF Charge
    <3>2. CASE NoWrite
      BY <3>2 DEF NoWrite, ledgerVars, holdVars
    <3>3. QED
      BY <1>15, <3>1, <3>2 DEF Replay
  <2>2. ActionType' /\ SweepType'
    BY <1>15 DEF Replay, SweepTo, actionVars
  <2>3. QED
    BY <2>1, <2>2
<1>16. ASSUME NEW s \in Sweepers, ReplayReread(s) PROVE RowsTyped'
  BY <1>16 DEF ReplayReread, NextAttempt, NextAfterRollback, Abort, SweepTo, NoWrite,
               ledgerVars, holdVars, actionVars
<1>17. ASSUME NEW s \in Sweepers, GiveUp(s) PROVE RowsTyped'
  <2>1. HoldType'
    BY <1>17 DEF GiveUp, ReleaseOnly, ledgerVars
  <2>2. ActionType' /\ SweepType'
    BY <1>17 DEF GiveUp, NextAfterRollback, Abort, SweepTo, actionVars
  <2>3. QED
    BY <2>1, <2>2
<1>18. ASSUME NEW s \in Sweepers, SweepLoadOrphans(s) PROVE RowsTyped'
  BY <1>18 DEF SweepLoadOrphans, SweepTo, NoWrite, ledgerVars, holdVars, actionVars
<1>19. ASSUME NEW s \in Sweepers, NEW a \in Actions, ChargeOrphan(s, a) PROVE RowsTyped'
  <2>1. HoldType'
    <3>1. CASE Charge(a, recorded[a])
      BY <3>1 DEF Charge
    <3>2. CASE NoWrite
      BY <3>2 DEF NoWrite, ledgerVars, holdVars
    <3>3. QED
      BY <1>19, <3>1, <3>2 DEF ChargeOrphan
  <2>2. ActionType' /\ SweepType'
    BY <1>19 DEF ChargeOrphan, SweepTo, actionVars
  <2>3. QED
    BY <2>1, <2>2
<1>20. ASSUME NEW s \in Sweepers, NEW a \in Actions, ForgiveOrphan(s, a) PROVE RowsTyped'
  BY <1>20 DEF ForgiveOrphan, ReleaseOnly, SweepTo, ledgerVars, actionVars
<1>21. ASSUME NEW s \in Sweepers, OrphanReread(s) PROVE RowsTyped'
  BY <1>21 DEF OrphanReread, NextAfterRollback, Abort, SweepTo, NoWrite,
               ledgerVars, holdVars, actionVars
<1>22. ASSUME NEW s \in Sweepers, Forgive(s) PROVE RowsTyped'
  <2>1. HoldType'
    BY <1>22 DEF Forgive, ReleaseOnly, ledgerVars
  <2>2. ActionType' /\ SweepType'
    BY <1>22 DEF Forgive, NextAfterRollback, Abort, SweepTo, actionVars
  <2>3. QED
    BY <2>1, <2>2
<1>23. ASSUME NEW s \in Sweepers, SweepEnd(s) \/ SweepCrash(s) PROVE RowsTyped'
  BY <1>23 DEF SweepEnd, SweepCrash, Abort, SweepTo, NoWrite, ledgerVars, holdVars, actionVars
<1>24. ASSUME NEW delta \in Adjustments, Grant(delta) PROVE RowsTyped'
  BY <1>24 DEF Grant, holdVars, actionVars, sweepVars
<1>24a. ASSUME VisitWallet PROVE RowsTyped'
  BY <1>24a DEF VisitWallet, InsertWallet, holdVars, actionVars, sweepVars
<1>25. ASSUME RepairRead \/ RepairWrite PROVE RowsTyped'
  BY <1>25 DEF RepairRead, RepairWrite, NoWrite, ledgerVars, holdVars, actionVars, sweepVars
<1>26. CASE UNCHANGED vars
  BY <1>26 DEF vars, ledgerVars, holdVars, actionVars, sweepVars
<1>27. QED
  BY <1>1, <1>2, <1>3, <1>4, <1>5, <1>6, <1>7, <1>8, <1>9, <1>10, <1>11, <1>12, <1>13, <1>14,
     <1>15, <1>16, <1>17, <1>18, <1>19, <1>20, <1>21, <1>22, <1>23, <1>24, <1>24a, <1>25, <1>26
     DEF Next, ActionStep, SweepStep

\* The holds whose row exists.
Opened == {a \in Actions : status[a] # "none"}

\* Only finitely many holds exist at any time, however many actions there may come to be; an action before the
\* gate has none, and a sweep treats holds that exist.
HoldsFinite ==
    /\ IsFiniteSet(Opened)
    /\ \A a \in Actions : pc[a] \in {"idle", "create", "gate"} => status[a] = "none"
    /\ \A s \in Sweepers :
         /\ todo[s] \subseteq Opened
         /\ spc[s] \in {"replay_reread", "give_up", "orphan_reread", "forgive"} => cur[s] \in Opened

\* A transaction writes the row of one hold.
LEMMA FiniteStep ==
  ASSUME IsFiniteSet(Opened), NEW a \in Actions, \A b \in Actions \ {a} : status'[b] = status[b]
  PROVE  IsFiniteSet(Opened')
<1>1. Opened' \subseteq Opened \cup {a}
  BY DEF Opened
<1>2. IsFiniteSet(Opened \cup {a})
  BY FS_AddElement
<1> QED
  BY <1>1, <1>2, FS_Subset

LEMMA HoldsFiniteInit == Init => HoldsFinite
<1> SUFFICES ASSUME Init PROVE HoldsFinite
  OBVIOUS
<1>1. Opened = {}
  BY DEF Init, Opened
<1> QED
  BY <1>1, FS_EmptySet DEF Init, HoldsFinite

LEMMA HoldsFiniteStep ==
  ASSUME RowsTyped, HoldsFinite, [Next]_vars
  PROVE  HoldsFinite'
<1> USE DEF RowsTyped, HoldType, ActionType, SweepType
\* Who leaves the holds alone need only be looked at where it moves.
<1>a. ASSUME NEW a \in Actions, \A b \in Actions \ {a} : status'[b] = status[b], status'[a] # "none",
             pc'[a] \notin {"idle", "create", "gate"}, \A b \in Actions \ {a} : pc'[b] = pc[b],
             UNCHANGED sweepVars
      PROVE  HoldsFinite'
  <2>1. IsFiniteSet(Opened')
    BY <1>a, FiniteStep DEF HoldsFinite
  <2>2. Opened \subseteq Opened'
    BY <1>a DEF Opened
  <2> QED
    BY <1>a, <2>1, <2>2 DEF HoldsFinite, sweepVars
<1>b. ASSUME UNCHANGED status, UNCHANGED sweepVars,
             \A b \in Actions : pc'[b] \in {"idle", "create", "gate"} => pc[b] \in {"idle", "create", "gate"}
      PROVE  HoldsFinite'
  <2>1. Opened' = Opened
    BY <1>b DEF Opened
  <2> QED
    BY <1>b, <2>1 DEF HoldsFinite, sweepVars
<1>c. ASSUME NEW s \in Sweepers, UNCHANGED pc, NEW a \in Actions, a \in Opened, status'[a] # "none",
             \A b \in Actions \ {a} : status'[b] = status[b],
             \A t \in Sweepers \ {s} : spc'[t] = spc[t] /\ todo'[t] = todo[t] /\ cur'[t] = cur[t],
             todo'[s] \subseteq Opened,
             spc'[s] \in {"replay_reread", "give_up", "orphan_reread", "forgive"} => cur'[s] \in Opened
      PROVE  HoldsFinite'
  <2>1. IsFiniteSet(Opened')
    BY <1>c, FiniteStep DEF HoldsFinite
  <2>2. Opened' = Opened
    BY <1>c DEF Opened
  <2> QED
    BY <1>c, <2>1, <2>2 DEF HoldsFinite, Opened
<1>d. ASSUME NEW s \in Sweepers, UNCHANGED <<pc, status>>,
             \A t \in Sweepers \ {s} : spc'[t] = spc[t] /\ todo'[t] = todo[t] /\ cur'[t] = cur[t],
             todo'[s] \subseteq Opened,
             spc'[s] \in {"replay_reread", "give_up", "orphan_reread", "forgive"} => cur'[s] \in Opened
      PROVE  HoldsFinite'
  <2>1. Opened' = Opened
    BY <1>d DEF Opened
  <2> QED
    BY <1>d, <2>1 DEF HoldsFinite
<1>1. ASSUME NEW a \in Actions, ActionStep(a) \/ Crash(a) \/ Age(a)
      PROVE  HoldsFinite'
  <2>1. CASE Reserve(a)
    BY <1>a, <2>1 DEF Reserve, OpenHold, Goto
  <2>2. CASE GateError(a)
    <3>1. CASE NoWrite
      BY <1>b, <2>2, <3>1 DEF GateError, Goto, NoWrite, holdVars
    <3>2. CASE \E e \in Estimates : OpenHold(a, e)
      BY <1>a, <2>2, <3>2 DEF GateError, OpenHold, Goto
    <3> QED
      BY <2>2, <3>1, <3>2 DEF GateError
  <2>3. CASE Settle(a)
    <3>1. CASE SettleCore(a)
      BY <1>a, <2>3, <3>1 DEF Settle, SettleCore, Charge, SettleFree, Goto
    <3>2. CASE NoWrite
      BY <1>b, <2>3, <3>2 DEF Settle, NoWrite, holdVars, Goto
    <3> QED
      BY <2>3, <3>1, <3>2 DEF Settle
  <2>4. CASE SettleRecover(a)
    <3>1. CASE NoWrite
      BY <1>b, <2>4, <3>1 DEF SettleRecover, NoWrite, holdVars, Goto
    <3>2. CASE MarkFailed(a) \/ ReleaseOnly(a)
      BY <1>a, <2>4, <3>2 DEF SettleRecover, MarkFailed, ReleaseOnly, Goto
    <3> QED
      BY <2>4, <3>1, <3>2 DEF SettleRecover
  <2>5. CASE Age(a)
    BY <1>b, <2>5 DEF Age, actionVars
  <2>6. CASE CreateWallet(a)
    BY <1>b, <2>6 DEF CreateWallet, InsertWallet, Goto, holdVars
  <2>7. CASE Work(a)
    BY <1>b, <2>7 DEF Work, NoWrite, holdVars
  <2>8. CASE ReadWallet(a) \/ Refuse(a) \/ End(a) \/ SettleCheck(a) \/ SettleReread(a) \/ Crash(a)
    BY <1>b, <2>8 DEF ReadWallet, Refuse, End, SettleCheck, SettleReread, Crash, Goto, NoWrite, holdVars
  <2> QED
    BY <1>1, <2>1, <2>2, <2>3, <2>4, <2>5, <2>6, <2>7, <2>8 DEF ActionStep
<1>2. ASSUME NEW s \in Sweepers, SweepStep(s)
      PROVE  HoldsFinite'
  <2>1. ASSUME NEW a \in Actions, Replay(s, a) \/ ChargeOrphan(s, a) \/ ForgiveOrphan(s, a)
        PROVE  HoldsFinite'
    <3>1. a \in Opened /\ UNCHANGED pc
      BY <2>1 DEF Replay, ChargeOrphan, ForgiveOrphan, HoldsFinite, actionVars
    <3>2. CASE NoWrite
      BY <1>d, <2>1, <3>1, <3>2 DEF Replay, ChargeOrphan, ForgiveOrphan, SweepTo, NoWrite, holdVars, HoldsFinite
    <3>3. CASE ReleaseOnly(a) \/ \E u \in Nat : Charge(a, u)
      <4>1. status'[a] # "none" /\ \A b \in Actions \ {a} : status'[b] = status[b]
        BY <3>3 DEF ReleaseOnly, Charge
      <4>2. /\ \A t \in Sweepers \ {s} : spc'[t] = spc[t] /\ todo'[t] = todo[t] /\ cur'[t] = cur[t]
            /\ todo'[s] \subseteq Opened /\ cur'[s] \in {a, NoAction}
            /\ spc'[s] \in {"replay_reread", "give_up", "orphan_reread", "forgive"} => cur'[s] = a
        BY <2>1 DEF Replay, ChargeOrphan, ForgiveOrphan, SweepTo, HoldsFinite
      <4> QED
        BY <1>c, <3>1, <4>1, <4>2
    <3> QED
      BY <2>1, <3>2, <3>3 DEF Replay, ChargeOrphan, ForgiveOrphan
  <2>2. CASE GiveUp(s) \/ Forgive(s)
    <3>1. cur[s] \in Actions /\ cur[s] \in Opened /\ UNCHANGED pc /\ ReleaseOnly(cur[s])
      BY <2>2 DEF GiveUp, Forgive, HoldsFinite, actionVars
    <3>2. status'[cur[s]] # "none" /\ \A b \in Actions \ {cur[s]} : status'[b] = status[b]
      BY <3>1 DEF ReleaseOnly
    <3>3. /\ \A t \in Sweepers \ {s} : spc'[t] = spc[t] /\ todo'[t] = todo[t] /\ cur'[t] = cur[t]
          /\ todo'[s] \subseteq Opened /\ spc'[s] \in {"replay", "orphans", "idle"}
      BY <2>2 DEF GiveUp, Forgive, NextAfterRollback, Abort, SweepTo, HoldsFinite
    <3> QED
      BY <1>c, <3>1, <3>2, <3>3
  <2>3. CASE SweepLoadFailed(s) \/ SweepLoadOrphans(s)
    BY <1>d, <2>3 DEF SweepLoadFailed, SweepLoadOrphans, SweepTo, NoWrite, holdVars, actionVars, Opened
  <2>4. CASE ReplayReread(s)
    BY <1>d, <2>4 DEF ReplayReread, NextAfterRollback, Abort, SweepTo, NoWrite, holdVars, actionVars, HoldsFinite
  <2>5. CASE OrphanReread(s) \/ SweepEnd(s) \/ SweepCrash(s)
    BY <1>d, <2>5 DEF OrphanReread, SweepEnd, SweepCrash, NextAfterRollback, Abort, SweepTo, NoWrite, holdVars,
                      actionVars, HoldsFinite
  <2> QED
    BY <1>2, <2>1, <2>2, <2>3, <2>4, <2>5 DEF SweepStep
<1>3. ASSUME VisitWallet \/ (\E delta \in Adjustments : Grant(delta)) \/ RepairRead \/ RepairWrite \/ UNCHANGED vars
      PROVE  HoldsFinite'
  BY <1>3, <1>b DEF VisitWallet, InsertWallet, Grant, RepairRead, RepairWrite, NoWrite, holdVars, actionVars, vars
<1> QED
  BY <1>1, <1>2, <1>3 DEF Next

\* So what a repair reads of the holds is a number.
LEMMA EstimatesAreNumbers ==
  ASSUME RowsTyped, HoldsFinite, NEW S, "none" \notin S
  PROVE  EstimatesOf(S) \in Int
<1>1. {a \in Actions : status[a] \in S} \in SUBSET Opened
  BY DEF Opened
<1>2. IsFiniteSet({a \in Actions : status[a] \in S})
  BY <1>1, FS_Subset DEF HoldsFinite
<1>3. \A a \in {b \in Actions : status[b] \in S} : estimate[a] \in Int
  BY DEF RowsTyped, HoldType
<1> QED
  BY <1>2, <1>3, SumUnfolds DEF EstimatesOf

\* Before the wallet exists nobody has a hold, so nothing can move its balance.
NoWalletNoHold ==
    ~wallet => /\ balance = 0 /\ ledger = 0 /\ rpc = "idle"
               /\ \A a \in Actions : /\ pc[a] \in {"idle", "create", "unmetered", "done"}
                                     /\ status[a] = "none"
               /\ \A s \in Sweepers : /\ spc[s] \in {"idle", "replay", "orphans"}
                                      /\ todo[s] = {}

\* What a repair reads before it writes it to balance and held_units.
RepairTyped ==
    /\ rpc \in {"idle", "wallet", "ledger", "holds"} /\ repaired \in BOOLEAN
    /\ held \in Int /\ snap \in Snapshot

WalletInv ==
    /\ wallet \in BOOLEAN /\ balance \in Int /\ ledger \in Int
    /\ granted \in Nat /\ clawed \in Nat /\ overrun \in Nat
    /\ LedgerBalanced /\ NoWalletNoHold /\ RepairTyped

\* The wallet does not exist yet, and the ledger is as empty as the balance.
LEMMA InitWallet == Init => WalletInv
<1> SUFFICES ASSUME Init PROVE WalletInv
  OBVIOUS
<1>0. wallet \in BOOLEAN
  BY DEF Init
<1>1. /\ balance \in Int /\ ledger \in Int /\ granted \in Nat /\ clawed \in Nat /\ overrun \in Nat
      /\ LedgerBalanced
  BY DEF Init, LedgerBalanced
<1>2. NoWalletNoHold
  BY DEF Init, NoWalletNoHold
<1>3. RepairTyped
  <2>1. snap \in Snapshot
    BY DEF Init, Snapshot
  <2>2. rpc \in {"idle", "wallet", "ledger", "holds"} /\ held \in Int
    BY DEF Init
  <2>3. repaired \in BOOLEAN
    BY DEF Init
  <2> QED
    BY <2>1, <2>2, <2>3 DEF RepairTyped
<1>4. QED
  BY <1>0, <1>1, <1>2, <1>3 DEF WalletInv

\* Every step but the writing of a repair moves balance and ledger by the same integer.
LEMMA WalletStep ==
  ASSUME RowsTyped, WalletInv, HoldsFinite, [Next]_vars
  PROVE  WalletInv'
<1> USE ConstantsAssumption
    DEF RowsTyped, HoldType, ActionType, SweepType, WalletInv, LedgerBalanced,
        NoWalletNoHold, RepairTyped
\* The transactions on a hold need only that the wallet exists.
<1>a. ASSUME wallet, NEW a \in Actions, NEW u \in Nat, Charge(a, u), UNCHANGED repairVars
      PROVE  WalletInv'
  BY <1>a DEF Charge, repairVars
<1>b. ASSUME wallet, NEW a \in Actions, SettleFree(a), UNCHANGED repairVars
      PROVE  WalletInv'
  BY <1>b DEF SettleFree, repairVars
<1>d. ASSUME wallet, NEW a \in Actions, ReleaseOnly(a), UNCHANGED repairVars
      PROVE  WalletInv'
  BY <1>d DEF ReleaseOnly, ledgerVars, repairVars
<1>c. ASSUME wallet, NoWrite, UNCHANGED repairVars PROVE WalletInv'
  BY <1>c DEF NoWrite, walletVars, ledgerVars, repairVars
<1>1. ASSUME NEW a \in Actions, ReadWallet(a) PROVE WalletInv'
  BY <1>1 DEF ReadWallet, Goto, NoWrite, walletVars, ledgerVars, holdVars, sweepVars, repairVars
<1>2. ASSUME NEW a \in Actions, CreateWallet(a) PROVE WalletInv'
  BY <1>2 DEF CreateWallet, InsertWallet, sweepVars, repairVars
<1>3. ASSUME NEW a \in Actions, Reserve(a) PROVE WalletInv'
  BY <1>3 DEF Reserve, OpenHold, ledgerVars, repairVars
<1>4. ASSUME NEW a \in Actions, Refuse(a) PROVE WalletInv'
  BY <1>4, <1>c DEF Refuse
<1>5. ASSUME NEW a \in Actions, GateError(a) PROVE WalletInv'
  BY <1>5 DEF GateError, OpenHold, Goto, NoWrite, walletVars, ledgerVars, holdVars, sweepVars, repairVars
<1>6. ASSUME NEW a \in Actions, Work(a) PROVE WalletInv'
  BY <1>6 DEF Work, NoWrite, walletVars, ledgerVars, holdVars, sweepVars, repairVars
<1>7. ASSUME NEW a \in Actions, End(a) PROVE WalletInv'
  BY <1>7 DEF End, Goto, NoWrite, walletVars, ledgerVars, holdVars, sweepVars, repairVars
<1>8. ASSUME NEW a \in Actions, SettleCheck(a) \/ SettleReread(a) PROVE WalletInv'
  BY <1>8, <1>c DEF SettleCheck, SettleReread
<1>9. ASSUME NEW a \in Actions, Settle(a) PROVE WalletInv'
  BY <1>9, <1>a, <1>b, <1>c DEF Settle, SettleCore
<1>10. ASSUME NEW a \in Actions, SettleRecover(a) PROVE WalletInv'
  <2>1. wallet /\ UNCHANGED repairVars
    BY <1>10 DEF SettleRecover
  <2>2. CASE MarkFailed(a)
    BY <2>1, <2>2 DEF MarkFailed, walletVars, ledgerVars, repairVars
  <2>3. QED
    BY <1>10, <1>d, <1>c, <2>1, <2>2 DEF SettleRecover
<1>11. ASSUME NEW a \in Actions, Crash(a) PROVE WalletInv'
  BY <1>11 DEF Crash, Goto, NoWrite, walletVars, ledgerVars, holdVars, sweepVars, repairVars
<1>12. ASSUME NEW a \in Actions, Age(a) PROVE WalletInv'
  BY <1>12 DEF Age, walletVars, ledgerVars, repairVars
<1>13. ASSUME NEW s \in Sweepers, SweepLoadFailed(s) \/ SweepLoadOrphans(s) PROVE WalletInv'
  BY <1>13 DEF SweepLoadFailed, SweepLoadOrphans, SweepTo, NoWrite,
               walletVars, ledgerVars, holdVars, actionVars, repairVars
<1>14. ASSUME NEW s \in Sweepers, NEW a \in Actions, Replay(s, a) PROVE WalletInv'
  BY <1>14, <1>a, <1>c DEF Replay
<1>15. ASSUME NEW s \in Sweepers, ReplayReread(s) PROVE WalletInv'
  BY <1>15 DEF ReplayReread, NoWrite, walletVars, ledgerVars, repairVars
<1>16. ASSUME NEW s \in Sweepers, NEW a \in Actions, ChargeOrphan(s, a) PROVE WalletInv'
  BY <1>16, <1>a, <1>c DEF ChargeOrphan
<1>17. ASSUME NEW s \in Sweepers, NEW a \in Actions, ForgiveOrphan(s, a) PROVE WalletInv'
  BY <1>17, <1>d DEF ForgiveOrphan
<1>18. ASSUME NEW s \in Sweepers, GiveUp(s) \/ Forgive(s) PROVE WalletInv'
  <2>1. ReleaseOnly(cur[s]) /\ UNCHANGED repairVars
    BY <1>18 DEF GiveUp, Forgive
  <2>2. wallet
    BY <1>18 DEF GiveUp, Forgive
  <2>3. QED
    BY <2>1, <2>2 DEF ReleaseOnly, ledgerVars, repairVars
<1>19. ASSUME NEW s \in Sweepers, OrphanReread(s) PROVE WalletInv'
  BY <1>19, <1>c DEF OrphanReread
<1>20. ASSUME NEW s \in Sweepers, SweepEnd(s) \/ SweepCrash(s) PROVE WalletInv'
  BY <1>20 DEF SweepEnd, SweepCrash, Abort, SweepTo, NoWrite,
               walletVars, ledgerVars, holdVars, actionVars, repairVars
<1>21. ASSUME NEW delta \in Adjustments, Grant(delta) PROVE WalletInv'
  <2>1. /\ wallet' = wallet /\ balance' = balance + delta /\ ledger' = ledger + delta
        /\ granted' \in Nat /\ clawed' \in Nat /\ overrun' \in Nat
    BY <1>21 DEF Grant
  <2>2. LedgerBalanced' /\ NoWalletNoHold'
    BY <1>21, <2>1 DEF Grant, repairVars
  <2>3. RepairTyped'
    BY <1>21 DEF Grant, repairVars
  <2>4. QED
    BY <2>1, <2>2, <2>3
<1>21a. ASSUME VisitWallet PROVE WalletInv'
  BY <1>21a DEF VisitWallet, InsertWallet, repairVars
<1>22. ASSUME RepairRead PROVE WalletInv'
  <2>1. wallet /\ EstimatesOf({"held"}) \in Int
    BY <1>22, EstimatesAreNumbers DEF RepairRead
  <2>2. rpc' \in {"wallet", "ledger", "holds"} /\ snap' \in Snapshot
    BY <1>22, <2>1 DEF RepairRead, Snapshot
  <2>3. QED
    BY <1>22, <2>1, <2>2 DEF RepairRead, NoWrite, walletVars, ledgerVars, holdVars
<1>22a. ASSUME RepairWrite PROVE WalletInv'
  <2>1. wallet
    BY <1>22a DEF RepairWrite
  <2>2. snap.ledger \in Int /\ snap.holds \in Int /\ snap' \in Snapshot
    BY <1>22a DEF RepairWrite, Snapshot
  <2>2a. /\ balance' \in Int /\ held' \in Int /\ repaired' \in BOOLEAN
         /\ ~repaired' => balance' = balance /\ ~repaired
    BY <1>22a, <2>2 DEF RepairWrite
  <2>3. QED
    BY <1>22a, <2>1, <2>2, <2>2a DEF RepairWrite, ledgerVars
<1>23. CASE UNCHANGED vars
  BY <1>23 DEF vars, walletVars, ledgerVars, holdVars, actionVars, sweepVars, repairVars
<1>24. QED
  BY <1>1, <1>2, <1>3, <1>4, <1>5, <1>6, <1>7, <1>8, <1>9, <1>10, <1>11, <1>12, <1>13, <1>14,
     <1>15, <1>16, <1>17, <1>18, <1>19, <1>20, <1>21, <1>21a, <1>22, <1>22a, <1>23
     DEF Next, ActionStep, SweepStep

\* Type correctness, repairs included: what a repair writes is a sum over finitely many holds.
THEOREM TypeCorrect == Spec => []TypeOK
<1>1. Init => RowsTyped /\ HoldsFinite /\ WalletInv
  BY InitRows, HoldsFiniteInit, InitWallet
<1>2. RowsTyped /\ HoldsFinite /\ WalletInv /\ [Next]_vars => RowsTyped' /\ HoldsFinite' /\ WalletInv'
  BY RowsStep, HoldsFiniteStep, WalletStep
<1>3. RowsTyped /\ WalletInv => TypeOK
  BY DEF RowsTyped, WalletInv, RepairTyped, TypeOK, WalletType, RepairType
<1>4. QED
  BY <1>1, <1>2, <1>3, PTL DEF Spec

\* I1 of the credit design: with any number of racing sweep loops and of actions that outlive the
\* TTL, the balance is the sum of the ledger until a repair has written.
THEOREM BalanceIsLedger == Spec => []LedgerBalanced
<1>1. Init => RowsTyped /\ HoldsFinite /\ WalletInv
  BY InitRows, HoldsFiniteInit, InitWallet
<1>2. RowsTyped /\ HoldsFinite /\ WalletInv /\ [Next]_vars => RowsTyped' /\ HoldsFinite' /\ WalletInv'
  BY RowsStep, HoldsFiniteStep, WalletStep
<1>3. WalletInv => LedgerBalanced
  BY DEF WalletInv
<1>4. QED
  BY <1>1, <1>2, <1>3, PTL DEF Spec

\* What is available, as long as no repair has written.
Available == ~repaired => balance - held >= -clawed - overrun

\* A hold is opened out of what is available; a charge beyond its estimate and a claw-back count as such.
LEMMA AvailableStep ==
  ASSUME RowsTyped, WalletInv, Available, [Next]_vars
  PROVE  Available'
<1> USE ConstantsAssumption DEF RowsTyped, HoldType, WalletInv, RepairTyped, Available
<1>a. ASSUME NEW a \in Actions, NEW u \in Nat, Charge(a, u), UNCHANGED repairVars
      PROVE  Available'
  <2>1. /\ estimate[a] \in Nat /\ held' = held - estimate[a] /\ balance' = balance - u /\ clawed' = clawed
        /\ overrun' = overrun + (IF u > estimate[a] THEN u - estimate[a] ELSE 0) /\ repaired' = repaired
    BY <1>a DEF Charge, repairVars
  <2> QED
    BY <2>1
<1>b. ASSUME NEW a \in Actions, SettleFree(a) \/ ReleaseOnly(a), UNCHANGED repairVars
      PROVE  Available'
  <2>1. /\ estimate[a] \in Nat /\ held' = held - estimate[a] /\ balance' = balance /\ clawed' = clawed
        /\ overrun' = overrun /\ repaired' = repaired
    BY <1>b DEF SettleFree, ReleaseOnly, ledgerVars, repairVars
  <2> QED
    BY <2>1
<1>c. ASSUME NEW a \in Actions, NEW e \in Estimates, OpenHold(a, e), UNCHANGED repairVars
      PROVE  Available'
  BY <1>c DEF OpenHold, ledgerVars, repairVars
<1>d. ASSUME UNCHANGED <<balance, held, clawed, overrun, repaired>>
      PROVE  Available'
  BY <1>d
<1>e. ASSUME NoWrite, UNCHANGED repairVars
      PROVE  Available'
  BY <1>e, <1>d DEF NoWrite, walletVars, ledgerVars, repairVars
<1>f. ASSUME InsertWallet, UNCHANGED repairVars
      PROVE  Available'
  BY <1>f DEF InsertWallet, NoWalletNoHold, repairVars
<1>1. ASSUME NEW a \in Actions, ActionStep(a) \/ Crash(a) \/ Age(a)
      PROVE  Available'
  <2>1. CASE Reserve(a) \/ GateError(a)
    BY <1>c, <1>e, <2>1 DEF Reserve, GateError
  <2>2. CASE Settle(a)
    BY <1>a, <1>b, <1>e, <2>2 DEF Settle, SettleCore, ActionType
  <2>3. CASE SettleRecover(a)
    BY <1>b, <1>d, <1>e, <2>3 DEF SettleRecover, MarkFailed, walletVars, ledgerVars, repairVars
  <2>4. CASE CreateWallet(a)
    BY <1>f, <2>4 DEF CreateWallet
  <2>5. CASE Age(a)
    BY <1>d, <2>5 DEF Age, walletVars, ledgerVars, repairVars
  <2> QED
    BY <1>1, <1>e, <2>1, <2>2, <2>3, <2>4, <2>5
       DEF ActionStep, ReadWallet, Refuse, Work, End, SettleCheck, SettleReread, Crash
<1>2. ASSUME NEW s \in Sweepers, SweepStep(s)
      PROVE  Available'
  <2>1. ASSUME NEW a \in Actions, Replay(s, a) \/ ChargeOrphan(s, a) \/ ForgiveOrphan(s, a)
        PROVE  Available'
    BY <1>a, <1>b, <1>e, <2>1 DEF Replay, ChargeOrphan, ForgiveOrphan, ActionType
  <2>2. CASE GiveUp(s) \/ Forgive(s)
    <3>1. cur[s] \in Actions
      BY <2>2 DEF GiveUp, Forgive, SweepType
    <3> QED
      BY <1>b, <2>2, <3>1 DEF GiveUp, Forgive
  <2>3. CASE ReplayReread(s)
    BY <1>d, <2>3 DEF ReplayReread, NoWrite, walletVars, ledgerVars, repairVars
  <2> QED
    BY <1>2, <1>e, <2>1, <2>2, <2>3
       DEF SweepStep, SweepLoadFailed, SweepLoadOrphans, OrphanReread, SweepEnd, SweepCrash
<1>3. ASSUME NEW delta \in Adjustments, Grant(delta)
      PROVE  Available'
  <2>1. /\ balance' = balance + delta /\ held' = held /\ overrun' = overrun /\ repaired' = repaired
        /\ clawed' = (IF delta >= 0 THEN clawed ELSE clawed - delta) /\ delta \in Int
    BY <1>3 DEF Grant, repairVars
  <2> QED
    BY <2>1
<1>4. CASE VisitWallet
  BY <1>4, <1>f DEF VisitWallet
<1>5. CASE RepairRead
  BY <1>5, <1>d DEF RepairRead, NoWrite, walletVars, ledgerVars
<1>6. CASE RepairWrite
  BY <1>6 DEF RepairWrite, ledgerVars
<1>7. CASE UNCHANGED vars
  BY <1>7, <1>d DEF vars, walletVars, ledgerVars, repairVars
<1> QED
  BY <1>1, <1>2, <1>3, <1>4, <1>5, <1>6, <1>7 DEF Next

\* The gate holds: however many actions reserve, settle late or fail at once and however many sweeps race
\* them, until a repair has written what is available falls below zero only by what actions cost beyond
\* their estimates and by what an administrator clawed back (credit_service.reserve).
THEOREM GateHolds == Spec => []NoOverspend
<1>1. Init => RowsTyped /\ HoldsFinite /\ WalletInv /\ Available
  BY InitRows, HoldsFiniteInit, InitWallet DEF Init, Available
<1>2. RowsTyped /\ HoldsFinite /\ WalletInv /\ Available /\ [Next]_vars
        => RowsTyped' /\ HoldsFinite' /\ WalletInv' /\ Available'
  BY RowsStep, HoldsFiniteStep, WalletStep, AvailableStep
<1>3. Available => NoOverspend
  BY DEF Available, NoOverspend
<1> QED
  BY <1>1, <1>2, <1>3, PTL DEF Spec

-----------------------------------------------------------------------------
(* One resolver at a time: with a single sweep loop, and a TTL no action outlives, every read
   of a hold is still valid in the transaction that acts on it. *)

\* At first no party has read a hold.
LEMMA InitResolver == Init => OneResolver
BY DEF Init, OneResolver, ActionOwnsHold, SweepOwnsHolds, LedgerRowsMatch, Untouched

\* With one sweep loop and a covering TTL, what a party read of a hold stays true until it acts.
LEMMA ResolverStep ==
  ASSUME TTLCovers, \A s, t \in Sweepers : s = t
  PROVE  RowsTyped /\ OneResolver /\ [Next]_vars => OneResolver'
<1> SUFFICES ASSUME RowsTyped, OneResolver, [Next]_vars PROVE OneResolver'
  OBVIOUS
<1> USE ConstantsAssumption
    DEF RowsTyped, HoldType, ActionType, SweepType, HoldStatus, Live,
        OneResolver, ActionOwnsHold, SweepOwnsHolds, LedgerRowsMatch, Untouched
<1>1. ASSUME NEW a \in Actions, ReadWallet(a) PROVE OneResolver'
  <2>1. ActionOwnsHold'
    BY <1>1 DEF ReadWallet, Goto, NoWrite, walletVars, ledgerVars, holdVars, sweepVars
  <2>2. SweepOwnsHolds'
    BY <1>1 DEF ReadWallet, Goto, NoWrite, walletVars, ledgerVars, holdVars, sweepVars
  <2>3. LedgerRowsMatch'
    BY <1>1 DEF ReadWallet, Goto, NoWrite, walletVars, ledgerVars, holdVars, sweepVars
  <2>4. QED
    BY <2>1, <2>2, <2>3
<1>2. ASSUME NEW a \in Actions, CreateWallet(a) PROVE OneResolver'
  <2>1. ActionOwnsHold'
    BY <1>2 DEF CreateWallet, InsertWallet, Goto, holdVars, sweepVars
  <2>2. SweepOwnsHolds'
    BY <1>2 DEF CreateWallet, InsertWallet, Goto, holdVars, sweepVars
  <2>3. LedgerRowsMatch'
    BY <1>2 DEF CreateWallet, InsertWallet, Goto, holdVars, sweepVars
  <2>4. QED
    BY <2>1, <2>2, <2>3
<1>3. ASSUME NEW a \in Actions, Reserve(a) PROVE OneResolver'
  <2>1. ActionOwnsHold'
    BY <1>3 DEF Reserve, OpenHold, Goto, ledgerVars, sweepVars
  <2>2. SweepOwnsHolds'
    BY <1>3 DEF Reserve, OpenHold, Goto, ledgerVars, sweepVars
  <2>3. LedgerRowsMatch'
    BY <1>3 DEF Reserve, OpenHold, Goto, ledgerVars, sweepVars
  <2>4. QED
    BY <2>1, <2>2, <2>3
<1>4. ASSUME NEW a \in Actions, Refuse(a) PROVE OneResolver'
  <2>1. ActionOwnsHold'
    BY <1>4 DEF Refuse, Goto, NoWrite, ledgerVars, holdVars, sweepVars
  <2>2. SweepOwnsHolds'
    BY <1>4 DEF Refuse, Goto, NoWrite, ledgerVars, holdVars, sweepVars
  <2>3. LedgerRowsMatch'
    BY <1>4 DEF Refuse, Goto, NoWrite, ledgerVars, holdVars, sweepVars
  <2>4. QED
    BY <2>1, <2>2, <2>3
<1>5. ASSUME NEW a \in Actions, GateError(a) PROVE OneResolver'
  <2>1. ActionOwnsHold'
    BY <1>5 DEF GateError, OpenHold, Goto, NoWrite, ledgerVars, holdVars, sweepVars
  <2>2. SweepOwnsHolds'
    BY <1>5 DEF GateError, OpenHold, Goto, NoWrite, ledgerVars, holdVars, sweepVars
  <2>3. LedgerRowsMatch'
    BY <1>5 DEF GateError, OpenHold, Goto, NoWrite, ledgerVars, holdVars, sweepVars
  <2>4. QED
    BY <2>1, <2>2, <2>3
<1>6. ASSUME NEW a \in Actions, Work(a) PROVE OneResolver'
  <2>1. ActionOwnsHold'
    BY <1>6 DEF Work, NoWrite, ledgerVars, holdVars, sweepVars
  <2>2. SweepOwnsHolds'
    BY <1>6 DEF Work, NoWrite, ledgerVars, holdVars, sweepVars
  <2>3. LedgerRowsMatch'
    BY <1>6 DEF Work, NoWrite, ledgerVars, holdVars, sweepVars
  <2>4. QED
    BY <2>1, <2>2, <2>3
<1>7. ASSUME NEW a \in Actions, End(a) PROVE OneResolver'
  <2>1. ActionOwnsHold'
    BY <1>7 DEF End, Goto, NoWrite, ledgerVars, holdVars, sweepVars
  <2>2. SweepOwnsHolds'
    BY <1>7 DEF End, Goto, NoWrite, ledgerVars, holdVars, sweepVars
  <2>3. LedgerRowsMatch'
    BY <1>7 DEF End, Goto, NoWrite, ledgerVars, holdVars, sweepVars
  <2>4. QED
    BY <2>1, <2>2, <2>3
<1>8. ASSUME NEW a \in Actions, SettleCheck(a) PROVE OneResolver'
  <2>1. ActionOwnsHold'
    BY <1>8 DEF SettleCheck, Goto, NoWrite, ledgerVars, holdVars, sweepVars
  <2>2. SweepOwnsHolds'
    BY <1>8 DEF SettleCheck, Goto, NoWrite, ledgerVars, holdVars, sweepVars
  <2>3. LedgerRowsMatch'
    BY <1>8 DEF SettleCheck, Goto, NoWrite, ledgerVars, holdVars, sweepVars
  <2>4. QED
    BY <2>1, <2>2, <2>3
<1>9. ASSUME NEW a \in Actions, Settle(a) PROVE OneResolver'
  <2>1. ActionOwnsHold'
    BY <1>9 DEF Settle, SettleCore, Charge, SettleFree, Goto, NoWrite, ledgerVars, holdVars, sweepVars
  <2>2. SweepOwnsHolds'
    BY <1>9 DEF Settle, SettleCore, Charge, SettleFree, Goto, NoWrite, ledgerVars, holdVars, sweepVars
  <2>3. LedgerRowsMatch'
    BY <1>9 DEF Settle, SettleCore, Charge, SettleFree, Goto, NoWrite, ledgerVars, holdVars, sweepVars
  <2>4. QED
    BY <2>1, <2>2, <2>3
<1>10. ASSUME NEW a \in Actions, SettleReread(a) PROVE OneResolver'
  <2>1. ActionOwnsHold'
    BY <1>10 DEF SettleReread, Goto, NoWrite, ledgerVars, holdVars, sweepVars
  <2>2. SweepOwnsHolds'
    BY <1>10 DEF SettleReread, Goto, NoWrite, ledgerVars, holdVars, sweepVars
  <2>3. LedgerRowsMatch'
    BY <1>10 DEF SettleReread, Goto, NoWrite, ledgerVars, holdVars, sweepVars
  <2>4. QED
    BY <2>1, <2>2, <2>3
<1>11. ASSUME NEW a \in Actions, SettleRecover(a) PROVE OneResolver'
  <2>1. ActionOwnsHold'
    BY <1>11 DEF SettleRecover, MarkFailed, NextAttempt, ReleaseOnly, Goto, NoWrite, ledgerVars, holdVars, sweepVars
  <2>2. SweepOwnsHolds'
    BY <1>11 DEF SettleRecover, MarkFailed, NextAttempt, ReleaseOnly, Goto, NoWrite, ledgerVars, holdVars, sweepVars
  <2>3. LedgerRowsMatch'
    BY <1>11 DEF SettleRecover, MarkFailed, NextAttempt, ReleaseOnly, Goto, NoWrite, ledgerVars, holdVars, sweepVars
  <2>4. QED
    BY <2>1, <2>2, <2>3
<1>12. ASSUME NEW a \in Actions, Crash(a) PROVE OneResolver'
  <2>1. ActionOwnsHold'
    BY <1>12 DEF Crash, Goto, NoWrite, ledgerVars, holdVars, sweepVars
  <2>2. SweepOwnsHolds'
    BY <1>12 DEF Crash, Goto, NoWrite, ledgerVars, holdVars, sweepVars
  <2>3. LedgerRowsMatch'
    BY <1>12 DEF Crash, Goto, NoWrite, ledgerVars, holdVars, sweepVars
  <2>4. QED
    BY <2>1, <2>2, <2>3
<1>13. ASSUME NEW a \in Actions, Age(a) PROVE OneResolver'
  <2>1. ActionOwnsHold'
    BY <1>13 DEF Age, ledgerVars, actionVars, sweepVars
  <2>2. SweepOwnsHolds'
    BY <1>13 DEF Age, ledgerVars, actionVars, sweepVars
  <2>3. LedgerRowsMatch'
    BY <1>13 DEF Age, ledgerVars, actionVars, sweepVars
  <2>4. QED
    BY <2>1, <2>2, <2>3
<1>14. ASSUME NEW s \in Sweepers, SweepLoadFailed(s) PROVE OneResolver'
  <2>1. ActionOwnsHold'
    BY <1>14 DEF SweepLoadFailed, SweepTo, NoWrite, ledgerVars, holdVars, actionVars
  <2>2. SweepOwnsHolds'
    BY <1>14 DEF SweepLoadFailed, SweepTo, NoWrite, ledgerVars, holdVars, actionVars
  <2>3. LedgerRowsMatch'
    BY <1>14 DEF SweepLoadFailed, SweepTo, NoWrite, ledgerVars, holdVars, actionVars
  <2>4. QED
    BY <2>1, <2>2, <2>3
<1>15. ASSUME NEW s \in Sweepers, NEW a \in Actions, Replay(s, a) PROVE OneResolver'
  <2>1. ActionOwnsHold'
    BY <1>15 DEF Replay, Charge, SweepTo, NoWrite, ledgerVars, holdVars, actionVars
  <2>2. SweepOwnsHolds'
    BY <1>15 DEF Replay, Charge, SweepTo, NoWrite, ledgerVars, holdVars, actionVars
  <2>3. LedgerRowsMatch'
    BY <1>15 DEF Replay, Charge, SweepTo, NoWrite, ledgerVars, holdVars, actionVars
  <2>4. QED
    BY <2>1, <2>2, <2>3
<1>16. ASSUME NEW s \in Sweepers, ReplayReread(s) PROVE OneResolver'
  <2>1. ActionOwnsHold'
    BY <1>16 DEF ReplayReread, NextAttempt, NextAfterRollback, Abort, SweepTo, NoWrite, ledgerVars, holdVars, actionVars
  <2>2. SweepOwnsHolds'
    BY <1>16 DEF ReplayReread, NextAttempt, NextAfterRollback, Abort, SweepTo, NoWrite, ledgerVars, holdVars, actionVars
  <2>3. LedgerRowsMatch'
    BY <1>16 DEF ReplayReread, NextAttempt, NextAfterRollback, Abort, SweepTo, NoWrite, ledgerVars, holdVars, actionVars
  <2>4. QED
    BY <2>1, <2>2, <2>3
<1>17. ASSUME NEW s \in Sweepers, GiveUp(s) PROVE OneResolver'
  <2>1. ActionOwnsHold'
    BY <1>17 DEF GiveUp, ReleaseOnly, NextAfterRollback, Abort, SweepTo, ledgerVars, actionVars
  <2>2. SweepOwnsHolds'
    BY <1>17 DEF GiveUp, ReleaseOnly, NextAfterRollback, Abort, SweepTo, ledgerVars, actionVars
  <2>3. LedgerRowsMatch'
    BY <1>17 DEF GiveUp, ReleaseOnly, NextAfterRollback, Abort, SweepTo, ledgerVars, actionVars
  <2>4. QED
    BY <2>1, <2>2, <2>3
<1>18. ASSUME NEW s \in Sweepers, SweepLoadOrphans(s) PROVE OneResolver'
  <2>1. ActionOwnsHold'
    BY <1>18 DEF SweepLoadOrphans, SweepTo, NoWrite, ledgerVars, holdVars, actionVars
  <2>2. SweepOwnsHolds'
    BY <1>18 DEF SweepLoadOrphans, SweepTo, NoWrite, ledgerVars, holdVars, actionVars
  <2>3. LedgerRowsMatch'
    BY <1>18 DEF SweepLoadOrphans, SweepTo, NoWrite, ledgerVars, holdVars, actionVars
  <2>4. QED
    BY <2>1, <2>2, <2>3
<1>19. ASSUME NEW s \in Sweepers, NEW a \in Actions, ChargeOrphan(s, a) PROVE OneResolver'
  <2>1. ActionOwnsHold'
    BY <1>19 DEF ChargeOrphan, Charge, SweepTo, NoWrite, ledgerVars, holdVars, actionVars
  <2>2. SweepOwnsHolds'
    BY <1>19 DEF ChargeOrphan, Charge, SweepTo, NoWrite, ledgerVars, holdVars, actionVars
  <2>3. LedgerRowsMatch'
    BY <1>19 DEF ChargeOrphan, Charge, SweepTo, NoWrite, ledgerVars, holdVars, actionVars
  <2>4. QED
    BY <2>1, <2>2, <2>3
<1>20. ASSUME NEW s \in Sweepers, NEW a \in Actions, ForgiveOrphan(s, a) PROVE OneResolver'
  <2>1. ActionOwnsHold'
    BY <1>20 DEF ForgiveOrphan, ReleaseOnly, SweepTo, ledgerVars, actionVars
  <2>2. SweepOwnsHolds'
    BY <1>20 DEF ForgiveOrphan, ReleaseOnly, SweepTo, ledgerVars, actionVars
  <2>3. LedgerRowsMatch'
    BY <1>20 DEF ForgiveOrphan, ReleaseOnly, SweepTo, ledgerVars, actionVars
  <2>4. QED
    BY <2>1, <2>2, <2>3
<1>21. ASSUME NEW s \in Sweepers, OrphanReread(s) PROVE OneResolver'
  <2>1. ActionOwnsHold'
    BY <1>21 DEF OrphanReread, NextAfterRollback, Abort, SweepTo, NoWrite, ledgerVars, holdVars, actionVars
  <2>2. SweepOwnsHolds'
    BY <1>21 DEF OrphanReread, NextAfterRollback, Abort, SweepTo, NoWrite, ledgerVars, holdVars, actionVars
  <2>3. LedgerRowsMatch'
    BY <1>21 DEF OrphanReread, NextAfterRollback, Abort, SweepTo, NoWrite, ledgerVars, holdVars, actionVars
  <2>4. QED
    BY <2>1, <2>2, <2>3
<1>22. ASSUME NEW s \in Sweepers, Forgive(s) PROVE OneResolver'
  <2>1. ActionOwnsHold'
    BY <1>22 DEF Forgive, ReleaseOnly, NextAfterRollback, Abort, SweepTo, ledgerVars, actionVars
  <2>2. SweepOwnsHolds'
    BY <1>22 DEF Forgive, ReleaseOnly, NextAfterRollback, Abort, SweepTo, ledgerVars, actionVars
  <2>3. LedgerRowsMatch'
    BY <1>22 DEF Forgive, ReleaseOnly, NextAfterRollback, Abort, SweepTo, ledgerVars, actionVars
  <2>4. QED
    BY <2>1, <2>2, <2>3
<1>23. ASSUME NEW s \in Sweepers, SweepEnd(s) \/ SweepCrash(s) PROVE OneResolver'
  <2>1. ActionOwnsHold'
    BY <1>23 DEF SweepEnd, SweepCrash, Abort, SweepTo, NoWrite, ledgerVars, holdVars, actionVars
  <2>2. SweepOwnsHolds'
    BY <1>23 DEF SweepEnd, SweepCrash, Abort, SweepTo, NoWrite, ledgerVars, holdVars, actionVars
  <2>3. LedgerRowsMatch'
    BY <1>23 DEF SweepEnd, SweepCrash, Abort, SweepTo, NoWrite, ledgerVars, holdVars, actionVars
  <2>4. QED
    BY <2>1, <2>2, <2>3
<1>24. ASSUME NEW delta \in Adjustments, Grant(delta) PROVE OneResolver'
  BY <1>24 DEF Grant, holdVars, actionVars, sweepVars
<1>25. ASSUME VisitWallet PROVE OneResolver'
  BY <1>25 DEF VisitWallet, InsertWallet, holdVars, actionVars, sweepVars
<1>26. ASSUME RepairRead \/ RepairWrite PROVE OneResolver'
  BY <1>26 DEF RepairRead, RepairWrite, NoWrite, ledgerVars, holdVars, actionVars, sweepVars
<1>27. CASE UNCHANGED vars
  BY <1>27 DEF vars, ledgerVars, holdVars, actionVars, sweepVars
<1>28. QED
  BY <1>1, <1>2, <1>3, <1>4, <1>5, <1>6, <1>7, <1>8, <1>9, <1>10, <1>11, <1>12, <1>13, <1>14, <1>15, <1>16, <1>17, <1>18, <1>19, <1>20, <1>21, <1>22, <1>23, <1>24, <1>25, <1>26, <1>27
     DEF Next, ActionStep, SweepStep

\* Under the deployment the sweep is written for, every party that resolves a hold is the only
\* one to do it between its read and its transaction.
THEOREM OnePartyResolves ==
  ASSUME TTLCovers, \A s, t \in Sweepers : s = t
  PROVE  Spec => []OneResolver
<1>1. Init => RowsTyped /\ OneResolver
  BY InitRows, InitResolver
<1>2. RowsTyped /\ OneResolver /\ [Next]_vars => RowsTyped' /\ OneResolver'
  BY RowsStep, ResolverStep
<1>3. QED
  BY <1>1, <1>2, PTL DEF Spec

\* So no hold is debited twice, whatever fails, is retried, replayed or repaired.
THEOREM NoDoubleCharge ==
  ASSUME TTLCovers, \A s, t \in Sweepers : s = t
  PROVE  Spec => []ChargedOnce
<1>1. OneResolver => ChargedOnce
  BY DEF OneResolver, LedgerRowsMatch, ChargedOnce
<1>2. QED
  BY <1>1, OnePartyResolves, PTL

\* As every transaction on a hold meets one that is unresolved, no step changes a settled one.
LEMMA SettledStep ==
  ASSUME TTLCovers
  PROVE  RowsTyped /\ OneResolver /\ [Next]_vars =>
           [\A a \in Actions : status[a] = "settled" =>
              status'[a] = "settled" /\ charged'[a] = charged[a] /\ debits'[a] = debits[a]]_vars
<1> DEFINE Final == \A b \in Actions : status[b] = "settled" =>
                      status'[b] = "settled" /\ charged'[b] = charged[b] /\ debits'[b] = debits[b]
<1> SUFFICES ASSUME RowsTyped, OneResolver, [Next]_vars PROVE Final \/ UNCHANGED vars
  OBVIOUS
<1> USE DEF RowsTyped, HoldType, ActionType, SweepType, OneResolver, ActionOwnsHold, SweepOwnsHolds
\* A transaction on one hold that is not settled yet disturbs no settled one.
<1>a. ASSUME NEW a \in Actions, status[a] # "settled",
             \/ \E u \in Nat : Charge(a, u)
             \/ SettleFree(a) \/ ReleaseOnly(a) \/ MarkFailed(a) \/ \E e \in Estimates : OpenHold(a, e)
      PROVE  Final
  BY <1>a DEF Charge, SettleFree, ReleaseOnly, MarkFailed, OpenHold, ledgerVars
<1>b. ASSUME NoWrite \/ UNCHANGED <<status, charged, debits>> PROVE Final
  BY <1>b DEF NoWrite, ledgerVars, holdVars
<1>1. ASSUME NEW a \in Actions, ActionStep(a) \/ Crash(a) \/ Age(a) PROVE Final
  <2>1. CASE Reserve(a) \/ GateError(a)
    <3>1. CASE \E e \in Estimates : pc[a] = "gate" /\ OpenHold(a, e)
      <4>1. status[a] # "settled"
        BY <3>1
      <4>2. QED
        BY <1>a, <3>1, <4>1
    <3>2. QED
      BY <1>b, <2>1, <3>1 DEF Reserve, GateError
  <2>2. CASE Settle(a)
    <3>1. status[a] # "settled"
      BY <2>2 DEF Settle
    <3>2. QED
      BY <1>a, <1>b, <2>2, <3>1 DEF Settle, SettleCore
  <2>3. CASE SettleRecover(a)
    <3>1. status[a] # "settled"
      BY <2>3 DEF SettleRecover
    <3>2. QED
      BY <1>a, <1>b, <2>3, <3>1 DEF SettleRecover
  <2>4. CASE CreateWallet(a) \/ Age(a)
    BY <1>b, <2>4 DEF CreateWallet, InsertWallet, Age, ledgerVars, holdVars
  <2>5. QED
    BY <1>1, <1>b, <2>1, <2>2, <2>3, <2>4
       DEF ActionStep, ReadWallet, Refuse, Work, End, SettleCheck, SettleReread, Crash
<1>2. ASSUME NEW s \in Sweepers, SweepStep(s) PROVE Final
  <2>1. ASSUME NEW a \in Actions, Replay(s, a) \/ ChargeOrphan(s, a) \/ ForgiveOrphan(s, a)
        PROVE  Final
    <3>1. status[a] # "settled"
      BY <2>1 DEF Replay, ChargeOrphan, ForgiveOrphan
    <3>2. QED
      BY <1>a, <1>b, <2>1, <3>1 DEF Replay, ChargeOrphan, ForgiveOrphan
  <2>2. CASE GiveUp(s) \/ Forgive(s)
    <3>1. cur[s] \in Actions /\ status[cur[s]] # "settled"
      BY <2>2 DEF GiveUp, Forgive
    <3>2. QED
      BY <1>a, <2>2, <3>1 DEF GiveUp, Forgive
  <2>3. CASE ReplayReread(s)
    BY <1>b, <2>3 DEF ReplayReread, ledgerVars
  <2>4. QED
    BY <1>2, <1>b, <2>1, <2>2, <2>3
       DEF SweepStep, SweepLoadFailed, SweepLoadOrphans, OrphanReread, SweepEnd, SweepCrash
<1>3. ASSUME VisitWallet \/ (\E delta \in Adjustments : Grant(delta)) \/ RepairRead \/ RepairWrite
      PROVE  Final
  BY <1>3, <1>b DEF VisitWallet, InsertWallet, Grant, RepairRead, RepairWrite, ledgerVars, holdVars
<1>4. QED
  BY <1>1, <1>2, <1>3 DEF Next

\* A settled hold is final.
THEOREM SettledStays ==
  ASSUME TTLCovers, \A s, t \in Sweepers : s = t
  PROVE  Spec => SettledIsFinal
<1>1. Init => RowsTyped /\ OneResolver
  BY InitRows, InitResolver
<1>2. RowsTyped /\ OneResolver /\ [Next]_vars => RowsTyped' /\ OneResolver'
  BY RowsStep, ResolverStep
<1>3. QED
  BY <1>1, <1>2, SettledStep, PTL DEF Spec, SettledIsFinal, KeepsSettled

\* Moves is the step relation of HeldFollowsHolds.
Moves ==
    \/ RepairWrite
    \/ held' = held /\ \A a \in Actions : Reserved(a)' = Reserved(a)
    \/ \E a \in Actions :
         /\ held' = held + Reserved(a)' - Reserved(a)
         /\ \A b \in Actions \ {a} : Reserved(b)' = Reserved(b)

\* Every transaction moves held_units by the change of one hold's reservation.
LEMMA MovesStep ==
  ASSUME RowsTyped, OneResolver, held \in Int, [Next]_vars
  PROVE  Moves \/ UNCHANGED vars
<1> USE ConstantsAssumption
    DEF RowsTyped, HoldType, ActionType, SweepType, OneResolver, ActionOwnsHold, SweepOwnsHolds
<1>a. ASSUME NEW a \in Actions, status[a] \in Unresolved,
             (\E u \in Nat : Charge(a, u)) \/ SettleFree(a) \/ ReleaseOnly(a)
      PROVE  Moves
  <2>1. held' = held + Reserved(a)' - Reserved(a)
    BY <1>a DEF Charge, SettleFree, ReleaseOnly, Reserved, Unresolved
  <2>2. \A b \in Actions \ {a} : Reserved(b)' = Reserved(b)
    BY <1>a DEF Charge, SettleFree, ReleaseOnly, Reserved
  <2>3. QED
    BY <2>1, <2>2 DEF Moves
<1>b. ASSUME NEW a \in Actions, NEW e \in Estimates, status[a] = "none", OpenHold(a, e) PROVE Moves
  <2>1. held' = held + Reserved(a)' - Reserved(a)
    BY <1>b DEF OpenHold, Reserved, Unresolved
  <2>2. \A b \in Actions \ {a} : Reserved(b)' = Reserved(b)
    BY <1>b DEF OpenHold, Reserved
  <2>3. QED
    BY <2>1, <2>2 DEF Moves
<1>c. ASSUME NEW a \in Actions, status[a] = "held", MarkFailed(a) PROVE Moves
  <2>1. held' = held /\ \A b \in Actions : Reserved(b)' = Reserved(b)
    BY <1>c DEF MarkFailed, Reserved, Unresolved, walletVars
  <2>2. QED
    BY <2>1 DEF Moves
<1>d. ASSUME NoWrite \/ UNCHANGED <<held, status, estimate>> PROVE Moves
  <2>1. UNCHANGED <<held, status, estimate>>
    BY <1>d DEF NoWrite, walletVars, holdVars
  <2>2. QED
    BY <2>1 DEF Moves, Reserved
<1>1. ASSUME NEW a \in Actions, ActionStep(a) \/ Crash(a) \/ Age(a) PROVE Moves
  <2>1. CASE Reserve(a) \/ GateError(a)
    <3>1. CASE \E e \in Estimates : pc[a] = "gate" /\ OpenHold(a, e)
      <4>1. status[a] = "none"
        BY <3>1
      <4>2. QED
        BY <1>b, <3>1, <4>1
    <3>2. QED
      BY <1>d, <2>1, <3>1 DEF Reserve, GateError
  <2>2. CASE Settle(a)
    <3>1. status[a] \in Unresolved
      BY <2>2 DEF Settle, Unresolved
    <3>2. QED
      BY <1>a, <1>d, <2>2, <3>1 DEF Settle, SettleCore
  <2>3. CASE SettleRecover(a)
    <3>1. status[a] = "held" /\ status[a] \in Unresolved
      BY <2>3 DEF SettleRecover, Unresolved
    <3>2. QED
      BY <1>a, <1>c, <1>d, <2>3, <3>1 DEF SettleRecover
  <2>4. CASE CreateWallet(a) \/ Age(a)
    BY <1>d, <2>4 DEF CreateWallet, InsertWallet, Age, walletVars, holdVars
  <2>5. QED
    BY <1>1, <1>d, <2>1, <2>2, <2>3, <2>4
       DEF ActionStep, ReadWallet, Refuse, Work, End, SettleCheck, SettleReread, Crash
<1>2. ASSUME NEW s \in Sweepers, SweepStep(s) PROVE Moves
  <2>1. ASSUME NEW a \in Actions, Replay(s, a) \/ ChargeOrphan(s, a) \/ ForgiveOrphan(s, a)
        PROVE  Moves
    <3>1. status[a] \in Unresolved
      BY <2>1 DEF Replay, ChargeOrphan, ForgiveOrphan, Unresolved
    <3>2. QED
      BY <1>a, <1>d, <2>1, <3>1 DEF Replay, ChargeOrphan, ForgiveOrphan
  <2>2. CASE GiveUp(s) \/ Forgive(s)
    <3>1. cur[s] \in Actions /\ status[cur[s]] \in Unresolved
      BY <2>2 DEF GiveUp, Forgive, Unresolved
    <3>2. QED
      BY <1>a, <2>2, <3>1 DEF GiveUp, Forgive
  <2>3. CASE ReplayReread(s)
    BY <1>d, <2>3 DEF ReplayReread, walletVars
  <2>4. QED
    BY <1>2, <1>d, <2>1, <2>2, <2>3
       DEF SweepStep, SweepLoadFailed, SweepLoadOrphans, OrphanReread, SweepEnd, SweepCrash
<1>3. ASSUME VisitWallet \/ (\E delta \in Adjustments : Grant(delta)) \/ RepairRead PROVE Moves
  BY <1>3, <1>d DEF VisitWallet, InsertWallet, Grant, RepairRead, holdVars
<1>4. QED
  BY <1>1, <1>2, <1>3 DEF Next, Moves

\* The step form of I2, repairs apart: held_units moves exactly as the reservations do.
THEOREM HeldMovesWithHolds ==
  ASSUME TTLCovers, \A s, t \in Sweepers : s = t
  PROVE  Spec => HeldFollowsHolds
<1>1. Init => RowsTyped /\ HoldsFinite /\ WalletInv /\ OneResolver
  BY InitRows, HoldsFiniteInit, InitWallet, InitResolver
<1>2. RowsTyped /\ HoldsFinite /\ WalletInv /\ OneResolver /\ [Next]_vars
        => RowsTyped' /\ HoldsFinite' /\ WalletInv' /\ OneResolver'
  BY RowsStep, HoldsFiniteStep, WalletStep, ResolverStep
<1>3. RowsTyped /\ WalletInv /\ OneResolver /\ [Next]_vars => [Moves]_vars
  BY MovesStep DEF WalletInv, RepairTyped
<1>4. QED
  BY <1>1, <1>2, <1>3, PTL DEF Spec, HeldFollowsHolds, HeldMoves, Moves

-----------------------------------------------------------------------------
(* What held_units is worth beside the holds. *)

\* The estimates of the unresolved holds, as a sum of reservations over any finite set around them.
LEMMA EstimatesAsReservations ==
  ASSUME NEW st \in [Actions -> HoldStatus], NEW est \in [Actions -> Nat],
         NEW O \in SUBSET Actions, IsFiniteSet(O), \A a \in Actions \ O : st[a] \notin Unresolved
  PROVE  SumFunctionOnSet(est, {a \in Actions : st[a] \in Unresolved}) =
           SumFunctionOnSet([a \in Actions |-> IF st[a] \in Unresolved THEN est[a] ELSE 0], O)
<1> DEFINE U == {a \in Actions : st[a] \in Unresolved}
           r == [a \in Actions |-> IF st[a] \in Unresolved THEN est[a] ELSE 0]
<1>1. U \in SUBSET O /\ IsFiniteSet(U)
  BY FS_Subset
<1>2. \A a \in O : r[a] \in Int
  OBVIOUS
<1>3. \A a \in O \ U : r[a] = 0
  OBVIOUS
<1>4. SumFunctionOnSet(r, O) = SumFunctionOnSet(r, U)
  <2> HIDE DEF r, U
  <2> QED
    BY <1>1, <1>2, <1>3, SumOverSupport
<1>5. \A a \in U : est[a] \in Int /\ r[a] = est[a]
  OBVIOUS
<1>6. SumFunctionOnSet(est, U) = SumFunctionOnSet(r, U)
  <2> HIDE DEF r, U
  <2> QED
    BY <1>1, <1>5, SumSame
<1> QED
  BY <1>4, <1>6

\* When the reservation of one hold changes, the sum changes by as much.
LEMMA EstimatesMove ==
  ASSUME RowsTyped, RowsTyped', HoldsFinite, HoldsFinite', NEW a \in Actions,
         \A b \in Actions \ {a} : Reserved(b)' = Reserved(b)
  PROVE  EstimatesOf(Unresolved)' = EstimatesOf(Unresolved) + Reserved(a)' - Reserved(a)
<1> DEFINE O == (Opened \cup Opened') \cup {a}
           r == [b \in Actions |-> IF status[b] \in Unresolved THEN estimate[b] ELSE 0]
           q == [b \in Actions |-> IF status'[b] \in Unresolved THEN estimate'[b] ELSE 0]
<1>1. IsFiniteSet(O) /\ O \in SUBSET Actions /\ a \in O
  BY FS_Union, FS_AddElement DEF HoldsFinite, Opened
<1>2. /\ status \in [Actions -> HoldStatus] /\ estimate \in [Actions -> Nat]
      /\ status' \in [Actions -> HoldStatus] /\ estimate' \in [Actions -> Nat]
  BY DEF RowsTyped, HoldType
<1>3. \A b \in Actions \ O : status[b] \notin Unresolved /\ status'[b] \notin Unresolved
  BY DEF Opened, Unresolved
<1>4. EstimatesOf(Unresolved) = SumFunctionOnSet(r, O)
  <2> HIDE DEF O
  <2> QED
    BY <1>1, <1>2, <1>3, EstimatesAsReservations DEF EstimatesOf
<1>5. EstimatesOf(Unresolved)' = SumFunctionOnSet(q, O)
  <2> HIDE DEF O
  <2> QED
    BY <1>1, <1>2, <1>3, EstimatesAsReservations DEF EstimatesOf
<1>6. \A b \in Actions : r[b] \in Int /\ q[b] \in Int /\ r[b] = Reserved(b) /\ q[b] = Reserved(b)'
  BY <1>2 DEF Reserved
<1>7. \A b \in O \ {a} : q[b] = r[b]
  BY <1>1, <1>6
<1>8. IsFiniteSet(O \ {a}) /\ \A b \in O : r[b] \in Int /\ q[b] \in Int
  BY <1>1, <1>6, FS_RemoveElement
<1> HIDE DEF O, r, q
<1>9. /\ SumFunctionOnSet(r, O) = r[a] + SumFunctionOnSet(r, O \ {a})
      /\ SumFunctionOnSet(q, O) = q[a] + SumFunctionOnSet(q, O \ {a})
  BY <1>1, <1>8, SumRemove
<1>10. SumFunctionOnSet(q, O \ {a}) = SumFunctionOnSet(r, O \ {a})
  BY <1>7, <1>8, SumSame
<1>11. SumFunctionOnSet(r, O \ {a}) \in Int
  BY <1>8, SumUnfolds
<1>12. r[a] \in Int /\ q[a] \in Int /\ r[a] = Reserved(a) /\ q[a] = Reserved(a)'
  BY <1>6
<1> QED
  BY <1>4, <1>5, <1>9, <1>10, <1>11, <1>12

\* At first no hold reserves anything.
LEMMA NothingReserved == Init => held = 0 /\ EstimatesOf(Unresolved) = 0
<1> SUFFICES ASSUME Init PROVE EstimatesOf(Unresolved) = 0
  BY DEF Init
<1>1. {a \in Actions : status[a] \in Unresolved} = {}
  BY DEF Init, Unresolved
<1> QED
  BY <1>1, SumUnfolds, FS_EmptySet DEF EstimatesOf

\* How far a step may move held_units: not above the change of the reservation it makes.
LEMMA HeldMovesDown ==
  ASSUME RowsTyped, HoldsFinite, held \in Int, [Next]_vars, ~repaired'
  PROVE  /\ ~repaired
         /\ \/ UNCHANGED <<held, status, estimate>>
            \/ \E a \in Actions :
                 /\ held' \in Int /\ held' =< held + Reserved(a)' - Reserved(a)
                 /\ \A b \in Actions \ {a} : Reserved(b)' = Reserved(b)
<1> DEFINE Move(a) == /\ held' \in Int /\ held' =< held + Reserved(a)' - Reserved(a)
                      /\ \A b \in Actions \ {a} : Reserved(b)' = Reserved(b)
           Goal == ~repaired /\ (UNCHANGED <<held, status, estimate>> \/ \E a \in Actions : Move(a))
<1> SUFFICES Goal
  OBVIOUS
<1> USE ConstantsAssumption DEF RowsTyped, HoldType, ActionType, SweepType
\* A resolution releases the estimate, which is at least what the hold still reserved.
<1>a. ASSUME NEW a \in Actions, (\E u \in Nat : Charge(a, u)) \/ SettleFree(a) \/ ReleaseOnly(a)
      PROVE  Move(a)
  <2>1. held' = held - estimate[a] /\ estimate' = estimate /\ estimate[a] \in Nat
    BY <1>a DEF Charge, SettleFree, ReleaseOnly
  <2>2. status'[a] = "settled" /\ \A b \in Actions \ {a} : status'[b] = status[b]
    BY <1>a DEF Charge, SettleFree, ReleaseOnly
  <2>3. Reserved(a)' = 0 /\ Reserved(a) =< estimate[a] /\ Reserved(a) \in Nat
    BY <2>1, <2>2 DEF Reserved, Unresolved
  <2> QED
    BY <2>1, <2>2, <2>3 DEF Reserved
<1>b. ASSUME NEW a \in Actions, NEW e \in Estimates, status[a] = "none", OpenHold(a, e)
      PROVE  Move(a)
  <2>1. /\ held' = held + e /\ e \in Nat /\ Reserved(a) = 0 /\ Reserved(a)' = e
        /\ \A b \in Actions \ {a} : Reserved(b)' = Reserved(b)
    BY <1>b DEF OpenHold, Reserved, Unresolved
  <2> QED
    BY <2>1
\* A settlement that failed may at worst bring a reservation back.
<1>c. ASSUME NEW a \in Actions, MarkFailed(a)
      PROVE  Move(a)
  <2>1. /\ held' = held /\ Reserved(a)' = estimate[a] /\ estimate[a] \in Nat
        /\ Reserved(a) \in {0, estimate[a]}
        /\ \A b \in Actions \ {a} : Reserved(b)' = Reserved(b)
    BY <1>c DEF MarkFailed, Reserved, Unresolved, walletVars
  <2> QED
    BY <2>1
<1>d. ASSUME NoWrite, UNCHANGED repairVars PROVE Goal
  BY <1>d DEF NoWrite, walletVars, holdVars, repairVars
<1>e. ASSUME UNCHANGED <<held, status, estimate, repaired>> PROVE Goal
  BY <1>e
<1>f. ASSUME NEW a \in Actions, Move(a), UNCHANGED repairVars PROVE Goal
  BY <1>f DEF repairVars
<1> HIDE DEF Move, Goal
<1>1. ASSUME NEW a \in Actions, ActionStep(a) \/ Crash(a) \/ Age(a) PROVE Goal
  <2>1. CASE Reserve(a) \/ GateError(a)
    <3>1. UNCHANGED repairVars
      BY <2>1 DEF Reserve, GateError
    <3>2. CASE \E e \in Estimates : pc[a] = "gate" /\ OpenHold(a, e)
      <4>1. status[a] = "none"
        BY <3>2 DEF HoldsFinite
      <4> QED
        BY <1>b, <1>f, <3>1, <3>2, <4>1
    <3> QED
      BY <1>d, <2>1, <3>1, <3>2 DEF Reserve, GateError
  <2>2. CASE Settle(a)
    <3>1. UNCHANGED repairVars
      BY <2>2 DEF Settle
    <3> QED
      BY <1>a, <1>d, <1>f, <2>2, <3>1 DEF Settle, SettleCore
  <2>3. CASE SettleRecover(a)
    <3>1. UNCHANGED repairVars
      BY <2>3 DEF SettleRecover
    <3> QED
      BY <1>a, <1>c, <1>d, <1>f, <2>3, <3>1 DEF SettleRecover
  <2>4. CASE CreateWallet(a) \/ Age(a)
    BY <1>e, <2>4 DEF CreateWallet, InsertWallet, Age, walletVars, holdVars, repairVars
  <2> QED
    BY <1>1, <1>d, <2>1, <2>2, <2>3, <2>4
       DEF ActionStep, ReadWallet, Refuse, Work, End, SettleCheck, SettleReread, Crash
<1>2. ASSUME NEW s \in Sweepers, SweepStep(s) PROVE Goal
  <2>1. ASSUME NEW a \in Actions, Replay(s, a) \/ ChargeOrphan(s, a) \/ ForgiveOrphan(s, a)
        PROVE  Goal
    BY <1>a, <1>d, <1>f, <2>1 DEF Replay, ChargeOrphan, ForgiveOrphan
  <2>2. CASE GiveUp(s) \/ Forgive(s)
    <3>1. cur[s] \in Actions /\ ReleaseOnly(cur[s]) /\ UNCHANGED repairVars
      BY <2>2 DEF GiveUp, Forgive
    <3> QED
      BY <1>a, <1>f, <3>1
  <2>3. CASE ReplayReread(s)
    BY <1>e, <2>3 DEF ReplayReread, NoWrite, walletVars, holdVars, repairVars
  <2> QED
    BY <1>2, <1>d, <2>1, <2>2, <2>3
       DEF SweepStep, SweepLoadFailed, SweepLoadOrphans, OrphanReread, SweepEnd, SweepCrash
<1>3. ASSUME VisitWallet \/ (\E delta \in Adjustments : Grant(delta)) \/ RepairRead \/ UNCHANGED vars
      PROVE  Goal
  BY <1>3, <1>e DEF VisitWallet, InsertWallet, Grant, RepairRead, NoWrite, walletVars, holdVars, repairVars, vars
<1>4. CASE RepairWrite
  <2>1. UNCHANGED <<held, status, estimate, repaired>>
    BY <1>4 DEF RepairWrite, holdVars
  <2> QED
    BY <1>e, <2>1
<1> QED
  BY <1>1, <1>2, <1>3, <1>4 DEF Next

\* What the unresolved holds reserved covers held_units, as long as no repair has written.
Covered == ~repaired => held =< EstimatesOf(Unresolved)

LEMMA CoveredStep ==
  ASSUME RowsTyped, HoldsFinite, WalletInv, Covered, RowsTyped', HoldsFinite', [Next]_vars
  PROVE  Covered'
<1> SUFFICES ASSUME ~repaired'
             PROVE  held' =< EstimatesOf(Unresolved)'
  BY DEF Covered
<1>0. ~repaired /\ held \in Int
  BY HeldMovesDown DEF WalletInv, RepairTyped
<1>1. held \in Int /\ held =< EstimatesOf(Unresolved) /\ EstimatesOf(Unresolved) \in Int
  <2>1. "none" \notin Unresolved
    BY DEF Unresolved
  <2> QED
    BY <1>0, <2>1, EstimatesAreNumbers DEF Covered
<1>2. CASE UNCHANGED <<held, status, estimate>>
  BY <1>1, <1>2 DEF EstimatesOf
<1>3. ASSUME NEW a \in Actions, held' \in Int, held' =< held + Reserved(a)' - Reserved(a),
             \A b \in Actions \ {a} : Reserved(b)' = Reserved(b)
      PROVE  held' =< EstimatesOf(Unresolved)'
  <2>1. EstimatesOf(Unresolved)' = EstimatesOf(Unresolved) + Reserved(a)' - Reserved(a)
    BY <1>3, EstimatesMove
  <2>2. Reserved(a) \in Int /\ Reserved(a)' \in Int
    BY DEF Reserved, RowsTyped, HoldType
  <2> QED
    BY <1>1, <1>3, <2>1, <2>2
<1> QED
  BY <1>0, <1>1, <1>2, <1>3, HeldMovesDown

\* Credits are not locked for ever: with any number of racing sweep loops and of actions that outlive the TTL,
\* held_units never keeps more than the unresolved holds reserved, until a repair has written.
THEOREM NothingStaysLocked == Spec => []NoLeakedReservation
<1>1. Init => RowsTyped /\ HoldsFinite /\ WalletInv /\ Covered
  BY InitRows, HoldsFiniteInit, InitWallet, NothingReserved DEF Covered
<1>2. RowsTyped /\ HoldsFinite /\ WalletInv /\ Covered /\ [Next]_vars
        => RowsTyped' /\ HoldsFinite' /\ WalletInv' /\ Covered'
  BY RowsStep, WalletStep, HoldsFiniteStep, CoveredStep
<1>3. Covered => NoLeakedReservation
  BY DEF Covered, NoLeakedReservation
<1> QED
  BY <1>1, <1>2, <1>3, PTL DEF Spec

\* I2: held_units is exactly what the unresolved holds reserved.
Exact == ~repaired => held = EstimatesOf(Unresolved)

LEMMA ExactStep ==
  ASSUME RowsTyped, HoldsFinite, held \in Int, OneResolver, Exact, RowsTyped', HoldsFinite', [Next]_vars
  PROVE  Exact'
<1> SUFFICES ASSUME ~repaired'
             PROVE  held' = EstimatesOf(Unresolved)'
  BY DEF Exact
<1>1. ~repaired
  BY HeldMovesDown
<1>2. held = EstimatesOf(Unresolved)
  BY <1>1 DEF Exact
<1>3. CASE UNCHANGED <<held, status, estimate>>
  BY <1>2, <1>3 DEF EstimatesOf
<1>4. CASE RepairWrite
  <2>1. UNCHANGED <<held, status, estimate>>
    BY <1>4 DEF RepairWrite, holdVars
  <2> QED
    BY <1>3, <2>1
<1>5. ASSUME held' = held, \A a \in Actions : Reserved(a)' = Reserved(a)
      PROVE  held' = EstimatesOf(Unresolved)'
  <2>1. CASE Actions = {}
    BY <1>2, <1>5, <2>1 DEF EstimatesOf, RowsTyped, HoldType
  <2>2. ASSUME NEW a \in Actions PROVE EstimatesOf(Unresolved)' = EstimatesOf(Unresolved)
    <3>1. EstimatesOf(Unresolved)' = EstimatesOf(Unresolved) + Reserved(a)' - Reserved(a)
      BY <1>5, EstimatesMove
    <3>2. Reserved(a) \in Int /\ Reserved(a)' = Reserved(a)
      BY <1>5 DEF Reserved, RowsTyped, HoldType
    <3> QED
      BY <1>2, <3>1, <3>2
  <2> QED
    BY <1>2, <1>5, <2>1, <2>2
<1>6. ASSUME NEW a \in Actions, held' = held + Reserved(a)' - Reserved(a),
             \A b \in Actions \ {a} : Reserved(b)' = Reserved(b)
      PROVE  held' = EstimatesOf(Unresolved)'
  BY <1>2, <1>6, EstimatesMove
<1>7. CASE UNCHANGED vars
  BY <1>3, <1>7 DEF vars, walletVars, holdVars
<1> QED
  BY <1>4, <1>5, <1>6, <1>7, MovesStep DEF Moves

\* I2 of the credit design, as the code keeps it: with one sweep loop and a TTL no action outlives, held_units is
\* exactly what the unresolved holds reserved (credit_service.reserve, _settle_core), until a repair has written.
THEOREM HeldIsReserved ==
  ASSUME TTLCovers, \A s, t \in Sweepers : s = t
  PROVE  Spec => []HeldIsOutstanding
<1>1. Init => RowsTyped /\ HoldsFinite /\ WalletInv /\ OneResolver /\ Exact
  BY InitRows, HoldsFiniteInit, InitWallet, InitResolver, NothingReserved DEF Exact
<1>2. RowsTyped /\ HoldsFinite /\ WalletInv /\ OneResolver /\ Exact /\ [Next]_vars
        => RowsTyped' /\ HoldsFinite' /\ WalletInv' /\ OneResolver' /\ Exact'
  BY RowsStep, HoldsFiniteStep, WalletStep, ResolverStep, ExactStep DEF WalletInv, RepairTyped
<1>3. Exact => HeldIsOutstanding
  BY DEF Exact, HeldIsOutstanding
<1> QED
  BY <1>1, <1>2, <1>3, PTL DEF Spec

=============================================================================
