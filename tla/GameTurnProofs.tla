--------------------------- MODULE GameTurnProofs ---------------------------
(***************************************************************************)
(* What GameTurn guarantees for any number of requests and ticks.  That no *)
(* committed turn is overwritten rests on CopyFresh: a copy that has the   *)
(* version of the row has the state of the row.  The rest is told of one   *)
(* request at a time, as long as none outlives its lock.                   *)
(***************************************************************************)
EXTENDS GameTurn, TLAPS, SequenceTheorems, FiniteSetTheorems

-----------------------------------------------------------------------------
(* The row.                                                                *)

\* The columns an ORM flush writes keep their types.
LEMMA FlushedType ==
    ASSUME row \in Row, NEW r \in Requests, mine[r] \in Row, NEW new \in Row
    PROVE  Flushed(r, new) \in Row
BY DEF Flushed, Row

\* A flush that changes neither state nor version in the copy leaves the row's alone.
LEMMA FlushedKeeps ==
    ASSUME row \in Row, NEW r \in Requests, mine[r] \in Row, NEW new \in Row,
           new.state = mine[r].state, new.version = mine[r].version
    PROVE  Flushed(r, new).state = row.state /\ Flushed(r, new).version = row.version
BY DEF Flushed, Row

\* A save stores what it is given, under the next version, when the versions agree.
LEMMA SaveEffect ==
    ASSUME row \in Row, mine \in [Requests -> Row], NEW r \in Requests, NEW new \in Row,
           Save(r, new)
    PROVE  /\ row' \in Row /\ mine' \in [Requests -> Row]
           /\ row.version = mine[r].version
           /\ row'.version = row.version + 1
           /\ row'.state = new.state
           /\ mine' = [mine EXCEPT ![r] = row']
BY DEF Save, Row

\* The updates the handlers make keep the row's type.
LEMMA RowUpdates ==
    ASSUME NEW base \in Row, NEW state \in Contents, NEW n \in Nat, NEW r \in Requests
    PROVE  /\ [base EXCEPT !.state = state] \in Row
           /\ [base EXCEPT !.state = state, !.retries = n] \in Row
           /\ [base EXCEPT !.state = state, !.rounds = n] \in Row
           /\ [base EXCEPT !.snapshot = state, !.last = r, !.retries = 0] \in Row
           /\ \A status \in {"playing", "paused", "ended"} : [base EXCEPT !.status = status] \in Row
BY DEF Row

\* What turns and follow-ups add to the state keeps its type.
LEMMA StateUpdates ==
    ASSUME NEW state \in Contents, NEW more \in SUBSET Requests, NEW r \in Requests
    PROVE  /\ [state EXCEPT !.turns = @ \cup {r}, !.boards = @ \cup more] \in Contents
           /\ [state EXCEPT !.boards = more] \in Contents
BY DEF Contents

\* The row after the opening turn is well typed.
LEMMA OpenedType == Opened \in Row
BY ConstantsAssumption DEF Opened, Row, Empty, Contents

\* Deleting the last messages leaves a sequence of messages.
LEMMA ButLastType ==
    ASSUME NEW S, NEW seq \in Seq(S), NEW n \in Nat, Len(seq) >= n
    PROVE  ButLast(n, seq) \in Seq(S)
<1>1. Len(seq) \in Nat
  BY LenProperties
<1>2. \A i \in 1 .. Len(seq) - n : seq[i] \in S
  BY <1>1, ElementOfSeq
<1> QED
  BY <1>1, <1>2, SubSeqProperties DEF ButLast

\* What is left is what was there.
LEMMA ButLastKeeps ==
    ASSUME NEW S, NEW seq \in Seq(S), NEW n \in Nat, Len(seq) >= n
    PROVE  /\ Len(ButLast(n, seq)) = Len(seq) - n
           /\ \A i \in 1 .. Len(seq) - n : ButLast(n, seq)[i] = seq[i]
<1>1. Len(seq) \in Nat
  BY LenProperties
<1>2. \A i \in 1 .. Len(seq) - n : seq[i] \in S
  BY <1>1, ElementOfSeq
<1>3. /\ Len(ButLast(n, seq)) = IF 1 <= Len(seq) - n THEN Len(seq) - n - 1 + 1 ELSE 0
      /\ \A i \in 1 .. Len(seq) - n - 1 + 1 : ButLast(n, seq)[i] = seq[1 + i - 1]
  <2> DEFINE m == Len(seq) - n
  <2>1. m \in Int /\ \A i \in 1 .. m : seq[i] \in S
    BY <1>1, <1>2
  <2>2. ButLast(n, seq) = SubSeq(seq, 1, m)
    BY DEF ButLast
  <2> HIDE DEF m
  <2>3. /\ Len(SubSeq(seq, 1, m)) = IF 1 <= m THEN m - 1 + 1 ELSE 0
        /\ \A i \in 1 .. m - 1 + 1 : SubSeq(seq, 1, m)[i] = seq[1 + i - 1]
    BY <2>1, SubSeqProperties
  <2> QED
    BY <2>2, <2>3 DEF m
<1> QED
  BY <1>1, <1>3

-----------------------------------------------------------------------------
(* Type correctness.                                                       *)

\* The initial state is well typed.
LEMMA InitType == Init => TypeOK
<1> SUFFICES ASSUME Init PROVE TypeOK
  OBVIOUS
<1>1. <<Opening>> \in Seq(Requests \cup {Opening})
  OBVIOUS
<1>2. NoDraft \in [boards : SUBSET Requests, round : Nat] /\ Empty \in Contents
  BY DEF NoDraft, Empty, Contents
<1> QED
  BY <1>1, <1>2, OpenedType, ConstantsAssumption DEF Init, TypeOK

\* Every step preserves the types.
LEMMA TypeStep == TypeOK /\ [Next]_vars => TypeOK'
<1> SUFFICES ASSUME TypeOK, [Next]_vars PROVE TypeOK'
  OBVIOUS
<1> USE DEF TypeOK
<1>f. ASSUME NEW r \in Requests
      PROVE  /\ mine[r] \in Row /\ mine[r].state \in Contents /\ mine[r].snapshot \in Contents
             /\ mine[r].retries + 1 \in Nat
  BY DEF Row
<1>m. row.state \in Contents /\ mine \in [Requests -> Row]
  BY DEF Row
<1>d. Opened \in Row /\ NoDraft \in [boards : SUBSET Requests, round : Nat] /\ Empty \in Contents
  BY OpenedType DEF NoDraft, Empty, Contents
<1>1. ASSUME NEW r \in Requests, NEW k \in Kinds, Acquire(r, k) PROVE TypeOK'
  BY <1>1, ConstantsAssumption DEF Acquire, Goto, Critical, lockVars, tickVars
<1>2. ASSUME NEW r \in Requests, NEW k \in Kinds, Visit(r, k) PROVE TypeOK'
  <2>1. kind' \in [Requests -> Kinds \cup {"none"}]
    BY <1>2 DEF Visit
  <2>2. CASE k = "abandon" /\ row.status = "ended"
    BY <1>2, <2>1, <2>2 DEF Visit, Goto, SameLock, lockVars, tickVars
  <2>3. CASE ~(k = "abandon" /\ row.status = "ended")
    <3>1. /\ Goto(r, "change") /\ mine' = [mine EXCEPT ![r] = row]
          /\ UNCHANGED <<row, messages, history, text, draft>> /\ SameLock
      BY <1>2, <2>3 DEF Visit
    <3> QED
      BY <2>1, <3>1 DEF Goto, SameLock, lockVars, tickVars
  <2> QED
    BY <2>2, <2>3
<1>3. ASSUME NEW r \in Requests, Refused(r) PROVE TypeOK'
  BY <1>3 DEF Refused, Goto, SameLock, lockVars, tickVars
<1>4. ASSUME NEW r \in Requests, Die(r) \/ Release(r) PROVE TypeOK'
  <2>1. CASE Die(r)
    BY <2>1, <1>d DEF Die, Goto, Forget, SameLock, lockVars, tickVars, Critical
  <2>2. CASE Release(r)
    BY <2>2, <1>d DEF Release, Goto, Forget, lockVars, tickVars, Critical
  <2> QED
    BY <1>4, <2>1, <2>2
<1>5. ASSUME NEW r \in Requests, Raise(r) \/ Capped(r) \/ Stale(r) \/ Narrate(r) PROVE TypeOK'
  <2>1. CASE Narrate(r)
    BY <2>1 DEF Narrate, Goto, SameLock, lockVars, tickVars, Critical
  <2>2. CASE Raise(r) \/ Capped(r) \/ Stale(r)
    <3>1. Goto(r, "release") /\ Forget(r) /\ UNCHANGED <<row, messages, history, kind, text>> /\ SameLock
      BY <2>2 DEF Raise, Capped, Stale
    <3> QED
      BY <3>1, <1>d DEF Goto, Forget, SameLock, lockVars, tickVars, Critical
  <2> QED
    BY <1>5, <2>1, <2>2
<1>6. ASSUME NEW r \in Requests, Load(r) \/ FollowRefresh(r) PROVE TypeOK'
  <2>1. FirstStep(kind[r]) \in Critical
    BY DEF FirstStep, Critical
  <2>2. CASE Load(r)
    BY <2>1, <2>2 DEF Load, Goto, SameLock, lockVars, tickVars, Critical
  <2>3. CASE FollowRefresh(r)
    BY <2>3 DEF FollowRefresh, Goto, SameLock, lockVars, tickVars, Critical
  <2> QED
    BY <1>6, <2>2, <2>3
<1>7. ASSUME NEW r \in Requests, BeginAction(r) PROVE TypeOK'
  <2> DEFINE new == [mine[r] EXCEPT !.snapshot = mine[r].state, !.last = r, !.retries = 0]
  <2>1. new \in Row
    BY <1>f, RowUpdates
  <2>2. row' \in Row
    BY <1>7, <2>1, <1>f, FlushedType DEF BeginAction, Flush
  <2>3. mine' \in [Requests -> Row] /\ text' \in [Requests -> Requests \cup {NoRequest}]
    BY <1>7, <2>1 DEF BeginAction, Flush
  <2>4. Goto(r, "think") /\ UNCHANGED <<messages, history, kind, draft>> /\ SameLock
    BY <1>7 DEF BeginAction
  <2> QED
    BY <2>2, <2>3, <2>4 DEF Goto, SameLock, lockVars, tickVars, Critical
<1>8. ASSUME NEW r \in Requests, Restore(r) PROVE TypeOK'
  <2> DEFINE new == [row EXCEPT !.state = mine[r].snapshot, !.retries = mine[r].retries + 1]
  <2>1. new \in Row
    BY <1>f, RowUpdates
  <2>2. row' \in Row /\ mine' \in [Requests -> Row]
    BY <1>8, <2>1, <1>m, SaveEffect DEF Restore
  <2>3. messages' \in Seq(Requests \cup {Opening})
    <3>1. messages' = IF Len(messages) < 2 THEN <<>> ELSE ButLast(2, messages)
      BY <1>8 DEF Restore
    <3>2. Len(messages) \in Nat /\ <<>> \in Seq(Requests \cup {Opening})
      BY LenProperties
    <3> QED
      BY <3>1, <3>2, ButLastType
  <2>4. history' \subseteq history
    BY <1>8 DEF Restore
  <2>5. text' \in [Requests -> Requests \cup {NoRequest}]
    <3>1. row.last \in Requests \cup {NoRequest}
      BY DEF Row
    <3>2. text' = [text EXCEPT ![r] = row.last]
      BY <1>8 DEF Restore
    <3> QED
      BY <3>1, <3>2
  <2>6. \E place \in {"think", "release"} : Goto(r, place)
    BY <1>8 DEF Restore
  <2>7. UNCHANGED <<kind, draft>> /\ SameLock
    BY <1>8 DEF Restore
  <2> QED
    BY <2>2, <2>3, <2>4, <2>5, <2>6, <2>7 DEF Goto, SameLock, lockVars, tickVars, Critical
<1>9. ASSUME NEW r \in Requests, ResumeGame(r) \/ Quit(r) \/ Aftermath(r) PROVE TypeOK'
  <2>1. [mine[r] EXCEPT !.status = "playing"] \in Row /\ [mine[r] EXCEPT !.status = "ended"] \in Row
    BY <1>f, <1>m, RowUpdates
  <2>2. row' \in Row /\ mine' \in [Requests -> Row]
    <3>1. ASSUME NEW new \in Row, Flush(r, new) PROVE row' \in Row /\ mine' \in [Requests -> Row]
      BY <3>1, <1>f, FlushedType DEF Flush
    <3> QED
      BY <1>9, <2>1, <3>1 DEF ResumeGame, Quit, Aftermath
  <2>3. UNCHANGED <<messages, history, lock, outlived, kind, text, draft, tview, overtaken>>
    BY <1>9 DEF ResumeGame, Quit, Aftermath, SameLock, lockVars, tickVars
  <2>4. \E place \in {"think", "quit_save", "done_event"} : Goto(r, place)
    BY <1>9 DEF ResumeGame, Quit, Aftermath
  <2>5. tpc' = tpc \/ \E tick \in {"none", "thinking"} : tpc' = [tpc EXCEPT ![r] = tick]
    BY <1>9 DEF ResumeGame, Quit, Aftermath, SameLock, lockVars, tickVars
  <2>6. pc' \in [Requests -> Critical \cup {"idle", "change", "done"}]
    BY <2>4 DEF Goto, Critical
  <2>7. tpc' \in [Requests -> {"none", "thinking", "read", "done"}]
    BY <2>5
  <2> QED
    BY <2>2, <2>3, <2>6, <2>7
<1>10. ASSUME NEW r \in Requests, CommitTurn(r) PROVE TypeOK'
  <2>1. RoundAfter(r) \in Nat /\ mine[r].state.boards \subseteq Requests
    BY <1>f DEF RoundAfter, Row, Contents
  <2>2. PICK operations \in SUBSET {r} :
          /\ Save(r, [row EXCEPT
                !.state = [mine[r].state EXCEPT !.turns = @ \cup {r}, !.boards = @ \cup operations],
                !.rounds = RoundAfter(r)])
          /\ history' = history \cup [turn : operations, round : {RoundAfter(r)}]
    BY <1>10 DEF CommitTurn
  <2>3. [mine[r].state EXCEPT !.turns = @ \cup {r}, !.boards = @ \cup operations] \in Contents
    BY <1>f, StateUpdates
  <2>4. [row EXCEPT
                !.state = [mine[r].state EXCEPT !.turns = @ \cup {r}, !.boards = @ \cup operations],
                !.rounds = RoundAfter(r)] \in Row
    BY <2>1, <2>3, RowUpdates
  <2>5. row' \in Row /\ mine' \in [Requests -> Row]
    BY <2>2, <2>4, <1>m, SaveEffect
  <2>6. history' \subseteq [turn : Requests, round : Nat]
    BY <2>1, <2>2
  <2>7. /\ draft' = [draft EXCEPT ![r] = [boards |-> mine[r].state.boards, round |-> RoundAfter(r)]]
        /\ Goto(r, "committed")
        /\ UNCHANGED <<messages, kind, text>> /\ SameLock
    BY <1>10 DEF CommitTurn
  <2> QED
    BY <2>1, <2>5, <2>6, <2>7 DEF Goto, SameLock, lockVars, tickVars, Critical
<1>11. ASSUME NEW r \in Requests, Done(r) PROVE TypeOK'
  <2>1. messages' \in Seq(Requests \cup {Opening})
    <3>1. <<>> \in Seq(Requests \cup {Opening}) /\ <<r, r>> \in Seq(Requests \cup {Opening})
      OBVIOUS
    <3> QED
      BY <3>1, <1>11, ConcatProperties DEF Done
  <2>2. \E place \in {"release", "follow"} : Goto(r, place)
    BY <1>11 DEF Done
  <2>3. UNCHANGED <<row, history, kind, mine, text, draft>> /\ SameLock
    BY <1>11 DEF Done
  <2> QED
    BY <2>1, <2>2, <2>3 DEF Goto, SameLock, lockVars, tickVars, Critical
<1>12. ASSUME NEW r \in Requests, FollowCommit(r) PROVE TypeOK'
  <2>1. [mine[r].state EXCEPT !.boards = draft[r].boards \cup {r}] \in Contents
    <3>1. draft[r].boards \cup {r} \in SUBSET Requests
      OBVIOUS
    <3> QED
      BY <3>1, <1>f, StateUpdates
  <2>2. [row EXCEPT !.state = [mine[r].state EXCEPT !.boards = draft[r].boards \cup {r}]] \in Row
    BY <2>1, <1>m, RowUpdates
  <2>3. row' \in Row /\ mine' \in [Requests -> Row]
    BY <1>12, <2>2, <1>m, SaveEffect DEF FollowCommit
  <2>4. /\ history' = history \cup {[turn |-> r, round |-> draft[r].round]}
        /\ Goto(r, "release")
        /\ UNCHANGED <<messages, kind, text, draft>> /\ SameLock
    BY <1>12 DEF FollowCommit
  <2> QED
    BY <2>3, <2>4 DEF Goto, SameLock, lockVars, tickVars, Critical
<1>13. ASSUME NEW r \in Requests, QuitSave(r) PROVE TypeOK'
  <2>1. [row EXCEPT !.state = mine[r].state] \in Row
    BY <1>f, RowUpdates
  <2>2. row' \in Row /\ mine' \in [Requests -> Row]
    BY <1>13, <2>1, <1>m, SaveEffect DEF QuitSave
  <2>3. messages' \in Seq(Requests \cup {Opening})
    <3>1. <<>> \in Seq(Requests \cup {Opening}) /\ <<r, r>> \in Seq(Requests \cup {Opening})
      OBVIOUS
    <3> QED
      BY <3>1, <1>13, ConcatProperties DEF QuitSave
  <2>4. Goto(r, "release") /\ UNCHANGED <<history, kind, text, draft>> /\ SameLock
    BY <1>13 DEF QuitSave
  <2> QED
    BY <2>2, <2>3, <2>4 DEF Goto, SameLock, lockVars, tickVars, Critical
<1>14. ASSUME NEW r \in Requests, ChangeStatus(r) PROVE TypeOK'
  <2>1. [mine[r] EXCEPT !.status = IF kind[r] = "pause" THEN "paused" ELSE "ended"] \in Row
    BY <1>f, <1>m, RowUpdates
  <2>2. row' \in Row
    BY <1>14, <2>1, <1>f, FlushedType DEF ChangeStatus
  <2>3. Goto(r, "done") /\ Forget(r) /\ UNCHANGED <<messages, history, kind, text>> /\ SameLock
    BY <1>14 DEF ChangeStatus
  <2> QED
    BY <2>2, <2>3, <1>d DEF Forget, Goto, SameLock, lockVars, tickVars
<1>15. ASSUME NEW r \in Requests, TickRead(r) \/ TickFail(r) PROVE TypeOK'
  <2>1. CASE TickRead(r)
    BY <2>1, <1>m DEF TickRead, requestVars, lockVars
  <2>2. CASE TickFail(r)
    BY <2>2, <1>d DEF TickFail, requestVars, lockVars
  <2> QED
    BY <1>15, <2>1, <2>2
<1>16. ASSUME NEW r \in Requests, TickWrite(r) PROVE TypeOK'
  <2>1. row' \in Row
    BY <1>16, <1>m, RowUpdates DEF TickWrite
  <2>2. /\ tpc' = [tpc EXCEPT ![r] = "done"] /\ tview' = [tview EXCEPT ![r] = Empty]
        /\ overtaken' \in BOOLEAN
        /\ UNCHANGED <<messages, history, lockVars, requestVars>>
    BY <1>16 DEF TickWrite
  <2> QED
    BY <2>1, <2>2, <1>d DEF requestVars, lockVars
<1>17. CASE Expire
  BY <1>17 DEF Expire, requestVars, lockVars, tickVars
<1>18. CASE UNCHANGED vars
  BY <1>18 DEF vars, requestVars, lockVars, tickVars
<1> QED
  BY <1>1, <1>2, <1>3, <1>4, <1>5, <1>6, <1>7, <1>8, <1>9, <1>10, <1>11, <1>12, <1>13,
     <1>14, <1>15, <1>16, <1>17, <1>18 DEF Next, Handler

\* Every reachable state is well typed, for any set of requests.
THEOREM TypeCorrect == Spec => []TypeOK
BY InitType, TypeStep, PTL DEF Spec

-----------------------------------------------------------------------------
(* Serialization.                                                          *)

\* A request inside its critical section still owns the lock.
LockOwned == \A r \in Requests : pc[r] \in Critical => lock = r

\* Until a request outlives its lock, whoever is between acquisition and release holds it.
LEMMA LockStep ==
    ASSUME TypeOK, LockOwned, [Next]_vars, ~outlived'
    PROVE  LockOwned'
<1> USE DEF TypeOK, LockOwned
<1>1. ASSUME NEW r \in Requests, NEW k \in Kinds, Acquire(r, k) PROVE LockOwned'
  BY <1>1, ConstantsAssumption DEF Acquire, Goto
<1>2. ASSUME NEW r \in Requests, NEW place, Goto(r, place), UNCHANGED lock,
             place \in Critical => pc[r] \in Critical
      PROVE  LockOwned'
  BY <1>2 DEF Goto
<1>3. ASSUME NEW r \in Requests, Release(r) PROVE LockOwned'
  <2>1. \A q \in Requests : pc[q] \in Critical => q = r
    BY <1>3 DEF Release, Critical
  <2> QED
    BY <1>3, <2>1 DEF Release, Goto, Critical
<1>4. ASSUME NEW r \in Requests, Handler(r) PROVE LockOwned'
  <2>1. CASE Release(r)
    BY <2>1, <1>3
  <2>2. CASE Load(r)
    <3>1. FirstStep(kind[r]) \in Critical
      BY DEF FirstStep, Critical
    <3>2. \E place \in Critical : Goto(r, place)
      BY <2>2, <3>1 DEF Load, Critical
    <3>3. UNCHANGED lock /\ pc[r] \in Critical
      BY <2>2 DEF Load, SameLock, lockVars, Critical
    <3> QED
      BY <3>2, <3>3, <1>2
  <2>3. CASE ~Release(r) /\ ~Load(r)
    <3>1. \E place \in Critical : Goto(r, place)
      BY <1>4, <2>3 DEF Handler, Capped, BeginAction, Restore, ResumeGame, Narrate, CommitTurn,
         Stale, Aftermath, Done, FollowRefresh, FollowCommit, Quit, QuitSave, Raise, Critical
    <3>2. UNCHANGED lock /\ pc[r] \in Critical
      BY <1>4, <2>3 DEF Handler, Capped, BeginAction, Restore, ResumeGame, Narrate, CommitTurn,
         Stale, Aftermath, Done, FollowRefresh, FollowCommit, Quit, QuitSave, Raise, SameLock, lockVars, Critical
    <3> QED
      BY <3>1, <3>2, <1>2
  <2> QED
    BY <2>1, <2>2, <2>3
<1>5. ASSUME NEW r \in Requests, Refused(r) \/ Die(r) \/ ChangeStatus(r) PROVE LockOwned'
  <2>1. Goto(r, "done")
    BY <1>5 DEF Refused, Die, ChangeStatus
  <2>2. UNCHANGED lock
    BY <1>5 DEF Refused, Die, ChangeStatus, SameLock, lockVars
  <2> QED
    BY <2>1, <2>2 DEF Goto, Critical
<1>6. ASSUME NEW r \in Requests, NEW k \in Kinds, Visit(r, k) PROVE LockOwned'
  <2>1. \E place \in {"done", "change"} : Goto(r, place)
    BY <1>6 DEF Visit
  <2>2. UNCHANGED lock
    BY <1>6 DEF Visit, SameLock, lockVars
  <2> QED
    BY <2>1, <2>2 DEF Goto, Critical
<1>7. ASSUME NEW r \in Requests, TickRead(r) \/ TickWrite(r) \/ TickFail(r) PROVE LockOwned'
  BY <1>7 DEF TickRead, TickWrite, TickFail, lockVars, requestVars
<1>8. CASE Expire
  BY <1>8 DEF Expire, requestVars
<1>9. CASE UNCHANGED vars
  BY <1>9 DEF vars, lockVars, requestVars
<1> QED
  BY <1>1, <1>4, <1>5, <1>6, <1>7, <1>8, <1>9 DEF Next

\* Neither history variable forgets.
LEMMA DisturbedForGood ==
    ASSUME TypeOK, [Next]_vars
    PROVE  (~outlived' => ~outlived) /\ (~overtaken' => ~overtaken)
<1> DEFINE Remembered == (outlived => outlived') /\ (overtaken => overtaken')
<1> SUFFICES Remembered
  OBVIOUS
<1> USE DEF TypeOK
<1>1. CASE \E r \in Requests, k \in Kinds : Acquire(r, k) \/ Visit(r, k)
  BY <1>1 DEF Acquire, Visit, SameLock, lockVars, tickVars
<1>2. ASSUME NEW r \in Requests, Handler(r)
      PROVE  Remembered
  BY <1>2 DEF Handler, Load, Capped, BeginAction, Restore, ResumeGame, Narrate, CommitTurn, Stale, Aftermath,
     Done, FollowRefresh, FollowCommit, Quit, QuitSave, Release, Raise, SameLock, lockVars, tickVars
<1>3. CASE \E r \in Requests : Refused(r) \/ Die(r) \/ ChangeStatus(r)
  BY <1>3 DEF Refused, Die, ChangeStatus, SameLock, lockVars, tickVars
<1>4. CASE \E r \in Requests : TickRead(r) \/ TickWrite(r) \/ TickFail(r)
  BY <1>4 DEF TickRead, TickWrite, TickFail, lockVars
<1>5. CASE Expire \/ UNCHANGED vars
  BY <1>5 DEF Expire, vars, lockVars, tickVars
<1> QED
  BY <1>1, <1>2, <1>3, <1>4, <1>5 DEF Next

-----------------------------------------------------------------------------
(* Optimistic concurrency.                                                 *)

\* As long as no tick overtakes a turn, a write that changes the state moves the
\* version, so a copy that has the version of the row has its state too.
CopyFresh ==
    /\ row.version >= 1
    /\ row.version = 1 => row.state = Empty
    /\ \A r \in Requests :
         /\ mine[r].version <= row.version
         /\ mine[r].version = row.version => mine[r].state = row.state

\* A step that leaves state and version alone; a copy is kept, loaded or dropped.
Kept ==
    /\ row'.version = row.version /\ row'.state = row.state
    /\ \A r \in Requests :
         \/ mine'[r].version = mine[r].version /\ mine'[r].state = mine[r].state
         \/ mine'[r] = row
         \/ mine'[r] = Opened

\* A step that saves the state request r made of its copy.
SavedBy(r) ==
    /\ row.version = mine[r].version
    /\ row'.version = row.version + 1
    /\ mine' = [mine EXCEPT ![r] = row']
    /\ \/ mine[r].state.turns \subseteq row'.state.turns
       \/ pc[r] = "restore" /\ row'.state = mine[r].snapshot

\* Every request starts from a copy of the initial row.
LEMMA InitCopies == Init => CopyFresh
BY DEF Init, CopyFresh, Opened

\* Both kinds of steps keep the copies fresh.
LEMMA CopiesKept ==
    ASSUME TypeOK, TypeOK', CopyFresh, Kept \/ \E r \in Requests : SavedBy(r)
    PROVE  CopyFresh'
<1> USE DEF CopyFresh
<1>1. row.version \in Nat /\ row'.version \in Nat /\ \A r \in Requests : mine[r].version \in Nat
  BY DEF TypeOK, Row
<1>2. CASE Kept
  BY <1>1, <1>2 DEF Kept, Opened
<1>3. ASSUME NEW r \in Requests, SavedBy(r) PROVE CopyFresh'
  <2>1. row'.version = row.version + 1
    BY <1>3 DEF SavedBy
  <2>2. ASSUME NEW q \in Requests
        PROVE  /\ mine'[q].version <= row'.version
               /\ mine'[q].version = row'.version => mine'[q].state = row'.state
    <3>1. CASE q = r
      BY <1>1, <1>3, <3>1 DEF SavedBy, TypeOK
    <3>2. CASE q # r
      <4>1. mine'[q] = mine[q]
        BY <1>3, <3>2 DEF SavedBy, TypeOK
      <4>2. mine[q].version <= row.version
        BY Zenon DEF CopyFresh
      <4>3. mine[q].version \in Nat /\ row.version \in Nat
        BY <1>1
      <4> QED
        BY <4>1, <2>1, <4>2, <4>3
    <3> QED
      BY <3>1, <3>2
  <2> QED
    BY <1>1, <2>1, <2>2
<1> QED
  BY <1>2, <1>3

\* A flush of columns other than the state is a Kept step.
LEMMA FlushKept ==
    ASSUME TypeOK, NEW r \in Requests, NEW new \in Row, Flush(r, new),
           new.state = mine[r].state, new.version = mine[r].version
    PROVE  Kept
<1>1. mine[r] \in Row /\ row \in Row
  BY DEF TypeOK
<1>2. row'.state = row.state /\ row'.version = row.version
  BY <1>1, FlushedKeeps DEF Flush
<1>3. mine' = [mine EXCEPT ![r] = new]
  BY DEF Flush
<1> QED
  BY <1>2, <1>3 DEF Kept, TypeOK

\* Unless a tick overtakes a turn, every step is of one of the two kinds.
LEMMA StepKinds ==
    ASSUME TypeOK, [Next]_vars, ~overtaken'
    PROVE  Kept \/ \E r \in Requests : SavedBy(r)
<1> USE DEF TypeOK
<1>f. ASSUME NEW r \in Requests
      PROVE  /\ mine[r] \in Row /\ mine[r].state \in Contents /\ mine[r].snapshot \in Contents
             /\ mine[r].retries + 1 \in Nat
  BY DEF Row
<1>m. row \in Row /\ row.state \in Contents /\ mine \in [Requests -> Row]
  BY DEF Row
<1>1. ASSUME UNCHANGED <<row, mine>> PROVE Kept
  BY <1>1 DEF Kept
<1>2. ASSUME NEW r \in Requests, mine' = [mine EXCEPT ![r] = row], UNCHANGED row PROVE Kept
  BY <1>2 DEF Kept
<1>3. ASSUME NEW r \in Requests, mine' = [mine EXCEPT ![r] = Opened],
             row'.state = row.state, row'.version = row.version
      PROVE  Kept
  BY <1>3 DEF Kept
<1>4. ASSUME NEW r \in Requests, NEW new \in Row, Save(r, new),
             \/ mine[r].state.turns \subseteq new.state.turns
             \/ pc[r] = "restore" /\ new.state = mine[r].snapshot
      PROVE  SavedBy(r)
  BY <1>4, <1>m, SaveEffect DEF SavedBy
<1>5. ASSUME NEW r \in Requests, NEW k \in Kinds, Acquire(r, k) PROVE Kept
  BY <1>5, <1>1 DEF Acquire, lockVars, tickVars
<1>6. ASSUME NEW r \in Requests, NEW k \in Kinds, Visit(r, k) PROVE Kept
  BY <1>6, <1>1, <1>2 DEF Visit, SameLock, lockVars, tickVars
<1>7. ASSUME NEW r \in Requests, Refused(r) \/ Narrate(r) \/ Done(r) PROVE Kept
  BY <1>7, <1>1 DEF Refused, Narrate, Done, SameLock, lockVars, tickVars
<1>8. ASSUME NEW r \in Requests, Capped(r) \/ Stale(r) \/ Raise(r) \/ Release(r) \/ Die(r) PROVE Kept
  BY <1>8, <1>3 DEF Capped, Stale, Raise, Release, Die, Forget, SameLock, lockVars, tickVars
<1>9. ASSUME NEW r \in Requests, Load(r) \/ FollowRefresh(r) PROVE Kept
  BY <1>9, <1>2 DEF Load, FollowRefresh, SameLock, lockVars, tickVars
<1>10. ASSUME NEW r \in Requests, BeginAction(r) PROVE Kept
  <2> DEFINE new == [mine[r] EXCEPT !.snapshot = mine[r].state, !.last = r, !.retries = 0]
  <2>1. new \in Row
    BY <1>f, RowUpdates
  <2>2. new.state = mine[r].state /\ new.version = mine[r].version
    BY <1>f DEF Row
  <2>3. Flush(r, new)
    BY <1>10 DEF BeginAction, SameLock, lockVars, tickVars
  <2> QED
    BY <2>1, <2>2, <2>3, FlushKept
<1>11. ASSUME NEW r \in Requests, ResumeGame(r) \/ Quit(r) \/ Aftermath(r) PROVE Kept
  <2>1. ASSUME NEW status \in {"playing", "paused", "ended"}, Flush(r, [mine[r] EXCEPT !.status = status])
        PROVE  Kept
    <3>1. [mine[r] EXCEPT !.status = status] \in Row
      BY <1>f, <1>m, RowUpdates
    <3>2. /\ [mine[r] EXCEPT !.status = status].state = mine[r].state
          /\ [mine[r] EXCEPT !.status = status].version = mine[r].version
      BY <1>f DEF Row
    <3> QED
      BY <2>1, <3>1, <3>2, FlushKept
  <2>2. CASE ResumeGame(r) \/ Quit(r)
    BY <2>1, <2>2 DEF ResumeGame, Quit, SameLock, lockVars, tickVars
  <2>3. CASE Aftermath(r)
    BY <2>1, <2>3, <1>1 DEF Aftermath
  <2> QED
    BY <1>11, <2>2, <2>3
<1>12. ASSUME NEW r \in Requests, ChangeStatus(r) PROVE Kept
  <2> DEFINE new == [mine[r] EXCEPT !.status = IF kind[r] = "pause" THEN "paused" ELSE "ended"]
  <2>1. new \in Row
    BY <1>f, <1>m, RowUpdates
  <2>2. new.state = mine[r].state /\ new.version = mine[r].version
    BY <1>f DEF Row
  <2>3. row' = Flushed(r, new) /\ Forget(r)
    BY <1>12 DEF ChangeStatus, SameLock, lockVars, tickVars
  <2>4. row'.state = row.state /\ row'.version = row.version
    BY <2>1, <2>2, <2>3, <1>f, <1>m, FlushedKeeps
  <2> QED
    BY <2>3, <2>4, <1>3 DEF Forget
<1>13. ASSUME NEW r \in Requests, Restore(r) PROVE SavedBy(r)
  <2> DEFINE new == [row EXCEPT !.state = mine[r].snapshot, !.retries = mine[r].retries + 1]
  <2>1. new \in Row
    BY <1>f, RowUpdates
  <2>2. new.state = mine[r].snapshot
    BY <1>m DEF Row
  <2>3. Save(r, new) /\ pc[r] = "restore"
    BY <1>13 DEF Restore, SameLock, lockVars, tickVars
  <2> QED
    BY <2>1, <2>2, <2>3, <1>4
<1>14. ASSUME NEW r \in Requests, CommitTurn(r) PROVE SavedBy(r)
  <2>1. PICK operations \in SUBSET {r} :
          Save(r, [row EXCEPT
                !.state = [mine[r].state EXCEPT !.turns = @ \cup {r}, !.boards = @ \cup operations],
                !.rounds = RoundAfter(r)])
    BY <1>14 DEF CommitTurn
  <2> DEFINE state == [mine[r].state EXCEPT !.turns = @ \cup {r}, !.boards = @ \cup operations]
             new == [row EXCEPT !.state = state, !.rounds = RoundAfter(r)]
  <2>2. state \in Contents /\ RoundAfter(r) \in Nat
    <3>1. operations \in SUBSET Requests
      OBVIOUS
    <3>2. RoundAfter(r) \in Nat
      BY <1>f DEF RoundAfter, Row
    <3> QED
      BY <3>1, <3>2, <1>f, StateUpdates
  <2>3. mine[r].state.turns \subseteq state.turns
    BY <1>f DEF Contents
  <2>4. new \in Row
    BY <2>2, RowUpdates
  <2>5. new.state = state
    BY <1>m DEF Row
  <2> QED
    BY <2>1, <2>3, <2>4, <2>5, <1>4
<1>15. ASSUME NEW r \in Requests, FollowCommit(r) PROVE SavedBy(r)
  <2> DEFINE state == [mine[r].state EXCEPT !.boards = draft[r].boards \cup {r}]
             new == [row EXCEPT !.state = state]
  <2>1. draft[r].boards \cup {r} \in SUBSET Requests
    OBVIOUS
  <2>2. state \in Contents
    BY <2>1, <1>f, StateUpdates
  <2>3. mine[r].state.turns \subseteq state.turns
    BY <1>f DEF Contents
  <2>4. new \in Row
    BY <2>2, RowUpdates
  <2>5. new.state = state
    BY <1>m DEF Row
  <2>6. Save(r, new)
    BY <1>15 DEF FollowCommit, SameLock, lockVars, tickVars
  <2> QED
    BY <2>3, <2>4, <2>5, <2>6, <1>4
<1>16. ASSUME NEW r \in Requests, QuitSave(r) PROVE SavedBy(r)
  <2> DEFINE new == [row EXCEPT !.state = mine[r].state]
  <2>1. new \in Row
    BY <1>f, RowUpdates
  <2>2. new.state = mine[r].state
    BY <1>m DEF Row
  <2>3. Save(r, new)
    BY <1>16 DEF QuitSave, SameLock, lockVars, tickVars
  <2> QED
    BY <2>1, <2>2, <2>3, <1>4
<1>17. ASSUME NEW r \in Requests, TickRead(r) \/ TickWrite(r) \/ TickFail(r) PROVE Kept
  <2>1. CASE TickWrite(r)
    <3>1. tview[r] = row.state
      BY <2>1 DEF TickWrite
    <3>2. row' = row
      BY <2>1, <3>1 DEF TickWrite, Row
    <3> QED
      BY <2>1, <3>2, <1>1 DEF TickWrite, requestVars
  <2>2. CASE TickRead(r) \/ TickFail(r)
    BY <2>2, <1>1 DEF TickRead, TickFail, requestVars
  <2> QED
    BY <1>17, <2>1, <2>2
<1>18. CASE Expire \/ UNCHANGED vars
  BY <1>18, <1>1 DEF Expire, vars, requestVars, lockVars, tickVars
<1> QED
  BY <1>5, <1>6, <1>7, <1>8, <1>9, <1>10, <1>11, <1>12, <1>13, <1>14, <1>15, <1>16, <1>17, <1>18
  DEF Next, Handler

\* No committed turn is overwritten, by any number of requests, even when they
\* outlive the session lock and work beside each other: the version check alone is
\* enough for that.  Off-stage ticks, which write the state without the check, may
\* run all the while; only one that overwrites a turn itself ends the promise.
THEOREM TurnsSurvive == Spec => NoLostTurn
<1> DEFINE Fresh == overtaken \/ CopyFresh
           Survives == ~overtaken' =>
             \/ row.state.turns \subseteq row'.state.turns
             \/ \E r \in Requests : pc[r] = "restore" /\ row'.state = mine[r].snapshot
<1>1. TypeOK /\ TypeOK' /\ Fresh /\ [Next]_vars => Fresh'
  BY StepKinds, CopiesKept, DisturbedForGood
<1>2. TypeOK /\ Fresh /\ [Next]_vars => Survives
  <2> SUFFICES ASSUME TypeOK, CopyFresh, [Next]_vars, ~overtaken'
               PROVE  \/ row.state.turns \subseteq row'.state.turns
                      \/ \E r \in Requests : pc[r] = "restore" /\ row'.state = mine[r].snapshot
    BY DisturbedForGood
  <2>1. CASE Kept
    BY <2>1 DEF Kept
  <2>2. ASSUME NEW r \in Requests, SavedBy(r)
        PROVE  \/ row.state.turns \subseteq row'.state.turns
               \/ pc[r] = "restore" /\ row'.state = mine[r].snapshot
    <3>1. row.version = mine[r].version
      BY <2>2 DEF SavedBy
    <3>2. mine[r].version = row.version => mine[r].state = row.state
      BY Zenon DEF CopyFresh
    <3> QED
      BY <2>2, <3>1, <3>2 DEF SavedBy
  <2> QED
    BY <2>1, <2>2, StepKinds
<1>3. Init => Fresh
  BY InitCopies
<1>4. Spec => [][Survives]_vars
  BY <1>1, <1>2, <1>3, TypeCorrect, PTL DEF Spec
<1> QED
  BY <1>4, PTL DEF NoLostTurn

-----------------------------------------------------------------------------
(* One request at a time.  Until a request outlives its lock or a tick     *)
(* overwrites a turn, whoever works on the session works on the row as it  *)
(* is: pauses, abandonments and ticks come between, and the first two      *)
(* change only the status, a tick nothing that is told here.  What a turn  *)
(* adds and a retry takes back can then be told.                           *)

\* Where a request has loaded the row under the lock and has not let go of it.
Working == Critical \ {"start", "release"}

\* Before the work proper, and before the turn is committed (a request that quits commits none).
Early == {"idle", "start", "begin", "restore", "resume"}
Uncommitted == Early \cup {"think", "streamed", "quit", "quit_save"}
Committed == {"committed", "done_event", "follow", "follow_save"}

\* Two rows agree in everything a turn and its retries depend on.
Same(a, b) ==
    /\ a.state = b.state /\ a.snapshot = b.snapshot
    /\ a.last = b.last /\ a.retries = b.retries

\* The copy of who works is the row.
OwnFresh == \A r \in Requests : pc[r] \in Working => Same(mine[r], row)

\* What a request does, and how far it is, fit.
Placed == \A r \in Requests :
    /\ pc[r] = "idle" => kind[r] = "none"
    /\ pc[r] \in Early => text[r] = NoRequest
    /\ pc[r] = "begin" => kind[r] = "action"
    /\ pc[r] = "restore" => kind[r] = "retry" /\ row.retries < MaxRetries
    /\ pc[r] = "resume" => kind[r] = "resume"
    /\ pc[r] \in {"think", "streamed"} => kind[r] = "resume" \/ text[r] = row.last

\* A turn is in the state from its commit on, and in the snapshot only when it is over.
TurnsPlaced == \A r \in Requests :
    /\ pc[r] \in Uncommitted => r \notin row.state.turns
    /\ pc[r] \in Working \cup {"idle", "start"} => r \notin row.snapshot.turns
    /\ pc[r] \in Committed => /\ r \in row.state.turns
                              /\ draft[r].boards \subseteq row.state.boards
                              /\ row.state.boards \subseteq draft[r].boards \cup {r}

\* The snapshot has the case boards of its turns.
SnapBoards == row.state.boards \cap row.snapshot.turns \subseteq row.snapshot.boards

\* What came after the snapshot are attempts at the last action, and recaps.
SinceSnapshot == \A t \in row.state.turns \ row.snapshot.turns : kind[t] = "resume" \/ text[t] = row.last

\* The first n messages belong to turns of S.
Tell(n, S) == \A i \in 1..n : messages[i] \in S \cup {Opening}

\* All messages but the last two are those of the snapshot; and so are these until the action since has its own.
MessagesPlaced ==
    (\A r \in Requests : kind[r] # "exit") =>
        /\ Tell(Len(messages), row.state.turns)
        /\ Tell(Len(messages) - 2, row.snapshot.turns)
        /\ \A r \in Requests :
              pc[r] \in {"think", "streamed", "committed", "done_event"} /\ kind[r] # "resume" =>
                  Tell(Len(messages), row.snapshot.turns)

\* The requests that have replayed the action a; as many as the row counts, if it is the last.
Replays(a) == {r \in Requests : kind[r] = "retry" /\ text[r] = a}

RetriesCounted ==
    /\ row.retries <= MaxRetries
    /\ \A a \in Requests :
         /\ IsFiniteSet(Replays(a))
         /\ Cardinality(Replays(a)) <= IF a = row.last THEN row.retries ELSE MaxRetries
         /\ pc[a] \in {"idle", "start", "begin"} => a # row.last /\ Replays(a) = {}

Books == OwnFresh /\ Placed /\ TurnsPlaced /\ SnapBoards /\ SinceSnapshot /\ RetriesCounted

OneByOne == LockOwned /\ Books /\ MessagesPlaced

\* Only r moves; what belongs to the others stays, and none of them is at work when r is.
Moves(r) ==
    \A q \in Requests \ {r} : /\ pc'[q] = pc[q] /\ kind'[q] = kind[q] /\ text'[q] = text[q]
                              /\ mine'[q] = mine[q] /\ draft'[q] = draft[q]

\* How a request goes on when that changes neither the state nor what is known of retries.
Goes(r) ==
    \/ /\ pc'[r] \in {"release", "done", "change"}
       /\ kind'[r] = kind[r] \/ pc[r] = "idle"
    \/ pc[r] = "idle" /\ pc'[r] = "start"
    \/ /\ kind'[r] = kind[r] /\ draft'[r] = draft[r] /\ Same(mine'[r], row')
       /\ \/ pc[r] = "start" /\ pc'[r] = FirstStep(kind[r]) /\ Admitted(kind[r], row)
          \/ <<pc[r], pc'[r]>> \in {<<"resume", "think">>, <<"think", "streamed">>, <<"committed", "done_event">>,
                                   <<"done_event", "follow">>, <<"follow", "follow_save">>, <<"quit", "quit_save">>}

Quiet(r) == Moves(r) /\ Goes(r) /\ Same(row', row) /\ text'[r] = text[r]

\* The first step of a request is that of its kind.
LEMMA FirstSteps ==
    ASSUME NEW k
    PROVE  /\ FirstStep(k) \in {"begin", "restore", "resume", "quit"}
           /\ FirstStep(k) = "begin" => k = "action"
           /\ FirstStep(k) = "restore" => k = "retry"
           /\ FirstStep(k) = "resume" => k = "resume"
BY DEF FirstStep

\* A quiet step keeps the books.
LEMMA QuietBooks ==
    ASSUME TypeOK, Books, NEW r \in Requests, Quiet(r)
    PROVE  Books'
<1> USE DEF Quiet, Moves, Same
<1>s. /\ row'.state = row.state /\ row'.snapshot = row.snapshot
      /\ row'.last = row.last /\ row'.retries = row.retries
  OBVIOUS
<1>t. \A q \in Requests : text'[q] = text[q]
  OBVIOUS
<1>k. \A q \in Requests : kind'[q] = kind[q] \/ pc[q] = "idle"
  BY DEF Goes
<1>1. OwnFresh'
  <2>1. pc'[r] \in Working => Same(mine'[r], row')
    BY DEF Goes, Working, Critical
  <2> QED
    BY <2>1 DEF Books, OwnFresh
<1>2. Placed'
  <2>1. ASSUME NEW q \in Requests \ {r}
        PROVE  /\ pc'[q] = "idle" => kind'[q] = "none"
               /\ pc'[q] \in Early => text'[q] = NoRequest
               /\ pc'[q] = "begin" => kind'[q] = "action"
               /\ pc'[q] = "restore" => kind'[q] = "retry" /\ row'.retries < MaxRetries
               /\ pc'[q] = "resume" => kind'[q] = "resume"
               /\ pc'[q] \in {"think", "streamed"} => kind'[q] = "resume" \/ text'[q] = row'.last
    BY <2>1 DEF Books, Placed
  <2>2. /\ pc'[r] # "idle"
        /\ pc'[r] \in Early => text'[r] = NoRequest
    BY FirstSteps DEF Books, Placed, Goes, Early
  <2>3. /\ pc'[r] = "begin" => kind'[r] = "action"
        /\ pc'[r] = "restore" => kind'[r] = "retry"
        /\ pc'[r] = "resume" => kind'[r] = "resume"
    BY FirstSteps DEF Goes
  <2>4. pc'[r] = "restore" => row'.retries < MaxRetries
    <3>1. pc'[r] = "restore" => kind[r] = "retry" /\ Admitted(kind[r], row)
      BY FirstSteps DEF Goes
    <3> QED
      BY <3>1 DEF Admitted
  <2>5. pc'[r] \in {"think", "streamed"} => kind'[r] = "resume" \/ text'[r] = row'.last
    BY FirstSteps DEF Books, Placed, Goes
  <2> QED
    BY <2>1, <2>2, <2>3, <2>4, <2>5 DEF Placed
<1>3. TurnsPlaced'
  <2>1. ASSUME NEW q \in Requests \ {r}
        PROVE  /\ pc'[q] \in Uncommitted => q \notin row'.state.turns
               /\ pc'[q] \in Working \cup {"idle", "start"} => q \notin row'.snapshot.turns
               /\ pc'[q] \in Committed => /\ q \in row'.state.turns
                                          /\ draft'[q].boards \subseteq row'.state.boards
                                          /\ row'.state.boards \subseteq draft'[q].boards \cup {q}
    BY <2>1 DEF Books, TurnsPlaced
  <2>2. /\ pc'[r] \in Uncommitted => pc[r] \in Uncommitted
        /\ pc'[r] \in Working \cup {"idle", "start"} => pc[r] \in Working \cup {"idle", "start"}
        /\ pc'[r] \in Committed => pc[r] \in Committed /\ draft'[r] = draft[r]
    BY FirstSteps DEF Goes, Uncommitted, Early, Working, Committed, Critical
  <2> QED
    BY <2>1, <2>2, <1>s DEF Books, TurnsPlaced
<1>4. SnapBoards'
  BY <1>s DEF Books, SnapBoards
<1>5. SinceSnapshot'
  <2>1. ASSUME NEW t \in row.state.turns \ row.snapshot.turns
        PROVE  kind'[t] = "resume" \/ text'[t] = row'.last
    <3>1. t \in Requests
      BY <2>1 DEF TypeOK, Row, Contents
    <3>2. pc[t] # "idle"
      BY <2>1, <3>1 DEF Books, TurnsPlaced, Uncommitted, Early
    <3> QED
      BY <2>1, <3>1, <3>2, <1>k, <1>t DEF Books, SinceSnapshot
  <2> QED
    BY <2>1, <1>s DEF SinceSnapshot
<1>6. RetriesCounted'
  <2>1. ASSUME NEW a \in Requests
        PROVE  Replays(a)' = Replays(a)
    <3>1. ASSUME NEW q \in Requests, pc[q] = "idle"
          PROVE  text[q] = NoRequest /\ text'[q] = NoRequest
      BY <3>1, <1>t DEF Books, Placed, Early
    <3>2. a # NoRequest
      BY ConstantsAssumption
    <3> QED
      BY <3>1, <3>2, <1>k, <1>t DEF Replays
  <2>2. ASSUME NEW a \in Requests, pc'[a] \in {"idle", "start", "begin"}
        PROVE  pc[a] \in {"idle", "start", "begin"}
    BY <2>2, FirstSteps DEF Goes
  <2> QED
    BY <2>1, <2>2, <1>s DEF Books, RetriesCounted
<1> QED
  BY <1>1, <1>2, <1>3, <1>4, <1>5, <1>6 DEF Books

\* A quiet step leaves the messages where they belong.
LEMMA QuietMessages ==
    ASSUME TypeOK, Books, MessagesPlaced, NEW r \in Requests, Quiet(r),
           messages' = messages \/ kind'[r] = "exit"
    PROVE  MessagesPlaced'
<1> SUFFICES ASSUME \A q \in Requests : kind'[q] # "exit"
             PROVE  /\ Tell(Len(messages), row.state.turns)'
                    /\ Tell(Len(messages) - 2, row.snapshot.turns)'
                    /\ \A q \in Requests :
                          pc'[q] \in {"think", "streamed", "committed", "done_event"} /\ kind'[q] # "resume" =>
                              Tell(Len(messages), row.snapshot.turns)'
  BY DEF MessagesPlaced
<1>1. messages' = messages /\ row'.state = row.state /\ row'.snapshot = row.snapshot
  BY DEF Quiet, Same
<1>2. \A q \in Requests : kind[q] # "exit"
  BY DEF Quiet, Moves, Goes, Books, Placed
<1>3. /\ Tell(Len(messages), row.state.turns) /\ Tell(Len(messages) - 2, row.snapshot.turns)
      /\ \A q \in Requests :
            pc[q] \in {"think", "streamed", "committed", "done_event"} /\ kind[q] # "resume" =>
                Tell(Len(messages), row.snapshot.turns)
  BY <1>2 DEF MessagesPlaced
<1>4. ASSUME NEW q \in Requests, pc'[q] \in {"think", "streamed", "committed", "done_event"}, kind'[q] # "resume"
      PROVE  pc[q] \in {"think", "streamed", "committed", "done_event"} /\ kind[q] # "resume"
  BY <1>4, FirstSteps DEF Quiet, Moves, Goes, Books, Placed
<1> QED
  BY <1>1, <1>3, <1>4 DEF Tell
-----------------------------------------------------------------------------
\* Whoever works keeps the others out.
LEMMA OthersOut ==
    ASSUME LockOwned, NEW r \in Requests, pc[r] \in Critical
    PROVE  \A q \in Requests \ {r} : pc[q] \notin Critical
BY DEF LockOwned

\* A change of the status alone, in a flush of a copy, leaves the row the same.
LEMMA FlushedSame ==
    ASSUME TypeOK, NEW r \in Requests, NEW status
    PROVE  /\ Same(Flushed(r, [mine[r] EXCEPT !.status = status]), row)
           /\ Same([mine[r] EXCEPT !.status = status], mine[r])
BY DEF TypeOK, Row, Flushed, Same

\* Only the copy of r, and how far it is, change.
LEMMA OneMoves ==
    ASSUME TypeOK, NEW r \in Requests, NEW place, Goto(r, place), UNCHANGED <<kind, text>>,
           mine' = mine \/ Forget(r) \/ (\E new : mine' = [mine EXCEPT ![r] = new]),
           draft' = draft \/ Forget(r)
    PROVE  Moves(r) /\ pc'[r] = place /\ kind'[r] = kind[r] /\ text'[r] = text[r]
BY DEF TypeOK, Goto, Forget, Moves

\* Entering, leaving and waiting are quiet.
LEMMA WaitsQuiet ==
    ASSUME TypeOK, OneByOne, NEW r \in Requests,
           \/ \E k \in Kinds : Acquire(r, k) \/ Visit(r, k)
           \/ Refused(r) \/ Die(r) \/ Release(r) \/ Raise(r) \/ Capped(r) \/ Stale(r)
           \/ Load(r) \/ Narrate(r) \/ FollowRefresh(r)
    PROVE  Quiet(r) /\ messages' = messages
<1>1. UNCHANGED <<row, messages, text>>
  BY DEF Acquire, Visit, Refused, Die, Release, Raise, Capped, Stale, Load, Narrate, FollowRefresh, SameLock, lockVars, tickVars
<1>2. Same(row', row)
  BY <1>1 DEF Same
<1>3. CASE \E k \in Kinds : Acquire(r, k)
  <2>1. PICK k \in Kinds : Acquire(r, k)
    BY <1>3
  <2> QED
    BY <1>1, <1>2, <2>1 DEF Acquire, Goto, TypeOK, Quiet, Moves, Goes
<1>4. CASE \E k \in Kinds : Visit(r, k)
  <2>1. PICK k \in Kinds : Visit(r, k)
    BY <1>4
  <2>2. /\ kind' = [kind EXCEPT ![r] = k] /\ draft' = draft /\ pc[r] = "idle"
        /\ \E place \in {"done", "change"} : pc' = [pc EXCEPT ![r] = place]
        /\ mine' = mine \/ mine' = [mine EXCEPT ![r] = row]
    BY <2>1 DEF Visit, Goto
  <2> QED
    BY <1>1, <1>2, <2>2 DEF TypeOK, Quiet, Moves, Goes
<1>5. CASE Refused(r) \/ Die(r) \/ Release(r) \/ Raise(r) \/ Capped(r) \/ Stale(r)
  <2>1. PICK place \in {"release", "done"} : Goto(r, place)
    BY <1>5 DEF Refused, Die, Release, Raise, Capped, Stale
  <2>2. kind' = kind /\ (UNCHANGED <<mine, draft>> \/ Forget(r))
    BY <1>5 DEF Refused, Die, Release, Raise, Capped, Stale
  <2>3. Moves(r) /\ pc'[r] = place /\ kind'[r] = kind[r] /\ text'[r] = text[r]
    BY <1>1, <2>1, <2>2, OneMoves
  <2> QED
    BY <1>1, <1>2, <2>3 DEF Quiet, Goes
<1>6. CASE Load(r)
  <2>1. PICK place : Goto(r, place) /\ place = IF Admitted(kind[r], row) THEN FirstStep(kind[r]) ELSE "release"
    BY <1>6 DEF Load
  <2>2. mine' = [mine EXCEPT ![r] = row] /\ UNCHANGED <<kind, draft>> /\ pc[r] = "start"
    BY <1>6 DEF Load
  <2>3. Moves(r) /\ pc'[r] = place /\ kind'[r] = kind[r] /\ text'[r] = text[r]
    BY <1>1, <2>1, <2>2, OneMoves
  <2>4. mine'[r] = row /\ draft'[r] = draft[r]
    BY <2>2 DEF TypeOK
  <2>5. Same(mine'[r], row')
    BY <1>1, <2>4 DEF Same
  <2>6. Goes(r)
    BY <2>1, <2>2, <2>3, <2>4, <2>5 DEF Goes
  <2> QED
    BY <1>1, <1>2, <2>3, <2>6 DEF Quiet
<1>7. CASE Narrate(r)
  <2>1. Goto(r, "streamed") /\ UNCHANGED <<kind, mine, draft>> /\ pc[r] = "think"
    BY <1>7 DEF Narrate
  <2>2. Moves(r) /\ pc'[r] = "streamed" /\ kind'[r] = kind[r] /\ text'[r] = text[r]
    BY <1>1, <2>1, OneMoves
  <2>3. Same(mine'[r], row')
    BY <1>1, <2>1 DEF OneByOne, Books, OwnFresh, Working, Critical
  <2> QED
    BY <1>1, <1>2, <2>1, <2>2, <2>3 DEF Quiet, Goes
<1>8. CASE FollowRefresh(r)
  <2>1. Goto(r, "follow_save") /\ mine' = [mine EXCEPT ![r] = row] /\ UNCHANGED <<kind, draft>> /\ pc[r] = "follow"
    BY <1>8 DEF FollowRefresh
  <2>2. Moves(r) /\ pc'[r] = "follow_save" /\ kind'[r] = kind[r] /\ text'[r] = text[r]
    BY <1>1, <2>1, OneMoves
  <2>3. Same(mine'[r], row')
    BY <1>1, <2>1 DEF Same, TypeOK
  <2> QED
    BY <1>1, <1>2, <2>1, <2>2, <2>3 DEF Quiet, Goes
<1> QED
  BY <1>3, <1>4, <1>5, <1>6, <1>7, <1>8

\* Requests that change the status alone are quiet: resumes, endings, quits, pauses and abandonments.
LEMMA StatusQuiet ==
    ASSUME TypeOK, OneByOne, NEW r \in Requests,
           ResumeGame(r) \/ Aftermath(r) \/ Quit(r) \/ ChangeStatus(r)
    PROVE  Quiet(r) /\ messages' = messages
<1>1. UNCHANGED <<messages, kind, text>>
  BY DEF ResumeGame, Aftermath, Quit, ChangeStatus
<1>3. CASE ChangeStatus(r)
  <2>1. Goto(r, "done") /\ Forget(r)
    BY <1>3 DEF ChangeStatus
  <2>2. Same(row', row)
    BY <1>3, FlushedSame DEF ChangeStatus
  <2>3. Moves(r) /\ pc'[r] = "done" /\ kind'[r] = kind[r] /\ text'[r] = text[r]
    BY <1>1, <2>1, OneMoves
  <2> QED
    BY <1>1, <2>2, <2>3 DEF Quiet, Goes
<1>4. CASE ResumeGame(r) \/ Aftermath(r) \/ Quit(r)
  <2>1. /\ draft' = draft
        /\ \/ \E status : Flush(r, [mine[r] EXCEPT !.status = status])
           \/ UNCHANGED <<row, mine>>
    BY <1>4 DEF ResumeGame, Aftermath, Quit
  <2>2. PICK place : Goto(r, place) /\ <<pc[r], place>> \in {<<"resume", "think">>, <<"committed", "done_event">>, <<"quit", "quit_save">>}
    BY <1>4 DEF ResumeGame, Aftermath, Quit
  <2>3. Moves(r) /\ pc'[r] = place /\ kind'[r] = kind[r] /\ text'[r] = text[r]
    BY <1>1, <2>1, <2>2, OneMoves DEF Flush
  <2>4. Same(row', row) /\ Same(mine'[r], mine[r])
    <3>1. ASSUME NEW status, Flush(r, [mine[r] EXCEPT !.status = status])
          PROVE  Same(row', row) /\ Same(mine'[r], mine[r])
      <4> DEFINE new == [mine[r] EXCEPT !.status = status]
      <4>1. Same(Flushed(r, new), row) /\ Same(new, mine[r])
        BY FlushedSame
      <4>2. row' = Flushed(r, new) /\ mine' = [mine EXCEPT ![r] = new]
        BY <3>1 DEF Flush
      <4> HIDE DEF new
      <4>3. mine'[r] = new
        BY <4>2 DEF TypeOK
      <4> QED
        BY <4>1, <4>2, <4>3
    <3> QED
      BY <2>1, <3>1 DEF Same
  <2>5. Same(mine[r], row)
    BY <2>2 DEF OneByOne, Books, OwnFresh, Working, Critical
  <2>6. Same(mine'[r], row')
    BY <2>4, <2>5 DEF Same
  <2> QED
    BY <1>1, <2>1, <2>2, <2>3, <2>4, <2>6 DEF Quiet, Goes
<1> QED
  BY <1>3, <1>4

\* The last save of a request that quits changes nothing, and only a test exit leaves messages.
LEMMA QuitSaveQuiet ==
    ASSUME TypeOK, OneByOne, NEW r \in Requests, QuitSave(r)
    PROVE  Quiet(r) /\ (messages' = messages \/ kind'[r] = "exit")
<1>1. /\ Save(r, [row EXCEPT !.state = mine[r].state]) /\ Goto(r, "release")
      /\ UNCHANGED <<kind, text, draft>> /\ pc[r] = "quit_save"
      /\ messages' = messages \o IF kind[r] = "exit" THEN <<r, r>> ELSE <<>>
  BY DEF QuitSave, SameLock, lockVars, tickVars
<1>2. Same(mine[r], row)
  BY <1>1 DEF OneByOne, Books, OwnFresh, Working, Critical
<1>3. Same(row', row)
  BY <1>1, <1>2 DEF Save, Same, TypeOK, Row
<1>4. Moves(r) /\ pc'[r] = "release" /\ kind'[r] = kind[r] /\ text'[r] = text[r]
  BY <1>1, OneMoves DEF Save
<1>5. messages' = messages \/ kind'[r] = "exit"
  BY <1>1, <1>4, ConcatEmptySeq DEF TypeOK
<1> QED
  BY <1>3, <1>4, <1>5 DEF Quiet, Goes

-----------------------------------------------------------------------------
\* What holds of the others when r is at work: they are idle or have let go, and stay where they are.
Alone(r) == \A q \in Requests \ {r} : pc'[q] = pc[q] /\ pc'[q] \notin Critical

\* The books are kept when r alone is at work, if they are kept for r.
LEMMA AloneBooks ==
    ASSUME TypeOK, Books, NEW r \in Requests, Moves(r), Alone(r), kind'[r] = kind[r],
           pc'[r] \in {"think", "committed", "release"},
           pc'[r] \in Working => Same(mine'[r], row'),
           pc'[r] = "think" => kind[r] = "resume" \/ text'[r] = row'.last
    PROVE  OwnFresh' /\ Placed'
<1>1. \A q \in Requests \ {r} : pc'[q] \notin Working /\ pc'[q] \notin {"begin", "restore", "resume", "think", "streamed"}
  BY DEF Alone, Working, Critical
<1>2. OwnFresh'
  BY <1>1 DEF OwnFresh
<1>3. ASSUME NEW q \in Requests \ {r}
      PROVE  (pc'[q] = "idle" => kind'[q] = "none") /\ (pc'[q] \in Early => text'[q] = NoRequest)
  BY <1>3 DEF Moves, Books, Placed
<1>4. pc'[r] \notin Early /\ pc'[r] \notin {"idle", "begin", "restore", "resume", "streamed"}
  BY DEF Early
<1>5. pc'[r] = "think" => kind'[r] = "resume" \/ text'[r] = row'.last
  OBVIOUS
<1> QED
  BY <1>1, <1>2, <1>3, <1>4, <1>5 DEF Placed

\* The effect of an action's first write: the snapshot is the state, the action the last, without retries.
LEMMA BeginEffect ==
    ASSUME TypeOK, OneByOne, NEW r \in Requests, BeginAction(r)
    PROVE  /\ row'.state = row.state /\ row'.snapshot = row.state /\ row'.last = r /\ row'.retries = 0
           /\ Same(mine'[r], row') /\ Moves(r) /\ Alone(r)
           /\ pc[r] = "begin" /\ pc'[r] = "think" /\ kind'[r] = kind[r] /\ text'[r] = r
           /\ messages' = messages
           /\ \A q \in Requests : kind'[q] = kind[q]
<1> DEFINE new == [mine[r] EXCEPT !.snapshot = mine[r].state, !.last = r, !.retries = 0]
<1>1. /\ pc[r] = "begin" /\ row' = Flushed(r, new) /\ mine' = [mine EXCEPT ![r] = new]
      /\ text' = [text EXCEPT ![r] = r] /\ Goto(r, "think") /\ UNCHANGED <<messages, kind, draft>>
  BY DEF BeginAction, Flush, SameLock, lockVars, tickVars
<1>2. Same(mine[r], row)
  BY <1>1 DEF OneByOne, Books, OwnFresh, Working, Critical
<1>3. /\ new.state = mine[r].state /\ new.snapshot = mine[r].state /\ new.last = r /\ new.retries = 0
  BY DEF TypeOK, Row
<1>4. /\ row'.state = row.state /\ row'.snapshot = row.state /\ row'.last = r /\ row'.retries = 0
  <2> HIDE DEF new
  <2>1. DOMAIN row = {"version", "state", "snapshot", "last", "retries", "status", "rounds"}
    BY DEF TypeOK, Row
  <2> QED
    BY <1>1, <1>2, <1>3, <2>1 DEF Flushed, Same
<1>5. mine'[r] = new
  <2> HIDE DEF new
  <2> QED
    BY <1>1 DEF TypeOK
<1>6. Same(mine'[r], row')
  <2> HIDE DEF new
  <2> QED
    BY <1>2, <1>3, <1>4, <1>5 DEF Same
<1>7. Moves(r) /\ pc'[r] = "think" /\ text'[r] = r /\ \A q \in Requests : kind'[q] = kind[q]
  <2> HIDE DEF new
  <2> QED
    BY <1>1 DEF TypeOK, Goto, Moves
<1>8. Alone(r)
  BY <1>1, <1>7, OthersOut DEF OneByOne, Alone, Moves, Critical
<1> QED
  BY <1>1, <1>4, <1>6, <1>7, <1>8

\* An action that begins closes what came before it.
LEMMA BeginBooks ==
    ASSUME TypeOK, OneByOne, NEW r \in Requests, BeginAction(r)
    PROVE  Books' /\ MessagesPlaced'
<1>1. /\ row'.state = row.state /\ row'.snapshot = row.state /\ row'.last = r /\ row'.retries = 0
      /\ Same(mine'[r], row') /\ Moves(r) /\ Alone(r)
      /\ pc[r] = "begin" /\ pc'[r] = "think" /\ kind'[r] = kind[r] /\ text'[r] = r
      /\ messages' = messages
      /\ \A q \in Requests : kind'[q] = kind[q]
  BY BeginEffect
<1>b. Books
  BY DEF OneByOne
<1>2. OwnFresh' /\ Placed'
  BY <1>1, <1>b, AloneBooks
<1>3. TurnsPlaced'
  <2>1. ASSUME NEW q \in Requests, pc'[q] \in Working \cup {"idle", "start"} \cup Uncommitted
        PROVE  q \notin row.state.turns
    <3>1. pc[q] \in Uncommitted
      BY <1>1, <2>1 DEF Alone, Working, Uncommitted, Early, Critical
    <3> QED
      BY <1>b, <3>1 DEF Books, TurnsPlaced
  <2>2. \A q \in Requests : pc'[q] \notin Committed
    BY <1>1 DEF Alone, Committed, Critical
  <2> QED
    BY <1>1, <2>1, <2>2 DEF TurnsPlaced
<1>4. SnapBoards' /\ SinceSnapshot'
  BY <1>1 DEF SnapBoards, SinceSnapshot
<1>5. RetriesCounted'
  <2>1. ASSUME NEW a \in Requests
        PROVE  Replays(a)' = Replays(a)
    <3>1. kind[r] # "retry"
      BY <1>1, <1>b DEF Books, Placed
    <3> QED
      BY <1>1, <3>1 DEF Replays, Moves
  <2>2. Replays(r) = {}
    BY <1>1, <1>b DEF Books, RetriesCounted
  <2>3. ASSUME NEW a \in Requests
        PROVE  /\ IsFiniteSet(Replays(a))
               /\ Cardinality(Replays(a)) <= IF a = row'.last THEN row'.retries ELSE MaxRetries
    <3>1. CASE a = r
      BY <1>1, <2>2, <3>1, FS_EmptySet
    <3>2. CASE a # r
      <4>1. IsFiniteSet(Replays(a)) /\ Cardinality(Replays(a)) <= IF a = row.last THEN row.retries ELSE MaxRetries
        BY <1>b DEF Books, RetriesCounted
      <4>2. Cardinality(Replays(a)) \in Nat /\ row.retries \in Nat /\ row.retries <= MaxRetries
        BY <4>1, <1>b, FS_CardinalityType DEF Books, RetriesCounted, TypeOK, Row
      <4> QED
        BY <1>1, <3>2, <4>1, <4>2, ConstantsAssumption
    <3> QED
      BY <3>1, <3>2
  <2>4. ASSUME NEW a \in Requests, pc'[a] \in {"idle", "start", "begin"}
        PROVE  a # row'.last /\ Replays(a) = {}
    <3>1. a # r /\ pc[a] = pc'[a]
      BY <1>1, <2>4 DEF Alone
    <3> QED
      BY <1>1, <1>b, <2>4, <3>1 DEF Books, RetriesCounted
  <2> QED
    BY <1>1, <2>1, <2>3, <2>4, ConstantsAssumption DEF RetriesCounted
<1>6. MessagesPlaced'
  <2> SUFFICES ASSUME \A q \in Requests : kind'[q] # "exit"
               PROVE  /\ Tell(Len(messages), row.state.turns)'
                      /\ Tell(Len(messages) - 2, row.snapshot.turns)'
                      /\ Tell(Len(messages), row.snapshot.turns)'
    BY DEF MessagesPlaced
  <2>1. Tell(Len(messages), row.state.turns)
    BY <1>1 DEF OneByOne, MessagesPlaced
  <2>2. Len(messages) \in Nat
    BY LenProperties DEF TypeOK
  <2> QED
    BY <1>1, <2>1, <2>2 DEF Tell
<1> QED
  BY <1>2, <1>3, <1>4, <1>5, <1>6 DEF Books

\* The effect of a retry's rollback: the state is the snapshot, one more retry of the last action.
LEMMA RestoreEffect ==
    ASSUME TypeOK, OneByOne, NEW r \in Requests, Restore(r)
    PROVE  /\ row'.state = row.snapshot /\ row'.snapshot = row.snapshot
           /\ row'.last = row.last /\ row'.retries = row.retries + 1
           /\ mine'[r] = row' /\ Moves(r) /\ Alone(r)
           /\ pc[r] = "restore" /\ pc'[r] \in {"think", "release"}
           /\ text'[r] = row.last /\ \A q \in Requests : kind'[q] = kind[q]
           /\ messages' = IF Len(messages) < 2 THEN <<>> ELSE ButLast(2, messages)
<1> DEFINE new == [row EXCEPT !.state = mine[r].snapshot, !.retries = mine[r].retries + 1]
<1>1. /\ pc[r] = "restore" /\ Save(r, new) /\ text' = [text EXCEPT ![r] = row.last]
      /\ Goto(r, IF row.status = "playing" THEN "think" ELSE "release") /\ UNCHANGED <<kind, draft>>
      /\ messages' = IF Len(messages) < 2 THEN <<>> ELSE ButLast(2, messages)
  BY DEF Restore, SameLock, lockVars, tickVars
<1>2. Same(mine[r], row)
  BY <1>1 DEF OneByOne, Books, OwnFresh, Working, Critical
<1>3. /\ new.state = row.snapshot /\ new.snapshot = row.snapshot /\ new.last = row.last
      /\ new.retries = row.retries + 1 /\ DOMAIN new = DOMAIN row
  BY <1>2 DEF TypeOK, Row, Same
<1>4. row' = [new EXCEPT !.version = row.version + 1] /\ mine' = [mine EXCEPT ![r] = row']
  BY <1>1 DEF Save
<1>5. /\ row'.state = row.snapshot /\ row'.snapshot = row.snapshot
      /\ row'.last = row.last /\ row'.retries = row.retries + 1
  <2> HIDE DEF new
  <2> QED
    BY <1>3, <1>4 DEF TypeOK, Row
<1>6. /\ mine'[r] = row' /\ Moves(r) /\ pc'[r] \in {"think", "release"}
      /\ text'[r] = row.last /\ \A q \in Requests : kind'[q] = kind[q]
  <2> HIDE DEF new
  <2> QED
    BY <1>1, <1>2, <1>4 DEF TypeOK, Goto, Moves, Same
<1>7. Alone(r)
  BY <1>1, <1>6, OthersOut DEF OneByOne, Alone, Moves, Critical
<1> QED
  BY <1>1, <1>5, <1>6, <1>7

\* A retry takes back what came after the snapshot, its messages included.
LEMMA RestoreBooks ==
    ASSUME TypeOK, OneByOne, NEW r \in Requests, Restore(r)
    PROVE  Books' /\ MessagesPlaced'
<1>1. /\ row'.state = row.snapshot /\ row'.snapshot = row.snapshot
      /\ row'.last = row.last /\ row'.retries = row.retries + 1
      /\ mine'[r] = row' /\ Moves(r) /\ Alone(r)
      /\ pc[r] = "restore" /\ pc'[r] \in {"think", "release"}
      /\ text'[r] = row.last /\ \A q \in Requests : kind'[q] = kind[q]
      /\ messages' = IF Len(messages) < 2 THEN <<>> ELSE ButLast(2, messages)
  BY RestoreEffect
<1>b. Books
  BY DEF OneByOne
<1>2. OwnFresh' /\ Placed'
  <2>1. Same(mine'[r], row')
    BY <1>1 DEF Same
  <2> QED
    BY <1>1, <1>b, <2>1, AloneBooks
<1>3. TurnsPlaced'
  <2>1. ASSUME NEW q \in Requests, pc'[q] \in Working \cup {"idle", "start"} \cup Uncommitted
        PROVE  q \notin row.snapshot.turns
    <3>1. pc[q] \in Working \cup {"idle", "start"}
      BY <1>1, <2>1 DEF Alone, Working, Uncommitted, Early, Critical
    <3> QED
      BY <1>b, <3>1 DEF Books, TurnsPlaced
  <2>2. \A q \in Requests : pc'[q] \notin Committed
    BY <1>1 DEF Alone, Committed, Critical
  <2> QED
    BY <1>1, <2>1, <2>2 DEF TurnsPlaced
<1>4. SnapBoards' /\ SinceSnapshot'
  BY <1>1 DEF SnapBoards, SinceSnapshot
<1>5. RetriesCounted'
  <2>1. row.retries < MaxRetries /\ row.retries \in Nat /\ MaxRetries \in Nat
    BY <1>1, <1>b, ConstantsAssumption DEF Books, Placed, TypeOK, Row
  <2>2. ASSUME NEW a \in Requests
        PROVE  Replays(a)' = IF a = row.last THEN Replays(a) \cup {r} ELSE Replays(a)
    <3>1. kind[r] = "retry" /\ text[r] = NoRequest /\ a # NoRequest
      BY <1>1, <1>b, ConstantsAssumption DEF Books, Placed, Early
    <3> QED
      BY <1>1, <3>1 DEF Replays, Moves
  <2>3. ASSUME NEW a \in Requests
        PROVE  /\ IsFiniteSet(Replays(a)')
               /\ Cardinality(Replays(a)') <= IF a = row'.last THEN row'.retries ELSE MaxRetries
    <3>1. /\ IsFiniteSet(Replays(a)) /\ Cardinality(Replays(a)) \in Nat
          /\ Cardinality(Replays(a)) <= IF a = row.last THEN row.retries ELSE MaxRetries
      BY <1>b, FS_CardinalityType DEF Books, RetriesCounted
    <3>2. CASE a = row.last
      <4>1. IsFiniteSet(Replays(a) \cup {r}) /\ Cardinality(Replays(a) \cup {r}) <= Cardinality(Replays(a)) + 1
        BY <3>1, FS_AddElement
      <4>2. Cardinality(Replays(a) \cup {r}) \in Nat
        BY <4>1, FS_CardinalityType
      <4>3. Cardinality(Replays(a)) <= row.retries /\ row.retries \in Nat
        BY <3>1, <3>2 DEF TypeOK, Row
      <4>4. Cardinality(Replays(a) \cup {r}) <= row.retries + 1
        BY <3>1, <4>1, <4>2, <4>3
      <4>5. a = row'.last /\ row'.retries = row.retries + 1 /\ Replays(a)' = Replays(a) \cup {r}
        BY <1>1, <2>2, <3>2
      <4> QED
        BY <4>1, <4>4, <4>5
    <3>3. CASE a # row.last
      BY <1>1, <2>2, <3>1, <3>3
    <3> QED
      BY <3>2, <3>3
  <2>4. ASSUME NEW a \in Requests, pc'[a] \in {"idle", "start", "begin"}
        PROVE  a # row'.last /\ Replays(a)' = {}
    <3>1. a # r /\ pc[a] = pc'[a]
      BY <1>1, <2>4 DEF Alone
    <3>2. a # row.last /\ Replays(a) = {}
      BY <1>b, <2>4, <3>1 DEF Books, RetriesCounted
    <3> QED
      BY <1>1, <2>2, <3>2
  <2> QED
    BY <1>1, <2>1, <2>3, <2>4 DEF RetriesCounted
<1>6. MessagesPlaced'
  <2> SUFFICES ASSUME \A q \in Requests : kind'[q] # "exit"
               PROVE  /\ Tell(Len(messages), row.state.turns)'
                      /\ Tell(Len(messages) - 2, row.snapshot.turns)'
                      /\ Tell(Len(messages), row.snapshot.turns)'
    BY DEF MessagesPlaced
  <2>1. Tell(Len(messages) - 2, row.snapshot.turns)
    BY <1>1 DEF OneByOne, MessagesPlaced
  <2>2. Len(messages) \in Nat /\ messages \in Seq(Requests \cup {Opening})
    BY LenProperties DEF TypeOK
  <2>3. CASE Len(messages) < 2
    <3>1. messages' = <<>> /\ Len(messages') = 0
      BY <1>1, <2>3
    <3>2. 1..Len(messages') = {} /\ 1..(Len(messages') - 2) = {}
      BY <3>1
    <3> QED
      BY <3>2 DEF Tell
  <2>4. CASE Len(messages) >= 2
    <3>1. Len(messages') = Len(messages) - 2 /\ \A i \in 1..(Len(messages) - 2) : messages'[i] = messages[i]
      <4>1. messages' = ButLast(2, messages)
        BY <1>1, <2>4, <2>2
      <4> QED
        BY <2>2, <2>4, <4>1, ButLastKeeps
    <3>2. \A i \in 1..(Len(messages) - 2) : messages[i] \in row.snapshot.turns \cup {Opening}
      BY <2>1 DEF Tell
    <3>3. \A i \in 1..Len(messages') : messages'[i] \in row.snapshot.turns \cup {Opening}
      BY <3>1, <3>2
    <3>4. 1..(Len(messages') - 2) \subseteq 1..Len(messages')
      BY <3>1, <2>2
    <3> QED
      BY <1>1, <3>3, <3>4 DEF Tell
  <2> QED
    BY <2>2, <2>3, <2>4
<1> QED
  BY <1>2, <1>3, <1>4, <1>5, <1>6 DEF Books

\* The effect of a commit: the turn, and with it perhaps its case board, is added to the state.
LEMMA CommitEffect ==
    ASSUME TypeOK, OneByOne, NEW r \in Requests, CommitTurn(r)
    PROVE  /\ row'.state.turns = row.state.turns \cup {r}
           /\ row.state.boards \subseteq row'.state.boards /\ row'.state.boards \subseteq row.state.boards \cup {r}
           /\ row'.snapshot = row.snapshot /\ row'.last = row.last /\ row'.retries = row.retries
           /\ mine'[r] = row' /\ Moves(r) /\ Alone(r) /\ draft'[r].boards = row.state.boards
           /\ pc[r] = "streamed" /\ pc'[r] = "committed" /\ UNCHANGED <<kind, text, messages>>
<1>1. PICK operations \in SUBSET {r} :
        Save(r, [row EXCEPT
            !.state = [mine[r].state EXCEPT !.turns = @ \cup {r}, !.boards = @ \cup operations],
            !.rounds = RoundAfter(r)])
  BY DEF CommitTurn
<1> DEFINE state == [mine[r].state EXCEPT !.turns = @ \cup {r}, !.boards = @ \cup operations]
           new == [row EXCEPT !.state = state, !.rounds = RoundAfter(r)]
<1>2. /\ pc[r] = "streamed" /\ Goto(r, "committed") /\ UNCHANGED <<kind, text, messages>>
      /\ draft' = [draft EXCEPT ![r] = [boards |-> mine[r].state.boards, round |-> RoundAfter(r)]]
  BY DEF CommitTurn, SameLock, lockVars, tickVars
<1>3. Same(mine[r], row)
  BY <1>2 DEF OneByOne, Books, OwnFresh, Working, Critical
<1>4. state.turns = row.state.turns \cup {r} /\ state.boards = row.state.boards \cup operations
  BY <1>3 DEF TypeOK, Row, Contents, Same
<1>5. /\ new.state = state /\ new.snapshot = row.snapshot /\ new.last = row.last /\ new.retries = row.retries
      /\ DOMAIN new = DOMAIN row
  <2> HIDE DEF state
  <2> QED
    BY DEF TypeOK, Row
<1>6. row' = [new EXCEPT !.version = row.version + 1] /\ mine' = [mine EXCEPT ![r] = row']
  BY <1>1 DEF Save
<1>7. row'.state = state /\ row'.snapshot = row.snapshot /\ row'.last = row.last /\ row'.retries = row.retries
  <2> HIDE DEF new, state
  <2> QED
    BY <1>5, <1>6 DEF TypeOK, Row
<1>8. mine'[r] = row' /\ Moves(r) /\ pc'[r] = "committed" /\ draft'[r].boards = row.state.boards
  <2> HIDE DEF new, state
  <2> QED
    BY <1>2, <1>3, <1>6 DEF TypeOK, Goto, Moves, Same
<1>9. Alone(r)
  BY <1>2, <1>8, OthersOut DEF OneByOne, Alone, Moves, Critical
<1> HIDE DEF new, state
<1> QED
  BY <1>2, <1>4, <1>7, <1>8, <1>9

\* The effect of a follow-up: the case board of the turn, and nothing else.
LEMMA FollowEffect ==
    ASSUME TypeOK, OneByOne, NEW r \in Requests, FollowCommit(r)
    PROVE  /\ row'.state.turns = row.state.turns
           /\ draft[r].boards \subseteq row.state.boards
           /\ row.state.boards \subseteq draft[r].boards \cup {r}
           /\ row'.state.boards = draft[r].boards \cup {r}
           /\ row'.snapshot = row.snapshot /\ row'.last = row.last /\ row'.retries = row.retries
           /\ Moves(r) /\ Alone(r)
           /\ pc[r] = "follow_save" /\ pc'[r] = "release" /\ UNCHANGED <<kind, text, messages>>
<1> DEFINE state == [mine[r].state EXCEPT !.boards = draft[r].boards \cup {r}]
           new == [row EXCEPT !.state = state]
<1>1. Save(r, new) /\ pc[r] = "follow_save" /\ Goto(r, "release") /\ UNCHANGED <<kind, text, messages, draft>>
  BY DEF FollowCommit, SameLock, lockVars, tickVars
<1>2. Same(mine[r], row)
  BY <1>1 DEF OneByOne, Books, OwnFresh, Working, Critical
<1>3. state.turns = row.state.turns /\ state.boards = draft[r].boards \cup {r}
  BY <1>2 DEF TypeOK, Row, Contents, Same
<1>4. /\ new.state = state /\ new.snapshot = row.snapshot /\ new.last = row.last /\ new.retries = row.retries
      /\ DOMAIN new = DOMAIN row
  <2> HIDE DEF state
  <2> QED
    BY DEF TypeOK, Row
<1>5. row' = [new EXCEPT !.version = row.version + 1] /\ mine' = [mine EXCEPT ![r] = row']
  BY <1>1 DEF Save
<1>6. row'.state = state /\ row'.snapshot = row.snapshot /\ row'.last = row.last /\ row'.retries = row.retries
  <2> HIDE DEF new, state
  <2> QED
    BY <1>4, <1>5 DEF TypeOK, Row
<1>7. Moves(r) /\ pc'[r] = "release"
  <2> HIDE DEF new, state
  <2> QED
    BY <1>1, <1>5 DEF TypeOK, Goto, Moves
<1>8. Alone(r)
  BY <1>1, <1>7, OthersOut DEF OneByOne, Alone, Moves, Critical
<1>9. draft[r].boards \subseteq row.state.boards /\ row.state.boards \subseteq draft[r].boards \cup {r}
  BY <1>1 DEF OneByOne, Books, TurnsPlaced, Committed
<1> HIDE DEF new, state
<1> QED
  BY <1>1, <1>3, <1>6, <1>7, <1>8, <1>9

\* A turn that is committed joins the attempts since the snapshot.
LEMMA CommitBooks ==
    ASSUME TypeOK, OneByOne, NEW r \in Requests, CommitTurn(r)
    PROVE  Books' /\ MessagesPlaced'
<1>1. /\ row'.state.turns = row.state.turns \cup {r}
      /\ row.state.boards \subseteq row'.state.boards /\ row'.state.boards \subseteq row.state.boards \cup {r}
      /\ row'.snapshot = row.snapshot /\ row'.last = row.last /\ row'.retries = row.retries
      /\ mine'[r] = row' /\ Moves(r) /\ Alone(r) /\ draft'[r].boards = row.state.boards
      /\ pc[r] = "streamed" /\ pc'[r] = "committed" /\ UNCHANGED <<kind, text, messages>>
  BY CommitEffect
<1>b. Books
  BY DEF OneByOne
<1>2. OwnFresh' /\ Placed'
  BY <1>1, <1>b, AloneBooks DEF Same
<1>r. r \notin row.snapshot.turns /\ (kind[r] = "resume" \/ text[r] = row.last)
  BY <1>1, <1>b DEF Books, TurnsPlaced, Placed, Working, Critical
<1>3. TurnsPlaced'
  <2>1. ASSUME NEW q \in Requests, pc'[q] \in Uncommitted
        PROVE  q \notin row'.state.turns
    <3>1. q # r /\ pc[q] = pc'[q]
      BY <1>1, <2>1 DEF Alone, Uncommitted, Early
    <3> QED
      BY <1>1, <1>b, <2>1, <3>1 DEF Books, TurnsPlaced
  <2>2. ASSUME NEW q \in Requests, pc'[q] \in Working \cup {"idle", "start"}
        PROVE  q \notin row'.snapshot.turns
    <3>1. q # r => pc[q] = pc'[q]
      BY <1>1 DEF Alone
    <3> QED
      BY <1>1, <1>b, <1>r, <2>2, <3>1 DEF Books, TurnsPlaced
  <2>3. ASSUME NEW q \in Requests, pc'[q] \in Committed
        PROVE  /\ q \in row'.state.turns
               /\ draft'[q].boards \subseteq row'.state.boards
               /\ row'.state.boards \subseteq draft'[q].boards \cup {q}
    <3>1. q = r
      BY <1>1, <2>3 DEF Alone, Committed, Critical
    <3> QED
      BY <1>1, <3>1
  <2> QED
    BY <2>1, <2>2, <2>3 DEF TurnsPlaced
<1>4. SnapBoards' /\ SinceSnapshot'
  BY <1>1, <1>b, <1>r DEF Books, SnapBoards, SinceSnapshot
<1>5. RetriesCounted'
  <2>1. \A a \in Requests : Replays(a)' = Replays(a)
    BY <1>1 DEF Replays
  <2>2. ASSUME NEW a \in Requests, pc'[a] \in {"idle", "start", "begin"}
        PROVE  pc[a] \in {"idle", "start", "begin"}
    BY <1>1, <2>2 DEF Alone
  <2> QED
    BY <1>1, <1>b, <2>1, <2>2 DEF Books, RetriesCounted
<1>6. MessagesPlaced'
  <2>1. ASSUME NEW q \in Requests, pc'[q] \in {"think", "streamed", "committed", "done_event"}
        PROVE  q = r
    BY <1>1, <2>1 DEF Alone, Critical
  <2> QED
    BY <1>1, <2>1 DEF OneByOne, MessagesPlaced, Tell
<1> QED
  BY <1>2, <1>3, <1>4, <1>5, <1>6 DEF Books

\* A follow-up adds the case board of its turn, which the snapshot does not have.
LEMMA FollowBooks ==
    ASSUME TypeOK, OneByOne, NEW r \in Requests, FollowCommit(r)
    PROVE  Books' /\ MessagesPlaced'
<1>1. /\ row'.state.turns = row.state.turns
      /\ draft[r].boards \subseteq row.state.boards
      /\ row'.state.boards = draft[r].boards \cup {r}
      /\ row'.snapshot = row.snapshot /\ row'.last = row.last /\ row'.retries = row.retries
      /\ Moves(r) /\ Alone(r)
      /\ pc[r] = "follow_save" /\ pc'[r] = "release" /\ UNCHANGED <<kind, text, messages>>
  BY FollowEffect
<1>b. Books
  BY DEF OneByOne
<1>2. OwnFresh' /\ Placed'
  BY <1>1, <1>b, AloneBooks DEF Working, Critical
<1>r. r \notin row.snapshot.turns
  BY <1>1, <1>b DEF Books, TurnsPlaced, Working, Critical
<1>3. TurnsPlaced'
  <2>1. \A q \in Requests : pc'[q] \notin Committed
    BY <1>1 DEF Alone, Committed, Critical
  <2>2. ASSUME NEW q \in Requests, pc'[q] \in Uncommitted \cup Working \cup {"idle", "start"}
        PROVE  pc[q] = pc'[q]
    BY <1>1, <2>2 DEF Alone, Uncommitted, Early, Working
  <2> QED
    BY <1>1, <1>b, <2>1, <2>2 DEF Books, TurnsPlaced
<1>4. SnapBoards' /\ SinceSnapshot'
  BY <1>1, <1>b, <1>r DEF Books, SnapBoards, SinceSnapshot
<1>5. RetriesCounted'
  <2>1. \A a \in Requests : Replays(a)' = Replays(a)
    BY <1>1 DEF Replays
  <2>2. ASSUME NEW a \in Requests, pc'[a] \in {"idle", "start", "begin"}
        PROVE  pc[a] \in {"idle", "start", "begin"}
    BY <1>1, <2>2 DEF Alone
  <2> QED
    BY <1>1, <1>b, <2>1, <2>2 DEF Books, RetriesCounted
<1>6. MessagesPlaced'
  <2>1. \A q \in Requests : pc'[q] \notin {"think", "streamed", "committed", "done_event"}
    BY <1>1 DEF Alone, Critical
  <2> QED
    BY <1>1, <2>1 DEF OneByOne, MessagesPlaced, Tell
<1> QED
  BY <1>2, <1>3, <1>4, <1>5, <1>6 DEF Books

\* The end of a turn is quiet but for its messages, and these are those of a committed turn.
LEMMA DoneKeeps ==
    ASSUME TypeOK, OneByOne, NEW r \in Requests, Done(r)
    PROVE  Quiet(r) /\ MessagesPlaced'
<1>1. /\ pc[r] = "done_event" /\ (Goto(r, "release") \/ Goto(r, "follow"))
      /\ messages' = messages \o IF kind[r] = "resume" THEN <<>> ELSE <<r, r>>
      /\ UNCHANGED <<row, kind, mine, text, draft>>
  BY DEF Done, SameLock, lockVars, tickVars
<1>b. Books
  BY DEF OneByOne
<1>2. Moves(r) /\ pc'[r] \in {"release", "follow"} /\ kind'[r] = kind[r] /\ text'[r] = text[r]
  BY <1>1, OneMoves
<1>3. Same(mine[r], row)
  BY <1>1 DEF OneByOne, Books, OwnFresh, Working, Critical
<1>4. Quiet(r)
  BY <1>1, <1>2, <1>3 DEF Quiet, Goes, Same
<1>5. messages \in Seq(Requests \cup {Opening}) /\ Len(messages) \in Nat
  BY LenProperties DEF TypeOK
<1> SUFFICES MessagesPlaced'
  BY <1>4
<1>6. CASE kind[r] = "resume"
  <2>1. messages' = messages
    BY <1>1, <1>5, <1>6, ConcatEmptySeq
  <2> QED
    BY <1>4, <1>b, <2>1, QuietMessages DEF OneByOne
<1>7. CASE kind[r] # "resume"
  <2> SUFFICES ASSUME \A q \in Requests : kind'[q] # "exit"
               PROVE  /\ Tell(Len(messages), row.state.turns)'
                      /\ Tell(Len(messages) - 2, row.snapshot.turns)'
                      /\ \A q \in Requests :
                            pc'[q] \in {"think", "streamed", "committed", "done_event"} /\ kind'[q] # "resume" =>
                                Tell(Len(messages), row.snapshot.turns)'
    BY DEF MessagesPlaced
  <2>1. Tell(Len(messages), row.state.turns) /\ Tell(Len(messages), row.snapshot.turns)
    <3>1. kind' = kind /\ pc[r] \in {"think", "streamed", "committed", "done_event"}
      BY <1>1
    <3>2. \A q \in Requests : kind[q] # "exit"
      BY <3>1
    <3> QED
      BY <1>7, <3>1, <3>2 DEF OneByOne, MessagesPlaced
  <2>2. r \in row.state.turns
    BY <1>1, <1>b DEF Books, TurnsPlaced, Committed
  <2>3. /\ Len(messages') = Len(messages) + 2
        /\ \A i \in 1..Len(messages) : messages'[i] = messages[i]
        /\ messages'[Len(messages) + 1] = r /\ messages'[Len(messages) + 2] = r
    <3>1. messages' = messages \o <<r, r>> /\ <<r, r>> \in Seq(Requests \cup {Opening})
      BY <1>1, <1>7
    <3>2. /\ Len(messages \o <<r, r>>) = Len(messages) + Len(<<r, r>>)
          /\ \A i \in 1 .. Len(messages) + Len(<<r, r>>) :
                (messages \o <<r, r>>)[i] = IF i <= Len(messages) THEN messages[i] ELSE <<r, r>>[i - Len(messages)]
      BY <1>5, <3>1, ConcatProperties
    <3>3. Len(<<r, r>>) = 2 /\ <<r, r>>[1] = r /\ <<r, r>>[2] = r
      OBVIOUS
    <3>4. \A i \in 1 .. Len(messages) : messages'[i] = messages[i]
      BY <1>5, <3>1, <3>2, <3>3
    <3>5. messages'[Len(messages) + 1] = <<r, r>>[Len(messages) + 1 - Len(messages)]
      BY <1>5, <3>1, <3>2, <3>3
    <3>6. messages'[Len(messages) + 2] = <<r, r>>[Len(messages) + 2 - Len(messages)]
      BY <1>5, <3>1, <3>2, <3>3
    <3> QED
      BY <1>5, <3>1, <3>2, <3>3, <3>4, <3>5, <3>6
  <2>4. Tell(Len(messages), row.state.turns)'
    <3>1. ASSUME NEW i \in 1..Len(messages')
          PROVE  messages'[i] \in row.state.turns \cup {Opening}
      <4>1. i \in 1..Len(messages) \/ i = Len(messages) + 1 \/ i = Len(messages) + 2
        BY <1>5, <2>3
      <4> QED
        BY <2>1, <2>2, <2>3, <4>1 DEF Tell
    <3> QED
      BY <1>1, <3>1 DEF Tell
  <2>5. Tell(Len(messages) - 2, row.snapshot.turns)'
    <3>1. Len(messages') - 2 = Len(messages)
      BY <1>5, <2>3
    <3> QED
      BY <1>1, <2>1, <2>3, <3>1 DEF Tell
  <2>6. \A q \in Requests : pc'[q] \notin {"think", "streamed", "committed", "done_event"}
    BY <1>1, <1>2, OthersOut DEF OneByOne, Moves, Critical
  <2> QED
    BY <2>4, <2>5, <2>6
<1> QED
  BY <1>6, <1>7

\* Every step is quiet, or one of the four that write a turn or a snapshot, or leaves all requests alone.
LEMMA StepCases ==
    ASSUME TypeOK, OneByOne, [Next]_vars, ~overtaken'
    PROVE  \/ \E r \in Requests : Quiet(r) /\ (messages' = messages \/ kind'[r] = "exit" \/ Done(r))
           \/ \E r \in Requests : BeginAction(r) \/ Restore(r) \/ CommitTurn(r) \/ FollowCommit(r)
           \/ UNCHANGED <<row, messages, requestVars>>
<1>1. ASSUME NEW r \in Requests, NEW k \in Kinds, Acquire(r, k) \/ Visit(r, k)
      PROVE  Quiet(r) /\ messages' = messages
  BY <1>1, WaitsQuiet
<1>2. ASSUME NEW r \in Requests,
             \/ Refused(r) \/ Die(r) \/ Release(r) \/ Raise(r) \/ Capped(r) \/ Stale(r)
             \/ Load(r) \/ Narrate(r) \/ FollowRefresh(r)
      PROVE  Quiet(r) /\ messages' = messages
  BY <1>2, WaitsQuiet
<1>3. ASSUME NEW r \in Requests, ResumeGame(r) \/ Aftermath(r) \/ Quit(r) \/ ChangeStatus(r)
      PROVE  Quiet(r) /\ messages' = messages
  BY <1>3, StatusQuiet
<1>4. ASSUME NEW r \in Requests, QuitSave(r)
      PROVE  Quiet(r) /\ (messages' = messages \/ kind'[r] = "exit")
  BY <1>4, QuitSaveQuiet
<1>5. ASSUME NEW r \in Requests, Done(r)
      PROVE  Quiet(r)
  BY <1>5, DoneKeeps
<1>6. ASSUME NEW r \in Requests, TickRead(r) \/ TickWrite(r) \/ TickFail(r)
      PROVE  UNCHANGED <<row, messages, requestVars>>
  <2>1. CASE TickWrite(r)
    <3>1. tview[r] = row.state
      BY <2>1 DEF TickWrite
    <3>2. row' = row
      BY <2>1, <3>1 DEF TickWrite, TypeOK, Row
    <3> QED
      BY <2>1, <3>2 DEF TickWrite
  <2>2. CASE TickRead(r) \/ TickFail(r)
    BY <2>2 DEF TickRead, TickFail
  <2> QED
    BY <1>6, <2>1, <2>2
<1>7. CASE Expire
  BY <1>7 DEF Expire
<1>8. CASE UNCHANGED vars
  BY <1>8 DEF vars
<1> QED
  BY <1>1, <1>2, <1>3, <1>4, <1>5, <1>6, <1>7, <1>8 DEF Next, Handler

\* The books and the messages are in order to begin with.
LEMMA OneByOneInit ==
    ASSUME Init
    PROVE  OneByOne
<1> USE DEF Init
<1>1. LockOwned
  BY DEF LockOwned, Critical
<1>2. /\ row.state.turns = {} /\ row.state.boards = {} /\ row.snapshot.turns = {}
      /\ row.last = NoRequest /\ row.retries = 0
  BY DEF Opened, Empty
<1>3. OwnFresh /\ Placed /\ TurnsPlaced
  BY <1>2 DEF OwnFresh, Placed, TurnsPlaced, Working, Critical, Uncommitted, Early, Committed
<1>4. SnapBoards /\ SinceSnapshot
  BY <1>2 DEF SnapBoards, SinceSnapshot
<1>5. RetriesCounted
  <2>1. \A a \in Requests : Replays(a) = {}
    BY DEF Replays
  <2>2. IsFiniteSet({}) /\ Cardinality({}) = 0
    BY FS_EmptySet
  <2>3. \A a \in Requests : a # row.last
    BY <1>2, ConstantsAssumption
  <2>4. row.retries <= MaxRetries /\ 0 <= MaxRetries
    BY <1>2, ConstantsAssumption
  <2> HIDE DEF Init
  <2>5. ASSUME NEW a \in Requests
        PROVE  /\ IsFiniteSet(Replays(a))
               /\ Cardinality(Replays(a)) <= IF a = row.last THEN row.retries ELSE MaxRetries
    BY <2>1, <2>2, <2>3, <2>4
  <2> QED
    BY <2>1, <2>3, <2>4, <2>5 DEF RetriesCounted
<1>6. MessagesPlaced
  <2>1. Len(messages) = 1 /\ \A i \in 1..1 : messages[i] = Opening
    OBVIOUS
  <2>2. 1..(Len(messages) - 2) = {}
    BY <2>1
  <2>3. Tell(Len(messages), row.state.turns) /\ Tell(Len(messages) - 2, row.snapshot.turns)
    BY <2>1, <2>2 DEF Tell
  <2> QED
    BY <2>3 DEF MessagesPlaced
<1> QED
  BY <1>1, <1>3, <1>4, <1>5, <1>6 DEF OneByOne, Books

\* And every step leaves them so.
LEMMA OneByOneStep ==
    ASSUME TypeOK, OneByOne, [Next]_vars, Undisturbed'
    PROVE  OneByOne'
<1>1. LockOwned'
  BY LockStep DEF OneByOne, Undisturbed
<1>2. ASSUME NEW r \in Requests, Quiet(r), messages' = messages \/ kind'[r] = "exit" \/ Done(r)
      PROVE  Books' /\ MessagesPlaced'
  <2>1. Books /\ MessagesPlaced
    BY DEF OneByOne
  <2>2. Books'
    BY <1>2, <2>1, QuietBooks
  <2>3. MessagesPlaced'
    <3>1. CASE Done(r)
      BY <3>1, DoneKeeps
    <3>2. CASE messages' = messages \/ kind'[r] = "exit"
      BY <1>2, <2>1, <3>2, QuietMessages
    <3> QED
      BY <1>2, <3>1, <3>2
  <2> QED
    BY <2>2, <2>3
<1>3. ASSUME NEW r \in Requests, BeginAction(r) \/ Restore(r) \/ CommitTurn(r) \/ FollowCommit(r)
      PROVE  Books' /\ MessagesPlaced'
  BY <1>3, BeginBooks, RestoreBooks, CommitBooks, FollowBooks
<1>4. CASE UNCHANGED <<row, messages, requestVars>>
  <2>1. UNCHANGED <<row, messages, kind, pc, mine, text, draft>>
    BY <1>4 DEF requestVars
  <2>2. OwnFresh' /\ Placed' /\ TurnsPlaced' /\ SnapBoards' /\ SinceSnapshot'
    BY <2>1 DEF OneByOne, Books, OwnFresh, Placed, TurnsPlaced, SnapBoards, SinceSnapshot
  <2>3. RetriesCounted'
    <3>1. \A a \in Requests : Replays(a)' = Replays(a)
      BY <2>1 DEF Replays
    <3> QED
      BY <2>1, <3>1 DEF OneByOne, Books, RetriesCounted
  <2>4. MessagesPlaced'
    BY <2>1 DEF OneByOne, MessagesPlaced, Tell
  <2> QED
    BY <1>1, <2>2, <2>3, <2>4 DEF Books, OneByOne
<1> QED
  BY <1>1, <1>2, <1>3, <1>4, StepCases DEF OneByOne, Undisturbed

\* Until a request outlives its lock or a tick overwrites a turn, the books are in order.
LEMMA OneByOneAlways == Spec => [](TypeOK /\ (Undisturbed => OneByOne))
<1>1. Init => OneByOne
  BY OneByOneInit
<1>2. TypeOK /\ (Undisturbed => OneByOne) /\ [Next]_vars => (Undisturbed => OneByOne)'
  BY OneByOneStep, DisturbedForGood DEF Undisturbed
<1> QED
  BY <1>1, <1>2, TypeCorrect, PTL DEF Spec

\* A retry takes the two messages of the turn it takes back: no message is left of a turn that is gone.
THEOREM MessagesBelong == Spec => []NoOrphanMessages
<1>1. TypeOK /\ (Undisturbed => OneByOne) => NoOrphanMessages
  <2> SUFFICES ASSUME TypeOK, OneByOne, \A r \in Requests : kind[r] # "exit"
               PROVE  ToSet(messages) \subseteq row.state.turns \cup {Opening}
    BY DEF NoOrphanMessages
  <2>1. Tell(Len(messages), row.state.turns)
    BY DEF OneByOne, MessagesPlaced
  <2>2. DOMAIN messages = 1..Len(messages)
    BY LenProperties DEF TypeOK
  <2>3. ToSet(messages) = {messages[i] : i \in 1..Len(messages)}
    BY <2>2 DEF ToSet
  <2> QED
    BY <2>1, <2>3 DEF Tell
<1> QED
  BY <1>1, OneByOneAlways, PTL

\* No retry, resume or late follow-up drops a case board from the state while its turn stays.
THEOREM BoardsStay == Spec => NoLostBoard
<1> DEFINE BoardsKept == \A t \in row.state.boards : t \in row'.state.turns => t \in row'.state.boards
<1>1. TypeOK /\ (Undisturbed => OneByOne) /\ [Next]_vars => (Undisturbed' => BoardsKept)
  <2> SUFFICES ASSUME TypeOK, OneByOne, [Next]_vars, Undisturbed'
               PROVE  BoardsKept
    BY DisturbedForGood DEF Undisturbed
  <2>1. ASSUME NEW r \in Requests, Quiet(r)
        PROVE  BoardsKept
    BY <2>1 DEF Quiet, Same
  <2>2. ASSUME NEW r \in Requests, BeginAction(r)
        PROVE  BoardsKept
    BY <2>2, BeginEffect
  <2>3. ASSUME NEW r \in Requests, Restore(r)
        PROVE  BoardsKept
    <3>1. row'.state = row.snapshot
      BY <2>3, RestoreEffect
    <3> QED
      BY <3>1 DEF OneByOne, Books, SnapBoards
  <2>4. ASSUME NEW r \in Requests, CommitTurn(r)
        PROVE  BoardsKept
    BY <2>4, CommitEffect
  <2>5. ASSUME NEW r \in Requests, FollowCommit(r)
        PROVE  BoardsKept
    BY <2>5, FollowEffect
  <2>6. CASE UNCHANGED <<row, messages, requestVars>>
    BY <2>6
  <2> QED
    BY <2>1, <2>2, <2>3, <2>4, <2>5, <2>6, StepCases DEF Undisturbed
<1>2. Spec => [][Undisturbed' => BoardsKept]_vars
  BY <1>1, OneByOneAlways, PTL DEF Spec
<1> QED
  BY <1>2, PTL DEF NoLostBoard

\* A retry takes back the attempts at the last action and the recaps since, and nothing else takes turns back.
THEOREM OnlyLastTakenBack == Spec => RollbackOnlyLast
<1> DEFINE AttemptsAtLast == \A t \in row.state.turns \ row'.state.turns : kind[t] = "resume" \/ text[t] = row.last
<1>1. TypeOK /\ (Undisturbed => OneByOne) /\ [Next]_vars => (Undisturbed' => AttemptsAtLast)
  <2> SUFFICES ASSUME TypeOK, OneByOne, [Next]_vars, Undisturbed'
               PROVE  AttemptsAtLast
    BY DisturbedForGood DEF Undisturbed
  <2>1. ASSUME NEW r \in Requests, Quiet(r) \/ BeginAction(r)
        PROVE  AttemptsAtLast
    BY <2>1, BeginEffect DEF Quiet, Same
  <2>2. ASSUME NEW r \in Requests, Restore(r)
        PROVE  AttemptsAtLast
    <3>1. row'.state = row.snapshot
      BY <2>2, RestoreEffect
    <3> QED
      BY <3>1 DEF OneByOne, Books, SinceSnapshot
  <2>3. ASSUME NEW r \in Requests, CommitTurn(r) \/ FollowCommit(r)
        PROVE  AttemptsAtLast
    BY <2>3, CommitEffect, FollowEffect
  <2>4. CASE UNCHANGED <<row, messages, requestVars>>
    BY <2>4
  <2> QED
    BY <2>1, <2>2, <2>3, <2>4, StepCases DEF Undisturbed
<1>2. Spec => [][Undisturbed' => AttemptsAtLast]_vars
  BY <1>1, OneByOneAlways, PTL DEF Spec
<1> QED
  BY <1>2, PTL DEF RollbackOnlyLast

\* However many retries are sent, an action is replayed at most MaxRetries times.
THEOREM RetriesBounded == Spec => []RetryBound
<1>1. TypeOK /\ (Undisturbed => OneByOne) => RetryBound
  <2> SUFFICES ASSUME TypeOK, OneByOne, NEW a \in Requests
               PROVE  Cardinality(Replays(a)) <= MaxRetries
    BY DEF RetryBound, Replays
  <2>1. /\ IsFiniteSet(Replays(a)) /\ row.retries <= MaxRetries
        /\ Cardinality(Replays(a)) <= IF a = row.last THEN row.retries ELSE MaxRetries
    BY DEF OneByOne, Books, RetriesCounted
  <2>2. Cardinality(Replays(a)) \in Nat /\ row.retries \in Nat /\ MaxRetries \in Nat
    BY <2>1, FS_CardinalityType, ConstantsAssumption DEF TypeOK, Row
  <2> QED
    BY <2>1, <2>2
<1> QED
  BY <1>1, OneByOneAlways, PTL

=============================================================================
