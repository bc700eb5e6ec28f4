------------------------ MODULE GenerationTasksProofs ------------------------
(***************************************************************************)
(* What GenerationTasks guarantees for any number of requests, clients and *)
(* hanging workers.  The limit rests on the advisory lock (Locked); that a *)
(* paid task stays a success and a failed one stays away from its draft    *)
(* rests on the heartbeat: whoever is found stale is over, unless its      *)
(* worker may hang (Silent, StaleIsOver).                                  *)
(* At the end, what the stages of a task make of the lists that models     *)
(* answer with, each a module of its own: the beginnings of free play      *)
(* (FreeStarts), the shared past and the events of a world (Chronicle),    *)
(* its style (VisualStyle) and its cast (CastBuilding).                    *)
(***************************************************************************)
EXTENDS GenerationTasks, TLAPS, FiniteSetTheorems, SequenceTheorems, WellFoundedInduction

Statuses == {"none"} \cup ActiveStatus \cup TerminalStatus

Places == Working \cup {"idle", "queued", "inserting", "created", "over"}

\* The places from which a worker may still write its draft.
Early == {"created", "launch", "boot", "mark", "work", "recheck", "finish", "fallback", "fallback_finish"}

\* What a step of another task's worker leaves alone.
Frame(u) ==
    /\ status'[u] = status[u] /\ pc'[u] = pc[u] /\ hold'[u] = hold[u]
    /\ fresh'[u] = fresh[u] /\ written'[u] = written[u]

\* What a step of its own worker may do to a task.
Effect(t) ==
    /\ pc[t] \in Working /\ pc'[t] \in Working \cup {"over"}
    /\ \/ status'[t] = status[t]
       \/ status[t] = "pending" /\ status'[t] = "running"
       \/ status[t] # "failed" /\ status'[t] = "succeeded"
       \/ t \in MayHang /\ status'[t] = "succeeded"
       \/ status'[t] = "failed"
    /\ \/ hold'[t] = hold[t]
       \/ hold'[t] = "held"
       \/ hold'[t] = Outcome(t) /\ pc'[t] = "over" /\ status'[t] = status[t]
    /\ fresh'[t] = fresh[t] \/ fresh'[t] = TRUE
    /\ written'[t] # written[t] => pc[t] \in Early
    /\ pc'[t] \in Early => pc[t] \in Early /\ (status'[t] = "failed" => status[t] = "failed")

-----------------------------------------------------------------------------
(* The type invariant.                                                     *)

\* The initial list of tasks is a sequence.
LEMMA EarlierSequence == SetToSeq(Earlier) \in Seq(Tasks)
<1>1. IsFiniteSet(Earlier)
  BY ConstantsAssumption, FS_Subset
<1>2. /\ Cardinality(Earlier) \in Nat
      /\ ExistsBijection(1..Cardinality(Earlier), Earlier)
  BY <1>1, FS_CardinalityType
<1>3. PICK f \in Bijection(1..Cardinality(Earlier), Earlier) : TRUE
  BY <1>2 DEF ExistsBijection
<1>4. f \in [1..Cardinality(Earlier) -> Earlier] /\ IsInjective(f)
  BY <1>3 DEF Bijection, Injection, Surjection, IsInjective
<1>5. SetToSeq(Earlier) \in [1..Cardinality(Earlier) -> Earlier]
  BY <1>4 DEF SetToSeq
<1> QED
  BY <1>2, <1>5, ConstantsAssumption

\* The initial state is well typed.
LEMMA TypeOKInit == Init => TypeOK
<1> SUFFICES ASSUME Init PROVE TypeOK
  OBVIOUS
<1>1. created \in Seq(Tasks)
  BY EarlierSequence DEF Init
<1> QED
  BY <1>1, ConstantsAssumption DEF Init, TypeOK, Kinds, ActiveStatus, TerminalStatus, Working

\* Where the handler of an exception is, and where a step that may raise goes.
LEMMA ThenType ==
    ASSUME TypeOK, NEW t \in Tasks, NEW place, Then(t, place)
    PROVE  /\ \A u \in Tasks \ {t} : pc'[u] = pc[u]
           /\ pc'[t] = place \/ pc'[t] = Handler(t)
           /\ place \in Working => pc' \in [Tasks -> Places]
<1>1. Handler(t) \in {"fallback", "failing", "settle"}
  BY DEF Handler
<1>2. PICK next \in {place, Handler(t)} : pc' = [pc EXCEPT ![t] = next]
  BY DEF Then, Goto
<1> QED
  BY <1>1, <1>2 DEF TypeOK, Places, Working

\* Recording an event changes the status, the heartbeat and the draft of its task only.
LEMMA RecordEventEffect ==
    ASSUME TypeOK, NEW t \in Tasks, NEW event \in {"progress", "result", "error", "done"},
           RecordEvent(t, event)
    PROVE  /\ UNCHANGED <<kind, draft, created>>
           /\ reported' \in [Tasks -> BOOLEAN] /\ fresh' \in [Tasks -> BOOLEAN]
           /\ status' \in [Tasks -> Statuses] /\ written' \in [Tasks -> Nat]
           /\ \A u \in Tasks \ {t} :
                status'[u] = status[u] /\ fresh'[u] = fresh[u] /\ written'[u] = written[u]
           /\ fresh'[t] = TRUE
           /\ \/ status'[t] = status[t]
              \/ event = "error" /\ status'[t] = "failed"
              \/ /\ event = "done" /\ status'[t] = "succeeded"
                 /\ status[t] # "failed" \/ t \in MayHang
           /\ event # "result" => written'[t] = written[t]
<1>1. \/ StatusAfter(t, event) = status[t]
      \/ event = "error" /\ StatusAfter(t, event) = "failed"
      \/ /\ event = "done" /\ StatusAfter(t, event) = "succeeded"
         /\ status[t] # "failed" \/ t \in MayHang
  BY DEF StatusAfter, StatusRead
<1>2. status' \in [Tasks -> Statuses] /\ status'[t] = StatusAfter(t, event)
      /\ \A u \in Tasks \ {t} : status'[u] = status[u]
  BY <1>1 DEF RecordEvent, TypeOK, Statuses, ActiveStatus, TerminalStatus
<1>3. /\ written' \in [Tasks -> Nat]
      /\ \A u \in Tasks \ {t} : written'[u] = written[u]
      /\ event # "result" => written'[t] = written[t]
  <2>1. written \in [Tasks -> Nat]
    BY DEF TypeOK
  <2>2. IF event = "result" THEN written' = [written EXCEPT ![t] = written[t] + 1] ELSE written' = written
    BY DEF RecordEvent, Write
  <2> QED
    BY <2>1, <2>2
<1>4. /\ fresh' \in [Tasks -> BOOLEAN]
      /\ \A u \in Tasks \ {t} : fresh'[u] = fresh[u]
      /\ fresh'[t] = TRUE
  <2>1. fresh \in [Tasks -> BOOLEAN]
    BY DEF TypeOK
  <2> QED
    BY <2>1 DEF RecordEvent
<1>6. reported' \in [Tasks -> BOOLEAN]
  <2>1. reported \in [Tasks -> BOOLEAN]
    BY DEF TypeOK
  <2>2. reported' = [reported EXCEPT ![t] = reported[t] \/ event \in {"error", "done"}]
    BY DEF RecordEvent
  <2>3. (reported[t] \/ event \in {"error", "done"}) \in BOOLEAN
    OBVIOUS
  <2> QED
    BY <2>1, <2>2, <2>3
<1>5. UNCHANGED <<kind, draft, created>>
  BY DEF RecordEvent
<1> QED
  BY <1>1, <1>2, <1>3, <1>4, <1>5, <1>6

-----------------------------------------------------------------------------
(* The worker.                                                             *)

\* What a step of the worker of t changes, and how.
WorkerStep(t) ==
    /\ UNCHANGED <<kind, draft, created, stale, limitLock, streamVars>>
    /\ read' \in [MayHang -> {"none"} \cup ActiveStatus]
    /\ status' \in [Tasks -> Statuses] /\ fresh' \in [Tasks -> BOOLEAN]
    /\ reported' \in [Tasks -> BOOLEAN] /\ written' \in [Tasks -> Nat]
    /\ pc' \in [Tasks -> Places] /\ hold' \in [Tasks -> {"none", "held", "charged", "free"}]
    /\ \A u \in Tasks \ {t} : Frame(u)
    /\ Effect(t)

\* Whatever the worker did, its transaction is over.
LEMMA WorkerOnlyEffect ==
    ASSUME TypeOK, NEW t \in Tasks, WorkerOnly(t)
    PROVE  /\ UNCHANGED <<stale, limitLock, streamVars>>
           /\ read' \in [MayHang -> {"none"} \cup ActiveStatus]
BY DEF WorkerOnly, EndRead, TypeOK

\* A step that records an event, whatever place it goes on at.
LEMMA RecordingStep ==
    ASSUME TypeOK, NEW t \in Tasks, NEW event \in {"progress", "result", "error", "done"},
           RecordEvent(t, event), pc[t] \in Working,
           NEW place \in Working, Then(t, place), UNCHANGED hold, WorkerOnly(t),
           event = "result" => pc[t] \in Early,
           event = "error" => place \notin Early /\ Handler(t) \notin Early,
           place \in Early => pc[t] \in Early,
           Handler(t) = "fallback" => pc[t] \in Early
    PROVE  WorkerStep(t)
<1>1. /\ \A u \in Tasks \ {t} : pc'[u] = pc[u]
      /\ pc'[t] = place \/ pc'[t] = Handler(t)
      /\ pc' \in [Tasks -> Places]
  BY ThenType
<1>2. Handler(t) \in {"fallback", "failing", "settle"}
  BY DEF Handler
<1>3. hold' \in [Tasks -> {"none", "held", "charged", "free"}]
  BY DEF TypeOK
<1>4. \A u \in Tasks \ {t} : Frame(u)
  BY <1>1, RecordEventEffect DEF Frame
<1>5. pc'[t] \in Working
  BY <1>1, <1>2 DEF Working
<1>6. pc'[t] \in Early => pc[t] \in Early /\ event # "error"
  BY <1>1, <1>2 DEF Early
<1>7. Effect(t)
  BY <1>5, <1>6, RecordEventEffect DEF Effect
<1> QED
  BY <1>1, <1>3, <1>4, <1>7, RecordEventEffect, WorkerOnlyEffect DEF WorkerStep

\* Every worker action is, in its effect on the rows, one of the few cases of Effect.
LEMMA WorkerSteps ==
    ASSUME TypeOK, NEW t \in Tasks, Worker(t)
    PROVE  WorkerStep(t)
<1>h. Handler(t) \in {"fallback", "failing", "settle"}
  BY DEF Handler
<1>k. kind[t] \in Kinds \cup {"none"}
  BY DEF TypeOK
<1>1. CASE Reserve(t)
  <2>1. /\ UNCHANGED <<kind, draft, created, stale, limitLock, streamVars>>
        /\ UNCHANGED <<status, fresh, reported, written>>
        /\ read' \in [MayHang -> {"none"} \cup ActiveStatus]
    BY <1>1, WorkerOnlyEffect DEF Reserve, rowVars
  <2>2. /\ pc[t] = "launch" /\ pc' \in [Tasks -> Places] /\ hold' \in [Tasks -> {"none", "held", "charged", "free"}]
        /\ \A u \in Tasks \ {t} : pc'[u] = pc[u] /\ hold'[u] = hold[u]
        /\ pc'[t] \in {"boot", "failing", "mark"}
        /\ hold'[t] = hold[t] \/ hold'[t] = "held"
    <3>1. PICK place \in {"boot", "failing", "mark"} : pc' = [pc EXCEPT ![t] = place]
      BY <1>1 DEF Reserve, Goto
    <3>2. pc[t] = "launch" /\ (hold' = hold \/ hold' = [hold EXCEPT ![t] = "held"])
      BY <1>1 DEF Reserve
    <3> QED
      BY <3>1, <3>2 DEF TypeOK, Places, Working
  <2> QED
    BY <2>1, <2>2 DEF WorkerStep, Frame, Effect, TypeOK, Statuses, Early, Working
<1>2. CASE Boot(t)
  BY <1>2, <1>h, RecordingStep DEF Boot, Early, Working
<1>3. CASE MarkRunning(t)
  <2>1. PICK place \in {"boot", "work"} : Then(t, place)
    BY <1>3 DEF MarkRunning
  <2>2. /\ \A u \in Tasks \ {t} : pc'[u] = pc[u]
        /\ pc'[t] \in {"boot", "work", "settle"}
        /\ pc' \in [Tasks -> Places]
    <3>1. pc[t] = "mark" /\ Handler(t) = "settle"
      BY <1>3 DEF MarkRunning, Handler
    <3> QED
      BY <2>1, <3>1, ThenType DEF Working
  <2>3. /\ status' \in [Tasks -> Statuses] /\ fresh' \in [Tasks -> BOOLEAN]
        /\ \A u \in Tasks \ {t} : status'[u] = status[u] /\ fresh'[u] = fresh[u]
        /\ \/ status'[t] = status[t]
           \/ status[t] = "pending" /\ status'[t] = "running"
        /\ fresh'[t] = fresh[t] \/ fresh'[t] = TRUE
    BY <1>3 DEF MarkRunning, TypeOK, Statuses, ActiveStatus, TerminalStatus
  <2>4. /\ UNCHANGED <<kind, draft, created, stale, limitLock, streamVars>>
        /\ UNCHANGED <<reported, written, hold>> /\ pc[t] = "mark"
        /\ read' \in [MayHang -> {"none"} \cup ActiveStatus]
    BY <1>3, WorkerOnlyEffect DEF MarkRunning
  <2> QED
    BY <2>2, <2>3, <2>4 DEF WorkerStep, Frame, Effect, TypeOK, Early, Working
<1>4. CASE Progress(t)
  BY <1>4, <1>h, RecordingStep DEF Progress, Early, Working
<1>5. CASE Result(t)
  BY <1>5, <1>h, RecordingStep DEF Result, Early, Working
<1>6. CASE GiveUp(t)
  <2>1. Handler(t) = "failing"
    BY <1>6 DEF GiveUp, Handler
  <2> QED
    BY <1>6, <2>1, RecordingStep DEF GiveUp, Early, Working
<1>7. CASE Rewrite(t)
  <2>1. pc[t] \in {"work", "recheck"} /\ Handler(t) = "failing"
    BY <1>7 DEF Rewrite, Handler
  <2>2. PICK place \in {"recheck", "finish", "failing"} : pc' = [pc EXCEPT ![t] = place]
    BY <1>7, <2>1 DEF Rewrite, Then, Goto
  <2>3. /\ \A u \in Tasks \ {t} : pc'[u] = pc[u]
        /\ pc'[t] \in {"recheck", "finish", "failing"}
        /\ pc' \in [Tasks -> Places]
    BY <2>2 DEF TypeOK, Places, Working
  <2>4. /\ written' \in [Tasks -> Nat]
        /\ \A u \in Tasks \ {t} : written'[u] = written[u]
    <3>1. written' = written \/ written' = [written EXCEPT ![t] = written[t] + 1]
      BY <1>7 DEF Rewrite, Write
    <3> QED
      BY <3>1 DEF TypeOK
  <2>5. /\ UNCHANGED <<kind, draft, created, stale, limitLock, streamVars>>
        /\ UNCHANGED <<status, fresh, reported, hold>>
        /\ read' \in [MayHang -> {"none"} \cup ActiveStatus]
    BY <1>7, WorkerOnlyEffect DEF Rewrite
  <2> QED
    BY <2>1, <2>3, <2>4, <2>5 DEF WorkerStep, Frame, Effect, TypeOK, Statuses, Early, Working
<1>8. CASE Fallback(t)
  BY <1>8, <1>h, RecordingStep DEF Fallback, Early, Working
<1>9. CASE Finish(t)
  BY <1>9, <1>h, RecordingStep DEF Finish, Early, Working
<1>10. CASE Enqueue(t)
  <2>1. /\ pc[t] = "enqueue" /\ pc'[t] = "settle" /\ pc' \in [Tasks -> Places]
        /\ \A u \in Tasks \ {t} : pc'[u] = pc[u]
    BY <1>10 DEF Enqueue, Goto, TypeOK, Places, Working
  <2> QED
    BY <1>10, <2>1, WorkerOnlyEffect DEF Enqueue, rowVars, WorkerStep, Frame, Effect, TypeOK, Statuses, Early, Working
<1>11. CASE Raise(t)
  <2>1. PICK place \in {Handler(t), "failing"} : pc' = [pc EXCEPT ![t] = place]
    BY <1>11 DEF Raise, Goto
  <2>2. /\ \A u \in Tasks \ {t} : pc'[u] = pc[u]
        /\ pc'[t] \in {"fallback", "failing", "settle"}
        /\ pc'[t] = "fallback" => Handler(t) = "fallback"
        /\ pc' \in [Tasks -> Places]
    BY <1>h, <2>1 DEF TypeOK, Places, Working
  <2>3. Handler(t) = "fallback" => pc[t] \in Early
    BY DEF Handler, Early
  <2>4. pc'[t] \in Early => pc[t] \in Early
    BY <2>2, <2>3 DEF Early
  <2> QED
    BY <1>11, <2>2, <2>4, WorkerOnlyEffect DEF Raise, rowVars, WorkerStep, Frame, Effect, TypeOK, Statuses, Working
<1>12. CASE Report(t)
  <2>1. CASE pc[t] = "failing" /\ RecordEvent(t, "error") /\ Then(t, "closing")
    <3>1. Handler(t) = "settle"
      BY <2>1 DEF Handler
    <3> QED
      BY <1>12, <2>1, <3>1, RecordingStep DEF Report, Early, Working
  <2>2. CASE pc[t] = "closing" /\ RecordEvent(t, "done") /\ Goto(t, "settle")
    <3>1. Then(t, "settle")
      BY <2>2 DEF Then
    <3>2. Handler(t) = "settle"
      BY <2>2 DEF Handler
    <3> QED
      BY <1>12, <2>2, <3>1, <3>2, RecordingStep DEF Report, Early, Working
  <2> QED
    BY <1>12, <2>1, <2>2 DEF Report
<1>13. CASE Settle(t)
  <2>1. /\ pc[t] = "settle" /\ pc'[t] = "over" /\ pc' \in [Tasks -> Places]
        /\ \A u \in Tasks \ {t} : pc'[u] = pc[u]
    BY <1>13 DEF Settle, Goto, TypeOK, Places, Working
  <2>2. /\ hold' \in [Tasks -> {"none", "held", "charged", "free"}]
        /\ \A u \in Tasks \ {t} : hold'[u] = hold[u]
        /\ hold'[t] = hold[t] \/ hold'[t] = Outcome(t)
    BY <1>13 DEF Settle, Outcome, TypeOK
  <2> QED
    BY <1>13, <2>1, <2>2, WorkerOnlyEffect DEF Settle, rowVars, WorkerStep, Frame, Effect, TypeOK, Statuses, Early, Working
<1>14. CASE Look(t)
  <2>1. read' \in [MayHang -> {"none"} \cup ActiveStatus]
    BY <1>14 DEF Look, TypeOK
  <2>2. pc[t] \in Working /\ UNCHANGED <<rowVars, pc, stale, hold, limitLock, streamVars>>
    BY <1>14 DEF Look, Working
  <2> QED
    BY <2>1, <2>2 DEF rowVars, WorkerStep, Frame, Effect, TypeOK, Statuses, Places
<1> QED
  BY <1>1, <1>2, <1>3, <1>4, <1>5, <1>6, <1>7, <1>8, <1>9, <1>10, <1>11, <1>12, <1>13, <1>14 DEF Worker

\* Every step preserves the types.
LEMMA TypeStep == TypeOK /\ [Next]_vars => TypeOK'
<1> SUFFICES ASSUME TypeOK, [Next]_vars PROVE TypeOK'
  OBVIOUS
<1>1. ASSUME NEW t \in Tasks, Worker(t) PROVE TypeOK'
  <2>1. WorkerStep(t)
    BY <1>1, WorkerSteps
  <2> QED
    BY <2>1 DEF WorkerStep, TypeOK, Statuses, Places, streamVars
<1>2. ASSUME NEW t \in Tasks, NEW k \in Kinds, AskNew(t, k) PROVE TypeOK'
  BY <1>2 DEF AskNew, Goto, TypeOK, streamVars
<1>3. ASSUME NEW t \in Tasks, NEW k \in Kinds, NEW d \in Tasks, AskOn(t, k, d) PROVE TypeOK'
  BY <1>3 DEF AskOn, Goto, TypeOK, streamVars
<1>4. ASSUME NEW t \in Tasks, Count(t) PROVE TypeOK'
  <2>1. pc' \in [Tasks -> Places]
    <3>1. \/ pc' = [pc EXCEPT ![t] = "over"]
          \/ pc' = [pc EXCEPT ![t] = "inserting"]
      BY <1>4 DEF Count, Goto
    <3> QED
      BY <3>1 DEF TypeOK, Places
  <2>2. stale' \in [Tasks -> SUBSET Tasks] /\ limitLock' \in Tasks \cup {NoTask}
    <3>1. Stale \in SUBSET Tasks
      BY DEF Stale, Active
    <3>2. \/ UNCHANGED <<stale, limitLock>>
          \/ stale' = [stale EXCEPT ![t] = Stale] /\ limitLock' = t
      BY <1>4 DEF Count
    <3> QED
      BY <3>1, <3>2 DEF TypeOK
  <2> QED
    BY <1>4, <2>1, <2>2 DEF Count, TypeOK, Places, streamVars, rowVars
<1>5. ASSUME NEW t \in Tasks, Insert(t) PROVE TypeOK'
  <2>1. created' \in Seq(Tasks)
    BY <1>5 DEF Insert, TypeOK
  <2>2. status' \in [Tasks -> Statuses] /\ fresh' \in [Tasks -> BOOLEAN]
    BY <1>5 DEF Insert, TypeOK, Statuses, ActiveStatus, TerminalStatus
  <2>3. pc' \in [Tasks -> Places] /\ stale' \in [Tasks -> SUBSET Tasks] /\ limitLock' = NoTask
    BY <1>5 DEF Insert, Goto, Forget, TypeOK, Places
  <2> QED
    BY <1>5, <2>1, <2>2, <2>3 DEF Insert, TypeOK, Statuses, Places, streamVars
<1>6. ASSUME NEW t \in Tasks, InsertFails(t) PROVE TypeOK'
  BY <1>6 DEF InsertFails, Goto, Forget, TypeOK, streamVars, rowVars
<1>7. ASSUME NEW t \in Tasks, Launch(t) PROVE TypeOK'
  BY <1>7 DEF Launch, Goto, TypeOK, streamVars, rowVars, Working
<1>8. ASSUME NEW t \in Tasks, Die(t) PROVE TypeOK'
  BY <1>8 DEF Die, EndRead, Goto, Forget, TypeOK, streamVars, rowVars
<1>9. ASSUME NEW t \in Tasks, Silence(t) PROVE TypeOK'
  BY <1>9 DEF Silence, TypeOK, streamVars, workVars
<1>10. ASSUME NEW s \in Streams, Connect(s) PROVE TypeOK'
  BY <1>10 DEF Connect, TypeOK, workVars, rowVars
<1>11. ASSUME NEW s \in Streams, ReadTask(s) PROVE TypeOK'
  BY <1>11 DEF ReadTask, TypeOK, workVars, rowVars
<1>12. ASSUME NEW s \in Streams, ReadRows(s) \/ Drop(s) PROVE TypeOK'
  <2>1. /\ spc' \in [Streams -> {"closed", "poll", "rows", "ended"}]
        /\ seen' \in [Streams -> BOOLEAN]
    BY <1>12 DEF ReadRows, Drop, TypeOK
  <2>2. told' \in [Streams -> BOOLEAN]
    <3>1. told \in [Streams -> BOOLEAN]
      BY DEF TypeOK
    <3>2. told' = told \/ told' = [told EXCEPT ![s] = told[s] \/ reported[watched[s]]]
      BY <1>12 DEF ReadRows, Drop
    <3>3. (told[s] \/ reported[watched[s]]) \in BOOLEAN
      OBVIOUS
    <3> QED
      BY <3>1, <3>2, <3>3
  <2> QED
    BY <1>12, <2>1, <2>2 DEF ReadRows, Drop, TypeOK, workVars, rowVars
<1>13. CASE UNCHANGED vars
  BY <1>13 DEF vars, TypeOK, streamVars, workVars, rowVars
<1> QED
  BY <1>1, <1>2, <1>3, <1>4, <1>5, <1>6, <1>7, <1>8, <1>9, <1>10, <1>11, <1>12, <1>13 DEF Next, Request

\* The rows, requests, workers and streams keep their types.
THEOREM TypeCorrect == Spec => []TypeOK
<1>1. Init => TypeOK
  BY TypeOKInit
<1>2. TypeOK /\ [Next]_vars => TypeOK'
  BY TypeStep
<1> QED
  BY <1>1, <1>2, PTL DEF Spec

-----------------------------------------------------------------------------
(* The limit.                                                              *)

\* Whoever is about to insert has the lock, and counted fewer than Limit tasks that live.
Locked ==
    \A t \in Tasks : pc[t] = "inserting" =>
      /\ limitLock = t
      /\ Cardinality(Active \ stale[t]) < Limit

\* A task has no row before it is inserted, and only tasks with a row are found stale.
Unborn ==
    \A t \in Tasks :
      /\ pc[t] \in {"idle", "queued", "inserting"} => status[t] = "none"
      /\ \A u \in stale[t] : status[u] # "none"

LimitInv == TypeOK /\ WithinLimit /\ Locked /\ Unborn

\* A subset of a set of tasks has no more members than the set.
LEMMA CardinalityMonotone ==
    ASSUME NEW S \in SUBSET Tasks, NEW T \in SUBSET Tasks, S \subseteq T
    PROVE  Cardinality(S) \in Nat /\ Cardinality(T) \in Nat /\ Cardinality(S) <= Cardinality(T)
<1>1. IsFiniteSet(T) /\ IsFiniteSet(S)
  BY ConstantsAssumption, FS_Subset
<1> QED
  BY <1>1, FS_CardinalityType, FS_Subset

\* Every step but Count and Insert: no task becomes active, no request begins to insert.
LEMMA LimitKept ==
    ASSUME LimitInv, Active' \subseteq Active,
           \A t \in Tasks : pc'[t] = "inserting" =>
             pc[t] = "inserting" /\ stale'[t] = stale[t] /\ limitLock' = limitLock
    PROVE  WithinLimit' /\ Locked'
<1>1. WithinLimit'
  <2>1. Active \subseteq Tasks
    BY DEF Active
  <2>2. /\ Cardinality(Active) \in Nat /\ Cardinality(Active') \in Nat
        /\ Cardinality(Active') <= Cardinality(Active)
    BY <2>1, CardinalityMonotone
  <2> QED
    BY <2>2, ConstantsAssumption DEF LimitInv, WithinLimit
<1>2. ASSUME NEW t \in Tasks, pc'[t] = "inserting"
      PROVE  limitLock' = t /\ Cardinality(Active' \ stale'[t]) < Limit
  <2>1. limitLock = t /\ Cardinality(Active \ stale[t]) < Limit /\ stale'[t] = stale[t] /\ limitLock' = limitLock
    BY <1>2 DEF LimitInv, Locked
  <2>2. Active' \ stale[t] \subseteq Active \ stale[t] /\ Active \ stale[t] \subseteq Tasks
    BY DEF Active
  <2>3. /\ Cardinality(Active \ stale[t]) \in Nat /\ Cardinality(Active' \ stale[t]) \in Nat
        /\ Cardinality(Active' \ stale[t]) <= Cardinality(Active \ stale[t])
    BY <2>2, CardinalityMonotone
  <2> QED
    BY <2>1, <2>3, ConstantsAssumption
<1> QED
  BY <1>1, <1>2 DEF Locked

\* Count, under the advisory lock, leaves room for the task Insert adds; other steps add none.
LEMMA LimitStep == LimitInv /\ [Next]_vars => LimitInv'
<1> SUFFICES ASSUME LimitInv, [Next]_vars PROVE LimitInv'
  OBVIOUS
<1>t. TypeOK /\ TypeOK'
  BY TypeStep DEF LimitInv
<1>1. ASSUME NEW t \in Tasks, Worker(t) PROVE LimitInv'
  <2>1. WorkerStep(t)
    BY <1>t, <1>1, WorkerSteps
  <2>2. \A u \in Tasks : status'[u] \in ActiveStatus => status[u] \in ActiveStatus
    BY <2>1 DEF WorkerStep, Effect, Frame, ActiveStatus
  <2>3. Active' \subseteq Active
    BY <2>2 DEF Active
  <2>4. \A u \in Tasks : pc'[u] \in {"idle", "queued", "inserting"} => pc'[u] = pc[u] /\ status'[u] = status[u]
    BY <2>1 DEF WorkerStep, Effect, Frame, Working
  <2>5. UNCHANGED <<stale, limitLock>>
    BY <2>1 DEF WorkerStep
  <2>6. \A u \in Tasks : status[u] # "none" => status'[u] # "none"
    BY <2>1 DEF WorkerStep, Effect, Frame
  <2>7. Unborn'
    BY <1>t, <2>4, <2>5, <2>6 DEF LimitInv, Unborn, TypeOK
  <2> QED
    BY <1>t, <2>3, <2>4, <2>5, <2>7, LimitKept DEF LimitInv
<1>2. ASSUME NEW t \in Tasks, Count(t) PROVE LimitInv'
  <2>1. UNCHANGED status /\ Active' = Active
    BY <1>2 DEF Count, rowVars, Active
  <2>2. Unborn'
    <3>1. \A u \in Tasks : pc'[u] \in {"idle", "queued", "inserting"} => pc[u] \in {"idle", "queued", "inserting"}
      BY <1>t, <1>2 DEF Count, Goto, TypeOK
    <3>2. \A u \in Tasks : stale'[u] = stale[u] \/ stale'[u] = Stale
      BY <1>t, <1>2 DEF Count, TypeOK
    <3>3. \A u \in Stale : status[u] # "none"
      BY DEF Stale, Active, ActiveStatus
    <3> QED
      BY <2>1, <3>1, <3>2, <3>3 DEF LimitInv, Unborn
  <2>3. CASE Cardinality(Active \ Stale) >= Limit
    BY <1>t, <1>2, <2>1, <2>2, <2>3, LimitKept DEF LimitInv, Count, Goto, TypeOK
  <2>4. CASE ~(Cardinality(Active \ Stale) >= Limit)
    <3>1. pc' = [pc EXCEPT ![t] = "inserting"] /\ stale'[t] = Stale /\ limitLock' = t /\ limitLock = NoTask
      BY <1>t, <1>2, <2>4 DEF Count, Goto, TypeOK
    <3>2. Cardinality(Active \ Stale) \in Nat
      <4>1. Active \ Stale \subseteq Tasks
        BY DEF Active
      <4> QED
        BY <4>1, CardinalityMonotone
    <3>3. \A u \in Tasks : u # t => pc'[u] # "inserting"
      <4>1. \A u \in Tasks : pc[u] = "inserting" => limitLock = u
        BY DEF LimitInv, Locked
      <4> QED
        BY <1>t, <3>1, <4>1, ConstantsAssumption DEF TypeOK
    <3>4. Locked'
      <4>1. Cardinality(Active \ Stale) < Limit
        BY <2>4, <3>2, ConstantsAssumption
      <4>2. Active' \ stale'[t] = Active \ Stale
        BY <2>1, <3>1
      <4> QED
        BY <3>1, <3>3, <4>1, <4>2 DEF Locked
    <3>5. WithinLimit'
      BY <2>1 DEF LimitInv, WithinLimit
    <3> QED
      BY <1>t, <2>2, <3>4, <3>5 DEF LimitInv
  <2> QED
    BY <2>3, <2>4
<1>3. ASSUME NEW t \in Tasks, Insert(t) PROVE LimitInv'
  <2> DEFINE Counted == Active \ stale[t]
  <2>1. pc[t] = "inserting" /\ limitLock = t /\ Cardinality(Counted) < Limit
    BY <1>3 DEF Insert, LimitInv, Locked
  <2>2. pc' = [pc EXCEPT ![t] = "created"]
    BY <1>3 DEF Insert, Goto
  <2>3. Active' \subseteq Counted \cup {t}
    BY <1>3 DEF Insert, Active, ActiveStatus
  <2>4. WithinLimit'
    <3>1. Counted \subseteq Tasks /\ Counted \cup {t} \subseteq Tasks
      BY DEF Active
    <3>2. IsFiniteSet(Counted)
      BY <3>1, ConstantsAssumption, FS_Subset
    <3>3. /\ Cardinality(Counted) \in Nat
          /\ Cardinality(Counted \cup {t}) <= Cardinality(Counted) + 1
      <4>1. Cardinality(Counted) \in Nat
        BY <3>2, FS_CardinalityType
      <4>2. \/ Cardinality(Counted \cup {t}) = Cardinality(Counted)
            \/ Cardinality(Counted \cup {t}) = Cardinality(Counted) + 1
        BY <3>2, FS_AddElement
      <4> QED
        BY <4>1, <4>2
    <3>4. /\ Cardinality(Active') \in Nat /\ Cardinality(Counted \cup {t}) \in Nat
          /\ Cardinality(Active') <= Cardinality(Counted \cup {t})
      BY <2>3, <3>1, CardinalityMonotone
    <3> QED
      BY <2>1, <3>3, <3>4, ConstantsAssumption DEF WithinLimit
  <2>5. Locked'
    <3>1. \A u \in Tasks : pc[u] = "inserting" => u = t
      BY <2>1 DEF LimitInv, Locked
    <3>2. \A u \in Tasks : pc'[u] # "inserting"
      BY <1>t, <2>2, <3>1 DEF TypeOK
    <3> QED
      BY <3>2 DEF Locked
  <2>6. Unborn'
    <3>1. ASSUME NEW u \in Tasks, pc'[u] \in {"idle", "queued", "inserting"}
          PROVE  status'[u] = "none"
      <4>1. u # t /\ pc[u] \in {"idle", "queued", "inserting"}
        BY <1>t, <2>2, <3>1 DEF TypeOK
      <4>2. status[u] = "none" /\ u \notin stale[t]
        BY <4>1 DEF LimitInv, Unborn
      <4> QED
        BY <1>3, <4>1, <4>2 DEF Insert
    <3>2. \A u \in Tasks : status[u] # "none" => status'[u] # "none"
      BY <1>3 DEF Insert
    <3>3. \A u \in Tasks : stale'[u] \subseteq stale[u]
      BY <1>t, <1>3 DEF Insert, Forget, TypeOK
    <3> QED
      BY <1>t, <3>1, <3>2, <3>3 DEF LimitInv, Unborn, TypeOK
  <2> QED
    BY <1>t, <2>4, <2>5, <2>6 DEF LimitInv
<1>4. ASSUME UNCHANGED status,
             \A u \in Tasks : /\ pc'[u] \in {"idle", "queued", "inserting"} => pc[u] \in {"idle", "queued", "inserting"}
                              /\ pc'[u] = "inserting" =>
                                   pc[u] = "inserting" /\ stale'[u] = stale[u] /\ limitLock' = limitLock
                              /\ stale'[u] \subseteq stale[u]
      PROVE  LimitInv'
  <2>1. Active' \subseteq Active
    BY <1>4 DEF Active
  <2>2. Unborn'
    BY <1>t, <1>4 DEF LimitInv, Unborn, TypeOK
  <2> QED
    BY <1>t, <1>4, <2>1, <2>2, LimitKept DEF LimitInv
<1>5. ASSUME NEW t \in Tasks, NEW k \in Kinds, AskNew(t, k) PROVE LimitInv'
  BY <1>t, <1>4, <1>5 DEF AskNew, Goto, TypeOK
<1>6. ASSUME NEW t \in Tasks, NEW k \in Kinds, NEW d \in Tasks, AskOn(t, k, d) PROVE LimitInv'
  BY <1>t, <1>4, <1>6 DEF AskOn, Goto, TypeOK
<1>7. ASSUME NEW t \in Tasks, InsertFails(t) PROVE LimitInv'
  <2>1. \A u \in Tasks \ {t} : pc[u] # "inserting"
    BY <1>7 DEF InsertFails, LimitInv, Locked
  <2> QED
    BY <1>t, <1>4, <1>7, <2>1 DEF InsertFails, Goto, Forget, TypeOK, rowVars
<1>8. ASSUME NEW t \in Tasks, Launch(t) PROVE LimitInv'
  BY <1>t, <1>4, <1>8 DEF Launch, Goto, TypeOK, rowVars
<1>9. ASSUME NEW t \in Tasks, Die(t) PROVE LimitInv'
  <2>1. \A u \in Tasks \ {t} : pc[u] = "inserting" => limitLock # t
    BY <1>9 DEF LimitInv, Locked
  <2> QED
    BY <1>t, <1>4, <1>9, <2>1 DEF Die, Goto, Forget, TypeOK, rowVars
<1>10. ASSUME NEW t \in Tasks, Silence(t) PROVE LimitInv'
  BY <1>t, <1>4, <1>10 DEF Silence, workVars
<1>11. ASSUME NEW s \in Streams, Connect(s) \/ ReadTask(s) \/ ReadRows(s) \/ Drop(s) PROVE LimitInv'
  BY <1>t, <1>4, <1>11 DEF Connect, ReadTask, ReadRows, Drop, workVars, rowVars
<1>12. CASE UNCHANGED vars
  BY <1>t, <1>4, <1>12 DEF vars, workVars, rowVars
<1> QED
  BY <1>1, <1>2, <1>3, <1>5, <1>6, <1>7, <1>8, <1>9, <1>10, <1>11, <1>12 DEF Next, Request

\* Initially nothing is in flight.
LEMMA LimitInit == Init => LimitInv
<1> SUFFICES ASSUME Init PROVE LimitInv
  OBVIOUS
<1>1. Active = {}
  BY DEF Init, Active, ActiveStatus
<1>2. WithinLimit
  BY <1>1, FS_EmptySet, ConstantsAssumption DEF WithinLimit
<1>3. Locked /\ Unborn
  BY ConstantsAssumption DEF Init, Locked, Unborn
<1> QED
  BY <1>2, <1>3, TypeOKInit DEF LimitInv

\* No number of concurrent requests, crashes or reaped tasks brings a user over the limit.
THEOREM LimitHolds == Spec => []WithinLimit
<1>1. Init => LimitInv
  BY LimitInit
<1>2. LimitInv /\ [Next]_vars => LimitInv'
  BY LimitStep
<1>3. LimitInv => WithinLimit
  BY DEF LimitInv
<1> QED
  BY <1>1, <1>2, <1>3, PTL DEF Spec

\* Nothing the worker of a failed task still records makes it a success.
THEOREM FailureIsFinal == Spec => FailedIsFinal
<1>1. Init => LimitInv
  BY LimitInit
<1>2. LimitInv /\ [Next]_vars => LimitInv'
  BY LimitStep
<1>3. LimitInv /\ [Next]_vars => [\A t \in Tasks \ MayHang : status[t] = "failed" => status'[t] = "failed"]_vars
  <2> SUFFICES ASSUME LimitInv, [Next]_vars, NEW u \in Tasks \ MayHang, status[u] = "failed"
               PROVE  status'[u] = "failed"
    OBVIOUS
  <2>1. ASSUME NEW t \in Tasks, Worker(t) PROVE status'[u] = "failed"
    <3>1. WorkerStep(t)
      BY <2>1, WorkerSteps DEF LimitInv
    <3> QED
      BY <3>1 DEF WorkerStep, Effect, Frame
  <2>2. ASSUME NEW t \in Tasks, Insert(t) PROVE status'[u] = "failed"
    <3>1. status[t] = "none"
      BY <2>2 DEF Insert, LimitInv, Unborn
    <3> QED
      BY <2>2, <3>1 DEF Insert
  <2>3. CASE UNCHANGED status
    BY <2>3
  <2> QED
    BY <2>1, <2>2, <2>3 DEF Next, Request, vars, rowVars, AskNew, AskOn, Count, InsertFails, Launch,
       Die, Silence, Connect, ReadTask, ReadRows, Drop
<1> QED
  BY <1>1, <1>2, <1>3, PTL DEF Spec, FailedIsFinal

-----------------------------------------------------------------------------
(* The heartbeat.                                                          *)

\* A task that was not touched for so long has no worker any more, unless its worker may hang.
Silent == \A t \in Tasks \ MayHang : ~fresh[t] => pc[t] = "over"

\* So it is with the tasks a creation found stale.
StaleIsOver == \A t \in Tasks : \A u \in stale[t] \ MayHang : pc[u] = "over" /\ status[u] # "succeeded"

\* Credits are settled last.
Settled == \A t \in Tasks : hold[t] \in {"charged", "free"} => pc[t] = "over"

\* A worker that may still write has not failed.
Before == \A t \in Tasks \ MayHang : pc[t] \in Early => status[t] # "failed"

HeartInv == LimitInv /\ Silent /\ StaleIsOver /\ Settled /\ Before /\ PaidIfSucceeded

\* Nothing is stale or settled at first.
LEMMA HeartInit == Init => HeartInv
<1> SUFFICES ASSUME Init PROVE HeartInv
  OBVIOUS
<1>1. LimitInv
  BY LimitInit
<1>2. Silent /\ StaleIsOver /\ Settled /\ Before /\ PaidIfSucceeded
  BY DEF Init, Silent, StaleIsOver, Settled, Before, PaidIfSucceeded, Early
<1> QED
  BY <1>1, <1>2 DEF HeartInv

\* Steps that leave rows and holds alone, and bring no worker nearer to its draft.
LEMMA HeartKept ==
    ASSUME HeartInv, LimitInv', UNCHANGED <<status, hold>>,
           \A t \in Tasks : /\ fresh'[t] = fresh[t] \/ fresh'[t] = TRUE \/ t \in MayHang \/ pc'[t] = "over"
                            /\ pc[t] = "over" => pc'[t] = "over"
                            /\ pc'[t] \in Early => pc[t] \in Early \/ status[t] = "none"
                            /\ stale'[t] \subseteq stale[t]
    PROVE  HeartInv'
<1>1. Silent' /\ Settled' /\ Before' /\ PaidIfSucceeded'
  BY DEF HeartInv, Silent, Settled, Before, PaidIfSucceeded
<1>2. StaleIsOver'
  <2>1. \A t \in Tasks : stale[t] \subseteq Tasks
    BY DEF HeartInv, LimitInv, TypeOK
  <2> QED
    BY <2>1 DEF HeartInv, StaleIsOver
<1> QED
  BY <1>1, <1>2 DEF HeartInv

\* A task reaped as stale has no worker left but one that may hang, and no step revives it.
LEMMA HeartStep == HeartInv /\ [Next]_vars => HeartInv'
<1> SUFFICES ASSUME HeartInv, [Next]_vars PROVE HeartInv'
  OBVIOUS
<1>t. TypeOK /\ LimitInv /\ LimitInv'
  BY LimitStep DEF HeartInv, LimitInv
<1>1. ASSUME NEW t \in Tasks, Worker(t) PROVE HeartInv'
  <2>1. WorkerStep(t)
    BY <1>t, <1>1, WorkerSteps
  <2>2. pc[t] # "over" /\ pc[t] \in Working
    BY <2>1 DEF WorkerStep, Effect, Working
  <2>3. \A u \in Tasks : u # t => Frame(u)
    BY <2>1 DEF WorkerStep
  <2>4. Silent'
    BY <2>1, <2>2, <2>3 DEF WorkerStep, Effect, Frame, HeartInv, Silent
  <2>5. StaleIsOver'
    <3>1. stale' = stale /\ \A u \in Tasks : stale[u] \subseteq Tasks
      BY <1>t, <2>1 DEF WorkerStep, TypeOK
    <3>2. \A u \in Tasks : pc[u] = "over" => u # t
      BY <2>2
    <3> QED
      BY <2>3, <3>1, <3>2 DEF Frame, HeartInv, StaleIsOver
  <2>6. Settled'
    <3>1. hold[t] \notin {"charged", "free"}
      BY <2>2 DEF HeartInv, Settled
    <3>2. hold'[t] \in {"charged", "free"} => pc'[t] = "over"
      BY <2>1, <3>1 DEF WorkerStep, Effect
    <3> QED
      BY <2>3, <3>2 DEF Frame, HeartInv, Settled
  <2>7. Before'
    <3>1. t \notin MayHang /\ pc'[t] \in Early => status'[t] # "failed"
      BY <2>1 DEF WorkerStep, Effect, HeartInv, Before
    <3> QED
      BY <2>3, <3>1 DEF Frame, HeartInv, Before
  <2>8. PaidIfSucceeded'
    <3>1. hold[t] \notin {"charged", "free"}
      BY <2>2 DEF HeartInv, Settled
    <3>2. /\ hold'[t] = "free" => status'[t] # "succeeded"
          /\ hold'[t] = "charged" => status'[t] = "succeeded"
      BY <2>1, <3>1 DEF WorkerStep, Effect, Outcome
    <3> QED
      BY <2>3, <3>2 DEF Frame, HeartInv, PaidIfSucceeded
  <2> QED
    BY <1>t, <2>4, <2>5, <2>6, <2>7, <2>8 DEF HeartInv
<1>2. ASSUME NEW t \in Tasks, Count(t) PROVE HeartInv'
  <2>1. UNCHANGED <<status, fresh, hold>> /\ pc[t] = "queued"
    BY <1>2 DEF Count, rowVars
  <2>2. /\ \A u \in Tasks \ {t} : pc'[u] = pc[u]
        /\ pc'[t] \in {"over", "inserting"}
    BY <1>t, <1>2 DEF Count, Goto, TypeOK
  <2>3. \A u \in Tasks : stale'[u] = stale[u] \/ stale'[u] = Stale
    <3>1. UNCHANGED stale \/ stale' = [stale EXCEPT ![t] = Stale]
      BY <1>2 DEF Count
    <3> QED
      BY <1>t, <3>1 DEF TypeOK
  <2>4. StaleIsOver'
    <3>1. \A u \in Stale \ MayHang : u \in Tasks /\ pc[u] = "over" /\ status[u] # "succeeded"
      BY DEF Stale, Active, ActiveStatus, HeartInv, Silent
    <3>2. \A u \in Tasks : pc[u] = "over" => pc'[u] = "over"
      BY <2>1, <2>2
    <3>3. \A v \in Tasks : stale[v] \subseteq Tasks
      BY <1>t DEF TypeOK
    <3> QED
      BY <2>1, <2>3, <3>1, <3>2, <3>3 DEF HeartInv, StaleIsOver
  <2>5. Silent' /\ Settled' /\ Before' /\ PaidIfSucceeded'
    BY <2>1, <2>2 DEF HeartInv, Silent, Settled, Before, PaidIfSucceeded, Early
  <2> QED
    BY <1>t, <2>4, <2>5 DEF HeartInv
<1>3. ASSUME NEW t \in Tasks, Insert(t) PROVE HeartInv'
  <2>1. pc[t] = "inserting" /\ status[t] = "none" /\ status'[t] = "pending" /\ fresh'[t] = TRUE /\ hold' = hold
    BY <1>t, <1>3 DEF Insert, LimitInv, Unborn
  <2>2. pc'[t] = "created" /\ \A u \in Tasks \ {t} : pc'[u] = pc[u]
    BY <1>t, <1>3 DEF Insert, Goto, TypeOK
  <2>3. \A u \in Tasks : u # t => \/ u \in stale[t] /\ status'[u] = "failed" /\ fresh'[u] = TRUE
                                  \/ u \notin stale[t] /\ status'[u] = status[u] /\ fresh'[u] = fresh[u]
    BY <1>t, <1>3 DEF Insert, TypeOK
  <2>4. \A u \in stale[t] \ MayHang : pc[u] = "over" /\ status[u] # "succeeded"
    BY DEF HeartInv, StaleIsOver
  <2>5. hold[t] \notin {"charged", "free"}
    BY <2>1 DEF HeartInv, Settled
  <2>6. Silent' /\ Settled'
    BY <2>1, <2>2, <2>3, <2>5 DEF HeartInv, Silent, Settled
  <2>7. Before'
    BY <2>1, <2>2, <2>3, <2>4 DEF HeartInv, Before, Early
  <2>8. PaidIfSucceeded'
    BY <2>1, <2>3, <2>4, <2>5 DEF HeartInv, PaidIfSucceeded
  <2>9. StaleIsOver'
    <3>1. \A u \in Tasks : stale'[u] \subseteq stale[u] /\ stale[u] \subseteq Tasks
      BY <1>t, <1>3 DEF Insert, Forget, TypeOK
    <3> QED
      BY <2>1, <2>2, <2>3, <3>1 DEF HeartInv, StaleIsOver
  <2> QED
    BY <1>t, <2>6, <2>7, <2>8, <2>9 DEF HeartInv
<1>4. ASSUME NEW t \in Tasks, NEW k \in Kinds, AskNew(t, k) PROVE HeartInv'
  BY <1>t, <1>4, HeartKept DEF AskNew, Goto, TypeOK, Early
<1>5. ASSUME NEW t \in Tasks, NEW k \in Kinds, NEW d \in Tasks, AskOn(t, k, d) PROVE HeartInv'
  BY <1>t, <1>5, HeartKept DEF AskOn, Goto, TypeOK, Early
<1>6. ASSUME NEW t \in Tasks, InsertFails(t) PROVE HeartInv'
  BY <1>t, <1>6, HeartKept DEF InsertFails, Goto, Forget, TypeOK, Early, rowVars
<1>7. ASSUME NEW t \in Tasks, Launch(t) PROVE HeartInv'
  BY <1>t, <1>7, HeartKept DEF Launch, Goto, TypeOK, Early, rowVars
<1>8. ASSUME NEW t \in Tasks, Die(t) PROVE HeartInv'
  BY <1>t, <1>8, HeartKept DEF Die, Goto, Forget, TypeOK, Early, rowVars
<1>9. ASSUME NEW t \in Tasks, Silence(t) PROVE HeartInv'
  BY <1>t, <1>9, HeartKept DEF Silence, TypeOK, workVars
<1>10. ASSUME NEW s \in Streams, Connect(s) \/ ReadTask(s) \/ ReadRows(s) \/ Drop(s) PROVE HeartInv'
  BY <1>t, <1>10, HeartKept DEF Connect, ReadTask, ReadRows, Drop, workVars, rowVars
<1>11. CASE UNCHANGED vars
  BY <1>t, <1>11, HeartKept DEF vars, workVars, rowVars
<1> QED
  BY <1>1, <1>2, <1>3, <1>4, <1>5, <1>6, <1>7, <1>8, <1>9, <1>10, <1>11 DEF Next, Request

\* What was settled as free never succeeds, and what was charged stays a success.
THEOREM PaymentFollowsSuccess == Spec => []PaidIfSucceeded
<1>1. Init => HeartInv
  BY HeartInit
<1>2. HeartInv /\ [Next]_vars => HeartInv'
  BY HeartStep
<1>3. HeartInv => PaidIfSucceeded
  BY DEF HeartInv
<1> QED
  BY <1>1, <1>2, <1>3, PTL DEF Spec

\* A failed task does not touch its draft any more.
THEOREM FailedTasksDoNotWrite == Spec => NoLateWrite
<1>1. Init => HeartInv
  BY HeartInit
<1>2. HeartInv /\ [Next]_vars => HeartInv'
  BY HeartStep
<1>3. HeartInv /\ [Next]_vars =>
        [\A t \in Tasks \ MayHang : status[t] = "failed" => written'[t] = written[t]]_vars
  <2> SUFFICES ASSUME HeartInv, [Next]_vars, NEW u \in Tasks \ MayHang, status[u] = "failed"
               PROVE  written'[u] = written[u]
    OBVIOUS
  <2>1. ASSUME NEW t \in Tasks, Worker(t) PROVE written'[u] = written[u]
    <3>1. WorkerStep(t)
      BY <2>1, WorkerSteps DEF HeartInv, LimitInv
    <3>2. pc[u] \notin Early
      BY DEF HeartInv, Before
    <3> QED
      BY <3>1, <3>2 DEF WorkerStep, Effect, Frame
  <2>2. CASE UNCHANGED written
    BY <2>2
  <2> QED
    BY <2>1, <2>2 DEF Next, Request, vars, rowVars, AskNew, AskOn, Count, Insert, InsertFails, Launch,
       Die, Silence, Connect, ReadTask, ReadRows, Drop
<1> QED
  BY <1>1, <1>2, <1>3, PTL DEF Spec, NoLateWrite

-----------------------------------------------------------------------------
(* The streams.  A success has its done event in the log, and a stream     *)
(* that has seen its task ended finds it ended still when it reads the     *)
(* events: the only end without an event is the reaper's.                  *)

\* A task that succeeded has said so, or has reported an error before.
SuccessReported == \A t \in Tasks : status[t] = "succeeded" => reported[t]

\* A connected stream watches a task, and one that has seen its end watches an ended one.
SeenEnded ==
    \A s \in Streams :
      /\ spc[s] \in {"poll", "rows"} => watched[s] \in Tasks
      /\ spc[s] = "rows" /\ seen[s] => status[watched[s]] \in TerminalStatus

StreamInv == LimitInv /\ SuccessReported /\ SeenEnded

\* What is reported stays reported, and a task becomes a success only with an event.
LEMMA RecordReports ==
    ASSUME TypeOK, NEW t \in Tasks, NEW event \in {"progress", "result", "error", "done"},
           RecordEvent(t, event)
    PROVE  \A u \in Tasks : /\ reported[u] => reported'[u]
                            /\ status'[u] = "succeeded" => status[u] = "succeeded" \/ reported'[u]
BY DEF TypeOK, RecordEvent, StatusAfter

\* So does every step of a worker.
LEMMA WorkerReports ==
    ASSUME TypeOK, NEW t \in Tasks, Worker(t)
    PROVE  \A u \in Tasks : /\ reported[u] => reported'[u]
                            /\ status'[u] = "succeeded" => status[u] = "succeeded" \/ reported'[u]
<1>1. ASSUME NEW event \in {"progress", "result", "error", "done"}, RecordEvent(t, event)
      PROVE  \A u \in Tasks : /\ reported[u] => reported'[u]
                              /\ status'[u] = "succeeded" => status[u] = "succeeded" \/ reported'[u]
  BY <1>1, RecordReports
<1>2. CASE Boot(t) \/ Progress(t) \/ Result(t) \/ GiveUp(t) \/ Fallback(t) \/ Finish(t) \/ Report(t)
  BY <1>1, <1>2 DEF Boot, Progress, Result, GiveUp, Fallback, Finish, Report
<1>3. CASE MarkRunning(t)
  BY <1>3 DEF MarkRunning, TypeOK
<1>4. CASE UNCHANGED <<status, reported>>
  BY <1>4
<1> QED
  BY <1>2, <1>3, <1>4 DEF Worker, Look, Reserve, Rewrite, Enqueue, Raise, Settle, rowVars

\* Nothing has ended but the earlier tasks, which have reported, and nobody is connected.
LEMMA StreamInit == Init => StreamInv
<1> SUFFICES ASSUME Init PROVE StreamInv
  OBVIOUS
<1>1. SuccessReported /\ SeenEnded
  BY DEF Init, SuccessReported, SeenEnded
<1> QED
  BY <1>1, LimitInit DEF StreamInv

\* The rows of the tasks move on; the streams stay where they are.
LEMMA RowsKept ==
    ASSUME StreamInv, LimitInv', UNCHANGED streamVars,
           \A u \in Tasks : /\ reported[u] => reported'[u]
                            /\ status'[u] = "succeeded" => status[u] = "succeeded" \/ reported'[u]
                            /\ status[u] \in TerminalStatus => status'[u] \in TerminalStatus
    PROVE  StreamInv'
BY DEF StreamInv, SuccessReported, SeenEnded, streamVars, LimitInv, TypeOK

\* A step of anyone keeps successes reported and ends seen.
LEMMA StreamStep == StreamInv /\ [Next]_vars => StreamInv'
<1> SUFFICES ASSUME StreamInv, [Next]_vars PROVE StreamInv'
  OBVIOUS
<1>t. TypeOK /\ LimitInv /\ LimitInv'
  BY LimitStep DEF StreamInv, LimitInv
<1>1. ASSUME NEW t \in Tasks, Worker(t) PROVE StreamInv'
  <2>1. WorkerStep(t)
    BY <1>t, <1>1, WorkerSteps
  <2>2. \A u \in Tasks : status[u] \in TerminalStatus => status'[u] \in TerminalStatus
    BY <2>1 DEF WorkerStep, Effect, Frame, TerminalStatus
  <2>3. UNCHANGED streamVars
    BY <2>1 DEF WorkerStep
  <2>4. \A u \in Tasks : /\ reported[u] => reported'[u]
                         /\ status'[u] = "succeeded" => status[u] = "succeeded" \/ reported'[u]
    BY <1>t, <1>1, WorkerReports
  <2> QED
    BY <1>t, <2>2, <2>3, <2>4, RowsKept
<1>2. ASSUME NEW t \in Tasks, Insert(t) PROVE StreamInv'
  <2>1. status[t] = "none"
    BY <1>2 DEF Insert, StreamInv, LimitInv, Unborn
  <2>2. \A u \in Tasks : /\ reported'[u] = reported[u]
                         /\ status'[u] = "succeeded" => status[u] = "succeeded"
                         /\ status[u] \in TerminalStatus => status'[u] \in TerminalStatus
    BY <1>2, <2>1 DEF Insert, TerminalStatus
  <2>3. UNCHANGED streamVars
    BY <1>2 DEF Insert
  <2> QED
    BY <1>t, <2>2, <2>3, RowsKept
<1>3. CASE UNCHANGED <<status, reported, streamVars>>
  BY <1>t, <1>3, RowsKept
<1>4. ASSUME NEW s \in Streams, Connect(s) \/ ReadTask(s) \/ ReadRows(s) \/ Drop(s) PROVE StreamInv'
  <2>1. UNCHANGED <<status, reported>>
    BY <1>4 DEF Connect, ReadTask, ReadRows, Drop, rowVars
  <2>2. SuccessReported'
    BY <2>1 DEF StreamInv, SuccessReported
  <2>3. SeenEnded'
    <3> SUFFICES ASSUME NEW q \in Streams
                 PROVE  /\ spc'[q] \in {"poll", "rows"} => watched'[q] \in Tasks
                        /\ spc'[q] = "rows" /\ seen'[q] => status'[watched'[q]] \in TerminalStatus
      BY DEF SeenEnded
    <3>1. /\ spc[q] \in {"poll", "rows"} => watched[q] \in Tasks
          /\ spc[q] = "rows" /\ seen[q] => status[watched[q]] \in TerminalStatus
      BY DEF StreamInv, SeenEnded
    <3>2. CASE q # s
      <4>1. spc'[q] = spc[q] /\ watched'[q] = watched[q] /\ seen'[q] = seen[q]
        BY <1>t, <1>4, <3>2 DEF Connect, ReadTask, ReadRows, Drop, TypeOK
      <4> QED
        BY <2>1, <3>1, <4>1
    <3>3. CASE q = s /\ Connect(s)
      <4>1. spc'[s] = "poll" /\ watched'[s] \in Tasks
        BY <1>t, <3>3 DEF Connect, TypeOK
      <4> QED
        BY <3>3, <4>1
    <3>4. CASE q = s /\ ReadTask(s)
      <4>1. watched' = watched /\ spc[s] = "poll" /\ seen'[s] = (status[watched[s]] \in TerminalStatus)
        BY <1>t, <3>4 DEF ReadTask, TypeOK
      <4> QED
        BY <2>1, <3>1, <3>4, <4>1
    <3>5. CASE q = s /\ (ReadRows(s) \/ Drop(s))
      <4>1. watched' = watched /\ seen'[s] = FALSE /\ spc[s] \in {"poll", "rows"}
        BY <1>t, <3>5 DEF ReadRows, Drop, TypeOK
      <4> QED
        BY <3>1, <3>5, <4>1
    <3> QED
      BY <1>4, <3>2, <3>3, <3>4, <3>5
  <2> QED
    BY <1>t, <2>2, <2>3 DEF StreamInv
<1> QED
  BY <1>1, <1>2, <1>3, <1>4 DEF Next, Request, vars, rowVars, workVars, AskNew, AskOn, Count, InsertFails,
     Launch, Die, Silence

\* A client whose stream ended by itself has the event that ended its task, unless the task was reaped.
THEOREM StreamsEndComplete == Spec => EndedStreamIsComplete
<1> DEFINE Complete ==
      \A s \in Streams : spc[s] # "ended" /\ spc'[s] = "ended" =>
          LET t == watched[s] IN told'[s] \/ (status[t] = "failed" /\ ~reported[t])
<1>1. StreamInv /\ [Next]_vars => Complete
  <2> SUFFICES ASSUME StreamInv, [Next]_vars, NEW s \in Streams, spc[s] # "ended", spc'[s] = "ended"
               PROVE  told'[s] \/ (status[watched[s]] = "failed" /\ ~reported[watched[s]])
    OBVIOUS
  <2>t. TypeOK
    BY DEF StreamInv, LimitInv
  <2>1. ReadRows(s)
    <3>1. ASSUME NEW t \in Tasks, Worker(t) PROVE FALSE
      <4>1. WorkerStep(t)
        BY <2>t, <3>1, WorkerSteps
      <4> QED
        BY <4>1 DEF WorkerStep, streamVars
    <3>2. ASSUME NEW q \in Streams, Connect(q) \/ ReadTask(q) \/ ReadRows(q) \/ Drop(q) PROVE q = s /\ ReadRows(s)
      BY <2>t, <3>2 DEF Connect, ReadTask, ReadRows, Drop, TypeOK
    <3>3. CASE UNCHANGED streamVars
      BY <3>3 DEF streamVars
    <3> QED
      BY <3>1, <3>2, <3>3 DEF Next, Request, vars, AskNew, AskOn, Count, Insert, InsertFails, Launch, Die, Silence
  <2>2. spc[s] = "rows" /\ seen[s] /\ told'[s] = (told[s] \/ reported[watched[s]])
    BY <2>t, <2>1 DEF ReadRows, TypeOK
  <2>3. watched[s] \in Tasks /\ status[watched[s]] \in TerminalStatus
    BY <2>2 DEF StreamInv, SeenEnded
  <2>4. status[watched[s]] = "succeeded" => reported[watched[s]]
    BY <2>3 DEF StreamInv, SuccessReported
  <2> QED
    BY <2>2, <2>3, <2>4 DEF TerminalStatus
<1>2. Spec => [][Complete]_vars
  BY <1>1, StreamInit, StreamStep, PTL DEF Spec
<1> QED
  BY <1>2, PTL DEF EndedStreamIsComplete

(***************************************************************************)
(* The lists of FreeStarts, Chronicle, VisualStyle and CastBuilding are    *)
(* made by recursion over the items of another list.  That such a          *)
(* recursion defines a function is shown by induction over the length, for *)
(* all of them at once; what it makes of a list is then followed item by   *)
(* item.                                                                   *)
(***************************************************************************)
CONSTANTS None, Actors, Favourites, MaxNames, Stranger, Sites, Home, MaxItems, MaxStages

VARIABLES initial, starts, missed, phase

Begin == INSTANCE FreeStarts WITH
    Playable <- Actors, Candidates <- Favourites, Places <- Sites,
    first <- initial, entries <- starts, warned <- missed, at <- phase

CONSTANTS Headings, Passages, Invented, KMin, Batches, MaxId, MaxAnswer

VARIABLES bygone, known, plot, upcoming, sizes, stop

Past == INSTANCE Chronicle WITH
    Titles <- Headings, Longest <- MaxAnswer,
    past <- bygone, heard <- known, beats <- plot, next <- upcoming, told <- sizes, at <- stop

CONSTANTS Styles, Allowed, Pools, Default, Hash, Scores, MaxScores, Targets

VARIABLES sketch, issue, arts

Styling == INSTANCE VisualStyle WITH Longest <- MaxScores, draft <- sketch, world <- issue

CONSTANTS Rosters, BatchSize, MaxReplies, Core, Trusts

VARIABLES roll, orders, replies, troupe, ties, act

Casting == INSTANCE CastBuilding WITH
    Longest <- MaxReplies,
    roster <- roll, asked <- orders, answers <- replies, cast <- troupe, peers <- ties, at <- act

\* Induction over the numbers, for a set of them.
LEMMA NumberInduction ==
  ASSUME NEW N, 0 \in N, \A n \in Nat : n \in N => n + 1 \in N
  PROVE  \A n \in Nat : n \in N
<1> DEFINE B == Nat \ N
<1>1. ASSUME B # {} PROVE FALSE
  <2>1. PICK n \in B : \A m \in B : <<m, n>> \notin OpToRel(<, Nat)
    BY <1>1, NatLessThanWellFounded, WFMin, B \subseteq Nat
  <2>2. \A m \in B : ~(m < n)
    BY <2>1 DEF OpToRel
  <2>3. n \in Nat /\ n # 0
    BY <2>1
  <2>4. n - 1 \in Nat /\ n - 1 < n /\ (n - 1) + 1 = n
    BY <2>3
  <2> QED
    BY <2>1, <2>2, <2>3, <2>4
<1> QED
  BY <1>1

\* The recursions: what they begin with, and what they make of the next item.
Base(how, S) == IF how = "numbered" THEN S ELSE << >>

Sifted(how, list, x, S) ==
    CASE how = "those"    -> IF x \in S THEN Append(list, x) ELSE list
      [] how = "distinct" -> IF x \in Begin!ToSet(list) THEN list ELSE Append(list, x)
      [] how = "merged"   -> IF \E i \in DOMAIN list : list[i].title = x.title
                             THEN [i \in DOMAIN list |-> IF list[i].title = x.title THEN x ELSE list[i]]
                             ELSE Append(list, x)
      [] how = "numbered" -> Past!Reserved(list, x)
      [] how = "swept"    -> IF x.id \in Past!Used(list) THEN list ELSE Append(list, x)
      [] how = "heard"    -> IF x.style \in S \ {list[i].style : i \in DOMAIN list} THEN Append(list, x) ELSE list
      [] how = "placed"   -> Styling!Placed(list, x)
      [] how = "joined"   -> list \o x
      [] how = "added"    -> Casting!Added(list, x)

Sifts(f, how, list, S, n) ==
    f = [k \in 0..n |-> IF k = 0 THEN Base(how, S) ELSE Sifted(how, f[k - 1], list[k], S)]

LEMMA SiftingExists ==
  ASSUME NEW how, NEW list, NEW S
  PROVE  \A n \in Nat : \E f : Sifts(f, how, list, S, n)
<1> DEFINE N == {n \in Nat : \E f : Sifts(f, how, list, S, n)}
           Step(g, k) == IF k = 0 THEN Base(how, S) ELSE Sifted(how, g[k - 1], list[k], S)
<1>1. 0 \in N
  <2>1. Sifts([k \in 0..0 |-> Base(how, S)], how, list, S, 0)
    BY DEF Sifts
  <2> QED
    BY <2>1
<1>2. ASSUME NEW n \in Nat, n \in N PROVE n + 1 \in N
  <2>1. PICK f : Sifts(f, how, list, S, n)
    BY <1>2
  <2> DEFINE next == [k \in 0..(n + 1) |-> IF k \in 0..n THEN f[k] ELSE Step(f, k)]
  <2>2. \A k \in 0..n : f[k] = Step(f, k)
    BY <2>1 DEF Sifts
  <2>3. ASSUME NEW k \in 0..(n + 1) PROVE next[k] = Step(next, k)
    <3>1. CASE k = 0
      BY <2>2, <3>1
    <3>2. CASE k # 0
      <4>1. k - 1 \in 0..n /\ k - 1 \in 0..(n + 1)
        BY <3>2
      <4>2. next[k - 1] = f[k - 1]
        BY <4>1
      <4>3. Step(next, k) = Step(f, k)
        BY <3>2, <4>2
      <4>4. next[k] = Step(f, k)
        <5> HIDE DEF Step
        <5> QED
          BY <2>2
      <4> QED
        BY <4>3, <4>4
    <3> QED
      BY <3>1, <3>2
  <2>4. next = [k \in 0..(n + 1) |-> Step(next, k)]
    <3> HIDE DEF Step
    <3> QED
      BY <2>3
  <2>5. Sifts(next, how, list, S, n + 1)
    <3> HIDE DEF next
    <3> QED
      BY <2>4 DEF Sifts
  <2> QED
    BY <2>5
<1> QED
  <2> HIDE DEF N
  <2>1. \A n \in Nat : n \in N
    BY <1>1, <1>2, NumberInduction
  <2> QED
    BY <2>1 DEF N

(***************************************************************************)
(* The beginnings of free play (FreeStarts).  What a recursion leaves of a *)
(* list has its items in its order, because each stands for a place in it. *)
(***************************************************************************)
\* The lists of a world are lists; it has a place, and at least one name is asked about.
Listings ==
    /\ \E S : Actors \in Seq(S) /\ Favourites \in Seq(S)
    /\ (\E S : Sites \in Seq(S)) /\ Sites # << >>
    /\ {MaxNames, MaxItems, MaxStages} \subseteq Nat

\* Beginnings as a character may have them.
Startable(name, stages) ==
    /\ Len(stages) >= 2
    /\ \A k \in DOMAIN stages :
         /\ stages[k].place \in Begin!ToSet(Sites) /\ stages[k].knows \subseteq Begin!Cast \ {name}
         /\ k > 1 => stages[k - 1].id < stages[k].id

BeginInv ==
    /\ phase = "first" => DOMAIN initial = {}
    /\ \A n \in DOMAIN initial : Startable(n, initial[n])
    /\ Begin!BeginningsAreSound

\* The items of a list stand in it in the order of the other one, of which it is made.
Within(made, list, n) ==
    /\ \A i \in DOMAIN made : \E p \in 1..n : made[i] = list[p]
    /\ \A i, j \in DOMAIN made : i < j => \E p, q \in 1..n : p < q /\ made[i] = list[p] /\ made[j] = list[q]

\* One more item.
LEMMA OneMoreItem ==
  ASSUME NEW T, NEW made \in Seq(T), NEW list, NEW n \in Nat, Within(made, list, n), list[n + 1] \in T
  PROVE  LET more == Append(made, list[n + 1])
         IN  /\ more \in Seq(T) /\ Within(more, list, n + 1)
             /\ Begin!ToSet(more) = Begin!ToSet(made) \cup {list[n + 1]}
<1> DEFINE x == list[n + 1]
           more == Append(made, x)
           l == Len(made)
<1>1. more \in Seq(T) /\ l \in Nat /\ DOMAIN made = 1..l /\ DOMAIN more = 1..(l + 1)
  OBVIOUS
<1>2. (\A i \in 1..l : more[i] = made[i]) /\ more[l + 1] = x
  OBVIOUS
<1>3. \A i \in 1..(l + 1) : i \in 1..l \/ i = l + 1
  BY <1>1
<1>4. Begin!ToSet(more) = Begin!ToSet(made) \cup {x}
  <2>1. 1..(l + 1) = (1..l) \cup {l + 1}
    BY <1>1
  <2>2. {more[i] : i \in 1..(l + 1)} = {more[i] : i \in 1..l} \cup {more[l + 1]}
    BY <2>1
  <2>3. {more[i] : i \in 1..l} = {made[i] : i \in 1..l}
    BY <1>2
  <2> QED
    BY <1>1, <1>2, <2>2, <2>3 DEF Begin!ToSet
<1> HIDE DEF x, more, l
<1>5. \A p \in 1..n : p \in 1..(n + 1) /\ p < n + 1
  OBVIOUS
<1>6. n + 1 \in 1..(n + 1) /\ x = list[n + 1]
  BY DEF x
<1>7. ASSUME NEW i \in DOMAIN more PROVE \E p \in 1..(n + 1) : more[i] = list[p]
  <2>1. CASE i \in 1..l
    BY <1>1, <1>2, <1>5, <2>1 DEF Within
  <2>2. CASE i = l + 1
    BY <1>2, <1>6, <2>2
  <2> QED
    BY <1>1, <1>3, <2>1, <2>2
<1>8. ASSUME NEW i \in DOMAIN more, NEW j \in DOMAIN more, i < j
      PROVE  \E p, q \in 1..(n + 1) : p < q /\ more[i] = list[p] /\ more[j] = list[q]
  <2>1. i \in 1..l
    BY <1>1, <1>8
  <2>2. CASE j \in 1..l
    <3>1. PICK p \in 1..n, q \in 1..n : p < q /\ made[i] = list[p] /\ made[j] = list[q]
      <4>1. i \in DOMAIN made /\ j \in DOMAIN made /\ i < j
        BY <1>1, <1>8, <2>1, <2>2
      <4> QED
        BY <4>1 DEF Within
    <3>2. more[i] = made[i] /\ more[j] = made[j]
      BY <1>2, <2>1, <2>2
    <3>3. p \in 1..(n + 1) /\ q \in 1..(n + 1)
      BY <1>5
    <3>4. more[i] = list[p] /\ more[j] = list[q]
      BY <3>1, <3>2
    <3> HIDE DEF Within
    <3> QED
      BY <3>1, <3>3, <3>4
  <2>3. CASE j = l + 1
    <3>1. PICK p \in 1..n : made[i] = list[p]
      BY <1>1, <2>1 DEF Within
    <3>2. more[i] = list[p] /\ more[j] = list[n + 1] /\ p < n + 1 /\ p \in 1..(n + 1)
      BY <1>2, <1>5, <1>6, <2>1, <2>3, <3>1
    <3> QED
      BY <1>6, <3>2
  <2> QED
    BY <1>1, <1>3, <2>2, <2>3
<1>9. Within(more, list, n + 1)
  BY <1>7, <1>8 DEF Within
<1> QED
  BY <1>1, <1>4, <1>9 DEF more, x

\* Nothing more: what stands for one of n places stands for one of n + 1.
LEMMA NoItemMore ==
  ASSUME NEW made, NEW list, NEW n \in Nat, Within(made, list, n)
  PROVE  Within(made, list, n + 1)
<1>1. \A p \in 1..n : p \in 1..(n + 1)
  OBVIOUS
<1> QED
  BY <1>1 DEF Within

\* What is left of a list: those in S, in their order.
LEMMA ThoseAre ==
  ASSUME NEW T, NEW list \in Seq(T), NEW S
  PROVE  LET those == Begin!Those(list, S)
         IN  /\ those \in Seq(T) /\ Within(those, list, Len(list))
             /\ Begin!ToSet(those) = Begin!ToSet(list) \cap S
<1> DEFINE n == Len(list)
           f == CHOOSE g : Sifts(g, "those", list, S, n)
           before(k) == {list[i] : i \in 1..k}
           Good(k) == f[k] \in Seq(T) /\ Within(f[k], list, k) /\ Begin!ToSet(f[k]) = before(k) \cap S
           N == {k \in Nat : k =< n => Good(k)}
<1>0. n \in Nat /\ DOMAIN list = 1..n /\ \A k \in 1..n : list[k] \in T
  OBVIOUS
<1>1. Sifts(f, "those", list, S, n)
  BY <1>0, SiftingExists
<1>2. Begin!Those(list, S) = f[n]
  BY DEF Begin!Those, Sifts, Sifted, Base
<1> HIDE DEF f
<1>3. \A k \in 0..n : f[k] = IF k = 0 THEN << >> ELSE IF list[k] \in S THEN Append(f[k - 1], list[k]) ELSE f[k - 1]
  BY <1>1 DEF Sifts, Sifted, Base
<1>4. 0 \in N
  <2>1. f[0] = << >> /\ << >> \in Seq(T) /\ before(0) = {}
    BY <1>0, <1>3
  <2>2. Within(<< >>, list, 0) /\ Begin!ToSet(<< >>) = {}
    BY DEF Within, Begin!ToSet
  <2> QED
    BY <2>1, <2>2
<1>5. ASSUME NEW k \in Nat, k \in N PROVE k + 1 \in N
  <2> SUFFICES ASSUME k + 1 =< n PROVE Good(k + 1)
    OBVIOUS
  <2>1. Good(k)
    BY <1>0, <1>5
  <2>2. f[k + 1] = IF list[k + 1] \in S THEN Append(f[k], list[k + 1]) ELSE f[k]
    BY <1>0, <1>3
  <2>3. before(k + 1) = before(k) \cup {list[k + 1]}
    <3>1. 1..(k + 1) = (1..k) \cup {k + 1}
      OBVIOUS
    <3> QED
      BY <3>1
  <2>4. list[k + 1] \in T
    BY <1>0
  <2> HIDE DEF before
  <2>5. CASE list[k + 1] \in S
    BY <2>1, <2>2, <2>3, <2>4, <2>5, OneMoreItem
  <2>6. CASE list[k + 1] \notin S
    BY <2>1, <2>2, <2>3, <2>6, NoItemMore
  <2> QED
    BY <2>5, <2>6
<1>6. n \in N
  <2> HIDE DEF N
  <2> QED
    BY <1>0, <1>4, <1>5, NumberInduction
<1>7. before(n) = Begin!ToSet(list)
  BY <1>0 DEF Begin!ToSet
<1> QED
  BY <1>0, <1>2, <1>6, <1>7

\* Without doubles: everyone once.
LEMMA DistinctAre ==
  ASSUME NEW T, NEW list \in Seq(T)
  PROVE  LET once == Begin!Distinct(list)
         IN  /\ once \in Seq(T) /\ Begin!ToSet(once) \subseteq Begin!ToSet(list)
             /\ \A i, j \in DOMAIN once : once[i] = once[j] => i = j
<1> DEFINE n == Len(list)
           f == CHOOSE g : Sifts(g, "distinct", list, {}, n)
           Solo(s) == \A i, j \in DOMAIN s : s[i] = s[j] => i = j
           Good(k) == f[k] \in Seq(T) /\ Begin!ToSet(f[k]) \subseteq Begin!ToSet(list) /\ Solo(f[k])
           N == {k \in Nat : k =< n => Good(k)}
<1>0. n \in Nat /\ DOMAIN list = 1..n /\ \A k \in 1..n : list[k] \in T
  OBVIOUS
<1>1. Sifts(f, "distinct", list, {}, n)
  BY <1>0, SiftingExists
<1>2. Begin!Distinct(list) = f[n]
  BY DEF Begin!Distinct, Sifts, Sifted, Base
<1> HIDE DEF f
<1>3. \A k \in 0..n : f[k] = IF k = 0 THEN << >> ELSE IF list[k] \in Begin!ToSet(f[k - 1]) THEN f[k - 1] ELSE Append(f[k - 1], list[k])
  BY <1>1 DEF Sifts, Sifted, Base
<1>4. 0 \in N
  <2>1. f[0] = << >> /\ << >> \in Seq(T)
    BY <1>0, <1>3
  <2>2. Solo(<< >>) /\ Begin!ToSet(<< >>) = {}
    BY DEF Begin!ToSet
  <2> QED
    BY <2>1, <2>2
<1>5. ASSUME NEW k \in Nat, k \in N PROVE k + 1 \in N
  <2> SUFFICES ASSUME k + 1 =< n PROVE Good(k + 1)
    OBVIOUS
  <2>1. Good(k)
    BY <1>0, <1>5
  <2>2. f[k + 1] = IF list[k + 1] \in Begin!ToSet(f[k]) THEN f[k] ELSE Append(f[k], list[k + 1])
    BY <1>0, <1>3
  <2>3. list[k + 1] \in T /\ list[k + 1] \in Begin!ToSet(list)
    BY <1>0 DEF Begin!ToSet
  <2>4. CASE list[k + 1] \in Begin!ToSet(f[k])
    BY <2>1, <2>2, <2>4
  <2>5. CASE list[k + 1] \notin Begin!ToSet(f[k])
    <3> DEFINE made == f[k]
               x == list[k + 1]
               more == Append(made, x)
               l == Len(made)
    <3>1. f[k + 1] = more
      BY <2>2, <2>5
    <3> HIDE DEF x
    <3>2. made \in Seq(T) /\ Solo(made) /\ x \in T /\ x \notin Begin!ToSet(made)
      BY <2>1, <2>3, <2>5 DEF x
    <3> HIDE DEF made
    <3>3. more \in Seq(T) /\ l \in Nat /\ DOMAIN made = 1..l /\ DOMAIN more = 1..(l + 1)
      BY <3>2
    <3>4. (\A i \in 1..l : more[i] = made[i]) /\ more[l + 1] = x
      BY <3>2
    <3> HIDE DEF more, l
    <3>5. \A i \in 1..l : made[i] # x
      BY <3>2, <3>3 DEF Begin!ToSet
    <3>6. \A i \in DOMAIN more : i \in 1..l \/ i = l + 1
      BY <3>3
    <3>7. Solo(more)
      BY <3>2, <3>3, <3>4, <3>5, <3>6
    <3>8. Begin!ToSet(more) \subseteq Begin!ToSet(list)
      <4>1. \A i \in 1..l : made[i] \in Begin!ToSet(list)
        BY <2>1, <3>3 DEF made, Begin!ToSet
      <4> QED
        BY <2>3, <3>4, <3>6, <4>1 DEF x, Begin!ToSet
    <3> QED
      BY <3>1, <3>3, <3>7, <3>8
  <2> QED
    BY <2>4, <2>5
<1>6. n \in N
  <2> HIDE DEF N
  <2> QED
    BY <1>0, <1>4, <1>5, NumberInduction
<1> QED
  BY <1>0, <1>2, <1>6

\* A number in a set of numbers that none is below.
LEMMA FirstThere ==
  ASSUME NEW S \in SUBSET Nat, S # {}
  PROVE  \E i \in S : \A j \in S : i <= j
<1>1. PICK i \in S : \A j \in S : <<j, i>> \notin OpToRel(<, Nat)
  BY NatLessThanWellFounded, WFMin
<1>2. \A j \in S : i \in Nat /\ j \in Nat /\ ~(j < i)
  BY <1>1 DEF OpToRel
<1> QED
  BY <1>2

-----------------------------------------------------------------------------
\* The leading names are a list in which everyone is once.
LEMMA LeadingOnce ==
  ASSUME Listings
  PROVE  /\ \E S : Begin!Leading \in Seq(S)
         /\ \A i, j \in DOMAIN Begin!Leading : Begin!Leading[i] = Begin!Leading[j] => i = j
<1>1. PICK S : Actors \in Seq(S) /\ Favourites \in Seq(S)
  BY DEF Listings
<1> DEFINE all == Begin!Those(Favourites, Begin!ToSet(Actors)) \o Actors
           once == Begin!Distinct(all)
           m == IF Len(once) < MaxNames THEN Len(once) ELSE MaxNames
           front == SubSeq(once, 1, m)
<1>2. Begin!Those(Favourites, Begin!ToSet(Actors)) \in Seq(S)
  BY <1>1, ThoseAre
<1>3. all \in Seq(S)
  BY <1>1, <1>2
<1> HIDE DEF all
<1>4. once \in Seq(S) /\ \A i, j \in DOMAIN once : once[i] = once[j] => i = j
  BY <1>3, DistinctAre
<1>5. Begin!Leading = front
  BY DEF Begin!Leading, all
<1> HIDE DEF once
<1>6. m \in Nat /\ m =< Len(once)
  BY <1>4 DEF Listings
<1> HIDE DEF m
<1>7. front \in Seq(S) /\ Len(front) = m /\ \A i \in 1..m : front[i] = once[i]
  BY <1>4, <1>6
<1>8. \A i \in DOMAIN front : i \in DOMAIN once /\ front[i] = once[i]
  BY <1>4, <1>6, <1>7
<1> HIDE DEF front
<1> QED
  BY <1>4, <1>5, <1>7, <1>8

\* The stages that are kept of an answer have places, relations and rising numbers.
LEMMA ShapedIsStartable ==
  ASSUME Listings, NEW raws \in Begin!Upto(Begin!Raws, MaxStages), NEW name,
         Len(Begin!Shaped(raws, name)) >= 2
  PROVE  Startable(name, Begin!Shaped(raws, name))
<1> DEFINE places == [i \in DOMAIN raws |-> i]
           kept == Begin!Those(places, {i \in DOMAIN raws : raws[i].milestone})
           shaped == Begin!Shaped(raws, name)
<1>1. PICK n \in Nat : DOMAIN raws = 1..n
  <2>1. PICK n \in 0..MaxStages : raws \in [1..n -> Begin!Raws]
    BY DEF Begin!Upto
  <2>2. n \in Nat
    BY DEF Listings
  <2> QED
    BY <2>1, <2>2
<1>2. places \in Seq(Nat) /\ Len(places) = n
  BY <1>1
<1>3. kept \in Seq(Nat) /\ Within(kept, places, n)
  <2> HIDE DEF places
  <2> QED
    BY <1>2, ThoseAre
<1>4. \A k \in DOMAIN kept : k > 1 => k - 1 \in DOMAIN kept /\ kept[k - 1] < kept[k]
  <2> SUFFICES ASSUME NEW k \in DOMAIN kept, k > 1 PROVE k - 1 \in DOMAIN kept /\ kept[k - 1] < kept[k]
    OBVIOUS
  <2> HIDE DEF kept
  <2>1. k - 1 \in DOMAIN kept /\ k - 1 < k
    BY <1>3
  <2>2. PICK p \in 1..n, q \in 1..n : p < q /\ kept[k - 1] = places[p] /\ kept[k] = places[q]
    BY <1>3, <2>1 DEF Within
  <2>3. kept[k - 1] = p /\ kept[k] = q
    BY <1>1, <2>2
  <2> QED
    BY <2>1, <2>2, <2>3
<1>5. DOMAIN shaped = DOMAIN kept
  BY DEF Begin!Shaped
<1>6. \A k \in DOMAIN kept : /\ shaped[k].id = kept[k]
                             /\ shaped[k].place = Begin!PlaceOf(raws[kept[k]], name)
                             /\ shaped[k].knows \subseteq Begin!Cast \ {name}
  BY DEF Begin!Shaped
<1>7. \A raw : Begin!PlaceOf(raw, name) \in Begin!ToSet(Sites)
  <2>1. 1 \in DOMAIN Sites
    BY DEF Listings
  <2> QED
    BY <2>1 DEF Begin!PlaceOf, Begin!ToSet
<1> HIDE DEF kept, shaped
<1>8. Len(shaped) >= 2
  BY DEF shaped
<1>9. ASSUME NEW k \in DOMAIN shaped, k > 1 PROVE shaped[k - 1].id < shaped[k].id
  BY <1>4, <1>5, <1>6, <1>9
<1> QED
  BY <1>5, <1>6, <1>7, <1>8, <1>9 DEF Startable, shaped

\* Of whom was not asked about nothing is heard, and of the others only what is playable.
LEMMA ParsedIsStartable ==
  ASSUME Listings, NEW answer \in Begin!Answers, NEW names
  PROVE  LET parsed == Begin!Parsed(answer, names)
         IN  DOMAIN parsed \subseteq Begin!ToSet(names) /\ \A n \in DOMAIN parsed : Startable(n, parsed[n])
<1> DEFINE of(n) == {i \in DOMAIN answer : answer[i].name = n /\ Len(Begin!Shaped(answer[i].stages, n)) >= 2}
           had == {n \in Begin!ToSet(names) : of(n) # {}}
           its(n) == CHOOSE i \in of(n) : \A j \in of(n) : i <= j
           parsed == Begin!Parsed(answer, names)
<1>1. parsed = [n \in had |-> Begin!Shaped(answer[its(n)].stages, n)]
  BY DEF Begin!Parsed
<1>2. PICK m \in Nat : answer \in [1..m -> [name : Begin!Cast \cup {Stranger}, stages : Begin!Upto(Begin!Raws, MaxStages)]]
  <2>1. PICK m \in 0..MaxItems : answer \in [1..m -> [name : Begin!Cast \cup {Stranger}, stages : Begin!Upto(Begin!Raws, MaxStages)]]
    BY DEF Begin!Answers, Begin!Upto
  <2>2. m \in Nat
    BY DEF Listings
  <2> QED
    BY <2>1, <2>2
<1>3. ASSUME NEW n \in had PROVE its(n) \in of(n)
  <2>1. of(n) \subseteq Nat /\ of(n) # {}
    BY <1>2
  <2>2. \E i \in of(n) : \A j \in of(n) : i <= j
    <3> HIDE DEF of
    <3> QED
      BY <2>1, FirstThere
  <2> QED
    BY <2>2
<1>4. ASSUME NEW n \in had PROVE Startable(n, parsed[n])
  <2>1. its(n) \in DOMAIN answer /\ Len(Begin!Shaped(answer[its(n)].stages, n)) >= 2
    BY <1>3
  <2>2. answer[its(n)].stages \in Begin!Upto(Begin!Raws, MaxStages)
    <3> HIDE DEF its
    <3> QED
      BY <1>2, <2>1
  <2>3. parsed[n] = Begin!Shaped(answer[its(n)].stages, n)
    BY <1>1
  <2> HIDE DEF its, parsed
  <2> QED
    BY <2>1, <2>2, <2>3, ShapedIsStartable
<1>5. DOMAIN parsed = had
  BY <1>1
<1> QED
  BY <1>4, <1>5

\* Whoever has playable beginnings is kept, once, in the order of the leading names, and the author
\* is told of the others.
LEMMA FinishIsSound ==
  ASSUME Listings, NEW byName, \A n \in DOMAIN byName : Startable(n, byName[n]), Begin!Finish(byName),
         \A n \in DOMAIN initial' : n \in DOMAIN byName /\ byName[n] = initial'[n]
  PROVE  Begin!BeginningsAreSound'
<1> DEFINE lead == Begin!Leading
           names == Begin!Those(lead, DOMAIN byName)
<1>1. PICK S : lead \in Seq(S)
  BY LeadingOnce
<1>2. names \in Seq(S) /\ Within(names, lead, Len(lead)) /\ Begin!ToSet(names) = Begin!ToSet(lead) \cap DOMAIN byName
  BY <1>1, ThoseAre
<1>3. \A i, j \in DOMAIN lead : lead[i] = lead[j] => i = j
  BY LeadingOnce
<1>4. starts' = [k \in DOMAIN names |-> [name |-> names[k], stages |-> byName[names[k]]]]
  BY DEF Begin!Finish, Begin!Kept
<1>5. missed' = Begin!ToSet(lead) \ DOMAIN byName
  BY DEF Begin!Finish
<1>6. \A i \in DOMAIN names : names[i] \in Begin!ToSet(names)
  BY DEF Begin!ToSet
<1> HIDE DEF names, lead
<1>7. DOMAIN names \subseteq Nat /\ DOMAIN lead = 1..Len(lead)
  BY <1>1, <1>2
<1>8. ASSUME NEW i \in DOMAIN names, NEW j \in DOMAIN names, names[i] = names[j] PROVE i = j
  <2>1. ASSUME NEW a \in DOMAIN names, NEW b \in DOMAIN names, a < b PROVE names[a] # names[b]
    <3>1. PICK p \in 1..Len(lead), q \in 1..Len(lead) : p < q /\ names[a] = lead[p] /\ names[b] = lead[q]
      BY <1>2, <2>1 DEF Within
    <3>2. p # q /\ p \in DOMAIN lead /\ q \in DOMAIN lead
      BY <1>7, <3>1
    <3> QED
      BY <1>3, <3>1, <3>2
  <2>2. i < j \/ j < i \/ i = j
    BY <1>7
  <2> QED
    BY <1>8, <2>1, <2>2
<1>9. DOMAIN starts' = DOMAIN names /\ \A k \in DOMAIN names : starts'[k].name = names[k] /\ starts'[k].stages = byName[names[k]]
  BY <1>4
<1>10. missed' = Begin!ToSet(lead) \ {starts'[i].name : i \in DOMAIN starts'}
  <2>1. {starts'[i].name : i \in DOMAIN starts'} = Begin!ToSet(names)
    BY <1>9 DEF Begin!ToSet
  <2> QED
    BY <1>2, <1>5, <2>1
<1>11. ASSUME NEW i \in DOMAIN starts'
       PROVE  /\ starts'[i].name \in Begin!ToSet(lead) /\ Startable(starts'[i].name, starts'[i].stages)
              /\ starts'[i].name \in DOMAIN initial' => starts'[i].stages = initial'[starts'[i].name]
  BY <1>2, <1>6, <1>9
<1> QED
  BY <1>8, <1>9, <1>10, <1>11 DEF Begin!BeginningsAreSound, Startable, lead

-----------------------------------------------------------------------------
LEMMA BeginInit == Begin!Init => BeginInv
BY DEF Begin!Init, Begin!NoStages, BeginInv, Begin!BeginningsAreSound

LEMMA FirstKeeps ==
  ASSUME Listings, BeginInv, NEW answer \in Begin!Answers, Begin!First(answer)
  PROVE  BeginInv'
<1>1. initial' = Begin!Parsed(answer, Begin!Leading) /\ \A n \in DOMAIN initial' : Startable(n, initial'[n])
  BY ParsedIsStartable DEF Begin!First
<1>2. Begin!BeginningsAreSound'
  <2>1. CASE Begin!ToSet(Begin!Leading) = DOMAIN initial'
    BY <1>1, <2>1, FinishIsSound DEF Begin!First
  <2>2. CASE Begin!ToSet(Begin!Leading) # DOMAIN initial'
    BY <2>2 DEF Begin!First, Begin!BeginningsAreSound
  <2> QED
    BY <2>1, <2>2
<1>3. phase' # "first"
  BY DEF Begin!First, Begin!Finish
<1> QED
  BY <1>1, <1>2, <1>3 DEF BeginInv, Startable

\* The second answer is heard of those only who had none.
LEMMA AgainKeeps ==
  ASSUME Listings, BeginInv, NEW answer \in Begin!Answers, Begin!Again(answer)
  PROVE  BeginInv'
<1> DEFINE more == Begin!Parsed(answer, Begin!Asked)
           byName == [n \in DOMAIN initial \cup DOMAIN more |-> IF n \in DOMAIN more THEN more[n] ELSE initial[n]]
<1>1. DOMAIN more \subseteq Begin!ToSet(Begin!Asked) /\ \A n \in DOMAIN more : Startable(n, more[n])
  BY ParsedIsStartable
<1>2. Begin!ToSet(Begin!Asked) \cap DOMAIN initial = {}
  <2>1. PICK S : Begin!Leading \in Seq(S)
    BY LeadingOnce
  <2>2. Begin!ToSet(Begin!Missing) = Begin!ToSet(Begin!Leading) \cap (Begin!ToSet(Begin!Leading) \ DOMAIN initial)
    BY <2>1, ThoseAre DEF Begin!Missing
  <2> QED
    BY <2>2 DEF Begin!Asked
<1>3. Begin!Finish(byName) /\ initial' = initial
  BY DEF Begin!Again
<1> HIDE DEF more
<1>4. \A n \in DOMAIN byName : Startable(n, byName[n])
  BY <1>1 DEF BeginInv
<1>5. \A n \in DOMAIN initial' : n \in DOMAIN byName /\ byName[n] = initial'[n]
  BY <1>1, <1>2, <1>3
<1>6. Begin!BeginningsAreSound'
  <2> HIDE DEF byName
  <2> QED
    BY <1>3, <1>4, <1>5, FinishIsSound
<1> QED
  BY <1>3, <1>6 DEF BeginInv, Startable, Begin!Finish

LEMMA BeginStep == Listings /\ BeginInv /\ [Begin!Next]_(Begin!vars) => BeginInv'
<1> SUFFICES ASSUME Listings, BeginInv, [Begin!Next]_(Begin!vars) PROVE BeginInv'
  OBVIOUS
<1>1. CASE UNCHANGED Begin!vars
  BY <1>1 DEF Begin!vars, BeginInv, Startable, Begin!BeginningsAreSound
<1>2. CASE Begin!Skip
  BY <1>2 DEF Begin!Skip, BeginInv, Startable, Begin!BeginningsAreSound
<1>3. CASE Begin!Fail
  <2>1. Begin!Finish(Begin!NoStages) /\ initial' = initial /\ DOMAIN initial = {} /\ DOMAIN Begin!NoStages = {}
    BY <1>3 DEF Begin!Fail, Begin!NoStages, BeginInv
  <2>2. Begin!BeginningsAreSound'
    BY <2>1, FinishIsSound
  <2> QED
    BY <2>1, <2>2 DEF BeginInv, Begin!Finish
<1>4. CASE Begin!AgainFails
  <2>1. Begin!BeginningsAreSound'
    BY <1>4, FinishIsSound DEF Begin!AgainFails, BeginInv
  <2> QED
    BY <1>4, <2>1 DEF Begin!Finish, Begin!AgainFails, BeginInv, Startable
<1>5. ASSUME NEW answer \in Begin!Answers, Begin!First(answer) \/ Begin!Again(answer) PROVE BeginInv'
  BY <1>5, FirstKeeps, AgainKeeps
<1> QED
  BY <1>1, <1>2, <1>3, <1>4, <1>5 DEF Begin!Next

\* world_creator_agent_v2.py _run_free_start_stages: for any cast and whatever the model answers, in
\* one call or two, a leading character has at least two beginnings, in places and with people of the
\* world, or the author is told; nobody has two sets of them, and nobody else has any.
THEOREM BeginningsSound == ASSUME Listings PROVE Begin!Spec => []Begin!BeginningsAreSound
<1>1. BeginInv => Begin!BeginningsAreSound
  BY DEF BeginInv
<1> QED
  BY <1>1, BeginInit, BeginStep, PTL DEF Begin!Spec
(***************************************************************************)
(* The shared past and the events of a world (Chronicle).  The past has    *)
(* every title once because a title that is told again takes the place it  *)
(* has; an event keeps its place because whoever comes with a used id is   *)
(* given the next that is free, of which there is always one.              *)
(***************************************************************************)

\* An answer has a length.
Answered == MaxAnswer \in Nat

Rooted == [title : Headings, from : SUBSET Passages]
Beat == [id : Past!Ids \cup Nat, of : Nat \X Nat]

OneOfEach(list) == \A i, j \in DOMAIN list : list[i].title = list[j].title => i = j
OwnIds(list) == \A i, j \in DOMAIN list : list[i].id = list[j].id => i = j
InTurn(list) == \A i, j \in DOMAIN list : i < j => Past!Before(list[i].of, list[j].of)
Spots(list) == {list[i].of : i \in DOMAIN list}
Counted(counts) == UNION {{b} \X (1..counts[b]) : b \in DOMAIN counts}

PastInv ==
    /\ bygone \in Seq(Rooted) /\ Past!TitlesOf(bygone) = known
    /\ stop # "supplement" => OneOfEach(bygone)

PlotInv ==
    /\ plot \in Seq(Beat) /\ upcoming \in Nat /\ sizes \in Seq(Nat)
    /\ OwnIds(plot) /\ InTurn(plot) /\ Spots(plot) = Counted(sizes)

-----------------------------------------------------------------------------
LEMMA PastCounts == \A S : Past!Cardinality(S) = Cardinality(S)
BY DEF Past!Cardinality, Cardinality

\* A list in which every title is once has as many items as titles.
LEMMA TitlesCounted ==
  ASSUME NEW T, NEW list \in Seq(T), OneOfEach(list)
  PROVE  Cardinality(Past!TitlesOf(list)) = Len(list)
<1> DEFINE title == [i \in 1..Len(list) |-> list[i].title]
           S == Past!TitlesOf(list)
<1>1. Len(list) \in Nat /\ DOMAIN list = 1..Len(list)
  OBVIOUS
<1>2. title \in [1..Len(list) -> S] /\ \A t \in S : \E i \in 1..Len(list) : title[i] = t
  BY <1>1 DEF Past!TitlesOf
<1>3. \A i, j \in 1..Len(list) : title[i] = title[j] => i = j
  BY <1>1 DEF OneOfEach
<1>4. title \in Bijection(1..Len(list), S)
  <2> HIDE DEF title, S
  <2> QED
    BY <1>2, <1>3 DEF Bijection, Injection, Surjection, IsInjective
<1> HIDE DEF title
<1> QED
  BY <1>1, <1>4, FS_CountingElements DEF ExistsBijection

\* A title that is told again takes the place it has, another one the next.
LEMMA OneMerged ==
  ASSUME NEW T, NEW made \in Seq(T), NEW x \in T, OneOfEach(made)
  PROVE  LET more == Sifted("merged", made, x, {})
         IN  /\ more \in Seq(T) /\ OneOfEach(more)
             /\ Past!TitlesOf(more) = Past!TitlesOf(made) \cup {x.title}
<1> DEFINE more == Sifted("merged", made, x, {})
           l == Len(made)
<1>1. l \in Nat /\ DOMAIN made = 1..l /\ \A i \in 1..l : made[i] \in T
  OBVIOUS
<1>2. CASE \E i \in DOMAIN made : made[i].title = x.title
  <2>1. more = [i \in DOMAIN made |-> IF made[i].title = x.title THEN x ELSE made[i]]
    BY <1>2 DEF Sifted
  <2>2. DOMAIN more = 1..l /\ \A i \in 1..l : more[i] \in T /\ more[i].title = made[i].title
    BY <1>1, <2>1
  <2>3. more \in Seq(T)
    <3>1. more = [i \in 1..l |-> IF made[i].title = x.title THEN x ELSE made[i]]
      BY <1>1, <2>1
    <3>2. more \in [1..l -> T]
      BY <1>1, <3>1
    <3> HIDE DEF more, l
    <3> QED
      BY <1>1, <3>2
  <2> HIDE DEF more, l
  <2>4. OneOfEach(more)
    BY <1>1, <2>2 DEF OneOfEach
  <2>5. Past!TitlesOf(more) = Past!TitlesOf(made) \cup {x.title}
    <3>1. Past!TitlesOf(more) = Past!TitlesOf(made)
      BY <1>1, <2>2 DEF Past!TitlesOf
    <3>2. x.title \in Past!TitlesOf(made)
      BY <1>2 DEF Past!TitlesOf
    <3> QED
      BY <3>1, <3>2
  <2> QED
    BY <2>3, <2>4, <2>5 DEF more
<1>3. CASE \A i \in DOMAIN made : made[i].title # x.title
  <2>1. more = Append(made, x)
    BY <1>3 DEF Sifted
  <2>2. more \in Seq(T) /\ DOMAIN more = 1..(l + 1) /\ more[l + 1] = x /\ \A i \in 1..l : more[i] = made[i]
    BY <2>1
  <2> HIDE DEF more, l
  <2>3. \A i \in 1..(l + 1) : i \in 1..l \/ i = l + 1
    BY <1>1
  <2>4. OneOfEach(more)
    BY <1>1, <1>3, <2>2, <2>3 DEF OneOfEach
  <2>5. Past!TitlesOf(more) = Past!TitlesOf(made) \cup {x.title}
    <3>1. 1..l \subseteq 1..(l + 1) /\ l + 1 \in 1..(l + 1)
      BY <1>1
    <3> QED
      BY <1>1, <2>2, <2>3, <3>1 DEF Past!TitlesOf
  <2> QED
    BY <2>2, <2>4, <2>5 DEF more
<1> QED
  BY <1>2, <1>3

\* Without double titles: the same titles, each once.
LEMMA MergedAre ==
  ASSUME NEW T, NEW list \in Seq(T)
  PROVE  LET once == Past!Deduplicated(list)
         IN  once \in Seq(T) /\ OneOfEach(once) /\ Past!TitlesOf(once) = Past!TitlesOf(list)
<1> DEFINE n == Len(list)
           f == CHOOSE g : Sifts(g, "merged", list, {}, n)
           before(k) == {list[i].title : i \in 1..k}
           Good(k) == f[k] \in Seq(T) /\ OneOfEach(f[k]) /\ Past!TitlesOf(f[k]) = before(k)
           N == {k \in Nat : k =< n => Good(k)}
<1>0. n \in Nat /\ DOMAIN list = 1..n /\ \A k \in 1..n : list[k] \in T
  OBVIOUS
<1>1. Sifts(f, "merged", list, {}, n)
  BY <1>0, SiftingExists
<1>2. Past!Deduplicated(list) = f[n]
  BY DEF Past!Deduplicated, Sifts, Sifted, Base
<1> HIDE DEF f
<1>3. \A k \in 0..n : f[k] = IF k = 0 THEN << >> ELSE Sifted("merged", f[k - 1], list[k], {})
  BY <1>1 DEF Sifts, Base
<1>4. 0 \in N
  <2>1. f[0] = << >> /\ << >> \in Seq(T) /\ before(0) = {}
    BY <1>0, <1>3
  <2>2. OneOfEach(<< >>) /\ Past!TitlesOf(<< >>) = {}
    BY DEF OneOfEach, Past!TitlesOf
  <2> QED
    BY <2>1, <2>2
<1>5. ASSUME NEW k \in Nat, k \in N PROVE k + 1 \in N
  <2> SUFFICES ASSUME k + 1 =< n PROVE Good(k + 1)
    OBVIOUS
  <2>1. Good(k)
    BY <1>0, <1>5
  <2>2. f[k + 1] = Sifted("merged", f[k], list[k + 1], {}) /\ list[k + 1] \in T
    BY <1>0, <1>3
  <2>3. before(k + 1) = before(k) \cup {list[k + 1].title}
    <3>1. 1..(k + 1) = (1..k) \cup {k + 1}
      OBVIOUS
    <3> QED
      BY <3>1
  <2> DEFINE made == f[k]
             x == list[k + 1]
             more == Sifted("merged", made, x, {})
  <2>4. made \in Seq(T) /\ OneOfEach(made) /\ Past!TitlesOf(made) = before(k) /\ x \in T
    BY <2>1, <2>2
  <2>5. f[k + 1] = more /\ before(k + 1) = before(k) \cup {x.title}
    BY <2>2, <2>3
  <2> HIDE DEF before, made, x
  <2>6. more \in Seq(T) /\ OneOfEach(more) /\ Past!TitlesOf(more) = Past!TitlesOf(made) \cup {x.title}
    BY <2>4, OneMerged
  <2> HIDE DEF more
  <2> QED
    BY <2>4, <2>5, <2>6
<1>6. n \in N
  <2> HIDE DEF N
  <2> QED
    BY <1>0, <1>4, <1>5, NumberInduction
<1>7. before(n) = Past!TitlesOf(list)
  BY <1>0 DEF Past!TitlesOf
<1>8. Good(n)
  BY <1>0, <1>6
<1> HIDE DEF before
<1> QED
  BY <1>2, <1>7, <1>8

\* The ids that are used are finitely many.
LEMMA UsedFinite ==
  ASSUME NEW T, NEW list \in Seq(T)
  PROVE  IsFiniteSet(Past!Used(list))
<1> DEFINE id == [i \in 1..Len(list) |-> list[i].id]
<1>1. Len(list) \in Nat /\ DOMAIN list = 1..Len(list)
  OBVIOUS
<1>2. id \in Surjection(1..Len(list), Past!Used(list))
  BY <1>1 DEF Surjection, Past!Used
<1>3. IsFiniteSet(1..Len(list))
  BY <1>1, FS_Interval
<1> HIDE DEF id
<1> QED
  BY <1>2, <1>3, FS_Surjection

\* A number is free among one more than are used.
LEMMA FreeIsFree ==
  ASSUME NEW n \in Nat, NEW used, IsFiniteSet(used)
  PROVE  Past!FreeFrom(n, used) \in Nat \ used
<1> DEFINE c == Cardinality(used)
           S == n..(n + c) \ used
<1>1. c \in Nat
  BY FS_CardinalityType
<1>2. S # {}
  <2> SUFFICES ASSUME n..(n + c) \subseteq used PROVE FALSE
    OBVIOUS
  <2> HIDE DEF c
  <2>1. Cardinality(n..(n + c)) = c + 1
    BY <1>1, FS_Interval
  <2>2. Cardinality(n..(n + c)) <= c
    BY FS_Subset DEF c
  <2> QED
    BY <1>1, <2>1, <2>2
<1>3. S \subseteq Nat
  BY <1>1
<1>4. PICK i \in S : \A j \in S : i <= j
  <2> HIDE DEF S
  <2> QED
    BY <1>2, <1>3, FirstThere
<1> HIDE DEF c
<1>5. i \in n..(n + c) /\ i \notin used /\ \A j \in n..(i - 1) : j \in used
  BY <1>1, <1>4
<1>6. n + Past!Cardinality(used) = n + c
  BY PastCounts DEF c
<1>7. Past!FreeFrom(n, used) \in n..(n + c) \ used
  BY <1>5, <1>6 DEF Past!FreeFrom
<1> QED
  BY <1>1, <1>7

\* Who is numbered keeps its place and gets an id nobody has.
LEMMA OneNumbered ==
  ASSUME NEW list \in Seq(Beat), NEW n \in Nat, OwnIds(list), NEW beat \in Beat
  PROVE  LET more == Past!Reserved([beats |-> list, next |-> n], beat)
         IN  /\ more = [beats |-> more.beats, next |-> more.next]
             /\ more.beats \in Seq(Beat) /\ more.next \in Nat /\ OwnIds(more.beats)
             /\ Len(more.beats) = Len(list) + 1 /\ more.beats[Len(list) + 1].of = beat.of
             /\ \A i \in 1..Len(list) : more.beats[i] = list[i]
<1> DEFINE state == [beats |-> list, next |-> n]
           more == Past!Reserved(state, beat)
           free == Past!FreeFrom(n, Past!Used(list))
           x == IF beat.id \notin Past!Used(list) THEN beat ELSE [beat EXCEPT !.id = free]
           l == Len(list)
<1>1. free \in Nat \ Past!Used(list)
  BY UsedFinite, FreeIsFree
<1> HIDE DEF free
<1>2. x \in Beat /\ x.of = beat.of /\ x.id \notin Past!Used(list)
  BY <1>1 DEF Beat
<1>3. more = [beats |-> Append(list, x), next |-> IF beat.id \notin Past!Used(list) THEN n ELSE free + 1]
  <2>1. state.beats = list /\ state.next = n
    OBVIOUS
  <2> HIDE DEF state
  <2> QED
    BY <2>1 DEF Past!Reserved, free
<1> HIDE DEF x
<1>4. more.beats = Append(list, x) /\ more.next \in Nat
  BY <1>1, <1>3
<1>5. more = [beats |-> more.beats, next |-> more.next]
  BY <1>3
<1> HIDE DEF more
<1>6. /\ more.beats \in Seq(Beat) /\ Len(more.beats) = l + 1 /\ DOMAIN more.beats = 1..(l + 1)
      /\ l \in Nat /\ DOMAIN list = 1..l
  BY <1>2, <1>4
<1>7. more.beats[l + 1] = x /\ \A i \in 1..l : more.beats[i] = list[i]
  BY <1>4
<1>8. OwnIds(more.beats)
  <2>1. \A i \in 1..l : list[i].id # x.id
    BY <1>2, <1>6 DEF Past!Used
  <2>2. \A i \in 1..(l + 1) : i \in 1..l \/ i = l + 1
    BY <1>6
  <2> HIDE DEF l
  <2> QED
    BY <1>6, <1>7, <2>1, <2>2 DEF OwnIds
<1> QED
  BY <1>2, <1>4, <1>5, <1>6, <1>7, <1>8 DEF more

\* All of a batch.
LEMMA NumberedAre ==
  ASSUME NEW list \in Seq(Beat), NEW n \in Nat, OwnIds(list), NEW new \in Seq(Beat)
  PROVE  LET all == Past!Numbered([beats |-> list, next |-> n], new)
         IN  /\ all.beats \in Seq(Beat) /\ all.next \in Nat /\ OwnIds(all.beats)
             /\ Len(all.beats) = Len(list) + Len(new)
             /\ \A i \in 1..Len(list) : all.beats[i].of = list[i].of
             /\ \A i \in 1..Len(new) : all.beats[Len(list) + i].of = new[i].of
<1> DEFINE m == Len(new)
           l == Len(list)
           from == [beats |-> list, next |-> n]
           f == CHOOSE g : Sifts(g, "numbered", new, from, m)
           Good(k) ==
             /\ f[k] = [beats |-> f[k].beats, next |-> f[k].next]
             /\ f[k].beats \in Seq(Beat) /\ f[k].next \in Nat /\ OwnIds(f[k].beats)
             /\ Len(f[k].beats) = l + k
             /\ \A i \in 1..l : f[k].beats[i].of = list[i].of
             /\ \A i \in 1..k : f[k].beats[l + i].of = new[i].of
           N == {k \in Nat : k =< m => Good(k)}
<1>0. m \in Nat /\ l \in Nat /\ \A k \in 1..m : new[k] \in Beat
  OBVIOUS
<1>1. Sifts(f, "numbered", new, from, m)
  BY <1>0, SiftingExists
<1>2. Past!Numbered(from, new) = f[m]
  BY DEF Past!Numbered, Sifts, Sifted, Base
<1> HIDE DEF f
<1>3. \A k \in 0..m : f[k] = IF k = 0 THEN from ELSE Past!Reserved(f[k - 1], new[k])
  BY <1>1 DEF Sifts, Sifted, Base
<1>4. 0 \in N
  <2>1. f[0] = from
    BY <1>0, <1>3
  <2> QED
    BY <1>0, <2>1
<1>5. ASSUME NEW k \in Nat, k \in N PROVE k + 1 \in N
  <2> SUFFICES ASSUME k + 1 =< m PROVE Good(k + 1)
    OBVIOUS
  <2>1. Good(k)
    BY <1>0, <1>5
  <2>2. f[k + 1] = Past!Reserved(f[k], new[k + 1]) /\ new[k + 1] \in Beat
    BY <1>0, <1>3
  <2> DEFINE made == f[k].beats
             more == f[k + 1].beats
  <2>3. made \in Seq(Beat) /\ OwnIds(made) /\ f[k].next \in Nat /\ f[k] = [beats |-> made, next |-> f[k].next] /\ Len(made) = l + k
    BY <2>1
  <2>4. /\ f[k + 1] = [beats |-> more, next |-> f[k + 1].next]
        /\ more \in Seq(Beat) /\ f[k + 1].next \in Nat /\ OwnIds(more)
        /\ Len(more) = Len(made) + 1 /\ more[Len(made) + 1].of = new[k + 1].of
        /\ \A i \in 1..Len(made) : more[i] = made[i]
    <3> DEFINE nx == f[k].next
               x == new[k + 1]
    <3>1. nx \in Nat /\ x \in Beat /\ f[k + 1] = Past!Reserved([beats |-> made, next |-> nx], x)
      BY <2>2, <2>3
    <3> HIDE DEF made, nx
    <3> DEFINE r == Past!Reserved([beats |-> made, next |-> nx], x)
    <3>2. /\ r = [beats |-> r.beats, next |-> r.next]
          /\ r.beats \in Seq(Beat) /\ r.next \in Nat /\ OwnIds(r.beats)
          /\ Len(r.beats) = Len(made) + 1 /\ r.beats[Len(made) + 1].of = x.of
          /\ \A i \in 1..Len(made) : r.beats[i] = made[i]
      BY <2>3, <3>1, OneNumbered
    <3>3. f[k + 1] = r
      BY <3>1
    <3> HIDE DEF r
    <3> QED
      BY <3>2, <3>3
  <2> HIDE DEF more
  <2>5. \A i \in 1..l : more[i].of = list[i].of
    <3>1. \A i \in 1..l : i \in 1..Len(made) /\ made[i].of = list[i].of
      BY <1>0, <2>1, <2>3
    <3> HIDE DEF made
    <3> QED
      BY <2>4, <3>1
  <2>6. \A i \in 1..(k + 1) : more[l + i].of = new[i].of
    <3>1. \A i \in 1..k : l + i \in 1..Len(made) /\ made[l + i].of = new[i].of
      BY <1>0, <2>1, <2>3
    <3>2. \A i \in 1..(k + 1) : i \in 1..k \/ i = k + 1
      OBVIOUS
    <3>3. l + (k + 1) = Len(made) + 1
      BY <1>0, <2>3
    <3> HIDE DEF made
    <3> QED
      BY <2>4, <3>1, <3>2, <3>3
  <2>7. Len(more) = l + (k + 1)
    BY <1>0, <2>3, <2>4
  <2> QED
    BY <2>4, <2>5, <2>6, <2>7 DEF more
<1>6. m \in N
  <2> HIDE DEF N
  <2> QED
    BY <1>0, <1>4, <1>5, NumberInduction
<1> QED
  BY <1>0, <1>2, <1>6

\* Where ids are once the last sweep finds nothing.
LEMMA SweptIsAll ==
  ASSUME NEW T, NEW list \in Seq(T), OwnIds(list)
  PROVE  Past!Swept(list) = list
<1> DEFINE n == Len(list)
           f == CHOOSE g : Sifts(g, "swept", list, {}, n)
           front(k) == [i \in 1..k |-> list[i]]
           N == {k \in Nat : k =< n => f[k] = front(k)}
<1>0. n \in Nat /\ DOMAIN list = 1..n /\ \A k \in 1..n : list[k] \in T
  OBVIOUS
<1>1. Sifts(f, "swept", list, {}, n)
  BY <1>0, SiftingExists
<1>2. Past!Swept(list) = f[n]
  BY DEF Past!Swept, Sifts, Sifted, Base
<1> HIDE DEF f
<1>3. \A k \in 0..n : f[k] = IF k = 0 THEN << >> ELSE IF list[k].id \in Past!Used(f[k - 1]) THEN f[k - 1] ELSE Append(f[k - 1], list[k])
  BY <1>1 DEF Sifts, Sifted, Base
<1>4. 0 \in N
  <2>1. f[0] = << >>
    BY <1>0, <1>3
  <2>2. front(0) = << >>
    OBVIOUS
  <2> QED
    BY <2>1, <2>2
<1>5. ASSUME NEW k \in Nat, k \in N PROVE k + 1 \in N
  <2> SUFFICES ASSUME k + 1 =< n PROVE f[k + 1] = front(k + 1)
    OBVIOUS
  <2>1. f[k] = front(k) /\ list[k + 1] \in T
    BY <1>0, <1>5
  <2>2. front(k) \in Seq(T) /\ Len(front(k)) = k /\ DOMAIN front(k) = 1..k
    <3>1. front(k) \in [1..k -> T]
      BY <1>0
    <3> QED
      BY <3>1
  <2>3. list[k + 1].id \notin Past!Used(front(k))
    <3>1. \A i \in 1..k : i \in DOMAIN list /\ k + 1 \in DOMAIN list /\ i # k + 1
      BY <1>0
    <3>2. \A i \in 1..k : front(k)[i] = list[i]
      OBVIOUS
    <3>3. \A i \in 1..k : list[i].id # list[k + 1].id
      BY <3>1 DEF OwnIds
    <3>4. DOMAIN front(k) = 1..k
      BY <2>2
    <3> HIDE DEF front
    <3> QED
      BY <3>2, <3>3, <3>4 DEF Past!Used
  <2>4. f[k + 1] = Append(front(k), list[k + 1])
    <3>1. f[k + 1] = IF list[k + 1].id \in Past!Used(f[k]) THEN f[k] ELSE Append(f[k], list[k + 1])
      BY <1>0, <1>3
    <3> HIDE DEF front
    <3> QED
      BY <2>1, <2>3, <3>1
  <2>5. Append(front(k), list[k + 1]) = front(k + 1)
    <3> DEFINE a == Append(front(k), list[k + 1])
    <3>1. DOMAIN a = 1..(k + 1) /\ a[k + 1] = list[k + 1] /\ \A i \in 1..k : a[i] = list[i]
      BY <2>1, <2>2
    <3>2. a = [i \in DOMAIN a |-> a[i]]
      BY <2>1, <2>2
    <3>3. \A i \in 1..(k + 1) : i \in 1..k \/ i = k + 1
      OBVIOUS
    <3> HIDE DEF a
    <3>4. \A i \in 1..(k + 1) : a[i] = list[i]
      BY <3>1, <3>3
    <3>5. a = front(k + 1)
      BY <3>1, <3>2, <3>4
    <3> QED
      BY <3>5 DEF a
  <2> QED
    BY <2>4, <2>5
<1>6. n \in N
  <2> HIDE DEF N
  <2> QED
    BY <1>0, <1>4, <1>5, NumberInduction
<1>7. front(n) = list
  BY <1>0
<1> QED
  BY <1>0, <1>2, <1>6, <1>7

-----------------------------------------------------------------------------
\* What is parsed of an answer has its titles, and rests on passages that there are.
LEMMA ParsedIsRooted ==
  ASSUME NEW answer \in Past!Upto(Past!SharedEvent, MaxAnswer), Answered, NEW passages \in SUBSET Passages
  PROVE  /\ Past!Parsed(answer, passages) \in Seq(Rooted)
         /\ Past!TitlesOf(Past!Parsed(answer, passages)) = Past!TitlesOf(answer)
<1> DEFINE parsed == Past!Parsed(answer, passages)
<1>1. PICK n \in Nat : answer \in [1..n -> Past!SharedEvent]
  <2>1. PICK n \in 0..MaxAnswer : answer \in [1..n -> Past!SharedEvent]
    BY DEF Past!Upto
  <2> QED
    BY <2>1 DEF Answered
<1>2. parsed = [i \in 1..n |-> [answer[i] EXCEPT !.from = @ \cap passages]]
  BY <1>1 DEF Past!Parsed
<1>3. \A i \in 1..n : parsed[i] \in Rooted /\ parsed[i].title = answer[i].title
  BY <1>1, <1>2 DEF Past!SharedEvent, Rooted
<1> HIDE DEF parsed
<1>4. parsed \in [1..n -> Rooted]
  BY <1>2, <1>3
<1>5. parsed \in Seq(Rooted) /\ DOMAIN parsed = 1..n
  BY <1>4
<1>6. Past!TitlesOf(parsed) = Past!TitlesOf(answer)
  BY <1>1, <1>3, <1>5 DEF Past!TitlesOf
<1> QED
  BY <1>5, <1>6 DEF parsed

LEMMA ExtractKeeps ==
  ASSUME Answered, PastInv, NEW answer \in Past!Shared, Past!Extract(answer)
  PROVE  PastInv'
<1>1. CASE answer = None
  <2>1. bygone' = << >> /\ known' = {}
    BY <1>1 DEF Past!Extract
  <2> QED
    BY <2>1 DEF PastInv, Past!TitlesOf, OneOfEach
<1>2. CASE answer # None
  <2> DEFINE parsed == Past!Parsed(answer, Passages)
  <2>1. answer \in Past!Upto(Past!SharedEvent, MaxAnswer)
    BY <1>2 DEF Past!Shared
  <2>2. parsed \in Seq(Rooted) /\ Past!TitlesOf(parsed) = Past!TitlesOf(answer)
    BY <2>1, ParsedIsRooted
  <2>3. /\ known' = Past!TitlesOf(answer)
        /\ \/ bygone' = parsed /\ stop' = "supplement"
           \/ bygone' = Past!Deduplicated(parsed) /\ stop' = "events"
    BY <1>2 DEF Past!Extract
  <2> HIDE DEF parsed
  <2> DEFINE once == Past!Deduplicated(parsed)
  <2>4. once \in Seq(Rooted) /\ OneOfEach(once) /\ Past!TitlesOf(once) = Past!TitlesOf(parsed)
    BY <2>2, MergedAre
  <2> HIDE DEF once
  <2>5. CASE bygone' = parsed /\ stop' = "supplement"
    BY <2>2, <2>3, <2>5 DEF PastInv
  <2>6. CASE bygone' = once
    BY <2>2, <2>3, <2>4, <2>6 DEF PastInv
  <2> QED
    BY <2>3, <2>5, <2>6 DEF once
<1> QED
  BY <1>1, <1>2

\* What came first and what the supplement adds.
LEMMA JoinedTitles ==
  ASSUME NEW T, NEW a \in Seq(T), NEW b \in Seq(T)
  PROVE  a \o b \in Seq(T) /\ Past!TitlesOf(a \o b) = Past!TitlesOf(a) \cup Past!TitlesOf(b)
<1> DEFINE c == a \o b
           m == Len(a)
           n == Len(b)
<1>1. /\ c \in Seq(T) /\ m \in Nat /\ n \in Nat
      /\ DOMAIN a = 1..m /\ DOMAIN b = 1..n /\ DOMAIN c = 1..(m + n)
  OBVIOUS
<1>2. (\A i \in 1..m : c[i] = a[i]) /\ \A i \in 1..n : c[m + i] = b[i]
  OBVIOUS
<1> HIDE DEF c, m, n
<1>3. ASSUME NEW t \in Past!TitlesOf(c) PROVE t \in Past!TitlesOf(a) \cup Past!TitlesOf(b)
  <2>1. PICK i \in 1..(m + n) : t = c[i].title
    BY <1>1 DEF Past!TitlesOf
  <2>2. i \in 1..m \/ (i - m \in 1..n /\ i = m + (i - m))
    BY <1>1
  <2> QED
    BY <1>1, <1>2, <2>1, <2>2 DEF Past!TitlesOf
<1>4. Past!TitlesOf(a) \subseteq Past!TitlesOf(c)
  <2>1. \A i \in 1..m : i \in 1..(m + n)
    BY <1>1
  <2> QED
    BY <1>1, <1>2, <2>1 DEF Past!TitlesOf
<1>5. ASSUME NEW t \in Past!TitlesOf(b) PROVE t \in Past!TitlesOf(c)
  <2>1. PICK i \in 1..n : t = b[i].title
    BY <1>1 DEF Past!TitlesOf
  <2>2. m + i \in DOMAIN c
    BY <1>1
  <2>3. t = c[m + i].title
    BY <1>2, <2>1
  <2> QED
    BY <2>2, <2>3 DEF Past!TitlesOf
<1> QED
  BY <1>1, <1>3, <1>4, <1>5 DEF c

LEMMA SupplementKeeps ==
  ASSUME Answered, PastInv, NEW answer \in Past!Shared, Past!Supplement(answer)
  PROVE  PastInv'
<1> DEFINE more == IF answer = None THEN << >> ELSE Past!Parsed(answer, {})
           all == bygone \o more
<1>1. more \in Seq(Rooted)
  <2>1. answer # None => answer \in Past!Upto(Past!SharedEvent, MaxAnswer)
    BY DEF Past!Shared
  <2> QED
    BY <2>1, ParsedIsRooted
<1>2. bygone' = Past!Deduplicated(all) /\ known' = known \cup Past!TitlesOf(more)
  BY DEF Past!Supplement
<1> HIDE DEF more
<1>3. all \in Seq(Rooted) /\ Past!TitlesOf(all) = known \cup Past!TitlesOf(more)
  BY <1>1, JoinedTitles DEF PastInv
<1> HIDE DEF all
<1> DEFINE once == Past!Deduplicated(all)
<1>4. once \in Seq(Rooted) /\ OneOfEach(once) /\ Past!TitlesOf(once) = Past!TitlesOf(all)
  BY <1>3, MergedAre
<1>5. bygone' = once
  BY <1>2
<1> HIDE DEF once
<1> QED
  BY <1>2, <1>3, <1>4, <1>5 DEF PastInv

\* A batch: its events follow those of the batches before it, in its own order.
LEMMA BatchKeeps ==
  ASSUME Answered, PlotInv, NEW answer \in {None} \cup Past!Upto(Past!Ids, MaxAnswer), Past!Batch(answer)
  PROVE  PlotInv'
<1> DEFINE ids == IF answer = None THEN << >> ELSE answer
           new == [i \in DOMAIN ids |-> [id |-> ids[i], of |-> <<Len(sizes) + 1, i>>]]
           all == Past!Numbered([beats |-> plot, next |-> upcoming], new)
           l == Len(plot)
           n == Len(ids)
           b == Len(sizes) + 1
<1>1. n \in Nat /\ DOMAIN ids = 1..n /\ \A i \in 1..n : ids[i] \in Past!Ids
  <2>1. CASE answer = None
    BY <2>1
  <2>2. CASE answer # None
    <3>1. PICK k \in 0..MaxAnswer : answer \in [1..k -> Past!Ids]
      BY <2>2 DEF Past!Upto
    <3>2. k \in Nat
      BY DEF Answered
    <3>3. ids = answer /\ answer \in Seq(Past!Ids) /\ Len(answer) = k
      BY <2>2, <3>1, <3>2
    <3> QED
      BY <3>1, <3>2, <3>3
  <2> QED
    BY <2>1, <2>2
<1>2. plot' = all.beats /\ upcoming' = all.next /\ sizes' = Append(sizes, n)
  BY DEF Past!Batch
<1>3. b \in Nat /\ \A i \in DOMAIN sizes : i \in Nat /\ i < b
  BY DEF PlotInv
<1> HIDE DEF ids
<1>4. new \in Seq(Beat) /\ Len(new) = n /\ \A i \in 1..n : new[i].of = <<b, i>>
  <2>1. new \in [1..n -> Beat]
    BY <1>1, <1>3 DEF Beat
  <2>2. new \in Seq(Beat) /\ Len(new) = n
    BY <1>1, <2>1
  <2> QED
    BY <1>1, <2>2
<1> HIDE DEF new, n
<1>5. plot \in Seq(Beat) /\ upcoming \in Nat /\ OwnIds(plot) /\ InTurn(plot) /\ Spots(plot) = Counted(sizes) /\ sizes \in Seq(Nat)
  BY DEF PlotInv
<1>6. /\ all.beats \in Seq(Beat) /\ all.next \in Nat /\ OwnIds(all.beats)
      /\ Len(all.beats) = l + Len(new)
      /\ \A i \in 1..l : all.beats[i].of = plot[i].of
      /\ \A i \in 1..Len(new) : all.beats[l + i].of = new[i].of
  BY <1>4, <1>5, NumberedAre
<1> HIDE DEF all
<1>7. /\ l \in Nat /\ DOMAIN plot = 1..l /\ DOMAIN plot' = 1..(l + n)
      /\ \A i \in 1..l : plot'[i].of = plot[i].of
      /\ \A i \in 1..n : plot'[l + i].of = <<b, i>>
  <2>1. l \in Nat /\ DOMAIN plot = 1..l
    BY <1>5
  <2>2. Len(plot') = l + n /\ plot' \in Seq(Beat)
    BY <1>2, <1>4, <1>6
  <2>3. \A i \in 1..l : plot'[i].of = plot[i].of
    BY <1>2, <1>6
  <2>4. \A i \in 1..n : plot'[l + i].of = <<b, i>>
    BY <1>2, <1>4, <1>6
  <2> HIDE DEF l, b
  <2> QED
    BY <2>1, <2>2, <2>3, <2>4
<1>8. \A i \in 1..l : plot[i].of \in Nat \X Nat /\ plot[i].of[1] < b
  <2> SUFFICES ASSUME NEW i \in 1..l PROVE plot[i].of \in Nat \X Nat /\ plot[i].of[1] < b
    OBVIOUS
  <2>1. plot[i].of \in Nat \X Nat
    <3>1. i \in DOMAIN plot
      BY <1>7
    <3>2. plot[i] \in Beat
      BY <1>5, <3>1
    <3> QED
      BY <3>2 DEF Beat
  <2>2. plot[i].of \in Counted(sizes)
    BY <1>5, <1>7 DEF Spots
  <2>3. PICK c \in DOMAIN sizes : plot[i].of \in {c} \X (1..sizes[c])
    BY <2>2 DEF Counted
  <2> QED
    BY <1>3, <2>1, <2>3
<1>9. \A i \in 1..(l + n) : i \in 1..l \/ (i - l \in 1..n /\ i = l + (i - l))
  BY <1>1, <1>7
<1> HIDE DEF l, b
<1>10. InTurn(plot')
  <2> SUFFICES ASSUME NEW i \in 1..(l + n), NEW j \in 1..(l + n), i < j PROVE Past!Before(plot'[i].of, plot'[j].of)
    BY <1>7 DEF InTurn
  <2>1. CASE i \in 1..l /\ j \in 1..l
    BY <1>5, <1>7, <2>1 DEF InTurn
  <2>2. CASE i \in 1..l /\ j \notin 1..l
    <3>1. plot'[j].of = <<b, j - l>> /\ plot'[i].of = plot[i].of
      BY <1>7, <1>9, <2>2
    <3> QED
      BY <1>3, <1>8, <2>2, <3>1 DEF Past!Before
  <2>3. CASE i \notin 1..l
    <3>1. j \notin 1..l
      BY <1>1, <1>7, <2>3
    <3>2. i - l \in 1..n /\ j - l \in 1..n /\ i = l + (i - l) /\ j = l + (j - l) /\ i - l < j - l
      BY <1>1, <1>7, <1>9, <2>3, <3>1
    <3>3. plot'[i].of = <<b, i - l>> /\ plot'[j].of = <<b, j - l>>
      BY <1>7, <3>2
    <3> QED
      BY <1>3, <3>2, <3>3 DEF Past!Before
  <2> QED
    BY <2>1, <2>2, <2>3
<1>11. Spots(plot') = Counted(sizes')
  <2>1. Counted(sizes') = Counted(sizes) \cup ({b} \X (1..n))
    <3>1. DOMAIN sizes' = DOMAIN sizes \cup {b} /\ sizes'[b] = n /\ \A i \in DOMAIN sizes : sizes'[i] = sizes[i]
      BY <1>1, <1>2, <1>5 DEF b
    <3> QED
      BY <3>1 DEF Counted
  <2>2. Spots(plot') = Spots(plot) \cup {<<b, i>> : i \in 1..n}
    <3>1. \A i \in 1..l : i \in 1..(l + n)
      BY <1>1, <1>7
    <3>2. \A i \in 1..n : l + i \in 1..(l + n)
      BY <1>1, <1>7
    <3>3. ASSUME NEW x \in Spots(plot') PROVE x \in Spots(plot) \cup {<<b, i>> : i \in 1..n}
      <4>1. PICK i \in 1..(l + n) : x = plot'[i].of
        BY <1>7 DEF Spots
      <4> QED
        BY <1>7, <1>9, <4>1 DEF Spots
    <3>4. ASSUME NEW i \in 1..l PROVE plot[i].of \in Spots(plot')
      BY <1>7, <3>1 DEF Spots
    <3>5. ASSUME NEW i \in 1..n PROVE <<b, i>> \in Spots(plot')
      BY <1>7, <3>2 DEF Spots
    <3> QED
      BY <1>7, <3>3, <3>4, <3>5 DEF Spots
  <2>3. {b} \X (1..n) = {<<b, i>> : i \in 1..n}
    OBVIOUS
  <2> QED
    BY <1>5, <2>1, <2>2, <2>3
<1>12. sizes' \in Seq(Nat) /\ plot' \in Seq(Beat) /\ upcoming' \in Nat /\ OwnIds(plot')
  BY <1>1, <1>2, <1>5, <1>6
<1> QED
  BY <1>10, <1>11, <1>12 DEF PlotInv, OwnIds, InTurn, Spots, Counted

LEMMA PastInit == Past!Init => PastInv /\ PlotInv
<1> SUFFICES ASSUME Past!Init PROVE PastInv /\ PlotInv
  OBVIOUS
<1>1. bygone = << >> /\ known = {} /\ plot = << >> /\ upcoming = 1 /\ sizes = << >>
  BY DEF Past!Init
<1>2. PastInv
  BY <1>1 DEF PastInv, Past!TitlesOf, OneOfEach
<1>3. OwnIds(<< >>) /\ InTurn(<< >>)
  BY DEF OwnIds, InTurn
<1>4. Spots(<< >>) = {} /\ Counted(<< >>) = {}
  <2>1. DOMAIN << >> = {}
    OBVIOUS
  <2> QED
    BY <2>1, Zenon DEF Spots, Counted
<1>5. << >> \in Seq(Beat) /\ << >> \in Seq(Nat)
  OBVIOUS
<1> QED
  BY <1>1, <1>2, <1>3, <1>4, <1>5 DEF PlotInv

LEMMA PastStep == Answered /\ PastInv /\ PlotInv /\ [Past!Next]_(Past!vars) => PastInv' /\ PlotInv'
<1> SUFFICES ASSUME Answered, PastInv, PlotInv, [Past!Next]_(Past!vars) PROVE PastInv' /\ PlotInv'
  OBVIOUS
<1>1. CASE UNCHANGED Past!vars
  BY <1>1 DEF Past!vars, PastInv, PlotInv, OneOfEach, OwnIds, InTurn, Spots
<1>2. ASSUME NEW answer \in Past!Shared, Past!Extract(answer) \/ Past!Supplement(answer)
      PROVE  PastInv' /\ PlotInv'
  <2>1. plot' = plot /\ upcoming' = upcoming /\ sizes' = sizes
    BY <1>2 DEF Past!Extract, Past!Supplement
  <2> QED
    BY <1>2, <2>1, ExtractKeeps, SupplementKeeps DEF PlotInv, OwnIds, InTurn, Spots
<1>3. ASSUME NEW answer \in {None} \cup Past!Upto(Past!Ids, MaxAnswer), Past!Batch(answer)
      PROVE  PastInv' /\ PlotInv'
  <2>1. bygone' = bygone /\ known' = known /\ stop' = stop
    BY <1>3 DEF Past!Batch
  <2> QED
    BY <1>3, <2>1, BatchKeeps DEF PastInv, OneOfEach, Past!TitlesOf
<1>4. CASE Past!Finish
  <2>1. /\ plot' = Past!Swept(plot) /\ upcoming' = upcoming /\ sizes' = sizes
        /\ bygone' = bygone /\ known' = known /\ stop = "events"
    BY <1>4 DEF Past!Finish
  <2>2. plot' = plot
    BY <2>1, SweptIsAll DEF PlotInv
  <2> QED
    BY <2>1, <2>2 DEF PastInv, PlotInv, OneOfEach, OwnIds, InTurn, Spots, Past!TitlesOf
<1> QED
  BY <1>1, <1>2, <1>3, <1>4 DEF Past!Next

\* events_data_builder.py build_events_data: for any number of batches, whatever ids their writers
\* choose and whichever of them fail, every event that was told is in the world, in its order and with
\* an id of its own.
THEOREM EveryBeatIsKept == ASSUME Answered PROVE Past!Spec => []Past!BeatsKept
<1>1. PlotInv => Past!BeatsKept
  BY DEF PlotInv, Past!BeatsKept, OwnIds, InTurn, Spots, Counted
<1> QED
  BY <1>1, PastInit, PastStep, PTL DEF Past!Spec

\* shared_events_builder.py build_shared_events: for any passages and whatever is answered, what the
\* people of a world share is every title that was told, once, and rests on passages that there are.
THEOREM PastAsTold == ASSUME Answered PROVE Past!Spec => []Past!PastIsTold
<1>1. PastInv => Past!PastIsTold
  <2> SUFFICES ASSUME PastInv, stop # "supplement" PROVE Past!PastIsTold
    BY DEF Past!PastIsTold
  <2>1. Cardinality(known) = Len(bygone)
    BY TitlesCounted DEF PastInv
  <2>2. ASSUME NEW i \in DOMAIN bygone PROVE bygone[i].from \subseteq Passages
    <3>1. bygone[i] \in Rooted
      BY DEF PastInv
    <3> QED
      BY <3>1 DEF Rooted
  <2> QED
    BY <2>1, <2>2, PastCounts DEF PastInv, Past!PastIsTold
<1> QED
  BY <1>1, PastInit, PastStep, PTL DEF Past!Spec
(***************************************************************************)
(* The style of a world (VisualStyle).  Whatever is picked is picked from  *)
(* a list of styles that suit, which is never empty because the fallback   *)
(* suits every culture.  That the family keeps its style rests on the row  *)
(* of the world: what it says of the style is what the draft says.         *)
(***************************************************************************)

\* Every genre has a list of styles, one of the genres is "other"; the fallback is a style that every
\* culture may have; hashes are numbers, an answer has a length, the
\* cover of a script is no picture of the draft, and the mark for "none" is no world.
Fitting(culture) == {s \in Styles : Styling!Suits(s, culture)}
Looks == {b \in [art : Styles, culture : DOMAIN Allowed \cup {None}] : Styling!Suits(b.art, b.culture)}
Rows == [name : DOMAIN Hash, visual : {None} \cup Looks]

Wardrobe ==
    /\ "other" \in DOMAIN Pools /\ \A g \in DOMAIN Pools : Pools[g] \in Seq(Styles)
    /\ Default \in Styles /\ \A c \in DOMAIN Allowed : Default \in Allowed[c]
    /\ \A n \in DOMAIN Hash : Hash[n] \in Nat
    /\ MaxScores \in Nat /\ None \notin Rows /\ "script" \notin Targets

StyleInv ==
    /\ sketch \in [name : DOMAIN Hash, lore : BOOLEAN, visual : {None} \cup Looks]
    /\ issue \in {None} \cup Rows
    /\ arts \in [Targets \cup {"script"} -> {None} \cup Looks]
    /\ issue # None => issue.visual = sketch.visual
    /\ issue = None => arts["script"] = None
    /\ Styling!OneStyle

-----------------------------------------------------------------------------
LEMMA StyledThose ==
  ASSUME NEW T, NEW list \in Seq(T), NEW S
  PROVE  Styling!Those(list, S) \in Seq(T)
<1>1. Styling!Those(list, S) = Begin!Those(list, S)
  BY DEF Styling!Those, Begin!Those
<1> QED
  BY <1>1, ThoseAre

\* What is left of a list: those in S.
LEMMA StyledThoseIn ==
  ASSUME NEW T, NEW list \in Seq(T), NEW S
  PROVE  Styling!Those(list, S) \in Seq(T \cap S)
<1> DEFINE those == Begin!Those(list, S)
<1>1. Styling!Those(list, S) = those
  BY DEF Styling!Those, Begin!Those
<1>2. those \in Seq(T) /\ Begin!ToSet(those) = Begin!ToSet(list) \cap S
  BY ThoseAre
<1> HIDE DEF those
<1>3. \A i \in 1..Len(those) : those[i] \in T \cap S
  BY <1>2 DEF Begin!ToSet
<1>4. those \in [1..Len(those) -> T \cap S] /\ Len(those) \in Nat
  BY <1>2, <1>3
<1> QED
  BY <1>1, <1>4

\* Of the scores those are heard whose style is in S.
LEMMA HeardAre ==
  ASSUME NEW T, NEW list \in Seq(T), NEW S
  PROVE  Styling!Heard(list, S) \in Seq({x \in T : x.style \in S})
<1> DEFINE n == Len(list)
           U == {x \in T : x.style \in S}
           f == CHOOSE g : Sifts(g, "heard", list, S, n)
           N == {k \in Nat : k =< n => f[k] \in Seq(U)}
<1>0. n \in Nat /\ \A k \in 1..n : list[k] \in T
  OBVIOUS
<1>1. Sifts(f, "heard", list, S, n)
  BY <1>0, SiftingExists
<1>2. Styling!Heard(list, S) = f[n]
  BY DEF Styling!Heard, Sifts, Sifted, Base
<1> HIDE DEF f
<1>3. \A k \in 0..n : f[k] = IF k = 0 THEN << >>
                             ELSE IF list[k].style \in S \ {f[k - 1][i].style : i \in DOMAIN f[k - 1]}
                             THEN Append(f[k - 1], list[k]) ELSE f[k - 1]
  BY <1>1 DEF Sifts, Sifted, Base
<1>4. 0 \in N
  <2>1. f[0] = << >>
    BY <1>0, <1>3
  <2>2. << >> \in Seq(U)
    OBVIOUS
  <2> HIDE DEF U
  <2> QED
    BY <2>1, <2>2
<1>5. ASSUME NEW k \in Nat, k \in N PROVE k + 1 \in N
  <2> SUFFICES ASSUME k + 1 =< n PROVE f[k + 1] \in Seq(U)
    OBVIOUS
  <2> DEFINE novel == S \ {f[k][i].style : i \in DOMAIN f[k]}
  <2>1. f[k] \in Seq(U) /\ list[k + 1] \in T
    BY <1>0, <1>5
  <2>2. f[k + 1] = IF list[k + 1].style \in novel THEN Append(f[k], list[k + 1]) ELSE f[k]
    <3>1. k + 1 \in 0..n /\ k + 1 # 0 /\ (k + 1) - 1 = k
      BY <1>0
    <3>2. f[k + 1] = IF k + 1 = 0 THEN << >>
                     ELSE IF list[k + 1].style \in S \ {f[(k + 1) - 1][i].style : i \in DOMAIN f[(k + 1) - 1]}
                     THEN Append(f[(k + 1) - 1], list[k + 1]) ELSE f[(k + 1) - 1]
      BY <1>3, <3>1
    <3> QED
      BY <3>1, <3>2
  <2>3. list[k + 1].style \in novel => list[k + 1] \in U
    BY <2>1
  <2> HIDE DEF novel, U
  <2>4. CASE list[k + 1].style \in novel
    <3>1. list[k + 1] \in U /\ f[k + 1] = Append(f[k], list[k + 1])
      BY <2>2, <2>3, <2>4
    <3> QED
      BY <2>1, <3>1
  <2> QED
    BY <2>1, <2>2, <2>4
<1>6. n \in N
  <2> HIDE DEF N
  <2> QED
    BY <1>0, <1>4, <1>5, NumberInduction
<1> QED
  BY <1>0, <1>2, <1>6

LEMMA StyleCounts == \A S : Styling!Cardinality(S) = Cardinality(S)
BY DEF Styling!Cardinality, Cardinality

\* Who is placed joins the list.
LEMMA PlacedIs ==
  ASSUME NEW T, NEW list \in Seq(T), NEW x \in T
  PROVE  Styling!Placed(list, x) \in Seq(T)
<1> DEFINE S == {i \in DOMAIN list : list[i].score >= x.score}
           above == Styling!Cardinality(S)
<1>1. Len(list) \in Nat /\ DOMAIN list = 1..Len(list)
  OBVIOUS
<1>2. above \in 0..Len(list)
  <2>1. IsFiniteSet(1..Len(list)) /\ Cardinality(1..Len(list)) = Len(list)
    BY <1>1, FS_Interval
  <2>2. S \subseteq 1..Len(list)
    BY <1>1
  <2> HIDE DEF S
  <2>3. IsFiniteSet(S) /\ Cardinality(S) <= Len(list)
    BY <2>1, <2>2, FS_Subset
  <2>4. Cardinality(S) \in Nat
    BY <2>3, FS_CardinalityType
  <2> QED
    BY <1>1, <2>3, <2>4, StyleCounts
<1>3. Styling!Placed(list, x) = SubSeq(list, 1, above) \o <<x>> \o SubSeq(list, above + 1, Len(list))
  BY DEF Styling!Placed
<1> HIDE DEF above
<1>4. SubSeq(list, 1, above) \in Seq(T) /\ SubSeq(list, above + 1, Len(list)) \in Seq(T) /\ <<x>> \in Seq(T)
  BY <1>1, <1>2
<1> QED
  BY <1>3, <1>4

LEMMA HighestAre ==
  ASSUME NEW T, NEW list \in Seq(T)
  PROVE  Styling!Highest(list) \in Seq(T)
<1> DEFINE n == Len(list)
           f == CHOOSE g : Sifts(g, "placed", list, {}, n)
           N == {k \in Nat : k =< n => f[k] \in Seq(T)}
           all == f[n]
<1>0. n \in Nat /\ \A k \in 1..n : list[k] \in T
  OBVIOUS
<1>1. Sifts(f, "placed", list, {}, n)
  BY <1>0, SiftingExists
<1>2. Styling!Highest(list) = SubSeq(all, 1, IF Len(all) < 6 THEN Len(all) ELSE 6)
  BY DEF Styling!Highest, Sifts, Sifted, Base
<1> HIDE DEF f
<1>3. \A k \in 0..n : f[k] = IF k = 0 THEN << >> ELSE Styling!Placed(f[k - 1], list[k])
  BY <1>1 DEF Sifts, Sifted, Base
<1>4. 0 \in N
  <2>1. f[0] = << >>
    BY <1>0, <1>3
  <2>2. << >> \in Seq(T)
    OBVIOUS
  <2>3. f[0] \in Seq(T)
    BY <2>1, <2>2
  <2> QED
    BY <2>3
<1>5. ASSUME NEW k \in Nat, k \in N PROVE k + 1 \in N
  <2> SUFFICES ASSUME k + 1 =< n PROVE f[k + 1] \in Seq(T)
    OBVIOUS
  <2>1. f[k] \in Seq(T) /\ list[k + 1] \in T
    BY <1>0, <1>5
  <2>2. f[k + 1] = Styling!Placed(f[k], list[k + 1])
    BY <1>0, <1>3
  <2> QED
    BY <2>1, <2>2, PlacedIs
<1>6. n \in N
  <2> HIDE DEF N
  <2> QED
    BY <1>0, <1>4, <1>5, NumberInduction
<1>7. all \in Seq(T)
  BY <1>0, <1>6
<1> HIDE DEF all
<1>8. SubSeq(all, 1, IF Len(all) < 6 THEN Len(all) ELSE 6) \in Seq(T)
  BY <1>7
<1> QED
  BY <1>2, <1>8

-----------------------------------------------------------------------------
\* The pool of a genre suits the culture, and is not empty.
LEMMA PoolFits ==
  ASSUME Wardrobe, NEW genre, NEW culture
  PROVE  Styling!Pool(genre, culture) \in Seq(Fitting(culture)) /\ Styling!Pool(genre, culture) # << >>
<1> DEFINE fit == Fitting(culture)
           of == Styling!Those(Pools[IF genre \in Styling!Genres THEN genre ELSE "other"], fit)
           other == Styling!Those(Pools["other"], fit)
<1>1. \A list \in Seq(Styles) : Styling!Those(list, fit) \in Seq(fit)
  <2> SUFFICES ASSUME NEW list \in Seq(Styles) PROVE Styling!Those(list, fit) \in Seq(fit)
    OBVIOUS
  <2>1. Styling!Those(list, fit) \in Seq(Styles \cap fit)
    BY StyledThoseIn
  <2>2. Styles \cap fit = fit
    BY DEF Fitting
  <2> QED
    BY <2>1, <2>2
<1>2. Pools[IF genre \in Styling!Genres THEN genre ELSE "other"] \in Seq(Styles) /\ Pools["other"] \in Seq(Styles)
  BY DEF Wardrobe, Styling!Genres
<1>3. of \in Seq(fit) /\ other \in Seq(fit)
  BY <1>1, <1>2
<1>4. Styling!Pool(genre, culture) = IF of # << >> THEN of ELSE IF culture \in Styling!Cultures /\ other # << >> THEN other ELSE <<Default>>
  BY DEF Styling!Pool, Fitting
<1>5. Default \in fit
  BY DEF Wardrobe, Fitting, Styling!Suits, Styling!Cultures
<1> HIDE DEF of, other, fit
<1>6. <<Default>> \in Seq(fit) /\ <<Default>> # << >>
  BY <1>5
<1> QED
  BY <1>3, <1>4, <1>6 DEF fit

\* Of what a model says only what suits is heard.
LEMMA SanitizedFits ==
  ASSUME Wardrobe, NEW said \in Styling!Answers, NEW culture
  PROVE  Styling!Sanitized(said.scores, culture) \in Seq({x \in [style : Styles, score : Scores] : x.style \in Fitting(culture)})
<1> DEFINE T == [style : Styles, score : Scores]
           U == {x \in T : x.style \in Fitting(culture)}
           scores == said.scores
<1>1. scores \in Seq(T)
  <2>1. PICK k \in 0..MaxScores : scores \in [1..k -> T]
    BY DEF Styling!Answers
  <2>2. k \in Nat
    BY DEF Wardrobe
  <2> HIDE DEF T, scores
  <2> QED
    BY <2>1, <2>2
<1> HIDE DEF T, scores
<1>2. Styling!Heard(scores, Fitting(culture)) \in Seq(U)
  BY <1>1, HeardAre
<1>3. Styling!Sanitized(scores, culture) = Styling!Highest(Styling!Heard(scores, Fitting(culture)))
  BY DEF Styling!Sanitized, Fitting
<1> HIDE DEF U
<1>4. Styling!Highest(Styling!Heard(scores, Fitting(culture))) \in Seq(U)
  BY <1>2, HighestAre
<1> QED
  BY <1>3, <1>4 DEF U, T, scores

\* What joins the pool suits as well.
LEMMA SurprisesFit ==
  ASSUME NEW T, NEW F, NEW scores \in Seq({x \in T : x.style \in F}), NEW pool
  PROVE  Styling!Surprises(pool, scores) \in Seq(F)
<1> DEFINE U == {x \in T : x.style \in F}
           high == Styling!Those(scores, {x \in Styling!ToSet(scores) : x.score >= 82 /\ x.style \notin Styling!ToSet(pool)})
           m == IF Len(high) < 2 THEN Len(high) ELSE 2
<1>1. high \in Seq(U)
  BY StyledThose
<1>2. Styling!Surprises(pool, scores) = [k \in 1..m |-> high[k].style]
  BY DEF Styling!Surprises
<1> HIDE DEF high
<1>3. m \in Nat /\ \A k \in 1..m : high[k] \in U
  BY <1>1
<1> HIDE DEF m
<1>4. [k \in 1..m |-> high[k].style] \in [1..m -> F]
  BY <1>3
<1> QED
  BY <1>2, <1>3, <1>4

\* A list of n > 0 items.
Filled(list, n) == n > 0 /\ DOMAIN list = 1..n /\ list = [k \in 1..n |-> list[k]]

\* What is weighted is a list of styles that suit, and not empty.
LEMMA WeightedFits ==
  ASSUME Wardrobe, NEW genre, NEW culture, NEW T,
         NEW scores \in Seq({x \in T : x.style \in Fitting(culture)})
  PROVE  LET list == Styling!Weighted(genre, culture, scores)
         IN  \E n \in Nat : Filled(list, n) /\ \A k \in 1..n : list[k].style \in Fitting(culture)
<1> DEFINE pool == Styling!Pool(genre, culture)
           F == Fitting(culture)
           candidates == pool \o Styling!Surprises(pool, scores)
           map == Styling!ToMap(scores)
           stays(s) == ~(s \in DOMAIN map /\ map[s] < 28 /\ Len(candidates) > 2)
           weight(s) == IF s \in DOMAIN map THEN 35 + map[s] ELSE 75
           left == Styling!Those(candidates, {s \in Styling!ToSet(candidates) : stays(s)})
           list == Styling!Weighted(genre, culture, scores)
<1>1. pool \in Seq(F) /\ pool # << >>
  BY PoolFits
<1>2. candidates \in Seq(F)
  <2>1. Styling!Surprises(pool, scores) \in Seq(F)
    BY SurprisesFit
  <2> HIDE DEF pool
  <2> QED
    BY <1>1, <2>1
<1>3. left \in Seq(F)
  <2> HIDE DEF candidates
  <2> QED
    BY <1>2, StyledThose
<1>4. list = IF left = << >> THEN [k \in DOMAIN pool |-> [style |-> pool[k], weight |-> 100]]
             ELSE [k \in DOMAIN left |-> [style |-> left[k], weight |-> weight(left[k])]]
  BY DEF Styling!Weighted
<1> HIDE DEF pool, left, list, weight, F
<1>5. CASE left = << >>
  <2>1. Len(pool) \in Nat /\ Len(pool) > 0 /\ DOMAIN pool = 1..Len(pool) /\ \A k \in 1..Len(pool) : pool[k] \in F
    BY <1>1
  <2>2. list = [k \in 1..Len(pool) |-> [style |-> pool[k], weight |-> 100]]
    BY <1>4, <1>5, <2>1
  <2>3. list = [k \in 1..Len(pool) |-> list[k]] /\ DOMAIN list = 1..Len(pool) /\ \A k \in 1..Len(pool) : list[k].style \in F
    BY <2>1, <2>2
  <2> QED
    BY <2>1, <2>3 DEF list, F, Filled
<1>6. CASE left # << >>
  <2>1. Len(left) \in Nat /\ Len(left) > 0 /\ DOMAIN left = 1..Len(left) /\ \A k \in 1..Len(left) : left[k] \in F
    BY <1>3, <1>6
  <2>2. list = [k \in 1..Len(left) |-> [style |-> left[k], weight |-> weight(left[k])]]
    BY <1>4, <1>6, <2>1
  <2>3. list = [k \in 1..Len(left) |-> list[k]] /\ DOMAIN list = 1..Len(left) /\ \A k \in 1..Len(left) : list[k].style \in F
    BY <2>1, <2>2
  <2> QED
    BY <2>1, <2>3 DEF list, F, Filled
<1> QED
  BY <1>5, <1>6

\* What is picked is in the list, whatever the weights are.
LEMMA PickedIsListed ==
  ASSUME NEW list, NEW n \in Nat, Filled(list, n), NEW hash \in Nat
  PROVE  \E k \in 1..n : Styling!Picked(list, hash) = list[k].style
<1> DEFINE reached == {i \in DOMAIN list : hash * Styling!Total(list) < 100 * Styling!Total(SubSeq(list, 1, i))}
           at == IF reached = {} THEN Len(list) ELSE CHOOSE i \in reached : \A j \in reached : i <= j
           even == \A i, j \in DOMAIN list : list[i].weight = list[j].weight
<1>0. n > 0 /\ DOMAIN list = 1..n /\ list = [k \in 1..n |-> list[k]]
  BY DEF Filled
<1>1. Len(list) = n
  <2> DEFINE T == {list[k] : k \in 1..n}
  <2>1. list \in [1..n -> T]
    BY <1>0
  <2> QED
    BY <2>1
<1>2. Styling!Picked(list, hash) = IF even THEN list[(hash % Len(list)) + 1].style ELSE list[at].style
  BY DEF Styling!Picked
<1>3. (hash % n) + 1 \in 1..n
  BY <1>0
<1>4. at \in 1..n
  <2>1. reached \subseteq 1..n
    BY <1>0
  <2> HIDE DEF reached
  <2>2. CASE reached = {}
    BY <1>0, <1>1, <2>2
  <2>3. CASE reached # {}
    <3>1. reached \in SUBSET Nat
      BY <2>1
    <3>2. \E i \in reached : \A j \in reached : i <= j
      BY <2>3, <3>1, FirstThere
    <3> QED
      BY <2>1, <2>3, <3>2
  <2> QED
    BY <2>2, <2>3
<1> HIDE DEF at, even
<1> QED
  BY <1>1, <1>2, <1>3, <1>4

\* A brief has a style that suits, and the one that is kept if there is a culture with it.
LEMMA BriefFits ==
  ASSUME Wardrobe, NEW name \in DOMAIN Hash, NEW visual \in {None} \cup Looks, NEW said \in Styling!Answers
  PROVE  LET brief == Styling!Brief(name, visual, said)
         IN  brief \in Looks /\ (visual # None /\ visual.culture # None => brief.art = visual.art)
<1> DEFINE brief == Styling!Brief(name, visual, said)
           here == IF visual # None /\ visual.culture # None THEN visual.culture ELSE said.culture
           list == Styling!Weighted(said.genre, said.culture, Styling!Sanitized(said.scores, said.culture))
           picked == Styling!Picked(list, Hash[name])
<1>1. said.culture \in DOMAIN Allowed \cup {None}
  BY DEF Styling!Answers, Styling!Cultures
<1>2. picked \in Fitting(said.culture)
  <2> DEFINE scores == Styling!Sanitized(said.scores, said.culture)
             T == [style : Styles, score : Scores]
  <2>1. scores \in Seq({x \in T : x.style \in Fitting(said.culture)})
    BY SanitizedFits
  <2> HIDE DEF T, scores
  <2>2. \E n \in Nat : Filled(list, n) /\ \A k \in 1..n : list[k].style \in Fitting(said.culture)
    BY <2>1, WeightedFits DEF scores
  <2>3. PICK n \in Nat : Filled(list, n) /\ \A k \in 1..n : list[k].style \in Fitting(said.culture)
    BY <2>2
  <2>4. Hash[name] \in Nat
    BY DEF Wardrobe
  <2> HIDE DEF list
  <2>5. \E k \in 1..n : picked = list[k].style
    BY <2>3, <2>4, PickedIsListed
  <2> QED
    BY <2>3, <2>5
<1>3. brief = IF visual # None /\ Styling!Suits(visual.art, here)
              THEN [art |-> visual.art, culture |-> here] ELSE [art |-> picked, culture |-> said.culture]
  BY DEF Styling!Brief
<1> HIDE DEF picked, brief
<1>4. CASE visual # None /\ Styling!Suits(visual.art, here)
  <2>1. visual \in Looks
    BY <1>4
  <2>2. here \in DOMAIN Allowed \cup {None} /\ visual.art \in Styles
    BY <1>1, <2>1 DEF Looks
  <2>3. brief = [art |-> visual.art, culture |-> here]
    BY <1>3, <1>4
  <2> HIDE DEF here
  <2>4. brief \in Looks
    BY <1>4, <2>2, <2>3 DEF Looks
  <2> QED
    BY <2>3, <2>4 DEF brief
<1>5. CASE ~(visual # None /\ Styling!Suits(visual.art, here))
  <2>1. brief = [art |-> picked, culture |-> said.culture]
    BY <1>3, <1>5
  <2>2. brief \in Looks
    BY <1>1, <1>2, <2>1 DEF Looks, Fitting
  <2>3. ~(visual # None /\ visual.culture # None)
    BY <1>5 DEF Looks
  <2> QED
    BY <2>2, <2>3 DEF brief
<1> QED
  BY <1>4, <1>5

-----------------------------------------------------------------------------
LEMMA StyleInit == Styling!Init => StyleInv
<1> SUFFICES ASSUME Styling!Init PROVE StyleInv
  OBVIOUS
<1>1. sketch \in [name : DOMAIN Hash, lore : BOOLEAN, visual : {None}] /\ issue = None
      /\ arts = [t \in Targets \cup {"script"} |-> None]
  BY DEF Styling!Init
<1>2. sketch.visual = None
  BY <1>1
<1> QED
  BY <1>1, <1>2 DEF StyleInv, Styling!OneStyle

LEMMA GenerateKeeps ==
  ASSUME Wardrobe, StyleInv, NEW said \in Styling!Answers, Styling!Generate(said)
  PROVE  StyleInv'
<1> DEFINE new == Styling!Brief(sketch.name, None, said)
<1>1. new \in Looks
  BY BriefFits DEF StyleInv
<1>2. /\ sketch.visual = None /\ issue = None /\ issue' = issue
      /\ sketch' = [sketch EXCEPT !.visual = new]
      /\ arts' = [t \in DOMAIN arts |-> IF t \in Targets THEN new ELSE arts[t]]
  BY DEF Styling!Generate
<1> HIDE DEF new
<1>3. sketch' \in [name : DOMAIN Hash, lore : BOOLEAN, visual : {None} \cup Looks] /\ sketch'.visual = new
  BY <1>1, <1>2 DEF StyleInv
<1>4. arts' \in [Targets \cup {"script"} -> {None} \cup Looks]
  BY <1>1, <1>2 DEF StyleInv
<1>5. \A t \in DOMAIN arts' : arts'[t] = new \/ (t = "script" /\ arts'[t] = None)
  BY <1>2 DEF StyleInv
<1>6. Styling!OneStyle'
  BY <1>3, <1>5 DEF Styling!OneStyle
<1>7. arts'["script"] = None
  BY <1>2 DEF Wardrobe, StyleInv
<1> QED
  BY <1>2, <1>3, <1>4, <1>6, <1>7 DEF StyleInv

\* A picture that is made by the style of the world, wherever that is read.
LEMMA PaintKeeps ==
  ASSUME Wardrobe, StyleInv, NEW said \in Styling!Answers, NEW name \in DOMAIN Hash, NEW t \in Targets \cup {"script"},
         t = "script" => issue # None,
         arts' = [arts EXCEPT ![t] = Styling!Brief(name, sketch.visual, said)], UNCHANGED <<sketch, issue>>
  PROVE  StyleInv'
<1> DEFINE new == Styling!Brief(name, sketch.visual, said)
<1>1. sketch.visual \in {None} \cup Looks
  BY DEF StyleInv
<1>2. new \in Looks /\ (sketch.visual # None /\ sketch.visual.culture # None => new.art = sketch.visual.art)
  BY <1>1, BriefFits
<1>3. arts' = [arts EXCEPT ![t] = new]
  OBVIOUS
<1> HIDE DEF new
<1>4. arts' \in [Targets \cup {"script"} -> {None} \cup Looks]
  BY <1>2, <1>3 DEF StyleInv
<1>5. \A u \in Targets \cup {"script"} : arts'[u] = IF u = t THEN new ELSE arts[u]
  BY <1>3 DEF StyleInv
<1>6. Styling!OneStyle'
  BY <1>2, <1>4, <1>5 DEF StyleInv, Styling!OneStyle
<1> QED
  BY <1>4, <1>5, <1>6 DEF StyleInv

LEMMA StyleStep == Wardrobe /\ StyleInv /\ [Styling!Next]_(Styling!vars) => StyleInv'
<1> SUFFICES ASSUME Wardrobe, StyleInv, [Styling!Next]_(Styling!vars) PROVE StyleInv'
  OBVIOUS
<1>1. CASE UNCHANGED Styling!vars
  BY <1>1 DEF Styling!vars, StyleInv, Styling!OneStyle
<1>2. ASSUME NEW said \in Styling!Answers, Styling!Generate(said) PROVE StyleInv'
  BY <1>2, GenerateKeeps
<1>3. ASSUME NEW said \in Styling!Answers, NEW t \in Targets, Styling!Redo(t, said) PROVE StyleInv'
  <2>1. sketch.name \in DOMAIN Hash
    BY DEF StyleInv
  <2>2. arts' = [arts EXCEPT ![t] = Styling!Brief(sketch.name, sketch.visual, said)] /\ UNCHANGED <<sketch, issue>>
    BY <1>3 DEF Styling!Redo
  <2>3. t # "script"
    BY DEF Wardrobe
  <2> QED
    BY <2>1, <2>2, <2>3, PaintKeeps
<1>4. ASSUME NEW said \in Styling!Answers, Styling!Script(said) PROVE StyleInv'
  <2>1. issue # None /\ issue.name \in DOMAIN Hash /\ issue.visual = sketch.visual
    BY <1>4 DEF Styling!Script, StyleInv, Rows
  <2>2. arts' = [arts EXCEPT !["script"] = Styling!Brief(issue.name, sketch.visual, said)] /\ UNCHANGED <<sketch, issue>>
    BY <1>4, <2>1 DEF Styling!Script
  <2> QED
    BY <2>1, <2>2, PaintKeeps
<1>5. ASSUME NEW name \in DOMAIN Hash, Styling!Rename(name) PROVE StyleInv'
  <2>1. sketch' = [sketch EXCEPT !.name = name] /\ UNCHANGED <<issue, arts>>
    BY <1>5 DEF Styling!Rename
  <2>2. sketch' \in [name : DOMAIN Hash, lore : BOOLEAN, visual : {None} \cup Looks] /\ sketch'.visual = sketch.visual
    BY <2>1 DEF StyleInv
  <2> QED
    BY <2>1, <2>2 DEF StyleInv, Styling!OneStyle
<1>6. CASE Styling!Publish
  <2> DEFINE row == IF issue = None THEN None ELSE issue.visual
             visual == Styling!Lore(sketch, row)
  <2>1. issue' = [name |-> sketch.name, visual |-> visual] /\ UNCHANGED <<sketch, arts>>
    BY <1>6 DEF Styling!Publish
  <2>2. visual = sketch.visual
    BY DEF Styling!Lore, StyleInv
  <2> HIDE DEF visual
  <2>3. issue' \in Rows /\ issue'.visual = sketch.visual
    BY <2>1, <2>2 DEF StyleInv, Rows
  <2>4. issue' # None
    BY <2>3 DEF Wardrobe
  <2> QED
    BY <2>1, <2>3, <2>4 DEF StyleInv, Styling!OneStyle
<1> QED
  BY <1>1, <1>2, <1>3, <1>4, <1>5, <1>6 DEF Styling!Next

\* cover_brief.py (the hard filter): for any cultures, genres and styles, and whatever a model would
\* like, every picture is in a style that suits the culture it was made for.
THEOREM StylesSuit == ASSUME Wardrobe PROVE Styling!Spec => []Styling!StyleSuits
<1>1. StyleInv => Styling!StyleSuits
  BY DEF StyleInv, Looks, Styling!StyleSuits
<1> QED
  BY <1>1, StyleInit, StyleStep, PTL DEF Styling!Spec

\* cover_brief_helper.py (a world family does not drift): once a world has a style and a culture, all
\* its pictures and those of its scripts are in that style, however it is renamed and published and
\* whatever is said later.
THEOREM FamilyKeepsStyle == ASSUME Wardrobe PROVE Styling!Spec => []Styling!OneStyle
<1>1. StyleInv => Styling!OneStyle
  BY DEF StyleInv
<1> QED
  BY <1>1, StyleInit, StyleStep, PTL DEF Styling!Spec

-----------------------------------------------------------------------------
(***************************************************************************)
(* The cast (CastBuilding).  An entry is in one batch only, so what is     *)
(* bound to it stems from one answer; and who is not bound by name is      *)
(* bound by place, for which there are enough items: each item under a     *)
(* name uses up an entry of its own.                                       *)
(***************************************************************************)
\* Batches and answers have a size.
Rostered ==
    /\ \A r \in Rosters : \E S : r \in Seq(S)
    /\ BatchSize \in Nat \ {0} /\ {MaxReplies, Core} \subseteq Nat

Solo(s) == \A i, j \in DOMAIN s : s[i] = s[j] => i = j
Apart(lists) == \A b, c \in DOMAIN lists : b # c => Casting!ToSet(lists[b]) \cap Casting!ToSet(lists[c]) = {}

CastInv ==
    /\ roll \in Rosters
    /\ act \in {"first", "again"} =>
         /\ orders \in Seq(Seq(DOMAIN roll)) /\ Apart(orders) /\ \A b \in DOMAIN orders : Solo(orders[b])
         /\ \A b \in DOMAIN orders : Casting!Called(orders[b]) \cap DOMAIN troupe = {}
         /\ replies \in [DOMAIN orders -> {None} \cup Casting!Upto(Casting!Item, MaxReplies)]
    /\ \A n \in DOMAIN troupe : troupe[n].entry \in DOMAIN roll /\ roll[troupe[n].entry] = n
    /\ Casting!NobodyIsReplaced /\ Casting!NobodyIsLost /\ Casting!PeersAreKnown

-----------------------------------------------------------------------------
\* A list is one of what is in it.
LEMMA OfItsOwn ==
  ASSUME NEW T, NEW list \in Seq(T)
  PROVE  list \in Seq(Casting!ToSet(list))
<1>1. list \in [1..Len(list) -> T] /\ Len(list) \in Nat /\ DOMAIN list = 1..Len(list)
  OBVIOUS
<1>2. \A i \in 1..Len(list) : list[i] \in Casting!ToSet(list)
  BY <1>1 DEF Casting!ToSet
<1>3. list \in [1..Len(list) -> Casting!ToSet(list)]
  BY <1>1, <1>2
<1> QED
  BY <1>1, <1>3

\* What is left of a list: those in S, none of them twice if the list has none twice.
LEMMA CastThose ==
  ASSUME NEW T, NEW list \in Seq(T), NEW S
  PROVE  LET those == Casting!Those(list, S)
         IN  /\ those \in Seq(T) /\ Casting!ToSet(those) = Casting!ToSet(list) \cap S
             /\ Solo(list) => Solo(those)
<1> DEFINE those == Casting!Those(list, S)
<1>1. those = Begin!Those(list, S)
  BY DEF Casting!Those, Begin!Those
<1>2. \A s : Casting!ToSet(s) = Begin!ToSet(s)
  BY DEF Casting!ToSet, Begin!ToSet
<1>3. those \in Seq(T) /\ Within(those, list, Len(list)) /\ Begin!ToSet(those) = Begin!ToSet(list) \cap S
  BY <1>1, ThoseAre
<1> HIDE DEF those
<1>4. ASSUME Solo(list) PROVE Solo(those)
  <2>1. Len(list) \in Nat /\ DOMAIN list = 1..Len(list)
    OBVIOUS
  <2>2. ASSUME NEW i \in DOMAIN those, NEW j \in DOMAIN those, i < j PROVE those[i] # those[j]
    <3>1. PICK p \in 1..Len(list), q \in 1..Len(list) : p < q /\ those[i] = list[p] /\ those[j] = list[q]
      BY <1>3, <2>2 DEF Within
    <3>2. p # q
      BY <3>1
    <3> QED
      BY <1>4, <2>1, <3>1, <3>2 DEF Solo
  <2>3. \A i \in DOMAIN those : i \in Nat
    BY <1>3
  <2>4. ASSUME NEW i \in DOMAIN those, NEW j \in DOMAIN those, those[i] = those[j] PROVE i = j
    <3>1. i \in Nat /\ j \in Nat
      BY <2>3
    <3>2. ~(i < j) /\ ~(j < i)
      BY <2>2, <2>4
    <3> QED
      BY <3>1, <3>2
  <2> QED
    BY <2>4 DEF Solo
<1>5. Casting!ToSet(those) = Casting!ToSet(list) \cap S
  BY <1>2, <1>3
<1> QED
  BY <1>3, <1>4, <1>5 DEF those

\* A list without doubles has as many items as places.
LEMMA SoloLength ==
  ASSUME NEW T, NEW list \in Seq(T), Solo(list)
  PROVE  IsFiniteSet(Casting!ToSet(list)) /\ Cardinality(Casting!ToSet(list)) = Len(list)
<1> DEFINE S == Casting!ToSet(list)
           n == Len(list)
<1>1. n \in Nat /\ DOMAIN list = 1..n /\ list \in [1..n -> T]
  OBVIOUS
<1>2. list \in [1..n -> S]
  BY <1>1, OfItsOwn
<1>3. list \in Injection(1..n, S)
  BY <1>1, <1>2 DEF Injection, IsInjective, Solo
<1>4. list \in Surjection(1..n, S)
  BY <1>1, <1>2 DEF Surjection, Casting!ToSet
<1>5. ExistsBijection(1..n, S)
  BY <1>3, <1>4 DEF ExistsBijection, Bijection
<1>6. IsFiniteSet(1..n) /\ Cardinality(1..n) = n
  BY <1>1, FS_Interval
<1> QED
  BY <1>5, <1>6, FS_Bijection

\* One list behind the other.
LEMMA BehindIs ==
  ASSUME NEW T, NEW s \in Seq(T), NEW t \in Seq(T)
  PROVE  s \o t \in Seq(T) /\ Casting!ToSet(s \o t) = Casting!ToSet(s) \cup Casting!ToSet(t)
<1> DEFINE m == Len(s)
           n == Len(t)
           st == s \o t
<1>1. /\ m \in Nat /\ n \in Nat /\ DOMAIN s = 1..m /\ DOMAIN t = 1..n /\ DOMAIN st = 1..(m + n)
      /\ st \in Seq(T) /\ \A i \in 1..(m + n) : st[i] = IF i <= m THEN s[i] ELSE t[i - m]
  OBVIOUS
<1> HIDE DEF m, n, st
<1>2. ASSUME NEW x \in Casting!ToSet(st) PROVE x \in Casting!ToSet(s) \cup Casting!ToSet(t)
  <2>1. PICK i \in 1..(m + n) : x = st[i]
    BY <1>1 DEF Casting!ToSet
  <2>2. CASE i <= m
    <3>1. i \in 1..m /\ x = s[i]
      BY <1>1, <2>1, <2>2
    <3> QED
      BY <1>1, <3>1 DEF Casting!ToSet
  <2>3. CASE ~(i <= m)
    <3>1. i - m \in 1..n /\ x = t[i - m]
      BY <1>1, <2>1, <2>3
    <3> QED
      BY <1>1, <3>1 DEF Casting!ToSet
  <2> QED
    BY <2>2, <2>3
<1>3. ASSUME NEW x \in Casting!ToSet(s) PROVE x \in Casting!ToSet(st)
  <2>1. PICK i \in 1..m : x = s[i]
    BY <1>1 DEF Casting!ToSet
  <2>2. i \in 1..(m + n) /\ st[i] = x
    BY <1>1, <2>1
  <2> QED
    BY <1>1, <2>2 DEF Casting!ToSet
<1>4. ASSUME NEW x \in Casting!ToSet(t) PROVE x \in Casting!ToSet(st)
  <2>1. PICK i \in 1..n : x = t[i]
    BY <1>1 DEF Casting!ToSet
  <2>2. m + i \in 1..(m + n) /\ ~(m + i <= m) /\ (m + i) - m = i
    BY <1>1
  <2>3. st[m + i] = x
    BY <1>1, <2>1, <2>2
  <2> QED
    BY <1>1, <2>2, <2>3 DEF Casting!ToSet
<1> QED
  BY <1>1, <1>2, <1>3, <1>4 DEF st

\* Lists behind one another have what each of them has.
LEMMA JoinedAre ==
  ASSUME NEW T, NEW lists \in Seq(Seq(T))
  PROVE  /\ Casting!Joined(lists) \in Seq(T)
         /\ \A x : x \in Casting!ToSet(Casting!Joined(lists)) <=> \E b \in DOMAIN lists : x \in Casting!ToSet(lists[b])
<1> DEFINE n == Len(lists)
           f == CHOOSE g : Sifts(g, "joined", lists, {}, n)
           Good(k) == /\ f[k] \in Seq(T)
                      /\ \A x : x \in Casting!ToSet(f[k]) <=> \E b \in 1..k : x \in Casting!ToSet(lists[b])
           N == {k \in Nat : k =< n => Good(k)}
<1>0. n \in Nat /\ DOMAIN lists = 1..n /\ \A k \in 1..n : lists[k] \in Seq(T)
  OBVIOUS
<1>1. Sifts(f, "joined", lists, {}, n)
  BY <1>0, SiftingExists
<1>2. Casting!Joined(lists) = f[n]
  BY DEF Casting!Joined, Sifts, Sifted, Base
<1> HIDE DEF f
<1>3. \A k \in 0..n : f[k] = IF k = 0 THEN << >> ELSE f[k - 1] \o lists[k]
  BY <1>1 DEF Sifts, Sifted, Base
<1>4. 0 \in N
  <2>1. f[0] = << >> /\ << >> \in Seq(T)
    BY <1>0, <1>3
  <2>2. Casting!ToSet(<< >>) = {} /\ 1..0 = {}
    BY DEF Casting!ToSet
  <2>3. Good(0)
    BY <2>1, <2>2
  <2> QED
    BY <2>3
<1>5. ASSUME NEW k \in Nat, k \in N PROVE k + 1 \in N
  <2> SUFFICES ASSUME k + 1 =< n PROVE Good(k + 1)
    <3> HIDE DEF Good
    <3> QED
      OBVIOUS
  <2>1. Good(k) /\ lists[k + 1] \in Seq(T)
    <3>1. k =< n /\ k + 1 \in 1..n
      BY <1>0
    <3>2. lists[k + 1] \in Seq(T)
      BY <1>0, <3>1
    <3>3. Good(k)
      <4> HIDE DEF Good
      <4> QED
        BY <1>5, <3>1
    <3> QED
      BY <3>2, <3>3
  <2>2. f[k + 1] = f[k] \o lists[k + 1]
    <3>1. k + 1 \in 0..n /\ k + 1 # 0 /\ (k + 1) - 1 = k
      BY <1>0
    <3>2. f[k + 1] = f[(k + 1) - 1] \o lists[k + 1]
      BY <1>3, <3>1
    <3> QED
      BY <3>1, <3>2
  <2>3. f[k + 1] \in Seq(T) /\ Casting!ToSet(f[k + 1]) = Casting!ToSet(f[k]) \cup Casting!ToSet(lists[k + 1])
    BY <2>1, <2>2, BehindIs
  <2>4. 1..(k + 1) = (1..k) \cup {k + 1}
    OBVIOUS
  <2> QED
    BY <2>1, <2>3, <2>4
<1>6. n \in N
  <2> HIDE DEF N
  <2> QED
    BY <1>0, <1>4, <1>5, NumberInduction
<1> QED
  BY <1>0, <1>2, <1>6

\* Relations one after the other: no two are to the same one in the same way.
LEMMA RelatedAre ==
  ASSUME NEW T, NEW list \in Seq(T)
  PROVE  LET related == Casting!Related(list)
         IN  /\ related \in Seq(T) /\ Casting!ToSet(related) \subseteq Casting!ToSet(list)
             /\ \A i, j \in DOMAIN related :
                    related[i].target = related[j].target /\ related[i].kind = related[j].kind => i = j
<1> DEFINE n == Len(list)
           f == CHOOSE g : Sifts(g, "added", list, {}, n)
           Single(s) == \A i, j \in DOMAIN s : s[i].target = s[j].target /\ s[i].kind = s[j].kind => i = j
           Good(k) == f[k] \in Seq(T) /\ Casting!ToSet(f[k]) \subseteq Casting!ToSet(list) /\ Single(f[k])
           N == {k \in Nat : k =< n => Good(k)}
<1>0. n \in Nat /\ DOMAIN list = 1..n /\ \A k \in 1..n : list[k] \in T
  OBVIOUS
<1>1. Sifts(f, "added", list, {}, n)
  BY <1>0, SiftingExists
<1>2. Casting!Related(list) = f[n]
  BY DEF Casting!Related, Sifts, Sifted, Base
<1> HIDE DEF f
<1>3. \A k \in 0..n : f[k] = IF k = 0 THEN << >> ELSE Casting!Added(f[k - 1], list[k])
  BY <1>1 DEF Sifts, Sifted, Base
<1>4. 0 \in N
  <2>1. f[0] = << >>
    BY <1>0, <1>3
  <2>2. << >> \in Seq(T) /\ Casting!ToSet(<< >>) = {} /\ Single(<< >>)
    BY DEF Casting!ToSet
  <2>3. Good(0)
    BY <2>1, <2>2
  <2> QED
    BY <2>3
<1>5. ASSUME NEW k \in Nat, k \in N PROVE k + 1 \in N
  <2> SUFFICES ASSUME k + 1 =< n PROVE Good(k + 1)
    OBVIOUS
  <2> DEFINE made == f[k]
             x == list[k + 1]
             there == \E i \in DOMAIN made : made[i].target = x.target /\ made[i].kind = x.kind
             more == Append(made, x)
  <2>1. Good(k)
    BY <1>0, <1>5
  <2>2. f[k + 1] = IF there THEN made ELSE more
    <3>1. k + 1 \in 0..n /\ k + 1 # 0 /\ (k + 1) - 1 = k
      BY <1>0
    <3>2. f[k + 1] = Casting!Added(f[(k + 1) - 1], list[k + 1])
      BY <1>3, <3>1
    <3>3. f[k + 1] = Casting!Added(f[k], list[k + 1])
      BY <3>1, <3>2
    <3> QED
      BY <3>3 DEF Casting!Added
  <2>3. x \in T /\ x \in Casting!ToSet(list)
    <3>1. k + 1 \in 1..n
      BY <1>0
    <3> QED
      BY <1>0, <3>1 DEF Casting!ToSet
  <2> HIDE DEF x
  <2>4. CASE there
    BY <2>1, <2>2, <2>4
  <2>5. CASE ~there
    <3>1. made \in Seq(T) /\ Single(made) /\ Casting!ToSet(made) \subseteq Casting!ToSet(list)
      BY <2>1
    <3>2. \A i \in DOMAIN made : ~(made[i].target = x.target /\ made[i].kind = x.kind)
      BY <2>5
    <3> HIDE DEF made
    <3>3. /\ Len(made) \in Nat /\ DOMAIN made = 1..Len(made) /\ more \in Seq(T) /\ DOMAIN more = 1..(Len(made) + 1)
          /\ (\A i \in 1..Len(made) : more[i] = made[i]) /\ more[Len(made) + 1] = x
      BY <2>3, <3>1
    <3> HIDE DEF more
    <3>4. \A i \in DOMAIN more : i \in DOMAIN made \/ i = Len(made) + 1
      BY <3>3
    <3>5. Single(more)
      BY <3>1, <3>2, <3>3, <3>4
    <3>6. Casting!ToSet(more) \subseteq Casting!ToSet(list)
      <4> SUFFICES ASSUME NEW i \in DOMAIN more PROVE more[i] \in Casting!ToSet(list)
        BY DEF Casting!ToSet
      <4>1. CASE i \in DOMAIN made
        <5>1. more[i] = made[i] /\ made[i] \in Casting!ToSet(made)
          BY <3>3, <4>1 DEF Casting!ToSet
        <5> QED
          BY <3>1, <5>1
      <4>2. CASE i = Len(made) + 1
        BY <2>3, <3>3, <4>2
      <4> QED
        BY <3>4, <4>1, <4>2
    <3>7. f[k + 1] = more
      BY <2>2, <2>5
    <3> HIDE DEF Single
    <3> QED
      BY <3>3, <3>5, <3>6, <3>7
  <2> QED
    BY <2>4, <2>5
<1>6. n \in N
  <2> HIDE DEF N
  <2> QED
    BY <1>0, <1>4, <1>5, NumberInduction
<1> QED
  BY <1>0, <1>2, <1>6

\* Slices of a list without doubles have nothing in common.
LEMMA SlicesApart ==
  ASSUME NEW m \in Nat \ {0}, NEW b \in Nat \ {0}, NEW c \in Nat \ {0}, b < c, NEW i \in 1..m, NEW j \in Nat \ {0}
  PROVE  (b - 1) * m + i # (c - 1) * m + j
<1>1. PICK d \in Nat : c - 1 = b + d
  <2>1. c - 1 - b \in Nat /\ c - 1 = b + (c - 1 - b)
    OBVIOUS
  <2> QED
    BY <2>1
<1>2. (b + d) * m = (b - 1) * m + m + d * m
  OBVIOUS
<1>3. d * m \in Nat /\ (b - 1) * m \in Nat
  OBVIOUS
<1> QED
  BY <1>1, <1>2, <1>3

LEMMA BatchesAre ==
  ASSUME Rostered, NEW E, NEW entries \in Seq(E), Solo(entries)
  PROVE  LET batches == Casting!Batches(entries)
         IN  batches \in Seq(Seq(E)) /\ Apart(batches)
             /\ \A b \in DOMAIN batches : Solo(batches[b]) /\ Casting!ToSet(batches[b]) \subseteq Casting!ToSet(entries)
<1> DEFINE m == BatchSize
           n == Len(entries)
           last(b) == Casting!Smaller(b * m, n)
           slice(b) == SubSeq(entries, (b - 1) * m + 1, last(b))
           count == (n + m - 1) \div m
           batches == Casting!Batches(entries)
<1>1. m \in Nat \ {0} /\ n \in Nat /\ DOMAIN entries = 1..n /\ \A i \in 1..n : entries[i] \in E
  BY DEF Rostered
<1>2. count \in Nat
  BY <1>1
<1>3. batches = [b \in 1..count |-> slice(b)]
  BY DEF Casting!Batches
<1>4. ASSUME NEW b \in 1..count
      PROVE  /\ slice(b) \in Seq(E) /\ \A i \in DOMAIN slice(b) : i \in 1..m /\ slice(b)[i] = entries[(b - 1) * m + i] /\ (b - 1) * m + i \in 1..n
  <2> DEFINE low == (b - 1) * m + 1
  <2>1. b \in Nat \ {0} /\ (b - 1) * m \in Nat /\ b * m = (b - 1) * m + m
    BY <1>1, <1>2
  <2>2. low \in Nat /\ low >= 1 /\ last(b) \in Nat /\ last(b) <= n /\ last(b) <= (b - 1) * m + m
    BY <1>1, <2>1 DEF Casting!Smaller
  <2> HIDE DEF last
  <2>3. \A i \in low..last(b) : entries[i] \in E
    BY <1>1, <2>2
  <2> DEFINE k == IF low > last(b) THEN 0 ELSE last(b) - low + 1
  <2>4. slice(b) = [i \in 1..k |-> entries[i + low - 1]]
    BY <1>1, <2>2
  <2>5. k \in Nat /\ \A i \in 1..k : i + low - 1 \in low..last(b)
    BY <2>2
  <2>6. \A i \in 1..k : i \in 1..m /\ i + low - 1 = (b - 1) * m + i /\ i + low - 1 \in 1..n
    BY <1>1, <2>1, <2>2
  <2> HIDE DEF low, k, slice
  <2>7. slice(b) \in [1..k -> E]
    BY <2>3, <2>4, <2>5
  <2>8. slice(b) \in Seq(E)
    BY <2>5, <2>7
  <2>9. ASSUME NEW i \in DOMAIN slice(b)
        PROVE  i \in 1..m /\ slice(b)[i] = entries[(b - 1) * m + i] /\ (b - 1) * m + i \in 1..n
    <3>1. i \in 1..k /\ slice(b)[i] = entries[i + low - 1]
      BY <2>4
    <3> QED
      BY <2>6, <3>1
  <2> QED
    BY <2>8, <2>9
<1> HIDE DEF slice, count, batches
<1>5. DOMAIN batches = 1..count /\ \A b \in 1..count : batches[b] = slice(b)
  BY <1>3
<1>6. batches \in Seq(Seq(E))
  <2>1. batches \in [1..count -> Seq(E)]
    BY <1>3, <1>4
  <2> QED
    BY <1>2, <2>1
<1>7. \A b \in DOMAIN batches : Casting!ToSet(batches[b]) \subseteq Casting!ToSet(entries)
  BY <1>1, <1>4, <1>5 DEF Casting!ToSet
<1>8. ASSUME NEW b \in 1..count, NEW c \in 1..count, b < c, NEW i \in DOMAIN slice(b), NEW j \in DOMAIN slice(c)
      PROVE  slice(b)[i] # slice(c)[j]
  <2>1. /\ i \in 1..m /\ slice(b)[i] = entries[(b - 1) * m + i] /\ (b - 1) * m + i \in 1..n
        /\ j \in 1..m /\ slice(c)[j] = entries[(c - 1) * m + j] /\ (c - 1) * m + j \in 1..n
    BY <1>4
  <2>2. b \in Nat \ {0} /\ c \in Nat \ {0} /\ j \in Nat \ {0}
    BY <1>2, <2>1
  <2>3. (b - 1) * m + i # (c - 1) * m + j
    BY <1>1, <1>8, <2>1, <2>2, SlicesApart
  <2> QED
    BY <1>1, <2>1, <2>3 DEF Solo
<1>9. Apart(batches)
  <2>1. \A b, c \in 1..count : b < c \/ c < b \/ b = c
    BY <1>2
  <2>2. \A b, c \in 1..count : b # c => \A i \in DOMAIN slice(b), j \in DOMAIN slice(c) : slice(b)[i] # slice(c)[j]
    BY <1>8, <2>1
  <2> QED
    BY <1>5, <2>2 DEF Apart, Casting!ToSet
<1>10. ASSUME NEW b \in 1..count PROVE Solo(slice(b))
  <2>1. b \in Nat \ {0} /\ (b - 1) * m \in Nat
    BY <1>1, <1>2
  <2>2. ASSUME NEW i \in DOMAIN slice(b), NEW j \in DOMAIN slice(b), slice(b)[i] = slice(b)[j] PROVE i = j
    <3>1. /\ i \in 1..m /\ slice(b)[i] = entries[(b - 1) * m + i] /\ (b - 1) * m + i \in 1..n
          /\ j \in 1..m /\ slice(b)[j] = entries[(b - 1) * m + j] /\ (b - 1) * m + j \in 1..n
      BY <1>4
    <3>2. (b - 1) * m + i = (b - 1) * m + j
      BY <1>1, <2>2, <3>1 DEF Solo
    <3> QED
      BY <1>1, <2>1, <3>1, <3>2
  <2> QED
    BY <2>2 DEF Solo
<1> QED
  BY <1>5, <1>6, <1>7, <1>9, <1>10 DEF batches

-----------------------------------------------------------------------------
\* Who is bound by name, or else by place: then nobody answered under his name.
Bound(batch, items) ==
    {p \in (DOMAIN items) \X Casting!ToSet(batch) :
        items[p[1]].name = roll[p[2]] \/ \A i \in DOMAIN items : items[i].name # roll[p[2]]}

\* The entries of a batch that nobody answered for by name.
Open(batch, items) ==
    LET named == Casting!Named(batch, items)
    IN Casting!Those(batch, {e \in Casting!ToSet(batch) : \A k \in DOMAIN named : items[named[k]].name # roll[e]})

LEMMA OrderIs ==
  ASSUME NEW n \in Nat
  PROVE  LET order == [i \in 1..n |-> i]
         IN  order \in Seq(1..n) /\ Solo(order) /\ Casting!ToSet(order) = 1..n
BY DEF Solo, Casting!ToSet

\* The items under a name of the batch, each the first under its name, and those of strangers.
LEMMA NamedAre ==
  ASSUME NEW I, NEW items \in Seq(I), NEW batch
  PROVE  LET named == Casting!Named(batch, items)
             unknown == Casting!Unknown(items)
         IN  /\ named \in Seq(DOMAIN items) /\ Solo(named) /\ unknown \in Seq(DOMAIN items)
             /\ \A i \in Casting!ToSet(named) :
                  items[i].name \in Casting!Called(batch) /\ \A j \in 1..(i - 1) : items[j].name # items[i].name
             /\ \A i \in DOMAIN items :
                  items[i].name \in Casting!Called(batch) /\ (\A j \in 1..(i - 1) : items[j].name # items[i].name)
                    => i \in Casting!ToSet(named)
<1> DEFINE n == Len(items)
           S == {i \in DOMAIN items : items[i].name \in Casting!Called(batch) /\ \A j \in 1..(i - 1) : items[j].name # items[i].name}
           U == {i \in DOMAIN items : items[i].name \notin Casting!Listed}
           order == Casting!Order(items)
<1>1. n \in Nat /\ DOMAIN items = 1..n
  OBVIOUS
<1>2. order = [i \in 1..n |-> i]
  BY <1>1 DEF Casting!Order
<1>3. order \in Seq(1..n) /\ Solo(order) /\ Casting!ToSet(order) = 1..n
  BY <1>1, <1>2, OrderIs
<1>4. Casting!Named(batch, items) = Casting!Those(order, S) /\ Casting!Unknown(items) = Casting!Those(order, U)
  BY DEF Casting!Named, Casting!Unknown
<1> HIDE DEF order, S, U
<1>5. /\ Casting!Named(batch, items) \in Seq(1..n) /\ Casting!Unknown(items) \in Seq(1..n)
      /\ Solo(Casting!Named(batch, items)) /\ Casting!ToSet(Casting!Named(batch, items)) = (1..n) \cap S
  BY <1>3, <1>4, CastThose
<1> QED
  BY <1>1, <1>5 DEF S

\* Whoever answered under a name of the batch, the first to do so is heard.
LEMMA FirstIsNamed ==
  ASSUME NEW I, NEW items \in Seq(I), NEW batch, NEW i \in DOMAIN items, items[i].name \in Casting!Called(batch)
  PROVE  \E j \in Casting!ToSet(Casting!Named(batch, items)) : items[j].name = items[i].name
<1> DEFINE S == {j \in DOMAIN items : items[j].name = items[i].name}
<1>1. Len(items) \in Nat /\ DOMAIN items = 1..Len(items)
  OBVIOUS
<1>2. S \in SUBSET Nat /\ S # {}
  BY <1>1
<1>3. PICK j \in S : \A k \in S : j <= k
  <2> HIDE DEF S
  <2> QED
    BY <1>2, FirstThere
<1>4. j \in DOMAIN items /\ items[j].name = items[i].name
  BY <1>3
<1>5. \A k \in 1..(j - 1) : items[k].name # items[j].name
  <2> SUFFICES ASSUME NEW k \in 1..(j - 1), items[k].name = items[j].name PROVE FALSE
    OBVIOUS
  <2>1. k \in DOMAIN items /\ ~(j <= k)
    BY <1>1, <1>4
  <2>2. k \in S
    BY <1>4, <2>1
  <2> HIDE DEF S
  <2> QED
    BY <1>3, <2>1, <2>2
<1>6. j \in Casting!ToSet(Casting!Named(batch, items))
  BY <1>4, <1>5, NamedAre
<1> QED
  BY <1>4, <1>6

\* The entry of a name is in the batch, and under that name.
LEMMA EntryIs ==
  ASSUME NEW S, roll \in Seq(S), NEW batch \in Seq(DOMAIN roll), NEW name \in Casting!Called(batch)
  PROVE  Casting!EntryOf(batch, name) \in Casting!ToSet(batch) /\ roll[Casting!EntryOf(batch, name)] = name
<1> DEFINE E == {e \in Casting!ToSet(batch) : roll[e] = name}
<1>1. DOMAIN roll = 1..Len(roll) /\ Len(roll) \in Nat
  OBVIOUS
<1>2. Casting!ToSet(batch) \subseteq DOMAIN roll
  <2>1. batch \in [1..Len(batch) -> DOMAIN roll]
    OBVIOUS
  <2> QED
    BY <2>1 DEF Casting!ToSet
<1>3. E \in SUBSET Nat
  BY <1>1, <1>2
<1>4. E # {}
  BY DEF Casting!Called
<1>5. \E e \in E : \A f \in E : e <= f
  <2> HIDE DEF E
  <2> QED
    BY <1>3, <1>4, FirstThere
<1>6. \E e \in Casting!ToSet(batch) : roll[e] = name /\ \A f \in Casting!ToSet(batch) : roll[f] = name => e <= f
  BY <1>5
<1> QED
  BY <1>6 DEF Casting!EntryOf

\* The two ways in which a batch is bound, behind one another.
ByName(batch, items) ==
    LET named == Casting!Named(batch, items)
    IN [k \in DOMAIN named |-> <<named[k], Casting!EntryOf(batch, items[named[k]].name)>>]
ByPlace(batch, items) ==
    [k \in 1..Casting!Smaller(Len(Open(batch, items)), Len(Casting!Unknown(items))) |-> <<Casting!Unknown(items)[k], Open(batch, items)[k]>>]

LEMMA OpenAre ==
  ASSUME NEW E, NEW batch \in Seq(E), NEW I, NEW items \in Seq(I)
  PROVE  LET open == Open(batch, items)
         IN  /\ open \in Seq(Casting!ToSet(batch)) /\ (Solo(batch) => Solo(open))
             /\ \A e : e \in Casting!ToSet(open) <=>
                  e \in Casting!ToSet(batch) /\ \A i \in Casting!ToSet(Casting!Named(batch, items)) : items[i].name # roll[e]
<1> DEFINE named == Casting!Named(batch, items)
           F == {e \in Casting!ToSet(batch) : \A k \in DOMAIN named : items[named[k]].name # roll[e]}
           open == Open(batch, items)
<1>1. open = Casting!Those(batch, F)
  BY DEF Open
<1>2. F = {e \in Casting!ToSet(batch) : \A i \in Casting!ToSet(named) : items[i].name # roll[e]}
  <2> HIDE DEF named
  <2> QED
    BY DEF Casting!ToSet
<1> HIDE DEF F, open, named
<1>3. batch \in Seq(Casting!ToSet(batch))
  BY OfItsOwn
<1>4. open \in Seq(Casting!ToSet(batch)) /\ Casting!ToSet(open) = Casting!ToSet(batch) \cap F /\ (Solo(batch) => Solo(open))
  BY <1>1, <1>3, CastThose
<1> QED
  BY <1>2, <1>4 DEF open, named

LEMMA PairsAre ==
  ASSUME NEW S, roll \in Seq(S), NEW batch \in Seq(DOMAIN roll), NEW I, NEW items \in Seq(I)
  PROVE  /\ ByName(batch, items) \in Seq(Bound(batch, items)) /\ ByPlace(batch, items) \in Seq(Bound(batch, items))
         /\ Casting!Pairs(batch, items) \in Seq(Bound(batch, items))
         /\ Casting!ToSet(Casting!Pairs(batch, items)) = Casting!ToSet(ByName(batch, items)) \cup Casting!ToSet(ByPlace(batch, items))
<1> DEFINE named == Casting!Named(batch, items)
           unknown == Casting!Unknown(items)
           open == Open(batch, items)
           entry(i) == Casting!EntryOf(batch, items[i].name)
           m == Casting!Smaller(Len(open), Len(unknown))
           P == Bound(batch, items)
<1>1. /\ named \in Seq(DOMAIN items) /\ unknown \in Seq(DOMAIN items)
      /\ \A i \in Casting!ToSet(named) : items[i].name \in Casting!Called(batch)
  BY NamedAre
<1>2. /\ open \in Seq(Casting!ToSet(batch))
      /\ \A e \in Casting!ToSet(open) : \A i \in Casting!ToSet(named) : items[i].name # roll[e]
  BY OpenAre
<1>3. Casting!Pairs(batch, items) = ByName(batch, items) \o ByPlace(batch, items)
  BY DEF Casting!Pairs, ByName, ByPlace, Open
<1>4. ByName(batch, items) = [k \in DOMAIN named |-> <<named[k], entry(named[k])>>]
      /\ ByPlace(batch, items) = [k \in 1..m |-> <<unknown[k], open[k]>>]
  BY DEF ByName, ByPlace
<1> HIDE DEF named, unknown, open
<1>5. ByName(batch, items) \in Seq(P)
  <2>1. Len(named) \in Nat /\ DOMAIN named = 1..Len(named)
    BY <1>1
  <2>2. ASSUME NEW k \in DOMAIN named PROVE <<named[k], entry(named[k])>> \in P
    <3>1. named[k] \in DOMAIN items /\ named[k] \in Casting!ToSet(named)
      BY <1>1 DEF Casting!ToSet
    <3>2. entry(named[k]) \in Casting!ToSet(batch) /\ roll[entry(named[k])] = items[named[k]].name
      BY <1>1, <3>1, EntryIs
    <3> QED
      BY <3>1, <3>2 DEF Bound
  <2> HIDE DEF P
  <2>3. ByName(batch, items) \in [1..Len(named) -> P]
    BY <1>4, <2>1, <2>2
  <2> QED
    BY <2>1, <2>3
<1>6. ByPlace(batch, items) \in Seq(P)
  <2>1. m \in Nat /\ m <= Len(open) /\ m <= Len(unknown) /\ Len(open) \in Nat /\ Len(unknown) \in Nat
        /\ DOMAIN open = 1..Len(open) /\ DOMAIN unknown = 1..Len(unknown)
    BY <1>1, <1>2 DEF Casting!Smaller
  <2>2. ASSUME NEW k \in 1..m PROVE <<unknown[k], open[k]>> \in P
    <3>1. k \in DOMAIN open /\ k \in DOMAIN unknown
      BY <2>1
    <3>2. unknown[k] \in DOMAIN items /\ open[k] \in Casting!ToSet(batch) /\ open[k] \in Casting!ToSet(open)
      BY <1>1, <1>2, <3>1 DEF Casting!ToSet
    <3>3. roll[open[k]] \in Casting!Called(batch)
      BY <3>2 DEF Casting!Called
    <3>4. \A i \in DOMAIN items : items[i].name # roll[open[k]]
      <4> SUFFICES ASSUME NEW i \in DOMAIN items, items[i].name = roll[open[k]] PROVE FALSE
        OBVIOUS
      <4>1. \E j \in Casting!ToSet(named) : items[j].name = items[i].name
        BY <3>3, FirstIsNamed DEF named
      <4> QED
        BY <1>2, <3>2, <4>1
    <3> QED
      BY <3>2, <3>4 DEF Bound
  <2> HIDE DEF P, m
  <2>3. ByPlace(batch, items) \in [1..m -> P]
    BY <1>4, <2>2
  <2> QED
    BY <2>1, <2>3
<1> HIDE DEF P
<1> QED
  BY <1>3, <1>5, <1>6, BehindIs DEF P

\* With enough items there is one for each entry, whoever they say they are.
LEMMA EveryoneIsBound ==
  ASSUME NEW S, roll \in Seq(S), NEW batch \in Seq(DOMAIN roll), Solo(batch), NEW I, NEW items \in Seq(I),
         Len(Casting!Named(batch, items)) + Len(Casting!Unknown(items)) >= Len(batch),
         NEW name \in Casting!Called(batch)
  PROVE  \E p \in Casting!ToSet(Casting!Pairs(batch, items)) : p[1] \in DOMAIN items /\ roll[p[2]] = name
<1> DEFINE named == Casting!Named(batch, items)
           unknown == Casting!Unknown(items)
           open == Open(batch, items)
           B == Casting!ToSet(batch)
           F == Casting!ToSet(open)
           H == Casting!ToSet(named)
           g == [i \in H |-> Casting!EntryOf(batch, items[i].name)]
<1>1. /\ named \in Seq(DOMAIN items) /\ unknown \in Seq(DOMAIN items) /\ Solo(named)
      /\ \A i \in H : items[i].name \in Casting!Called(batch) /\ \A j \in 1..(i - 1) : items[j].name # items[i].name
  BY NamedAre
<1>2. /\ open \in Seq(B) /\ Solo(open)
      /\ \A e : e \in F <=> e \in B /\ \A i \in H : items[i].name # roll[e]
  BY OpenAre
<1>3. /\ ByName(batch, items) = [k \in DOMAIN named |-> <<named[k], Casting!EntryOf(batch, items[named[k]].name)>>]
      /\ ByPlace(batch, items) = [k \in 1..Casting!Smaller(Len(open), Len(unknown)) |-> <<unknown[k], open[k]>>]
  BY DEF ByName, ByPlace
<1>4. Casting!ToSet(Casting!Pairs(batch, items)) = Casting!ToSet(ByName(batch, items)) \cup Casting!ToSet(ByPlace(batch, items))
  BY PairsAre
<1>5. Len(named) + Len(unknown) >= Len(batch)
  OBVIOUS
<1> HIDE DEF named, unknown, open
<1>6. H \subseteq DOMAIN items /\ \A i \in H : i \in Nat
  <2>1. DOMAIN items \subseteq Nat
    OBVIOUS
  <2> QED
    BY <1>1, <2>1 DEF Casting!ToSet
<1>7. /\ IsFiniteSet(B) /\ Cardinality(B) = Len(batch) /\ IsFiniteSet(F) /\ Cardinality(F) = Len(open)
      /\ IsFiniteSet(H) /\ Cardinality(H) = Len(named)
  BY <1>1, <1>2, SoloLength
<1>8. \A i \in H : Casting!EntryOf(batch, items[i].name) \in B /\ roll[Casting!EntryOf(batch, items[i].name)] = items[i].name
  BY <1>1, EntryIs
<1> HIDE DEF B, F, H
<1>9. \A i, j \in H : items[i].name = items[j].name => i = j
  <2> SUFFICES ASSUME NEW i \in H, NEW j \in H, items[i].name = items[j].name, i # j PROVE FALSE
    OBVIOUS
  <2>1. i \in Nat /\ j \in Nat /\ i \in DOMAIN items /\ j \in DOMAIN items
    BY <1>6
  <2>2. i \in 1..(j - 1) \/ j \in 1..(i - 1)
    BY <2>1
  <2> QED
    BY <1>1, <2>2
<1>10. g \in Injection(H, B \ F)
  <2>1. \A i \in H : g[i] \in B \ F
    BY <1>2, <1>8
  <2>2. \A i, j \in H : g[i] = g[j] => i = j
    BY <1>8, <1>9
  <2> QED
    BY <2>1, <2>2 DEF Injection, IsInjective
<1>11. Len(open) <= Len(unknown)
  <2>1. F \subseteq B /\ B \cap F = F
    BY <1>2
  <2>2. IsFiniteSet(B \ F) /\ Cardinality(B \ F) = Cardinality(B) - Cardinality(F)
    <3>1. IsFiniteSet(B)
      BY <1>7
    <3> HIDE DEF B, F
    <3>2. IsFiniteSet(B \ F) /\ Cardinality(B \ F) = Cardinality(B) - Cardinality(B \cap F)
      BY ONLY <3>1, FS_Difference
    <3> QED
      BY <2>1, <3>2
  <2>3. Cardinality(H) <= Cardinality(B \ F)
    BY <1>10, <2>2, FS_Injection
  <2>4. Len(batch) \in Nat /\ Len(open) \in Nat /\ Len(named) \in Nat /\ Len(unknown) \in Nat
    BY <1>1, <1>2
  <2> QED
    BY <1>5, <1>7, <2>2, <2>3, <2>4
<1>12. CASE \E i \in H : items[i].name = name
  <2>1. PICK i \in H : items[i].name = name
    BY <1>12
  <2>2. PICK k \in DOMAIN named : named[k] = i
    BY <2>1 DEF H, Casting!ToSet
  <2> DEFINE p == <<i, Casting!EntryOf(batch, items[i].name)>>
  <2>3. p = ByName(batch, items)[k] /\ k \in DOMAIN ByName(batch, items)
    BY <1>3, <2>2
  <2>4. p \in Casting!ToSet(Casting!Pairs(batch, items))
    BY <1>4, <2>3 DEF Casting!ToSet
  <2>5. p[1] \in DOMAIN items /\ roll[p[2]] = name
    BY <1>6, <1>8, <2>1
  <2> QED
    BY <2>4, <2>5
<1>13. CASE ~\E i \in H : items[i].name = name
  <2>1. PICK e \in B : roll[e] = name
    BY DEF Casting!Called, B
  <2>2. e \in F
    BY <1>2, <1>13, <2>1
  <2>3. PICK k \in DOMAIN open : open[k] = e
    BY <2>2 DEF F, Casting!ToSet
  <2>4. k \in 1..Len(open) /\ Casting!Smaller(Len(open), Len(unknown)) = Len(open) /\ k \in DOMAIN unknown
    BY <1>1, <1>2, <1>11, <2>3 DEF Casting!Smaller
  <2> DEFINE p == <<unknown[k], open[k]>>
  <2>5. p = ByPlace(batch, items)[k] /\ k \in DOMAIN ByPlace(batch, items)
    BY <1>3, <2>4
  <2>6. p \in Casting!ToSet(Casting!Pairs(batch, items))
    BY <1>4, <2>5 DEF Casting!ToSet
  <2>7. p[1] \in DOMAIN items /\ roll[p[2]] = name
    BY <1>1, <2>1, <2>3, <2>4
  <2> QED
    BY <2>6, <2>7
<1> QED
  BY <1>12, <1>13

-----------------------------------------------------------------------------
\* The characters of a batch: one for each item that is bound and that the schema takes.
Roles == [entry : DOMAIN roll, as : Casting!Listed \cup {Stranger}]
Role(items, p) == [entry |-> p[2], as |-> items[p[1]].name]

LEMMA CharactersAre ==
  ASSUME NEW S, roll \in Seq(S), NEW batch \in Seq(DOMAIN roll), NEW items \in Seq(Casting!Item)
  PROVE  LET chars == Casting!Characters(batch, items)
         IN  /\ chars \in Seq(Roles)
             /\ \A c : c \in Casting!ToSet(chars) <=>
                  \E p \in Casting!ToSet(Casting!Pairs(batch, items)) : items[p[1]].ok /\ c = Role(items, p)
<1> DEFINE pairs == Casting!Pairs(batch, items)
           G == {p \in Casting!ToSet(pairs) : items[p[1]].ok}
           good == Casting!Those(pairs, G)
           chars == Casting!Characters(batch, items)
           P == Bound(batch, items)
<1>1. pairs \in Seq(P)
  BY PairsAre
<1>2. chars = [k \in DOMAIN good |-> Role(items, good[k])]
  BY DEF Casting!Characters, Role
<1>3. \A p \in P : Role(items, p) \in Roles
  <2> SUFFICES ASSUME NEW p \in P PROVE Role(items, p) \in Roles
    OBVIOUS
  <2>1. p[1] \in DOMAIN items /\ p[2] \in Casting!ToSet(batch)
    BY DEF Bound
  <2>2. items[p[1]] \in Casting!Item
    BY <2>1
  <2>3. p[2] \in DOMAIN roll
    <3>1. batch \in [1..Len(batch) -> DOMAIN roll]
      OBVIOUS
    <3> QED
      BY <2>1, <3>1 DEF Casting!ToSet
  <2> QED
    BY <2>2, <2>3 DEF Role, Roles, Casting!Item
<1> HIDE DEF P, pairs, chars
<1>4. good \in Seq(P) /\ Casting!ToSet(good) = G
  <2>1. good \in Seq(P) /\ Casting!ToSet(good) = Casting!ToSet(pairs) \cap G
    <3> HIDE DEF G
    <3> QED
      BY <1>1, CastThose
  <2> QED
    BY <2>1
<1> HIDE DEF good
<1>5. Len(good) \in Nat /\ DOMAIN good = 1..Len(good) /\ \A k \in 1..Len(good) : good[k] \in P
  BY <1>4
<1>6. chars \in Seq(Roles)
  <2>1. chars \in [1..Len(good) -> Roles]
    BY <1>2, <1>3, <1>5
  <2> QED
    BY <1>5, <2>1
<1>7. \A c : c \in Casting!ToSet(chars) <=> \E p \in Casting!ToSet(good) : c = Role(items, p)
  BY <1>2 DEF Casting!ToSet
<1> QED
  BY <1>4, <1>6, <1>7 DEF chars, pairs

\* What came back of a round, one batch behind the other.
LEMMA ReturnedAre ==
  ASSUME NEW S, roll \in Seq(S), orders \in Seq(Seq(DOMAIN roll)), \A b \in DOMAIN orders : replies[b] \in Seq(Casting!Item)
  PROVE  /\ Casting!Returned \in Seq(Roles)
         /\ \A c : c \in Casting!ToSet(Casting!Returned) <=>
              \E b \in DOMAIN orders : \E p \in Casting!ToSet(Casting!Pairs(orders[b], replies[b])) :
                  replies[b][p[1]].ok /\ c = Role(replies[b], p)
<1> DEFINE lists == [b \in DOMAIN orders |-> Casting!Characters(orders[b], replies[b])]
<1>1. Len(orders) \in Nat /\ DOMAIN orders = 1..Len(orders) /\ \A b \in DOMAIN orders : orders[b] \in Seq(DOMAIN roll)
  OBVIOUS
<1>2. ASSUME NEW b \in DOMAIN orders
      PROVE  /\ lists[b] \in Seq(Roles)
             /\ \A c : c \in Casting!ToSet(lists[b]) <=>
                  \E p \in Casting!ToSet(Casting!Pairs(orders[b], replies[b])) : replies[b][p[1]].ok /\ c = Role(replies[b], p)
  <2>1. orders[b] \in Seq(DOMAIN roll) /\ replies[b] \in Seq(Casting!Item)
    BY <1>1
  <2> QED
    BY <2>1, CharactersAre
<1>3. Casting!Returned = Casting!Joined(lists)
  BY DEF Casting!Returned
<1>4. lists \in Seq(Seq(Roles)) /\ DOMAIN lists = DOMAIN orders
  <2>1. lists \in [1..Len(orders) -> Seq(Roles)] /\ DOMAIN lists = DOMAIN orders
    BY <1>1, <1>2
  <2> DEFINE T == Seq(Roles)
             m == Len(orders)
  <2>2. lists \in [1..m -> T] /\ m \in Nat
    BY <1>1, <2>1
  <2> HIDE DEF lists, T, m
  <2>3. lists \in Seq(T)
    BY <2>2
  <2> QED
    BY <2>1, <2>3 DEF T
<1> HIDE DEF lists
<1>5. Casting!Joined(lists) \in Seq(Roles)
  <2> DEFINE T == Roles
  <2>1. lists \in Seq(Seq(T))
    BY <1>4
  <2> HIDE DEF T
  <2>2. Casting!Joined(lists) \in Seq(T)
    BY <2>1, JoinedAre
  <2> QED
    BY <2>2 DEF T
<1>6. \A x : x \in Casting!ToSet(Casting!Joined(lists)) <=> \E b \in DOMAIN lists : x \in Casting!ToSet(lists[b])
  <2> DEFINE T == Roles
  <2>1. lists \in Seq(Seq(T))
    BY <1>4
  <2> HIDE DEF T
  <2> QED
    BY <2>1, JoinedAre
<1>7. ASSUME NEW c
      PROVE  c \in Casting!ToSet(Casting!Returned) <=>
               \E b \in DOMAIN orders : \E p \in Casting!ToSet(Casting!Pairs(orders[b], replies[b])) :
                   replies[b][p[1]].ok /\ c = Role(replies[b], p)
  <2>1. c \in Casting!ToSet(Casting!Returned) <=> \E b \in DOMAIN orders : c \in Casting!ToSet(lists[b])
    BY <1>3, <1>4, <1>6
  <2>2. \A b \in DOMAIN orders : c \in Casting!ToSet(lists[b]) <=>
          \E p \in Casting!ToSet(Casting!Pairs(orders[b], replies[b])) : replies[b][p[1]].ok /\ c = Role(replies[b], p)
    BY <1>2
  <2> QED
    BY <2>1, <2>2
<1>8. Casting!Returned \in Seq(Roles)
  BY <1>3, <1>5
<1> QED
  BY <1>7, <1>8

\* Who is kept: those that were there, and of each name that came back one.
LEMMA KeptAre ==
  ASSUME NEW T, Casting!Returned \in Seq(T)
  PROVE  LET kept == Casting!Kept
         IN  /\ DOMAIN kept = DOMAIN troupe \cup {roll[c.entry] : c \in Casting!ToSet(Casting!Returned)}
             /\ \A n \in DOMAIN troupe : kept[n] = troupe[n]
             /\ \A n \in DOMAIN kept \ DOMAIN troupe :
                  kept[n] \in Casting!ToSet(Casting!Returned) /\ roll[kept[n].entry] = n
<1> DEFINE back == Casting!Returned
           new == {k \in DOMAIN back : roll[back[k].entry] \notin DOMAIN troupe}
           of(n) == {k \in new : roll[back[k].entry] = n}
           first(n) == CHOOSE k \in of(n) : \A j \in of(n) : k <= j
           names == DOMAIN troupe \cup {roll[back[k].entry] : k \in new}
           kept == Casting!Kept
<1>1. kept = [n \in names |-> IF n \in DOMAIN troupe THEN troupe[n] ELSE back[first(n)]]
  BY DEF Casting!Kept
<1>2. Len(back) \in Nat /\ DOMAIN back = 1..Len(back)
  OBVIOUS
<1> HIDE DEF back, kept
<1>3. names = DOMAIN troupe \cup {roll[c.entry] : c \in Casting!ToSet(back)}
  <2>1. \A k \in DOMAIN back : back[k] \in Casting!ToSet(back)
    BY DEF Casting!ToSet
  <2>2. \A c \in Casting!ToSet(back) : \E k \in DOMAIN back : c = back[k]
    BY DEF Casting!ToSet
  <2>3. ASSUME NEW n \in names PROVE n \in DOMAIN troupe \cup {roll[c.entry] : c \in Casting!ToSet(back)}
    BY <2>1
  <2>4. ASSUME NEW c \in Casting!ToSet(back) PROVE roll[c.entry] \in names
    BY <2>2
  <2> QED
    BY <2>3, <2>4
<1>4. ASSUME NEW n \in names, n \notin DOMAIN troupe
      PROVE  first(n) \in DOMAIN back /\ roll[back[first(n)].entry] = n
  <2>1. of(n) \in SUBSET Nat /\ of(n) # {}
    BY <1>2, <1>4
  <2>2. \A k \in of(n) : k \in DOMAIN back /\ roll[back[k].entry] = n
    OBVIOUS
  <2> HIDE DEF of
  <2>3. \E k \in of(n) : \A j \in of(n) : k <= j
    BY <2>1, FirstThere
  <2> QED
    BY <2>2, <2>3
<1> HIDE DEF first
<1>5. DOMAIN kept = names
  BY <1>1
<1>6. \A n \in DOMAIN troupe : kept[n] = troupe[n]
  BY <1>1
<1>7. ASSUME NEW n \in names, n \notin DOMAIN troupe PROVE kept[n] \in Casting!ToSet(back) /\ roll[kept[n].entry] = n
  <2>1. kept[n] = back[first(n)]
    <3> HIDE DEF names
    <3> QED
      BY <1>1, <1>7
  <2> QED
    BY <1>4, <1>7, <2>1 DEF Casting!ToSet
<1> HIDE DEF names
<1> QED
  BY <1>3, <1>5, <1>6, <1>7 DEF back, kept

\* Who is missing is asked for once more, everyone in one batch.
LEMMA MissingAre ==
  ASSUME NEW S, roll \in Seq(S), NEW there
  PROVE  LET missing == Casting!Missing(there)
         IN  /\ missing \in Seq(DOMAIN roll) /\ Solo(missing)
             /\ \A e \in Casting!ToSet(missing) : roll[e] \notin DOMAIN there
<1> DEFINE n == Len(roll)
           M == {i \in DOMAIN roll : roll[i] \notin DOMAIN there}
           order == [i \in DOMAIN roll |-> i]
<1>1. n \in Nat /\ DOMAIN roll = 1..n
  OBVIOUS
<1>2. order \in Seq(1..n) /\ Solo(order)
  BY <1>1, OrderIs
<1>3. Casting!Missing(there) = Casting!Those(order, M)
  BY DEF Casting!Missing
<1>4. \A e \in M : roll[e] \notin DOMAIN there
  OBVIOUS
<1> HIDE DEF order, M
<1>5. /\ Casting!Missing(there) \in Seq(1..n) /\ Solo(Casting!Missing(there))
      /\ Casting!ToSet(Casting!Missing(there)) = Casting!ToSet(order) \cap M
  BY <1>2, <1>3, CastThose
<1> QED
  BY <1>1, <1>4, <1>5

-----------------------------------------------------------------------------
LEMMA RollIs == ASSUME Rostered, CastInv PROVE roll \in Seq(Casting!Listed)
<1>1. PICK S : roll \in Seq(S)
  BY DEF Rostered, CastInv
<1> QED
  BY <1>1, OfItsOwn DEF Casting!Listed

LEMMA CastInit == Rostered /\ Casting!Init => CastInv
<1> SUFFICES ASSUME Rostered, Casting!Init PROVE CastInv
  OBVIOUS
<1>1. /\ roll \in Rosters /\ orders = Casting!Batches([i \in DOMAIN roll |-> i])
      /\ replies = [b \in DOMAIN orders |-> None] /\ troupe = << >> /\ act = "first"
  BY DEF Casting!Init
<1>2. PICK S : roll \in Seq(S)
  BY <1>1 DEF Rostered
<1>3. Len(roll) \in Nat /\ DOMAIN roll = 1..Len(roll)
  BY <1>2
<1> DEFINE entries == [i \in DOMAIN roll |-> i]
<1>4. entries \in Seq(DOMAIN roll) /\ Solo(entries)
  BY <1>3, OrderIs
<1>5. orders = Casting!Batches(entries)
  BY <1>1
<1> HIDE DEF entries
<1>6. orders \in Seq(Seq(DOMAIN roll)) /\ Apart(orders) /\ \A b \in DOMAIN orders : Solo(orders[b])
  BY <1>4, <1>5, BatchesAre
<1>7. DOMAIN troupe = {}
  BY <1>1
<1> QED
  BY <1>1, <1>6, <1>7 DEF CastInv, Casting!NobodyIsReplaced, Casting!NobodyIsLost, Casting!PeersAreKnown

LEMMA AnswerKeeps ==
  ASSUME Rostered, CastInv, NEW b \in DOMAIN replies, NEW items \in Casting!Upto(Casting!Item, MaxReplies), Casting!Answer(b, items)
  PROVE  CastInv'
<1>1. /\ act \in {"first", "again"} /\ replies' = [replies EXCEPT ![b] = items]
      /\ roll' = roll /\ orders' = orders /\ troupe' = troupe /\ ties' = ties /\ act' = act
  BY DEF Casting!Answer
<1>2. (Casting!Upto(Casting!Item, MaxReplies))' = Casting!Upto(Casting!Item, MaxReplies)
  BY <1>1 DEF Casting!Upto, Casting!Item, Casting!Listed, Casting!ToSet
<1>3. replies' \in [DOMAIN orders -> {None} \cup Casting!Upto(Casting!Item, MaxReplies)]
  BY <1>1 DEF CastInv
<1>4. \A c \in DOMAIN orders : (Casting!Called(orders[c]))' = Casting!Called(orders[c])
  BY <1>1 DEF Casting!Called, Casting!ToSet
<1>5. Apart(orders)' /\ (\A c \in DOMAIN orders : Solo(orders[c]))'
  <2>1. Apart(orders) /\ \A c \in DOMAIN orders : Solo(orders[c])
    BY <1>1 DEF CastInv
  <2>2. Apart(orders)'
    BY <1>1, <2>1 DEF Apart, Casting!ToSet
  <2>3. (\A c \in DOMAIN orders : Solo(orders[c]))'
    BY <1>1, <2>1 DEF Solo
  <2> QED
    BY <2>2, <2>3
<1>6. /\ roll' \in Rosters /\ orders' \in Seq(Seq(DOMAIN roll'))
      /\ \A c \in DOMAIN orders' : (Casting!Called(orders[c]))' \cap DOMAIN troupe' = {}
      /\ \A n \in DOMAIN troupe' : troupe'[n].entry \in DOMAIN roll' /\ roll'[troupe'[n].entry] = n
  BY <1>1, <1>4 DEF CastInv
<1>7. Casting!NobodyIsReplaced' /\ Casting!NobodyIsLost' /\ Casting!PeersAreKnown'
  BY <1>1 DEF Casting!NobodyIsReplaced, Casting!NobodyIsLost, Casting!PeersAreKnown
<1> QED
  BY <1>1, <1>2, <1>3, <1>5, <1>6, <1>7 DEF CastInv

\* An answer that came back is a list of items.
LEMMA RepliesAre ==
  ASSUME Rostered, CastInv, act \in {"first", "again"}, \A b \in DOMAIN replies : replies[b] # None
  PROVE  \A b \in DOMAIN orders : replies[b] \in Seq(Casting!Item)
<1> SUFFICES ASSUME NEW b \in DOMAIN orders PROVE replies[b] \in Seq(Casting!Item)
  OBVIOUS
<1>1. replies[b] \in Casting!Upto(Casting!Item, MaxReplies)
  BY DEF CastInv
<1> DEFINE I == Casting!Item
<1>2. PICK k \in 0..MaxReplies : replies[b] \in [1..k -> I]
  BY <1>1 DEF Casting!Upto
<1>3. k \in Nat
  BY DEF Rostered
<1> HIDE DEF I
<1>4. replies[b] \in Seq(I)
  BY <1>2, <1>3
<1> QED
  BY <1>4 DEF I

\* Who was not there is bound in this round, to an entry of his own; if not by his name, then nobody
\* answered under it.
LEMMA NewAreTheirOwn ==
  ASSUME Rostered, CastInv, act \in {"first", "again"}, \A b \in DOMAIN replies : replies[b] # None,
         NEW b \in DOMAIN orders, NEW n \in Casting!Called(orders[b]), n \in DOMAIN Casting!Kept
  PROVE  /\ Casting!Kept[n].entry \in DOMAIN roll /\ roll[Casting!Kept[n].entry] = n
         /\ Casting!Once(n) /\ Casting!Kept[n].as # n => \A i \in DOMAIN replies[b] : replies[b][i].name # n
<1> DEFINE kept == Casting!Kept
           c0 == kept[n]
<1>1. roll \in Seq(Casting!Listed)
  BY RollIs
<1>2. orders \in Seq(Seq(DOMAIN roll)) /\ Apart(orders) /\ n \notin DOMAIN troupe
  BY DEF CastInv
<1>3. \A c \in DOMAIN orders : replies[c] \in Seq(Casting!Item)
  BY RepliesAre
<1>4. /\ Casting!Returned \in Seq(Roles)
      /\ \A c : c \in Casting!ToSet(Casting!Returned) <=>
           \E d \in DOMAIN orders : \E p \in Casting!ToSet(Casting!Pairs(orders[d], replies[d])) :
               replies[d][p[1]].ok /\ c = Role(replies[d], p)
  BY <1>1, <1>2, <1>3, ReturnedAre
<1>5. c0 \in Casting!ToSet(Casting!Returned) /\ roll[c0.entry] = n
  <2> DEFINE T == Roles
  <2>1. Casting!Returned \in Seq(T)
    BY <1>4
  <2> HIDE DEF T
  <2> QED
    BY <1>2, <2>1, KeptAre
<1> HIDE DEF c0
<1>6. PICK d \in DOMAIN orders : \E p \in Casting!ToSet(Casting!Pairs(orders[d], replies[d])) : c0 = Role(replies[d], p)
  BY <1>4, <1>5
<1>7. PICK p \in Casting!ToSet(Casting!Pairs(orders[d], replies[d])) : c0 = Role(replies[d], p)
  BY <1>6
<1>8. p \in Bound(orders[d], replies[d])
  <2>1. orders[d] \in Seq(DOMAIN roll)
    BY <1>2
  <2>2. Casting!Pairs(orders[d], replies[d]) \in Seq(Bound(orders[d], replies[d]))
    BY <1>1, <1>3, <2>1, PairsAre
  <2> DEFINE pairs == Casting!Pairs(orders[d], replies[d])
             P == Bound(orders[d], replies[d])
  <2>3. pairs \in Seq(P) /\ p \in Casting!ToSet(pairs)
    BY <2>2
  <2> HIDE DEF pairs, P
  <2>4. p \in P
    BY <2>3 DEF Casting!ToSet
  <2> QED
    BY <2>4 DEF P
<1>9. c0.entry = p[2] /\ c0.as = replies[d][p[1]].name
  BY <1>7 DEF Role
<1>10. /\ p[2] \in Casting!ToSet(orders[d])
       /\ replies[d][p[1]].name = roll[p[2]] \/ \A i \in DOMAIN replies[d] : replies[d][i].name # roll[p[2]]
  BY <1>8 DEF Bound
<1>11. p[2] \in DOMAIN roll
  <2>1. orders[d] \in [1..Len(orders[d]) -> DOMAIN roll]
    BY <1>2
  <2> QED
    BY <1>10, <2>1 DEF Casting!ToSet
<1>12. ASSUME Casting!Once(n), c0.as # n PROVE \A i \in DOMAIN replies[b] : replies[b][i].name # n
  <2>1. PICK e \in Casting!ToSet(orders[b]) : roll[e] = n
    BY DEF Casting!Called
  <2>2. e \in DOMAIN roll
    <3>1. orders[b] \in [1..Len(orders[b]) -> DOMAIN roll]
      BY <1>2
    <3> QED
      BY <2>1, <3>1 DEF Casting!ToSet
  <2>3. e = p[2]
    <3> DEFINE E == {i \in DOMAIN roll : roll[i] = n}
    <3>1. E \subseteq 1..Len(roll) /\ Len(roll) \in Nat
      BY <1>1
    <3>2. IsFiniteSet(E)
      BY <3>1, FS_Interval, FS_Subset
    <3>3. Cardinality(E) = 1
      BY <1>12 DEF Casting!Once, Casting!Cardinality, Cardinality
    <3>4. e \in E /\ p[2] \in E
      BY <1>5, <1>9, <1>11, <2>1, <2>2
    <3> HIDE DEF E
    <3>5. \E x : E = {x}
      BY <3>2, <3>3, FS_Singleton
    <3> QED
      BY <3>4, <3>5
  <2>4. d = b
    BY <1>2, <1>10, <2>1, <2>3 DEF Apart
  <2> QED
    BY <1>5, <1>9, <1>10, <1>12, <2>4
<1> QED
  BY <1>5, <1>9, <1>11, <1>12 DEF c0

\* With enough items that the schema takes, everyone of a batch is there.
LEMMA NobodyOfABatchIsLost ==
  ASSUME Rostered, CastInv, act \in {"first", "again"}, \A b \in DOMAIN replies : replies[b] # None,
         NEW b \in DOMAIN orders,
         Len(Casting!Named(orders[b], replies[b])) + Len(Casting!Unknown(replies[b])) >= Len(orders[b]),
         \A i \in DOMAIN replies[b] : replies[b][i].ok
  PROVE  Casting!Called(orders[b]) \subseteq DOMAIN Casting!Kept
<1> SUFFICES ASSUME NEW n \in Casting!Called(orders[b]) PROVE n \in DOMAIN Casting!Kept
  OBVIOUS
<1>1. roll \in Seq(Casting!Listed)
  BY RollIs
<1>2. orders \in Seq(Seq(DOMAIN roll)) /\ Solo(orders[b])
  BY DEF CastInv
<1>3. \A c \in DOMAIN orders : replies[c] \in Seq(Casting!Item)
  BY RepliesAre
<1>4. orders[b] \in Seq(DOMAIN roll) /\ replies[b] \in Seq(Casting!Item)
  BY <1>2, <1>3
<1>5. PICK p \in Casting!ToSet(Casting!Pairs(orders[b], replies[b])) : p[1] \in DOMAIN replies[b] /\ roll[p[2]] = n
  BY <1>1, <1>2, <1>4, EveryoneIsBound
<1>6. /\ Casting!Returned \in Seq(Roles)
      /\ \A c : c \in Casting!ToSet(Casting!Returned) <=>
           \E d \in DOMAIN orders : \E q \in Casting!ToSet(Casting!Pairs(orders[d], replies[d])) :
               replies[d][q[1]].ok /\ c = Role(replies[d], q)
  BY <1>1, <1>2, <1>3, ReturnedAre
<1>7. Role(replies[b], p) \in Casting!ToSet(Casting!Returned)
  BY <1>5, <1>6
<1>8. roll[Role(replies[b], p).entry] = n
  BY <1>5 DEF Role
<1>9. DOMAIN Casting!Kept = DOMAIN troupe \cup {roll[c.entry] : c \in Casting!ToSet(Casting!Returned)}
  <2> DEFINE T == Roles
  <2>1. Casting!Returned \in Seq(T)
    BY <1>6
  <2> HIDE DEF T
  <2> QED
    BY <2>1, KeptAre
<1> QED
  BY <1>7, <1>8, <1>9

\* What is bound by its name, and what is nobody's, is the same as long as roster and answers are.
LEMMA BatchIsTheSame ==
  ASSUME NEW b \in DOMAIN orders, orders' = orders, replies' = replies,
         Casting!Called(orders[b])' = Casting!Called(orders[b]), Casting!Listed' = Casting!Listed
  PROVE  /\ Casting!Named(orders[b], replies[b])' = Casting!Named(orders[b], replies[b])
         /\ Casting!Unknown(replies[b])' = Casting!Unknown(replies[b])
<1> DEFINE items == replies[b]
           Own(C) == {i \in DOMAIN items : items[i].name \in C /\ \A j \in 1..(i - 1) : items[j].name # items[i].name}
           Alien(L) == {i \in DOMAIN items : items[i].name \notin L}
<1>1. Casting!Order(items)' = Casting!Order(items)
  BY DEF Casting!Order
<1>2. Own(Casting!Called(orders[b]))' = Own(Casting!Called(orders[b]))
  OBVIOUS
<1>3. Alien(Casting!Listed)' = Alien(Casting!Listed)
  OBVIOUS
<1>4. Casting!Named(orders[b], items) = Casting!Those(Casting!Order(items), Own(Casting!Called(orders[b])))
  BY DEF Casting!Named
<1>5. Casting!Named(orders[b], items)' = Casting!Those(Casting!Order(items)', Own(Casting!Called(orders[b]))')
  BY DEF Casting!Named
<1>6. Casting!Unknown(items) = Casting!Those(Casting!Order(items), Alien(Casting!Listed))
  BY DEF Casting!Unknown
<1>7. Casting!Unknown(items)' = Casting!Those(Casting!Order(items)', Alien(Casting!Listed)')
  BY DEF Casting!Unknown
<1> HIDE DEF Own, Alien
<1>8. Casting!Named(orders[b], items)' = Casting!Named(orders[b], items)
  BY <1>1, <1>2, <1>4, <1>5
<1>9. Casting!Unknown(items)' = Casting!Unknown(items)
  BY <1>1, <1>3, <1>6, <1>7
<1> QED
  BY <1>8, <1>9

LEMMA GatherKeeps ==
  ASSUME Rostered, CastInv, Casting!Gather
  PROVE  CastInv'
<1> DEFINE kept == Casting!Kept
           missing == Casting!Missing(kept)
<1>1. /\ act \in {"first", "again"} /\ \A b \in DOMAIN replies : replies[b] # None
      /\ troupe' = kept /\ roll' = roll /\ ties' = ties
      /\ \/ act' = "again" /\ orders' = Casting!Batches(missing) /\ replies' = [b \in DOMAIN orders' |-> None]
         \/ act' = "known" /\ orders' = orders /\ replies' = replies
  BY DEF Casting!Gather
<1>2. roll \in Seq(Casting!Listed)
  BY RollIs
<1>3. DOMAIN kept = DOMAIN troupe \cup {roll[c.entry] : c \in Casting!ToSet(Casting!Returned)}
      /\ (\A n \in DOMAIN troupe : kept[n] = troupe[n])
      /\ \A n \in DOMAIN kept \ DOMAIN troupe :
           kept[n] \in Casting!ToSet(Casting!Returned) /\ roll[kept[n].entry] = n
      /\ \A c \in Casting!ToSet(Casting!Returned) : c \in Roles
  <2> DEFINE T == Roles
             back == Casting!Returned
  <2>1. orders \in Seq(Seq(DOMAIN roll))
    BY <1>1 DEF CastInv
  <2>2. \A b \in DOMAIN orders : replies[b] \in Seq(Casting!Item)
    BY <1>1, RepliesAre
  <2>3. back \in Seq(T)
    BY <1>2, <2>1, <2>2, ReturnedAre
  <2> HIDE DEF T
  <2>4. DOMAIN kept = DOMAIN troupe \cup {roll[c.entry] : c \in Casting!ToSet(back)}
        /\ (\A n \in DOMAIN troupe : kept[n] = troupe[n])
        /\ \A n \in DOMAIN kept \ DOMAIN troupe : kept[n] \in Casting!ToSet(back) /\ roll[kept[n].entry] = n
    BY <2>3, KeptAre
  <2>5. \A c \in Casting!ToSet(back) : c \in T
    <3> HIDE DEF back
    <3> QED
      BY <2>3 DEF Casting!ToSet
  <2> QED
    BY <2>4, <2>5 DEF T
<1> HIDE DEF kept
<1>4. \A n \in DOMAIN kept : kept[n].entry \in DOMAIN roll /\ roll[kept[n].entry] = n
  <2> SUFFICES ASSUME NEW n \in DOMAIN kept PROVE kept[n].entry \in DOMAIN roll /\ roll[kept[n].entry] = n
    OBVIOUS
  <2>1. CASE n \in DOMAIN troupe
    BY <1>3, <2>1 DEF CastInv
  <2>2. CASE n \notin DOMAIN troupe
    BY <1>3, <2>2 DEF Roles
  <2> QED
    BY <2>1, <2>2
<1>5. CASE act' = "again" /\ orders' = Casting!Batches(missing) /\ replies' = [b \in DOMAIN orders' |-> None]
  <2>1. missing \in Seq(DOMAIN roll) /\ Solo(missing) /\ \A e \in Casting!ToSet(missing) : roll[e] \notin DOMAIN kept
    BY <1>2, MissingAre
  <2> HIDE DEF missing
  <2> DEFINE batches == Casting!Batches(missing)
  <2>2. batches \in Seq(Seq(DOMAIN roll)) /\ Apart(batches)
        /\ \A b \in DOMAIN batches : Solo(batches[b]) /\ Casting!ToSet(batches[b]) \subseteq Casting!ToSet(missing)
    BY <2>1, BatchesAre
  <2>3. \A b \in DOMAIN batches : \A e \in Casting!ToSet(batches[b]) : roll[e] \notin DOMAIN kept
    BY <2>1, <2>2
  <2>4. orders' = batches
    BY <1>5
  <2> HIDE DEF batches
  <2>5. Apart(orders)' /\ (\A b \in DOMAIN orders : Solo(orders[b]))'
    <3>1. \A b, c \in DOMAIN batches : b # c => Casting!ToSet(batches[b]) \cap Casting!ToSet(batches[c]) = {}
      BY <2>2 DEF Apart
    <3>2. \A b, c \in DOMAIN orders' : b # c => Casting!ToSet(orders'[b]) \cap Casting!ToSet(orders'[c]) = {}
      BY <2>4, <3>1
    <3>3. Apart(orders)'
      BY <3>2 DEF Apart, Casting!ToSet
    <3>4. (\A b \in DOMAIN orders : Solo(orders[b]))'
      BY <2>2, <2>4 DEF Solo
    <3> QED
      BY <3>3, <3>4
  <2>6. (\A b \in DOMAIN orders : Casting!Called(orders[b]) \cap DOMAIN troupe = {})'
    BY <1>1, <2>3, <2>4 DEF Casting!Called, Casting!ToSet
  <2>7. orders' \in Seq(Seq(DOMAIN roll')) /\ roll' \in Rosters
    BY <1>1, <2>2, <2>4 DEF CastInv
  <2>8. (replies \in [DOMAIN orders -> {None} \cup Casting!Upto(Casting!Item, MaxReplies)])'
    BY <1>5
  <2>9. act' # "known" /\ act' # "related"
    BY <1>5
  <2>10. Casting!NobodyIsReplaced' /\ Casting!NobodyIsLost' /\ Casting!PeersAreKnown'
    BY <2>9 DEF Casting!NobodyIsReplaced, Casting!NobodyIsLost, Casting!PeersAreKnown
  <2>11. (\A n \in DOMAIN troupe : troupe[n].entry \in DOMAIN roll /\ roll[troupe[n].entry] = n)'
    BY <1>1, <1>4
  <2> QED
    BY <2>5, <2>6, <2>7, <2>8, <2>10, <2>11 DEF CastInv
<1>6. CASE act' = "known" /\ orders' = orders /\ replies' = replies
  <2>1. Casting!NobodyIsReplaced'
    <3>1. ASSUME NEW b \in DOMAIN orders, NEW n \in Casting!Called(orders[b]), n \in DOMAIN kept
          PROVE  Casting!Once(n) /\ kept[n].as # n => \A i \in DOMAIN replies[b] : replies[b][i].name # n
      BY <1>1, <3>1, NewAreTheirOwn DEF kept
    <3>2. \A b \in DOMAIN orders : \A n \in Casting!Called(orders[b]) \cap DOMAIN kept :
            Casting!Once(n) /\ kept[n].as # n => \A i \in DOMAIN replies[b] : replies[b][i].name # n
      BY <3>1
    <3>3. \A n : Casting!Once(n)' = Casting!Once(n)
      BY <1>1 DEF Casting!Once, Casting!Cardinality
    <3>4. \A b \in DOMAIN orders : Casting!Called(orders[b])' = Casting!Called(orders[b])
      BY <1>1, <1>6 DEF Casting!Called, Casting!ToSet
    <3>5. (\A n \in DOMAIN troupe : roll[troupe[n].entry] = n)'
      BY <1>1, <1>4
    <3>6. (\A b \in DOMAIN orders : \A n \in Casting!Called(orders[b]) \cap DOMAIN troupe :
             Casting!Once(n) /\ troupe[n].as # n => \A i \in DOMAIN replies[b] : replies[b][i].name # n)'
      BY <1>1, <1>6, <3>2, <3>3, <3>4
    <3> QED
      BY <3>5, <3>6 DEF Casting!NobodyIsReplaced
  <2>2. Casting!NobodyIsLost'
    <3>1. ASSUME NEW b \in DOMAIN orders,
                 Len(Casting!Named(orders[b], replies[b])) + Len(Casting!Unknown(replies[b])) >= Len(orders[b]),
                 \A i \in DOMAIN replies[b] : replies[b][i].ok
          PROVE  Casting!Called(orders[b]) \subseteq DOMAIN kept
      BY <1>1, <3>1, NobodyOfABatchIsLost DEF kept
    <3>2. \A b \in DOMAIN orders :
             /\ Casting!Named(orders[b], replies[b])' = Casting!Named(orders[b], replies[b])
             /\ Casting!Unknown(replies[b])' = Casting!Unknown(replies[b])
             /\ Casting!Called(orders[b])' = Casting!Called(orders[b])
      <4>1. \A b \in DOMAIN orders : Casting!Called(orders[b])' = Casting!Called(orders[b])
        BY <1>1, <1>6 DEF Casting!Called, Casting!ToSet
      <4>2. Casting!Listed' = Casting!Listed
        BY <1>1 DEF Casting!Listed, Casting!ToSet
      <4> QED
        BY <1>6, <4>1, <4>2, BatchIsTheSame
    <3>3. (\A b \in DOMAIN orders :
             /\ Len(Casting!Named(orders[b], replies[b])) + Len(Casting!Unknown(replies[b])) >= Len(orders[b])
             /\ \A i \in DOMAIN replies[b] : replies[b][i].ok
             => Casting!Called(orders[b]) \subseteq DOMAIN troupe)'
      BY <1>1, <1>6, <3>1, <3>2
    <3> QED
      BY <3>3 DEF Casting!NobodyIsLost
  <2>3. act' \notin {"first", "again", "related"}
    BY <1>6
  <2>4. Casting!PeersAreKnown'
    BY <2>3 DEF Casting!PeersAreKnown
  <2>5. (\A n \in DOMAIN troupe : troupe[n].entry \in DOMAIN roll /\ roll[troupe[n].entry] = n)'
    BY <1>1, <1>4
  <2>6. roll' \in Rosters
    BY <1>1 DEF CastInv
  <2> QED
    BY <2>1, <2>2, <2>3, <2>4, <2>5, <2>6 DEF CastInv
<1> QED
  BY <1>1, <1>5, <1>6

\* The characters are handed on.
LEMMA ReturnKeeps ==
  ASSUME Rostered, CastInv, Casting!Return
  PROVE  CastInv'
<1>1. act' = "cast" /\ roll' = roll /\ troupe' = troupe /\ ties' = ties
  BY DEF Casting!Return
<1>2. Casting!NobodyIsReplaced' /\ Casting!NobodyIsLost' /\ Casting!PeersAreKnown'
  BY <1>1 DEF Casting!NobodyIsReplaced, Casting!NobodyIsLost, Casting!PeersAreKnown
<1>3. roll' \in Rosters /\ \A n \in DOMAIN troupe' : troupe'[n].entry \in DOMAIN roll' /\ roll'[troupe'[n].entry] = n
  BY <1>1 DEF CastInv
<1> QED
  BY <1>1, <1>2, <1>3 DEF CastInv

\* The cast in the order of the roster is a list of members of it.
LEMMA InOrderIs ==
  ASSUME Rostered, CastInv
  PROVE  Casting!InOrder \in Seq(DOMAIN troupe)
<1> DEFINE order == [i \in DOMAIN roll |-> i]
           F == {i \in DOMAIN roll : roll[i] \in DOMAIN troupe /\ \A j \in 1..(i - 1) : roll[j] # roll[i]}
           first == Casting!Those(order, F)
           m == Len(roll)
           n == Len(first)
<1>1. roll \in Seq(Casting!Listed)
  BY RollIs
<1>2. m \in Nat /\ DOMAIN roll = 1..m
  BY <1>1
<1>3. order \in Seq(1..m)
  BY <1>2, OrderIs
<1>4. \A i \in F : i \in DOMAIN roll /\ roll[i] \in DOMAIN troupe
  OBVIOUS
<1>5. Casting!InOrder = [k \in DOMAIN first |-> roll[first[k]]]
  BY DEF Casting!InOrder
<1> HIDE DEF order, F
<1>6. first \in Seq(1..m) /\ Casting!ToSet(first) = Casting!ToSet(order) \cap F
  BY <1>3, CastThose
<1> HIDE DEF first
<1>7. \A k \in DOMAIN first : roll[first[k]] \in DOMAIN troupe
  BY <1>4, <1>6 DEF Casting!ToSet
<1>8. n \in Nat /\ DOMAIN first = 1..n
  BY <1>6
<1> DEFINE D == DOMAIN troupe
           listed == [k \in 1..n |-> roll[first[k]]]
<1>9. listed \in [1..n -> D]
  BY <1>7, <1>8
<1>10. Casting!InOrder = listed
  BY <1>5, <1>8
<1> HIDE DEF listed, D, n
<1>11. listed \in Seq(D)
  BY <1>8, <1>9
<1> QED
  BY <1>10, <1>11 DEF D

\* What somebody is to others: to somebody else who exists, to nobody twice in one way.
LEMMA RelationsAre ==
  ASSUME NEW owner, NEW T, NEW said \in Seq(T), NEW D, NEW event \in Seq(D), NEW core \in Seq(D)
  PROVE  LET related == Casting!Relations(owner, said, event, core)
         IN  /\ \A k \in DOMAIN related : related[k].target \in (DOMAIN troupe) \ {owner}
             /\ \A j, k \in DOMAIN related :
                    related[j].target = related[k].target /\ related[j].kind = related[k].kind => j = k
<1> DEFINE O == Casting!ToSet(event) \ {owner}
           others == Casting!Those(event, O)
           shared == [k \in DOMAIN others |-> Casting!Tie(others[k])]
           joint == IF owner \in Casting!ToSet(event) THEN shared ELSE << >>
           side == [k \in DOMAIN core |-> Casting!Ally(core[k])]
           all == said \o joint \o side
           R == {r \in Casting!ToSet(all) : Casting!Fits(owner, r)}
           kept == Casting!Those(all, R)
           U == T \cup {Casting!Tie(d) : d \in D} \cup {Casting!Ally(d) : d \in D}
<1>1. others \in Seq(D)
  <2> HIDE DEF O
  <2> QED
    BY CastThose
<1> HIDE DEF others
<1>2. shared \in Seq(U)
  <2> DEFINE n == Len(others)
  <2>1. n \in Nat /\ DOMAIN others = 1..n /\ \A k \in 1..n : others[k] \in D
    BY <1>1
  <2>2. \A k \in 1..n : Casting!Tie(others[k]) \in U
    BY <2>1
  <2>3. shared \in [1..n -> U]
    BY <2>1, <2>2
  <2> HIDE DEF shared, U, n
  <2> QED
    BY <2>1, <2>3
<1>3. side \in Seq(U)
  <2> DEFINE n == Len(core)
  <2>1. n \in Nat /\ DOMAIN core = 1..n /\ \A k \in 1..n : core[k] \in D
    OBVIOUS
  <2>2. \A k \in 1..n : Casting!Ally(core[k]) \in U
    BY <2>1
  <2>3. side \in [1..n -> U]
    BY <2>1, <2>2
  <2> HIDE DEF side, U, n
  <2> QED
    BY <2>1, <2>3
<1>4. said \in Seq(U)
  <2>1. said \in [1..Len(said) -> T] /\ Len(said) \in Nat /\ T \subseteq U
    OBVIOUS
  <2> HIDE DEF U
  <2>2. said \in [1..Len(said) -> U]
    BY <2>1
  <2> QED
    BY <2>1, <2>2
<1>5. joint \in Seq(U)
  <2> HIDE DEF shared, U
  <2> QED
    BY <1>2
<1>6. Casting!Relations(owner, said, event, core) = Casting!Related(kept)
  BY DEF Casting!Relations, others
<1> HIDE DEF U, joint, side
<1>7. all \in Seq(U)
  BY <1>3, <1>4, <1>5
<1>8. \A r \in R : r.target # owner /\ r.target \in DOMAIN troupe
  BY DEF Casting!Fits
<1> HIDE DEF all, R
<1>9. kept \in Seq(U) /\ Casting!ToSet(kept) = Casting!ToSet(all) \cap R
  BY <1>7, CastThose
<1> HIDE DEF kept
<1> DEFINE related == Casting!Related(kept)
<1>10. /\ related \in Seq(U) /\ Casting!ToSet(related) \subseteq Casting!ToSet(kept)
       /\ \A i, j \in DOMAIN related :
              related[i].target = related[j].target /\ related[i].kind = related[j].kind => i = j
  BY <1>9, RelatedAre
<1> HIDE DEF related
<1>11. \A k \in DOMAIN related : related[k] \in R
  BY <1>9, <1>10 DEF Casting!ToSet
<1>12. \A k \in DOMAIN related : related[k].target \in (DOMAIN troupe) \ {owner}
  BY <1>8, <1>11
<1> QED
  BY <1>6, <1>10, <1>12 DEF related

LEMMA RelateKeeps ==
  ASSUME Rostered, CastInv, act = "cast",
         NEW speaker \in DOMAIN troupe, NEW said \in Casting!Upto(Casting!Relation, 1),
         NEW event \in SUBSET DOMAIN troupe, NEW side \in SUBSET DOMAIN troupe,
         Casting!Relate(speaker, said, event, side)
  PROVE  CastInv'
<1> DEFINE D == DOMAIN troupe
           listed == Casting!InOrder
           members == Casting!Those(listed, side)
           core == SubSeq(members, 1, Casting!Smaller(Core, Len(members)))
           guests == Casting!Those(listed, event)
           T == Casting!Relation
           own(n) == IF n = speaker THEN said ELSE << >>
           mates(n) == IF n \in side THEN core ELSE << >>
<1>1. /\ act' = "related" /\ roll' = roll /\ troupe' = troupe
      /\ ties' = [n \in DOMAIN troupe |-> Casting!Relations(n, own(n), guests, mates(n))]
  BY DEF Casting!Relate
<1>2. listed \in Seq(D)
  BY InOrderIs
<1> HIDE DEF listed, D
<1>3. members \in Seq(D) /\ guests \in Seq(D)
  BY <1>2, CastThose
<1> HIDE DEF members, guests
<1>4. core \in Seq(D)
  <2>1. Core \in Nat /\ Len(members) \in Nat
    BY <1>3 DEF Rostered
  <2>2. Casting!Smaller(Core, Len(members)) \in 0..Len(members)
    BY <2>1 DEF Casting!Smaller
  <2> DEFINE k == Casting!Smaller(Core, Len(members))
  <2>3. k \in Nat /\ k =< Len(members)
    BY <2>1, <2>2
  <2> HIDE DEF k
  <2>4. \A i \in 1..k : members[i] \in D
    BY <1>3, <2>3
  <2>5. SubSeq(members, 1, k) = [i \in 1..k |-> members[i]]
    BY <1>3, <2>3
  <2>6. SubSeq(members, 1, k) \in Seq(D)
    BY <2>3, <2>4, <2>5
  <2> QED
    BY <2>6 DEF k
<1> HIDE DEF core
<1>5. said \in Seq(T)
  <2> HIDE DEF T
  <2>1. PICK k \in 0..1 : said \in [1..k -> T]
    BY DEF Casting!Upto, T
  <2> QED
    BY <2>1
<1> HIDE DEF T
<1>6. ASSUME NEW n \in DOMAIN troupe
      PROVE  LET related == Casting!Relations(n, own(n), guests, mates(n))
             IN  /\ \A k \in DOMAIN related : related[k].target \in (DOMAIN troupe) \ {n}
                 /\ \A j, k \in DOMAIN related :
                        related[j].target = related[k].target /\ related[j].kind = related[k].kind => j = k
  <2>1. own(n) \in Seq(T) /\ mates(n) \in Seq(D)
    BY <1>4, <1>5
  <2> HIDE DEF own, mates
  <2> QED
    BY <1>3, <2>1, RelationsAre
<1> HIDE DEF own, mates
<1>7. \A n \in DOMAIN troupe : ties'[n] = Casting!Relations(n, own(n), guests, mates(n))
  BY <1>1
<1>8. \A n \in DOMAIN troupe :
         /\ \A k \in DOMAIN ties'[n] : ties'[n][k].target \in (DOMAIN troupe) \ {n}
         /\ \A j, k \in DOMAIN ties'[n] :
                ties'[n][j].target = ties'[n][k].target /\ ties'[n][j].kind = ties'[n][k].kind => j = k
  BY <1>6, <1>7
<1>9. Casting!PeersAreKnown'
  BY <1>1, <1>8 DEF Casting!PeersAreKnown
<1>10. Casting!NobodyIsReplaced' /\ Casting!NobodyIsLost'
  BY <1>1 DEF Casting!NobodyIsReplaced, Casting!NobodyIsLost
<1>11. roll' \in Rosters /\ \A n \in DOMAIN troupe' : troupe'[n].entry \in DOMAIN roll' /\ roll'[troupe'[n].entry] = n
  BY <1>1 DEF CastInv
<1> QED
  BY <1>1, <1>9, <1>10, <1>11 DEF CastInv

LEMMA CastStep ==
  ASSUME Rostered, CastInv, [Casting!Next]_(Casting!vars)
  PROVE  CastInv'
<1>1. CASE \E b \in DOMAIN replies : \E items \in Casting!Upto(Casting!Item, MaxReplies) : Casting!Answer(b, items)
  BY <1>1, AnswerKeeps
<1>2. CASE Casting!Gather
  BY <1>2, GatherKeeps
<1>3. CASE Casting!Return
  BY <1>3, ReturnKeeps
<1>4. CASE /\ act = "cast"
           /\ \E speaker \in DOMAIN troupe, said \in Casting!Upto(Casting!Relation, 1), event, side \in SUBSET DOMAIN troupe :
                  Casting!Relate(speaker, said, event, side)
  BY <1>4, RelateKeeps
<1>5. CASE UNCHANGED Casting!vars
  <2>1. roll' = roll /\ orders' = orders /\ replies' = replies /\ troupe' = troupe /\ ties' = ties /\ act' = act
    BY <1>5 DEF Casting!vars
  <2>2. /\ (\A n : Casting!Once(n)' = Casting!Once(n))
        /\ Casting!Listed' = Casting!Listed
        /\ \A b \in DOMAIN orders : Casting!Called(orders[b])' = Casting!Called(orders[b])
    BY <2>1 DEF Casting!Once, Casting!Cardinality, Casting!Called, Casting!Listed, Casting!ToSet
  <2>3. (Casting!Upto(Casting!Item, MaxReplies))' = Casting!Upto(Casting!Item, MaxReplies)
    BY <2>2 DEF Casting!Upto, Casting!Item
  <2>4. Apart(orders)' = Apart(orders) /\ (\A b \in DOMAIN orders : Solo(orders[b]))' = (\A b \in DOMAIN orders : Solo(orders[b]))
    BY <2>1 DEF Apart, Solo, Casting!ToSet
  <2>5. Casting!NobodyIsReplaced'
    BY <2>1, <2>2 DEF CastInv, Casting!NobodyIsReplaced
  <2>6. Casting!NobodyIsLost'
    BY <2>1, <2>2, BatchIsTheSame DEF CastInv, Casting!NobodyIsLost
  <2>7. Casting!PeersAreKnown'
    BY <2>1 DEF CastInv, Casting!PeersAreKnown
  <2> QED
    BY <2>1, <2>2, <2>3, <2>4, <2>5, <2>6, <2>7 DEF CastInv
<1> QED
  BY <1>1, <1>2, <1>3, <1>4, <1>5 DEF Casting!Next

\* Whoever answered under his own name is himself and carries what the roster says of him; an
\* answer with enough usable items loses nobody of its batch, however they are named; and nobody
\* is related to himself, to one who does not exist or to somebody twice in one way
\* (character_roster_builder.py _process_batch, relations_pack_builder.py).
THEOREM CastIsKept ==
  ASSUME Rostered
  PROVE  Casting!Spec => [](Casting!NobodyIsReplaced /\ Casting!NobodyIsLost /\ Casting!PeersAreKnown)
<1>1. Casting!Init => CastInv
  BY CastInit
<1>2. CastInv /\ [Casting!Next]_(Casting!vars) => CastInv'
  BY CastStep
<1>3. CastInv => Casting!NobodyIsReplaced /\ Casting!NobodyIsLost /\ Casting!PeersAreKnown
  BY DEF CastInv
<1> QED
  BY <1>1, <1>2, <1>3, PTL DEF Casting!Spec
=============================================================================
