--------------------------- MODULE GenerationTasks ---------------------------
(***************************************************************************)
(* The generation tasks of one user (services/generation_task_service.py   *)
(* and the endpoints of api/workshop.py that start and watch them): a      *)
(* request creates a task under a per-user limit, a detached coroutine     *)
(* runs it and appends to its event log, the draft receives the result,    *)
(* credits are settled by how the task ended, and clients follow the log   *)
(* over connections that drop and resume.                                  *)
(*                                                                         *)
(* One database transaction is one step, with two exceptions.  The one     *)
(* that creates a task counts the user's active tasks and inserts another, *)
(* and what the advisory lock protects is the time between the two.  And   *)
(* a worker that hung may wake up while a creation reaps its task: it      *)
(* reads the row before and writes it after the creation commits.          *)
(*                                                                         *)
(* A task has the name of the request that creates it, a draft the name of *)
(* the task it was created with.  Of the event log the model keeps whether *)
(* an error or done event stands in it, of what a client has received      *)
(* whether that event was there; of a draft, how often each task wrote it. *)
(***************************************************************************)
EXTENDS Integers, FiniteSets, Sequences, SequencesExt

CONSTANTS
    Tasks,      \* requests that create a task; each is used once
    NoTask,
    Earlier,    \* those among them that have created a draft and recognized its world before
    Streams,    \* clients that follow a task
    Limit,      \* generation_task_active_limit_per_user, at least 1
    MayHang     \* tasks whose worker may hang in a model call for STALE_TASK_AFTER_SECONDS

ASSUME ConstantsAssumption ==
    /\ IsFiniteSet(Tasks) /\ NoTask \notin Tasks /\ Earlier \subseteq Tasks
    /\ Limit \in Nat \ {0}
    /\ MayHang \subseteq Tasks

VARIABLES
    \* generation_tasks and generation_task_events
    kind,      \* kind and request_payload.phase
    draft,     \* draft_id
    status,    \* "none" before the row exists
    fresh,     \* updated_at is recent
    reported,  \* an error or done event is in the log
    created,   \* the tasks by created_at
    written,   \* how often its worker wrote the payload of the draft
    \* the request and, once launched, the worker of each task
    pc,
    stale,     \* the tasks a creation found stale, to be reaped with its commit
    hold,      \* its credit hold
    limitLock, \* the transaction that has the user's advisory lock
    read,      \* the status a worker that hung has read, in a transaction not yet committed
    \* a client and the server side of its stream
    spc,
    watched,
    told,      \* the client has received that event
    seen       \* what the stream read of the task in this round: whether it has ended

rowVars    == <<kind, draft, status, fresh, reported, created, written>>
workVars   == <<pc, stale, hold, limitLock, read>>
streamVars == <<spc, watched, told, seen>>
vars == <<rowVars, workVars, streamVars>>

\* What is asked for: a world's recognition, its generation, its refinement, a script.
Kinds == {"phase_a", "phase_b", "refine", "script"}

\* ACTIVE_GENERATION_TASK_STATUSES and TERMINAL_TASK_STATUSES (nothing sets "cancelled").
ActiveStatus == {"pending", "running"}
TerminalStatus == {"succeeded", "failed"}

\* Where a launched coroutine is.
Working == {"launch", "boot", "mark", "work", "recheck", "finish", "fallback", "fallback_finish",
            "enqueue", "failing", "closing", "settle"}

TypeOK ==
    /\ kind \in [Tasks -> Kinds \cup {"none"}]
    /\ draft \in [Tasks -> Tasks]
    /\ status \in [Tasks -> {"none"} \cup ActiveStatus \cup TerminalStatus]
    /\ fresh \in [Tasks -> BOOLEAN]
    /\ reported \in [Tasks -> BOOLEAN]
    /\ created \in Seq(Tasks)
    /\ written \in [Tasks -> Nat]
    /\ pc \in [Tasks -> Working \cup {"idle", "queued", "inserting", "created", "over"}]
    /\ stale \in [Tasks -> SUBSET Tasks]
    /\ hold \in [Tasks -> {"none", "held", "charged", "free"}]
    /\ limitLock \in Tasks \cup {NoTask}
    /\ read \in [MayHang -> {"none"} \cup ActiveStatus]
    /\ spc \in [Streams -> {"closed", "poll", "rows", "ended"}]
    /\ watched \in [Streams -> Tasks \cup {NoTask}]
    /\ told \in [Streams -> BOOLEAN]
    /\ seen \in [Streams -> BOOLEAN]

Init ==
    /\ kind = [t \in Tasks |-> IF t \in Earlier THEN "phase_a" ELSE "none"]
    /\ draft = [t \in Tasks |-> t]
    /\ status = [t \in Tasks |-> IF t \in Earlier THEN "succeeded" ELSE "none"]
    /\ fresh = [t \in Tasks |-> TRUE]
    /\ reported = [t \in Tasks |-> t \in Earlier]
    /\ created = SetToSeq(Earlier)
    /\ written = [t \in Tasks |-> IF t \in Earlier THEN 1 ELSE 0]
    /\ pc = [t \in Tasks |-> IF t \in Earlier THEN "over" ELSE "idle"]
    /\ stale = [t \in Tasks |-> {}]
    /\ hold = [t \in Tasks |-> "none"]
    /\ limitLock = NoTask
    /\ read = [t \in MayHang |-> "none"]
    /\ spc = [s \in Streams |-> "closed"]
    /\ watched = [s \in Streams |-> NoTask]
    /\ told = [s \in Streams |-> FALSE]
    /\ seen = [s \in Streams |-> FALSE]

Goto(t, place) == pc' = [pc EXCEPT ![t] = place]

-----------------------------------------------------------------------------
(* A request creates a task.                                               *)

Active == {t \in Tasks : status[t] \in ActiveStatus}

\* _load_latest_generation_task: the last task on a draft, among tasks of some kinds.
LatestOn(d, kinds) ==
    LET on == SelectSeq(created, LAMBDA t : draft[t] = d /\ kind[t] \in kinds)
    IN IF on = <<>> THEN NoTask ELSE Last(on)

InFlight(t, k) == t # NoTask /\ kind[t] = k /\ status[t] \in ActiveStatus

\* A world or a script is asked for.
AskNew(t, k) ==
    /\ pc[t] = "idle"
    /\ k \notin {"phase_b", "refine"}
    /\ kind' = [kind EXCEPT ![t] = k]
    /\ Goto(t, "queued")
    /\ UNCHANGED <<draft, status, fresh, reported, created, written, stale, hold, limitLock, read, streamVars>>

\* continue-generation or refine on a world draft: 409 when the latest task is one in flight.
\* Nothing keeps that true until the task is inserted.
AskOn(t, k, d) ==
    /\ pc[t] = "idle"
    /\ status[d] # "none" /\ kind[d] = "phase_a"
    /\ \/ k = "phase_b" /\ ~InFlight(LatestOn(d, Kinds \ {"refine"}), k)
       \/ k = "refine" /\ ~InFlight(LatestOn(d, Kinds), k)
    /\ kind' = [kind EXCEPT ![t] = k]
    /\ draft' = [draft EXCEPT ![t] = d]
    /\ Goto(t, "queued")
    /\ UNCHANGED <<status, fresh, reported, created, written, stale, hold, limitLock, read, streamVars>>

\* Mutant: every active task is taken for dead.
StaleAll == Active

\* _reap_stale_tasks: active, and not updated for STALE_TASK_AFTER_SECONDS.
Stale == {t \in Active : ~fresh[t]}

\* Mutant: no advisory lock.
CountUnlocked(t) ==
    /\ pc[t] = "queued"
    /\ IF Cardinality(Active \ Stale) >= Limit
       THEN Goto(t, "over") /\ UNCHANGED <<stale, limitLock>>
       ELSE /\ Goto(t, "inserting")
            /\ stale' = [stale EXCEPT ![t] = Stale]
            /\ limitLock' = t
    /\ UNCHANGED <<rowVars, hold, read, streamVars>>

\* The advisory lock, the reaping and the count; over the limit, 429 and a rollback.
Count(t) ==
    /\ pc[t] = "queued" /\ limitLock = NoTask
    /\ IF Cardinality(Active \ Stale) >= Limit
       THEN Goto(t, "over") /\ UNCHANGED <<stale, limitLock>>
       ELSE /\ Goto(t, "inserting")
            /\ stale' = [stale EXCEPT ![t] = Stale]
            /\ limitLock' = t
    /\ UNCHANGED <<rowVars, hold, read, streamVars>>

Forget(t) == stale' = [stale EXCEPT ![t] = {}]

\* The commit: the reaped tasks fail (without an event), the task and its first event appear.
Insert(t) ==
    /\ pc[t] = "inserting"
    /\ status' = [u \in Tasks |-> IF u = t THEN "pending" ELSE IF u \in stale[t] THEN "failed" ELSE status[u]]
    /\ fresh' = [u \in Tasks |-> u = t \/ u \in stale[t] \/ fresh[u]]
    /\ created' = Append(created, t)
    /\ limitLock' = NoTask
    /\ Goto(t, "created") /\ Forget(t)
    /\ UNCHANGED <<kind, draft, reported, written, hold, read, streamVars>>

\* An exception instead: everything is rolled back, and the lock is gone with the transaction.
InsertFails(t) ==
    /\ pc[t] = "inserting"
    /\ limitLock' = NoTask
    /\ Goto(t, "over") /\ Forget(t)
    /\ UNCHANGED <<rowVars, hold, read, streamVars>>

Launch(t) ==
    /\ pc[t] = "created"
    /\ Goto(t, "launch")
    /\ UNCHANGED <<rowVars, stale, hold, limitLock, read, streamVars>>

-----------------------------------------------------------------------------
(* The worker.                                                             *)

\* The status of its row as the worker's transaction read it.
StatusRead(t) == IF t \in MayHang /\ read[t] # "none" THEN read[t] ELSE status[t]

\* Mutant: a task that failed succeeds after all.
StatusAfterAnyDone(t, event) ==
    CASE event = "error" -> "failed"
      [] event = "done" -> "succeeded"
      [] OTHER -> status[t]

StatusAfter(t, event) ==
    CASE event = "error" -> "failed"
      [] event = "done" /\ StatusRead(t) # "failed" -> "succeeded"
      [] OTHER -> status[t]

Write(t) == written' = [written EXCEPT ![t] = @ + 1]

\* _record_event, one transaction: the row, the sequence number, the status, the result.
RecordEvent(t, event) ==
    /\ reported' = [reported EXCEPT ![t] = @ \/ event \in {"error", "done"}]
    /\ fresh' = [fresh EXCEPT ![t] = TRUE]
    /\ status' = [status EXCEPT ![t] = StatusAfter(t, event)]
    /\ IF event = "result" THEN Write(t) ELSE UNCHANGED written
    /\ UNCHANGED <<kind, draft, created>>

\* The except clause an exception reaches.
Handler(t) ==
    CASE kind[t] = "phase_a" /\ pc[t] \in {"work", "finish"} -> "fallback"
      [] pc[t] \in {"work", "recheck", "finish", "fallback", "fallback_finish", "enqueue"} -> "failing"
      [] OTHER -> "settle"

\* A step whose commit raises after it was applied goes on in the handler.
Then(t, place) == \E next \in {place, Handler(t)} : Goto(t, next)

EndRead(t) == read' = [u \in MayHang |-> IF u = t THEN "none" ELSE read[u]]

\* Any transaction of the worker is over with its step.
WorkerOnly(t) ==
    /\ EndRead(t)
    /\ UNCHANGED <<stale, limitLock, streamVars>>

\* A worker that hung begins to record something: it reads the row.  Nothing comes of it but
\* while a creation is about to reap the task.
Look(t) ==
    /\ t \in MayHang /\ read[t] = "none" /\ status[t] \in ActiveStatus
    /\ \E u \in Tasks : t \in stale[u]
    /\ pc[t] \in {"work", "recheck", "finish", "fallback", "fallback_finish", "failing", "closing"}
    /\ read' = [read EXCEPT ![t] = status[t]]
    /\ UNCHANGED <<rowVars, pc, stale, hold, limitLock, streamVars>>

\* The gate: a hold, InsufficientCredits, or no hold (a refinement, or the gate failed open).
Reserve(t) ==
    /\ pc[t] = "launch"
    /\ \/ kind[t] # "refine" /\ hold' = [hold EXCEPT ![t] = "held"] /\ Goto(t, "boot")
       \/ kind[t] # "refine" /\ UNCHANGED hold /\ Goto(t, "failing")
       \/ UNCHANGED hold /\ Goto(t, IF kind[t] = "refine" THEN "mark" ELSE "boot")
    /\ UNCHANGED rowVars /\ WorkerOnly(t)

\* The first progress event; a refinement records it after _mark_task_running.
Boot(t) ==
    /\ pc[t] = "boot"
    /\ RecordEvent(t, "progress")
    /\ Then(t, IF kind[t] = "refine" THEN "work" ELSE "mark")
    /\ UNCHANGED hold /\ WorkerOnly(t)

\* _mark_task_running leaves a task alone that is no longer pending.
MarkRunning(t) ==
    /\ pc[t] = "mark"
    /\ IF status[t] = "pending"
       THEN /\ status' = [status EXCEPT ![t] = "running"]
            /\ fresh' = [fresh EXCEPT ![t] = TRUE]
       ELSE UNCHANGED <<status, fresh>>
    /\ Then(t, IF kind[t] = "refine" THEN "boot" ELSE "work")
    /\ UNCHANGED <<kind, draft, reported, created, written, hold>> /\ WorkerOnly(t)

\* The stages of the agent report progress.
Progress(t) ==
    /\ pc[t] \in {"work", "recheck"}
    /\ RecordEvent(t, "progress")
    /\ Then(t, pc[t])
    /\ UNCHANGED hold /\ WorkerOnly(t)

\* The agent's result, stored in the draft with its event.
Result(t) ==
    /\ pc[t] = "work" /\ kind[t] # "refine"
    /\ RecordEvent(t, "result")
    /\ Then(t, "finish")
    /\ UNCHANGED hold /\ WorkerOnly(t)

\* The agent gives up (pipeline_aborted_low_content): an error event, and no done.
GiveUp(t) ==
    /\ pc[t] = "work" /\ kind[t] \in {"phase_b", "script"}
    /\ RecordEvent(t, "error")
    /\ Then(t, IF kind[t] = "phase_b" THEN "enqueue" ELSE "settle")
    /\ UNCHANGED hold /\ WorkerOnly(t)

\* A refinement writes the draft itself if it changed anything, again if its recheck did;
\* it has no result event.
Rewrite(t) ==
    /\ kind[t] = "refine"
    /\ \/ pc[t] = "work" /\ Write(t) /\ Then(t, "recheck")
       \/ pc[t] = "recheck" /\ Write(t) /\ Then(t, "finish")
       \/ pc[t] \in {"work", "recheck"} /\ UNCHANGED written /\ Goto(t, "finish")
    /\ UNCHANGED <<kind, draft, status, fresh, reported, created, hold>> /\ WorkerOnly(t)

\* phase_a answers "original" when the recognition failed.
Fallback(t) ==
    /\ pc[t] = "fallback"
    /\ RecordEvent(t, "result")
    /\ Then(t, "fallback_finish")
    /\ UNCHANGED hold /\ WorkerOnly(t)

Finish(t) ==
    /\ pc[t] \in {"finish", "fallback_finish"}
    /\ RecordEvent(t, "done")
    /\ Then(t, IF kind[t] = "phase_b" THEN "enqueue" ELSE "settle")
    /\ UNCHANGED hold /\ WorkerOnly(t)

\* _enqueue_world_quality.
Enqueue(t) ==
    /\ pc[t] = "enqueue"
    /\ Goto(t, "settle")
    /\ UNCHANGED <<rowVars, hold>> /\ WorkerOnly(t)

\* An exception, nothing applied; one from outside phase_a's inner try reaches the outer one.
Raise(t) ==
    /\ pc[t] \in Working \ {"settle"}
    /\ \/ Goto(t, Handler(t))
       \/ pc[t] = "work" /\ Goto(t, "failing")
    /\ UNCHANGED <<rowVars, hold>> /\ WorkerOnly(t)

\* The except clause: error, then done.
Report(t) ==
    /\ \/ pc[t] = "failing" /\ RecordEvent(t, "error") /\ Then(t, "closing")
       \/ pc[t] = "closing" /\ RecordEvent(t, "done") /\ Goto(t, "settle")
    /\ UNCHANGED hold /\ WorkerOnly(t)

\* Mutant: whatever has not failed is paid for.
ChargeOf(t) == IF status[t] = "failed" THEN "free" ELSE "charged"

\* Mutant: the hold takes the task's status.
OutcomeAsStatus(t) == status[t]

\* delivered = the task succeeded.
Outcome(t) == IF status[t] = "succeeded" THEN "charged" ELSE "free"

\* _credit_settle; when it raises the hold is left to the sweep.
Settle(t) ==
    /\ pc[t] = "settle"
    /\ \/ hold[t] = "held" /\ hold' = [hold EXCEPT ![t] = Outcome(t)]
       \/ UNCHANGED hold
    /\ Goto(t, "over")
    /\ UNCHANGED rowVars /\ WorkerOnly(t)

\* The process dies, before or after the launch; no startup code takes the task up again.
Die(t) ==
    /\ pc[t] \in Working \cup {"queued", "inserting", "created"}
    /\ Goto(t, "over") /\ Forget(t)
    /\ limitLock' = IF limitLock = t THEN NoTask ELSE limitLock
    /\ EndRead(t)
    /\ UNCHANGED <<rowVars, hold, streamVars>>

\* Half an hour without a write to the task: its worker is dead, or hangs in a model call.
Silence(t) ==
    /\ t \in Active /\ fresh[t]
    /\ pc[t] = "over" \/ (t \in MayHang /\ pc[t] \in {"work", "recheck"})
    /\ fresh' = [fresh EXCEPT ![t] = FALSE]
    /\ UNCHANGED <<kind, draft, status, reported, created, written, workVars, streamVars>>

-----------------------------------------------------------------------------
(* stream_task_events and the client that reads it.                        *)

\* A first connection, or one that resumes after the last event received; the earlier tasks
\* have been followed to their end.
Connect(s) ==
    /\ spc[s] = "closed"
    /\ \E t \in Tasks \ Earlier :
         /\ status[t] # "none" /\ watched[s] \in {t, NoTask}
         /\ watched' = [watched EXCEPT ![s] = t]
    /\ spc' = [spc EXCEPT ![s] = "poll"]
    /\ UNCHANGED <<rowVars, workVars, told, seen>>

\* One round of the poll reads the task ...
ReadTask(s) ==
    /\ spc[s] = "poll"
    /\ seen' = [seen EXCEPT ![s] = status[watched[s]] \in TerminalStatus]
    /\ spc' = [spc EXCEPT ![s] = "rows"]
    /\ UNCHANGED <<rowVars, workVars, watched, told>>

\* Mutant: an ended task ends the stream before its last events are sent.
ReadRowsLate(s) ==
    /\ spc[s] = "rows"
    /\ told' = [told EXCEPT ![s] = @ \/ (~seen[s] /\ reported[watched[s]])]
    /\ seen' = [seen EXCEPT ![s] = FALSE]
    /\ spc' = [spc EXCEPT ![s] = IF seen[s] THEN "ended" ELSE "poll"]
    /\ UNCHANGED <<rowVars, workVars, watched>>

\* ... then the events after the last one sent, sends them all, and ends if the task had ended
\* (the log only grows: they reach the last_event_seq that came with the status).
ReadRows(s) ==
    /\ spc[s] = "rows"
    /\ told' = [told EXCEPT ![s] = @ \/ reported[watched[s]]]
    /\ seen' = [seen EXCEPT ![s] = FALSE]
    /\ spc' = [spc EXCEPT ![s] = IF seen[s] THEN "ended" ELSE "poll"]
    /\ UNCHANGED <<rowVars, workVars, watched>>

\* The connection drops, perhaps while the events are being sent.
Drop(s) ==
    /\ \/ spc[s] \in {"poll", "rows"} /\ UNCHANGED told
       \/ spc[s] = "rows" /\ told' = [told EXCEPT ![s] = @ \/ reported[watched[s]]]
    /\ seen' = [seen EXCEPT ![s] = FALSE]
    /\ spc' = [spc EXCEPT ![s] = "closed"]
    /\ UNCHANGED <<rowVars, workVars, watched>>

-----------------------------------------------------------------------------

Request(t) ==
    \/ \E k \in Kinds : AskNew(t, k) \/ \E d \in Tasks : AskOn(t, k, d)
    \/ Count(t) \/ Insert(t) \/ InsertFails(t) \/ Launch(t)

Worker(t) ==
    \/ Look(t) \/ Reserve(t) \/ Boot(t) \/ MarkRunning(t) \/ Progress(t) \/ Result(t) \/ GiveUp(t) \/ Rewrite(t)
    \/ Fallback(t) \/ Finish(t) \/ Enqueue(t) \/ Raise(t) \/ Report(t) \/ Settle(t)

Next ==
    \/ \E t \in Tasks : Request(t) \/ Worker(t) \/ Die(t) \/ Silence(t)
    \/ \E s \in Streams : Connect(s) \/ ReadTask(s) \/ ReadRows(s) \/ Drop(s)

Spec == Init /\ [][Next]_vars

-----------------------------------------------------------------------------
(* Properties.                                                             *)

\* However many requests of a user arrive at once, and whatever is reaped on the way, at most
\* Limit of the user's tasks are pending or running (GenerationTaskLimitExceeded).
WithinLimit == Cardinality(Active) <= Limit

\* A task that was settled as free never succeeds, and one that was charged stays a success
\* (_credit_settle: "a fully-failed task is free"), except that a creation which found its
\* silent worker dead may commit that after the worker ended and was paid.
PaidIfSucceeded ==
    \A t \in Tasks :
      /\ hold[t] = "free" => status[t] # "succeeded"
      /\ hold[t] = "charged" /\ t \notin MayHang => status[t] = "succeeded"

\* Once a task has failed, by its own error or as a zombie, it stays failed, whatever its
\* worker still records; only a worker that hung can record done over the reaper.
FailedIsFinal == [][\A t \in Tasks \ MayHang : status[t] = "failed" => status'[t] = "failed"]_vars

\* When a stream ends by itself, its client has been sent the event that ended the task,
\* and everything before it, unless the task was reaped, which records no event.
EndedStreamIsComplete ==
    [][\A s \in Streams : spc[s] # "ended" /\ spc'[s] = "ended" =>
          LET t == watched[s] IN
          told'[s] \/ (status[t] = "failed" /\ ~reported[t])]_vars

\* A task the user was told had failed writes nothing to its draft any more, unless its worker
\* was silent and alive for as long as a dead one.
NoLateWrite ==
    [][\A t \in Tasks \ MayHang : status[t] = "failed" => written'[t] = written[t]]_vars

=============================================================================
