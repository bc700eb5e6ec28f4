------------------------------ MODULE GameTurn ------------------------------
(***************************************************************************)
(* One game session under concurrent requests (services/game_service.py,   *)
(* api/game.py): actions, retries, withdrawals and resumes run under the   *)
(* Redis session lock; pause and abandon do not take it; off-stage ticks   *)
(* write the same row in the background after a turn.                      *)
(*                                                                         *)
(* A request loads the session row once and keeps that copy while it waits *)
(* for the model.  It writes back in two ways: an ORM flush (only the      *)
(* columns it changed, no version check) and save_session_state (checks    *)
(* the version and increments it).  One transaction is one step here, the  *)
(* refresh that follows a save included.                                   *)
(*                                                                         *)
(* The game state is abstracted to what was added to it: the turns played  *)
(* and the case-board operations, each named after the request that made   *)
(* it.  Its round_number is the number of its turns.  What a tick adds (an *)
(* intent, a mood) no property tells apart; that it writes back the whole  *)
(* state it read is what matters.                                          *)
(*                                                                         *)
(* Nothing keeps a request within the time of its lock, or a tick from     *)
(* writing back a state that a turn has replaced.  Two history variables   *)
(* record that it happened; the properties that need the contrary say so.  *)
(***************************************************************************)
EXTENDS Integers, FiniteSets, Sequences, SequencesExt

CONSTANTS
    Requests,     \* HTTP requests for the session; each is used once
    NoRequest,
    Opening,      \* the assistant message start_game saved
    MaxRetries,   \* the limit of retry_action
    MaxTicks,     \* bound: the off-stage ticks that are scheduled
    Kinds         \* the kinds of requests that are sent

ASSUME ConstantsAssumption ==
    /\ NoRequest \notin Requests
    /\ Opening \notin Requests
    /\ MaxRetries \in Nat /\ MaxTicks \in Nat
    /\ Kinds \subseteq {"action", "retry", "resume", "withdraw", "exit", "pause", "abandon"}

VARIABLES
    row,        \* the game_sessions row
    messages,   \* the request of each message of the session, in order
    history,    \* case_board_history
    lock,       \* lock:session:<id>; its value is a constant, the request that set it is kept here
    kind, pc,   \* what each request does and how far it is
    mine,       \* the copy of the row each request works from
    text,       \* the action whose text a request plays (a retry replays another's)
    draft,      \* the case board a turn started from, and the round it was committed as
    tpc, tview, \* the tick a request scheduled, and the state it read
    outlived,   \* history: some request was still at work when its lock expired
    overtaken   \* history: some tick wrote over turns or case boards it had not read

lockVars    == <<lock, outlived>>
requestVars == <<kind, pc, mine, text, draft>>
tickVars    == <<tpc, tview, overtaken>>
vars == <<row, messages, history, lockVars, requestVars, tickVars>>

Contents == [turns : SUBSET Requests, boards : SUBSET Requests]

Row == [version : Nat, state : Contents, snapshot : Contents,
        last : Requests \cup {NoRequest}, retries : Nat,
        status : {"playing", "paused", "ended"}, rounds : Nat]

\* The kinds that do not take the lock.
LockFree == {"pause", "abandon"}

\* Where a request is between the acquisition and the release of the lock.
Critical == {"start", "begin", "restore", "resume", "think", "streamed", "committed",
             "done_event", "follow", "follow_save", "quit", "quit_save", "release"}

TypeOK ==
    /\ row \in Row
    /\ messages \in Seq(Requests \cup {Opening})
    /\ history \subseteq [turn : Requests, round : Nat]
    /\ lock \in Requests \cup {NoRequest}
    /\ kind \in [Requests -> Kinds \cup {"none"}]
    /\ pc \in [Requests -> Critical \cup {"idle", "change", "done"}]
    /\ mine \in [Requests -> Row]
    /\ text \in [Requests -> Requests \cup {NoRequest}]
    /\ draft \in [Requests -> [boards : SUBSET Requests, round : Nat]]
    /\ tpc \in [Requests -> {"none", "thinking", "read", "done"}]
    /\ tview \in [Requests -> Contents]
    /\ outlived \in BOOLEAN /\ overtaken \in BOOLEAN

Empty == [turns |-> {}, boards |-> {}]

NoDraft == [boards |-> {}, round |-> 0]

\* The row after the opening turn; turns and rounds are counted from there.
Opened == [version |-> 1, state |-> Empty, snapshot |-> Empty, last |-> NoRequest,
           retries |-> 0, status |-> "playing", rounds |-> 0]

Init ==
    /\ row = Opened
    /\ messages = <<Opening>>
    /\ history = {}
    /\ lock = NoRequest
    /\ kind = [r \in Requests |-> "none"]
    /\ pc = [r \in Requests |-> "idle"]
    /\ mine = [r \in Requests |-> Opened]
    /\ text = [r \in Requests |-> NoRequest]
    /\ draft = [r \in Requests |-> NoDraft]
    /\ tpc = [r \in Requests |-> "none"]
    /\ tview = [r \in Requests |-> Empty]
    /\ outlived = FALSE /\ overtaken = FALSE

-----------------------------------------------------------------------------
(* Building blocks.                                                        *)

Goto(r, place) == pc' = [pc EXCEPT ![r] = place]

Round(state) == Cardinality(state.turns)

\* The session lock is left alone and so is everything a tick owns.
SameLock == UNCHANGED <<lockVars, tickVars>>

\* The request is over, or has given up: its copy is read no more.
Forget(r) ==
    /\ mine' = [mine EXCEPT ![r] = Opened]
    /\ draft' = [draft EXCEPT ![r] = NoDraft]

\* db.commit() of attribute changes: the columns that differ from the copy are written.
Flushed(r, new) ==
    [column \in DOMAIN row |-> IF new[column] = mine[r][column] THEN row[column] ELSE new[column]]

Flush(r, new) ==
    /\ row' = Flushed(r, new)
    /\ mine' = [mine EXCEPT ![r] = new]

\* Mutant: the WHERE clause does not compare the version.
SaveUnchecked(r, new) ==
    /\ row' = [new EXCEPT !.version = row.version + 1]
    /\ mine' = [mine EXCEPT ![r] = row']

\* save_session_state, commit and refresh, when the version still is the copy's.
Save(r, new) ==
    /\ row.version = mine[r].version
    /\ row' = [new EXCEPT !.version = row.version + 1]
    /\ mine' = [mine EXCEPT ![r] = row']

-----------------------------------------------------------------------------
(* api/game.py: the lock around a request.                                 *)

\* SET NX succeeds.
Acquire(r, k) ==
    /\ pc[r] = "idle" /\ lock = NoRequest
    /\ k \notin LockFree
    /\ lock' = r
    /\ kind' = [kind EXCEPT ![r] = k]
    /\ Goto(r, "start")
    /\ UNCHANGED <<row, messages, history, outlived, mine, text, draft, tickVars>>

\* The lock is held: 429.
Refused(r) ==
    /\ pc[r] = "idle" /\ lock # NoRequest
    /\ Goto(r, "done")
    /\ UNCHANGED <<row, messages, history, kind, mine, text, draft>> /\ SameLock

\* finally: DEL, whoever holds the key by now.
Release(r) ==
    /\ pc[r] = "release"
    /\ lock' = NoRequest
    /\ Goto(r, "done") /\ Forget(r)
    /\ UNCHANGED <<row, messages, history, outlived, kind, text, tickVars>>

\* Mutant: SET without EX.
ExpireNever == FALSE /\ UNCHANGED vars

\* The key expires, whether or not the request that set it is through.
Expire ==
    /\ lock # NoRequest
    /\ lock' = NoRequest
    /\ outlived' = (outlived \/ pc[lock] \in Critical)
    /\ UNCHANGED <<row, messages, history, requestVars, tickVars>>

\* An exception, or the client went away: the generator unwinds to its finally.
Raise(r) ==
    /\ pc[r] \in Critical \ {"release"}
    /\ Goto(r, "release") /\ Forget(r)
    /\ UNCHANGED <<row, messages, history, kind, text>> /\ SameLock

\* The process dies, or the request fails before its generator ever runs: no finally.
Die(r) ==
    /\ pc[r] \in Critical
    /\ Goto(r, "done") /\ Forget(r)
    /\ UNCHANGED <<row, messages, history, kind, text>> /\ SameLock

-----------------------------------------------------------------------------
(* Loading the session and the checks before any work.                     *)

\* Mutant: one retry too many.
AdmittedOneMore(k, loaded) ==
    CASE k = "resume" -> loaded.status = "paused"
      [] k = "retry"  -> /\ loaded.status = "playing"
                         /\ loaded.last # NoRequest
                         /\ loaded.retries <= MaxRetries
      [] OTHER        -> loaded.status = "playing"

\* Who may proceed, on the freshly loaded row.
Admitted(k, loaded) ==
    CASE k = "resume" -> loaded.status = "paused"
      [] k = "retry"  -> /\ loaded.status = "playing"
                         /\ loaded.last # NoRequest
                         /\ loaded.retries < MaxRetries
      [] OTHER        -> loaded.status = "playing"

FirstStep(k) ==
    CASE k = "action" -> "begin"
      [] k = "retry"  -> "restore"
      [] k = "resume" -> "resume"
      [] OTHER        -> "quit"

Load(r) ==
    /\ pc[r] = "start"
    /\ mine' = [mine EXCEPT ![r] = row]
    /\ Goto(r, IF Admitted(kind[r], row) THEN FirstStep(kind[r]) ELSE "release")
    /\ UNCHANGED <<row, messages, history, kind, text, draft>> /\ SameLock

\* The session has reached its cost cap: cap_reached, done.
Capped(r) ==
    /\ \/ pc[r] = "begin"
       \/ pc[r] = "think" /\ kind[r] = "retry"
       \/ pc[r] = "quit" /\ kind[r] = "exit"
    /\ Goto(r, "release") /\ Forget(r)
    /\ UNCHANGED <<row, messages, history, kind, text>> /\ SameLock

\* Mutant: only the first action takes the snapshot.
BeginActionKeepsSnapshot(r) ==
    /\ pc[r] = "begin"
    /\ Flush(r, [mine[r] EXCEPT !.last = r, !.retries = 0])
    /\ text' = [text EXCEPT ![r] = r]
    /\ Goto(r, "think")
    /\ UNCHANGED <<messages, history, kind, draft>> /\ SameLock

\* An action remembers the state it starts from, for its retries.
BeginAction(r) ==
    /\ pc[r] = "begin"
    /\ Flush(r, [mine[r] EXCEPT !.snapshot = mine[r].state, !.last = r, !.retries = 0])
    /\ text' = [text EXCEPT ![r] = r]
    /\ Goto(r, "think")
    /\ UNCHANGED <<messages, history, kind, draft>> /\ SameLock

ButLast(n, seq) == SubSeq(seq, 1, Len(seq) - n)

\* Mutant: only the reply is deleted.
RestoreKeepsQuestion(r) ==
    /\ pc[r] = "restore"
    /\ Save(r, [row EXCEPT !.state = mine[r].snapshot, !.retries = mine[r].retries + 1])
    /\ messages' = IF messages = <<>> THEN <<>> ELSE ButLast(1, messages)
    /\ history' = {h \in history : h.round <= Round(mine[r].snapshot)}
    /\ text' = [text EXCEPT ![r] = row.last]
    /\ Goto(r, IF row.status = "playing" THEN "think" ELSE "release")
    /\ UNCHANGED <<kind, draft>> /\ SameLock

\* retry_action: back to the snapshot, without the last two messages and the
\* history rows of later rounds; then process_action checks the status again.
Restore(r) ==
    /\ pc[r] = "restore"
    /\ Save(r, [row EXCEPT !.state = mine[r].snapshot, !.retries = mine[r].retries + 1])
    /\ messages' = IF Len(messages) < 2 THEN <<>> ELSE ButLast(2, messages)
    /\ history' = {h \in history : h.round <= Round(mine[r].snapshot)}
    /\ text' = [text EXCEPT ![r] = row.last]
    /\ Goto(r, IF row.status = "playing" THEN "think" ELSE "release")
    /\ UNCHANGED <<kind, draft>> /\ SameLock

\* resume_game: playing again, then a recap turn.
ResumeGame(r) ==
    /\ pc[r] = "resume"
    /\ Flush(r, [mine[r] EXCEPT !.status = "playing"])
    /\ Goto(r, "think")
    /\ UNCHANGED <<messages, history, kind, text, draft>> /\ SameLock

-----------------------------------------------------------------------------
(* _consume_turn: the events of the orchestrator.                          *)

\* The narrator's prose reaches the client.
Narrate(r) ==
    /\ pc[r] = "think"
    /\ Goto(r, "streamed")
    /\ UNCHANGED <<row, messages, history, kind, mine, text, draft>> /\ SameLock

\* A recap turn does not count as a round.
RoundAfter(r) == mine[r].rounds + (IF kind[r] = "resume" THEN 0 ELSE 1)

\* state_ready: the state the turn made of the copy; its case-board operations
\* and their history rows are part of it when the director already has them.
CommitTurn(r) ==
    /\ pc[r] = "streamed"
    /\ \E operations \in SUBSET {r} :
         /\ Save(r, [row EXCEPT
                !.state = [mine[r].state EXCEPT !.turns = @ \cup {r}, !.boards = @ \cup operations],
                !.rounds = RoundAfter(r)])
         /\ history' = history \cup [turn : operations, round : {RoundAfter(r)}]
    /\ draft' = [draft EXCEPT ![r] = [boards |-> mine[r].state.boards, round |-> RoundAfter(r)]]
    /\ Goto(r, "committed")
    /\ UNCHANGED <<messages, kind, text>> /\ SameLock

\* The version has moved on: rollback, 409.
Stale(r) ==
    /\ pc[r] \in {"restore", "streamed", "follow_save", "quit_save"}
    /\ row.version # mine[r].version
    /\ Goto(r, "release") /\ Forget(r)
    /\ UNCHANGED <<row, messages, history, kind, text>> /\ SameLock

\* The turn may reach an ending, and may leave off-stage ticks running.
Aftermath(r) ==
    /\ pc[r] = "committed"
    /\ \/ Flush(r, [mine[r] EXCEPT !.status = "ended"])
       \/ UNCHANGED <<row, mine>>
    /\ \E tick \in {"none", "thinking"} :
         /\ tick = "thinking" => Cardinality({q \in Requests : tpc[q] # "none"}) < MaxTicks
         /\ tpc' = [tpc EXCEPT ![r] = tick]
    /\ Goto(r, "done_event")
    /\ UNCHANGED <<messages, history, lockVars, kind, text, draft, tview, overtaken>>

\* done: the messages; the case-board tail follows if the director still works on it.
Done(r) ==
    /\ pc[r] = "done_event"
    /\ messages' = messages \o IF kind[r] = "resume" THEN <<>> ELSE <<r, r>>
    /\ \/ Goto(r, "release")
       \/ r \notin mine[r].state.boards /\ Goto(r, "follow")
    /\ UNCHANGED <<row, history, kind, mine, text, draft>> /\ SameLock

\* _commit_case_board_followup: refresh ...
FollowRefresh(r) ==
    /\ pc[r] = "follow"
    /\ mine' = [mine EXCEPT ![r] = row]
    /\ Goto(r, "follow_save")
    /\ UNCHANGED <<row, messages, history, kind, text, draft>> /\ SameLock

\* Mutant: the operations are applied to an empty case board.
FollowCommitNewBoard(r) ==
    /\ pc[r] = "follow_save"
    /\ Save(r, [row EXCEPT !.state = [mine[r].state EXCEPT !.boards = {r}]])
    /\ history' = history \cup {[turn |-> r, round |-> draft[r].round]}
    /\ Goto(r, "release")
    /\ UNCHANGED <<messages, kind, text, draft>> /\ SameLock

\* ... and replace the case board by the one computed from the turn's own start.
FollowCommit(r) ==
    /\ pc[r] = "follow_save"
    /\ Save(r, [row EXCEPT !.state = [mine[r].state EXCEPT !.boards = draft[r].boards \cup {r}]])
    /\ history' = history \cup {[turn |-> r, round |-> draft[r].round]}
    /\ Goto(r, "release")
    /\ UNCHANGED <<messages, kind, text, draft>> /\ SameLock

\* withdraw and test exit: the session ends ...
Quit(r) ==
    /\ pc[r] = "quit"
    /\ Flush(r, [mine[r] EXCEPT !.status = "ended"])
    /\ Goto(r, "quit_save")
    /\ UNCHANGED <<messages, history, kind, text, draft>> /\ SameLock

\* ... before the unchanged state is saved; only the test exit leaves messages.
QuitSave(r) ==
    /\ pc[r] = "quit_save"
    /\ Save(r, [row EXCEPT !.state = mine[r].state])
    /\ messages' = messages \o IF kind[r] = "exit" THEN <<r, r>> ELSE <<>>
    /\ Goto(r, "release")
    /\ UNCHANGED <<history, kind, text, draft>> /\ SameLock

-----------------------------------------------------------------------------
(* pause and abandon: load, change the status, commit; no lock.            *)

Visit(r, k) ==
    /\ pc[r] = "idle"
    /\ k \in LockFree
    /\ kind' = [kind EXCEPT ![r] = k]
    /\ IF k = "abandon" /\ row.status = "ended"
       THEN Goto(r, "done") /\ UNCHANGED mine
       ELSE Goto(r, "change") /\ mine' = [mine EXCEPT ![r] = row]
    /\ UNCHANGED <<row, messages, history, text, draft>> /\ SameLock

\* Mutant: the status is the kind of the request.
ChangeStatusMisspelt(r) ==
    /\ pc[r] = "change"
    /\ row' = Flushed(r, [mine[r] EXCEPT !.status = kind[r]])
    /\ Goto(r, "done") /\ Forget(r)
    /\ UNCHANGED <<messages, history, kind, text>> /\ SameLock

ChangeStatus(r) ==
    /\ pc[r] = "change"
    /\ row' = Flushed(r, [mine[r] EXCEPT !.status = IF kind[r] = "pause" THEN "paused" ELSE "ended"])
    /\ Goto(r, "done") /\ Forget(r)
    /\ UNCHANGED <<messages, history, kind, text>> /\ SameLock

(* _run_offstage_ticks: after the model answers, read the row, then write the
   state back with an ORM flush, which neither checks nor moves the version. *)

TickRead(r) ==
    /\ tpc[r] = "thinking"
    /\ tview' = [tview EXCEPT ![r] = row.state]
    /\ tpc' = [tpc EXCEPT ![r] = "read"]
    /\ UNCHANGED <<row, messages, history, lockVars, requestVars, overtaken>>

TickWrite(r) ==
    /\ tpc[r] = "read"
    /\ row' = [row EXCEPT !.state = tview[r]]
    /\ overtaken' = (overtaken \/ tview[r] # row.state)
    /\ tpc' = [tpc EXCEPT ![r] = "done"]
    /\ tview' = [tview EXCEPT ![r] = Empty]
    /\ UNCHANGED <<messages, history, lockVars, requestVars>>

TickFail(r) ==
    /\ tpc[r] \in {"thinking", "read"}
    /\ tpc' = [tpc EXCEPT ![r] = "done"]
    /\ tview' = [tview EXCEPT ![r] = Empty]
    /\ UNCHANGED <<row, messages, history, lockVars, requestVars, overtaken>>

Handler(r) ==
    \/ Load(r) \/ Capped(r) \/ BeginAction(r) \/ Restore(r) \/ ResumeGame(r)
    \/ Narrate(r) \/ CommitTurn(r) \/ Stale(r) \/ Aftermath(r) \/ Done(r)
    \/ FollowRefresh(r) \/ FollowCommit(r) \/ Quit(r) \/ QuitSave(r)
    \/ Release(r) \/ Raise(r)

Next ==
    \/ \E r \in Requests, k \in Kinds : Acquire(r, k) \/ Visit(r, k)
    \/ \E r \in Requests :
         \/ Refused(r) \/ Handler(r) \/ Die(r) \/ ChangeStatus(r)
         \/ TickRead(r) \/ TickWrite(r) \/ TickFail(r)
    \/ Expire

Spec == Init /\ [][Next]_vars

\* A running coroutine goes on (every model call has a timeout), and a key
\* with an expiry expires.  Nothing forces a client to send a request.
Fairness == WF_vars(Expire) /\ \A r \in Requests : WF_vars(Handler(r))

FairSpec == Spec /\ Fairness

-----------------------------------------------------------------------------
(* Properties.                                                             *)

\* So far every request has kept to its lock, and no tick has written over a turn.
Undisturbed == ~outlived /\ ~overtaken

\* Nobody overwrites a turn that was committed, not even a request that has outlived
\* its lock and works beside another: only a retry takes turns back, and then to the
\* snapshot of the copy it checked.  A tick that overtakes a turn does overwrite it
\* (_run_offstage_ticks does not check the version), so the promise ends with the first.
NoLostTurn ==
    [][~overtaken' =>
         \/ row.state.turns \subseteq row'.state.turns
         \/ \E r \in Requests : pc[r] = "restore" /\ row'.state = mine[r].snapshot]_vars

\* A retry takes back the attempts at the last action and the recaps since, nothing older.
RollbackOnlyLast ==
    [][Undisturbed' =>
         \A t \in row.state.turns \ row'.state.turns : kind[t] = "resume" \/ text[t] = row.last]_vars

\* An action is replayed at most MaxRetries times (test_retry_action_respects_max_retry_limit).
RetryBound ==
    Undisturbed =>
        \A a \in Requests :
            Cardinality({r \in Requests : kind[r] = "retry" /\ text[r] = a}) <= MaxRetries

\* No message is left of a turn that was taken back, unless a test exit put its own
\* messages on top of it, or a request or a tick came too late.
NoOrphanMessages ==
    Undisturbed /\ (\A r \in Requests : kind[r] # "exit") =>
        ToSet(messages) \subseteq row.state.turns \cup {Opening}

\* The case board of a turn is not dropped from the state while its turn stays.
NoLostBoard ==
    [][Undisturbed' =>
         \A t \in row.state.boards : t \in row'.state.turns => t \in row'.state.boards]_vars

\* Whatever becomes of the request that holds it, the lock is freed.
LockFreed == lock # NoRequest ~> lock = NoRequest

=============================================================================
