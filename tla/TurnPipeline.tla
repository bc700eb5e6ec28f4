----------------------------- MODULE TurnPipeline -----------------------------
(***************************************************************************)
(* One turn inside the engine (Orchestrator._process_action_v2 of          *)
(* engine/orchestrator.py and DirectorAgent.run_v2 of                      *)
(* engine/director_agent.py).  Three coroutines share its local state: the *)
(* director, whose answer streams in and may be asked for again; the block *)
(* of the NPCs, which waits for the cast; and the main one, which tells    *)
(* the prose as soon as the direction is there, commits, and fetches the   *)
(* rest of the answer afterwards.                                          *)
(*                                                                         *)
(* An answer is the set of its fields: "cast" stands for the five fields   *)
(* the NPCs need, "direction" for scene_direction, "core" for              *)
(* player_action and all that precedes it, "board" for case_board_ops.     *)
(* What a field says is the number of the attempt it comes from.           *)
(***************************************************************************)
EXTENDS Naturals, Sequences

CONSTANTS
    MaxAttempts, \* answers the director is asked for: three
    InOrder      \* the model writes its fields in the order of the schema, and skips none

ASSUME PipelineAssumption == MaxAttempts \in Nat \ {0} /\ InOrder \in BOOLEAN

VARIABLES
    turn,   \* how the turn is played: in a script, with a separate board call, in JSON mode
    main,   \* where the main coroutine is
    dir,    \* the director: where it is, its attempt, the fields it has streamed, its answer
    ready,  \* the attempt the cast, the direction and the core were taken from; 0: not yet
    snap,   \* the fields of the core as they were taken
    queue,  \* progress_queue
    watch,  \* tasks the main coroutine waits for, or that had ended when it woke up
    npcs,   \* the block of the NPCs
    result, \* director_result: attempt, and fields
    book,   \* the commit: whether the board comes late, a compression is due, what the consumer
            \* has kept, whether a compression is scheduled
    out     \* the last event handed over; boards applied and bundles for the memory handed over

vars == <<turn, main, dir, ready, snap, queue, watch, npcs, result, book, out>>

Fields == {"cast", "direction", "core", "board"}
Failures == {"parse", "upstream", "crash"}
Tasks == {"director", "narrator"}
Over == {"ended", "raised", "gone"}
None == [from |-> 0, has |-> {}]

TypeOK ==
    /\ turn \in [script : BOOLEAN, twoPass : BOOLEAN, json : BOOLEAN, early : BOOLEAN]
    /\ main \in {"input", "launch", "first", "look", "wait", "shown", "flush", "npcs", "weave", "core",
                 "await", "book", "show", "close", "finish", "tail"} \cup Over
    /\ dir \in [is : {"idle", "running", "ok", "cancelled"} \cup Failures, try : 0..MaxAttempts,
                sent : SUBSET Fields, pay : SUBSET Fields]
    /\ ready \in [{"cast", "direction", "core"} -> 0..MaxAttempts]
    /\ snap \subseteq Fields
    /\ queue \in Seq({"npcs_entering", "writing"})
    /\ watch \subseteq Tasks
    /\ npcs \in {"none", "waiting", "running", "done", "cancelled"}
    /\ result \in [from : 0..MaxAttempts, has : SUBSET Fields]
    /\ book \in [late : BOOLEAN, due : BOOLEAN, kept : {"no", "plain", "stamped"}, scheduled : BOOLEAN]
    /\ out \in [last : {"none", "progress", "error", "narrative", "state_ready", "state_update",
                        "ending", "done", "case_board_update"},
                bundles : Nat, boards : Nat]

Init ==
    /\ turn \in [script : BOOLEAN, twoPass : BOOLEAN, json : BOOLEAN, early : BOOLEAN]
    /\ main = "input"
    /\ dir = [is |-> "idle", try |-> 0, sent |-> {}, pay |-> {}]
    /\ ready = [k \in {"cast", "direction", "core"} |-> 0]
    /\ snap = {}
    /\ queue = <<>>
    /\ watch = {}
    /\ npcs = "none"
    /\ result = None
    /\ book = [late |-> FALSE, due |-> FALSE, kept |-> "no", scheduled |-> FALSE]
    /\ out = [last |-> "none", bundles |-> 0, boards |-> 0]

Yield(e) == out' = [out EXCEPT !.last = e]

-----------------------------------------------------------------------------
(* The director.                                                           *)

Before(k) == CASE k = "cast" -> {} [] k = "direction" -> {"cast"}
               [] k = "core" -> {"cast", "direction"} [] OTHER -> Fields \ {"board"}

\* The board is asked for in scripts only, and not when it has a call of its own.
Asked == IF turn.script /\ ~turn.twoPass THEN Fields ELSE Fields \ {"board"}

\* What the model may send: in the order of the schema, a part of it comes from its front.
Sendable(ks) == ks \subseteq Asked /\ (InOrder => \A k \in ks : Before(k) \subseteq ks)

\* Mutant: the snapshot keeps the operations on the board.
SnapshotWhole(ks) == ks

\* The core is taken without the operations on the board, which may still be incomplete.
Snapshot(ks) == ks \ {"board"}

\* Another field is complete: _on_partial_director takes what nobody has taken before.
Stream(k) ==
    /\ dir.is = "running" /\ k \notin dir.sent
    /\ Sendable(dir.sent \cup {k})
    /\ dir' = [dir EXCEPT !.sent = @ \cup {k}]
    /\ ready' = [x \in DOMAIN ready |-> IF x = k /\ ready[x] = 0 THEN dir.try ELSE ready[x]]
    /\ snap' = IF k = "core" /\ ready["core"] = 0 THEN Snapshot(dir'.sent) ELSE snap
    /\ \/ k = "direction" /\ ready["direction"] = 0 /\ queue' = Append(queue, "writing")
       \/ k = "cast" /\ ready["cast"] = 0 /\ queue' = Append(queue, "npcs_entering")
       \/ (k = "direction" => ready["direction"] # 0) /\ UNCHANGED queue
    /\ UNCHANGED <<turn, main, watch, npcs, result, book, out>>

\* The stream ends with an answer that can be used: the one that was streamed, cut short or not,
\* or, from a provider that streams nothing that can be read, any answer.
Answer(ks) ==
    /\ dir.is = "running"
    /\ Sendable(ks) /\ (dir.sent # {} => ks = dir.sent)
    /\ dir' = [dir EXCEPT !.is = "ok", !.sent = {}, !.pay = ks]
    /\ UNCHANGED <<turn, main, ready, snap, queue, watch, npcs, result, book, out>>

\* Mutant: it is asked once more than it should.
AgainOneMore(failure) ==
    dir' = IF dir.try <= MaxAttempts THEN [dir EXCEPT !.try = @ + 1, !.sent = {}]
           ELSE [dir EXCEPT !.is = failure, !.sent = {}]

\* run_v2 asks again, and gives up after the last attempt.
Again(failure) ==
    dir' = IF dir.try < MaxAttempts THEN [dir EXCEPT !.try = @ + 1, !.sent = {}]
           ELSE [dir EXCEPT !.is = failure, !.sent = {}]

\* It ends with nothing that can be read: the director is asked again.
Garbled ==
    /\ dir.is = "running"
    /\ Again("parse")
    /\ UNCHANGED <<turn, main, ready, snap, queue, watch, npcs, result, book, out>>

\* The provider fails.  The forced tool call after an answer in JSON mode contains it.
ProviderFails ==
    /\ dir.is = "running"
    /\ IF turn.json /\ dir.try > 1 THEN Again("parse")
       ELSE dir' = [dir EXCEPT !.is = IF turn.json THEN "upstream" ELSE "crash", !.sent = {}]
    /\ UNCHANGED <<turn, main, ready, snap, queue, watch, npcs, result, book, out>>

-----------------------------------------------------------------------------
(* The block of the NPCs: memories, what they did meanwhile (which is      *)
(* written to game_state), and their actions, one call for each of them.   *)
(* Whatever fails is replaced by nothing or by a default action.           *)

NpcsStart ==
    /\ npcs = "waiting" /\ ready["cast"] # 0
    /\ npcs' = "running"
    /\ UNCHANGED <<turn, main, dir, ready, snap, queue, watch, result, book, out>>

NpcsEnd ==
    /\ npcs = "running"
    /\ npcs' = "done"
    /\ UNCHANGED <<turn, main, dir, ready, snap, queue, watch, result, book, out>>

-----------------------------------------------------------------------------
(* The main coroutine up to the prose.                                     *)

\* The moderation of the input rejects it.
Reject ==
    /\ main = "input"
    /\ main' = "ended" /\ Yield("error")
    /\ UNCHANGED <<turn, dir, ready, snap, queue, watch, npcs, result, book>>

Receive ==
    /\ main = "input"
    /\ main' = "launch" /\ Yield("progress")
    /\ UNCHANGED <<turn, dir, ready, snap, queue, watch, npcs, result, book>>

Launch ==
    /\ main = "launch"
    /\ main' = "first" /\ Yield("progress")
    /\ npcs' = "waiting"
    /\ dir' = [dir EXCEPT !.is = "running", !.try = 1]
    /\ UNCHANGED <<turn, ready, snap, queue, watch, result, book>>

Ended(task) == IF task = "director" THEN dir.is # "running" ELSE ready["direction"] # 0

\* The head of the loop: it waits for what has not ended yet, and for the queue.  The waiter for
\* the narrator is created when the loop begins and has not run then.
Look ==
    /\ main \in {"first", "look"}
    /\ main' = "wait"
    /\ watch' = {t \in Tasks : ~Ended(t) \/ (main = "first" /\ t = "narrator")}
    /\ UNCHANGED <<turn, dir, ready, snap, queue, npcs, result, book, out>>

\* The director has failed and nothing was told: the block of the NPCs is cancelled.
GiveUp ==
    IF dir.is = "crash"
    THEN main' = "raised" /\ UNCHANGED <<npcs, out>>
    ELSE /\ main' = "ended" /\ Yield("error")
         /\ npcs' = IF npcs = "done" THEN npcs ELSE "cancelled"

\* What had ended when the loop woke up decides whether it goes round again.
Settle(ended) ==
    /\ watch' = {}
    /\ \/ /\ "director" \in ended /\ dir.is = "ok"
          /\ result' = [from |-> dir.try, has |-> dir.pay]
          /\ main' = "flush" /\ UNCHANGED <<npcs, out>>
       \/ /\ "director" \in ended /\ dir.is \in Failures
          /\ GiveUp /\ UNCHANGED result
       \/ /\ "director" \notin ended
          /\ main' = IF "narrator" \in ended THEN "flush" ELSE "look"
          /\ UNCHANGED <<npcs, result, out>>

\* Progress is there: it is handed over, and the consumer may take its time.
WakeForProgress ==
    /\ main = "wait" /\ queue # <<>>
    /\ Yield("progress") /\ queue' = Tail(queue)
    /\ watch' = {t \in watch : Ended(t)}
    /\ main' = "shown"
    /\ UNCHANGED <<turn, dir, ready, snap, npcs, result, book>>

Resume ==
    /\ main = "shown"
    /\ Settle(watch)
    /\ UNCHANGED <<turn, dir, ready, snap, queue, book>>

WakeForTask ==
    /\ main = "wait"
    /\ \E t \in watch : Ended(t)
    /\ Settle({t \in watch : Ended(t)})
    /\ UNCHANGED <<turn, dir, ready, snap, queue, book>>

Flush ==
    /\ main = "flush" /\ queue # <<>>
    /\ Yield("progress") /\ queue' = Tail(queue)
    /\ UNCHANGED <<turn, main, dir, ready, snap, watch, npcs, result, book>>

\* What was not streamed is taken from the answer, if that is the reason to go on.
Light ==
    /\ main = "flush" /\ queue = <<>>
    /\ main' = "npcs"
    /\ ready' = IF result = None THEN ready
                ELSE [x \in DOMAIN ready |-> IF x # "core" /\ ready[x] = 0 THEN result.from ELSE ready[x]]
    /\ UNCHANGED <<turn, dir, snap, queue, watch, npcs, result, book, out>>

\* Mutant: the prose does not wait for the NPCs.
AnyNpcs == TRUE

NpcsSettled == npcs = "done"

Weave ==
    /\ main = "npcs" /\ NpcsSettled
    /\ main' = "weave"
    /\ UNCHANGED <<turn, dir, ready, snap, queue, watch, npcs, result, book, out>>

Tell ==
    /\ main = "weave"
    /\ Yield("narrative")
    /\ UNCHANGED <<turn, main, dir, ready, snap, queue, watch, npcs, result, book>>

NarratorFails ==
    /\ main = "weave"
    /\ main' = "raised"
    /\ UNCHANGED <<turn, dir, ready, snap, queue, watch, npcs, result, book, out>>

NarratorEnds ==
    /\ main = "weave"
    /\ main' = "core"
    /\ UNCHANGED <<turn, dir, ready, snap, queue, watch, npcs, result, book, out>>

-----------------------------------------------------------------------------
(* The core of the answer, the commit and the events that follow it.       *)
\* Mutant: a director that fails after the prose is an error as well.
FailLate == main' = "ended" /\ Yield("error") /\ UNCHANGED result

\* A director that fails after the prose leaves an empty answer.
CloseEmpty == main' = "book" /\ UNCHANGED <<result, out>>

\* The answer the turn is closed with: the whole one, or the core as it was taken while the rest
\* of it is still being written, or else the one that is waited for.
Core ==
    /\ main = "core"
    /\ book' = [book EXCEPT !.late =
          turn.script /\ (turn.twoPass \/ (result = None /\ ready["core"] # 0))]
    /\ IF result # None THEN main' = "book" /\ UNCHANGED result
       ELSE IF ready["core"] # 0
       THEN main' = "book" /\ result' = [from |-> ready["core"], has |-> snap]
       ELSE main' = "await" /\ UNCHANGED result
    /\ UNCHANGED <<turn, dir, ready, snap, queue, watch, npcs, out>>

\* Once it waits for the whole answer it goes on waiting, also if the core arrives.
AwaitDirector ==
    /\ main = "await"
    /\ \/ /\ dir.is = "ok"
          /\ result' = [from |-> dir.try, has |-> dir.pay]
          /\ main' = "book" /\ UNCHANGED out
       \/ dir.is \in {"parse", "upstream"} /\ CloseEmpty
       \/ dir.is = "crash" /\ main' = "raised" /\ UNCHANGED <<result, out>>
    /\ UNCHANGED <<turn, dir, ready, snap, queue, watch, npcs, book>>

\* The operations on the board are applied, unless one of them names an unknown clue.
Applied(ks) == IF "board" \in ks THEN {0, 1} ELSE {0}

\* Mutant: the round of the compression is stamped after the state was handed over.
StampLate(due) == "plain"

\* The state as the consumer keeps it, with the round of the compression stamped in it.
Stamp(due) == IF due THEN "stamped" ELSE "plain"

\* The answer is applied to a copy of game_state, and the copy is handed over.
Book ==
    /\ main = "book"
    /\ main' = "show"
    /\ \E due \in BOOLEAN, n \in Applied(IF turn.script THEN result.has ELSE {}) :
          /\ book' = [book EXCEPT !.due = due, !.kept = IF turn.early THEN Stamp(due) ELSE @]
          /\ out' = [out EXCEPT !.last = IF turn.early THEN "state_ready" ELSE @, !.boards = @ + n]
    /\ UNCHANGED <<turn, dir, ready, snap, queue, watch, npcs, result>>

Show ==
    /\ main = "show"
    /\ main' = "close" /\ Yield("state_update")
    /\ UNCHANGED <<turn, dir, ready, snap, queue, watch, npcs, result, book>>

EndStory ==
    /\ main = "close"
    /\ main' = "finish" /\ Yield("ending")
    /\ UNCHANGED <<turn, dir, ready, snap, queue, watch, npcs, result, book>>

\* Mutant: the bundle for the memory always goes with done.
BundleNow == 1

\* The bundle for the memory waits for the board.
Bundle == IF book.late THEN 0 ELSE 1

Finish ==
    /\ main \in {"close", "finish"}
    /\ main' = IF book.late THEN "tail" ELSE "ended"
    /\ out' = [out EXCEPT !.last = "done", !.bundles = @ + Bundle]
    /\ book' = [book EXCEPT !.scheduled = book.due,
                            !.kept = IF turn.early THEN @ ELSE Stamp(book.due)]
    /\ UNCHANGED <<turn, dir, ready, snap, queue, watch, npcs, result>>

\* The late board: from a call of its own, which answers with nothing when it fails, or from the
\* rest of the answer.
Late ==
    /\ main = "tail"
    /\ turn.twoPass \/ dir.is = "ok"
    /\ main' = "ended"
    /\ \E n \in Applied(IF turn.twoPass THEN {"board"} ELSE dir.pay) :
          out' = [out EXCEPT !.last = "case_board_update", !.bundles = @ + 1, !.boards = @ + n]
    /\ UNCHANGED <<turn, dir, ready, snap, queue, watch, npcs, result, book>>

\* The director has failed since: neither the board nor the bundle is handed over.
LateLost ==
    /\ main = "tail"
    /\ ~turn.twoPass /\ dir.is \in Failures
    /\ main' = "ended"
    /\ UNCHANGED <<turn, dir, ready, snap, queue, watch, npcs, result, book, out>>

AwaitsDirector == main = "await" \/ (main = "tail" /\ ~turn.twoPass)

\* The consumer goes away: the task that is awaited is cancelled, the others run on.
Abandon ==
    /\ main \notin Over \cup {"input"}
    /\ main' = "gone"
    /\ npcs' = IF main = "npcs" /\ npcs # "done" THEN "cancelled" ELSE npcs
    /\ dir' = IF AwaitsDirector /\ dir.is = "running" THEN [dir EXCEPT !.is = "cancelled"] ELSE dir
    /\ UNCHANGED <<turn, ready, snap, queue, watch, result, book, out>>

\* The two waits nothing ends: for the queue alone, and for a cast that will not come.
Hangs ==
    \/ main = "wait" /\ watch = {} /\ queue = <<>> /\ dir.is # "running"
    \/ main = "npcs" /\ npcs = "waiting" /\ ready["cast"] = 0 /\ dir.is # "running"

Stopped == (main \in Over \/ Hangs) /\ UNCHANGED vars

Next ==
    \/ \E k \in Fields : Stream(k)
    \/ \E ks \in SUBSET Fields : Answer(ks)
    \/ Garbled \/ ProviderFails \/ NpcsStart \/ NpcsEnd
    \/ Reject \/ Receive \/ Launch \/ Look \/ WakeForProgress \/ Resume \/ WakeForTask
    \/ Flush \/ Light \/ Weave \/ Tell \/ NarratorFails \/ NarratorEnds
    \/ Core \/ AwaitDirector \/ Book \/ Show \/ EndStory \/ Finish \/ Late \/ LateLost
    \/ Abandon \/ Stopped

Spec == Init /\ [][Next]_vars

-----------------------------------------------------------------------------
(* Properties.                                                             *)

\* Once prose was told, the engine never hands over an error: the director's late failure closes
\* the turn instead (orchestrator.py: "rather than error after showing text").  The consumer's
\* contract as a whole: events come in the order TurnStream allows.
Stream_ == INSTANCE TurnStream WITH last <- out.last
OrderOfEvents == Stream_!Spec

\* The operations of one turn on the case board are applied at most once, whether they come with
\* the answer or late, and the memory is given at most one bundle.
BoardOnce == out.boards <= 1
BundleOnce == out.bundles <= 1

\* The NPCs, which write to game_state while they run, have ended when the main coroutine takes
\* its copy of it: nothing they did is lost, nothing they do comes after the commit.
CopiedAfterNpcs == main \in {"book", "show", "close", "finish", "tail", "ended"} /\ out.last # "error"
    => npcs = "done"

\* A compression that is scheduled is stamped in the state that is kept, so that it is not
\* scheduled again in every round that follows (_claim_compression).
CompressionKept == book.scheduled => book.kept = "stamped"

\* The wait for the prose also ends when the director does ("wait until the narrator can start
\* OR the director fully finishes - whichever comes first", orchestrator.py).
DirectorIsHeard == main = "wait" /\ dir.is # "running" => "director" \in watch

\* A director that has answered lights the block of the NPCs, also when its fields came in an order
\* that did not (the fallback of orchestrator.py for "fields in an unfavourable order").
CastIsLit == main = "npcs" /\ dir.is = "ok" => ready["cast"] # 0

=============================================================================
