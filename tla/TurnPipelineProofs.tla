-------------------------- MODULE TurnPipelineProofs --------------------------
(***************************************************************************)
(* What a turn of the engine guarantees for any number of attempts and any *)
(* order of fields: it hands its events over in the order TurnStream       *)
(* allows (the refinement), the memory is given one bundle, the copy that  *)
(* is committed is taken after the NPCs have ended, and a compression that *)
(* is scheduled is in the state that is kept.  All four rest on where the  *)
(* main coroutine is when it does what.  At the end, what a turn contains  *)
(* and what it leaves to others: the rounds of an NPC with its model       *)
(* (NpcActing), the cursor of the reflections (Reflection), the window of  *)
(* messages (Compaction), the director's answers (DirectorAnswer) and what *)
(* NPCs remember when they are asked about together (Recall).              *)
(***************************************************************************)
EXTENDS TurnPipeline, Integers, WellFoundedInduction, SequenceTheorems, FiniteSetTheorems, TLAPS

\* What was handed over last, by the place of the main coroutine.
Placed ==
    /\ main = "input" => out.last = "none"
    /\ main \in {"launch", "first", "look", "wait", "shown", "flush", "npcs"} => out.last = "progress"
    /\ main \in {"weave", "core", "await", "book"} => out.last \in {"progress", "narrative"}
    /\ main = "show" => out.last \in {"progress", "narrative", "state_ready"}
    /\ main = "close" => out.last = "state_update"
    /\ main = "finish" => out.last = "ending"
    /\ main = "tail" => out.last = "done"

\* No bundle is handed over before the turn is closed, nor then if the board is late.
Unbundled == main \notin Over => out.bundles = 0

\* From the prose on the NPCs have ended.
AfterNpcs ==
    /\ main \in {"weave", "core", "await", "book", "show", "close", "finish", "tail"} => npcs = "done"
    /\ main = "ended" /\ out.last # "error" => npcs = "done"

\* An engine that hands the state over early hands it over with its stamp.
Stamped ==
    /\ main \in {"show", "close", "finish"} /\ turn.early => book.kept = Stamp(book.due)
    /\ book.scheduled => book.kept = "stamped"
    /\ main \notin {"tail", "ended", "gone"} => ~book.scheduled

IInv == TypeOK /\ Placed /\ Unbundled /\ BundleOnce /\ AfterNpcs /\ Stamped

-----------------------------------------------------------------------------
(* The type invariant.                                                     *)

Events == {"none", "progress", "error", "narrative", "state_ready", "state_update",
           "ending", "done", "case_board_update"}
Directors == [is : {"idle", "running", "ok", "cancelled"} \cup Failures, try : 0..MaxAttempts,
              sent : SUBSET Fields, pay : SUBSET Fields]
Outs == [last : Events, bundles : Nat, boards : Nat]
Books == [late : BOOLEAN, due : BOOLEAN, kept : {"no", "plain", "stamped"}, scheduled : BOOLEAN]

\* The initial states of a turn are well typed.
LEMMA TypeOKInit == Init => TypeOK
BY PipelineAssumption DEF Init, TypeOK, None, Fields, Tasks, Over, Failures

\* The steps of the director keep the type.
LEMMA TypeOKDirector ==
    ASSUME TypeOK,
           (\E k \in Fields : Stream(k)) \/ (\E ks \in SUBSET Fields : Answer(ks)) \/ Garbled \/ ProviderFails
    PROVE  TypeOK'
<1>1. dir.try \in 0..MaxAttempts /\ MaxAttempts \in Nat
  BY PipelineAssumption DEF TypeOK
<1>2. ASSUME NEW k \in Fields, Stream(k) PROVE TypeOK'
  <2>1. dir' \in Directors
    BY <1>2 DEF Stream, TypeOK, Directors
  <2>2. ready' \in [{"cast", "direction", "core"} -> 0..MaxAttempts]
    BY <1>1, <1>2 DEF Stream, TypeOK
  <2>3. snap' \subseteq Fields
    <3>1. dir'.sent \subseteq Fields
      BY <2>1 DEF Directors
    <3>2. snap' = snap \/ snap' = dir'.sent \ {"board"}
      BY <1>2 DEF Stream, Snapshot
    <3> QED
      BY <3>1, <3>2 DEF TypeOK
  <2>4. queue' \in Seq({"npcs_entering", "writing"})
    <3>1. queue' \in {queue, Append(queue, "writing"), Append(queue, "npcs_entering")}
      BY <1>2 DEF Stream
    <3>2. queue \in Seq({"npcs_entering", "writing"})
      BY DEF TypeOK
    <3> QED
      BY <3>1, <3>2
  <2>5. UNCHANGED <<turn, main, watch, npcs, result, book, out>>
    BY <1>2 DEF Stream
  <2> QED
    BY <2>1, <2>2, <2>3, <2>4, <2>5 DEF TypeOK, Directors
<1>3. ASSUME NEW ks \in SUBSET Fields, Answer(ks) PROVE TypeOK'
  <2>1. dir' \in Directors
    BY <1>3 DEF Answer, TypeOK, Directors
  <2> QED
    <3>1. UNCHANGED <<turn, main, ready, snap, queue, watch, npcs, result, book, out>>
      BY <1>3 DEF Answer
    <3> QED
      BY <2>1, <3>1 DEF TypeOK, Directors
<1>4. ASSUME NEW f \in Failures, Again(f)
      PROVE  dir' \in Directors
  <2>1. CASE dir.try < MaxAttempts
    <3>1. dir.try + 1 \in 0..MaxAttempts
      BY <1>1, <2>1
    <3>2. dir' = [dir EXCEPT !.try = dir.try + 1, !.sent = {}]
      BY <1>4, <2>1 DEF Again
    <3> QED
      BY <3>1, <3>2 DEF TypeOK, Directors
  <2>2. CASE ~(dir.try < MaxAttempts)
    BY <1>4, <2>2 DEF Again, TypeOK, Directors
  <2> QED
    BY <2>1, <2>2
<1>5. CASE Garbled
  BY <1>4, <1>5 DEF Garbled, TypeOK, Failures, Directors
<1>6. CASE ProviderFails
  <2>1. dir' \in Directors
    <3>1. CASE turn.json /\ dir.try > 1
      BY <1>4, <1>6, <3>1 DEF ProviderFails, Failures
    <3>2. CASE ~(turn.json /\ dir.try > 1)
      BY <1>6, <3>2 DEF ProviderFails, TypeOK, Failures, Directors
    <3> QED
      BY <3>1, <3>2
  <2> QED
    BY <1>6, <2>1 DEF ProviderFails, TypeOK, Directors
<1> QED
  BY <1>2, <1>3, <1>5, <1>6

\* So do those of the main coroutine and of the NPCs up to the prose.
LEMMA TypeOKProse ==
    ASSUME TypeOK,
           \/ NpcsStart \/ NpcsEnd \/ Reject \/ Receive \/ Launch \/ Look \/ WakeForProgress \/ Resume
           \/ WakeForTask \/ Flush \/ Light \/ Weave \/ Tell \/ NarratorFails \/ NarratorEnds
    PROVE  TypeOK'
<1>1. CASE NpcsStart \/ NpcsEnd
  BY <1>1 DEF NpcsStart, NpcsEnd, TypeOK
<1>2. CASE Reject \/ Receive \/ Tell
  BY <1>2 DEF Reject, Receive, Tell, Yield, TypeOK, Over
<1>3. CASE Weave \/ NarratorFails \/ NarratorEnds
  BY <1>3 DEF Weave, NarratorFails, NarratorEnds, TypeOK, Over
<1>4. CASE Launch
  <2>1. dir' \in Directors
    <3>1. 1 \in 0..MaxAttempts
      BY PipelineAssumption
    <3>2. dir \in Directors /\ dir' = [dir EXCEPT !.is = "running", !.try = 1]
      BY <1>4 DEF Launch, TypeOK, Directors
    <3> QED
      BY <3>1, <3>2 DEF Directors
  <2>2. out' \in Outs
    BY <1>4 DEF Launch, Yield, TypeOK, Outs, Events
  <2>3. main' = "first" /\ npcs' = "waiting" /\ UNCHANGED <<turn, ready, snap, queue, watch, result, book>>
    BY <1>4 DEF Launch
  <2> QED
    BY <2>1, <2>2, <2>3 DEF TypeOK, Directors, Outs, Events
<1>5. CASE Look
  BY <1>5 DEF Look, TypeOK
<1>6. CASE WakeForProgress \/ Flush
  <2>1. queue # << >> /\ queue' = Tail(queue) /\ Yield("progress")
    BY <1>6 DEF WakeForProgress, Flush
  <2>2. queue' \in Seq({"npcs_entering", "writing"})
    BY <2>1 DEF TypeOK
  <2>3. out' \in Outs
    BY <2>1 DEF Yield, TypeOK, Outs, Events
  <2>4. /\ main' \in {main, "shown"} /\ watch' \subseteq watch
        /\ UNCHANGED <<turn, dir, ready, snap, npcs, result, book>>
    BY <1>6 DEF WakeForProgress, Flush
  <2> QED
    BY <2>2, <2>3, <2>4 DEF TypeOK, Outs, Events
<1>7. CASE Light
  <2>1. result = None \/ result.from \in 0..MaxAttempts
    BY DEF TypeOK
  <2>2. ready' \in [{"cast", "direction", "core"} -> 0..MaxAttempts]
    BY <1>7, <2>1 DEF Light, TypeOK
  <2> QED
    BY <1>7, <2>2 DEF Light, TypeOK
<1>8. ASSUME NEW ended, Settle(ended)
      PROVE  /\ watch' = {} /\ main' \in {"flush", "look", "raised", "ended"}
             /\ npcs' \in {npcs, "cancelled"}
             /\ result' \in [from : 0..MaxAttempts, has : SUBSET Fields]
             /\ out' = out \/ out' = [out EXCEPT !.last = "error"]
  BY <1>8 DEF Settle, GiveUp, Yield, TypeOK
<1>9. CASE Resume \/ WakeForTask
  <2>1. /\ UNCHANGED <<turn, dir, ready, snap, queue, book>>
        /\ watch' = {} /\ main' \in {"flush", "look", "raised", "ended"}
        /\ npcs' \in {npcs, "cancelled"}
        /\ result' \in [from : 0..MaxAttempts, has : SUBSET Fields]
        /\ out' = out \/ out' = [out EXCEPT !.last = "error"]
    BY <1>8, <1>9 DEF Resume, WakeForTask
  <2> QED
    BY <2>1 DEF TypeOK, Over
<1> QED
  BY <1>1, <1>2, <1>3, <1>4, <1>5, <1>6, <1>7, <1>9

\* And those that close the turn.
LEMMA TypeOKClose ==
    ASSUME TypeOK, Core \/ AwaitDirector \/ Book \/ Show \/ EndStory \/ Finish \/ Late \/ LateLost \/ Abandon \/ Stopped
    PROVE  TypeOK'
<1>1. CASE Core
  <2>1. book' \in [late : BOOLEAN, due : BOOLEAN, kept : {"no", "plain", "stamped"}, scheduled : BOOLEAN]
    BY <1>1 DEF Core, TypeOK
  <2>2. main' \in {"book", "await"} /\ result' \in [from : 0..MaxAttempts, has : SUBSET Fields] /\ out' = out
    BY <1>1 DEF Core, TypeOK
  <2> QED
    BY <1>1, <2>1, <2>2 DEF Core, TypeOK, Over
<1>8. CASE AwaitDirector
  <2>1. main' \in {"book", "raised"} /\ result' \in [from : 0..MaxAttempts, has : SUBSET Fields] /\ out' = out
    BY <1>8 DEF AwaitDirector, CloseEmpty, TypeOK
  <2> QED
    BY <1>8, <2>1 DEF AwaitDirector, TypeOK, Over
<1>2. CASE Book
  <2>1. PICK due \in BOOLEAN, n \in Applied(IF turn.script THEN result.has ELSE {}) :
          /\ book' = [book EXCEPT !.due = due, !.kept = IF turn.early THEN Stamp(due) ELSE @]
          /\ out' = [out EXCEPT !.last = IF turn.early THEN "state_ready" ELSE @, !.boards = @ + n]
    BY <1>2 DEF Book
  <2>2. n \in {0, 1}
    BY <2>1 DEF Applied
  <2> QED
    <3>1. out' \in Outs
      <4>1. out \in Outs
        BY DEF TypeOK, Outs, Events
      <4>2. out.boards + n \in Nat
        BY <2>2, <4>1 DEF Outs
      <4>3. out' \in {[out EXCEPT !.last = "state_ready", !.boards = out.boards + n], [out EXCEPT !.boards = out.boards + n]}
        BY <2>1, <4>1 DEF Outs
      <4> QED
        BY <4>1, <4>2, <4>3 DEF Outs, Events
    <3>2. book' \in Books
      BY <2>1 DEF TypeOK, Books, Stamp
    <3>3. main' = "show" /\ UNCHANGED <<turn, dir, ready, snap, queue, watch, npcs, result>>
      BY <1>2 DEF Book
    <3> QED
      BY <3>1, <3>2, <3>3 DEF TypeOK, Outs, Events, Books
<1>3. CASE Show \/ EndStory
  BY <1>3 DEF Show, EndStory, Yield, TypeOK
<1>4. CASE Finish
  <2>1. Bundle \in {0, 1}
    BY DEF Bundle
  <2>2. out' \in Outs
    <3>1. out \in Outs
      BY DEF TypeOK, Outs, Events
    <3>2. out.bundles + Bundle \in Nat
      BY <2>1, <3>1 DEF Outs
    <3>3. out' = [out EXCEPT !.last = "done", !.bundles = out.bundles + Bundle]
      BY <1>4 DEF Finish
    <3> QED
      BY <3>1, <3>2, <3>3 DEF Outs, Events
  <2>3. book' \in Books
    BY <1>4 DEF Finish, Stamp, TypeOK, Books
  <2>4. main' \in {"tail", "ended"} /\ UNCHANGED <<turn, dir, ready, snap, queue, watch, npcs, result>>
    BY <1>4 DEF Finish
  <2> QED
    BY <2>2, <2>3, <2>4 DEF TypeOK, Outs, Events, Books, Over
<1>5. CASE Late
  <2>1. PICK n \in Applied(IF turn.twoPass THEN {"board"} ELSE dir.pay) :
          out' = [out EXCEPT !.last = "case_board_update", !.bundles = @ + 1, !.boards = @ + n]
    BY <1>5 DEF Late
  <2>2. n \in {0, 1}
    BY <2>1 DEF Applied
  <2> QED
    <3>1. out' \in Outs
      <4>1. out \in Outs
        BY DEF TypeOK, Outs, Events
      <4>2. out.boards + n \in Nat /\ out.bundles + 1 \in Nat
        BY <2>2, <4>1 DEF Outs
      <4> QED
        BY <2>1, <4>1, <4>2 DEF Outs, Events
    <3>2. main' = "ended" /\ UNCHANGED <<turn, dir, ready, snap, queue, watch, npcs, result, book>>
      BY <1>5 DEF Late
    <3> QED
      BY <3>1, <3>2 DEF TypeOK, Outs, Events, Over
<1>6. CASE LateLost \/ Stopped
  BY <1>6 DEF LateLost, Stopped, vars, TypeOK, Over
<1>7. CASE Abandon
  BY <1>7 DEF Abandon, TypeOK, Over
<1> QED
  BY <1>1, <1>2, <1>3, <1>4, <1>5, <1>6, <1>7, <1>8

\* Type invariant of a turn, for any number of attempts (_process_action_v2).
THEOREM TypeCorrect == Spec => []TypeOK
<1>1. TypeOK /\ [Next]_vars => TypeOK'
  <2> SUFFICES ASSUME TypeOK, [Next]_vars PROVE TypeOK'
    OBVIOUS
  <2>1. CASE UNCHANGED vars
    BY <2>1 DEF vars, TypeOK
  <2>2. CASE Next
    BY <2>2, TypeOKDirector, TypeOKProse, TypeOKClose DEF Next
  <2> QED
    BY <2>1, <2>2
<1> QED
  BY <1>1, TypeOKInit, PTL DEF Spec

-----------------------------------------------------------------------------
(* The inductive invariant, with what each step hands over.                *)

\* What the proof of a step shows: the rest of the invariant, and that the step is one of
\* TurnStream.
Goal == /\ Placed' /\ Unbundled' /\ BundleOnce' /\ AfterNpcs' /\ Stamped'
        /\ Stream_!Next \/ UNCHANGED out.last

\* The turn begins with nothing handed over.
LEMMA IInvInit == Init => IInv /\ Stream_!Init
<1> SUFFICES ASSUME Init PROVE IInv /\ Stream_!Init
  OBVIOUS
<1>1. TypeOK
  BY TypeOKInit
<1> QED
  BY <1>1 DEF Init, IInv, Placed, Unbundled, BundleOnce, AfterNpcs, Stamped, Over, Stream_!Init

\* Neither the director nor the NPCs hand anything over, and the NPCs do not begin again.
LEMMA OthersStep ==
    ASSUME IInv,
           \/ \E k \in Fields : Stream(k)
           \/ \E ks \in SUBSET Fields : Answer(ks)
           \/ Garbled \/ ProviderFails \/ NpcsStart \/ NpcsEnd
    PROVE  Goal
<1>1. UNCHANGED <<turn, main, book, out>> /\ (npcs = "done" => npcs' = "done")
  BY DEF Stream, Answer, Garbled, ProviderFails, NpcsStart, NpcsEnd
<1> QED
  BY <1>1 DEF IInv, Goal, Placed, Unbundled, BundleOnce, AfterNpcs, Stamped

\* Up to the prose only progress is handed over, or an error that ends the turn.
LEMMA ProseStep ==
    ASSUME IInv, out \in Outs,
           \/ Reject \/ Receive \/ Launch \/ Look \/ WakeForProgress \/ Resume
           \/ WakeForTask \/ Flush \/ Light
    PROVE  Goal
<1>1. CASE Reject
  BY <1>1 DEF Reject, Yield, IInv, Goal, Placed, Unbundled, BundleOnce, AfterNpcs, Stamped, Over, Outs,
     Stream_!Next, Stream_!Refuse
<1>2. CASE Receive \/ Launch \/ WakeForProgress \/ Flush
  <2>1. /\ main \in {"input", "launch", "wait", "flush"}
        /\ main' \in {"launch", "first", "shown", "flush"}
        /\ out' = [out EXCEPT !.last = "progress"] /\ UNCHANGED <<turn, book>>
    BY <1>2 DEF Receive, Launch, WakeForProgress, Flush, Yield
  <2>2. out'.last = "progress" /\ out'.bundles = out.bundles
    BY <2>1 DEF Outs
  <2> QED
    BY <2>1, <2>2 DEF IInv, Goal, Placed, Unbundled, BundleOnce, AfterNpcs, Stamped, Over,
       Stream_!Next, Stream_!Think
<1>3. CASE Look \/ Light
  <2>1. /\ main \in {"first", "look", "flush"} /\ main' \in {"wait", "npcs"}
        /\ UNCHANGED <<turn, book, out>>
    BY <1>3 DEF Look, Light
  <2> QED
    BY <2>1 DEF IInv, Goal, Placed, Unbundled, BundleOnce, AfterNpcs, Stamped, Over
<1>4. CASE Resume \/ WakeForTask
  <2>1. /\ main \in {"shown", "wait"} /\ UNCHANGED <<turn, book>>
        /\ \/ main' \in {"flush", "look", "raised"} /\ out' = out
           \/ main' = "ended" /\ out' = [out EXCEPT !.last = "error"]
    BY <1>4 DEF Resume, WakeForTask, Settle, GiveUp, Yield
  <2>2. CASE out' = out /\ main' # "ended"
    BY <2>1, <2>2 DEF IInv, Goal, Placed, Unbundled, BundleOnce, AfterNpcs, Stamped, Over
  <2>3. CASE main' = "ended"
    <3>1. out'.last = "error" /\ out'.bundles = out.bundles
      BY <2>1, <2>3 DEF Outs
    <3> QED
      BY <2>1, <2>3, <3>1 DEF IInv, Goal, Placed, Unbundled, BundleOnce, AfterNpcs, Stamped, Over,
         Stream_!Next, Stream_!Refuse
  <2> QED
    BY <2>1, <2>2, <2>3
<1> QED
  BY <1>1, <1>2, <1>3, <1>4

\* Prose is told after the NPCs have ended, and the core of the answer hands nothing over.
LEMMA TellStep ==
    ASSUME IInv, out \in Outs, Weave \/ Tell \/ NarratorFails \/ NarratorEnds \/ Core \/ AwaitDirector
    PROVE  Goal
<1>1. CASE Weave
  BY <1>1 DEF Weave, NpcsSettled, IInv, Goal, Placed, Unbundled, BundleOnce, AfterNpcs, Stamped, Over
<1>2. CASE Tell
  <2>1. /\ main = "weave" /\ out'.last = "narrative" /\ out'.bundles = out.bundles
        /\ UNCHANGED <<turn, main, npcs, book>>
    BY <1>2 DEF Tell, Yield, Outs
  <2> QED
    BY <2>1 DEF IInv, Goal, Placed, Unbundled, BundleOnce, AfterNpcs, Stamped, Over, Stream_!Next, Stream_!Tell
<1>3. CASE NarratorFails \/ NarratorEnds
  BY <1>3 DEF NarratorFails, NarratorEnds, IInv, Goal, Placed, Unbundled, BundleOnce, AfterNpcs, Stamped, Over
<1>4. CASE Core
  <2>1. /\ main = "core" /\ main' \in {"book", "await"} /\ UNCHANGED <<turn, npcs, out>>
        /\ book'.scheduled = book.scheduled /\ book'.kept = book.kept
    BY <1>4 DEF Core, IInv, TypeOK
  <2> QED
    BY <2>1 DEF IInv, Goal, Placed, Unbundled, BundleOnce, AfterNpcs, Stamped, Over
<1>5. CASE AwaitDirector
  <2>1. main = "await" /\ main' \in {"book", "raised"} /\ UNCHANGED <<turn, npcs, out, book>>
    BY <1>5 DEF AwaitDirector, CloseEmpty
  <2> QED
    BY <2>1 DEF IInv, Goal, Placed, Unbundled, BundleOnce, AfterNpcs, Stamped, Over
<1> QED
  BY <1>1, <1>2, <1>3, <1>4, <1>5

\* The commit, done and the late board, each in its place.
LEMMA CloseStep ==
    ASSUME IInv, out \in Outs, book \in Books,
           Book \/ Show \/ EndStory \/ Finish \/ Late \/ LateLost \/ Abandon \/ Stopped
    PROVE  Goal
<1>1. CASE Book
  <2>1. PICK due \in BOOLEAN, n \in Applied(IF turn.script THEN result.has ELSE {}) :
          /\ book' = [book EXCEPT !.due = due, !.kept = IF turn.early THEN Stamp(due) ELSE @]
          /\ out' = [out EXCEPT !.last = IF turn.early THEN "state_ready" ELSE @, !.boards = @ + n]
    BY <1>1 DEF Book
  <2>2. /\ out'.bundles = out.bundles /\ book'.scheduled = book.scheduled /\ book'.due = due
        /\ out'.last = IF turn.early THEN "state_ready" ELSE out.last
        /\ book'.kept = IF turn.early THEN Stamp(due) ELSE book.kept
    BY <2>1 DEF Outs, Books
  <2>3. main = "book" /\ main' = "show" /\ UNCHANGED <<turn, npcs>>
    BY <1>1 DEF Book
  <2> QED
    BY <2>2, <2>3 DEF IInv, Goal, Placed, Unbundled, BundleOnce, AfterNpcs, Stamped, Over, Stamp,
       Stream_!Next, Stream_!Save
<1>2. CASE Show \/ EndStory
  <2>1. /\ UNCHANGED <<turn, npcs, book>> /\ out'.bundles = out.bundles
        /\ \/ main = "show" /\ main' = "close" /\ out'.last = "state_update"
           \/ main = "close" /\ main' = "finish" /\ out'.last = "ending"
    BY <1>2 DEF Show, EndStory, Yield, Outs
  <2> QED
    BY <2>1 DEF IInv, Goal, Placed, Unbundled, BundleOnce, AfterNpcs, Stamped, Over, Stamp,
       Stream_!Next, Stream_!Show, Stream_!EndStory
<1>3. CASE Finish
  <2>1. /\ main \in {"close", "finish"} /\ main' = IF book.late THEN "tail" ELSE "ended"
        /\ UNCHANGED <<turn, npcs>>
        /\ out'.last = "done" /\ out'.bundles = out.bundles + Bundle
        /\ book'.scheduled = book.due
        /\ book'.kept = IF turn.early THEN book.kept ELSE Stamp(book.due)
    BY <1>3 DEF Finish, Outs, Books
  <2>2. out'.bundles = Bundle /\ Bundle \in {0, 1} /\ (book.late => Bundle = 0)
    BY <2>1 DEF IInv, Unbundled, Over, Bundle
  <2> QED
    BY <2>1, <2>2 DEF IInv, Goal, Placed, Unbundled, BundleOnce, AfterNpcs, Stamped, Over, Stamp,
       Stream_!Next, Stream_!Finish
<1>4. CASE Late
  <2>1. PICK n \in Applied(IF turn.twoPass THEN {"board"} ELSE dir.pay) :
          out' = [out EXCEPT !.last = "case_board_update", !.bundles = @ + 1, !.boards = @ + n]
    BY <1>4 DEF Late
  <2>2. /\ main = "tail" /\ main' = "ended" /\ UNCHANGED <<turn, npcs, book>>
        /\ out'.last = "case_board_update" /\ out'.bundles = out.bundles + 1
    BY <1>4, <2>1 DEF Late, Outs
  <2>3. out'.bundles = 1
    BY <2>2 DEF IInv, Unbundled, Over
  <2> QED
    BY <2>2, <2>3 DEF IInv, Goal, Placed, Unbundled, BundleOnce, AfterNpcs, Stamped, Over,
       Stream_!Next, Stream_!Board
<1>5. CASE LateLost
  BY <1>5 DEF LateLost, IInv, Goal, Placed, Unbundled, BundleOnce, AfterNpcs, Stamped, Over
<1>6. CASE Abandon
  <2>1. main' = "gone" /\ UNCHANGED <<turn, book, out>>
    BY <1>6 DEF Abandon
  <2> QED
    BY <2>1 DEF IInv, Goal, Placed, Unbundled, BundleOnce, AfterNpcs, Stamped, Over
<1>7. CASE Stopped
  BY <1>7 DEF Stopped, vars, IInv, Goal, Placed, Unbundled, BundleOnce, AfterNpcs, Stamped
<1> QED
  BY <1>1, <1>2, <1>3, <1>4, <1>5, <1>6, <1>7

\* The invariant is inductive, and every step is one of TurnStream or hands nothing over.
LEMMA IInvStep == IInv /\ [Next]_vars => IInv' /\ [Stream_!Next]_(out.last)
<1> SUFFICES ASSUME IInv, [Next]_vars PROVE IInv' /\ [Stream_!Next]_(out.last)
  OBVIOUS
<1>1. TypeOK' 
  BY TypeOKDirector, TypeOKProse, TypeOKClose DEF IInv, Next, vars, TypeOK
<1>2. out \in Outs /\ book \in Books
  BY DEF IInv, TypeOK, Outs, Events, Books
<1>3. CASE UNCHANGED vars
  BY <1>1, <1>3 DEF vars, IInv, Placed, Unbundled, BundleOnce, AfterNpcs, Stamped
<1>4. CASE Next
  <2>1. Goal
    BY <1>2, <1>4, OthersStep, ProseStep, TellStep, CloseStep DEF Next
  <2> QED
    BY <1>1, <2>1 DEF IInv, Goal
<1> QED
  BY <1>3, <1>4

\* Every state of a turn satisfies the invariant.
LEMMA AlwaysIInv == Spec => []IInv
BY IInvInit, IInvStep, PTL DEF Spec

-----------------------------------------------------------------------------
\* A turn implements the stream its consumer relies on: prose and errors exclude each other, the
\* state is handed over once, and done comes after it (GameService._consume_turn).
THEOREM ImplementsStream == Spec => OrderOfEvents
<1>1. Init => Stream_!Init
  BY IInvInit
<1>2. IInv /\ [Next]_vars => [Stream_!Next]_(out.last)
  BY IInvStep
<1> QED
  BY <1>1, <1>2, AlwaysIInv, PTL DEF Spec, OrderOfEvents, Stream_!Spec

\* The memory is given at most one bundle of a turn, late board or not (_process_action_v2).
THEOREM OneBundle == Spec => []BundleOnce
BY AlwaysIInv, PTL DEF IInv

\* The state is copied for the commit after the last NPC has written to it, and a compression
\* that is scheduled is stamped in the state that is kept (_process_action_v2, _claim_compression).
THEOREM CommitIsWhole == Spec => [](CopiedAfterNpcs /\ CompressionKept)
<1>1. IInv => CopiedAfterNpcs /\ CompressionKept
  BY DEF IInv, AfterNpcs, Stamped, CopiedAfterNpcs, CompressionKept
<1> QED
  BY <1>1, AlwaysIInv, PTL

-----------------------------------------------------------------------------
(* Beside the turns an NPC's reflection is rewritten (Reflection): the     *)
(* cursor may pass over rows that commit late, and the next two may begin  *)
(* from one and the same summary.                                          *)

CONSTANTS Nobody, Reflecting, Threshold, Cap, LastId, Runs

VARIABLES open, rows, kept, task, runs, overtaken, spared

Memory == INSTANCE Reflection WITH None <- Nobody, Tasks <- Reflecting

Summaries == [cursor : Nat, from : SUBSET Nat]

\* A reflection that is there can be told from none.
Reflections == LastId \in Nat /\ Nobody \notin Summaries

\* Up to the cursor of r every row is in r, came late, or was spared by the cap.  The cursor
\* stands on a row, so a row that commits below it commits after a larger one.
Honest(r) ==
    /\ Memory!Cursor(r) \in rows \union {0}
    /\ \A id \in rows : id <= Memory!Cursor(r) => id \in Memory!From(r) \union overtaken \union spared

\* What a task has read has no gaps between its cursor and its last row.
ReadWhole(t) ==
    /\ t.new \subseteq rows
    /\ t.at = "asked" => t.new # {}
    /\ \A id \in rows, o \in t.new : Memory!Cursor(t.old) < id /\ id <= o => id \in t.new \union overtaken

MemoryTyped ==
    /\ open \subseteq 1..LastId /\ rows \subseteq 1..LastId
    /\ kept \in Summaries \union {Nobody}
    /\ task \in [Reflecting -> [at : {"idle", "checked", "asked"}, old : Summaries \union {Nobody}, new : SUBSET Nat]]

MemoryInv ==
    /\ MemoryTyped
    /\ Honest(kept)
    /\ \A t \in Reflecting : Honest(task[t].old) /\ ReadWhole(task[t])

\* A set of numbers up to LastId has a largest one.
LEMMA LargestThere ==
  ASSUME Reflections, NEW S, S \subseteq 0..LastId, S # {}
  PROVE  Memory!Max(S) \in S /\ \A x \in S : Memory!Max(S) >= x
<1> DEFINE T == {n \in Nat : LastId - n \in S}
<1>1. T \subseteq Nat
  OBVIOUS
<1>2. T # {}
  <2>1. PICK x \in S : TRUE
    OBVIOUS
  <2>2. LastId - x \in Nat /\ LastId - (LastId - x) = x
    BY <2>1 DEF Reflections
  <2> QED
    BY <2>1, <2>2
<1> HIDE DEF T
<1>3. PICK n \in T : \A k \in T : ~ (<<k, n>> \in OpToRel(<, Nat))
  BY <1>1, <1>2, WFMin, NatLessThanWellFounded
<1>4. \A k \in T : ~ (k < n)
  BY <1>1, <1>3 DEF OpToRel
<1>5. LastId - n \in S /\ n \in Nat
  BY DEF T
<1>6. \A x \in S : LastId - n >= x
  <2> SUFFICES ASSUME NEW x \in S PROVE LastId - n >= x
    OBVIOUS
  <2>1. LastId - x \in T
    BY DEF T, Reflections
  <2> QED
    BY <1>4, <1>5, <2>1 DEF Reflections
<1> QED
  BY <1>5, <1>6 DEF Memory!Max

LEMMA MemoryInit == Reflections /\ Memory!Init => MemoryInv
BY DEF Reflections, Memory!Init, MemoryInv, MemoryTyped, Honest, ReadWhole, Memory!Idle, Memory!Cursor

\* A step of a task that only reads: it begins from a summary that is honest.
LEMMA TaskReads ==
  ASSUME MemoryInv, NEW t \in Reflecting, NEW r, task' = [task EXCEPT ![t] = r],
         r \in [at : {"idle", "checked", "asked"}, old : Summaries \union {Nobody}, new : SUBSET Nat],
         Honest(r.old), ReadWhole(r),
         UNCHANGED <<open, rows, kept, overtaken, spared>>
  PROVE  MemoryInv'
BY DEF MemoryInv, MemoryTyped, Honest, ReadWhole, Memory!Cursor, Memory!From

LEMMA NumberedRows ==
  ASSUME Reflections, MemoryInv
  PROVE  /\ rows \subseteq Nat \ {0} /\ open \subseteq Nat \ {0}
         /\ \A r \in Summaries \union {Nobody} : Memory!Cursor(r) \in Nat
BY DEF Reflections, MemoryInv, MemoryTyped, Memory!Cursor, Summaries

LEMMA IdleReads ==
  ASSUME Reflections, MemoryInv
  PROVE  /\ Memory!Idle \in [at : {"idle", "checked", "asked"}, old : Summaries \union {Nobody}, new : SUBSET Nat]
         /\ Honest(Memory!Idle.old) /\ ReadWhole(Memory!Idle)
BY NumberedRows DEF Honest, ReadWhole, Memory!Idle, Memory!Cursor

\* A row that commits below a cursor, or below what a task has read, is overtaken.
LEMMA CommitKeeps ==
  ASSUME Reflections, MemoryInv, NEW id \in open, Memory!Commit(id)
  PROVE  MemoryInv'
<1> USE NumberedRows
<1>1. /\ open' = open \ {id} /\ rows' = rows \union {id} /\ UNCHANGED <<kept, task, spared>>
      /\ overtaken \subseteq overtaken' /\ ((\E o \in rows : o > id) => id \in overtaken')
  BY DEF Memory!Commit
<1>2. MemoryTyped'
  BY <1>1 DEF MemoryInv, MemoryTyped
<1>3. ASSUME NEW r \in Summaries \union {Nobody}, Honest(r)
      PROVE  /\ Memory!Cursor(r) \in rows' \union {0}
             /\ \A i \in rows' : i <= Memory!Cursor(r) => i \in Memory!From(r) \union overtaken' \union spared'
  <2>1. CASE id \in rows
    BY <1>1, <1>3, <2>1 DEF Honest
  <2>2. CASE id \notin rows
    <3>1. id <= Memory!Cursor(r) => id \in overtaken'
      BY <1>1, <1>3, <2>2 DEF Honest
    <3> QED
      BY <1>1, <1>3, <3>1 DEF Honest
  <2> QED
    BY <2>1, <2>2
<1>4. ASSUME NEW t \in Reflecting PROVE ReadWhole(task[t])'
  <2>1. task[t].new \subseteq rows /\ task'[t] = task[t] /\ ReadWhole(task[t])
    BY <1>1 DEF MemoryInv, ReadWhole
  <2>2. ASSUME NEW o \in task[t].new, id <= o PROVE id \in rows \/ id \in overtaken'
    BY <1>1, <2>1, <2>2
  <2>3. \A i \in rows', o \in task[t].new :
           Memory!Cursor(task[t].old) < i /\ i <= o => i \in task[t].new \union overtaken'
    BY <1>1, <2>1, <2>2 DEF ReadWhole
  <2> QED
    BY <1>1, <2>1, <2>3 DEF ReadWhole, Memory!Cursor
<1>5. Honest(kept) /\ kept \in Summaries \union {Nobody}
      /\ \A t \in Reflecting : Honest(task[t].old) /\ task[t].old \in Summaries \union {Nobody}
  BY DEF MemoryInv, MemoryTyped
<1>6. Honest(kept)' /\ \A t \in Reflecting : Honest(task[t].old)'
  BY <1>1, <1>3, <1>5 DEF Honest, Memory!Cursor, Memory!From
<1> QED
  BY <1>2, <1>4, <1>6 DEF MemoryInv

LEMMA InsertKeeps ==
  ASSUME Reflections, MemoryInv, Memory!Insert
  PROVE  MemoryInv'
<1> USE DEF MemoryInv, MemoryTyped
<1>1. Memory!Ids \subseteq 0..LastId /\ Memory!Ids # {}
  BY DEF Memory!Ids, Reflections
<1>2. Memory!Max(Memory!Ids) \in 0..LastId
  BY <1>1, LargestThere
<1>3. open' \subseteq 1..LastId
  <2> DEFINE last == Memory!Max(Memory!Ids)
  <2>1. last < LastId /\ open' = open \union {last + 1}
    BY DEF Memory!Insert
  <2>2. last \in 0..LastId
    BY <1>2
  <2> HIDE DEF last
  <2>3. last + 1 \in 1..LastId
    BY <2>1, <2>2 DEF Reflections
  <2> QED
    BY <2>1, <2>3
<1>4. UNCHANGED <<rows, kept, task, runs, overtaken, spared>>
  BY DEF Memory!Insert
<1> QED
  BY <1>3, <1>4 DEF Honest, ReadWhole, Memory!Cursor, Memory!From

LEMMA ReadKeeps ==
  ASSUME Reflections, MemoryInv, NEW t \in Reflecting,
         Memory!Check(t) \/ Memory!Read(t) \/ Memory!Fail(t)
  PROVE  MemoryInv'
<1> USE DEF MemoryInv, MemoryTyped
<1>1. CASE Memory!Check(t)
  <2> DEFINE r == [Memory!Idle EXCEPT !.at = "checked", !.old = kept]
  <2>1. task' = [task EXCEPT ![t] = r] /\ UNCHANGED <<open, rows, kept, overtaken, spared>>
    BY <1>1 DEF Memory!Check
  <2>2. r \in [at : {"idle", "checked", "asked"}, old : Summaries \union {Nobody}, new : SUBSET Nat]
    BY DEF Memory!Idle
  <2>3. Honest(r.old) /\ ReadWhole(r)
    BY DEF Memory!Idle, Honest, ReadWhole, Memory!Cursor
  <2> HIDE DEF r
  <2> QED
    BY <2>1, <2>2, <2>3, TaskReads
<1>2. CASE Memory!Read(t)
  <2> DEFINE old == IF task[t].old = Nobody THEN kept ELSE task[t].old
             new == {id \in rows : id > Memory!Cursor(old)}
             r == [at |-> "asked", old |-> old, new |-> new]
  <2>1. task' = [task EXCEPT ![t] = IF new = {} THEN Memory!Idle ELSE r]
        /\ UNCHANGED <<open, rows, kept, overtaken, spared>>
    BY <1>2 DEF Memory!Read
  <2>2. Honest(old) /\ old \in Summaries \union {Nobody}
    OBVIOUS
  <2>3. r \in [at : {"idle", "checked", "asked"}, old : Summaries \union {Nobody}, new : SUBSET Nat]
    BY <2>2, NumberedRows
  <2>4. ASSUME new # {} PROVE ReadWhole(r) /\ r.old = old
    <3>1. \A id \in rows : Memory!Cursor(old) < id => id \in new
      BY <2>2, NumberedRows
    <3>2. new \subseteq rows /\ r.at = "asked" /\ r.new = new /\ r.old = old
      OBVIOUS
    <3> HIDE DEF r, new, old
    <3> QED
      BY <2>4, <3>1, <3>2 DEF ReadWhole, Memory!Cursor
  <2> HIDE DEF r, new, old
  <2> QED
    BY <2>1, <2>2, <2>3, <2>4, TaskReads, IdleReads
<1>3. CASE Memory!Fail(t)
  <2>1. task' = [task EXCEPT ![t] = Memory!Idle] /\ UNCHANGED <<open, rows, kept, overtaken, spared>>
    BY <1>3 DEF Memory!Fail
  <2> QED
    BY <2>1, TaskReads, IdleReads
<1> QED
  BY <1>1, <1>2, <1>3

\* What is kept covers what the old summary covered and what was read since.
LEMMA KeepKeeps ==
  ASSUME Reflections, MemoryInv, NEW t \in Reflecting, Memory!Keep(t)
  PROVE  MemoryInv'
<1> DEFINE old == task[t].old
           new == task[t].new
           sum == [cursor |-> Memory!Max(new), from |-> Memory!From(old) \union Memory!Newest(new)]
<1>1. task' = [task EXCEPT ![t] = Memory!Idle] /\ UNCHANGED <<open, rows, overtaken>>
  BY DEF Memory!Keep
<1>2. CASE UNCHANGED <<kept, spared>>
  BY <1>1, <1>2, TaskReads, IdleReads
<1>3. CASE kept' = sum /\ spared' = spared \union (new \ Memory!Newest(new))
  <2>1. new \subseteq rows /\ new # {} /\ Honest(old) /\ old \in Summaries \union {Nobody} /\ ReadWhole(task[t])
        /\ rows \subseteq 1..LastId
    BY DEF MemoryInv, MemoryTyped, ReadWhole, Memory!Keep
  <2>2. new \subseteq 0..LastId
    <3>1. 1..LastId \subseteq 0..LastId
      BY DEF Reflections
    <3> QED
      BY <2>1, <3>1
  <2>3. Memory!Max(new) \in new /\ \A o \in new : Memory!Max(new) >= o
    BY <2>1, <2>2, LargestThere
  <2>4. Memory!Newest(new) \subseteq new
    BY DEF Memory!Newest
  <2>5. sum \in Summaries /\ Memory!Cursor(sum) = Memory!Max(new) /\ Memory!From(sum) = sum.from
    <3>1. Memory!Max(new) \in Nat
      BY <2>1, <2>3, NumberedRows
    <3>2. Memory!From(old) \subseteq Nat
      BY <2>1 DEF Memory!From, Summaries
    <3>3. sum \in Summaries
      BY <2>1, <2>4, <3>1, <3>2, NumberedRows DEF Summaries
    <3>4. sum # Nobody
      BY <3>3 DEF Reflections
    <3> QED
      BY <3>3, <3>4 DEF Memory!Cursor, Memory!From
  <2>6. ASSUME NEW id \in rows, id <= Memory!Max(new)
        PROVE  id \in sum.from \union overtaken \union spared'
    <3>1. CASE id <= Memory!Cursor(old)
      BY <1>3, <2>1, <3>1 DEF Honest
    <3>2. CASE Memory!Cursor(old) < id
      <4>1. id \in new \union overtaken
        BY <2>1, <2>3, <2>6, <3>2 DEF ReadWhole
      <4> QED
        BY <1>3, <4>1
    <3> QED
      BY <2>1, <3>1, <3>2, NumberedRows
  <2> HIDE DEF sum, new, old
  <2>7. Honest(kept)'
    BY <1>1, <1>3, <2>1, <2>3, <2>5, <2>6 DEF Honest, Memory!Cursor, Memory!From
  <2>8. spared \subseteq spared'
    BY <1>3
  <2>9. MemoryTyped'
    BY <1>1, <1>3, <2>5, IdleReads DEF MemoryInv, MemoryTyped
  <2>10. ASSUME NEW u \in Reflecting PROVE Honest(task[u].old)' /\ ReadWhole(task[u])'
    <3>1. task'[u] = task[u] \/ task'[u] = Memory!Idle
      BY <1>1 DEF MemoryInv, MemoryTyped
    <3>2. Honest(task'[u].old) /\ ReadWhole(task'[u])
      BY <3>1, IdleReads DEF MemoryInv
    <3> QED
      BY <1>1, <2>8, <3>2 DEF Honest, ReadWhole, Memory!Cursor, Memory!From
  <2> QED
    BY <2>7, <2>9, <2>10 DEF MemoryInv
<1> QED
  BY <1>2, <1>3 DEF Memory!Keep

LEMMA MemoryStep == Reflections /\ MemoryInv /\ [Memory!Next]_(Memory!vars) => MemoryInv'
<1> SUFFICES ASSUME Reflections, MemoryInv, [Memory!Next]_(Memory!vars) PROVE MemoryInv'
  OBVIOUS
<1>1. CASE UNCHANGED Memory!vars
  BY <1>1 DEF Memory!vars, MemoryInv, MemoryTyped, Honest, ReadWhole, Memory!Cursor, Memory!From
<1>2. CASE Memory!Next
  BY <1>2, InsertKeeps, CommitKeeps, ReadKeeps, KeepKeeps DEF Memory!Next
<1> QED
  BY <1>1, <1>2

\* npc_reflection_service.py: however many reflections of one NPC are under way, overwrite
\* each other or read while memories are being committed, what the cursor has passed is in
\* the summary, came after a larger number, or was spared by the cap.
THEOREM CursorHonest == ASSUME Reflections PROVE Memory!Spec => []Memory!CursorIsHonest
<1>1. MemoryInv => Memory!CursorIsHonest
  <2> SUFFICES ASSUME MemoryInv PROVE Memory!CursorIsHonest
    OBVIOUS
  <2> QED
    BY DEF MemoryInv, Honest, Memory!CursorIsHonest, Memory!Covered, Memory!Cursor
<1> QED
  BY <1>1, MemoryInit, MemoryStep, PTL DEF Memory!Spec

-----------------------------------------------------------------------------
(* Inside the block of the NPCs each asks its model in a loop of its own   *)
(* (NpcActing): a round without an action has a query, so whoever keeps to *)
(* its queries has a round left for its action.                            *)

CONSTANTS Npcs, MaxQueries, Together

VARIABLES intensity, role, mind, action, woven, notes, starved

Acting == INSTANCE NpcActing WITH None <- Nobody

\* Rounds are counted by the queries they had, unless these were too many.
Loop(m) ==
    /\ DOMAIN m = {"step", "asked", "queries", "greedy", "plan"}
    /\ m.asked \in Nat /\ m.queries \in 0..MaxQueries
    /\ m.greedy \/ m.asked <= m.queries

ActingInv == DOMAIN mind = Npcs /\ (\A n \in Npcs : Loop(mind[n])) /\ Acting!RoomToSubmit

LEMMA ActingInit == MaxQueries \in Nat /\ Acting!Init => ActingInv
BY DEF Acting!Init, Acting!Waiting, ActingInv, Loop, Acting!RoomToSubmit

LEMMA EndsLoop ==
  ASSUME MaxQueries \in Nat, ActingInv, NEW n \in Npcs, NEW p, Acting!Ends(n, p)
  PROVE  DOMAIN mind' = Npcs /\ \A k \in Npcs : Loop(mind[k])'
<1>1. PICK m : /\ mind' = [mind EXCEPT ![n] = m]
               /\ DOMAIN m = {"step", "asked", "queries", "greedy", "plan"}
               /\ \/ m.asked = 0 /\ m.queries = 0 /\ m.greedy = FALSE
                  \/ m.asked = mind[n].asked /\ m.queries = mind[n].queries /\ m.greedy = mind[n].greedy
  <2>1. CASE mind[n].step = "reflect"
    <3> DEFINE m == [Acting!Waiting EXCEPT !.step = "act", !.plan = Acting!Validated(role[n], p).note]
    <3>1. mind' = [mind EXCEPT ![n] = m]
      BY <2>1 DEF Acting!Ends
    <3>2. DOMAIN m = {"step", "asked", "queries", "greedy", "plan"} /\ m.asked = 0 /\ m.queries = 0 /\ m.greedy = FALSE
      BY DEF Acting!Waiting
    <3> HIDE DEF m
    <3> QED
      BY <3>1, <3>2
  <2>2. CASE mind[n].step # "reflect"
    <3> DEFINE m == [mind[n] EXCEPT !.step = "done"]
    <3>1. mind' = [mind EXCEPT ![n] = m]
      BY <2>2 DEF Acting!Ends
    <3>2. DOMAIN m = {"step", "asked", "queries", "greedy", "plan"}
          /\ m.asked = mind[n].asked /\ m.queries = mind[n].queries /\ m.greedy = mind[n].greedy
      BY DEF ActingInv, Loop
    <3> HIDE DEF m
    <3> QED
      BY <3>1, <3>2
  <2> QED
    BY <2>1, <2>2
<1> QED
  BY <1>1 DEF ActingInv, Loop

LEMMA ReplyLoop ==
  ASSUME MaxQueries \in Nat, ActingInv, NEW n \in Npcs, NEW q \in Nat, NEW p, Acting!Reply(n, q, p)
  PROVE  ActingInv'
<1> DEFINE m == mind[n]
           greedy == m.greedy \/ m.queries + q > MaxQueries
           last == m.asked + 1 >= Acting!Rounds
<1>1. Loop(m) /\ Acting!RoomToSubmit
  BY DEF ActingInv
<1>2. q > 0 \/ p # Nobody
  BY DEF Acting!Reply
<1>3. CASE p # Nobody \/ last
  <2>1. Acting!Ends(n, p) /\ starved' = IF p = Nobody /\ ~greedy THEN starved \union {n} ELSE starved
    BY <1>3 DEF Acting!Reply
  <2>2. ASSUME p = Nobody PROVE greedy
    BY <1>1, <1>3, <2>2 DEF Loop, Acting!Rounds
  <2>3. starved' = starved
    BY <2>1, <2>2
  <2> QED
    BY <1>1, <2>1, <2>3, EndsLoop DEF ActingInv, Acting!RoomToSubmit
<1>4. CASE p = Nobody /\ ~last
  <2>1. /\ mind' = [mind EXCEPT ![n].asked = m.asked + 1, ![n].greedy = greedy,
                                ![n].queries = Acting!Min({MaxQueries, m.queries + q})]
        /\ starved' = starved
    BY <1>4 DEF Acting!Reply
  <2>2. PICK least : /\ least = Acting!Min({MaxQueries, m.queries + q})
                     /\ least \in 0..MaxQueries /\ (greedy \/ least = m.queries + q)
    <3>1. m.queries \in Nat /\ m.queries + q \in Nat
      BY <1>1 DEF Loop
    <3>2. Acting!Min({MaxQueries, m.queries + q}) = IF MaxQueries <= m.queries + q THEN MaxQueries ELSE m.queries + q
      BY <3>1 DEF Acting!Min
    <3> QED
      BY <3>1, <3>2
  <2>3. DOMAIN mind' = Npcs /\ \A k \in Npcs \ {n} : mind'[k] = mind[k]
    BY <2>1 DEF ActingInv
  <2>4. /\ DOMAIN mind'[n] = {"step", "asked", "queries", "greedy", "plan"}
        /\ mind'[n].asked = m.asked + 1 /\ (mind'[n].greedy <=> greedy) /\ mind'[n].queries = least
    BY <1>1, <2>1, <2>2 DEF ActingInv, Loop
  <2>5. Loop(mind[n])'
    BY <1>1, <1>2, <1>4, <2>2, <2>4 DEF Loop
  <2> QED
    BY <1>1, <2>1, <2>3, <2>5 DEF ActingInv, Loop, Acting!RoomToSubmit
<1> QED
  BY <1>3, <1>4

LEMMA ActingStep == MaxQueries \in Nat /\ ActingInv /\ [Acting!Next]_(Acting!vars) => ActingInv'
<1> SUFFICES ASSUME MaxQueries \in Nat, ActingInv, [Acting!Next]_(Acting!vars) PROVE ActingInv'
  OBVIOUS
<1>1. CASE UNCHANGED Acting!vars \/ Acting!Weave
  BY <1>1 DEF Acting!vars, Acting!Weave, ActingInv, Loop, Acting!RoomToSubmit
<1>2. ASSUME NEW n \in Npcs, Acting!Begin(n) PROVE ActingInv'
  BY <1>2 DEF Acting!Begin, ActingInv, Loop, Acting!RoomToSubmit
<1>3. ASSUME NEW n \in Npcs, Acting!Mute(n) PROVE ActingInv'
  BY <1>3, EndsLoop DEF Acting!Mute, ActingInv, Acting!RoomToSubmit
<1>4. ASSUME NEW n \in Npcs, Acting!Timeout(n) PROVE ActingInv'
  <2>1. CASE Acting!Ends(n, Nobody) /\ starved' = starved
    BY <2>1, EndsLoop DEF ActingInv, Acting!RoomToSubmit
  <2>2. CASE mind' = [mind EXCEPT ![n].step = "done"] /\ starved' = starved
    BY <2>2 DEF ActingInv, Loop, Acting!RoomToSubmit
  <2> QED
    BY <1>4, <2>1, <2>2 DEF Acting!Timeout
<1>5. ASSUME NEW n \in Npcs, NEW q \in Acting!Queries, NEW p, Acting!Reply(n, q, p) PROVE ActingInv'
  BY <1>5, ReplyLoop DEF Acting!Queries
<1> QED
  BY <1>1, <1>2, <1>3, <1>4, <1>5 DEF Acting!Next

\* npc_agent.py: for every npc_action_max_tools_per_call and every cast, an NPC that keeps to
\* its queries is never left without a round for its action, in either step of a climax.
THEOREM RoomRemains == ASSUME MaxQueries \in Nat PROVE Acting!Spec => []Acting!RoomToSubmit
<1>1. ActingInv => Acting!RoomToSubmit
  BY DEF ActingInv
<1> QED
  BY <1>1, ActingInit, ActingStep, PTL DEF Acting!Spec

-----------------------------------------------------------------------------
(* What a turn is told of the conversation so far (Compaction): the last   *)
(* messages, and a summary of those before.  The ceiling of the window is  *)
(* high enough if a compaction is over before the next may begin, and      *)
(* there is room for the rounds of all that may come to nothing in a row.  *)

CONSTANTS Keep, Gap, Early, HardCap, Segments, Attempts, Lag, Lapses, Retries, LastRound

VARIABLES round, stamp, before, cut, summary, dropped, jobs, failed, retried

Window == INSTANCE Compaction WITH Threshold <- Early, Failures <- Lapses

Sizes ==
    /\ Keep \in Nat /\ Gap \in Nat /\ HardCap \in Nat /\ Lag \in Nat /\ Lapses \in Nat
    /\ Early \in Nat \ {0} /\ Segments \in Nat \ {0}

\* With the numbers of the code, one failure in a row and a model that answers within a
\* round: 30 + 2 * (2 * 10 + 1) messages are the 72 of the ceiling.
Roomy ==
    /\ Lag < Gap
    /\ 2 * (Early + 1 - Gap) <= Keep + 1
    /\ Keep + 2 * ((Lapses + 1) * Gap + Lag) <= HardCap

Job == [began : Nat, try : Nat, stage : {"waiting", "asked"}, from : Nat, upto : Nat]

WindowTyped ==
    /\ round \in Nat \ {0} /\ stamp \in Nat /\ before \in Nat /\ cut \in Nat /\ dropped \in Nat
    /\ failed \in 0..Lapses
    /\ summary \in Seq(Nat \X Nat) /\ Len(summary) <= Segments
    /\ jobs \in Seq(Job)

\* What a compaction will have told is no later than where the window begins.
Adjoins(j) == j.stage = "asked" => j.from <= cut + 1

\* The stamp is that of the last round that was due, told once or anew.
StampIsLast ==
    /\ stamp <= round /\ (stamp = 0 \/ stamp > Early)
    /\ stamp = IF Window!Due(before, round) THEN round ELSE before
    /\ round <= Early \/ round - stamp < Gap

\* All compactions under way began in the round of the stamp, not long ago.
Prompt(j) ==
    /\ j.began = stamp /\ round - stamp <= Lag
    /\ j.stage = "asked" => j.upto + Keep >= 2 * stamp - 1

\* Messages up to that round are compacted, less a gap for each that came to nothing or may yet.
Pending == IF jobs = <<>> THEN 0 ELSE Gap
KeptUp == cut + Keep >= 2 * (stamp - failed * Gap - Pending) - 1

ToldInv == WindowTyped /\ Window!NothingUntold /\ \A i \in 1..Len(jobs) : Adjoins(jobs[i])
WindowInv == StampIsLast /\ KeptUp /\ \A i \in 1..Len(jobs) : Prompt(jobs[i])

-----------------------------------------------------------------------------
LEMMA OneLess ==
  ASSUME jobs \in Seq(Job), NEW i \in DOMAIN jobs, Window!Leave(i)
  PROVE  /\ jobs' \in Seq(Job) /\ jobs # <<>> /\ Len(jobs') \in Nat
         /\ \A k \in 1..Len(jobs') : \E l \in 1..Len(jobs) : jobs'[k] = jobs[l]
<1>1. Len(jobs) \in Nat /\ DOMAIN jobs = 1..Len(jobs) /\ i \in 1..Len(jobs)
  OBVIOUS
<1> DEFINE a == SubSeq(jobs, 1, i - 1)
           b == SubSeq(jobs, i + 1, Len(jobs))
<1>2. jobs' = a \o b
  BY DEF Window!Leave, Window!RemoveAt
<1>3. a \in Seq(Job) /\ Len(a) = i - 1 /\ \A k \in 1..(i - 1) : a[k] = jobs[k]
  <2>1. \A k \in 1..(i - 1) : jobs[k] \in Job
    BY <1>1, ElementOfSeq
  <2>2. i - 1 \in Int /\ 1 \in Int
    BY <1>1
  <2> QED
    BY <1>1, <2>1, <2>2, SubSeqProperties
<1>4. b \in Seq(Job) /\ Len(b) = Len(jobs) - i /\ \A k \in 1..(Len(jobs) - i) : b[k] = jobs[i + k]
  <2> DEFINE m == i + 1
             n == Len(jobs)
  <2>1. m \in Int /\ n \in Int /\ n - m + 1 = n - i /\ (IF m <= n THEN n - m + 1 ELSE 0) = n - i
        /\ \A k \in 1..(n - i) : m + k - 1 = i + k
    BY <1>1
  <2>2. \A k \in m..n : jobs[k] \in Job
    BY <1>1, ElementOfSeq
  <2> HIDE DEF m, n, b
  <2>3. b = SubSeq(jobs, m, n)
    BY DEF b, m, n
  <2>4. /\ SubSeq(jobs, m, n) \in Seq(Job) /\ Len(SubSeq(jobs, m, n)) = IF m <= n THEN n - m + 1 ELSE 0
        /\ \A k \in 1..(n - m + 1) : SubSeq(jobs, m, n)[k] = jobs[m + k - 1]
    BY <2>1, <2>2, SubSeqProperties
  <2>5. \A k \in 1..(n - i) : b[k] = jobs[i + k]
    BY <2>1, <2>3, <2>4
  <2>6. b \in Seq(Job) /\ Len(b) = n - i
    BY <2>1, <2>3, <2>4
  <2> QED
    BY <2>5, <2>6 DEF n
<1> HIDE DEF a, b
<1>5. /\ a \o b \in Seq(Job) /\ Len(a \o b) = Len(jobs) - 1
      /\ \A k \in 1..(Len(jobs) - 1) : (a \o b)[k] = IF k <= i - 1 THEN a[k] ELSE b[k - (i - 1)]
  <2>1. /\ a \o b \in Seq(Job) /\ Len(a \o b) = Len(a) + Len(b)
        /\ \A k \in 1..(Len(a) + Len(b)) : (a \o b)[k] = IF k <= Len(a) THEN a[k] ELSE b[k - Len(a)]
    BY <1>3, <1>4, ConcatProperties
  <2>2. Len(a) = i - 1 /\ Len(a) + Len(b) = Len(jobs) - 1
    BY <1>1, <1>3, <1>4
  <2> QED
    BY <2>1, <2>2
<1>6. ASSUME NEW k \in 1..Len(jobs') PROVE \E l \in 1..Len(jobs) : jobs'[k] = jobs[l]
  <2>1. CASE k <= i - 1
    BY <1>1, <1>2, <1>3, <1>5, <2>1
  <2>2. CASE k > i - 1
    <3>1. k - (i - 1) \in 1..(Len(jobs) - i) /\ k + 1 \in 1..Len(jobs) /\ i + (k - (i - 1)) = k + 1
      BY <1>1, <1>2, <1>5, <2>2
    <3>2. jobs'[k] = b[k - (i - 1)]
      <4>1. k \in 1..(Len(jobs) - 1) /\ ~(k <= i - 1)
        BY <1>1, <1>2, <1>5, <2>2
      <4>2. (a \o b)[k] = IF k <= i - 1 THEN a[k] ELSE b[k - (i - 1)]
        BY <1>5, <4>1
      <4> QED
        BY <1>2, <4>1, <4>2
    <3>3. b[k - (i - 1)] = jobs[k + 1]
      BY <1>4, <3>1
    <3> QED
      BY <3>1, <3>2, <3>3
  <2>3. k \in Nat /\ i \in Nat
    BY <1>1, <1>2, <1>5
  <2> QED
    BY <2>1, <2>2, <2>3
<1> QED
  BY <1>1, <1>2, <1>5, <1>6

LEMMA WindowInit == Sizes /\ Window!Init => ToldInv /\ WindowInv
BY DEF Sizes, Window!Init, ToldInv, WindowInv, WindowTyped, Window!NothingUntold, StampIsLast, KeptUp, Pending, Window!Due

\* failed * Gap, as far as the rest needs it.
LEMMA Gaps ==
  ASSUME Sizes, NEW n \in 0..Lapses
  PROVE  n * Gap \in Nat /\ (n + 1) * Gap = n * Gap + Gap /\ n * Gap + Gap <= (Lapses + 1) * Gap
<1>1. (Lapses - n) * Gap >= 0 /\ (Lapses - n) * Gap = Lapses * Gap - n * Gap
  BY DEF Sizes
<1>2. n * Gap \in Nat /\ (n + 1) * Gap = n * Gap + Gap /\ (Lapses + 1) * Gap = Lapses * Gap + Gap
  BY DEF Sizes
<1>3. Lapses * Gap \in Nat
  BY DEF Sizes
<1> QED
  BY <1>1, <1>2, <1>3 DEF Sizes

LEMMA OneMore ==
  ASSUME jobs \in Seq(Job), NEW j \in Job, jobs' = Append(jobs, j)
  PROVE  /\ jobs' \in Seq(Job) /\ jobs' # <<>> /\ Len(jobs') = Len(jobs) + 1 /\ Len(jobs) \in Nat
         /\ \A k \in 1..Len(jobs') : jobs'[k] = j \/ (k \in 1..Len(jobs) /\ jobs'[k] = jobs[k])
OBVIOUS

LEMMA ClaimKeeps ==
  ASSUME Sizes, ToldInv,
         \/ Window!Turn
         \/ Window!Retry
  PROVE  ToldInv' /\ (Roomy /\ WindowInv => WindowInv')
<1> DEFINE last == IF round' = round THEN before ELSE stamp
           j == Window!Fresh(round')
<1>1. /\ round' \in {round, round + 1} /\ before' = last /\ UNCHANGED <<cut, summary, dropped, failed>>
      /\ IF Window!Due(last, round') THEN stamp' = round' /\ jobs' = Append(jobs, j)
                                     ELSE stamp' = last /\ UNCHANGED jobs
      /\ round' = round + 1 => \A i \in 1..Len(jobs) : round - jobs[i].began < Lag
  <2>1. jobs \in Seq(Job) /\ round \in Nat
    BY DEF ToldInv, WindowTyped
  <2>2. DOMAIN jobs = 1..Len(jobs)
    BY <2>1
  <2>3. CASE Window!Turn
    BY <2>1, <2>2, <2>3 DEF Window!Turn, Window!Claim
  <2>4. CASE Window!Retry
    BY <2>1, <2>2, <2>4 DEF Window!Retry, Window!Claim
  <2> QED
    BY <2>3, <2>4
<1>2. j \in Job /\ j.began = round' /\ j.stage = "waiting"
  BY <1>1 DEF Window!Fresh, Job, ToldInv, WindowTyped
<1>3. WindowTyped /\ jobs \in Seq(Job) /\ Len(jobs) \in Nat
  BY DEF ToldInv, WindowTyped
<1> HIDE DEF j
<1>4. WindowTyped'
  <2>1. jobs' \in Seq(Job)
    BY <1>1, <1>2, <1>3
  <2> QED
    BY <1>1, <1>3, <2>1 DEF WindowTyped
<1>5. Window!NothingUntold'
  BY <1>1 DEF ToldInv, Window!NothingUntold
<1>6. \A k \in 1..Len(jobs') : Adjoins(jobs[k])'
  <2>1. \A k \in 1..Len(jobs) : Adjoins(jobs[k])
    BY DEF ToldInv
  <2>2. CASE jobs' = jobs
    BY <1>1, <2>1, <2>2 DEF Adjoins
  <2>3. CASE jobs' = Append(jobs, j)
    BY <1>1, <1>2, <1>3, <2>1, <2>3, OneMore DEF Adjoins
  <2> QED
    BY <1>1, <2>2, <2>3
<1>7. ASSUME Roomy, WindowInv PROVE WindowInv'
  <2> DEFINE spent == failed * Gap
  <2>7. /\ round \in Nat /\ stamp \in Nat /\ stamp <= round /\ cut \in Nat /\ Keep \in Nat /\ Gap \in Nat /\ Lag \in Nat
        /\ Lag < Gap /\ Early \in Nat /\ 2 * (Early + 1 - Gap) <= Keep + 1
        /\ spent \in Nat /\ Pending \in {0, Gap} /\ (Len(jobs) = 0 => Pending = 0)
        /\ cut + Keep >= 2 * (stamp - spent - Pending) - 1
        /\ round <= Early \/ round - stamp < Gap
    <3>1. failed * Gap \in Nat
      BY <1>3, Gaps DEF WindowTyped
    <3>2. Pending \in {0, Gap} /\ (Len(jobs) = 0 => Pending = 0)
      BY <1>3 DEF Pending
    <3> QED
      BY <1>3, <1>7, <3>1, <3>2 DEF WindowTyped, WindowInv, StampIsLast, KeptUp, Roomy, Sizes
  <2> HIDE DEF spent
  <2>8. \A k \in 1..Len(jobs) : Prompt(jobs[k])
    BY <1>7 DEF WindowInv
  <2>9. round' \in Nat /\ (round' = round \/ round' = round + 1)
    <3>1. round' = round \/ round' = round + 1
      BY <1>1
    <3> QED
      BY <2>7, <3>1
  <2>10. round \in Nat /\ stamp \in Nat /\ Lag \in Nat /\ Gap \in Nat /\ Early \in Nat /\ Keep \in Nat /\ Lag < Gap
    BY <2>7
  <2>11. ASSUME NEW k \in 1..Len(jobs)
         PROVE  /\ jobs[k].began = stamp /\ (jobs[k].stage = "asked" => jobs[k].upto + Keep >= 2 * stamp - 1)
                /\ round - stamp <= Lag /\ (round' = round + 1 => round - stamp < Lag)
    <3>1. Prompt(jobs[k])
      BY <2>8
    <3>2. round' = round + 1 => round - jobs[k].began < Lag
      BY <1>1
    <3> QED
      BY <3>1, <3>2 DEF Prompt
  <2>12. ASSUME NEW k \in 1..Len(jobs) PROVE round' - stamp <= Lag
    <3>1. round - stamp <= Lag /\ (round' = round + 1 => round - stamp < Lag)
      BY <2>11
    <3>2. CASE round' = round
      BY <3>1, <3>2
    <3>3. CASE round' = round + 1
      <4>1. round - stamp < Lag
        BY <3>1, <3>3
      <4>2. round + 1 - stamp <= Lag
        BY <2>10, <4>1
      <4> QED
        BY <2>10, <3>3, <4>2
    <3> QED
      BY <2>9, <3>2, <3>3
  <2>13. CASE stamp' = stamp /\ UNCHANGED jobs
    <3>1. StampIsLast'
      <4>1. StampIsLast
        BY <1>7 DEF WindowInv
      <4>2. CASE round' = round
        BY <1>1, <2>13, <4>1, <4>2 DEF StampIsLast, Window!Due
      <4>3. CASE round' = round + 1
        <5>1. stamp <= round + 1 /\ stamp # round + 1 /\ (stamp = 0 \/ stamp > Early) /\ round + 1 # round
          <6>1. stamp <= round /\ (stamp = 0 \/ stamp > Early)
            BY <4>1 DEF StampIsLast
          <6> QED
            BY <2>10, <6>1
        <5>2. before' = stamp /\ stamp' = stamp
          <6>1. last = stamp
            BY <4>3, <5>1
          <6> QED
            BY <1>1, <2>13, <6>1
        <5>3. ~Window!Due(stamp, round + 1)
          BY <1>1, <2>13, <4>3, <5>1
        <5>4. round + 1 <= Early \/ round + 1 - stamp < Gap
          BY <2>10, <5>3 DEF Window!Due
        <5>5. stamp' = IF Window!Due(before, round)' THEN round' ELSE before'
          BY <4>3, <5>2, <5>3 DEF Window!Due
        <5>6. stamp' <= round' /\ (stamp' = 0 \/ stamp' > Early)
          BY <4>3, <5>1, <5>2
        <5>7. round' <= Early \/ round' - stamp' < Gap
          BY <2>10, <4>3, <5>2, <5>4
        <5> QED
          BY <5>5, <5>6, <5>7 DEF StampIsLast, Window!Due
      <4> QED
        BY <2>9, <4>2, <4>3
    <3>2. KeptUp'
      BY <1>1, <1>7, <2>13 DEF WindowInv, KeptUp, Pending
    <3>3. \A k \in 1..Len(jobs') : Prompt(jobs[k])'
      BY <2>13, <2>11, <2>12 DEF Prompt
    <3> QED
      BY <3>1, <3>2, <3>3 DEF WindowInv
  <2>14. CASE stamp' = round' /\ jobs' = Append(jobs, j) /\ Window!Due(last, round')
    <3>1. StampIsLast'
      <4>1. Window!Due(before, round)'
        BY <1>1, <2>14 DEF Window!Due
      <4>2. \A x \in Nat : x - x < Gap /\ x <= x
        BY <2>10
      <4>3. stamp' > Early /\ stamp' <= round' /\ round' - stamp' < Gap
        BY <2>14, <2>9, <4>2 DEF Window!Due
      <4> QED
        BY <2>14, <4>1, <4>3 DEF StampIsLast
    <3>2. CASE round' = round
      <4>1. stamp' = stamp
        BY <1>7, <2>14, <3>2 DEF WindowInv, StampIsLast
      <4>2. \A k \in 1..Len(jobs') : Prompt(jobs[k])'
        <5>1. ASSUME NEW k \in 1..Len(jobs')
              PROVE  jobs'[k] = j \/ (k \in 1..Len(jobs) /\ jobs'[k] = jobs[k])
          BY <1>2, <1>3, <2>14, OneMore
        <5>2. ASSUME NEW k \in 1..Len(jobs'), jobs'[k] = j PROVE Prompt(jobs[k])'
          <6>1. \A x \in Nat : x - x <= Lag
            BY <2>10
          <6>2. jobs'[k].began = stamp' /\ jobs'[k].stage = "waiting" /\ round' - stamp' <= Lag
            BY <1>2, <2>14, <2>9, <5>2, <6>1
          <6> QED
            BY <6>2 DEF Prompt
        <5>3. ASSUME NEW k \in 1..Len(jobs'), k \in 1..Len(jobs), jobs'[k] = jobs[k] PROVE Prompt(jobs[k])'
          BY <2>11, <2>12, <4>1, <5>3 DEF Prompt
        <5> QED
          BY <5>1, <5>2, <5>3
      <4>3. KeptUp'
        <5>1. Pending' = Gap /\ failed' = failed /\ cut' = cut
          BY <1>1, <1>2, <1>3, <2>14, OneMore DEF Pending
        <5> QED
          BY <2>7, <4>1, <5>1 DEF KeptUp, spent
      <4> QED
        BY <3>1, <4>2, <4>3 DEF WindowInv
    <3>3. CASE round' = round + 1
      <4>1. round + 1 - stamp >= Gap
        BY <2>7, <2>14, <3>3 DEF Window!Due
      <4>2. Len(jobs) = 0
        <5>1. ASSUME NEW k \in 1..Len(jobs) PROVE FALSE
          BY <2>7, <2>11, <3>3, <4>1
        <5> QED
          BY <1>3, <5>1
      <4>3. \A k \in 1..Len(jobs') : Prompt(jobs[k])'
        BY <1>1, <1>2, <1>3, <2>7, <2>14, <3>3, <4>2, OneMore DEF Prompt
      <4>4. KeptUp'
        <5>1. Pending' = Gap /\ failed' = failed /\ cut' = cut /\ stamp' = round + 1
          BY <1>1, <1>2, <1>3, <2>14, <3>3, OneMore DEF Pending
        <5>2. cut + Keep >= 2 * (round + 1 - spent - Gap) - 1
          BY <2>7, <4>2
        <5> QED
          BY <2>7, <5>1, <5>2 DEF KeptUp, spent
      <4> QED
        BY <3>1, <4>3, <4>4 DEF WindowInv
    <3> QED
      BY <1>1, <3>2, <3>3
  <2> QED
    <3>1. CASE Window!Due(last, round')
      BY <1>1, <2>14, <3>1
    <3>2. CASE ~Window!Due(last, round') /\ stamp' = stamp
      BY <1>1, <2>13, <3>2
    <3>3. CASE ~Window!Due(last, round') /\ stamp' # stamp
      BY <1>1, <1>7, <3>3 DEF WindowInv, StampIsLast
    <3> QED
      BY <3>1, <3>2, <3>3
<1> QED
  BY <1>4, <1>5, <1>6, <1>7 DEF ToldInv

-----------------------------------------------------------------------------
LEMMA JobsTyped ==
  ASSUME ToldInv
  PROVE  /\ jobs \in Seq(Job) /\ DOMAIN jobs = 1..Len(jobs) /\ Len(jobs) \in Nat
         /\ \A k \in 1..Len(jobs) : jobs[k] \in Job /\ Adjoins(jobs[k])
<1>1. jobs \in Seq(Job)
  BY DEF ToldInv, WindowTyped
<1>2. \A k \in 1..Len(jobs) : jobs[k] \in Job
  BY <1>1, ElementOfSeq
<1> QED
  BY <1>1, <1>2 DEF ToldInv

\* When a compaction ends those that remain still begin no later than the window.
LEMMA LeaveTold ==
  ASSUME ToldInv, NEW i \in DOMAIN jobs, Window!Leave(i), cut' \in Nat, cut' >= cut
  PROVE  jobs' \in Seq(Job) /\ \A k \in 1..Len(jobs') : Adjoins(jobs[k])'
<1>1. jobs' \in Seq(Job) /\ \A k \in 1..Len(jobs') : \E l \in 1..Len(jobs) : jobs'[k] = jobs[l]
  BY JobsTyped, OneLess
<1>2. cut \in Nat
  BY DEF ToldInv, WindowTyped
<1>3. ASSUME NEW k \in 1..Len(jobs') PROVE Adjoins(jobs[k])'
  <2>1. PICK l \in 1..Len(jobs) : jobs'[k] = jobs[l]
    BY <1>1
  <2>2. jobs[l].stage = "asked" => jobs[l].from <= cut + 1 /\ jobs[l].from \in Nat
    BY JobsTyped DEF Adjoins, Job
  <2>3. jobs[l].stage = "asked" => jobs[l].from <= cut' + 1
    BY <1>2, <2>2
  <2> QED
    BY <2>1, <2>3 DEF Adjoins
<1> QED
  BY <1>1, <1>3

\* It has failed, or all up to the round of the stamp is compacted by now.
LEMMA LeaveKeeps ==
  ASSUME Sizes, ToldInv, WindowInv, NEW i \in DOMAIN jobs, Window!Leave(i),
         UNCHANGED <<round, stamp, before>>, cut' \in Nat, cut' >= cut, failed' \in 0..Lapses,
         \/ failed' = failed + 1 /\ cut' = cut
         \/ cut' + Keep >= 2 * stamp - 1
  PROVE  WindowInv'
<1>1. /\ failed \in 0..Lapses /\ stamp \in Nat /\ cut \in Nat /\ Gap \in Nat /\ Keep \in Nat
      /\ \A k \in 1..Len(jobs) : Prompt(jobs[k])
  BY DEF ToldInv, WindowTyped, WindowInv, Sizes
<1>2. /\ jobs' \in Seq(Job) /\ jobs # <<>>
      /\ \A k \in 1..Len(jobs') : \E l \in 1..Len(jobs) : jobs'[k] = jobs[l]
  BY JobsTyped, OneLess
<1>3. StampIsLast'
  BY DEF WindowInv, StampIsLast, Window!Due
<1>4. ASSUME NEW k \in 1..Len(jobs') PROVE Prompt(jobs[k])'
  BY <1>1, <1>2 DEF Prompt
<1>5. KeptUp'
  <2>1. failed' * Gap \in Nat /\ Pending' \in Nat
    BY <1>1, Gaps DEF Pending
  <2>2. CASE failed' = failed + 1 /\ cut' = cut
    <3>1. cut + Keep >= 2 * (stamp - failed * Gap - Gap) - 1
      BY <1>2 DEF WindowInv, KeptUp, Pending
    <3>2. failed' * Gap = failed * Gap + Gap /\ failed * Gap \in Nat
      BY <1>1, <2>2, Gaps
    <3> DEFINE x == failed * Gap
               y == failed' * Gap
               z == Pending'
    <3>3. x \in Nat /\ y = x + Gap /\ z \in Nat /\ cut + Keep >= 2 * (stamp - x - Gap) - 1
      BY <2>1, <3>1, <3>2
    <3> HIDE DEF x, y, z
    <3>4. cut + Keep >= 2 * (stamp - y - z) - 1
      <4>1. cut \in Nat /\ Keep \in Nat /\ stamp \in Nat /\ Gap \in Nat
        BY <1>1
      <4>2. 2 * (stamp - y - z) - 1 <= 2 * (stamp - x - Gap) - 1
        BY <3>3, <4>1
      <4> QED
        BY <3>3, <4>1, <4>2
    <3> QED
      BY <2>2, <3>4 DEF KeptUp, y, z
  <2>3. CASE cut' + Keep >= 2 * stamp - 1
    <3> DEFINE y == failed' * Gap
               z == Pending'
    <3>1. y \in Nat /\ z \in Nat
      BY <2>1
    <3> HIDE DEF y, z
    <3>2. cut' + Keep >= 2 * (stamp - y - z) - 1
      <4>1. Keep \in Nat /\ stamp \in Nat
        BY <1>1
      <4>2. \A c, k, n, v, w \in Nat : c + k >= 2 * n - 1 => c + k >= 2 * (n - v - w) - 1
        OBVIOUS
      <4> QED
        BY <2>3, <3>1, <4>1, <4>2
    <3> QED
      BY <3>2 DEF KeptUp, y, z
  <2> QED
    BY <2>2, <2>3
<1> QED
  BY <1>2, <1>3, <1>4, <1>5 DEF WindowInv

\* A compaction goes on, the others are as they were.
LEMMA ChangeKeeps ==
  ASSUME ToldInv, NEW i \in DOMAIN jobs, NEW j \in Job, jobs' = [jobs EXCEPT ![i] = j],
         Adjoins(j), UNCHANGED <<round, stamp, before, cut, summary, dropped, failed>>
  PROVE  ToldInv' /\ (WindowInv /\ Prompt(j) => WindowInv')
<1>1. jobs \in Seq(Job) /\ Len(jobs) \in Nat /\ i \in 1..Len(jobs)
  BY JobsTyped
<1>2. /\ jobs' \in Seq(Job) /\ Len(jobs') = Len(jobs)
      /\ \A k \in 1..Len(jobs) : jobs'[k] = IF k = i THEN j ELSE jobs[k]
  BY <1>1, ExceptSeq
<1>3. ASSUME NEW k \in 1..Len(jobs') PROVE Adjoins(jobs[k])'
  <2>1. Adjoins(jobs'[k])
    BY <1>2, JobsTyped
  <2> QED
    BY <2>1 DEF Adjoins
<1>4. ASSUME WindowInv, Prompt(j) PROVE WindowInv'
  <2>1. Pending' = Pending
    BY <1>1, <1>2 DEF Pending
  <2>2. StampIsLast' /\ KeptUp'
    BY <1>4, <2>1 DEF WindowInv, StampIsLast, KeptUp, Window!Due
  <2>3. \A k \in 1..Len(jobs') : Prompt(jobs'[k])
    BY <1>2, <1>4 DEF WindowInv
  <2>4. \A k \in 1..Len(jobs') : Prompt(jobs[k])'
    BY <2>3 DEF Prompt
  <2> QED
    BY <2>2, <2>4 DEF WindowInv
<1>5. WindowTyped' /\ Window!NothingUntold'
  BY <1>2 DEF ToldInv, WindowTyped, Window!NothingUntold
<1> QED
  BY <1>3, <1>4, <1>5 DEF ToldInv

LEMMA ReadOldKeeps ==
  ASSUME Sizes, ToldInv, NEW i \in DOMAIN jobs, Window!ReadOld(i)
  PROVE  ToldInv' /\ (WindowInv => WindowInv')
<1>1. /\ round \in Nat \ {0} /\ stamp \in Nat /\ cut \in Nat
      /\ Keep \in Nat /\ failed \in 0..Lapses /\ Window!Written = 2 * round - 1
      /\ UNCHANGED <<round, stamp, before, cut, summary, dropped, failed>>
  BY DEF ToldInv, WindowTyped, Sizes, Window!ReadOld, Window!Written
<1>2. ASSUME WindowInv PROVE stamp <= round /\ \A k \in 1..Len(jobs) : Prompt(jobs[k])
  BY <1>2 DEF WindowInv, StampIsLast
<1>3. CASE Window!Written - cut <= Keep
  <2>1. Window!Leave(i) /\ cut' >= cut /\ cut' \in Nat /\ failed' \in 0..Lapses
    BY <1>1, <1>3 DEF Window!ReadOld
  <2>2. WindowInv => cut' + Keep >= 2 * stamp - 1
    BY <1>1, <1>2, <1>3
  <2>3. jobs' \in Seq(Job) /\ \A k \in 1..Len(jobs') : Adjoins(jobs[k])'
    BY <2>1, LeaveTold
  <2>4. ToldInv'
    BY <1>1, <2>3 DEF ToldInv, WindowTyped, Window!NothingUntold
  <2> QED
    BY <1>1, <2>1, <2>2, <2>4, LeaveKeeps
<1>4. CASE ~(Window!Written - cut <= Keep)
  <2> DEFINE up == 2 * round - 1 - Keep
             j == [jobs[i] EXCEPT !.stage = "asked", !.from = cut + 1, !.upto = up]
  <2>1. jobs[i] \in Job /\ i \in 1..Len(jobs)
    BY JobsTyped
  <2>2. up \in Nat /\ up + Keep = 2 * round - 1 /\ cut + 1 \in Nat
    BY <1>1, <1>4
  <2>3. jobs' = [jobs EXCEPT ![i] = j]
    <3>1. jobs' = [jobs EXCEPT ![i].stage = "asked", ![i].from = cut + 1, ![i].upto = up]
      BY <1>1, <1>4 DEF Window!ReadOld
    <3>2. jobs' = [jobs EXCEPT ![i] = [[[jobs[i] EXCEPT !.stage = "asked"] EXCEPT !.from = cut + 1] EXCEPT !.upto = up]]
      BY <2>1, <3>1 DEF Job
    <3> QED
      BY <2>1, <3>2 DEF Job
  <2> HIDE DEF up
  <2>4. j \in Job /\ j.began = jobs[i].began /\ j.from = cut + 1 /\ j.upto = up
    BY <2>1, <2>2 DEF Job
  <2> HIDE DEF j
  <2>5. Adjoins(j)
    BY <1>1, <2>4 DEF Adjoins
  <2>6. ASSUME WindowInv PROVE Prompt(j)
    <3>1. up + Keep >= 2 * stamp - 1
      BY <1>1, <1>2, <2>2, <2>6
    <3> QED
      BY <1>2, <2>1, <2>4, <2>6, <3>1 DEF Prompt
  <2> QED
    BY <1>1, <2>3, <2>4, <2>5, <2>6, ChangeKeeps
<1> QED
  BY <1>3, <1>4

\* The summary is one segment longer, or the first is dropped.
LEMMA SummaryGrows ==
  ASSUME Sizes, WindowTyped, NEW t \in Nat \X Nat, summary' = Window!Merged(summary, t)
  PROVE  /\ summary' \in Seq(Nat \X Nat) /\ Len(summary') <= Segments /\ Len(summary') \in Nat \ {0} /\ summary'[Len(summary')] = t
         /\ \A k \in 1..Len(summary) :
                \/ \E l \in 1..Len(summary') : summary'[l] = summary[k]
                \/ k = 1 /\ Len(summary) = Segments
<1>1. summary \in Seq(Nat \X Nat) /\ Len(summary) \in Nat /\ Len(summary) <= Segments /\ Segments \in Nat \ {0}
  BY DEF WindowTyped, Sizes
<1>2. CASE Len(summary) < Segments
  <2>1. summary' = Append(summary, t)
    BY <1>2 DEF Window!Merged
  <2>2. summary' \in Seq(Nat \X Nat) /\ Len(summary') = Len(summary) + 1 /\ summary'[Len(summary')] = t
        /\ \A k \in 1..Len(summary) : summary'[k] = summary[k]
    BY <1>1, <2>1
  <2>3. \A k \in 1..Len(summary) : k \in 1..Len(summary')
    BY <1>1, <2>2
  <2>4. Len(summary') \in Nat \ {0} /\ Len(summary') <= Segments
    BY <1>1, <1>2, <2>2
  <2> QED
    BY <2>2, <2>3, <2>4
<1>3. CASE ~(Len(summary) < Segments)
  <2>1. summary' = Append(Tail(summary), t) /\ Len(summary) = Segments /\ summary # <<>>
    BY <1>1, <1>3 DEF Window!Merged
  <2>2. /\ Tail(summary) \in Seq(Nat \X Nat) /\ Len(Tail(summary)) = Len(summary) - 1
        /\ \A k \in 1..(Len(summary) - 1) : Tail(summary)[k] = summary[k + 1]
    BY <1>1, <2>1, HeadTailProperties
  <2> DEFINE old == Tail(summary)
  <2> HIDE DEF old
  <2>3. summary' = Append(old, t) /\ old \in Seq(Nat \X Nat) /\ Len(old) = Len(summary) - 1
        /\ \A k \in 1..(Len(summary) - 1) : old[k] = summary[k + 1]
    BY <2>1, <2>2 DEF old
  <2>4. summary' \in Seq(Nat \X Nat) /\ Len(summary') = Len(summary) /\ summary'[Len(summary')] = t
        /\ \A k \in 1..(Len(summary) - 1) : summary'[k] = old[k]
    BY <1>1, <2>3
  <2>5. ASSUME NEW k \in 1..Len(summary), k # 1 PROVE \E l \in 1..Len(summary') : summary'[l] = summary[k]
    <3>1. k - 1 \in 1..(Len(summary) - 1) /\ k - 1 + 1 = k /\ k - 1 \in 1..Len(summary')
      BY <1>1, <2>4, <2>5
    <3>2. summary'[k - 1] = old[k - 1] /\ old[k - 1] = summary[k - 1 + 1]
      BY <2>3, <2>4, <3>1
    <3> QED
      BY <3>1, <3>2
  <2> QED
    BY <1>1, <2>1, <2>4, <2>5
<1> QED
  BY <1>2, <1>3

LEMMA AnswerKeeps ==
  ASSUME Sizes, ToldInv, NEW i \in DOMAIN jobs, Window!Answer(i)
  PROVE  ToldInv' /\ (WindowInv => WindowInv')
<1> DEFINE j == jobs[i]
           t == <<j.from, j.upto>>
<1>1. WindowTyped /\ i \in 1..Len(jobs) /\ j \in Job /\ Adjoins(j) /\ j.stage = "asked"
  BY JobsTyped DEF ToldInv, Window!Answer
<1>2. /\ j.from \in Nat /\ j.upto \in Nat /\ j.from <= cut + 1
      /\ cut \in Nat /\ stamp \in Nat /\ Keep \in Nat /\ dropped \in Nat /\ Lapses \in Nat
  BY <1>1 DEF Job, Adjoins, WindowTyped, Sizes
<1> HIDE DEF j
<1>3. /\ summary' = Window!Merged(summary, t) /\ failed' = 0 /\ Window!Leave(i)
      /\ cut' = IF j.upto > cut THEN j.upto ELSE cut
      /\ dropped' = IF Len(summary) = Segments /\ summary[1][2] > dropped THEN summary[1][2] ELSE dropped
      /\ UNCHANGED <<round, stamp, before>>
  BY DEF Window!Answer, j
<1>4. cut' \in Nat /\ cut' >= cut /\ cut' >= j.upto /\ (cut' = cut \/ cut' = j.upto)
  BY <1>2, <1>3
<1>5. failed' \in 0..Lapses
  BY <1>2, <1>3
<1>6. jobs' \in Seq(Job) /\ \A k \in 1..Len(jobs') : Adjoins(jobs[k])'
  BY <1>3, <1>4, LeaveTold
<1>14. ASSUME WindowInv PROVE WindowInv'
  <2>1. j.upto + Keep >= 2 * stamp - 1
    BY <1>1, <1>14 DEF WindowInv, Prompt, j
  <2>2. cut' + Keep >= 2 * stamp - 1
    <3>1. \A x, y, k, n \in Nat : x + k >= 2 * n - 1 /\ y >= x => y + k >= 2 * n - 1
      OBVIOUS
    <3> QED
      BY <1>2, <1>4, <2>1, <3>1
  <2> QED
    BY <1>3, <1>4, <1>5, <1>14, <2>2, LeaveKeeps
<1>7. t \in Nat \X Nat
  BY <1>2
<1>8. /\ summary' \in Seq(Nat \X Nat) /\ Len(summary') <= Segments /\ Len(summary') \in Nat \ {0}
      /\ summary'[Len(summary')] = t
      /\ \A k \in 1..Len(summary) :
             \/ \E l \in 1..Len(summary') : summary'[l] = summary[k]
             \/ k = 1 /\ Len(summary) = Segments
  BY <1>1, <1>3, <1>7, SummaryGrows
<1>9. summary \in Seq(Nat \X Nat) /\ DOMAIN summary = 1..Len(summary) /\ DOMAIN summary' = 1..Len(summary')
      /\ \A k \in 1..Len(summary) : summary[k][1] \in Nat /\ summary[k][2] \in Nat
  <2>1. summary \in Seq(Nat \X Nat)
    BY <1>1 DEF WindowTyped
  <2>2. \A k \in 1..Len(summary) : summary[k] \in Nat \X Nat
    BY <2>1, ElementOfSeq
  <2> QED
    BY <1>8, <2>1, <2>2
<1>10. dropped' \in Nat /\ dropped' >= dropped
       /\ (Len(summary) = Segments => dropped' >= summary[1][2])
  <2>1. CASE Len(summary) = Segments
    <3>1. summary[1][2] \in Nat
      BY <1>9, <2>1 DEF Sizes
    <3> QED
      BY <1>2, <1>3, <2>1, <3>1
  <2>2. CASE Len(summary) # Segments
    BY <1>2, <1>3, <2>2
  <2> QED
    BY <2>1, <2>2
<1>11. WindowTyped'
  BY <1>1, <1>3, <1>4, <1>5, <1>6, <1>8, <1>10 DEF WindowTyped
<1>12. ASSUME NEW m \in 1..cut'
       PROVE  m <= dropped' \/ \E l \in DOMAIN summary' : summary'[l][1] <= m /\ m <= summary'[l][2]
  <2>1. CASE m > cut
    <3>1. t[1] <= m /\ m <= t[2]
      BY <1>2, <1>4, <2>1
    <3>2. Len(summary') \in DOMAIN summary' /\ summary'[Len(summary')] = t
      BY <1>8, <1>9
    <3> QED
      BY <3>1, <3>2
  <2>2. CASE m <= cut
    <3>1. m \in 1..cut
      BY <1>2, <2>2
    <3>2. m <= dropped \/ \E k \in DOMAIN summary : summary[k][1] <= m /\ m <= summary[k][2]
      BY <3>1 DEF ToldInv, Window!NothingUntold
    <3>3. CASE m <= dropped
      BY <1>2, <1>10, <3>3
    <3>4. ASSUME NEW k \in DOMAIN summary, summary[k][1] <= m /\ m <= summary[k][2]
          PROVE  m <= dropped' \/ \E l \in DOMAIN summary' : summary'[l][1] <= m /\ m <= summary'[l][2]
      <4>1. CASE \E l \in 1..Len(summary') : summary'[l] = summary[k]
        BY <1>9, <3>4, <4>1
      <4>2. CASE k = 1 /\ Len(summary) = Segments
        <5>1. summary[1][2] <= dropped' /\ summary[1][2] \in Nat
          BY <1>9, <1>10, <4>2 DEF Sizes
        <5> QED
          BY <1>10, <3>4, <4>2, <5>1
      <4> QED
        BY <1>8, <1>9, <4>1, <4>2
    <3> QED
      BY <3>2, <3>3, <3>4
  <2> QED
    BY <1>2, <1>4, <2>1, <2>2
<1>13. Window!NothingUntold'
  BY <1>12 DEF Window!NothingUntold
<1> QED
  BY <1>6, <1>11, <1>13, <1>14 DEF ToldInv

LEMMA NothingKeeps ==
  ASSUME Sizes, ToldInv, NEW i \in DOMAIN jobs, Window!Leave(i), failed < Lapses, failed' = failed + 1,
         UNCHANGED <<round, stamp, before, cut, summary, dropped>>
  PROVE  ToldInv' /\ (WindowInv => WindowInv')
<1>1. WindowTyped /\ cut \in Nat /\ failed \in 0..Lapses /\ Lapses \in Nat
  BY DEF ToldInv, WindowTyped, Sizes
<1>2. cut' \in Nat /\ cut' >= cut /\ failed' \in 0..Lapses
  BY <1>1
<1>3. /\ jobs' \in Seq(Job) /\ \A k \in 1..Len(jobs') : Adjoins(jobs[k])'
      /\ WindowInv => WindowInv'
  BY <1>2, LeaveTold, LeaveKeeps
<1>4. WindowTyped' /\ Window!NothingUntold'
  BY <1>1, <1>2, <1>3 DEF ToldInv, WindowTyped, Window!NothingUntold
<1> QED
  BY <1>3, <1>4 DEF ToldInv

LEMMA FailKeeps ==
  ASSUME Sizes, ToldInv, NEW i \in DOMAIN jobs, Window!Fail(i)
  PROVE  ToldInv' /\ (WindowInv => WindowInv')
<1>1. CASE jobs[i].try < Attempts
  <2> DEFINE j == [jobs[i] EXCEPT !.stage = "waiting", !.try = @ + 1]
  <2>1. jobs[i] \in Job /\ i \in 1..Len(jobs) /\ (WindowInv => Prompt(jobs[i]))
    BY JobsTyped DEF WindowInv
  <2>2. jobs' = [jobs EXCEPT ![i] = j]
    <3>1. jobs' = [jobs EXCEPT ![i].stage = "waiting", ![i].try = @ + 1]
      BY <1>1 DEF Window!Fail
    <3>2. jobs' = [jobs EXCEPT ![i] = [[jobs[i] EXCEPT !.stage = "waiting"] EXCEPT !.try = @ + 1]]
      BY <2>1, <3>1 DEF Job
    <3> QED
      BY <2>1, <3>2 DEF Job
  <2>3. j \in Job /\ j.began = jobs[i].began /\ j.stage = "waiting"
    <3>1. jobs[i].try + 1 \in Nat
      BY <2>1 DEF Job
    <3> QED
      BY <2>1, <3>1 DEF Job
  <2> HIDE DEF j
  <2>4. Adjoins(j) /\ (WindowInv => Prompt(j))
    BY <2>1, <2>3 DEF Prompt, Adjoins
  <2> QED
    BY <1>1, <2>2, <2>3, <2>4, ChangeKeeps DEF Window!Fail
<1>2. CASE ~(jobs[i].try < Attempts)
  BY <1>2, NothingKeeps DEF Window!Fail
<1> QED
  BY <1>1, <1>2

LEMMA WindowStep ==
  ASSUME Sizes, ToldInv, [Window!Next]_(Window!vars)
  PROVE  ToldInv' /\ (Roomy /\ WindowInv => WindowInv')
<1>1. CASE UNCHANGED Window!vars
  <2>1. ToldInv'
    BY <1>1 DEF Window!vars, ToldInv, WindowTyped, Window!NothingUntold, Adjoins
  <2>2. WindowInv => WindowInv'
    BY <1>1 DEF Window!vars, WindowInv, StampIsLast, KeptUp, Pending, Prompt, Window!Due
  <2> QED
    BY <2>1, <2>2
<1>2. CASE Window!Turn \/ Window!Retry
  BY <1>2, ClaimKeeps
<1>3. ASSUME NEW i \in DOMAIN jobs, Window!Nothing(i) PROVE ToldInv' /\ (WindowInv => WindowInv')
  BY <1>3, NothingKeeps DEF Window!Nothing
<1> QED
  BY <1>1, <1>2, <1>3, ReadOldKeeps, AnswerKeeps, FailKeeps DEF Window!Next

LEMMA ToldAlways == ASSUME Sizes PROVE Window!Spec => []ToldInv
<1>1. ToldInv /\ [Window!Next]_(Window!vars) => ToldInv'
  BY WindowStep
<1> QED
  BY <1>1, WindowInit, PTL DEF Window!Spec

LEMMA WindowAlways == ASSUME Sizes, Roomy PROVE Window!Spec => [](ToldInv /\ WindowInv)
<1>1. ToldInv /\ WindowInv /\ [Window!Next]_(Window!vars) => ToldInv' /\ WindowInv'
  BY WindowStep
<1> QED
  BY <1>1, WindowInit, PTL DEF Window!Spec

\* compressor.py MIN_GAP_BETWEEN_COMPRESSIONS, orchestrator.py _claim_compression: for every gap,
\* threshold and number of messages kept, as many compactions in a row as the ceiling of the window
\* leaves room for may come to nothing, turns may be told anew, and still no message that has not
\* been compacted is cut off.
THEOREM WindowsAreWhole == ASSUME Sizes, Roomy PROVE Window!Spec => []Window!WindowIsWhole
<1>1. ToldInv /\ WindowInv => Window!WindowIsWhole
  <2> SUFFICES ASSUME ToldInv, WindowInv PROVE 2 * round - 1 - cut <= HardCap
    BY DEF Window!WindowIsWhole, Window!Written
  <2> DEFINE x == failed * Gap
             y == (Lapses + 1) * Gap
  <2>1. WindowTyped
    BY DEF ToldInv
  <2>2. x \in Nat /\ x + Gap <= y /\ y \in Int
    BY <2>1, Gaps DEF WindowTyped, Sizes
  <2>3. /\ round \in Nat /\ stamp \in Nat /\ cut \in Nat /\ Keep \in Nat /\ Gap \in Nat /\ Lag \in Nat /\ HardCap \in Nat
        /\ Early \in Nat /\ Lag < Gap /\ 2 * (Early + 1 - Gap) <= Keep + 1 /\ Keep + 2 * (y + Lag) <= HardCap
    BY <2>1 DEF WindowTyped, Sizes, Roomy
  <2>4. /\ round <= Early \/ round - stamp < Gap
        /\ cut + Keep >= 2 * (stamp - x - Pending) - 1
    BY DEF WindowInv, StampIsLast, KeptUp
  <2> HIDE DEF x, y
  <2>5. CASE round <= Early
    BY <2>2, <2>3, <2>5
  <2>6. CASE round - stamp < Gap /\ jobs = <<>>
    <3>1. cut + Keep >= 2 * (stamp - x) - 1
      BY <2>2, <2>3, <2>4, <2>6 DEF Pending
    <3> QED
      BY <2>2, <2>3, <2>6, <3>1
  <2>7. CASE jobs # <<>>
    <3>1. Prompt(jobs[1])
      BY <2>1, <2>7 DEF WindowTyped, WindowInv
    <3>2. round - stamp <= Lag /\ cut + Keep >= 2 * (stamp - x - Gap) - 1
      BY <2>4, <2>7, <3>1 DEF Prompt, Pending
    <3> QED
      BY <2>2, <2>3, <3>2
  <2> QED
    BY <2>4, <2>5, <2>6, <2>7
<1> QED
  BY <1>1, WindowAlways, PTL

\* orchestrator.py _run_compression: whatever fails, is tried again or overlaps, a message leaves the
\* window only with a segment that tells it, and that segment only when newer ones push it out.
THEOREM NothingGoesUntold == ASSUME Sizes PROVE Window!Spec => []Window!NothingUntold
<1>1. ToldInv => Window!NothingUntold
  BY DEF ToldInv
<1> QED
  BY <1>1, ToldAlways, PTL

(***************************************************************************)
(* What is made of the director's answer (DirectorAnswer).  How often it   *)
(* was asked and what went wrong is bound together step by step; what is   *)
(* taken over of a list is a recursive function, followed item by item.    *)
(***************************************************************************)
CONSTANTS Ghost, Happenings, Unknown, Roles, Secondary, Odd, MaxActive, MaxOffstage, Recalls, Longest

VARIABLES world, first, recall, attempt, look, given, counted, failures, at

Answering == INSTANCE DirectorAnswer WITH
    None <- Nobody, Events <- Happenings, round <- look, result <- given

\* At least one attempt; the role that is given by default is one.
Scenes ==
    /\ MaxActive \in Nat /\ MaxOffstage \in Nat /\ Longest \in Nat
    /\ Attempts \in Nat \ {0} /\ Secondary \in Roles

\* While it is asked there is a failure for every attempt before, and the first one was to read;
\* so were all of them if the tool was the first choice.
Counted ==
    /\ first \in {"json", "tool"} /\ attempt \in 1..Attempts
    /\ counted \in Seq({"success", "retried", "failed"}) /\ failures \in Seq({"read", "call"})
    /\ at \in {"asking", "answered", "unreadable", "upstream", "raised"}
    /\ at = "asking" => /\ counted = << >> /\ Len(failures) = attempt - 1
                        /\ attempt > 1 => failures[1] = "read"
                        /\ first = "tool" => \A i \in 1..(attempt - 1) : failures[i] = "read"

AskingInv == Counted /\ Answering!AnswerIsPlayable /\ Answering!FailureIsNamed

\* Induction over the numbers, for a set of them.
LEMMA NumberInduction ==
  ASSUME NEW N, 0 \in N, \A n \in Nat : n \in N => n + 1 \in N
  PROVE  \A n \in Nat : n \in N
<1> DEFINE B == Nat \ N
<1>1. ASSUME B # {} PROVE FALSE
  <2>1. PICK n \in B : \A m \in B : <<m, n>> \notin OpToRel(<, Nat)
    BY <1>1, NatLessThanWellFounded, WFMin, B \subseteq Nat
  <2>2. \A m \in B : ~(m < n)
    BY <2>1 DEF OpToRel
  <2>3. n \in Nat /\ n # 0
    BY <2>1
  <2>4. n - 1 \in Nat /\ n - 1 < n /\ (n - 1) + 1 = n
    BY <2>3
  <2> QED
    BY <2>1, <2>2, <2>3, <2>4
<1> QED
  BY <1>1

\* What the loops of the validators have kept after k items.
Keeps(f, list, S, n) ==
    f = [k \in 0..n |->
          IF k = 0 THEN << >>
          ELSE IF list[k] \in S \ Answering!ToSet(f[k - 1]) THEN Append(f[k - 1], list[k]) ELSE f[k - 1]]

LEMMA KeepingExists ==
  ASSUME NEW list, NEW S
  PROVE  \A n \in Nat : \E f : Keeps(f, list, S, n)
<1> DEFINE N == {n \in Nat : \E f : Keeps(f, list, S, n)}
           Step(g, k) == IF k = 0 THEN << >>
                         ELSE IF list[k] \in S \ Answering!ToSet(g[k - 1]) THEN Append(g[k - 1], list[k]) ELSE g[k - 1]
<1>1. 0 \in N
  <2>1. Keeps([k \in 0..0 |-> << >>], list, S, 0)
    BY DEF Keeps
  <2> QED
    BY <2>1
<1>2. ASSUME NEW n \in Nat, n \in N PROVE n + 1 \in N
  <2>1. PICK f : Keeps(f, list, S, n)
    BY <1>2
  <2> DEFINE next == [k \in 0..(n + 1) |-> IF k \in 0..n THEN f[k] ELSE Step(f, k)]
  <2>2. \A k \in 0..n : f[k] = Step(f, k)
    BY <2>1 DEF Keeps
  <2>3. ASSUME NEW k \in 0..(n + 1) PROVE next[k] = Step(next, k)
    <3>1. CASE k = 0
      BY <2>2, <3>1
    <3>2. CASE k # 0
      <4>1. k - 1 \in 0..n /\ k - 1 \in 0..(n + 1)
        BY <3>2
      <4>2. next[k - 1] = f[k - 1]
        BY <4>1
      <4>3. Step(next, k) = Step(f, k)
        BY <3>2, <4>2
      <4>4. next[k] = Step(f, k)
        <5> HIDE DEF Step
        <5> QED
          BY <2>2
      <4> QED
        BY <4>3, <4>4
    <3> QED
      BY <3>1, <3>2
  <2>4. next = [k \in 0..(n + 1) |-> Step(next, k)]
    <3> HIDE DEF Step
    <3> QED
      BY <2>3
  <2>5. Keeps(next, list, S, n + 1)
    <3> HIDE DEF next
    <3> QED
      BY <2>4 DEF Keeps
  <2> QED
    BY <2>5
<1> QED
  <2> HIDE DEF N
  <2>1. \A n \in Nat : n \in N
    BY <1>1, <1>2, NumberInduction
  <2> QED
    BY <2>1 DEF N

\* One more item: the set of the items has one more.
LEMMA OneItemMore ==
  ASSUME NEW S, NEW list \in Seq(S), NEW x \in S
  PROVE  Answering!ToSet(Append(list, x)) = Answering!ToSet(list) \cup {x}
<1> DEFINE longer == Append(list, x)
<1>1. Len(list) \in Nat /\ DOMAIN list = 1..Len(list) /\ DOMAIN longer = 1..(Len(list) + 1)
  OBVIOUS
<1>2. (\A i \in 1..Len(list) : longer[i] = list[i]) /\ longer[Len(list) + 1] = x
  OBVIOUS
<1>3. 1..(Len(list) + 1) = (1..Len(list)) \cup {Len(list) + 1}
  BY <1>1
<1>4. {longer[i] : i \in 1..(Len(list) + 1)} = {longer[i] : i \in 1..Len(list)} \cup {longer[Len(list) + 1]}
  BY <1>3
<1>5. {longer[i] : i \in 1..Len(list)} = {list[i] : i \in 1..Len(list)}
  BY <1>2
<1> QED
  BY <1>1, <1>2, <1>4, <1>5 DEF Answering!ToSet

\* The director's model counts as the lemmas on finite sets do.
LEMMA CountsAlike ==
  ASSUME NEW S
  PROVE  Answering!Cardinality(S) = Cardinality(S)
BY DEF Answering!Cardinality, Cardinality

\* What is kept is in S, and no item is there twice.
LEMMA KeptOnce ==
  ASSUME NEW list, Len(list) \in Nat, NEW S
  PROVE  LET clean == Answering!Cleaned(list, S)
         IN  /\ clean \in Seq(S) /\ Answering!ToSet(clean) \subseteq S
             /\ Cardinality(Answering!ToSet(clean)) = Len(clean)
<1> DEFINE n == Len(list)
           f == CHOOSE g : Keeps(g, list, S, n)
           set(k) == Answering!ToSet(f[k])
           Good(k) == f[k] \in Seq(S) /\ set(k) \subseteq S /\ IsFiniteSet(set(k)) /\ Cardinality(set(k)) = Len(f[k])
           N == {k \in Nat : k =< n => Good(k)}
<1>1. Keeps(f, list, S, n)
  BY KeepingExists
<1>2. Answering!Cleaned(list, S) = f[n]
  BY DEF Answering!Cleaned, Keeps
<1> HIDE DEF f
<1>3. \A k \in 0..n : f[k] = IF k = 0 THEN << >>
                             ELSE IF list[k] \in S \ Answering!ToSet(f[k - 1]) THEN Append(f[k - 1], list[k]) ELSE f[k - 1]
  BY <1>1 DEF Keeps
<1>4. 0 \in N
  <2>1. f[0] = << >> /\ << >> \in Seq(S) /\ Len(<< >>) = 0
    BY <1>3
  <2>2. set(0) = {}
    BY <2>1 DEF Answering!ToSet
  <2> QED
    BY <2>1, <2>2, FS_EmptySet
<1>5. ASSUME NEW k \in Nat, k \in N PROVE k + 1 \in N
  <2> SUFFICES ASSUME k + 1 =< n PROVE Good(k + 1)
    OBVIOUS
  <2>1. Good(k)
    BY <1>5
  <2>2. f[k + 1] = IF list[k + 1] \in S \ set(k) THEN Append(f[k], list[k + 1]) ELSE f[k]
    BY <1>3
  <2>3. CASE list[k + 1] \in S \ set(k)
    <3>1. f[k + 1] = Append(f[k], list[k + 1])
      BY <2>2, <2>3
    <3>2. f[k + 1] \in Seq(S) /\ Len(f[k + 1]) = Len(f[k]) + 1
      BY <2>1, <2>3, <3>1
    <3>3. set(k + 1) = set(k) \cup {list[k + 1]}
      BY <2>1, <2>3, <3>1, OneItemMore
    <3>4. IsFiniteSet(set(k + 1)) /\ Cardinality(set(k + 1)) = Cardinality(set(k)) + 1
      <4>1. IsFiniteSet(set(k)) /\ list[k + 1] \notin set(k)
        BY <2>1, <2>3
      <4> HIDE DEF set, Good
      <4>2. IsFiniteSet(set(k) \cup {list[k + 1]}) /\ Cardinality(set(k) \cup {list[k + 1]}) = Cardinality(set(k)) + 1
        BY <4>1, FS_AddElement
      <4> QED
        BY <3>3, <4>2
    <3> QED
      BY <2>1, <2>3, <3>2, <3>3, <3>4
  <2>4. CASE list[k + 1] \notin S \ set(k)
    BY <2>1, <2>2, <2>4
  <2> QED
    BY <2>3, <2>4
<1>6. n \in N
  <2> HIDE DEF N
  <2> QED
    BY <1>4, <1>5, NumberInduction
<1> QED
  BY <1>2, <1>6

\* No more of it than may be.
LEMMA CutFits ==
  ASSUME NEW S, NEW list \in Seq(S), NEW n \in Nat
  PROVE  /\ Answering!Cut(list, n) \in Seq(S) /\ Len(Answering!Cut(list, n)) =< n
         /\ Answering!ToSet(Answering!Cut(list, n)) \subseteq Answering!ToSet(list)
<1> DEFINE m == IF Len(list) < n THEN Len(list) ELSE n
           front == SubSeq(list, 1, m)
<1>1. m \in Nat /\ m =< Len(list) /\ m =< n
  OBVIOUS
<1> HIDE DEF m
<1>2. front \in Seq(S) /\ Len(front) = m /\ \A i \in 1..m : front[i] = list[i]
  BY <1>1
<1>3. \A i \in DOMAIN front : i \in DOMAIN list /\ front[i] = list[i]
  BY <1>1, <1>2
<1>4. Answering!Cut(list, n) = front
  BY DEF Answering!Cut, m
<1> HIDE DEF front
<1> QED
  BY <1>1, <1>2, <1>3, <1>4 DEF Answering!ToSet

\* Whatever is answered, what is made of it can be played.
LEMMA ResultIsPlayable ==
  ASSUME Scenes, NEW answer \in Answering!Answers
  PROVE  LET made == Answering!BuildResult(answer)
         IN  /\ world.npcs # {} => Answering!ToSet(made.active) \cup Answering!ToSet(made.offstage) \subseteq world.npcs
             /\ Len(made.active) =< MaxActive
             /\ DOMAIN made.focus = Answering!ToSet(made.active) /\ DOMAIN made.role = Answering!ToSet(made.active)
             /\ \A n \in DOMAIN made.role : made.role[n] \in Roles
             /\ Answering!ToSet(made.offstage) \cap Answering!ToSet(made.active) = {}
             /\ world.events # {} => Answering!ToSet(made.intent) \subseteq world.events
             /\ Answering!ToSet(made.intent) \cap world.fired = {}
             /\ Cardinality(Answering!ToSet(made.intent)) = Len(made.intent)
<1> DEFINE active == Answering!Active(answer.active)
<1>1. ASSUME NEW T, NEW list \in Answering!Upto(T, Longest) PROVE Len(list) \in Nat
  <2>1. PICK k \in 0..Longest : list \in [1..k -> T]
    BY DEF Answering!Upto
  <2>2. k \in Nat
    BY DEF Scenes
  <2> QED
    BY <2>1, <2>2
<1>2. Len(answer.active) \in Nat /\ Len(answer.offstage) \in Nat /\ Len(answer.intent) \in Nat
  BY <1>1 DEF Answering!Answers
<1>3. Len(active) =< MaxActive /\ (world.npcs # {} => Answering!ToSet(active) \subseteq world.npcs)
  <2> DEFINE S == Answering!Allowed(answer.active, world.npcs)
             clean == Answering!Cleaned(answer.active, S)
  <2>1. clean \in Seq(S) /\ (world.npcs # {} => Answering!ToSet(clean) \subseteq world.npcs)
    <3>1. world.npcs # {} => S \subseteq world.npcs
      BY DEF Answering!Allowed
    <3> HIDE DEF S
    <3>2. /\ clean \in Seq(S) /\ Answering!ToSet(clean) \subseteq S
          /\ Cardinality(Answering!ToSet(clean)) = Len(clean)
      BY <1>2, KeptOnce
    <3> HIDE DEF clean
    <3> QED
      BY <3>1, <3>2
  <2>2. active = Answering!Cut(clean, MaxActive)
    BY DEF Answering!Active
  <2> HIDE DEF S, clean, active
  <2>3. MaxActive \in Nat
    BY DEF Scenes
  <2> QED
    BY <2>1, <2>2, <2>3, CutFits
<1>4. LET off == Answering!ToSet(Answering!Offstage(active, answer.offstage))
      IN  off \cap Answering!ToSet(active) = {} /\ (world.npcs # {} => off \subseteq world.npcs)
  <2> DEFINE S == Answering!Allowed(answer.offstage, world.npcs) \ Answering!ToSet(active)
             clean == Answering!Cleaned(answer.offstage, S)
  <2>1. clean \in Seq(S) /\ Answering!ToSet(clean) \subseteq S
        /\ (world.npcs # {} => Answering!ToSet(clean) \subseteq world.npcs)
    <3>1. world.npcs # {} => S \subseteq world.npcs
      BY DEF Answering!Allowed
    <3> HIDE DEF S
    <3>2. /\ clean \in Seq(S) /\ Answering!ToSet(clean) \subseteq S
          /\ Cardinality(Answering!ToSet(clean)) = Len(clean)
      BY <1>2, KeptOnce
    <3> HIDE DEF clean
    <3> QED
      BY <3>1, <3>2
  <2>2. Answering!ToSet(Answering!Cut(clean, MaxOffstage)) \subseteq Answering!ToSet(clean)
    <3> HIDE DEF S, clean
    <3>1. MaxOffstage \in Nat
      BY DEF Scenes
    <3> QED
      BY <2>1, <3>1, CutFits
  <2>3. Answering!Offstage(active, answer.offstage) = Answering!Cut(clean, MaxOffstage)
    BY DEF Answering!Offstage
  <2>4. S \cap Answering!ToSet(active) = {}
    OBVIOUS
  <2> HIDE DEF S, clean, active
  <2> QED
    BY <2>1, <2>2, <2>3, <2>4
<1>5. /\ world.events # {} => Answering!ToSet(Answering!Intent(answer.intent)) \subseteq world.events
      /\ Answering!ToSet(Answering!Intent(answer.intent)) \cap world.fired = {}
      /\ Cardinality(Answering!ToSet(Answering!Intent(answer.intent))) = Len(Answering!Intent(answer.intent))
  <2> DEFINE S == Answering!Allowed(answer.intent, world.events) \ world.fired
             clean == Answering!Cleaned(answer.intent, S)
  <2>1. /\ Answering!ToSet(clean) \subseteq S /\ Cardinality(Answering!ToSet(clean)) = Len(clean)
        /\ world.events # {} => Answering!ToSet(clean) \subseteq world.events
    <3>1. world.events # {} => S \subseteq world.events
      BY DEF Answering!Allowed
    <3> HIDE DEF S
    <3>2. /\ clean \in Seq(S) /\ Answering!ToSet(clean) \subseteq S
          /\ Cardinality(Answering!ToSet(clean)) = Len(clean)
      BY <1>2, KeptOnce
    <3> HIDE DEF clean
    <3> QED
      BY <3>1, <3>2
  <2>2. Answering!Intent(answer.intent) = clean /\ S \cap world.fired = {}
    BY DEF Answering!Intent
  <2> HIDE DEF S, clean
  <2> QED
    BY <2>1, <2>2
<1>6. \A n \in Answering!ToSet(active) : Answering!RoleOf(active, answer.told)[n] \in Roles
  BY DEF Scenes, Answering!RoleOf
<1> HIDE DEF active
<1> QED
  BY <1>3, <1>4, <1>5, <1>6 DEF Answering!BuildResult, Answering!Focus, Answering!RoleOf, active

-----------------------------------------------------------------------------
LEMMA AskingInit == Scenes /\ Answering!Init => AskingInv
BY DEF Scenes, Answering!Init, AskingInv, Counted, Answering!AnswerIsPlayable, Answering!FailureIsNamed

LEMMA AcceptKeeps ==
  ASSUME Scenes, AskingInv, at = "asking", NEW answer \in Answering!Answers, Answering!Accept(answer)
  PROVE  AskingInv'
<1>1. Answering!AnswerIsPlayable'
  <2>1. given' = Answering!BuildResult(answer) /\ world' = world
    BY DEF Answering!Accept
  <2>2. Cardinality(Answering!ToSet(given'.intent)) = Len(given'.intent)
    BY <2>1, ResultIsPlayable
  <2> QED
    BY <2>1, <2>2, ResultIsPlayable, CountsAlike DEF Answering!AnswerIsPlayable
<1>2. Counted' /\ Answering!FailureIsNamed'
  BY DEF AskingInv, Counted, Answering!Accept, Answering!FailureIsNamed
<1> QED
  BY <1>1, <1>2 DEF AskingInv

\* One attempt is over; the first one only because nothing could be read.
LEMMA GoOnKeeps ==
  ASSUME Scenes, AskingInv, at = "asking", NEW why \in {"read", "call"},
         why = "call" => attempt > 1 /\ first = "json", Answering!GoOn(why)
  PROVE  AskingInv'
<1>1. failures' = Append(failures, why) /\ failures' \in Seq({"read", "call"}) /\ Len(failures') = attempt
  BY DEF AskingInv, Counted, Answering!GoOn
<1>2. failures'[1] = "read"
  <2>1. CASE attempt = 1
    BY <1>1, <2>1 DEF AskingInv, Counted
  <2>2. CASE attempt > 1
    <3>1. Len(failures) >= 1 /\ failures[1] = "read"
      BY <2>2 DEF AskingInv, Counted
    <3> QED
      BY <1>1, <3>1 DEF AskingInv, Counted
  <2> QED
    BY <2>1, <2>2 DEF AskingInv, Counted
<1>5. first = "tool" => \A i \in 1..attempt : failures'[i] = "read"
  <2>1. attempt \in Nat /\ Len(failures) = attempt - 1 /\ failures \in Seq({"read", "call"})
    BY DEF AskingInv, Counted, Scenes
  <2> QED
    BY <1>1, <2>1 DEF AskingInv, Counted
<1>3. Answering!AnswerIsPlayable'
  <2>1. at' \in {"asking", "unreadable"}
    BY DEF Answering!GoOn
  <2> QED
    BY <2>1 DEF Answering!AnswerIsPlayable
<1>4. CASE attempt < Attempts
  <2>1. /\ at' = "asking" /\ attempt' = attempt + 1 /\ UNCHANGED <<first, counted>>
        /\ attempt + 1 \in 1..Attempts /\ attempt' - 1 = attempt
    BY <1>4 DEF Scenes, AskingInv, Counted, Answering!GoOn
  <2> QED
    BY <1>1, <1>2, <1>3, <1>5, <2>1 DEF AskingInv, Counted, Answering!FailureIsNamed
<1>6. CASE ~(attempt < Attempts)
  <2>1. /\ at' = "unreadable" /\ attempt' = attempt /\ first' = first /\ counted' = <<"failed">>
        /\ attempt = Attempts
    BY <1>6 DEF Scenes, AskingInv, Counted, Answering!GoOn
  <2> QED
    BY <1>1, <1>2, <1>3, <2>1 DEF AskingInv, Counted, Answering!FailureIsNamed
<1> QED
  BY <1>4, <1>6

LEMMA RaiseKeeps ==
  ASSUME Scenes, AskingInv, Answering!Raise
  PROVE  AskingInv'
<1>1. CASE Answering!Escalated
  BY <1>1, GoOnKeeps DEF Answering!Raise, Answering!Escalated
<1>2. CASE ~Answering!Escalated
  <2>1. /\ at = "asking" /\ at' = IF first = "json" THEN "upstream" ELSE "raised"
        /\ failures' = Append(failures, "call")
        /\ UNCHANGED <<world, first, attempt, given, counted>>
    BY <1>2 DEF Answering!Raise, Answering!Mode
  <2>2. /\ attempt \in Nat \ {0} /\ failures \in Seq({"read", "call"}) /\ Len(failures) = attempt - 1
        /\ failures' \in Seq({"read", "call"}) /\ Len(failures') = attempt /\ failures'[attempt] = "call"
        /\ \A i \in 1..(attempt - 1) : failures'[i] = failures[i]
    BY <2>1 DEF AskingInv, Counted, Scenes
  <2>3. CASE first = "json"
    <3>1. attempt = 1
      BY <1>2, <2>1, <2>2, <2>3 DEF Answering!Escalated
    <3>2. failures' = <<"call">>
      BY <2>1, <2>2, <3>1
    <3> QED
      BY <2>1, <2>2, <2>3, <3>2 DEF AskingInv, Counted, Answering!AnswerIsPlayable, Answering!FailureIsNamed
  <2>4. CASE first = "tool"
    <3>1. \A i \in 1..(attempt - 1) : failures'[i] = "read"
      BY <2>1, <2>2, <2>4 DEF AskingInv, Counted
    <3> QED
      BY <2>1, <2>2, <2>4, <3>1 DEF AskingInv, Counted, Answering!AnswerIsPlayable, Answering!FailureIsNamed
  <2> QED
    BY <2>3, <2>4 DEF AskingInv, Counted
<1> QED
  BY <1>1, <1>2

LEMMA AskingStep == Scenes /\ AskingInv /\ [Answering!Next]_(Answering!vars) => AskingInv'
<1> SUFFICES ASSUME Scenes, AskingInv, [Answering!Next]_(Answering!vars) PROVE AskingInv'
  OBVIOUS
<1>1. CASE UNCHANGED Answering!vars
  BY <1>1 DEF Answering!vars, AskingInv, Counted, Answering!AnswerIsPlayable, Answering!FailureIsNamed
<1>2. ASSUME NEW answer \in Answering!Answers, NEW complete \in BOOLEAN, Answering!ReadJson(answer, complete) PROVE AskingInv'
  BY <1>2, AcceptKeeps, GoOnKeeps DEF Answering!ReadJson
<1>3. ASSUME NEW answer \in Answering!Answers, Answering!UseTool(answer) PROVE AskingInv'
  BY <1>3, AcceptKeeps DEF Answering!UseTool
<1>4. CASE Answering!NoJson \/ Answering!NoTool
  BY <1>4, GoOnKeeps DEF Answering!NoJson, Answering!NoTool
<1>5. CASE Answering!Recall
  <2>1. CASE look < Recalls
    BY <1>5, <2>1 DEF Answering!Recall, AskingInv, Counted, Answering!AnswerIsPlayable, Answering!FailureIsNamed
  <2>2. CASE ~(look < Recalls)
    BY <1>5, <2>2, GoOnKeeps DEF Answering!Recall
  <2> QED
    BY <2>1, <2>2
<1>6. CASE Answering!Raise
  BY <1>6, RaiseKeeps
<1> QED
  BY <1>1, <1>2, <1>3, <1>4, <1>5, <1>6 DEF Answering!Next

\* director_agent.py _build_result_v2, director_validator.py: for any cast, any events, none of
\* either included, and answers of any length, a turn can be played by what is made of the answer: who
\* is in the scene knows his place and is nowhere else, and exists if anybody does; what is to happen
\* has not happened, and exists if any event does.
THEOREM AnswersArePlayable == ASSUME Scenes PROVE Answering!Spec => []Answering!AnswerIsPlayable
<1>1. AskingInv => Answering!AnswerIsPlayable
  BY DEF AskingInv
<1> QED
  BY <1>1, AskingInit, AskingStep, PTL DEF Answering!Spec

\* director_agent.py run_v2: for any number of attempts, a turn without a director fails as unreadable,
\* as the provider's failure or with an exception that has no name, each only for its own reason, and
\* one outcome is counted for it unless the call itself failed.
THEOREM FailuresAreNamed == ASSUME Scenes PROVE Answering!Spec => []Answering!FailureIsNamed
<1>1. AskingInv => Answering!FailureIsNamed
  BY DEF AskingInv
<1> QED
  BY <1>1, AskingInit, AskingStep, PTL DEF Answering!Spec
-----------------------------------------------------------------------------
(***************************************************************************)
(* Before the NPCs act, what they remember is read for all of them at once *)
(* (Recall).  There is one way to put rows in the order of the query, so   *)
(* what a bucket keeps of the whole cast's rows is the NPC's own; the      *)
(* walks that stop are followed item by item beside those that do not.     *)
(***************************************************************************)
CONSTANTS Limit, Wider, Searched, Rows, Lines

VARIABLES memories, said

Recalling == INSTANCE Recall

Sized == Limit \in Nat /\ Wider \in Nat /\ Searched \in Nat

SessionInv == memories \in Seq(Recalling!Memory) /\ said \in Seq(SUBSET Npcs)

\* Each row is better than the rows after it.
Falls(s) == \A k, l \in DOMAIN s : k < l => Recalling!Better(s[k], s[l])

\* The order of the query, as one of numbers.
Key(i) == IF memories[i].importance = 2 THEN Len(memories) + i ELSE i

LEMMA BetterByKey ==
  ASSUME SessionInv
  PROVE  /\ \A i \in DOMAIN memories : Key(i) \in Nat
         /\ \A i, j \in DOMAIN memories : /\ Recalling!Better(i, j) <=> Key(i) > Key(j)
                                          /\ Key(i) = Key(j) => i = j
<1>1. Len(memories) \in Nat /\ DOMAIN memories = 1..Len(memories)
  BY DEF SessionInv
<1>2. \A i \in DOMAIN memories : memories[i].importance \in 1..2
  <2>1. \A i \in DOMAIN memories : memories[i] \in Recalling!Memory
    BY DEF SessionInv
  <2> QED
    BY <2>1 DEF Recalling!Memory
<1>3. \A i \in DOMAIN memories : memories[i].importance = 1 \/ memories[i].importance = 2
  BY <1>2
<1> QED
  BY <1>1, <1>3 DEF Key, Recalling!Better

\* Rows can be put in order in one way only.
LEMMA OneOrder ==
  ASSUME SessionInv, NEW S, S \subseteq DOMAIN memories,
         NEW s \in Seq(S), Falls(s), \A x \in S : \E k \in DOMAIN s : s[k] = x,
         NEW t \in Seq(S), Falls(t), \A x \in S : \E k \in DOMAIN t : t[k] = x
  PROVE  s = t
<1> DEFINE m == Len(s)
           n == Len(t)
           Same(k) == \A i \in 1..k : i \in DOMAIN s /\ i \in DOMAIN t => s[i] = t[i]
           N == {k \in Nat : Same(k)}
<1>0. /\ m \in Nat /\ DOMAIN s = 1..m /\ \A k \in 1..m : s[k] \in S
      /\ n \in Nat /\ DOMAIN t = 1..n /\ \A k \in 1..n : t[k] \in S
  OBVIOUS
<1>1. /\ \A k \in DOMAIN s, l \in DOMAIN s : k < l => Key(s[k]) > Key(s[l])
      /\ \A k \in DOMAIN t, l \in DOMAIN t : k < l => Key(t[k]) > Key(t[l])
  BY <1>0, BetterByKey DEF Falls
<1>2. \A x \in S, y \in S : Key(x) \in Nat /\ (Key(x) = Key(y) => x = y)
  BY BetterByKey
<1> HIDE DEF m, n
<1>3. 0 \in N
  OBVIOUS
<1>4. ASSUME NEW k \in Nat, k \in N PROVE k + 1 \in N
  <2>1. Same(k)
    BY <1>4
  <2> SUFFICES ASSUME k + 1 \in 1..m, k + 1 \in 1..n PROVE s[k + 1] = t[k + 1]
    <3>1. \A i \in 1..(k + 1) : i \in 1..k \/ i = k + 1
      OBVIOUS
    <3>2. k + 1 \in DOMAIN s /\ k + 1 \in DOMAIN t => s[k + 1] = t[k + 1]
      BY <1>0
    <3>3. Same(k + 1)
      BY <2>1, <3>1, <3>2
    <3> QED
      BY <3>3
  <2>2. PICK p \in 1..n : t[p] = s[k + 1]
    BY <1>0
  <2>3. PICK q \in 1..m : s[q] = t[k + 1]
    BY <1>0
  <2>4. ~(p < k + 1)
    <3> SUFFICES ASSUME p < k + 1 PROVE FALSE
      OBVIOUS
    <3>1. p \in 1..k /\ p \in 1..m /\ p < k + 1
      BY <1>0
    <3>2. s[p] = t[p]
      BY <1>0, <2>1, <3>1
    <3>3. Key(s[p]) > Key(s[k + 1])
      BY <1>0, <1>1, <3>1
    <3>4. Key(s[p]) \in Nat /\ s[p] = s[k + 1]
      BY <1>0, <1>2, <2>2, <3>1, <3>2
    <3> QED
      BY <3>3, <3>4
  <2>5. ~(q < k + 1)
    <3> SUFFICES ASSUME q < k + 1 PROVE FALSE
      OBVIOUS
    <3>1. q \in 1..k /\ q \in 1..n /\ q < k + 1
      BY <1>0
    <3>2. s[q] = t[q]
      BY <1>0, <2>1, <3>1
    <3>3. Key(t[q]) > Key(t[k + 1])
      BY <1>0, <1>1, <3>1
    <3>4. Key(t[q]) \in Nat /\ t[q] = t[k + 1]
      BY <1>0, <1>2, <2>3, <3>1, <3>2
    <3> QED
      BY <3>3, <3>4
  <2>6. p = k + 1 \/ Key(t[k + 1]) > Key(s[k + 1])
    <3>1. p = k + 1 \/ k + 1 < p
      BY <1>0, <2>4
    <3>2. ASSUME k + 1 < p PROVE Key(t[k + 1]) > Key(t[p])
      BY <1>0, <1>1, <3>2
    <3> QED
      BY <2>2, <3>1, <3>2
  <2>7. q = k + 1 \/ Key(s[k + 1]) > Key(t[k + 1])
    <3>1. q = k + 1 \/ k + 1 < q
      BY <1>0, <2>5
    <3>2. ASSUME k + 1 < q PROVE Key(s[k + 1]) > Key(s[q])
      BY <1>0, <1>1, <3>2
    <3> QED
      BY <2>3, <3>1, <3>2
  <2>8. Key(s[k + 1]) \in Nat /\ Key(t[k + 1]) \in Nat
    BY <1>0, <1>2
  <2>9. CASE p = k + 1
    BY <2>2, <2>9
  <2>10. CASE q = k + 1
    BY <2>3, <2>10
  <2> QED
    BY <2>6, <2>7, <2>8, <2>9, <2>10
<1>5. \A k \in Nat : Same(k)
  <2>1. \A k \in Nat : k \in N
    <3> HIDE DEF N
    <3> QED
      BY <1>3, <1>4, NumberInduction
  <2> QED
    BY <2>1
<1>6. \A i \in Nat : i \in 1..m /\ i \in 1..n => s[i] = t[i]
  BY <1>0, <1>5
<1>7. ~(m < n)
  <2> SUFFICES ASSUME m < n PROVE FALSE
    OBVIOUS
  <2>1. m + 1 \in 1..n
    BY <1>0
  <2>2. PICK q \in 1..m : s[q] = t[m + 1]
    BY <1>0, <2>1
  <2>3. q \in 1..n /\ q < m + 1 /\ s[q] = t[q]
    BY <1>0, <1>6
  <2>4. Key(t[q]) > Key(t[m + 1])
    BY <1>0, <1>1, <2>1, <2>3
  <2> QED
    BY <1>0, <1>2, <2>1, <2>2, <2>3, <2>4
<1>8. ~(n < m)
  <2> SUFFICES ASSUME n < m PROVE FALSE
    OBVIOUS
  <2>1. n + 1 \in 1..m
    BY <1>0
  <2>2. PICK q \in 1..n : t[q] = s[n + 1]
    BY <1>0, <2>1
  <2>3. q \in 1..m /\ q < n + 1 /\ s[q] = t[q]
    BY <1>0, <1>6
  <2>4. Key(s[q]) > Key(s[n + 1])
    BY <1>0, <1>1, <2>1, <2>3
  <2> QED
    BY <1>0, <1>2, <2>1, <2>2, <2>3, <2>4
<1>9. m = n
  BY <1>0, <1>7, <1>8
<1> QED
  BY <1>0, <1>6, <1>9 DEF m, n

\* Rows can be put in order: the last one behind the others.
LEMMA OrderThere ==
  ASSUME SessionInv
  PROVE  \A n \in Nat : \A S \in SUBSET DOMAIN memories :
            Cardinality(S) = n => \E s \in [1..n -> S] : Falls(s)
<1> DEFINE D == DOMAIN memories
           Good(n) == \A S \in SUBSET D : Cardinality(S) = n => \E s \in [1..n -> S] : Falls(s)
           N == {n \in Nat : Good(n)}
<1>0. \A S \in SUBSET D : IsFiniteSet(S)
  <2>1. IsFiniteSet(D)
    BY FS_Interval DEF SessionInv
  <2> QED
    BY <2>1, FS_Subset
<1>1. 0 \in N
  <2>1. ASSUME NEW S \in SUBSET D PROVE \E s \in [1..0 -> S] : Falls(s)
    <3>1. << >> \in [1..0 -> S] /\ Falls(<< >>)
      BY DEF Falls
    <3> QED
      BY <3>1
  <2> QED
    BY <2>1
<1>2. ASSUME NEW n \in Nat, n \in N PROVE n + 1 \in N
  <2> SUFFICES ASSUME NEW S \in SUBSET D, Cardinality(S) = n + 1
               PROVE  \E s \in [1..(n + 1) -> S] : Falls(s)
    OBVIOUS
  <2>1. S # {}
    BY FS_EmptySet
  <2>2. \A x \in S, y \in S : Key(x) \in Nat /\ (Key(x) = Key(y) => x = y)
    BY BetterByKey
  <2>3. PICK w \in S : \A x \in S : x # w => Key(x) > Key(w)
    <3> DEFINE K == {Key(x) : x \in S}
    <3>1. K \subseteq Nat /\ K # {}
      BY <2>1, <2>2
    <3>2. PICK y \in K : \A z \in K : <<z, y>> \notin OpToRel(<, Nat)
      <4> HIDE DEF K
      <4> QED
        BY <3>1, NatLessThanWellFounded, WFMin
    <3>3. \A z \in K : ~(z < y)
      <4> HIDE DEF K
      <4> QED
        BY <3>1, <3>2 DEF OpToRel
    <3>4. PICK w \in S : y = Key(w)
      OBVIOUS
    <3>5. \A x \in S : ~(Key(x) < Key(w))
      BY <3>3, <3>4
    <3> QED
      BY <2>2, <3>5
  <2>4. PICK s \in [1..n -> S \ {w}] : Falls(s)
    <3>1. Cardinality(S \ {w}) = (n + 1) - 1 /\ S \ {w} \in SUBSET D
      BY <1>0, FS_RemoveElement
    <3>2. Good(n)
      BY <1>2
    <3> QED
      BY <3>1, <3>2
  <2> DEFINE more == [k \in 1..(n + 1) |-> IF k = n + 1 THEN w ELSE s[k]]
  <2>5. \A k \in 1..(n + 1) : k = n + 1 \/ k \in 1..n
    OBVIOUS
  <2>6. more \in [1..(n + 1) -> S]
    BY <2>5
  <2>7. ASSUME NEW k \in 1..(n + 1), NEW l \in 1..(n + 1), k < l
        PROVE  Recalling!Better(more[k], more[l])
    <3>1. k \in 1..n /\ more[k] = s[k] /\ s[k] \in S /\ s[k] # w
      BY <2>7
    <3>2. CASE l = n + 1
      <4>1. Key(s[k]) > Key(w)
        BY <2>3, <3>1
      <4>2. Recalling!Better(s[k], w)
        BY <3>1, <4>1, BetterByKey
      <4> QED
        BY <3>1, <3>2, <4>2
    <3>3. CASE l \in 1..n
      <4>1. more[l] = s[l]
        BY <3>3
      <4> QED
        BY <2>4, <2>7, <3>1, <3>3, <4>1 DEF Falls
    <3> QED
      BY <2>5, <3>2, <3>3
  <2>8. Falls(more)
    BY <2>7 DEF Falls
  <2> HIDE DEF more
  <2> QED
    BY <2>6, <2>8
<1> QED
  <2>1. \A n \in Nat : n \in N
    <3> HIDE DEF N
    <3> QED
      BY <1>1, <1>2, NumberInduction
  <2> QED
    BY <2>1

\* The query returns each row, in the order.
LEMMA OrderedAre ==
  ASSUME SessionInv, NEW some
  PROVE  LET s == Recalling!Ordered(some)
         IN  /\ s \in Seq(Recalling!Of(some)) /\ Falls(s)
             /\ \A x \in Recalling!Of(some) : \E k \in DOMAIN s : s[k] = x
<1> DEFINE S == Recalling!Of(some)
           n == Cardinality(S)
           s == Recalling!Ordered(some)
<1>1. S \subseteq DOMAIN memories
  BY DEF Recalling!Of
<1>2. IsFiniteSet(S) /\ n \in Nat
  <2>1. IsFiniteSet(DOMAIN memories)
    BY FS_Interval DEF SessionInv
  <2> QED
    BY <1>1, <2>1, FS_Subset, FS_CardinalityType
<1>3. \E t \in [1..n -> S] : Falls(t)
  <2> HIDE DEF S
  <2> QED
    BY <1>1, <1>2, OrderThere
<1>4. s \in [1..n -> S] /\ Falls(s)
  <2>1. Recalling!Cardinality(S) = n
    BY DEF Recalling!Cardinality, Cardinality
  <2> QED
    BY <1>3, <2>1 DEF Recalling!Ordered, Falls
<1> HIDE DEF s
<1>5. s \in Injection(1..n, S)
  <2>1. \A k \in DOMAIN s, l \in DOMAIN s : k < l => Key(s[k]) > Key(s[l])
    BY <1>1, <1>4, BetterByKey DEF Falls
  <2>2. \A k \in 1..n : Key(s[k]) \in Nat
    BY <1>1, <1>4, BetterByKey
  <2>3. ASSUME NEW k \in 1..n, NEW l \in 1..n, s[k] = s[l] PROVE k = l
    <3>1. ~(k < l) /\ ~(l < k)
      BY <1>2, <1>4, <2>1, <2>2, <2>3
    <3> QED
      BY <1>2, <3>1
  <2> HIDE DEF S, n
  <2> QED
    BY <1>4, <2>3 DEF Injection, IsInjective
<1>6. s \in Surjection(1..n, S)
  <2>1. Cardinality(1..n) = n
    BY <1>2, FS_Interval
  <2> QED
    BY <1>2, <1>5, <2>1, FS_Injection
<1>7. \A x \in S : \E k \in 1..n : s[k] = x
  BY <1>6 DEF Surjection
<1> QED
  BY <1>2, <1>4, <1>7 DEF s

\* The recursions: what they begin with, and what they make of the next item.
Nothing(how, S) == IF how = "words" THEN [m \in S |-> << >>] ELSE << >>

Walked(how, made, i, S, n) ==
    CASE how = "those" -> IF i \in S THEN Append(made, i) ELSE made
      [] how = "upto"  -> IF i \in S /\ Len(made) < n THEN Append(made, i) ELSE made
      [] how = "words" -> [m \in S |-> IF i \in Recalling!With(m) /\ Len(made[m]) < n
                                       THEN Append(made[m], i) ELSE made[m]]

Walks(f, how, list, S, c, n) ==
    f = [k \in 0..n |-> IF k = 0 THEN Nothing(how, S) ELSE Walked(how, f[k - 1], list[k], S, c)]

LEMMA WalkExists ==
  ASSUME NEW how, NEW list, NEW S, NEW c
  PROVE  \A n \in Nat : \E f : Walks(f, how, list, S, c, n)
<1> DEFINE N == {n \in Nat : \E f : Walks(f, how, list, S, c, n)}
           Step(g, k) == IF k = 0 THEN Nothing(how, S) ELSE Walked(how, g[k - 1], list[k], S, c)
<1>1. 0 \in N
  <2>1. Walks([k \in 0..0 |-> Nothing(how, S)], how, list, S, c, 0)
    BY DEF Walks
  <2> QED
    BY <2>1
<1>2. ASSUME NEW n \in Nat, n \in N PROVE n + 1 \in N
  <2>1. PICK f : Walks(f, how, list, S, c, n)
    BY <1>2
  <2> DEFINE next == [k \in 0..(n + 1) |-> IF k \in 0..n THEN f[k] ELSE Step(f, k)]
  <2>2. \A k \in 0..n : f[k] = Step(f, k)
    BY <2>1 DEF Walks
  <2>3. ASSUME NEW k \in 0..(n + 1) PROVE next[k] = Step(next, k)
    <3>1. CASE k = 0
      BY <2>2, <3>1
    <3>2. CASE k # 0
      <4>1. k - 1 \in 0..n /\ k - 1 \in 0..(n + 1)
        BY <3>2
      <4>2. next[k - 1] = f[k - 1]
        BY <4>1
      <4>3. Step(next, k) = Step(f, k)
        BY <3>2, <4>2
      <4>4. next[k] = Step(f, k)
        <5> HIDE DEF Step
        <5> QED
          BY <2>2
      <4> QED
        BY <4>3, <4>4
    <3> QED
      BY <3>1, <3>2
  <2>4. next = [k \in 0..(n + 1) |-> Step(next, k)]
    <3> HIDE DEF Step
    <3> QED
      BY <2>3
  <2>5. Walks(next, how, list, S, c, n + 1)
    <3> HIDE DEF next
    <3> QED
      BY <2>4 DEF Walks
  <2> QED
    BY <2>5
<1> QED
  <2> HIDE DEF N
  <2>1. \A n \in Nat : n \in N
    BY <1>1, <1>2, NumberInduction
  <2> QED
    BY <2>1 DEF N

\* The value of each of them, item by item.
Keeping(f, s, S) ==
    /\ f[0] = << >>
    /\ \A k \in 1..Len(s) : f[k] = IF s[k] \in S THEN Append(f[k - 1], s[k]) ELSE f[k - 1]

Stopping(f, s, S, c) ==
    /\ f[0] = << >>
    /\ \A k \in 1..Len(s) : f[k] = IF s[k] \in S /\ Len(f[k - 1]) < c THEN Append(f[k - 1], s[k]) ELSE f[k - 1]

Quoting(f, s, names) ==
    /\ f[0] = [m \in names |-> << >>]
    /\ \A k \in 1..Len(s) :
          f[k] = [m \in names |-> IF s[k] \in Recalling!With(m) /\ Len(f[k - 1][m]) < Limit
                                  THEN Append(f[k - 1][m], s[k]) ELSE f[k - 1][m]]

LEMMA ThoseAre ==
  ASSUME NEW s, Len(s) \in Nat, NEW S
  PROVE  \E f : Recalling!Those(s, S) = f[Len(s)] /\ Keeping(f, s, S)
<1> DEFINE f == CHOOSE g : Walks(g, "those", s, S, 0, Len(s))
<1>1. Walks(f, "those", s, S, 0, Len(s))
  BY WalkExists
<1>2. Recalling!Those(s, S) = f[Len(s)]
  BY DEF Recalling!Those, Walks, Walked, Nothing
<1> HIDE DEF f
<1>3. \A k \in 0..Len(s) : f[k] = IF k = 0 THEN << >> ELSE IF s[k] \in S THEN Append(f[k - 1], s[k]) ELSE f[k - 1]
  BY <1>1 DEF Walks, Walked, Nothing
<1>4. Keeping(f, s, S)
  BY <1>3 DEF Keeping
<1> QED
  BY <1>2, <1>4

LEMMA UptoAre ==
  ASSUME NEW s, Len(s) \in Nat, NEW S, NEW c
  PROVE  \E f : Recalling!Upto(s, S, c) = f[Len(s)] /\ Stopping(f, s, S, c)
<1> DEFINE f == CHOOSE g : Walks(g, "upto", s, S, c, Len(s))
<1>1. Walks(f, "upto", s, S, c, Len(s))
  BY WalkExists
<1>2. Recalling!Upto(s, S, c) = f[Len(s)]
  BY DEF Recalling!Upto, Walks, Walked, Nothing
<1> HIDE DEF f
<1>3. \A k \in 0..Len(s) : f[k] = IF k = 0 THEN << >>
                                  ELSE IF s[k] \in S /\ Len(f[k - 1]) < c THEN Append(f[k - 1], s[k]) ELSE f[k - 1]
  BY <1>1 DEF Walks, Walked, Nothing
<1>4. Stopping(f, s, S, c)
  BY <1>3 DEF Stopping
<1> QED
  BY <1>2, <1>4

LEMMA WordsAre ==
  ASSUME NEW names, Len(Recalling!Recent) \in Nat
  PROVE  LET s == Recalling!Recent
         IN  \E f : Recalling!BatchWords(names) = f[Len(s)] /\ Quoting(f, s, names)
<1> DEFINE s == Recalling!Recent
           f == CHOOSE g : Walks(g, "words", s, names, Limit, Len(s))
<1>1. Walks(f, "words", s, names, Limit, Len(s))
  BY WalkExists
<1>2. Recalling!BatchWords(names) = f[Len(s)]
  BY DEF Recalling!BatchWords, Walks, Walked, Nothing
<1> HIDE DEF f, s
<1>3. \A k \in 0..Len(s) : f[k] = IF k = 0 THEN [m \in names |-> << >>]
                                  ELSE [m \in names |-> IF s[k] \in Recalling!With(m) /\ Len(f[k - 1][m]) < Limit
                                                        THEN Append(f[k - 1][m], s[k]) ELSE f[k - 1][m]]
  BY <1>1 DEF Walks, Walked, Nothing
<1>4. Quoting(f, s, names)
  <2>1. Len(s) \in Nat
    BY DEF s
  <2>2. 0 \in 0..Len(s) /\ \A k \in 1..Len(s) : k \in 0..Len(s) /\ k # 0
    BY <2>1
  <2> QED
    BY <1>3, <2>2 DEF Quoting
<1> QED
  BY <1>2, <1>4 DEF s

\* One item more in a walk that stops is one more of those it would keep without stopping.
LEMMA FirstGrows ==
  ASSUME NEW T, NEW s \in Seq(T), NEW x \in T, NEW n \in Nat
  PROVE  /\ Recalling!First(Append(s, x), n) =
              IF Len(Recalling!First(s, n)) < n THEN Append(Recalling!First(s, n), x) ELSE Recalling!First(s, n)
         /\ Recalling!First(<< >>, n) = << >>
<1> DEFINE more == Append(s, x)
<1>0. more \in Seq(T) /\ Len(more) = Len(s) + 1 /\ Len(s) \in Nat
  OBVIOUS
<1>1. Recalling!First(<< >>, n) = << >>
  BY DEF Recalling!First
<1>2. CASE Len(s) < n
  BY <1>0, <1>1, <1>2 DEF Recalling!First
<1>3. CASE Len(s) = n
  <2>1. SubSeq(more, 1, n) = s
    BY <1>3
  <2>2. Recalling!First(more, n) = SubSeq(more, 1, n) /\ Recalling!First(s, n) = s
    BY <1>0, <1>3 DEF Recalling!First
  <2> QED
    BY <1>1, <1>3, <2>1, <2>2
<1>4. CASE n < Len(s)
  <2>1. SubSeq(more, 1, n) = SubSeq(s, 1, n) /\ Len(SubSeq(s, 1, n)) = n
    BY <1>4
  <2>2. Recalling!First(more, n) = SubSeq(more, 1, n) /\ Recalling!First(s, n) = SubSeq(s, 1, n)
    BY <1>0, <1>4 DEF Recalling!First
  <2>3. ~(n < n)
    OBVIOUS
  <2> QED
    BY <1>1, <2>1, <2>2, <2>3
<1> QED
  BY <1>2, <1>3, <1>4

\* A walk that stops at n keeps the first n of those that one without a stop keeps.
LEMMA UptoIsFirst ==
  ASSUME NEW T, NEW s \in Seq(T), NEW S, NEW n \in Nat
  PROVE  /\ Recalling!Upto(s, S, n) = Recalling!First(Recalling!Those(s, S), n)
<1> DEFINE l == Len(s)
<1>0. l \in Nat /\ \A k \in 1..l : s[k] \in T
  OBVIOUS
<1>1. PICK f : Recalling!Those(s, S) = f[Len(s)] /\ Keeping(f, s, S)
  BY <1>0, ThoseAre
<1>2. PICK g : Recalling!Upto(s, S, n) = g[Len(s)] /\ Stopping(g, s, S, n)
  BY <1>0, UptoAre
<1>3. /\ f[0] = << >> /\ \A k \in 1..l : f[k] = IF s[k] \in S THEN Append(f[k - 1], s[k]) ELSE f[k - 1]
      /\ g[0] = << >>
      /\ \A k \in 1..l : g[k] = IF s[k] \in S /\ Len(g[k - 1]) < n THEN Append(g[k - 1], s[k]) ELSE g[k - 1]
  BY <1>1, <1>2 DEF Keeping, Stopping
<1> DEFINE Good(k) == f[k] \in Seq(T) /\ g[k] = Recalling!First(f[k], n)
           N == {k \in Nat : k =< l => Good(k)}
<1> HIDE DEF l
<1>4. 0 \in N
  <2>1. << >> \in Seq(T) /\ Recalling!First(<< >>, n) = << >>
    BY DEF Recalling!First
  <2> QED
    BY <1>3, <2>1
<1>5. ASSUME NEW k \in Nat, k \in N PROVE k + 1 \in N
  <2> SUFFICES ASSUME k + 1 =< l PROVE Good(k + 1)
    OBVIOUS
  <2>1. Good(k) /\ k + 1 \in 1..l /\ (k + 1) - 1 = k
    BY <1>0, <1>5
  <2>2. /\ f[k + 1] = IF s[k + 1] \in S THEN Append(f[k], s[k + 1]) ELSE f[k]
        /\ g[k + 1] = IF s[k + 1] \in S /\ Len(g[k]) < n THEN Append(g[k], s[k + 1]) ELSE g[k]
        /\ s[k + 1] \in T
    BY <1>0, <1>3, <2>1
  <2>3. CASE s[k + 1] \in S
    <3>1. f[k + 1] = Append(f[k], s[k + 1]) /\ f[k + 1] \in Seq(T)
      BY <2>1, <2>2, <2>3
    <3>2. Recalling!First(Append(f[k], s[k + 1]), n) =
             IF Len(Recalling!First(f[k], n)) < n THEN Append(Recalling!First(f[k], n), s[k + 1])
             ELSE Recalling!First(f[k], n)
      BY <2>1, <2>2, FirstGrows
    <3> QED
      BY <2>1, <2>2, <2>3, <3>1, <3>2
  <2>4. CASE s[k + 1] \notin S
    BY <2>1, <2>2, <2>4
  <2> QED
    BY <2>3, <2>4
<1>6. l \in N
  <2> HIDE DEF N
  <2> QED
    BY <1>0, <1>4, <1>5, NumberInduction
<1> QED
  BY <1>0, <1>1, <1>2, <1>6 DEF l

There(x, s) == \E k \in DOMAIN s : s[k] = x

\* What is left of rows in order is in order, and is there whole.
LEMMA ThoseFall ==
  ASSUME SessionInv, NEW D, D \subseteq DOMAIN memories, NEW s \in Seq(D), Falls(s), NEW S
  PROVE  /\ Recalling!Those(s, S) \in Seq(S) /\ Falls(Recalling!Those(s, S))
         /\ \A x \in S : There(x, s) <=> There(x, Recalling!Those(s, S))
<1> DEFINE l == Len(s)
<1>0. l \in Nat /\ DOMAIN s = 1..l /\ \A k \in 1..l : s[k] \in D
  OBVIOUS
<1>1. PICK f : Recalling!Those(s, S) = f[Len(s)] /\ Keeping(f, s, S)
  BY <1>0, ThoseAre
<1>2. /\ Recalling!Those(s, S) = f[l] /\ f[0] = << >>
      /\ \A k \in 1..l : f[k] = IF s[k] \in S THEN Append(f[k - 1], s[k]) ELSE f[k - 1]
  BY <1>1 DEF Keeping
<1> DEFINE Has(k) == \A x \in S : (\E i \in 1..k : s[i] = x) <=> (\E i \in DOMAIN f[k] : f[k][i] = x)
           Good(k) == /\ f[k] \in Seq(S) /\ Falls(f[k]) /\ Has(k)
                      /\ \A i \in DOMAIN f[k] : \E j \in 1..k : f[k][i] = s[j]
           N == {k \in Nat : k =< l => Good(k)}
<1> HIDE DEF l
<1>3. 0 \in N
  <2>1. << >> \in Seq(S) /\ Falls(<< >>) /\ DOMAIN << >> = {} /\ 1..0 = {}
    BY DEF Falls
  <2> QED
    BY <1>2, <2>1
<1>4. ASSUME NEW k \in Nat, k \in N PROVE k + 1 \in N
  <2> SUFFICES ASSUME k + 1 =< l PROVE Good(k + 1)
    <3> HIDE DEF Good
    <3> QED
      OBVIOUS
  <2>1. Good(k) /\ k + 1 \in 1..l /\ (k + 1) - 1 = k
    <3> HIDE DEF Good
    <3> QED
      BY <1>0, <1>4
  <2>2. f[k + 1] = IF s[k + 1] \in S THEN Append(f[k], s[k + 1]) ELSE f[k]
    BY <1>0, <1>2, <2>1
  <2>3. \A i \in 1..(k + 1) : i \in 1..k \/ i = k + 1
    OBVIOUS
  <2>4. \A i \in 1..k : i \in 1..(k + 1)
    OBVIOUS
  <2>5. CASE s[k + 1] \in S
    <3> DEFINE m == Len(f[k])
    <3>0. m \in Nat /\ DOMAIN f[k] = 1..m /\ \A i \in 1..m : f[k][i] \in S
      BY <2>1
    <3>1. /\ f[k + 1] \in Seq(S) /\ DOMAIN f[k + 1] = 1..(m + 1)
          /\ f[k + 1][m + 1] = s[k + 1] /\ \A i \in 1..m : f[k + 1][i] = f[k][i]
      BY <2>1, <2>2, <2>5
    <3> HIDE DEF m
    <3>2. \A i \in 1..(m + 1) : i \in 1..m \/ i = m + 1
      BY <3>0
    <3>3. m + 1 \in 1..(m + 1) /\ \A i \in 1..m : i \in 1..(m + 1)
      BY <3>0
    <3>4. \A i \in 1..m : \E j \in 1..k : f[k][i] = s[j]
      BY <2>1, <3>0
    <3>5. \A i \in 1..(m + 1) : \E j \in 1..(k + 1) : f[k + 1][i] = s[j]
      BY <2>1, <2>4, <3>1, <3>2, <3>4
    <3>6. ASSUME NEW i \in 1..(m + 1), NEW j \in 1..(m + 1), i < j
          PROVE  Recalling!Better(f[k + 1][i], f[k + 1][j])
      <4>1. i \in 1..m
        BY <3>0, <3>6
      <4>2. CASE j \in 1..m
        <5>1. Recalling!Better(f[k][i], f[k][j])
          BY <2>1, <3>0, <3>6, <4>1, <4>2 DEF Falls
        <5> QED
          BY <3>1, <4>1, <4>2, <5>1
      <4>3. CASE j = m + 1
        <5>1. PICK p \in 1..k : f[k][i] = s[p]
          BY <3>4, <4>1
        <5>2. p \in DOMAIN s /\ k + 1 \in DOMAIN s /\ p < k + 1
          BY <1>0, <2>1
        <5>3. Recalling!Better(s[p], s[k + 1])
          BY <5>2 DEF Falls
        <5> QED
          BY <3>1, <4>1, <4>3, <5>1, <5>3
      <4> QED
        BY <3>2, <4>2, <4>3
    <3>7. Falls(f[k + 1])
      BY <3>1, <3>6 DEF Falls
    <3>8. ASSUME NEW x \in S
          PROVE  (\E i \in 1..(k + 1) : s[i] = x) <=> (\E i \in 1..(m + 1) : f[k + 1][i] = x)
      <4>1. (\E i \in 1..(k + 1) : s[i] = x) <=> (\E i \in 1..k : s[i] = x) \/ s[k + 1] = x
        BY <2>1, <2>3, <2>4
      <4>2. (\E i \in 1..(m + 1) : f[k + 1][i] = x) <=> (\E i \in 1..m : f[k][i] = x) \/ s[k + 1] = x
        BY <3>1, <3>2, <3>3
      <4>3. (\E i \in 1..k : s[i] = x) <=> (\E i \in 1..m : f[k][i] = x)
        BY <2>1, <3>0
      <4> QED
        BY <4>1, <4>2, <4>3
    <3> QED
      BY <3>1, <3>5, <3>7, <3>8
  <2>6. CASE s[k + 1] \notin S
    <3>1. f[k + 1] = f[k]
      BY <2>2, <2>6
    <3>2. ASSUME NEW x \in S
          PROVE  (\E i \in 1..(k + 1) : s[i] = x) <=> (\E i \in 1..k : s[i] = x)
      BY <2>3, <2>4, <2>6
    <3>3. Has(k + 1)
      BY <2>1, <3>1, <3>2
    <3> HIDE DEF Has
    <3> QED
      BY <2>1, <2>4, <3>1, <3>3
  <2> QED
    BY <2>5, <2>6
<1>5. l \in N
  <2> HIDE DEF N
  <2> QED
    BY <1>0, <1>3, <1>4, NumberInduction
<1>6. Good(l)
  <2> HIDE DEF Good
  <2> QED
    BY <1>0, <1>5
<1> QED
  BY <1>0, <1>2, <1>6 DEF There

\* An NPC's rows among the whole cast's are its own rows, in their own order.
LEMMA OwnRows ==
  ASSUME SessionInv, NEW names, NEW n \in names
  PROVE  Recalling!Those(Recalling!Ordered(names), Recalling!Of({n})) = Recalling!Ordered({n})
<1> DEFINE D == Recalling!Of(names)
           S == Recalling!Of({n})
           s == Recalling!Ordered(names)
           t == Recalling!Ordered({n})
           those == Recalling!Those(s, S)
<1>1. S \subseteq D /\ D \subseteq DOMAIN memories /\ S \subseteq DOMAIN memories
  BY DEF Recalling!Of
<1>2. s \in Seq(D) /\ Falls(s) /\ \A x \in D : \E k \in DOMAIN s : s[k] = x
  BY OrderedAre
<1>3. t \in Seq(S) /\ Falls(t) /\ \A x \in S : \E k \in DOMAIN t : t[k] = x
  BY OrderedAre
<1> HIDE DEF D, S, s, t
<1>4. /\ those \in Seq(S) /\ Falls(those)
      /\ \A x \in S : There(x, s) <=> There(x, those)
  <2>1. D \subseteq DOMAIN memories /\ s \in Seq(D) /\ Falls(s)
    BY <1>1, <1>2
  <2> QED
    BY <2>1, ThoseFall
<1> HIDE DEF those
<1>5. \A x \in S : There(x, those)
  BY <1>1, <1>2, <1>4 DEF There
<1>6. those = t
  <2>1. \A x \in S : \E k \in DOMAIN those : those[k] = x
    BY <1>5 DEF There
  <2> QED
    BY <1>1, <1>3, <1>4, <2>1, OneOrder
<1> QED
  BY <1>6 DEF those, s, t, S

LEMMA BucketIsOwn ==
  ASSUME Sized, SessionInv, NEW names, NEW n \in names, NEW asked \in BOOLEAN
  PROVE  Recalling!Bucket(names, n, asked) =
           Recalling!First(Recalling!Ordered({n}), Recalling!Candidates(asked))
<1>1. Recalling!Candidates(asked) \in Nat
  BY DEF Sized, Recalling!Candidates
<1>2. Recalling!Ordered(names) \in Seq(Recalling!Of(names))
  BY OrderedAre
<1> QED
  BY <1>1, <1>2, UptoIsFirst, OwnRows DEF Recalling!Bucket

\* What the one walk has for an NPC at each message is the first of what its own walk has.
LEMMA QuotedAlike ==
  ASSUME Sized, SessionInv, NEW names
  PROVE  Recalling!BatchWords(names) = [n \in names |-> Recalling!Words(n)]
<1> DEFINE s == Recalling!Recent
           l == Len(s)
<1>0. l \in Nat /\ \A k \in 1..l : s[k] \in Int
  <2> DEFINE all == [k \in 1..Len(said) |-> Len(said) - k + 1]
  <2>1. Len(said) \in Nat
    BY DEF SessionInv
  <2>2. all \in Seq(Int) /\ Len(all) = Len(said)
    BY <2>1
  <2>3. s = Recalling!First(all, Searched)
    BY DEF Recalling!Recent
  <2> HIDE DEF all, s
  <2>4. s \in Seq(Int)
    <3>1. CASE Searched < Len(all)
      <4>1. SubSeq(all, 1, Searched) \in Seq(Int)
        BY <2>2, <3>1 DEF Sized
      <4> QED
        BY <2>3, <3>1, <4>1 DEF Recalling!First
    <3>2. CASE ~(Searched < Len(all))
      BY <2>2, <2>3, <3>2 DEF Recalling!First
    <3> QED
      BY <3>1, <3>2
  <2> QED
    BY <2>4
<1>1. PICK g : Recalling!BatchWords(names) = g[l] /\ Quoting(g, s, names)
  BY <1>0, WordsAre
<1>2. /\ Recalling!BatchWords(names) = g[l] /\ g[0] = [m \in names |-> << >>]
      /\ \A k \in 1..l :
            g[k] = [m \in names |-> IF s[k] \in Recalling!With(m) /\ Len(g[k - 1][m]) < Limit
                                    THEN Append(g[k - 1][m], s[k]) ELSE g[k - 1][m]]
  BY <1>1 DEF Quoting
<1> HIDE DEF l, s
<1>3. \A k \in 0..l : g[k] = [m \in names |-> g[k][m]]
  <2>1. \A k \in 0..l : k = 0 \/ k \in 1..l
    BY <1>0
  <2> QED
    BY <1>2, <2>1
<1>4. ASSUME NEW n \in names PROVE g[l][n] = Recalling!Words(n)
  <2> DEFINE S == Recalling!With(n)
  <2>1. Len(s) \in Nat
    BY <1>0 DEF l
  <2>2. PICK f : Recalling!Those(s, S) = f[Len(s)] /\ Keeping(f, s, S)
    BY <2>1, ThoseAre
  <2>3. /\ Recalling!Those(s, S) = f[l] /\ f[0] = << >>
        /\ \A k \in 1..l : f[k] = IF s[k] \in S THEN Append(f[k - 1], s[k]) ELSE f[k - 1]
    BY <2>2 DEF Keeping, l
  <2> DEFINE Good(k) == f[k] \in Seq(Int) /\ g[k][n] = Recalling!First(f[k], Limit)
             N == {k \in Nat : k =< l => Good(k)}
  <2> HIDE DEF S
  <2>4. 0 \in N
    <3>1. << >> \in Seq(Int) /\ Recalling!First(<< >>, Limit) = << >>
      BY DEF Recalling!First
    <3>2. g[0][n] = << >>
      BY <1>2
    <3> QED
      BY <2>3, <3>1, <3>2
  <2>5. ASSUME NEW k \in Nat, k \in N PROVE k + 1 \in N
    <3> SUFFICES ASSUME k + 1 =< l PROVE Good(k + 1)
      OBVIOUS
    <3>1. Good(k) /\ k + 1 \in 1..l /\ (k + 1) - 1 = k
      BY <1>0, <2>5
    <3>2. /\ f[k + 1] = IF s[k + 1] \in S THEN Append(f[k], s[k + 1]) ELSE f[k]
          /\ s[k + 1] \in Int
      BY <1>0, <2>3, <3>1
    <3>3. g[k + 1][n] = IF s[k + 1] \in S /\ Len(g[k][n]) < Limit THEN Append(g[k][n], s[k + 1]) ELSE g[k][n]
      <4>1. g[k + 1] = [m \in names |-> IF s[k + 1] \in Recalling!With(m) /\ Len(g[k][m]) < Limit
                                        THEN Append(g[k][m], s[k + 1]) ELSE g[k][m]]
        BY <1>2, <3>1
      <4> QED
        BY <4>1 DEF S
    <3>4. CASE s[k + 1] \in S
      <4>1. f[k + 1] = Append(f[k], s[k + 1]) /\ f[k + 1] \in Seq(Int)
        BY <3>1, <3>2, <3>4
      <4>2. Recalling!First(Append(f[k], s[k + 1]), Limit) =
               IF Len(Recalling!First(f[k], Limit)) < Limit THEN Append(Recalling!First(f[k], Limit), s[k + 1])
               ELSE Recalling!First(f[k], Limit)
        BY <3>1, <3>2, FirstGrows DEF Sized
      <4> QED
        BY <3>1, <3>3, <3>4, <4>1, <4>2
    <3>5. CASE s[k + 1] \notin S
      BY <3>1, <3>2, <3>3, <3>5
    <3> QED
      BY <3>4, <3>5
  <2>6. l \in N
    <3> HIDE DEF N
    <3> QED
      BY <1>0, <2>4, <2>5, NumberInduction
  <2> QED
    BY <1>0, <2>3, <2>6 DEF Recalling!Words, S, s
<1>5. g[l] = [n \in names |-> g[l][n]]
  BY <1>0, <1>3
<1> QED
  BY <1>2, <1>4, <1>5

LEMMA SessionStep ==
  /\ Recalling!Init => SessionInv
  /\ SessionInv /\ [Recalling!Next]_(Recalling!vars) => SessionInv'
<1>1. Recalling!Init => SessionInv
  BY DEF Recalling!Init, SessionInv
<1>2. ASSUME SessionInv, [Recalling!Next]_(Recalling!vars) PROVE SessionInv'
  <2>1. ASSUME NEW m \in Recalling!Memory, Recalling!Write(m) PROVE SessionInv'
    BY <1>2, <2>1 DEF Recalling!Write, SessionInv, Recalling!Memory
  <2>2. ASSUME NEW some \in SUBSET Npcs, Recalling!Say(some) PROVE SessionInv'
    BY <1>2, <2>2 DEF Recalling!Say, SessionInv, Recalling!Memory
  <2>3. CASE UNCHANGED Recalling!vars
    BY <1>2, <2>3 DEF Recalling!vars, SessionInv, Recalling!Memory
  <2> QED
    BY <1>2, <2>1, <2>2, <2>3 DEF Recalling!Next
<1> QED
  BY <1>1, <1>2

\* memory_manager.py: for any cast, any memories, messages and limits, an NPC asked about in a batch
\* remembers and is quoted as it is when asked about alone, with a question and without, and whether
\* the embedding service answers or not.
THEOREM AskedTogetherAsAlone == ASSUME Sized PROVE Recalling!Spec => []Recalling!BatchIsSingle
<1>1. SessionInv => Recalling!BatchIsSingle
  <2> SUFFICES ASSUME SessionInv PROVE Recalling!BatchIsSingle
    OBVIOUS
  <2>1. ASSUME NEW names \in SUBSET Npcs, NEW asked \in BOOLEAN, NEW up \in BOOLEAN
        PROVE  Recalling!BatchRecalled(names, asked, up) = [n \in names |-> Recalling!Recalled(n, asked, up)]
    <3>1. \A n \in names : Recalling!Bucket(names, n, asked) =
             Recalling!First(Recalling!Ordered({n}), Recalling!Candidates(asked))
      BY BucketIsOwn
    <3> QED
      BY <3>1 DEF Recalling!BatchRecalled, Recalling!Recalled
  <2> QED
    BY <2>1, QuotedAlike DEF Recalling!BatchIsSingle
<1> QED
  BY <1>1, SessionStep, PTL DEF Recalling!Spec
=============================================================================
