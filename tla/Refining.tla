------------------------------- MODULE Refining -------------------------------
(***************************************************************************)
(* A refinement of a world draft, and taking it back:                      *)
(* refine_world_payload, recheck_and_refresh and their helpers in          *)
(* services/world_gen_refiner.py, _run_world_refine_impl of                *)
(* services/generation_task_service.py, and refine_world_draft and         *)
(* undo_world_draft_refine of api/workshop.py.                             *)
(*                                                                         *)
(* A refinement works on a copy.  Its two jobs run side by side, each asks *)
(* up to Tries times, and the copy is written over the draft twice: with   *)
(* the new texts, and once more with the new warnings.                     *)
(*                                                                         *)
(* A text is the number of the refinement it comes from, 0 if from none.   *)
(* Revisions and verdicts of a draft are in QualityGate.                   *)
(***************************************************************************)
EXTENDS Integers, Sequences, FiniteSets

CONSTANTS
    None,
    Ids,       \* of the events a draft starts with, 1..n
    Names,     \* of its characters
    Stranger,  \* an id and a name that nothing in the draft has
    Flags,     \* moderation flags: warnings that are plain strings
    Codes,     \* codes of the other warnings
    Tries,     \* 3 in the code
    Longest,   \* of an answer: a bound
    MaxRuns,   \* refinements: a bound
    MaxEdits   \* of the owner: a bound

VARIABLES
    draft,     \* [events, cast, flags, told, edits]
    copy,      \* what the refinement works on
    job,       \* per job in progress the tries left and the best answer
    changed,
    snapshot,  \* pre_refine_snapshot of the latest task that has one
    runs,
    at

vars == <<draft, copy, job, changed, snapshot, runs, at>>

Jobs == {"events", "bios"}
Upto(S, n) == UNION {[1..k -> S] : k \in 0..n}
Idle == [left |-> 0, best |-> None]

Init ==
    /\ draft = [events |-> [i \in Ids |-> [id |-> i, text |-> 0]], cast |-> [n \in Names |-> 0],
                flags |-> Flags, told |-> Codes, edits |-> 0]
    /\ copy = None /\ job = [j \in Jobs |-> Idle] /\ changed = FALSE
    /\ snapshot = None /\ runs = 0 /\ at = "none"

------------------------------------------------------------------------------
(* The owner *)

Edit ==
    /\ draft.edits < MaxEdits
    /\ draft' = [draft EXCEPT !.edits = @ + 1]
    /\ UNCHANGED <<copy, job, changed, snapshot, runs, at>>

\* The jobs a refinement has follow from the codes it is given, or from the draft's own.
\* Another one in flight is refused.
Start(jobs) ==
    /\ at \in {"none", "failed", "done"} /\ runs < MaxRuns
    /\ runs' = runs + 1 /\ copy' = draft /\ snapshot' = draft /\ changed' = FALSE
    /\ job' = [j \in Jobs |-> IF j \in jobs THEN [left |-> Tries, best |-> << >>] ELSE Idle]
    /\ at' = "asking"
    /\ UNCHANGED draft

\* The snapshot stays, and may be restored again.
Undo ==
    /\ snapshot # None
    /\ draft' = snapshot
    /\ UNCHANGED <<copy, job, changed, snapshot, runs, at>>

------------------------------------------------------------------------------
(* Asking *)

Size(j) == IF j = "events" THEN Len(copy.events) ELSE Cardinality(DOMAIN copy.cast)
Asking(j) == at = "asking" /\ job[j].left > 0

\* _call_json: an answer with as many items as were asked for ends it, else the longest counts.
\* A call that raises, or whose answer is no JSON, is an empty answer.
Answer(j, items) ==
    /\ Asking(j)
    /\ LET better == Len(items) > Len(job[j].best)
       IN job' = [job EXCEPT ![j] = [left |-> IF Len(items) >= Size(j) THEN 0 ELSE @.left - 1,
                                     best |-> IF better THEN items ELSE @.best]]
    /\ UNCHANGED <<draft, copy, changed, snapshot, runs, at>>

\* The last item under a name is the one that counts; "reworded": it differs from what was there.
LastOf(items, name) == CHOOSE i \in DOMAIN items : items[i].of = name /\ \A k \in (i + 1)..Len(items) : items[k].of # name
Reworded(items, name) == (\E i \in DOMAIN items : items[i].of = name) /\ items[LastOf(items, name)].new

IdsOf(events) == {events[i].id : i \in DOMAIN events}
EventOf(events, id) == CHOOSE i \in DOMAIN events : events[i].id = id /\ \A k \in (i + 1)..Len(events) : events[k].id # id
Rewritten(event, items) == IF Reworded(items, event.id) THEN [event EXCEPT !.text = runs] ELSE event
\* What the answer names, as often as it names it; an id that the draft has not is passed over.
Listed(items, events) ==
    LET named[k \in 0..Len(items)] ==
          IF k = 0 THEN << >>
          ELSE IF items[k].of \in IdsOf(events) THEN Append(named[k - 1], items[k].of) ELSE named[k - 1]
    IN named[Len(items)]

\* Mutant: what the answer leaves out is gone.
RefineListed(events, items) ==
    LET order == Listed(items, events)
    IN [k \in DOMAIN order |-> Rewritten(events[EventOf(events, order[k])], items)]

\* Each event that is not among those before it is added to them.
Completed(told, events) ==
    LET whole[k \in 0..Len(events)] ==
          IF k = 0 THEN told
          ELSE IF events[k].id \in IdsOf(whole[k - 1]) THEN whole[k - 1] ELSE Append(whole[k - 1], events[k])
    IN whole[Len(events)]

\* _refine_events: in the order of the answer, and after it what the answer left out.
RefineEvents(events, items) ==
    LET order == Listed(items, events)
    IN Completed([k \in DOMAIN order |-> Rewritten(events[EventOf(events, order[k])], items)], events)

\* _refine_bios
RefineBios(cast, items) == [n \in DOMAIN cast |-> IF Reworded(items, n) THEN runs ELSE cast[n]]

\* Both jobs have come back.  What is only put in another order is no change.
Merge ==
    /\ at = "asking" /\ \A j \in Jobs : job[j].left = 0
    /\ LET told == job["events"].best
           bios == job["bios"].best
       IN /\ copy' = [copy EXCEPT !.events = IF told = None THEN @ ELSE RefineEvents(@, told),
                                  !.cast = IF bios = None THEN @ ELSE RefineBios(@, bios)]
          /\ changed' = \/ told # None /\ \E i \in DOMAIN copy.events : Reworded(told, copy.events[i].id)
                        \/ bios # None /\ \E n \in DOMAIN copy.cast : Reworded(bios, n)
    /\ job' = [j \in Jobs |-> Idle]
    /\ at' = "refined"
    /\ UNCHANGED <<draft, snapshot, runs>>

------------------------------------------------------------------------------
(* Writing *)

Write == draft' = copy

FirstWrite ==
    /\ at = "refined"
    /\ IF changed THEN Write /\ at' = "written" ELSE at' = "done" /\ UNCHANGED draft
    /\ UNCHANGED <<copy, job, changed, snapshot, runs>>

\* recheck_and_refresh: the checks' new warnings, none if they raise, beside the plain flags.
Recheck(codes) ==
    /\ at = "written"
    /\ copy' = [copy EXCEPT !.told = codes]
    /\ at' = "rechecked"
    /\ UNCHANGED <<draft, job, changed, snapshot, runs>>

SecondWrite ==
    /\ at = "rechecked"
    /\ Write /\ at' = "done"
    /\ UNCHANGED <<copy, job, changed, snapshot, runs>>

\* A timeout, an exception, a worker that dies.
Fail ==
    /\ at \in {"asking", "refined", "written", "rechecked"}
    /\ at' = "failed" /\ job' = [j \in Jobs |-> Idle]
    /\ UNCHANGED <<draft, copy, changed, snapshot, runs>>

Item(j) == [of : (IF j = "events" THEN Ids ELSE Names) \union {Stranger}, new : BOOLEAN]

Next ==
    \/ Edit \/ Undo \/ \E jobs \in SUBSET Jobs : Start(jobs)
    \/ \E j \in Jobs : Asking(j) /\ \E items \in Upto(Item(j), Longest) : Answer(j, items)
    \/ Merge \/ FirstWrite \/ \E codes \in SUBSET Codes : Recheck(codes)
    \/ SecondWrite \/ Fail

Spec == Init /\ [][Next]_vars

------------------------------------------------------------------------------
(* Properties *)

\* Whatever is answered, failed, edited or taken back, a draft has all its events and people
\* and each moderation flag (world_gen_refiner.py _refine_events: none of the ids may be lost;
\* recheck_and_refresh keeps the plain flags).
DraftSurvives ==
    /\ IdsOf(draft.events) = Ids /\ DOMAIN draft.cast = Names /\ draft.flags = Flags
    /\ at \in {"refined", "written", "rechecked"} => IdsOf(copy.events) = Ids
==============================================================================
