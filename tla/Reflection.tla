----------------------------- MODULE Reflection -----------------------------
(***************************************************************************)
(* What one NPC remembers: the rows of memory_entries that concern it, and *)
(* the reflection that is rewritten from them in the background.           *)
(*                                                                         *)
(*   services/npc_reflection_service.py  when to reflect, and reflecting   *)
(*   services/game_service.py            the turn and the extraction that  *)
(*                                       write memories, and the tasks a   *)
(*                                       finished turn starts              *)
(*   engine/memory_manager.py            what is made a memory of whom     *)
(*                                                                         *)
(* A row gets its number when it is inserted and is seen when its          *)
(* transaction commits: a turn, its extraction and the next turn overlap,  *)
(* so numbers need not appear in their order.                              *)
(***************************************************************************)
EXTENDS Integers, FiniteSets, FiniteSetsExt

CONSTANTS
    None,       \* no reflection yet
    Tasks,      \* reflections that may be under way at a time
    Threshold,  \* npc_reflection_threshold
    Cap,        \* REFLECTION_MEMORY_LINE_CAP
    LastId,     \* bound: memories of the NPC
    Runs        \* bound: reflections started

VARIABLES
    open,       \* numbers inserted by transactions that have not ended
    rows,       \* numbers committed
    kept,       \* the row of npc_reflections: its cursor, and what its summary was made from
    task,       \* what each task has read, and where it is
    runs,       \* reflections started so far
    overtaken,  \* history: numbers committed after a larger one
    spared      \* history: numbers the cap left out of a summary that was kept

vars == <<open, rows, kept, task, runs, overtaken, spared>>

Idle == [at |-> "idle", old |-> None, new |-> {}]
Ids == open \union rows \union {0}
Cursor(r) == IF r = None THEN 0 ELSE r.cursor

---------------------------------------------------------------------------
(* Writing memories *)

\* A turn, or the extraction that follows one, inserts a memory of the NPC.  (One
\* whose transaction rolls back leaves a gap in the numbers and nothing else.)
Insert == /\ Cardinality(open) < 2
          /\ Max(Ids) < LastId
          /\ open' = open \union {Max(Ids) + 1}
          /\ UNCHANGED <<rows, kept, task, runs, overtaken, spared>>

Commit(id) == /\ id \in open
              /\ open' = open \ {id}
              /\ rows' = rows \union {id}
              /\ overtaken' = IF \E o \in rows : o > id THEN overtaken \union {id} ELSE overtaken
              /\ UNCHANGED <<kept, task, runs, spared>>

---------------------------------------------------------------------------
(* Reflecting *)

\* The finished turn starts a task; it counts what is newer than the cursor.
Check(t) == /\ task[t] = Idle
            /\ runs < Runs
            /\ runs' = runs + 1
            /\ Cardinality({id \in rows : id > Cursor(kept)}) >= Threshold
            /\ task' = [task EXCEPT ![t] = [Idle EXCEPT !.at = "checked", !.old = kept]]
            /\ UNCHANGED <<open, rows, kept, overtaken, spared>>

\* The reflection is asked for again, which returns the object already loaded
\* when there was one; then the memories are read.
Read(t) == /\ task[t].at = "checked"
           /\ LET old == IF task[t].old = None THEN kept ELSE task[t].old
                  new == {id \in rows : id > Cursor(old)}
              IN task' = [task EXCEPT ![t] =
                            IF new = {} THEN Idle ELSE [at |-> "asked", old |-> old, new |-> new]]
           /\ UNCHANGED <<open, rows, kept, runs, overtaken, spared>>

\* The model fails or says nothing: the reflection stays as it was.
Fail(t) == /\ task[t].at = "asked"
           /\ task' = [task EXCEPT ![t] = Idle]
           /\ UNCHANGED <<open, rows, kept, runs, overtaken, spared>>

\* The newest Cap of a set of memories.
Newest(s) == {id \in s : Cardinality({o \in s : o > id}) < Cap}

From(r) == IF r = None THEN {} ELSE r.from

\* Mutant: the cursor never goes back.
KeepMonotone(t) ==
    /\ task[t].at = "asked"
    /\ LET old == task[t].old  new == task[t].new
       IN kept' = [cursor |-> Max({Max(new), Cursor(kept)}), from |-> From(old) \union Newest(new)]
    /\ spared' = spared \union (task[t].new \ Newest(task[t].new))
    /\ task' = [task EXCEPT ![t] = Idle]
    /\ UNCHANGED <<open, rows, runs, overtaken>>

\* The summary is made from the old one and the newest memories, the cursor
\* moves past all that were read.  A first reflection is refused when another
\* task has written one; any other overwrites what it finds.
Keep(t) == /\ task[t].at = "asked"
           /\ LET old == task[t].old  new == task[t].new
              IN IF old = None /\ kept # None
                 THEN UNCHANGED <<kept, spared>>
                 ELSE /\ kept' = [cursor |-> Max(new), from |-> From(old) \union Newest(new)]
                      /\ spared' = spared \union (new \ Newest(new))
           /\ task' = [task EXCEPT ![t] = Idle]
           /\ UNCHANGED <<open, rows, runs, overtaken>>

Init == /\ open = {} /\ rows = {} /\ kept = None
        /\ task = [t \in Tasks |-> Idle]
        /\ runs = 0 /\ overtaken = {} /\ spared = {}

Next == \/ Insert \/ \E id \in open : Commit(id)
        \/ \E t \in Tasks : Check(t) \/ Read(t) \/ Keep(t) \/ Fail(t)

Spec == Init /\ [][Next]_vars

---------------------------------------------------------------------------
(* Properties *)

Covered == IF kept = None THEN {} ELSE {id \in rows : id <= kept.cursor}

\* What the cursor has passed is in the summary, however many reflections run at
\* once and overwrite each other (npc_reflection_service.py): but for what the
\* cap spares, only a memory whose transaction was overtaken may be missing.
CursorIsHonest == Covered \ From(kept) \subseteq overtaken \union spared

\* "Highest memory_entries.id covered by this reflection" (models/npc_reflection.py):
\* nothing but the cap's victims is missing.  The code does not keep this: a
\* memory that commits after a larger number was read is never reflected on.
NothingIsSkipped == Covered \ From(kept) \subseteq spared
===========================================================================
