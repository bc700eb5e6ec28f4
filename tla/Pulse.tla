-------------------------------- MODULE Pulse --------------------------------
(***************************************************************************)
(* How a long stage of a generation reports while it works:                *)
(* _run_with_pulse of services/world_creator_agent_v2.py.  The work tells  *)
(* its milestones to one queue, a task carries them to a second one, the   *)
(* work's end and the pulses go there at once, and the stage reads it.     *)
(* Whoever reads the stage may go away at any time.                        *)
(***************************************************************************)
EXTENDS Integers, Sequences, SequencesExt

CONSTANTS
    MaxTold   \* milestones: a bound

VARIABLES
    work,   \* "running", "result", "error" or "cancelled"
    told,   \* milestones told by the work
    side,   \* the first queue
    queue,  \* the second one
    shown,  \* milestones that were read
    at      \* of the stage: "reading", "result", "error" or "left"

vars == <<work, told, side, queue, shown, at>>

Item(kind, n) == [kind |-> kind, n |-> n]

Init == work = "running" /\ told = 0 /\ side = << >> /\ queue = << >> /\ shown = << >> /\ at = "reading"

Tell ==
    /\ work = "running" /\ told < MaxTold
    /\ told' = told + 1 /\ side' = Append(side, told + 1)
    /\ UNCHANGED <<work, queue, shown, at>>

End(how) ==
    /\ work = "running"
    /\ work' = how /\ queue' = Append(queue, Item(how, 0))
    /\ UNCHANGED <<told, side, shown, at>>

Drain ==
    /\ at = "reading" /\ side # << >>
    /\ queue' = Append(queue, Item("stage", Head(side))) /\ side' = Tail(side)
    /\ UNCHANGED <<work, told, shown, at>>

\* At most one that nobody has read, as a bound.
Beat ==
    /\ at = "reading" /\ Item("pulse", 0) \notin ToSet(queue)
    /\ queue' = Append(queue, Item("pulse", 0))
    /\ UNCHANGED <<work, told, side, shown, at>>

\* Mutant: work that nobody waits for goes on.
StopNobody == work

\* The cleanup: what is still running is cancelled and waited for.
Stop == IF work = "running" THEN "cancelled" ELSE work

Read ==
    /\ at = "reading" /\ queue # << >>
    /\ LET item == Head(queue)
       IN /\ shown' = IF item.kind = "stage" THEN Append(shown, item.n) ELSE shown
          /\ at' = IF item.kind \in {"result", "error"} THEN item.kind ELSE at
    /\ queue' = Tail(queue)
    /\ UNCHANGED <<work, told, side>>

Leave ==
    /\ at = "reading"
    /\ at' = "left" /\ work' = Stop
    /\ UNCHANGED <<told, side, queue, shown>>

Next == Tell \/ End("result") \/ End("error") \/ Drain \/ Beat \/ Read \/ Leave

Spec == Init /\ [][Next]_vars

------------------------------------------------------------------------------
(* Properties *)

\* What is shown is a beginning of what was told, in that order, and a stage that is over leaves
\* no work behind, ended as the work did (_run_with_pulse).
ShownAsTold ==
    /\ shown = [i \in 1..Len(shown) |-> i] /\ Len(shown) <= told
    /\ at # "reading" => work # "running"
    /\ at \in {"result", "error"} => at = work

\* Not so: the end overtakes milestones that are not yet carried over.
AllIsShown == at = "result" => Len(shown) = told
==============================================================================
