------------------------------ MODULE TurnStream ------------------------------
(***************************************************************************)
(* What the consumer of a turn's events relies on                          *)
(* (GameService._consume_turn in services/game_service.py): the order in   *)
(* which the engine may hand them over.  The state is saved on the first   *)
(* of state_ready and done, the story is closed on ending, the messages    *)
(* are saved on done, and the late case board is added after it.           *)
(***************************************************************************)
VARIABLE last \* the last event handed over

Events == {"none", "progress", "error", "narrative", "state_ready", "state_update",
           "ending", "done", "case_board_update"}

Told == {"narrative", "state_ready", "state_update", "ending", "done", "case_board_update"}

Init == last = "none"

\* A refused or failed turn: nothing has been told.
Refuse == last \in {"none", "progress"} /\ last' = "error"

Think == last \in {"none", "progress"} /\ last' = "progress"

Tell == last \in {"progress", "narrative"} /\ last' = "narrative"

Save == last \in {"progress", "narrative"} /\ last' = "state_ready"

\* An engine that does not hand over the state early goes on without state_ready.
Show == last \in {"progress", "narrative", "state_ready"} /\ last' = "state_update"

EndStory == last = "state_update" /\ last' = "ending"

Finish == last \in {"state_update", "ending"} /\ last' = "done"

Board == last = "done" /\ last' = "case_board_update"

Next == Refuse \/ Think \/ Tell \/ Save \/ Show \/ EndStory \/ Finish \/ Board

Spec == Init /\ [][Next]_last

=============================================================================
