---------------------------- MODULE MCTurnPipeline ----------------------------
(***************************************************************************)
(* One turn inside the engine, and side by side with it what the turn is   *)
(* made of: the director's answer, whole or cut, the actions of the NPCs,  *)
(* their memories, the window of messages and the reflections.  "which"    *)
(* says what an execution is about; the parts share no state.              *)
(***************************************************************************)
EXTENDS TurnPipeline, TLC

CONSTANTS
    Nobody,          \* nothing yet
    t1, t2,          \* reflections
    n1, n2           \* NPCs with memories

VARIABLES
    which,
    s1, s2, s3, s4, s5, s6, s7, s8, s9   \* the state of the part, other than "turn", it is about

allVars == <<which, vars, s1, s2, s3, s4, s5, s6, s7, s8, s9>>

Answer_ == INSTANCE DirectorAnswer WITH
    None <- Nobody, Npcs <- {"a", "b"}, Ghost <- "x", Events <- {1}, Unknown <- 9,
    Roles <- {"primary", "secondary"}, Secondary <- "secondary", Odd <- "odd", MaxActive <- 1,
    MaxOffstage <- 1, Attempts <- 3, Recalls <- 2, Longest <- 2,
    world <- s1, first <- s2, recall <- s3, attempt <- s4, round <- s5, result <- s6,
    counted <- s7, failures <- s8, at <- s9
Partial_ == INSTANCE PartialAnswer WITH None <- Nobody, Size <- 2, Inside <- 2,
    fields <- s1, buffer <- s2
Acting_ == INSTANCE NpcActing WITH
    None <- Nobody, Npcs <- {1, 2}, MaxQueries <- 1, Together <- 1,
    intensity <- s1, role <- s2, mind <- s3, action <- s4, woven <- s5, notes <- s6, starved <- s7
Recalls_ == INSTANCE Recall WITH
    Npcs <- {n1, n2}, Limit <- 1, Wider <- 2, Searched <- 2, Rows <- 3, Lines <- 2,
    memories <- s1, said <- s2
Compactions_ == INSTANCE Compaction WITH
    Keep <- 30, Gap <- 10, Threshold <- 20, HardCap <- 72, Segments <- 2, Attempts <- 2, Lag <- 1,
    Failures <- 1, Retries <- 2, LastRound <- 64,
    round <- s1, stamp <- s2, before <- s3, cut <- s4, summary <- s5, dropped <- s6, jobs <- s7,
    failed <- s8, retried <- s9
Reflections_ == INSTANCE Reflection WITH
    None <- Nobody, Tasks <- {t1, t2}, Threshold <- 2, Cap <- 2, LastId <- 6, Runs <- 4,
    open <- s1, rows <- s2, kept <- s3, task <- s4, runs <- s5, overtaken <- s6, spared <- s7

\* Variables from the n-th on that a part does not have.
No8 == s8 = Nobody /\ s9 = Nobody
No3 == s3 = Nobody /\ s4 = Nobody /\ s5 = Nobody /\ s6 = Nobody /\ s7 = Nobody /\ No8
rest8 == <<s8, s9>>
rest3 == <<s3, s4, s5, s6, s7, rest8>>

\* While a part is looked at, the turn stays as it begins.
Quiet == [script |-> FALSE, twoPass |-> FALSE, json |-> FALSE, early |-> FALSE]

AllInit ==
    /\ which \in {"turn", "answer", "partial", "acting", "recall", "compaction", "reflection"}
    /\ Init /\ (which # "turn" => turn = Quiet)
    /\ CASE which = "turn" -> s1 = Nobody /\ s2 = Nobody /\ No3
         [] which = "answer" -> Answer_!Init
         [] which = "partial" -> Partial_!Init /\ No3
         [] which = "acting" -> Acting_!Init /\ No8
         [] which = "recall" -> Recalls_!Init /\ No3
         [] which = "compaction" -> Compactions_!Init
         [] OTHER -> Reflections_!Init /\ No8

TurnNext == which = "turn" /\ Next /\ UNCHANGED <<which, s1, s2, rest3>>

PartNext ==
    /\ which # "turn"
    /\ UNCHANGED <<which, vars>>
    /\ CASE which = "answer" -> Answer_!Next
         [] which = "partial" -> Partial_!Next /\ UNCHANGED rest3
         [] which = "acting" -> Acting_!Next /\ UNCHANGED rest8
         [] which = "recall" -> Recalls_!Next /\ UNCHANGED rest3
         [] which = "compaction" -> Compactions_!Next
         [] OTHER -> Reflections_!Next /\ UNCHANGED rest8

\* Parts come to an end, or to their bounds; a turn must not stop but where Stopped says.
PartEnds == which # "turn" /\ UNCHANGED allVars

AllNext == TurnNext \/ PartNext \/ PartEnds

AllSpec == AllInit /\ [][AllNext]_allVars

Symmetry == Permutations({t1, t2}) \union Permutations({n1, n2})

-----------------------------------------------------------------------------
\* The window of a turn holds every message no summary tells, and a message leaves it only when
\* a segment tells it (compressor.py, _run_compression); what the cursor of
\* a reflection has passed is in its summary (npc_reflection_service.py); and an NPC remembers the
\* same whether it is asked alone or with the others (memory_manager.py).
NothingIsForgotten ==
    /\ which = "compaction" => Compactions_!WindowIsWhole /\ Compactions_!NothingUntold
    /\ which = "reflection" => Reflections_!CursorIsHonest
    /\ which = "recall" => Recalls_!BatchIsSingle

\* Whatever the director's model answers, the turn can be played by what is made of it, or
\* fails under the right name (director_agent.py, director_validator.py); of an answer that
\* stops anywhere everything complete is read (director_agent.py try_partial_parse); and an NPC
\* within its queries is asked for its action (npc_agent.py).
EveryoneIsServed ==
    /\ which = "answer" => Answer_!AnswerIsPlayable /\ Answer_!FailureIsNamed
    /\ which = "partial" => Partial_!CompleteIsRead
    /\ which = "acting" => Acting_!RoomToSubmit
=============================================================================
