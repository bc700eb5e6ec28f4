---------------------------- MODULE DirectorAnswer ----------------------------
(***************************************************************************)
(* How the director is asked what happens in a turn, and what is made of   *)
(* its answer: run_v2, _run_tool_use_raw, _run_json_mode_raw and           *)
(* _build_result_v2 of engine/director_agent.py, and                       *)
(* engine/director_validator.py.                                           *)
(*                                                                         *)
(* It is asked up to three times, as JSON or through a tool as its model   *)
(* can.  JSON that cannot be read makes the next attempts use the tool;    *)
(* there an error of the provider counts like an answer that cannot be     *)
(* read.  What is in doubt is taken out of an answer, never the answer.    *)
(*                                                                         *)
(* When NPCs may begin before the answer is complete is in TurnPipeline;   *)
(* texts, moods and memories of an answer are left out.                    *)
(***************************************************************************)
EXTENDS Integers, Sequences, FiniteSets, SequencesExt

CONSTANTS
    None,
    Npcs, Ghost,       \* names a world may know, and a name of nobody
    Events, Unknown,   \* ids of events it may have, and an id of none
    Roles, Secondary,  \* Secondary is one of them
    Odd,               \* a role that is none
    MaxActive,         \* NPCs in a scene (4 in the code)
    MaxOffstage,       \* and off stage (3)
    Attempts,          \* 3
    Recalls,           \* rounds of one attempt at the tool (3)
    Longest            \* of a list in an answer: a bound

VARIABLES
    world,    \* the NPCs and events it has, perhaps none, and the events that have happened
    first,    \* how the model is asked first: "json" or "tool"
    recall,   \* whether the director may look into its memory
    attempt, round,
    result,   \* DirectorResult
    counted,  \* outcomes recorded
    failures, \* of the attempts so far: "read" or "call"
    at

vars == <<world, first, recall, attempt, round, result, counted, failures, at>>

Init ==
    /\ world \in [npcs : {{}, Npcs}, events : {{}, Events}, fired : SUBSET Events]
    /\ world.fired \subseteq world.events
    /\ first \in {"json", "tool"} /\ recall \in BOOLEAN
    /\ attempt = 1 /\ round = 1 /\ result = None /\ counted = << >> /\ failures = << >>
    /\ at = "asking"

------------------------------------------------------------------------------
(* What is made of an answer *)

\* What is in S, where it is said first; and no more than n of it.
Cleaned(list, S) ==
    LET cleaned[k \in 0..Len(list)] ==
          IF k = 0 THEN << >>
          ELSE IF list[k] \in S \ ToSet(cleaned[k - 1]) THEN Append(cleaned[k - 1], list[k]) ELSE cleaned[k - 1]
    IN cleaned[Len(list)]

Cut(list, n) == SubSeq(list, 1, IF Len(list) < n THEN Len(list) ELSE n)

\* What a list may name: what is known, and where nothing is known, anything.
Allowed(list, known) == IF known = {} THEN ToSet(list) ELSE known

Active(said) == Cut(Cleaned(said, Allowed(said, world.npcs)), MaxActive)

\* Everyone in the scene has a focus, and nobody else.
Focus(active, said) == [n \in ToSet(active) |-> n \in said]

RoleOf(active, said) ==
    [n \in ToSet(active) |-> IF n \in DOMAIN said /\ said[n] \in Roles THEN said[n] ELSE Secondary]

\* Mutant: who is in the scene may be off stage as well.
OffstageToo(active, said) == Cut(Cleaned(said, Allowed(said, world.npcs)), MaxOffstage)

\* Nobody is in the scene and off stage.
Offstage(active, said) == Cut(Cleaned(said, Allowed(said, world.npcs) \ ToSet(active)), MaxOffstage)

Intent(said) == Cleaned(said, Allowed(said, world.events) \ world.fired)

BuildResult(answer) ==
    LET active == Active(answer.active)
    IN [active |-> active,
        focus |-> Focus(active, DOMAIN answer.told),
        role |-> RoleOf(active, answer.told),
        offstage |-> Offstage(active, answer.offstage),
        intent |-> Intent(answer.intent)]

------------------------------------------------------------------------------
(* Asking *)

\* The second and third attempt at one that began as JSON.
Escalated == attempt > 1 /\ first = "json"
Mode == IF Escalated THEN "tool" ELSE first

Accept(answer) ==
    /\ result' = BuildResult(answer) /\ at' = "answered"
    /\ counted' = Append(counted, IF attempt = 1 THEN "success" ELSE "retried")
    /\ UNCHANGED <<world, first, recall, attempt, round, failures>>

\* One attempt is over; after the last one the turn has no director.
GoOn(why) ==
    /\ failures' = Append(failures, why)
    /\ round' = 1
    /\ IF attempt < Attempts
       THEN attempt' = attempt + 1 /\ UNCHANGED <<counted, at>>
       ELSE /\ UNCHANGED attempt
            /\ counted' = Append(counted, "failed") /\ at' = "unreadable"
    /\ UNCHANGED <<world, first, recall, result>>

\* A JSON answer, or the front of one that was cut, if it says what the scene is or that the
\* story ends.
ReadJson(answer, complete) ==
    /\ at = "asking" /\ Mode = "json"
    /\ IF complete \/ answer.brief THEN Accept(answer) ELSE GoOn("read")

\* Nothing, blanks only, or no JSON.
NoJson ==
    /\ at = "asking" /\ Mode = "json"
    /\ GoOn("read")

UseTool(answer) ==
    /\ at = "asking" /\ Mode = "tool"
    /\ Accept(answer)

\* The director looks into its memory first; after the last look it has not answered.
Recall ==
    /\ at = "asking" /\ Mode = "tool" /\ recall
    /\ IF round < Recalls
       THEN round' = round + 1 /\ UNCHANGED <<world, first, recall, attempt, result, counted, failures, at>>
       ELSE GoOn("read")

\* Prose in place of the tool, or a memory it may not look into.
NoTool ==
    /\ at = "asking" /\ Mode = "tool"
    /\ GoOn("read")

\* The provider fails, the balance is spent, the tool cannot be forced.  Only what the stream of
\* a JSON answer raises gets a name; what the first choice of the tool raises passes as it is.
Raise ==
    /\ at = "asking"
    /\ IF Escalated THEN GoOn("call")
       ELSE /\ at' = IF Mode = "json" THEN "upstream" ELSE "raised"
            /\ failures' = Append(failures, "call")
            /\ UNCHANGED <<world, first, recall, attempt, round, result, counted>>

Upto(S, n) == UNION {[1..k -> S] : k \in 0..n}

\* Of an answer that was cut, what comes last is empty.  Whoever has a role has a focus.
Answers ==
    [brief : BOOLEAN, active : Upto(Npcs \union {Ghost}, Longest),
     told : UNION {[S -> (Roles \ {Secondary}) \union {Odd}] : S \in SUBSET Npcs},
     offstage : Upto(Npcs \union {Ghost}, Longest), intent : Upto(Events \union {Unknown}, Longest)]

Next ==
    \/ at = "asking" /\ Mode = "json" /\ \E answer \in Answers, complete \in BOOLEAN : ReadJson(answer, complete)
    \/ at = "asking" /\ Mode = "tool" /\ \E answer \in Answers : UseTool(answer)
    \/ NoJson \/ Recall \/ NoTool \/ Raise

Spec == Init /\ [][Next]_vars

------------------------------------------------------------------------------
(* Properties *)

\* Whatever is answered, the turn can be played by it: whoever is in the scene exists and knows
\* his place in it, nobody is at two places, and what is to happen exists and has not happened
\* (director_validator.py).  A world that has no NPCs, or no events, has nothing to check a name
\* against; what has happened does not happen again there either.
AnswerIsPlayable ==
    at = "answered" =>
        /\ world.npcs # {} => ToSet(result.active) \union ToSet(result.offstage) \subseteq world.npcs
        /\ Len(result.active) <= MaxActive
        /\ DOMAIN result.focus = ToSet(result.active) /\ DOMAIN result.role = ToSet(result.active)
        /\ \A n \in DOMAIN result.role : result.role[n] \in Roles
        /\ ToSet(result.offstage) \intersect ToSet(result.active) = {}
        /\ world.events # {} => ToSet(result.intent) \subseteq world.events
        /\ ToSet(result.intent) \intersect world.fired = {}
        /\ Cardinality(ToSet(result.intent)) = Len(result.intent)

\* A turn fails under the name of what went wrong: as unreadable only after all attempts, the
\* first of which was answered and not understood; as the provider's failure (DirectorUpstreamError)
\* only if that was the first thing that happened to a director asked for JSON.  An exception that
\* passes without a name comes from a director asked through its tool first, none of whose earlier
\* attempts failed in the call.  One outcome is counted for every turn that is answered or unreadable.
FailureIsNamed ==
    /\ at = "unreadable" => failures[1] = "read" /\ Len(failures) = Attempts
    /\ at = "upstream" => first = "json" /\ failures = <<"call">>
    /\ at = "raised" => /\ first = "tool" /\ failures[Len(failures)] = "call"
                        /\ \A i \in 1..(Len(failures) - 1) : failures[i] = "read"
    /\ Len(counted) = (IF at \in {"answered", "unreadable"} THEN 1 ELSE 0)
==============================================================================
