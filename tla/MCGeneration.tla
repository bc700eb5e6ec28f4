---------------------------- MODULE MCGeneration ----------------------------
(***************************************************************************)
(* The stages in which a world comes about, checked side by side: its      *)
(* research, its cast and its past, its generation as a whole, the vote on *)
(* its quality and a script for it.  "which" says which one an execution  *)
(* is about; the sizes of generation are in the .cfg, those of the others *)
(* here.                                                                  *)
(***************************************************************************)
EXTENDS WorldGeneration

CONSTANTS None

VARIABLES
    which,
    s1, s2, s3, s4, s5, s6, s7, s8, s9   \* the state of the part, other than "world", it is about

allVars == <<which, vars, s1, s2, s3, s4, s5, s6, s7, s8, s9>>

Research_ == INSTANCE Research WITH
    Keys <- {"a", "b"}, Votes <- 2, Longest <- 2, Groups <- 2, Least <- 2, Runs <- 2,
    rec <- s1, votes <- s2, task <- s3, runs <- s4, found <- s5, written <- s6, pack <- s7, at <- s8
Vote_ == INSTANCE QualityVote WITH
    Scores <- {4, 8}, Codes <- {"missing", "conflict"}, Blocking <- 4, Risky <- 6,
    contract <- s1, asked <- s2, verdict <- s3
Script_ == INSTANCE ScriptGeneration WITH
    Names <- {"a", "b"}, Canon <- {"b"}, Additions <- 1, Few <- 1, Target <- 1, MinEndings <- 2,
    Enough <- 3, Attempts <- 2, MinEvents <- 3, EventCounts <- {0, 3}, Rows <- 2,
    world <- s1, used <- s2, seen <- s3, stage <- s4, tries <- s5, made <- s6, draft <- s7,
    script <- s8, game <- s9
Cast_ == INSTANCE CastBuilding WITH
    Stranger <- "x", Rosters <- {<<"a", "b", "c">>, <<"a", "a", "b">>}, BatchSize <- 2, Longest <- 2,
    Core <- 1, Trusts <- {1},
    roster <- s1, asked <- s2, answers <- s3, cast <- s4, peers <- s5, at <- s6
Chronicle_ == INSTANCE Chronicle WITH
    Titles <- {"a", "b"}, Passages <- {"p"}, Invented <- "q", KMin <- 2, Batches <- 3, MaxId <- 3,
    Longest <- 2, past <- s1, heard <- s2, beats <- s3, next <- s4, told <- s5, at <- s6

Visual_ == INSTANCE VisualStyle WITH
    Styles <- {"ink", "print", "water"},
    Allowed <- [east |-> {"ink", "water"}, west |-> {"print", "water"}],
    Pools <- [court |-> <<"ink">>, gothic |-> <<"print", "water">>, other |-> <<"print", "ink">>],
    Default <- "water", Hash <- [m |-> 7, n |-> 62], Scores <- {20, 90}, Longest <- 2, Targets <- {"hero"},
    draft <- s1, world <- s2, arts <- s3
Stage_ == INSTANCE PictureStage WITH
    Placeholder <- "placeholder", People <- <<"a", "b">>, Slots <- 2, Titles <- {"", "end", "fin"}, MaxEndings <- 3,
    kind <- s1, task <- s2, result <- s3, heard <- s4, payload <- s5, warned <- s6, endings <- s7,
    left <- s8, at <- s9
Starts_ == INSTANCE FreeStarts WITH
    Playable <- <<"a", "b">>, Candidates <- <<"x", "b">>, MaxNames <- 2, Stranger <- "x",
    Places <- <<"p", "q">>, Home <- [a |-> "q", b |-> "x"], MaxItems <- 2, MaxStages <- 2,
    first <- s1, entries <- s2, warned <- s3, at <- s4
Pulse_ == INSTANCE Pulse WITH
    MaxTold <- 2, work <- s1, told <- s2, side <- s3, queue <- s4, shown <- s5, at <- s6

\* Variables from the n-th on that a part does not have.
No9 == s9 = None
No7 == s7 = None /\ s8 = None /\ No9
No6 == s6 = None /\ No7
No5 == s5 = None /\ No6
No4 == s4 = None /\ No5
No1 == s1 = None /\ s2 = None /\ s3 = None /\ No4
rest4 == <<s4, s5, s6, s7, s8, s9>>
rest7 == <<s7, s8, s9>>
parts == <<s1, s2, s3, rest4>>

Parts == {"research", "world", "vote", "script", "cast", "chronicle", "style", "pictures", "starts", "pulse"}

\* A world that is not generated stays as it begins.
AllInit ==
    /\ which \in Parts
    /\ Init /\ (which # "world" => fidelity = "none")
    /\ CASE which = "research" -> Research_!Init /\ No9
         [] which = "vote" -> Vote_!Init /\ No4
         [] which = "script" -> Script_!Init
         [] which = "cast" -> Cast_!Init /\ No7
         [] which = "chronicle" -> Chronicle_!Init /\ No7
         [] which = "style" -> Visual_!Init /\ No4
         [] which = "pictures" -> Stage_!Init
         [] which = "starts" -> Starts_!Init /\ No5
         [] which = "pulse" -> Pulse_!Init /\ No7
         [] OTHER -> No1

AllNext ==
    /\ UNCHANGED which
    /\ IF which = "world" THEN Next ELSE UNCHANGED vars
    /\ CASE which = "research" -> Research_!Next /\ UNCHANGED s9
         [] which = "vote" -> Vote_!Next /\ UNCHANGED rest4
         [] which = "script" -> Script_!Next
         [] which = "cast" -> Cast_!Next /\ UNCHANGED rest7
         [] which = "chronicle" -> Chronicle_!Next /\ UNCHANGED rest7
         [] which = "style" -> Visual_!Next /\ UNCHANGED rest4
         [] which = "pictures" -> Stage_!Next
         [] which = "starts" -> Starts_!Next /\ UNCHANGED <<s5, s6, rest7>>
         [] which = "pulse" -> Pulse_!Next /\ UNCHANGED rest7
         [] OTHER -> UNCHANGED parts

AllSpec == AllInit /\ [][AllNext]_allVars

-----------------------------------------------------------------------------
\* Whatever aliases are merged, a name is in one entry of the pack (ip_research_pipeline.py);
\* whatever names a writer gives, everyone who was answered for is in the cast, as himself
\* (character_roster_builder.py, relations_pack_builder.py); no event and nothing of the past is
\* lost to another's id or title (events_data_builder.py, shared_events_builder.py); and
\* milestones are shown in the order in which they were told (_run_with_pulse).
NothingIsLost ==
    /\ which = "research" => Research_!EveryoneOnce
    /\ which = "cast" => Cast_!NobodyIsReplaced /\ Cast_!NobodyIsLost /\ Cast_!PeersAreKnown
    /\ which = "chronicle" => Chronicle_!BeatsKept /\ Chronicle_!PastIsTold
    /\ which = "pulse" => Pulse_!ShownAsTold

\* A low score passes only when it is outvoted, and nothing is confirmed by a judge that seconds
\* itself (world_critic_service.py).
LowIsOutvoted == which = "vote" => Vote_!LowIsOutvoted /\ Vote_!NobodySecondsItself

\* Whom or what a product names exists: the people and places of a world, whom an event of a
\* script waits for (world_creator_agent_v2.py, game_service.py), and places and relations of
\* free beginnings, which are the characters' own (_run_free_start_stages).
NamedIsThere ==
    /\ which = "world" => WorldIsConsistent
    /\ which = "script" => Script_!EventsHaveTheirCast
    /\ which = "starts" => Starts_!BeginningsAreSound

\* A picture shows what it is the picture of, in a style that suits the world and does not
\* change, and where it could not be painted the author is told (_run_images, cover_brief.py).
PicturesBelong ==
    /\ which = "style" => Visual_!StyleSuits /\ Visual_!OneStyle
    /\ which = "pictures" => Stage_!PictureOfItsOwn /\ Stage_!PlaceholderIsTold
=============================================================================
