---------------------------- MODULE MCQualityGate ----------------------------
(***************************************************************************)
(* What may happen to a draft before it is published, checked side by      *)
(* side: its judges and its publication (QualityGate), a refinement that   *)
(* is taken back (Refining), and its pictures (Pictures).  "which" says    *)
(* which one an execution is about; the sizes of the gate are in the .cfg, *)
(* those of the others here.                                               *)
(***************************************************************************)
EXTENDS QualityGate, TLC

CONSTANTS None

VARIABLES
    which,
    p1, p2, p3, p4, p5, p6, p7   \* the state of the part, other than "gate", it is about

allVars == <<which, vars, p1, p2, p3, p4, p5, p6, p7>>

Refining_ == INSTANCE Refining WITH
    Ids <- 1..2, Names <- {10}, Stranger <- 99, Flags <- {"flag"}, Codes <- {"code"}, Tries <- 2,
    Longest <- 2, MaxRuns <- 2, MaxEdits <- 1,
    draft <- p1, copy <- p2, job <- p3, changed <- p4, snapshot <- p5, runs <- p6, at <- p7
Pictures_ == INSTANCE Pictures WITH
    Gateway <- "gateway", Old <- "old", Requests <- {"r1", "r2"}, Targets <- {"cover", "hero"},
    Absent <- "avatar", Attempts <- 2, Uploads <- 2, Cap <- 1,
    draft <- p1, req <- p2, stored <- p3

\* Payloads, and sweeps, are interchangeable.
Symmetry == Permutations(Contents) \cup Permutations(Sweepers)

No4 == p4 = None /\ p5 = None /\ p6 = None /\ p7 = None
rest4 == <<p4, p5, p6, p7>>
parts == <<p1, p2, p3, rest4>>

AllInit ==
    /\ which \in {"gate", "refining", "pictures"}
    /\ Init
    /\ CASE which = "refining" -> Refining_!Init
         [] which = "pictures" -> Pictures_!Init /\ No4
         [] OTHER -> p1 = None /\ p2 = None /\ p3 = None /\ No4

AllNext ==
    /\ UNCHANGED which
    /\ IF which = "gate" THEN Next ELSE UNCHANGED vars
    /\ CASE which = "refining" -> Refining_!Next
         [] which = "pictures" -> Pictures_!Next /\ UNCHANGED rest4
         [] OTHER -> UNCHANGED parts

AllSpec == AllInit /\ [][AllNext]_allVars

-----------------------------------------------------------------------------
\* No event, person or flag of a draft is lost to a refinement, its failure or its undoing
\* (world_gen_refiner.py), and no picture that it shows to an upload (image_storage.py).
DraftSurvives ==
    /\ which = "refining" => Refining_!DraftSurvives
    /\ which = "pictures" => Pictures_!PictureIsThere /\ Pictures_!LatestIsShown

=============================================================================
