------------------------ MODULE WorldGenerationProofs ------------------------
(***************************************************************************)
(* What a run of create_world guarantees for every scale, budget, work and *)
(* set of names: what is delivered meets its contract and was paid for     *)
(* (Ordered: the nodes before the one that runs have all succeeded), and   *)
(* whatever is pruned, put back and repaired on the way, the world is at   *)
(* one with itself (DraftSound, WorldSound: which of it holds depends on   *)
(* how far the pipeline is).  At the end, parts of a run that have a       *)
(* module of their own: the pictures of its people and endings             *)
(* (PictureStage), the relay of what it reports (Pulse) and the research   *)
(* of the original work (Research).                                        *)
(***************************************************************************)
EXTENDS WorldGeneration, TLAPS, FiniteSetTheorems, SequenceTheorems, WellFoundedInduction

-----------------------------------------------------------------------------
(* The pipeline.                                                           *)

\* It has fifteen nodes, and these are all.
LEMMA PipelineLength ==
    /\ Len(Pipeline) = 15 /\ DOMAIN Pipeline = 1..15
    /\ \A i \in 1..15 : Pipeline[i] \in Nodes
<1>1. Len(Pipeline) = 15 /\ DOMAIN Pipeline = 1..15
  BY DEF Pipeline
<1> QED
  BY <1>1 DEF Nodes

\* Where the nodes are that what the draft holds depends on.
LEMMA PipelinePlaces ==
    ASSUME NEW i \in 1..15
    PROVE  /\ Pipeline[i] = "ip_research" <=> i = 2
           /\ Pipeline[i] = "world_director" <=> i = 3
           /\ Pipeline[i] = "skeleton_builders" <=> i = 5
           /\ Pipeline[i] = "detail_builders" <=> i = 6
           /\ Pipeline[i] = "shared_events" => i > 6
           /\ Pipeline[i] = "events_data" => i > 6
           /\ Pipeline[i] = "playable" => i > 6
           /\ Pipeline[i] = "critic" => i > 6
BY DEF Pipeline

\* Estimates are numbers.
LEMMA EstimateType == \A n \in Nodes : Estimate(n) \in Nat
<1>1. Ceil(RolesTarget, 6) \in Nat /\ Ceil(EventsTarget, 3) \in Nat
  BY ConstantsAssumption DEF Ceil
<1> QED
  BY <1>1 DEF Estimate

-----------------------------------------------------------------------------
(* The order of the nodes, and their budget.                               *)

\* The nodes before the next have succeeded, and a live run has no other row open than that one's.
Ordered ==
    /\ \A i \in 1..(at - 1) : row[Pipeline[i]] = "succeeded"
    /\ end = "running" => \A n \in Nodes : row[n] = "running" => at <= Len(Pipeline) /\ n = Pipeline[at]

\* A live run has stayed within its calls since there was a specification.
Afforded == end = "running" /\ HasSpec => Greater(calls.planned, calls.made) <= CallBudget

\* The part of the type that the order and the budget rest on.
Shell ==
    /\ at \in 1 .. 16
    /\ row \in [Nodes -> {"none", "running", "succeeded", "failed"}]
    /\ calls \in [planned : Nat, made : Nat]
    /\ end \in {"running", "result", "failed", "aborted", "killed", "stuck"}

\* A node that ends its work passes on to the next, or ends the run.
LEMMA FinishEffect ==
    ASSUME Shell, Ordered, Afforded, NEW n \in Nodes \ {"world_director"}, Running(n), Finish(n)
    PROVE  /\ n = Pipeline[at] /\ at \in 1..15
           /\ Shell' /\ Ordered' /\ Afforded'
           /\ at' \in {at, at + 1} /\ end' \in {"running", "failed"}
<1>1. n = Pipeline[at] /\ at \in 1..15 /\ row[n] = "running"
  BY PipelineLength DEF Ordered, Running, Shell
<1>2. PICK k \in Extra :
        LET done == [row EXCEPT ![n] = "succeeded"]
            made == [calls EXCEPT !.made = @ + Estimate(n) + k]
            over == HasSpec /\ ~WithinBudget(made, done, 0)
        IN  /\ row' = IF over THEN [row EXCEPT ![n] = "failed"] ELSE done
            /\ calls' = IF over THEN [made EXCEPT !.made = @ + Estimate(n) + k] ELSE made
            /\ end' = IF over THEN "failed" ELSE "running"
            /\ at' = IF over THEN at ELSE at + 1
  BY DEF Finish
<1> DEFINE done == [row EXCEPT ![n] = "succeeded"]
           made == [calls EXCEPT !.made = @ + Estimate(n) + k]
           over == HasSpec /\ ~WithinBudget(made, done, 0)
<1>3. k \in Nat /\ Estimate(n) \in Nat
  BY ConstantsAssumption, EstimateType
<1>4. made \in [planned : Nat, made : Nat]
  BY <1>3 DEF Shell
<1>5. [made EXCEPT !.made = @ + Estimate(n) + k] \in [planned : Nat, made : Nat]
  <2> HIDE DEF made
  <2>1. made.made \in Nat /\ made.made + Estimate(n) + k \in Nat
    BY <1>3, <1>4
  <2> QED
    BY <1>4, <2>1
<1>6. CASE over
  <2>1. row' = [row EXCEPT ![n] = "failed"] /\ end' = "failed" /\ at' = at
        /\ calls' = [made EXCEPT !.made = @ + Estimate(n) + k]
    BY <1>2, <1>6
  <2>2. Shell'
    <3> HIDE DEF made
    <3> QED
      BY <1>5, <2>1 DEF Shell
  <2>3. Ordered'
    BY <1>1, <2>1, PipelineLength DEF Shell, Ordered
  <2>4. Afforded'
    BY <2>1 DEF Afforded
  <2> QED
    BY <1>1, <2>1, <2>2, <2>3, <2>4
<1>7. CASE ~over
  <2>1. row' = done /\ end' = "running" /\ at' = at + 1 /\ calls' = made
    BY <1>2, <1>7
  <2>2. Shell'
    <3> HIDE DEF made
    <3> QED
      BY <1>1, <1>4, <2>1 DEF Shell
  <2>3. Ordered'
    <3>1. ASSUME NEW i \in 1..(at' - 1)
          PROVE  row'[Pipeline[i]] = "succeeded"
      <4>1. i = at \/ i \in 1..(at - 1)
        BY <1>1, <2>1
      <4>2. Pipeline[i] \in Nodes
        BY <1>1, <4>1, PipelineLength
      <4> QED
        BY <1>1, <2>1, <4>1, <4>2 DEF Shell, Ordered
    <3>2. ASSUME NEW m \in Nodes, row'[m] = "running"
          PROVE  FALSE
      <4>1. m # n /\ row[m] = "running"
        BY <2>1, <3>2 DEF Shell
      <4> QED
        BY <1>1, <4>1 DEF Ordered, Running
    <3> QED
      BY <3>1, <3>2 DEF Ordered
  <2>4. Afforded'
    <3>1. CASE ~HasSpec
      <4>1. at # 3
        BY <1>1, PipelinePlaces
      <4>2. ~HasSpec'
        BY <1>1, <2>1, <3>1, <4>1 DEF HasSpec
      <4> QED
        BY <4>2 DEF Afforded
    <3>2. CASE HasSpec
      <4>1. Greater(made.planned, made.made) + 0 <= CallBudget
        BY <1>7, <3>2 DEF WithinBudget
      <4>2. made.planned \in Nat /\ made.made \in Nat
        BY <1>4
      <4> HIDE DEF made
      <4> QED
        BY <2>1, <4>1, <4>2 DEF Afforded, Greater
    <3> QED
      BY <3>1, <3>2
  <2> QED
    BY <1>1, <2>1, <2>2, <2>3, <2>4
<1> QED
  BY <1>6, <1>7

\* A node that starts is the next one, and the calls it is planned for are within the budget.
LEMMA StartEffect ==
    ASSUME Shell, Ordered, Afforded, NEW n \in Nodes, Start(n)
    PROVE  Shell' /\ Ordered' /\ Afforded' /\ at' = at /\ end' = end /\ UNCHANGED content
<1>1. /\ end = "running" /\ at <= Len(Pipeline) /\ Pipeline[at] = n /\ row[n] = "none"
      /\ HasSpec => WithinBudget(calls, row, Estimate(n))
      /\ row' = [row EXCEPT ![n] = "running"]
      /\ calls' = [calls EXCEPT !.planned = @ + Estimate(n)]
      /\ UNCHANGED <<content, at, end>>
  BY DEF Start, IsNext
<1>2. Estimate(n) \in Nat
  BY EstimateType
<1>3. Shell'
  BY <1>1, <1>2 DEF Shell
<1>4. Ordered'
  BY <1>1, PipelineLength DEF Shell, Ordered
<1>5. Afforded'
  <2>1. calls'.planned = calls.planned + Estimate(n) /\ calls'.made = calls.made
    BY <1>1 DEF Shell
  <2>2. HasSpec => Greater(calls.planned, calls.made) + Estimate(n) <= CallBudget
    BY <1>1 DEF WithinBudget
  <2>3. calls.planned \in Nat /\ calls.made \in Nat /\ CallBudget \in Nat
    BY ConstantsAssumption DEF Shell
  <2>4. HasSpec' = HasSpec
    BY <1>1 DEF HasSpec
  <2>5. CASE HasSpec
    <3>1. calls.planned + Estimate(n) <= CallBudget /\ calls.made <= CallBudget
      BY <1>2, <2>2, <2>3, <2>5 DEF Greater
    <3>2. calls'.planned <= CallBudget /\ calls'.made <= CallBudget
      BY <2>1, <3>1
    <3> QED
      BY <3>2 DEF Afforded, Greater
  <2> QED
    BY <2>4, <2>5 DEF Afforded
<1> QED
  BY <1>1, <1>3, <1>4, <1>5

\* The specification is checked when it is set.
LEMMA DirectorEffect ==
    ASSUME Shell, Ordered, Afforded, Director
    PROVE  /\ Shell' /\ Ordered' /\ Afforded' /\ UNCHANGED content
           /\ at = 3 /\ at' = 4 /\ end' \in {"running", "failed"}
<1>1. PICK k \in Extra :
        LET made == [calls EXCEPT !.made = @ + 1 + k]
            done == [row EXCEPT !["world_director"] = "succeeded"]
        IN  /\ row' = done /\ calls' = made /\ at' = at + 1
            /\ end' = IF WithinBudget(made, done, 0) THEN "running" ELSE "failed"
  BY DEF Director
<1> DEFINE made == [calls EXCEPT !.made = @ + 1 + k]
           done == [row EXCEPT !["world_director"] = "succeeded"]
<1>2. "world_director" \in Nodes /\ row["world_director"] = "running" /\ end = "running"
  <2>1. Pipeline[3] = "world_director"
    BY DEF Pipeline
  <2> QED
    BY <2>1, PipelineLength DEF Director, Running
<1>3. at \in 1..15 /\ Pipeline[at] = "world_director" /\ at = 3
  BY <1>2, PipelineLength, PipelinePlaces DEF Ordered, Shell
<1>4. k \in Nat
  BY ConstantsAssumption
<1>5. made \in [planned : Nat, made : Nat]
  BY <1>4 DEF Shell
<1>6. row' = done /\ calls' = made /\ at' = 4 /\ end' \in {"running", "failed"}
      /\ (end' = "running" => WithinBudget(made, done, 0))
  BY <1>1, <1>3
<1> HIDE DEF made
<1>7. Shell'
  BY <1>2, <1>5, <1>6 DEF Shell
<1>8. Ordered'
  <2>1. ASSUME NEW i \in 1..(at' - 1)
        PROVE  row'[Pipeline[i]] = "succeeded"
    <3>1. i = at \/ i \in 1..(at - 1)
      BY <1>3, <1>6
    <3>2. Pipeline[i] \in Nodes
      BY <1>3, <3>1, PipelineLength
    <3> QED
      BY <1>3, <1>6, <3>1, <3>2 DEF Shell, Ordered
  <2>2. ASSUME NEW m \in Nodes, row'[m] = "running"
        PROVE  FALSE
    <3>1. m # "world_director" /\ row[m] = "running"
      BY <1>2, <1>6, <2>2 DEF Shell
    <3> QED
      BY <1>2, <1>3, <3>1 DEF Ordered
  <2> QED
    BY <2>1, <2>2 DEF Ordered
<1>9. Afforded'
  <2>1. end' = "running" => Greater(made.planned, made.made) + 0 <= CallBudget
    BY <1>6 DEF WithinBudget
  <2>2. made.planned \in Nat /\ made.made \in Nat
    BY <1>5
  <2> QED
    BY <1>6, <2>1, <2>2 DEF Afforded, Greater
<1>10. UNCHANGED content
  BY DEF Director
<1> QED
  BY <1>3, <1>6, <1>7, <1>8, <1>9, <1>10

\* A run that stops, by itself or not, leaves the order as it is.
LEMMA StopEffect ==
    ASSUME Shell, Ordered, Afforded,
           \/ \E n \in Nodes : Overdrawn(n) \/ Raises(n)
           \/ TooLittle \/ Killed \/ Loops
    PROVE  /\ Shell' /\ Ordered' /\ Afforded' /\ UNCHANGED content
           /\ at' = at /\ end = "running" /\ end' \in {"failed", "aborted", "killed", "stuck"}
<1>1. /\ UNCHANGED <<content, at>> /\ end = "running" /\ end' \in {"failed", "aborted", "killed", "stuck"}
      /\ \/ row' = row
         \/ \E n \in Nodes, st \in {"failed", "succeeded"} : row[n] = "running" /\ row' = [row EXCEPT ![n] = st]
      /\ calls' = calls \/ \E k \in Extra : calls' = [calls EXCEPT !.made = @ + Estimate("detail_builders") + k]
  BY DEF Overdrawn, Raises, TooLittle, Killed, Loops, IsNext, Running, Nodes, Pipeline
<1>2. Shell'
  <2>1. calls' \in [planned : Nat, made : Nat]
    <3>1. Estimate("detail_builders") \in Nat /\ Extra \subseteq Nat
      BY EstimateType, ConstantsAssumption DEF Nodes, Pipeline
    <3> QED
      BY <1>1, <3>1 DEF Shell
  <2> QED
    BY <1>1, <2>1 DEF Shell
<1>3. \A i \in 1..(at' - 1) : row'[Pipeline[i]] = "succeeded"
  BY <1>1, PipelineLength DEF Ordered, Shell
<1> QED
  BY <1>1, <1>2, <1>3 DEF Ordered, Afforded

-----------------------------------------------------------------------------
(* What the builders do to the names and the places.                       *)

\* Persons written without a note have names, and are whom they name.
LEMMA PlainNames ==
    ASSUME NEW ps \in SUBSET Persons
    PROVE  Plain(ps) \subseteq Names /\ Norms(Plain(ps)) = ps
           /\ \A c, d \in Plain(ps) : Norm(c) = Norm(d) => c = d
<1>1. Plain(ps) = {<<p, "plain">> : p \in ps}
  BY DEF Plain
<1>2. \A p \in ps : Norm(<<p, "plain">>) = p /\ <<p, "plain">> \in Names
  BY DEF Norm, Names
<1>3. Norms(Plain(ps)) = ps
  <2>1. ASSUME NEW x \in Norms(Plain(ps))
        PROVE  x \in ps
    <3>1. PICK n \in Plain(ps) : x = Norm(n)
      BY DEF Norms
    <3>2. PICK p \in ps : n = <<p, "plain">>
      BY <1>1
    <3> QED
      BY <1>2, <3>1, <3>2
  <2>2. ASSUME NEW x \in ps
        PROVE  x \in Norms(Plain(ps))
    <3>1. <<x, "plain">> \in Plain(ps) /\ Norm(<<x, "plain">>) = x
      BY <1>1, <1>2
    <3> QED
      BY <3>1 DEF Norms
  <2> QED
    BY <2>1, <2>2
<1>4. \A c, d \in Plain(ps) : Norm(c) = Norm(d) => c = d
  <2> TAKE c, d \in Plain(ps)
  <2>1. PICK p, q \in ps : c = <<p, "plain">> /\ d = <<q, "plain">>
    BY <1>1
  <2> QED
    BY <1>2, <2>1
<1>5. Plain(ps) \subseteq Names
  BY <1>1, <1>2
<1> QED
  BY <1>3, <1>4, <1>5

\* A roster names persons; in a strict run with a canon it names no others.
LEMMA RosterSound ==
    ASSUME pack \in [found : BOOLEAN, must : SUBSET Canon], NEW names \in SUBSET Names
    PROVE  /\ Roster(names) \subseteq Names
           /\ fidelity = "strict" /\ pack.found /\ pack.must # {} => Norms(Roster(names)) \subseteq Canon
<1>1. pack.must \subseteq Persons /\ pack.must \subseteq Canon
  BY ConstantsAssumption
<1> DEFINE missing == pack.must \ Norms(names)
<1>2. \A S \in SUBSET Names : EnsureMustHave(S) \subseteq Names
  BY <1>1, PlainNames DEF EnsureMustHave
<1>3. PruneToCanon(names) \subseteq names
  BY DEF PruneToCanon
<1>4. Roster(names) \subseteq Names
  BY <1>2, <1>3 DEF Roster
<1>5. ASSUME fidelity = "strict", pack.found, pack.must # {}
      PROVE  Norms(Roster(names)) \subseteq Canon
  <2>1. Canon # {} /\ Roster(names) = EnsureMustHave(PruneToCanon(names))
    BY <1>1, <1>5 DEF Roster
  <2>2. \A n \in PruneToCanon(names) : Norm(n) \in Canon
    BY <2>1 DEF PruneToCanon
  <2>3. \A n \in Plain(pack.must \ Norms(PruneToCanon(names))) : Norm(n) \in Canon
    BY <1>1, PlainNames DEF Norms
  <2> QED
    BY <2>1, <2>2, <2>3 DEF EnsureMustHave, Norms
<1> QED
  BY <1>4, <1>5

\* Places that are added are places.
LEMMA UnionBackType ==
    ASSUME NEW places \in SUBSET PlaceNames, NEW refs \in SUBSET PlaceNames
    PROVE  UnionBack(places, refs) \subseteq PlaceNames
<1> DEFINE known == {PlaceKey(q) : q \in places}
           news == {q \in refs : PlaceKey(q) \notin known}
           added == {CHOOSE q \in news : PlaceKey(q) = k : k \in {PlaceKey(q) : q \in news}}
<1>1. added \subseteq news
  OBVIOUS
<1>2. UnionBack(places, refs) = places \cup added
  BY DEF UnionBack
<1> QED
  BY <1>1, <1>2

\* What survives of a place is a place of the list.
LEMMA SurvivorType ==
    ASSUME NEW places \in SUBSET PlaceNames, NEW q \in places
    PROVE  Survivor(places, q) \in places
<1> DEFINE last == <<q[1], "plain">>
<1>1. \A k : (\E p \in places : PlaceKey(p) = k) => (CHOOSE p \in places : PlaceKey(p) = k) \in places
  OBVIOUS
<1> QED
  BY <1>1 DEF Survivor

\* So the references that are renamed, and the list without doubles, are of the list.
LEMMA DedupedType ==
    ASSUME NEW places \in SUBSET PlaceNames, NEW refs \in SUBSET PlaceNames
    PROVE  Deduped(places) \subseteq PlaceNames /\ Renamed(places, refs) \subseteq PlaceNames
BY SurvivorType DEF Deduped, Renamed

\* Events name characters of the world they are built for, and the rest of it stays.
LEMMA BuiltEventsEffect ==
    ASSUME NEW w \in Worlds, NEW n \in EventCounts, NEW live \in EventCounts, NEW names \in SUBSET Names
    PROVE  /\ BuiltEvents(w, n, live, names) \in Worlds
           /\ BuiltEvents(w, n, live, names).chars = w.chars
           /\ w.cast \subseteq w.chars =>
                BuiltEvents(w, n, live, names).cast \subseteq BuiltEvents(w, n, live, names).chars
<1> DEFINE cast == w.cast \cup (names \cap w.chars)
<1>1. BuiltEvents(w, n, live, names) = [w EXCEPT !.events = n, !.live = live, !.cast = cast]
  BY DEF BuiltEvents, InCast, Worlds
<1>2. n \in Nat /\ live \in Nat /\ cast \subseteq Names
  BY ConstantsAssumption DEF Worlds
<1>3. w.cast \subseteq w.chars => cast \subseteq w.chars
  OBVIOUS
<1> HIDE DEF cast
<1> QED
  BY <1>1, <1>2, <1>3 DEF Worlds

\* Repairs add the places that are referred to, and take from who may be played.
LEMMA RepairedEffect ==
    ASSUME NEW w \in Worlds
    PROVE  /\ Repaired(w) \in Worlds
           /\ Repaired(w).chars = w.chars /\ Repaired(w).cast = w.cast
           /\ Repaired(w).refs \subseteq Repaired(w).places
           /\ Repaired(w).playable \subseteq Repaired(w).chars
BY DEF Repaired, Worlds

\* One name for each of them.
Single(names) == \A c, d \in names : Norm(c) = Norm(d) => c = d

\* Putting back who is missing doubles nobody.
LEMMA BackfilledEffect ==
    ASSUME pack \in [found : BOOLEAN, must : SUBSET Canon], NEW w \in Worlds
    PROVE  /\ Backfilled(w) \in Worlds
           /\ Backfilled(w).cast = w.cast /\ w.chars \subseteq Backfilled(w).chars
           /\ Single(w.chars) => Single(Backfilled(w).chars)
           /\ Norms(w.chars) \subseteq Canon => Norms(Backfilled(w).chars) \subseteq Canon
<1> DEFINE back == Plain(pack.must \ Norms(w.chars))
<1>1. pack.must \subseteq Persons /\ pack.must \subseteq Canon
  BY ConstantsAssumption
<1>2. back \subseteq Names /\ Norms(back) = pack.must \ Norms(w.chars) /\ Single(back)
  BY <1>1, PlainNames DEF Single
<1>3. Backfilled(w) \in Worlds /\ Backfilled(w).cast = w.cast /\ Backfilled(w).chars = w.chars \cup back
  <2> HIDE DEF back
  <2>1. Backfilled(w) = [w EXCEPT !.chars = w.chars \cup back]
    BY DEF Backfilled, Worlds, back
  <2> QED
    BY <1>2, <2>1 DEF Worlds
<1>4. \A c \in w.chars, d \in back : Norm(c) # Norm(d)
  BY <1>2 DEF Norms
<1>5. Single(w.chars) => Single(w.chars \cup back)
  BY <1>2, <1>4 DEF Single
<1>6. Norms(w.chars) \subseteq Canon => Norms(w.chars \cup back) \subseteq Canon
  BY <1>1, <1>2 DEF Norms
<1> QED
  BY <1>3, <1>5, <1>6

-----------------------------------------------------------------------------
(* What the draft and the world hold, at every place of the pipeline.      *)

\* The content is typed.
Typed ==
    /\ fidelity \in Fidelities
    /\ pack \in [found : BOOLEAN, must : SUBSET Canon]
    /\ draft \in Worlds /\ world \in Worlds
    /\ painted \in BOOLEAN

\* A strict run has found its canon when research is over; its characters are of it.  A roster may
\* name a person twice, the details do not; nothing names characters before these are made.
DraftSound ==
    /\ fidelity = "strict" /\ at > 2 => pack.found /\ pack.must # {}
    /\ fidelity = "strict" => Norms(draft.chars) \subseteq Canon
    /\ at <= 6 => draft.cast = {}
    /\ at > 6 => Single(draft.chars) /\ draft.cast \subseteq draft.chars

WorldSound ==
    /\ fidelity = "strict" => Norms(world.chars) \subseteq Canon
    /\ Single(world.chars) /\ world.cast \subseteq world.chars

Content == Typed /\ DraftSound /\ WorldSound

\* What can be said of a delivered world.
Delivered == ResultMeetsContract /\ RefsResolve /\ PaidFor

IInv == Shell /\ Ordered /\ Afforded /\ Content /\ Delivered

\* The content stays while the pipeline passes a node that does not write it.
LEMMA SameContent ==
    ASSUME Content, UNCHANGED content, at' = at \/ (at' = at + 1 /\ at \notin {2, 6}), at \in Nat
    PROVE  Content'
<1>1. /\ fidelity' = fidelity /\ pack' = pack /\ draft' = draft /\ world' = world /\ painted' = painted
  BY DEF content
<1>2. (at' > 2 => at > 2) /\ (at' <= 6 => at <= 6) /\ (at' > 6 => at > 6)
  OBVIOUS
<1> QED
  BY <1>1, <1>2 DEF Content, Typed, DraftSound, WorldSound

\* A run that goes on, or fails, delivers nothing.
LEMMA NothingDelivered == end # "result" => Delivered
BY DEF Delivered, ResultMeetsContract, RefsResolve, PaidFor

\* Research of the original work.
LEMMA ResearchContent ==
    ASSUME IInv, IpResearch
    PROVE  IInv'
<1>1. "ip_research" \in Nodes \ {"world_director"}
  <2>1. Pipeline[2] = "ip_research"
    BY DEF Pipeline
  <2> QED
    BY <2>1, PipelineLength
<1>2. /\ "ip_research" = Pipeline[at] /\ at \in 1..15 /\ Shell' /\ Ordered' /\ Afforded'
      /\ at' \in {at, at + 1} /\ end' \in {"running", "failed"}
  BY <1>1, FinishEffect DEF IInv, IpResearch
<1>3. at = 2
  BY <1>2, PipelinePlaces
<1>4. UNCHANGED <<fidelity, draft, world, painted>>
  BY DEF IpResearch
<1>5. /\ pack' \in [found : BOOLEAN, must : SUBSET Canon]
      /\ fidelity = "strict" => pack'.found /\ pack'.must # {}
  <2>1. /\ fidelity = "strict" => pack' \in [found : {TRUE}, must : (SUBSET Canon) \ {{}}]
        /\ \/ pack' \in [found : {TRUE}, must : (SUBSET Canon) \ {{}}]
           \/ pack' \in [found : {TRUE}, must : SUBSET Canon] \/ pack' = NoPack
    <3>1. pack' \in CASE fidelity = "strict" -> [found : {TRUE}, must : (SUBSET Canon) \ {{}}]
                      [] fidelity = "loose" -> [found : {TRUE}, must : SUBSET Canon] \cup {NoPack}
                      [] OTHER -> {NoPack}
      BY DEF IpResearch
    <3>2. CASE fidelity = "strict"
      BY <3>1, <3>2
    <3>3. CASE fidelity = "loose"
      BY <3>1, <3>3
    <3>4. CASE fidelity \notin {"strict", "loose"}
      BY <3>1, <3>4
    <3> QED
      BY <3>2, <3>3, <3>4
  <2>2. NoPack \in [found : BOOLEAN, must : SUBSET Canon]
    BY DEF NoPack
  <2>3. \A p \in [found : {TRUE}, must : (SUBSET Canon) \ {{}}] :
            p \in [found : BOOLEAN, must : SUBSET Canon] /\ p.found = TRUE /\ p.must # {}
    OBVIOUS
  <2>4. \A p \in [found : {TRUE}, must : SUBSET Canon] : p \in [found : BOOLEAN, must : SUBSET Canon]
    OBVIOUS
  <2>5. pack' \in [found : BOOLEAN, must : SUBSET Canon]
    BY <2>1, <2>2, <2>3, <2>4
  <2>6. fidelity = "strict" => pack'.found = TRUE /\ pack'.must # {}
    BY <2>1, <2>3
  <2> QED
    BY <2>5, <2>6
<1>6. at' <= 6 /\ at <= 6
  BY <1>2, <1>3
<1>7. Content'
  <2>1. Typed'
    BY <1>4, <1>5 DEF IInv, Content, Typed
  <2>2. DraftSound'
    <3>1. DraftSound /\ draft' = draft /\ fidelity' = fidelity
      BY <1>4 DEF IInv, Content
    <3>2. ~(at' > 6)
      BY <1>2, <1>3
    <3>3. at <= 6 /\ draft'.cast = draft.cast /\ draft'.chars = draft.chars
      BY <1>6, <3>1
    <3> QED
      BY <1>5, <3>1, <3>2, <3>3 DEF DraftSound, Norms
  <2>3. WorldSound'
    BY <1>4 DEF IInv, Content, WorldSound
  <2> QED
    BY <2>1, <2>2, <2>3 DEF Content
<1>8. Delivered'
  BY <1>2 DEF Delivered, ResultMeetsContract, RefsResolve, PaidFor
<1> QED
  BY <1>2, <1>7, <1>8 DEF IInv

\* Nodes whose product is not in the content, or not in what is said of it.
LEMMA PlainNode ==
    ASSUME IInv, NEW n \in Nodes \ {"world_director", "ip_research", "detail_builders"},
           Running(n), Finish(n), UNCHANGED <<fidelity, pack>>,
           /\ draft' \in Worlds /\ world' \in Worlds /\ painted' \in BOOLEAN
           /\ fidelity = "strict" => Norms(draft'.chars) \subseteq Canon
           /\ at <= 6 => draft'.cast = {}
           /\ at > 6 => Single(draft'.chars) /\ draft'.cast \subseteq draft'.chars
           /\ WorldSound'
    PROVE  IInv'
<1>1. /\ n = Pipeline[at] /\ at \in 1..15 /\ Shell' /\ Ordered' /\ Afforded'
      /\ at' \in {at, at + 1} /\ end' \in {"running", "failed"}
  BY FinishEffect DEF IInv
<1>2. at \notin {2, 6}
  BY <1>1, PipelinePlaces
<1>3. (at' > 2 => at > 2) /\ (at' <= 6 => at <= 6) /\ (at' > 6 => at > 6)
  BY <1>1, <1>2
<1>4. Content'
  BY <1>3 DEF IInv, Content, Typed, DraftSound
<1>5. Delivered'
  BY <1>1 DEF Delivered, ResultMeetsContract, RefsResolve, PaidFor
<1> QED
  BY <1>1, <1>4, <1>5 DEF IInv

\* Where the nodes that write the content are.
LEMMA NodePlaces ==
    /\ {"research_pack", "relations_pack", "free_start_stages", "visual_brief", "validating", "world_base",
        "skeleton_builders", "detail_builders", "shared_events", "events_data", "playable", "critic",
        "images"} \subseteq Nodes
    /\ \A n \in Nodes : Shell /\ Ordered /\ Running(n) => at \in 1..15 /\ Pipeline[at] = n
<1>1. /\ Pipeline[1] = "research_pack" /\ Pipeline[4] = "world_base" /\ Pipeline[5] = "skeleton_builders"
      /\ Pipeline[6] = "detail_builders" /\ Pipeline[7] = "shared_events" /\ Pipeline[8] = "relations_pack"
      /\ Pipeline[9] = "events_data" /\ Pipeline[10] = "playable" /\ Pipeline[11] = "free_start_stages"
      /\ Pipeline[12] = "critic" /\ Pipeline[13] = "visual_brief" /\ Pipeline[14] = "images"
      /\ Pipeline[15] = "validating"
  BY DEF Pipeline
<1>2. ASSUME NEW n \in Nodes, Shell, Ordered, Running(n)
      PROVE  at \in 1..15 /\ Pipeline[at] = n
  BY <1>2, PipelineLength DEF Shell, Ordered, Running
<1> QED
  BY <1>1, <1>2, PipelineLength

\* The places of the world, and nodes that leave the content alone.
LEMMA BaseContent ==
    ASSUME IInv,
           \/ \E n \in {"research_pack", "relations_pack", "free_start_stages", "visual_brief", "validating"} : Plods(n)
           \/ WorldBase \/ Images
    PROVE  IInv'
<1>1. ASSUME NEW n \in {"research_pack", "relations_pack", "free_start_stages", "visual_brief", "validating"},
             Plods(n)
      PROVE  IInv'
  <2>1. /\ n \in Nodes \ {"world_director", "ip_research", "detail_builders"} /\ Running(n) /\ Finish(n)
        /\ fidelity' = fidelity /\ pack' = pack /\ draft' = draft /\ world' = world /\ painted' = painted
    BY <1>1, NodePlaces DEF Plods, content
  <2>2. WorldSound'
    BY <2>1 DEF IInv, Content, WorldSound
  <2> QED
    BY <2>1, <2>2, PlainNode DEF IInv, Content, Typed, DraftSound
<1>2. CASE WorldBase
  <2>1. /\ "world_base" \in Nodes \ {"world_director", "ip_research", "detail_builders"}
        /\ Running("world_base") /\ Finish("world_base") /\ UNCHANGED <<fidelity, pack, world, painted>>
    BY <1>2, NodePlaces DEF WorldBase
  <2>2. draft' \in Worlds /\ draft'.chars = draft.chars /\ draft'.cast = draft.cast
    BY <1>2 DEF WorldBase, IInv, Content, Typed, Worlds
  <2>3. WorldSound'
    BY <2>1 DEF IInv, Content, WorldSound
  <2> QED
    BY <2>1, <2>2, <2>3, PlainNode DEF IInv, Content, Typed, DraftSound
<1>3. CASE Images
  <2>1. /\ "images" \in Nodes \ {"world_director", "ip_research", "detail_builders"}
        /\ Running("images") /\ Finish("images") /\ UNCHANGED <<fidelity, pack, draft, world>>
        /\ painted' \in BOOLEAN
    BY <1>3, NodePlaces DEF Images
  <2>2. WorldSound'
    BY <2>1 DEF IInv, Content, WorldSound
  <2> QED
    BY <2>1, <2>2, PlainNode DEF IInv, Content, Typed, DraftSound
<1> QED
  BY <1>1, <1>2, <1>3

\* The roster, before the details.
LEMMA SkeletonContent ==
    ASSUME IInv, Skeleton
    PROVE  IInv'
<1>1. /\ "skeleton_builders" \in Nodes \ {"world_director", "ip_research", "detail_builders"}
      /\ Running("skeleton_builders") /\ Finish("skeleton_builders") /\ UNCHANGED <<fidelity, pack, world, painted>>
  BY NodePlaces DEF Skeleton
<1>2. at = 5
  BY <1>1, NodePlaces, PipelinePlaces DEF IInv
<1>3. draft' \in Worlds /\ draft'.cast = draft.cast
      /\ (fidelity = "strict" => Norms(draft'.chars) \subseteq Canon)
  <2>1. CASE UNCHANGED draft
    BY <2>1 DEF IInv, Content, Typed, DraftSound
  <2>2. ASSUME NEW names \in SUBSET Names, NEW f \in MayBeFlagged(Roster(names)),
               draft' = [draft EXCEPT !.chars = Roster(names), !.playable = f]
        PROVE  /\ draft' \in Worlds /\ draft'.cast = draft.cast
               /\ fidelity = "strict" => Norms(draft'.chars) \subseteq Canon
    <3>1. /\ Roster(names) \subseteq Names
          /\ fidelity = "strict" => Norms(Roster(names)) \subseteq Canon
      BY <1>2, RosterSound DEF IInv, Content, Typed, DraftSound
    <3>2. f \subseteq Names
      BY <3>1 DEF MayBeFlagged
    <3>3. draft \in Worlds
      BY DEF IInv, Content, Typed
    <3> QED
      BY <2>2, <3>1, <3>2, <3>3 DEF Worlds
  <2> QED
    BY <2>1, <2>2 DEF Skeleton
<1>4. WorldSound'
  BY <1>1 DEF IInv, Content, WorldSound
<1>5. at <= 6 => draft'.cast = {}
  BY <1>3 DEF IInv, Content, DraftSound
<1>6. ~(at > 6)
  BY <1>2
<1> QED
  BY <1>1, <1>3, <1>4, <1>5, <1>6, PlainNode DEF IInv, Content, Typed

\* From the details on nobody is in the draft twice.
LEMMA DetailsContent ==
    ASSUME IInv, Details
    PROVE  IInv'
<1>1. /\ "detail_builders" \in Nodes \ {"world_director"}
      /\ Running("detail_builders") /\ Finish("detail_builders") /\ UNCHANGED <<fidelity, pack, world, painted>>
  BY NodePlaces DEF Details
<1>2. /\ at = 6 /\ Shell' /\ Ordered' /\ Afforded' /\ at' \in {at, at + 1} /\ end' \in {"running", "failed"}
  BY <1>1, FinishEffect, PipelinePlaces DEF IInv
<1>3. PICK cs \in OnePerPerson(draft.chars), refs \in SUBSET PlaceNames :
        LET listed == UnionBack(draft.places, refs)
        IN  draft' = [draft EXCEPT !.chars = cs, !.playable = @ \cap cs,
                                   !.places = Deduped(listed), !.refs = Renamed(listed, refs)]
  BY DEF Details
<1> DEFINE listed == UnionBack(draft.places, refs)
<1>4. draft \in Worlds /\ draft.cast = {}
  BY <1>2 DEF IInv, Content, Typed, DraftSound
<1>5. cs \subseteq draft.chars /\ Single(cs)
  BY DEF OnePerPerson, Single
<1>6. Deduped(listed) \subseteq PlaceNames /\ Renamed(listed, refs) \subseteq PlaceNames
  <2>1. draft.places \subseteq PlaceNames
    BY <1>4 DEF Worlds
  <2>2. listed \subseteq PlaceNames
    BY <2>1, UnionBackType
  <2> QED
    BY <2>2, DedupedType
<1>7. draft' \in Worlds /\ draft'.chars = cs /\ draft'.cast = {}
  <2>1. draft' = [draft EXCEPT !.chars = cs, !.playable = draft.playable \cap cs,
                               !.places = Deduped(listed), !.refs = Renamed(listed, refs)]
    BY <1>3, <1>4 DEF Worlds
  <2> HIDE DEF listed
  <2> QED
    BY <1>4, <1>5, <1>6, <2>1 DEF Worlds
<1>8. Content'
  <2>1. Typed'
    BY <1>1, <1>7 DEF IInv, Content, Typed
  <2>2. DraftSound'
    BY <1>1, <1>2, <1>5, <1>7 DEF IInv, Content, DraftSound, Norms
  <2>3. WorldSound'
    BY <1>1 DEF IInv, Content, WorldSound
  <2> QED
    BY <2>1, <2>2, <2>3 DEF Content
<1>9. Delivered'
  BY <1>2 DEF Delivered, ResultMeetsContract, RefsResolve, PaidFor
<1> QED
  BY <1>2, <1>8, <1>9 DEF IInv

\* Shared events and relations name characters of the draft.
LEMMA SharedContent ==
    ASSUME IInv, SharedEvents
    PROVE  IInv'
<1>1. /\ "shared_events" \in Nodes \ {"world_director", "ip_research", "detail_builders"}
      /\ Running("shared_events") /\ Finish("shared_events") /\ UNCHANGED <<fidelity, pack, world, painted>>
  BY NodePlaces DEF SharedEvents
<1>2. at > 6 /\ at \in 1..15
  BY <1>1, NodePlaces, PipelinePlaces DEF IInv
<1>3. draft \in Worlds
  BY DEF IInv, Content, Typed
<1>4. draft' \in Worlds /\ draft'.chars = draft.chars /\ draft'.cast \subseteq draft.chars
  <2>1. PICK names \in SUBSET Names : draft' = [draft EXCEPT !.cast = InCast(names, draft.chars)]
    BY DEF SharedEvents
  <2>2. InCast(names, draft.chars) \subseteq draft.chars /\ InCast(names, draft.chars) \subseteq Names
    BY DEF InCast
  <2> QED
    BY <1>3, <2>1, <2>2 DEF Worlds
<1>5. Single(draft.chars) /\ (fidelity = "strict" => Norms(draft.chars) \subseteq Canon)
  BY <1>2 DEF IInv, Content, DraftSound
<1>6. WorldSound'
  BY <1>1 DEF IInv, Content, WorldSound
<1>7. ~(at <= 6)
  BY <1>2
<1> QED
  BY <1>1, <1>4, <1>5, <1>6, <1>7, PlainNode DEF IInv, Content, Typed

\* So do the events.
LEMMA EventsContent ==
    ASSUME IInv, EventsData
    PROVE  IInv'
<1>1. /\ "events_data" \in Nodes \ {"world_director", "ip_research", "detail_builders"}
      /\ Running("events_data") /\ Finish("events_data") /\ UNCHANGED <<fidelity, pack, world, painted>>
  BY NodePlaces DEF EventsData
<1>2. at > 6 /\ at \in 1..15
  BY <1>1, NodePlaces, PipelinePlaces DEF IInv
<1>3. /\ draft \in Worlds /\ Single(draft.chars) /\ draft.cast \subseteq draft.chars
      /\ fidelity = "strict" => Norms(draft.chars) \subseteq Canon
  BY <1>2 DEF IInv, Content, Typed, DraftSound
<1>4. draft' \in Worlds /\ draft'.chars = draft.chars /\ draft'.cast \subseteq draft'.chars
  BY <1>3, BuiltEventsEffect DEF EventsData
<1>5. WorldSound'
  BY <1>1 DEF IInv, Content, WorldSound
<1>6. ~(at <= 6)
  BY <1>2
<1> QED
  BY <1>1, <1>3, <1>4, <1>5, <1>6, PlainNode DEF IInv, Content, Typed

\* Who may be played is a character.
LEMMA PlayableContent ==
    ASSUME IInv, Playable
    PROVE  IInv'
<1>1. /\ "playable" \in Nodes \ {"world_director", "ip_research", "detail_builders"}
      /\ Running("playable") /\ Finish("playable") /\ UNCHANGED <<fidelity, pack, world, painted>>
  BY NodePlaces DEF Playable
<1>2. at > 6 /\ at \in 1..15
  BY <1>1, NodePlaces, PipelinePlaces DEF IInv
<1>3. /\ draft \in Worlds /\ Single(draft.chars) /\ draft.cast \subseteq draft.chars
      /\ fidelity = "strict" => Norms(draft.chars) \subseteq Canon
  BY <1>2 DEF IInv, Content, Typed, DraftSound
<1>4. draft' \in Worlds /\ draft'.chars = draft.chars /\ draft'.cast = draft.cast
  <2>1. PICK ps \in SUBSET draft.chars : draft' = [draft EXCEPT !.playable = ps]
    BY DEF Playable
  <2> QED
    BY <1>3, <2>1 DEF Worlds
<1>5. WorldSound'
  BY <1>1 DEF IInv, Content, WorldSound
<1>6. ~(at <= 6)
  BY <1>2
<1> QED
  BY <1>1, <1>3, <1>4, <1>5, <1>6, PlainNode DEF IInv, Content, Typed

\* The critic puts back who is missing, under a name nobody has, and may have the events built again.
LEMMA CriticContent ==
    ASSUME IInv, Critic
    PROVE  IInv'
<1>1. /\ "critic" \in Nodes \ {"world_director", "ip_research", "detail_builders"}
      /\ Running("critic") /\ Finish("critic") /\ UNCHANGED <<fidelity, pack, draft, painted>>
  BY NodePlaces DEF Critic
<1>2. at > 6 /\ at \in 1..15
  BY <1>1, NodePlaces, PipelinePlaces DEF IInv
<1>3. /\ world \in Worlds /\ Single(world.chars) /\ world.cast \subseteq world.chars
      /\ fidelity = "strict" => Norms(world.chars) \subseteq Canon
      /\ pack \in [found : BOOLEAN, must : SUBSET Canon]
  BY DEF IInv, Content, Typed, WorldSound
<1>4. PICK w \in Worlds :
        w.chars = world.chars /\ w.cast \subseteq w.chars /\ world' = Backfilled(w)
  <2>1. CASE world' = Backfilled(world)
    BY <1>3, <2>1
  <2>2. ASSUME NEW n \in EventCounts, NEW live \in EventCounts, NEW names \in SUBSET Names,
               world' = Backfilled(BuiltEvents(world, n, live, names))
        PROVE  \E w \in Worlds :
                   w.chars = world.chars /\ w.cast \subseteq w.chars /\ world' = Backfilled(w)
    <3>1. /\ BuiltEvents(world, n, live, names) \in Worlds
          /\ BuiltEvents(world, n, live, names).chars = world.chars
          /\ BuiltEvents(world, n, live, names).cast \subseteq BuiltEvents(world, n, live, names).chars
      BY <1>3, BuiltEventsEffect
    <3> QED
      BY <2>2, <3>1
  <2> QED
    BY <2>1, <2>2 DEF Critic
<1>5. /\ world' \in Worlds /\ Single(world'.chars) /\ world'.cast \subseteq world'.chars
      /\ fidelity = "strict" => Norms(world'.chars) \subseteq Canon
  BY <1>3, <1>4, BackfilledEffect
<1>6. WorldSound'
  BY <1>1, <1>5 DEF WorldSound
<1>7. /\ draft \in Worlds /\ Single(draft.chars) /\ draft.cast \subseteq draft.chars
      /\ fidelity = "strict" => Norms(draft.chars) \subseteq Canon
  BY <1>2 DEF IInv, Content, Typed, DraftSound
<1>8. ~(at <= 6)
  BY <1>2
<1> QED
  BY <1>1, <1>5, <1>6, <1>7, <1>8, PlainNode DEF IInv, Content, Typed

\* The empty world is at one with itself.
LEMMA EmptyWorld ==
    NoWorld \in Worlds /\ NoWorld.cast = {} /\ Single(NoWorld.chars) /\ Norms(NoWorld.chars) \subseteq Canon
    /\ NoWorld.cast \subseteq NoWorld.chars
BY DEF NoWorld, Worlds, Single, Norms

\* The payload is made of the draft.
LEMMA AssembleContent ==
    ASSUME IInv, Assemble
    PROVE  IInv'
<1>1. /\ end = "running" /\ at \in 1..15 /\ Pipeline[at] = "critic"
      /\ world' = Repaired(draft) /\ draft' = NoWorld /\ end' \in {"failed", "running"}
      /\ UNCHANGED <<fidelity, pack, painted, at, row, calls>>
  BY PipelineLength DEF Assemble, IsNext, IInv, Shell
<1>2. at > 6
  BY <1>1, PipelinePlaces
<1>3. /\ draft \in Worlds /\ Single(draft.chars) /\ draft.cast \subseteq draft.chars
      /\ fidelity = "strict" => Norms(draft.chars) \subseteq Canon
  BY <1>2 DEF IInv, Content, Typed, DraftSound
<1>4. world' \in Worlds /\ world'.chars = draft.chars /\ world'.cast = draft.cast
  BY <1>1, <1>3, RepairedEffect
<1>5. Shell' /\ Ordered' /\ Afforded'
  BY <1>1 DEF IInv, Shell, Ordered, Afforded, HasSpec
<1>6. Content'
  <2>1. Typed'
    BY <1>1, <1>4, EmptyWorld DEF IInv, Content, Typed
  <2>2. DraftSound'
    BY <1>1, EmptyWorld DEF IInv, Content, DraftSound
  <2>3. WorldSound'
    BY <1>1, <1>3, <1>4 DEF WorldSound
  <2> QED
    BY <2>1, <2>2, <2>3 DEF Content
<1>7. Delivered'
  BY <1>1 DEF Delivered, ResultMeetsContract, RefsResolve, PaidFor
<1> QED
  BY <1>5, <1>6, <1>7 DEF IInv

\* There are finitely many names.
LEMMA NamesFinite == IsFiniteSet(Names)
<1>1. IsFiniteSet({} \cup {"plain"})
  BY FS_EmptySet, FS_AddElement
<1>2. IsFiniteSet(({} \cup {"plain"}) \cup {"noted"})
  BY <1>1, FS_AddElement
<1>3. ({} \cup {"plain"}) \cup {"noted"} = {"plain", "noted"}
  OBVIOUS
<1>4. IsFiniteSet({"plain", "noted"})
  BY <1>2, <1>3
<1> QED
  BY <1>4, ConstantsAssumption, FS_Product DEF Names

\* What the contract asks for are numbers.
LEMMA NeedsType ==
    ASSUME pack \in [found : BOOLEAN, must : SUBSET Canon]
    PROVE  RolesNeeded \in Nat /\ PlayableMin \in Nat /\ EventsNeeded \in Nat
<1>1. IsFiniteSet(pack.must)
  BY ConstantsAssumption, FS_Subset
<1>2. Cardinality(pack.must) \in Nat
  BY <1>1, FS_CardinalityType
<1> QED
  BY <1>2, ConstantsAssumption DEF RolesNeeded, EventsNeeded, Greater

\* The result: every node has succeeded, and the second check lets through what keeps the contract.
LEMMA DeliverContent ==
    ASSUME IInv, Deliver
    PROVE  IInv'
<1>1. /\ end = "running" /\ at = 16 /\ world' = Repaired(world)
      /\ end' = (IF Blocked(Repaired(world), TRUE) THEN "failed" ELSE "result")
      /\ UNCHANGED <<fidelity, pack, draft, painted, at, row, calls>>
  BY PipelineLength DEF Deliver, IInv, Shell
<1>2. /\ world \in Worlds /\ Single(world.chars) /\ world.cast \subseteq world.chars
      /\ fidelity = "strict" => Norms(world.chars) \subseteq Canon
  BY DEF IInv, Content, Typed, WorldSound
<1>3. /\ world' \in Worlds /\ world'.chars = world.chars /\ world'.cast = world.cast
      /\ world'.refs \subseteq world'.places /\ world'.playable \subseteq world'.chars
  BY <1>1, <1>2, RepairedEffect
<1>4. Shell' /\ Ordered' /\ Afforded'
  BY <1>1 DEF IInv, Shell, Ordered, Afforded
<1>5. Content'
  <2>1. Typed'
    BY <1>1, <1>3 DEF IInv, Content, Typed
  <2>2. DraftSound'
    BY <1>1 DEF IInv, Content, DraftSound
  <2>3. WorldSound'
    BY <1>1, <1>2, <1>3 DEF WorldSound
  <2> QED
    BY <2>1, <2>2, <2>3 DEF Content
<1>6. PaidFor'
  <2>1. Greater(calls.planned, calls.made) <= CallBudget
    BY <1>1 DEF IInv, Afforded, HasSpec
  <2>2. \A n \in Nodes : row[n] = "succeeded"
    BY <1>1, PipelineLength DEF IInv, Ordered, Nodes
  <2> QED
    BY <1>1, <2>1, <2>2 DEF PaidFor
<1>7. ResultMeetsContract'
  <2>1. SUFFICES ASSUME end' = "result"
                 PROVE  ResultMeetsContract'
    BY DEF ResultMeetsContract
  <2>2. ~Blocked(world', TRUE) /\ pack' = pack
    BY <1>1, <2>1
  <2>3. /\ ~(Cardinality(world'.chars) < RolesNeeded) /\ Plain(pack.must) \subseteq world'.chars
        /\ ~(Cardinality(world'.playable) < PlayableMin) /\ ~(world'.events < EventsNeeded)
    BY <2>2 DEF Blocked
  <2>4. IsFiniteSet(world'.chars) /\ IsFiniteSet(world'.playable)
    <3>1. IsFiniteSet(Names)
      BY NamesFinite
    <3> QED
      BY <1>3, <3>1, FS_Subset DEF Worlds
  <2>5. Cardinality(world'.chars) \in Nat /\ Cardinality(world'.playable) \in Nat /\ world'.events \in Nat
    BY <1>3, <2>4, FS_CardinalityType DEF Worlds
  <2>6. RolesNeeded \in Nat /\ PlayableMin \in Nat /\ EventsNeeded \in Nat
    BY NeedsType DEF IInv, Content, Typed
  <2>7. /\ Cardinality(world'.chars) >= RolesNeeded /\ Cardinality(world'.playable) >= PlayableMin
        /\ world'.events >= EventsNeeded
    BY <2>3, <2>5, <2>6
  <2>8. RolesNeeded' = RolesNeeded
    BY <1>1 DEF RolesNeeded
  <2> QED
    BY <1>3, <2>2, <2>3, <2>7, <2>8 DEF ResultMeetsContract
<1>8. RefsResolve'
  BY <1>3 DEF RefsResolve
<1> QED
  BY <1>4, <1>5, <1>6, <1>7, <1>8 DEF IInv, Delivered

-----------------------------------------------------------------------------
(* The specification.                                                      *)

\* A run starts with nothing made and nothing delivered.
LEMMA InitHolds == Init => IInv
<1> SUFFICES ASSUME Init PROVE IInv
  OBVIOUS
<1>1. /\ fidelity \in Fidelities /\ pack = NoPack /\ draft = NoWorld /\ world = NoWorld /\ painted = FALSE
      /\ at = 1 /\ row = [n \in Nodes |-> "none"] /\ calls = [planned |-> 0, made |-> 0] /\ end = "running"
  BY DEF Init
<1>2. Shell /\ Ordered /\ Afforded
  BY <1>1 DEF Shell, Ordered, Afforded, HasSpec
<1>3. Typed
  BY <1>1, EmptyWorld DEF Typed, NoPack
<1>4. DraftSound /\ WorldSound
  BY <1>1, EmptyWorld DEF DraftSound, WorldSound
<1>5. Delivered
  BY <1>1, NothingDelivered
<1> QED
  BY <1>2, <1>3, <1>4, <1>5 DEF IInv, Content

\* Every step keeps it.
LEMMA StepHolds == IInv /\ [Next]_vars => IInv'
<1> SUFFICES ASSUME IInv, [Next]_vars
             PROVE  IInv'
  OBVIOUS
<1>1. ASSUME NEW n \in Nodes, Start(n)
      PROVE  IInv'
  <2>1. Shell' /\ Ordered' /\ Afforded' /\ at' = at /\ end' = end /\ UNCHANGED content /\ end = "running"
    BY <1>1, StartEffect DEF IInv, Start, IsNext
  <2>2. Content'
    BY <2>1, SameContent DEF IInv, Shell
  <2>3. Delivered'
    BY <2>1 DEF Delivered, ResultMeetsContract, RefsResolve, PaidFor
  <2> QED
    BY <2>1, <2>2, <2>3 DEF IInv
<1>2. CASE TooLittle \/ Killed \/ Loops \/ \E n \in Nodes : Overdrawn(n) \/ Raises(n)
  <2>1. /\ Shell' /\ Ordered' /\ Afforded' /\ UNCHANGED content
        /\ at' = at /\ end = "running" /\ end' \in {"failed", "aborted", "killed", "stuck"}
    BY <1>2, StopEffect DEF IInv
  <2>2. Content'
    BY <2>1, SameContent DEF IInv, Shell
  <2>3. Delivered'
    BY <2>1 DEF Delivered, ResultMeetsContract, RefsResolve, PaidFor
  <2> QED
    BY <2>1, <2>2, <2>3 DEF IInv
<1>3. CASE Director
  <2>1. /\ Shell' /\ Ordered' /\ Afforded' /\ UNCHANGED content
        /\ at = 3 /\ at' = 4 /\ end' \in {"running", "failed"}
    BY <1>3, DirectorEffect DEF IInv
  <2>2. Content'
    BY <2>1, SameContent DEF IInv
  <2>3. Delivered'
    BY <2>1 DEF Delivered, ResultMeetsContract, RefsResolve, PaidFor
  <2> QED
    BY <2>1, <2>2, <2>3 DEF IInv
<1>4. CASE UNCHANGED vars
  <2>1. /\ fidelity' = fidelity /\ pack' = pack /\ draft' = draft /\ world' = world /\ painted' = painted
        /\ at' = at /\ row' = row /\ calls' = calls /\ end' = end
    BY <1>4 DEF vars
  <2>2. Shell' /\ Ordered' /\ Afforded'
    BY <2>1 DEF IInv, Shell, Ordered, Afforded, HasSpec
  <2>3. Content'
    BY <2>1 DEF IInv, Content, Typed, DraftSound, WorldSound
  <2>4. Delivered'
    BY <2>1 DEF IInv, Delivered, ResultMeetsContract, RefsResolve, PaidFor, RolesNeeded
  <2> QED
    BY <2>2, <2>3, <2>4 DEF IInv
<1> QED
  BY <1>1, <1>2, <1>3, <1>4, BaseContent, ResearchContent, SkeletonContent, DetailsContent, SharedContent,
     EventsContent, PlayableContent, AssembleContent, CriticContent, DeliverContent DEF Next, Over

\* The inductive invariant of a run.
THEOREM Invariant == Spec => []IInv
BY InitHolds, StepHolds, PTL DEF Spec

\* Type correctness: the rows know four states, the payload is a world, the pipeline is never left behind.
THEOREM TypeCorrect == Spec => []TypeOK
<1>1. IInv => TypeOK
  BY PipelineLength DEF IInv, Shell, Content, Typed, TypeOK
<1> QED
  BY <1>1, Invariant, PTL

\* A delivered world keeps the contract of its run, although the critic, the pictures and the repairs
\* rewrote it after the first check (world_generation_orchestrator.py).
THEOREM ContractKept == Spec => []ResultMeetsContract
<1>1. IInv => ResultMeetsContract
  BY DEF IInv, Delivered
<1> QED
  BY <1>1, Invariant, PTL

\* It was made within the calls the run was given, by nodes that all succeeded: neither the budget that is
\* looked at before and after each node nor a row that is written twice lets another through.
THEOREM WorldPaidFor == Spec => []PaidFor
<1>1. IInv => PaidFor
  BY DEF IInv, Delivered
<1> QED
  BY <1>1, Invariant, PTL

\* And it is at one with itself: the places that are referred to exist, nobody is in it twice, events know
\* their people, and a strict run tells of the original's.
THEOREM WorldsAreConsistent == Spec => []WorldIsConsistent
<1>1. IInv => WorldIsConsistent
  BY DEF IInv, Delivered, Content, WorldSound, Single, WorldIsConsistent, OnePersonOnce, CastClosed,
         StrictIsCanon
<1> QED
  BY <1>1, Invariant, PTL

-----------------------------------------------------------------------------
(* The pictures of the world that is being made (PictureStage): several    *)
(* are painted at once and come back in any order.                         *)

CONSTANTS None, Placeholder, Portrayed, Slots, Titles, MaxEndings

VARIABLES sort, task, picture, heard, shown, warned, endings, left, stage

Stage == INSTANCE PictureStage WITH
    People <- Portrayed, kind <- sort, result <- picture, payload <- shown, at <- stage

Frames == Portrayed \in Seq(STRING) /\ None # Placeholder

\* Whoever told somebody of placeholders told all of them, and has not begun before.
Told == heard # <<>> \/ warned # {} => warned = {t \in Stage!Targets : shown[t] = Placeholder}

FramesInv ==
    /\ DOMAIN picture = Stage!Targets /\ \A t \in Stage!Targets : picture[t] \in {None, Placeholder, t}
    /\ DOMAIN shown = Stage!Targets
    /\ \A i \in DOMAIN endings : DOMAIN endings[i] = {"title", "picture"}
    /\ stage = "brief" => heard = <<>> /\ warned = {} /\ \A t \in Stage!Targets : shown[t] = None
    /\ stage \in {"cards", "done"} => Told
    /\ Stage!PictureOfItsOwn

LEMMA FramesInit == Frames /\ Stage!Init => FramesInv
<1> SUFFICES ASSUME Frames, Stage!Init PROVE FramesInv
  OBVIOUS
<1>1. picture = [t \in Stage!Targets |-> None] /\ shown = [t \in Stage!Targets |-> None]
      /\ heard = <<>> /\ warned = {} /\ stage = "brief"
  BY DEF Stage!Init, Stage!Everywhere
<1>2. \A i \in DOMAIN endings : DOMAIN endings[i] = {"title", "picture"} /\ endings[i].picture = None
  <2>1. CASE endings = <<>>
    BY <2>1
  <2>2. CASE endings \in Stage!Upto([title : Titles, picture : {None}], MaxEndings)
    BY <2>2 DEF Stage!Upto
  <2> QED
    BY <2>1, <2>2 DEF Stage!Init
<1> QED
  BY <1>1, <1>2 DEF FramesInv, Stage!PictureOfItsOwn

LEMMA HeroAndCover == Frames => "hero" \in Stage!Targets /\ "cover" \in Stage!Targets
<1> SUFFICES ASSUME Frames PROVE "hero" \in Stage!Targets /\ "cover" \in Stage!Targets
  OBVIOUS
<1>1. Stage!Order[1] = "hero" /\ Stage!Order[2] = "cover" /\ 1 \in DOMAIN Stage!Order /\ 2 \in DOMAIN Stage!Order
  BY DEF Frames, Stage!Order
<1> QED
  BY <1>1 DEF Stage!Targets, Stage!ToSet

\* While a world's pictures are painted each result is of the picture it stands at.
LEMMA PaintingKeeps ==
  ASSUME FramesInv,
         \/ \E briefed \in SUBSET Stage!Portraits : Stage!Begin(briefed)
         \/ \E t \in Stage!Targets : Stage!Take(t) \/ Stage!Hear(t) \/ \E outcome \in {"real", "failed"} : Stage!Paint(t, outcome)
         \/ Stage!Leave
  PROVE  FramesInv'
<1>1. UNCHANGED <<shown, endings, warned>>
  BY DEF Stage!Begin, Stage!Take, Stage!Hear, Stage!Paint, Stage!Leave
<1>2. DOMAIN picture' = Stage!Targets /\ \A t \in Stage!Targets : picture'[t] \in {None, Placeholder, t}
  BY DEF FramesInv, Stage!Begin, Stage!Take, Stage!Hear, Stage!Paint, Stage!Leave
<1>3. stage' \in {"painting", "left"} \/ (stage' = stage /\ heard' = heard)
  BY DEF Stage!Begin, Stage!Take, Stage!Hear, Stage!Paint, Stage!Leave
<1> QED
  <2>1. Stage!PictureOfItsOwn' /\ DOMAIN shown' = Stage!Targets
        /\ \A i \in DOMAIN endings' : DOMAIN endings'[i] = {"title", "picture"}
    BY <1>1 DEF FramesInv, Stage!PictureOfItsOwn
  <2>2. stage' = "brief" => heard' = <<>> /\ warned' = {} /\ \A t \in Stage!Targets : shown'[t] = None
    BY <1>1, <1>3 DEF FramesInv
  <2>3. stage' \in {"cards", "done"} => Told'
    BY <1>1, <1>3 DEF FramesInv, Told
  <2> QED
    BY <1>2, <2>1, <2>2, <2>3 DEF FramesInv

LEMMA WriteKeepsFrames ==
  ASSUME FramesInv, NEW cut \in BOOLEAN, Stage!Write(cut)
  PROVE  FramesInv'
<1> DEFINE urls == [t \in Stage!Targets |-> picture[t]]
           cover == IF urls["cover"] = Placeholder /\ urls["hero"] # Placeholder /\ cut THEN "hero" ELSE urls["cover"]
           new == [urls EXCEPT !["cover"] = cover]
<1>1. shown' = new /\ warned' = {t \in Stage!Targets : new[t] = Placeholder}
  BY DEF Stage!Write, Stage!Result
<1>2. stage' = "done" /\ UNCHANGED <<picture, heard, endings>>
  BY DEF Stage!Write
<1>3. DOMAIN new = Stage!Targets
      /\ \A t \in Stage!Targets : new[t] = picture[t] \/ (t = "cover" /\ new[t] \in {"hero", picture[t]})
  OBVIOUS
<1> HIDE DEF new
<1> QED
  BY <1>1, <1>2, <1>3 DEF FramesInv, Told, Stage!PictureOfItsOwn

LEMMA OthersKeepFrames ==
  ASSUME Frames, FramesInv,
         \/ Stage!Skip \/ Stage!SkipScript \/ Stage!EndCards
         \/ \E outcome \in {"real", "failed"} : Stage!Cover(outcome) \/ Stage!Card(outcome)
  PROVE  FramesInv'
<1>1. CASE Stage!Skip \/ Stage!SkipScript
  BY <1>1 DEF FramesInv, Told, Stage!PictureOfItsOwn, Stage!Skip, Stage!SkipScript, Stage!Everywhere
<1>2. CASE Stage!EndCards
  BY <1>2 DEF FramesInv, Told, Stage!PictureOfItsOwn, Stage!EndCards
<1>3. ASSUME NEW outcome \in {"real", "failed"}, Stage!Cover(outcome) PROVE FramesInv'
  BY <1>3, HeroAndCover DEF Frames, FramesInv, Told, Stage!PictureOfItsOwn, Stage!Cover
<1>4. ASSUME NEW outcome \in {"real", "failed"}, Stage!Card(outcome) PROVE FramesInv'
  BY <1>4 DEF FramesInv, Told, Stage!PictureOfItsOwn, Stage!Card
<1> QED
  BY <1>1, <1>2, <1>3, <1>4

LEMMA FramesStep == Frames /\ FramesInv /\ [Stage!Next]_(Stage!vars) => FramesInv'
<1> SUFFICES ASSUME Frames, FramesInv, [Stage!Next]_(Stage!vars) PROVE FramesInv'
  OBVIOUS
<1>1. CASE UNCHANGED Stage!vars
  BY <1>1 DEF Stage!vars, FramesInv, Told, Stage!PictureOfItsOwn
<1>2. CASE Stage!Next
  BY <1>2, PaintingKeeps, WriteKeepsFrames, OthersKeepFrames DEF Stage!Next
<1> QED
  BY <1>1, <1>2

LEMMA FramesAlways == ASSUME Frames PROVE Stage!Spec => []FramesInv
  BY FramesInit, FramesStep, PTL DEF Stage!Spec

\* world_creator_agent_v2.py _run_images, create_script: however the pictures overtake each
\* other, fail or are too late, each stands where it belongs; only a cover may be the hero's.
THEOREM OwnPictures == ASSUME Frames PROVE Stage!Spec => []Stage!PictureOfItsOwn
<1>1. FramesInv => Stage!PictureOfItsOwn
  BY DEF FramesInv
<1> QED
  BY <1>1, FramesAlways, PTL

\* _run_images: whoever is told of placeholders is told of exactly those that are there.
THEOREM PlaceholdersAreTold == ASSUME Frames PROVE Stage!Spec => []Stage!PlaceholderIsTold
<1>1. FramesInv => Stage!PlaceholderIsTold
  BY DEF FramesInv, Told, Stage!PlaceholderIsTold
<1> QED
  BY <1>1, FramesAlways, PTL

-----------------------------------------------------------------------------
(* What the run reports while a stage works (Pulse): milestones go through *)
(* two queues, and the second one is also written to by others.            *)

CONSTANTS MaxTold

VARIABLES work, told, side, mail, read, reader

Pulses == INSTANCE Pulse WITH queue <- mail, shown <- read, at <- reader

Items == [kind : {"stage", "pulse", "result", "error"}, n : Nat]

\* Milestones that have left the first queue.
Carried == told - Len(side)

\* Those that are in the second one are the next to be shown, all of them and in their order.
StagesOf == {i \in 1..Len(mail) : mail[i].kind = "stage"}
InOrder ==
    /\ \A i \in StagesOf : mail[i].n \in (Len(read) + 1)..Carried
    /\ \A i, j \in StagesOf : i < j => mail[i].n < mail[j].n
    /\ \A v \in (Len(read) + 1)..Carried : \E i \in StagesOf : mail[i].n = v

\* The end that is on its way is that of the work.
EndIsTrue ==
    /\ reader = "reading" => work \in {"running", "result", "error"}
    /\ reader # "reading" => work # "running"
    /\ reader \in {"result", "error"} => reader = work
    /\ reader = "reading" => \A i \in 1..Len(mail) : mail[i].kind \in {"result", "error"} => mail[i].kind = work

PulsesInv ==
    /\ told \in Nat /\ Len(read) <= Carried
    /\ side \in Seq(Nat) /\ \A k \in 1..Len(side) : side[k] = Carried + k
    /\ mail \in Seq(Items)
    /\ read \in Seq(Nat) /\ \A i \in 1..Len(read) : read[i] = i
    /\ InOrder /\ EndIsTrue

LEMMA PulsesInit == Pulses!Init => PulsesInv
BY DEF Pulses!Init, PulsesInv, Carried, StagesOf, InOrder, EndIsTrue

LEMMA PulsesNumbers ==
  ASSUME PulsesInv
  PROVE  /\ Carried \in Nat /\ Len(read) \in Nat /\ Len(mail) \in Nat
         /\ \A i \in StagesOf : i \in 1..Len(mail) /\ i \in Nat /\ mail[i].n \in Nat
         /\ \A i \in StagesOf : Len(read) + 1 <= mail[i].n /\ mail[i].n <= Carried
         /\ \A i, j \in StagesOf : i < j => mail[i].n < mail[j].n
         /\ \A v \in Nat : Len(read) + 1 <= v /\ v <= Carried => \E i \in StagesOf : mail[i].n = v
<1>1. Carried \in Int /\ Len(read) \in Nat /\ Len(mail) \in Nat
  BY DEF PulsesInv, Carried
<1>2. Carried \in Nat
  BY <1>1 DEF PulsesInv
<1>3. \A i \in StagesOf : i \in 1..Len(mail) /\ i \in Nat /\ mail[i].n \in Nat
  <2> SUFFICES ASSUME NEW i \in StagesOf PROVE i \in 1..Len(mail) /\ i \in Nat /\ mail[i].n \in Nat
    OBVIOUS
  <2>1. i \in 1..Len(mail)
    BY DEF StagesOf
  <2>2. mail[i] \in Items
    <3>1. mail \in Seq(Items)
      BY DEF PulsesInv
    <3> QED
      BY <2>1, <3>1
  <2> QED
    BY <1>1, <2>1, <2>2 DEF Items
<1> QED
  BY <1>1, <1>2, <1>3 DEF PulsesInv, InOrder

LEMMA TellKeeps ==
  ASSUME PulsesInv, Pulses!Tell
  PROVE  PulsesInv'
<1> USE DEF PulsesInv
<1>1. told' = told + 1 /\ side' = Append(side, told + 1) /\ UNCHANGED <<work, mail, read, reader>>
  BY DEF Pulses!Tell
<1>2. Carried' = Carried
  BY <1>1 DEF Carried
<1>3. side' \in Seq(Nat) /\ \A k \in 1..Len(side') : side'[k] = Carried + k
  <2>1. side' \in Seq(Nat) /\ Len(side') = Len(side) + 1 /\ side'[Len(side) + 1] = told + 1
        /\ \A k \in 1..Len(side) : side'[k] = side[k]
    BY <1>1
  <2>2. ASSUME NEW k \in 1..Len(side') PROVE side'[k] = Carried + k
    <3>1. CASE k = Len(side) + 1
      BY <2>1, <3>1 DEF Carried
    <3>2. CASE k \in 1..Len(side)
      BY <2>1, <3>2
    <3> QED
      BY <2>1, <2>2, <3>1, <3>2
  <2> QED
    BY <2>1, <2>2
<1>4. InOrder' /\ EndIsTrue'
  BY <1>1, <1>2 DEF InOrder, StagesOf, EndIsTrue
<1> QED
  BY <1>1, <1>2, <1>3, <1>4

\* What is written to the second queue and is no milestone changes nothing of the order.
LEMMA MailKeeps ==
  ASSUME PulsesInv, NEW kind \in {"pulse", "result", "error"}, mail' = Append(mail, Pulses!Item(kind, 0)),
         UNCHANGED <<told, side, read>>
  PROVE  InOrder' /\ mail' \in Seq(Items)
<1>1. mail' \in Seq(Items) /\ Len(mail') = Len(mail) + 1 /\ Len(mail) \in Nat
      /\ mail'[Len(mail) + 1].kind = kind /\ \A i \in 1..Len(mail) : mail'[i] = mail[i]
  BY DEF Pulses!Item, Items, PulsesInv
<1>2. StagesOf' = StagesOf
  BY <1>1 DEF StagesOf
<1>3. Carried' = Carried /\ read' = read /\ \A i \in StagesOf : mail'[i] = mail[i]
  BY <1>1 DEF Carried, StagesOf
<1>4. /\ \A i \in StagesOf : mail[i].n \in (Len(read) + 1)..Carried
      /\ \A i, j \in StagesOf : i < j => mail[i].n < mail[j].n
      /\ \A v \in (Len(read) + 1)..Carried : \E i \in StagesOf : mail[i].n = v
  BY DEF PulsesInv, InOrder
<1>5. /\ \A i \in StagesOf : mail'[i].n \in (Len(read) + 1)..Carried
      /\ \A i, j \in StagesOf : i < j => mail'[i].n < mail'[j].n
  BY <1>3, <1>4
<1>6. \A v \in (Len(read) + 1)..Carried : \E i \in StagesOf : mail'[i].n = v
  BY <1>3, <1>4
<1>7. InOrder'
  <2>1. /\ \A i \in StagesOf' : mail'[i].n \in (Len(read') + 1)..Carried'
        /\ \A i, j \in StagesOf' : i < j => mail'[i].n < mail'[j].n
        /\ \A v \in (Len(read') + 1)..Carried' : \E i \in StagesOf' : mail'[i].n = v
    BY <1>2, <1>3, <1>5, <1>6
  <2> QED
    BY <2>1 DEF InOrder
<1> QED
  BY <1>1, <1>7

LEMMA EndKeeps ==
  ASSUME PulsesInv, NEW how \in {"result", "error"}, Pulses!End(how)
  PROVE  PulsesInv'
<1>1. work = "running" /\ work' = how /\ mail' = Append(mail, Pulses!Item(how, 0)) /\ UNCHANGED <<told, side, read, reader>>
  BY DEF Pulses!End
<1>2. reader = "reading" /\ \A i \in 1..Len(mail) : mail[i].kind \notin {"result", "error"}
  BY <1>1 DEF PulsesInv, EndIsTrue
<1>3. EndIsTrue'
  BY <1>1, <1>2 DEF PulsesInv, EndIsTrue, Pulses!Item
<1> QED
  BY <1>1, <1>3, MailKeeps DEF PulsesInv, Carried

LEMMA BeatKeeps ==
  ASSUME PulsesInv, Pulses!Beat
  PROVE  PulsesInv'
<1>1. mail' = Append(mail, Pulses!Item("pulse", 0)) /\ UNCHANGED <<work, told, side, read, reader>>
  BY DEF Pulses!Beat
<1>2. EndIsTrue'
  BY <1>1 DEF PulsesInv, EndIsTrue, Pulses!Item
<1> QED
  BY <1>1, <1>2, MailKeeps DEF PulsesInv, Carried

\* A milestone that is carried over is the one after those that were.
LEMMA DrainKeeps ==
  ASSUME PulsesInv, Pulses!Drain
  PROVE  PulsesInv'
<1>0. /\ told \in Nat /\ Len(read) <= Carried /\ side \in Seq(Nat) /\ \A k \in 1..Len(side) : side[k] = Carried + k
      /\ mail \in Seq(Items)
      /\ read \in Seq(Nat) /\ \A i \in 1..Len(read) : read[i] = i
  BY DEF PulsesInv
<1>1. side # <<>> /\ mail' = Append(mail, Pulses!Item("stage", Head(side))) /\ side' = Tail(side)
      /\ UNCHANGED <<work, told, read, reader>>
  BY DEF Pulses!Drain
<1>2. Head(side) = Carried + 1 /\ Carried' = Carried + 1 /\ Carried \in Nat
  BY <1>0, <1>1 DEF Carried
<1>3. side' \in Seq(Nat) /\ \A k \in 1..Len(side') : side'[k] = Carried + 1 + k
  BY <1>0, <1>1, <1>2
<1>4. /\ mail' \in Seq(Items) /\ Len(mail') = Len(mail) + 1
      /\ mail'[Len(mail) + 1] = [kind |-> "stage", n |-> Carried + 1] /\ \A i \in 1..Len(mail) : mail'[i] = mail[i]
  BY <1>0, <1>1, <1>2 DEF Pulses!Item, Items
<1>5. StagesOf' = StagesOf \cup {Len(mail) + 1}
  <2>1. \A i : i \in 1..Len(mail') <=> i \in 1..Len(mail) \/ i = Len(mail) + 1
    BY <1>4, PulsesNumbers
  <2> QED
    BY <1>4, <2>1 DEF StagesOf
<1>6. InOrder'
  <2>1. \A i \in StagesOf : i < Len(mail) + 1 /\ mail'[i] = mail[i] /\ mail'[i].n <= Carried
    BY <1>4, PulsesNumbers
  <2>2. mail'[Len(mail) + 1].n = Carried + 1
    BY <1>4
  <2>3. \A i \in StagesOf' : mail'[i].n \in (Len(read) + 1)..(Carried + 1)
    <3> SUFFICES ASSUME NEW i \in StagesOf' PROVE mail'[i].n \in (Len(read) + 1)..(Carried + 1)
      OBVIOUS
    <3>1. CASE i \in StagesOf
      <4>1. mail[i].n \in Nat /\ Len(read) + 1 <= mail[i].n /\ mail[i].n <= Carried
        BY <3>1, PulsesNumbers
      <4> QED
        BY <2>1, <3>1, <4>1, PulsesNumbers
    <3>2. CASE i = Len(mail) + 1
      BY <1>0, <2>2, <3>2, PulsesNumbers
    <3> QED
      BY <1>5, <3>1, <3>2
  <2>4. ASSUME NEW i \in StagesOf', NEW j \in StagesOf', i < j PROVE mail'[i].n < mail'[j].n
    <3>1. i \in StagesOf
      BY <1>5, <2>1, <2>4, PulsesNumbers
    <3>2. CASE j = Len(mail) + 1
      <4>1. mail'[i].n = mail[i].n /\ mail[i].n \in Nat /\ mail[i].n <= Carried /\ mail'[j].n = Carried + 1
        BY <2>1, <2>2, <3>1, <3>2, PulsesNumbers
      <4> QED
        BY <4>1, PulsesNumbers
    <3>3. CASE j \in StagesOf
      BY <2>1, <2>4, <3>1, <3>3, PulsesNumbers
    <3> QED
      BY <1>5, <3>2, <3>3
  <2>5. ASSUME NEW v \in (Len(read) + 1)..(Carried + 1) PROVE \E i \in StagesOf' : mail'[i].n = v
    <3>1. CASE v = Carried + 1
      BY <1>5, <2>2, <3>1
    <3>2. CASE v <= Carried
      <4>1. PICK i \in StagesOf : mail[i].n = v
        <5>1. v \in Nat /\ Len(read) + 1 <= v
          BY <2>5, PulsesNumbers
        <5> QED
          BY <3>2, <5>1, PulsesNumbers
      <4> QED
        BY <1>5, <2>1, <4>1
    <3>3. v \in Int /\ v <= Carried + 1 /\ Carried \in Nat
      BY <2>5, PulsesNumbers
    <3> QED
      BY <3>1, <3>2, <3>3
  <2> QED
    BY <1>1, <1>2, <2>3, <2>4, <2>5 DEF InOrder
<1>7. EndIsTrue'
  <2>1. \A i \in 1..Len(mail') : (mail'[i] = mail[i] /\ i \in 1..Len(mail)) \/ mail'[i].kind = "stage"
    BY <1>4, PulsesNumbers
  <2> QED
    BY <1>1, <2>1 DEF PulsesInv, EndIsTrue
<1> QED
  BY <1>0, <1>1, <1>2, <1>3, <1>4, <1>6, <1>7 DEF PulsesInv

\* A milestone that is read is the one after those that were shown.
LEMMA ReadKeepsOrder ==
  ASSUME PulsesInv, Pulses!Read
  PROVE  PulsesInv'
<1> DEFINE item == Head(mail)
<1>0. /\ told \in Nat /\ Len(read) <= Carried /\ side \in Seq(Nat) /\ \A k \in 1..Len(side) : side[k] = Carried + k
      /\ mail \in Seq(Items)
      /\ read \in Seq(Nat) /\ \A i \in 1..Len(read) : read[i] = i
  BY DEF PulsesInv
<1>1. /\ reader = "reading" /\ mail # <<>> /\ mail' = Tail(mail) /\ UNCHANGED <<work, told, side>>
      /\ read' = IF item.kind = "stage" THEN Append(read, item.n) ELSE read
      /\ reader' = IF item.kind \in {"result", "error"} THEN item.kind ELSE reader
  BY DEF Pulses!Read
<1>2. /\ item = mail[1] /\ Len(mail') = Len(mail) - 1 /\ 1 \in 1..Len(mail)
      /\ mail' \in Seq(Items)
      /\ \A i \in 1..Len(mail') : mail'[i] = mail[i + 1] /\ i + 1 \in 1..Len(mail)
  BY <1>0, <1>1
<1>3. Carried' = Carried /\ Carried \in Int
  BY <1>1, PulsesNumbers DEF Carried
<1>4. ASSUME NEW i \in StagesOf' PROVE i \in Nat \ {0} /\ i + 1 \in StagesOf /\ mail'[i] = mail[i + 1]
  <2>1. i \in 1..Len(mail') /\ mail'[i].kind = "stage"
    BY <1>4 DEF StagesOf
  <2> QED
    BY <1>2, <2>1, PulsesNumbers DEF StagesOf
<1>5. ASSUME NEW j \in StagesOf, j # 1 PROVE j - 1 \in StagesOf' /\ mail'[j - 1] = mail[j]
  <2>1. j \in 1..Len(mail) /\ mail[j].kind = "stage" /\ j - 1 \in 1..(Len(mail) - 1) /\ (j - 1) + 1 = j
    BY <1>5, PulsesNumbers DEF StagesOf
  <2>2. mail'[j - 1] = mail[j] /\ j - 1 \in 1..Len(mail')
    BY <1>2, <2>1
  <2> QED
    BY <2>1, <2>2 DEF StagesOf
<1>9. \A i, j \in StagesOf' : i < j => mail'[i].n < mail'[j].n
  <2> SUFFICES ASSUME NEW i \in StagesOf', NEW j \in StagesOf', i < j PROVE mail'[i].n < mail'[j].n
    OBVIOUS
  <2>1. i \in Nat /\ j \in Nat /\ mail'[i] = mail[i + 1] /\ mail'[j] = mail[j + 1] /\ i + 1 \in StagesOf /\ j + 1 \in StagesOf
    BY <1>4
  <2>2. i + 1 < j + 1
    BY <2>1
  <2> QED
    BY <2>1, <2>2, PulsesNumbers
<1> HIDE DEF item
<1>6. EndIsTrue'
  <2>1. \A i \in 1..Len(mail') : \E j \in 1..Len(mail) : mail'[i] = mail[j]
    BY <1>2
  <2> QED
    BY <1>1, <1>2, <2>1 DEF PulsesInv, EndIsTrue
<1>7. CASE item.kind = "stage"
  <2>1. 1 \in StagesOf /\ mail[1].n \in (Len(read) + 1)..Carried
    BY <1>2, <1>7, PulsesNumbers DEF StagesOf
  <2>2. mail[1].n = Len(read) + 1
    <3>0. Len(read) + 1 \in Nat /\ Len(read) + 1 <= Len(read) + 1 /\ Len(read) + 1 <= Carried
      BY <2>1, PulsesNumbers
    <3>1. PICK i \in StagesOf : mail[i].n = Len(read) + 1
      BY <3>0, PulsesNumbers
    <3>2. i = 1 \/ mail[1].n < mail[i].n
      BY <2>1, PulsesNumbers
    <3> QED
      BY <2>1, <3>1, <3>2, PulsesNumbers
  <2>3. read' = Append(read, Len(read) + 1)
    BY <1>1, <1>2, <1>7, <2>2
  <2>4. read' \in Seq(Nat) /\ Len(read') = Len(read) + 1 /\ \A i \in 1..Len(read') : read'[i] = i
    BY <1>0, <2>3
  <2>5. \A j \in StagesOf : j # 1 => mail[j].n >= Len(read) + 2
    <3> SUFFICES ASSUME NEW j \in StagesOf, j # 1 PROVE mail[j].n >= Len(read) + 2
      OBVIOUS
    <3>1. 1 < j /\ mail[1].n < mail[j].n /\ mail[j].n \in Nat /\ Len(read) \in Nat
      BY <2>1, PulsesNumbers
    <3> QED
      BY <2>2, <3>1
  <2>6. \A i \in StagesOf' : mail'[i].n \in (Len(read) + 2)..Carried
    <3> SUFFICES ASSUME NEW i \in StagesOf' PROVE mail'[i].n \in (Len(read) + 2)..Carried
      OBVIOUS
    <3>1. i \in Nat \ {0} /\ i + 1 \in StagesOf /\ mail'[i] = mail[i + 1]
      BY <1>4
    <3>2. mail[i + 1].n >= Len(read) + 2 /\ mail[i + 1].n <= Carried /\ mail[i + 1].n \in Nat
      BY <2>5, <3>1, PulsesNumbers
    <3> QED
      BY <3>1, <3>2, PulsesNumbers
  <2>7. \A i, j \in StagesOf' : i < j => mail'[i].n < mail'[j].n
    BY <1>9
  <2>8. \A v \in (Len(read) + 2)..Carried : \E i \in StagesOf' : mail'[i].n = v
    <3> SUFFICES ASSUME NEW v \in (Len(read) + 2)..Carried PROVE \E i \in StagesOf' : mail'[i].n = v
      OBVIOUS
    <3>1. PICK j \in StagesOf : mail[j].n = v
      BY PulsesNumbers
    <3>2. j # 1
      BY <2>2, <3>1
    <3> QED
      BY <1>5, <3>1, <3>2
  <2>9. InOrder' /\ Len(read') <= Carried
    BY <1>3, <2>1, <2>2, <2>4, <2>6, <2>7, <2>8 DEF InOrder
  <2> QED
    BY <1>0, <1>1, <1>2, <1>3, <1>6, <2>4, <2>9 DEF PulsesInv
<1>8. CASE item.kind # "stage"
  <2>1. read' = read /\ 1 \notin StagesOf
    BY <1>1, <1>2, <1>8 DEF StagesOf
  <2>2. \A i \in StagesOf' : mail'[i].n \in (Len(read) + 1)..Carried
    BY <1>4, <2>1, PulsesNumbers
  <2>3. \A i, j \in StagesOf' : i < j => mail'[i].n < mail'[j].n
    BY <1>9
  <2>4. \A v \in (Len(read) + 1)..Carried : \E i \in StagesOf' : mail'[i].n = v
    BY <1>5, <2>1, PulsesNumbers
  <2> QED
    BY <1>0, <1>1, <1>2, <1>3, <1>6, <2>1, <2>2, <2>3, <2>4 DEF InOrder, PulsesInv
<1> QED
  BY <1>7, <1>8

LEMMA LeaveKeeps ==
  ASSUME PulsesInv, Pulses!Leave
  PROVE  PulsesInv'
<1>1. UNCHANGED <<told, side, mail, read>> /\ reader' = "left" /\ work' # "running"
  BY DEF Pulses!Leave, Pulses!Stop
<1> QED
  BY <1>1 DEF PulsesInv, Carried, StagesOf, InOrder, EndIsTrue

LEMMA PulsesStep == PulsesInv /\ [Pulses!Next]_(Pulses!vars) => PulsesInv'
<1> SUFFICES ASSUME PulsesInv, [Pulses!Next]_(Pulses!vars) PROVE PulsesInv'
  OBVIOUS
<1>1. CASE UNCHANGED Pulses!vars
  BY <1>1 DEF Pulses!vars, PulsesInv, Carried, StagesOf, InOrder, EndIsTrue
<1>2. CASE Pulses!Next
  BY <1>2, TellKeeps, EndKeeps, DrainKeeps, BeatKeeps, ReadKeepsOrder, LeaveKeeps DEF Pulses!Next
<1> QED
  BY <1>1, <1>2

\* world_creator_agent_v2.py _run_with_pulse: however pulses, the two queues and the end of the
\* work interleave, milestones are shown in the order in which they were told, none twice and none
\* left out before one that is shown; whoever reads goes away with no work left behind.
THEOREM MilestonesInOrder == Pulses!Spec => []Pulses!ShownAsTold
<1>1. PulsesInv => Pulses!ShownAsTold
  BY DEF PulsesInv, Carried, EndIsTrue, Pulses!ShownAsTold
<1> QED
  BY <1>1, PulsesInit, PulsesStep, PTL DEF Pulses!Spec

-----------------------------------------------------------------------------
(* Research of the original work (Research).  Groups may list one name     *)
(* twice, list names nobody compiled, and be empty when those of others    *)
(* are crossed off; a name is looked for in the first group that has it.   *)

CONSTANTS Keys, Votes, Longest, Groups, Least, Runs

VARIABLES rec, votes, asked, runs, found, written, book, place

Work == INSTANCE Research WITH task <- asked, pack <- book, at <- place

\* A name some group lists is a member of one.
LEMMA FirstTakesIt ==
  ASSUME NEW S, NEW groups \in Seq(S), NEW k \in Work!Input,
         NEW j \in DOMAIN groups, k \in groups[j].aliases
  PROVE  \E i \in DOMAIN groups : k \in Work!Members(groups, i)
<1> DEFINE T == {i \in DOMAIN groups : k \in groups[i].aliases}
<1>1. DOMAIN groups = 1..Len(groups) /\ Len(groups) \in Nat
  OBVIOUS
<1>2. T \subseteq Nat /\ T # {}
  BY <1>1
<1>3. PICK i \in T : \A m \in T : ~(<<m, i>> \in OpToRel(<, Nat))
  <2> HIDE DEF T
  <2> QED
    BY <1>2, WFMin, NatLessThanWellFounded
<1>4. \A m \in 1..(i - 1) : k \notin groups[m].aliases
  <2> SUFFICES ASSUME NEW m \in 1..(i - 1), k \in groups[m].aliases PROVE FALSE
    OBVIOUS
  <2>1. m \in T /\ m < i /\ m \in Nat /\ i \in Nat
    BY <1>1
  <2> QED
    BY <1>3, <2>1 DEF OpToRel
<1>5. k \notin UNION {groups[m].aliases : m \in 1..(i - 1)}
  BY <1>4
<1> QED
  BY <1>5 DEF Work!Members

\* No name is a member of two groups.
LEMMA MembersApart ==
  ASSUME NEW S, NEW groups \in Seq(S), NEW i \in DOMAIN groups, NEW j \in DOMAIN groups,
         NEW k, k \in Work!Members(groups, i), k \in Work!Members(groups, j)
  PROVE  i = j
<1>1. DOMAIN groups = 1..Len(groups) /\ Len(groups) \in Nat /\ i \in Int /\ j \in Int
  OBVIOUS
<1>2. ASSUME NEW a \in DOMAIN groups, NEW b \in DOMAIN groups, a < b,
             k \in Work!Members(groups, a), k \in Work!Members(groups, b)
      PROVE FALSE
  <2>1. a \in 1..(b - 1)
    BY <1>1, <1>2
  <2>2. k \in groups[a].aliases
    BY <1>2 DEF Work!Members
  <2>3. k \in UNION {groups[m].aliases : m \in 1..(b - 1)}
    BY <2>1, <2>2
  <2> QED
    BY <1>2, <2>3 DEF Work!Members
<1>3. i < j \/ j < i \/ i = j
  BY <1>1
<1> QED
  BY <1>2, <1>3

\* The entries of an answer: each name in one, and no two of one name.
Once(entries) ==
    /\ \A k \in Work!Input : \E c \in entries : k \in c.of
    /\ \A c, d \in entries : c.name = d.name \/ c.of \intersect d.of # {} => c.name = d.name /\ c.of = d.of

LEMMA MergedOnce ==
  ASSUME NEW S, NEW groups \in Seq(S), NEW names, Work!Fits(groups, names)
  PROVE  Once(Work!Merged(groups, names))
<1> DEFINE G == {i \in DOMAIN groups : Work!Members(groups, i) # {}}
           Left == Work!Input \ UNION {groups[j].aliases : j \in DOMAIN groups}
           Entry(i) == [name |-> names[i], must |-> \E k \in Work!Members(groups, i) : Work!Must(k),
                        of |-> Work!Members(groups, i)]
           Own(k) == [name |-> k, must |-> Work!Must(k), of |-> {k}]
<1>1. Work!Merged(groups, names) = {Entry(i) : i \in G} \union {Own(k) : k \in Left}
  BY DEF Work!Merged
<1>2. \A i \in G : Entry(i).name = names[i] /\ Entry(i).of = Work!Members(groups, i)
  OBVIOUS
<1>3. \A k \in Left : Own(k).name = k /\ Own(k).of = {k}
  OBVIOUS
<1>4. \A i \in G : names[i] \in Work!Members(groups, i)
  BY DEF Work!Fits
<1>5. \A i \in G : Work!Members(groups, i) \intersect Left = {}
  BY DEF Work!Members
<1> HIDE DEF Entry, Own
<1>6. \A k \in Work!Input : \E c \in Work!Merged(groups, names) : k \in c.of
  <2> SUFFICES ASSUME NEW k \in Work!Input PROVE \E c \in Work!Merged(groups, names) : k \in c.of
    OBVIOUS
  <2>1. CASE k \in Left
    BY <1>1, <1>3, <2>1
  <2>2. CASE k \notin Left
    <3>1. PICK j \in DOMAIN groups : k \in groups[j].aliases
      BY <2>2
    <3>2. PICK i \in DOMAIN groups : k \in Work!Members(groups, i)
      BY <3>1, FirstTakesIt
    <3> QED
      BY <1>1, <1>2, <3>2
  <2> QED
    BY <2>1, <2>2
<1>7. ASSUME NEW i \in G, NEW j \in G,
             Entry(i).name = Entry(j).name \/ Entry(i).of \intersect Entry(j).of # {}
      PROVE  Entry(i) = Entry(j)
  <2>1. PICK k : k \in Work!Members(groups, i) /\ k \in Work!Members(groups, j)
    BY <1>2, <1>4, <1>7
  <2>2. i = j
    BY <2>1, MembersApart
  <2> QED
    BY <2>2
<1>8. ASSUME NEW i \in G, NEW k \in Left
      PROVE  Entry(i).name # Own(k).name /\ Entry(i).of \intersect Own(k).of = {}
  BY <1>2, <1>3, <1>4, <1>5
<1>9. ASSUME NEW k \in Left, NEW l \in Left,
             Own(k).name = Own(l).name \/ Own(k).of \intersect Own(l).of # {}
      PROVE  Own(k) = Own(l)
  BY <1>3, <1>9
<1>10. ASSUME NEW c \in Work!Merged(groups, names), NEW d \in Work!Merged(groups, names),
              c.name = d.name \/ c.of \intersect d.of # {}
       PROVE  c = d
  <2>1. (\E i \in G : c = Entry(i)) \/ (\E k \in Left : c = Own(k))
    BY <1>1
  <2>2. (\E i \in G : d = Entry(i)) \/ (\E k \in Left : d = Own(k))
    BY <1>1
  <2> HIDE DEF G, Left
  <2> QED
    BY <1>7, <1>8, <1>9, <1>10, <2>1, <2>2
<1> QED
  BY <1>6, <1>10 DEF Once

LEMMA EntriesOnce ==
  ASSUME NEW entries, NEW out, Once(entries)
  PROVE  Once({[name |-> m.name, of |-> m.of, in |-> m.name \notin out, must |-> m.must /\ m.name \notin out] :
                 m \in entries})
<1> DEFINE Listed(m) == [name |-> m.name, of |-> m.of, in |-> m.name \notin out,
                       must |-> m.must /\ m.name \notin out]
<1>1. \A m : Listed(m).name = m.name /\ Listed(m).of = m.of
  OBVIOUS
<1> HIDE DEF Listed
<1>2. \A k \in Work!Input : \E c \in {Listed(m) : m \in entries} : k \in c.of
  BY <1>1 DEF Once
<1>3. ASSUME NEW c \in {Listed(m) : m \in entries}, NEW d \in {Listed(m) : m \in entries},
             c.name = d.name \/ c.of \intersect d.of # {}
      PROVE  c.name = d.name /\ c.of = d.of
  <2>1. PICK m \in entries, n \in entries : c = Listed(m) /\ d = Listed(n)
    OBVIOUS
  <2> QED
    BY <1>1, <1>3, <2>1 DEF Once
<1>4. Once({Listed(m) : m \in entries})
  BY <1>2, <1>3 DEF Once
<1> QED
  BY <1>4 DEF Listed

\* As it was compiled each name has an entry, or several that say the same of whom they are.
LEMMA RawOnce == Once(Work!Raw)
<1> DEFINE Row(k) == [name |-> written[k].key, of |-> {written[k].key}, in |-> TRUE, must |-> written[k].must]
<1>1. \A k \in DOMAIN written : Row(k).name = written[k].key /\ Row(k).of = {written[k].key}
  OBVIOUS
<1>2. Work!Raw = {Row(k) : k \in DOMAIN written}
  BY DEF Work!Raw
<1> HIDE DEF Row
<1>3. \A k \in Work!Input : \E c \in Work!Raw : k \in c.of
  BY <1>1, <1>2 DEF Work!Input
<1>4. ASSUME NEW c \in Work!Raw, NEW d \in Work!Raw, c.name = d.name \/ c.of \intersect d.of # {}
      PROVE  c.name = d.name /\ c.of = d.of
  <2>1. PICK k \in DOMAIN written, l \in DOMAIN written : c = Row(k) /\ d = Row(l)
    BY <1>2
  <2> QED
    BY <1>1, <1>4, <2>1
<1> QED
  BY <1>3, <1>4 DEF Once

-----------------------------------------------------------------------------
LEMMA FinalizeOnce ==
  ASSUME NEW S, NEW groups \in Seq(S), NEW names, NEW out, Work!Finalize(groups, names, out)
  PROVE  Work!EveryoneOnce'
<1>1. Work!Input' = Work!Input
  BY DEF Work!Finalize, Work!Input
<1>2. Once(book')
  <2>1. CASE Len(written) < 2
    BY <2>1, RawOnce DEF Work!Finalize
  <2>2. CASE ~(Len(written) < 2)
    BY <2>2, MergedOnce, EntriesOnce DEF Work!Finalize, Work!Entries
  <2> QED
    BY <2>1, <2>2
<1> QED
  BY <1>1, <1>2 DEF Once, Work!EveryoneOnce

LEMMA WorkStep == Work!EveryoneOnce /\ [Work!Next]_(Work!vars) => Work!EveryoneOnce'
<1> SUFFICES ASSUME Work!EveryoneOnce, [Work!Next]_(Work!vars) PROVE Work!EveryoneOnce'
  OBVIOUS
<1>1. CASE UNCHANGED Work!vars
  BY <1>1 DEF Work!vars, Work!EveryoneOnce, Work!Input
<1>2. ASSUME place' # "gate" PROVE Work!EveryoneOnce'
  BY <1>2 DEF Work!EveryoneOnce
<1>3. CASE Work!Titled
  BY <1>2, <1>3 DEF Work!Titled
<1>4. ASSUME NEW a, Work!Vote(a) \/ Work!Rescue(a) PROVE Work!EveryoneOnce'
  BY <1>2, <1>4 DEF Work!Vote, Work!Rescue
<1>5. ASSUME NEW a, Work!Recognized(a) \/ Work!Continue(a) \/ Work!Search(a) \/ Work!Compile(a) PROVE Work!EveryoneOnce'
  BY <1>2, <1>5 DEF Work!Recognized, Work!Continue, Work!Search, Work!Compile
<1>6. CASE Work!Skip \/ Work!Nameless \/ Work!Gate
  BY <1>2, <1>6 DEF Work!Skip, Work!Nameless, Work!Gate
<1>7. CASE Work!FinalizeFails
  <2>1. Work!Input' = Work!Input /\ book' = Work!Raw
    BY <1>7 DEF Work!FinalizeFails, Work!Input
  <2> QED
    BY <2>1, RawOnce DEF Once, Work!EveryoneOnce
<1>8. ASSUME NEW gs \in Work!Upto(Work!Group, Groups), NEW out, NEW names, Work!Finalize(gs, names, out)
      PROVE Work!EveryoneOnce'
  <2>1. PICK n \in 0..Groups : gs \in [1..n -> Work!Group]
    BY DEF Work!Upto
  <2>2. gs \in Seq(Work!Group)
    BY <2>1
  <2> QED
    BY <1>8, <2>2, FinalizeOnce
<1> QED
  BY <1>1, <1>3, <1>4, <1>5, <1>6, <1>7, <1>8 DEF Work!Next

\* ip_research_pipeline.py _finalize_research_pack: whatever groups of aliases the model
\* forms, overlapping, foreign or empty, everyone who was compiled is in one entry of the
\* pack, and no two entries have one name.
THEOREM EveryoneIsListed == Work!Spec => []Work!EveryoneOnce
<1>1. Work!Init => Work!EveryoneOnce
  BY DEF Work!Init, Work!EveryoneOnce
<1> QED
  BY <1>1, WorkStep, PTL DEF Work!Spec

=============================================================================
