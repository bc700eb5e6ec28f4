-------------------------- MODULE QualityGateProofs --------------------------
(***************************************************************************)
(* For every number of payloads, processes and jobs: what an owner puts    *)
(* before the public was passed or waived as that very payload.            *)
(*                                                                         *)
(* The gate finds a verdict by the hash of the draft it has loaded, and    *)
(* publishes the payload beside that hash.  So the invariant says that the *)
(* hash belongs to the payload in every copy of a draft (HashIsContent,    *)
(* and that only drafts that were never versioned have none), that whoever *)
(* judges a row works on the payload whose hash the row has, and that a    *)
(* row says "passed" or "waived" only of a payload that was cleared.       *)
(* At the end: the way of a picture into the draft (Pictures), how several *)
(* judges come to one verdict (QualityVote), and what a refinement makes   *)
(* of the draft's events (Refining).                                       *)
(***************************************************************************)
EXTENDS QualityGate, SequenceTheorems, FiniteSetTheorems, WellFoundedInduction, TLAPS

\* A copy of the draft as somebody has loaded it.
Sound(d) ==
    /\ d \in Version
    /\ d.hash # NoContent => d.hash = d.content
    /\ d.rev > 0 => d.hash # NoContent

CopiesSound == Sound(draft) /\ Sound(pub.draft) /\ Sound(regen)

\* The rows are a sequence; which statuses they have does not matter here.
Row(S) == [rev : Nat, hash : Contents, gen : Nat, status : S, attempt : Nat]
RowsListed == \E S : rows \in Seq(Row(S))

Cleared(st) == st \in {"passed", "waived"}

RowsCleared ==
    \A i \in 1..Len(rows) : Cleared(rows[i].status) => rows[i].hash \in cleared

\* A judge works on the payload its row is about.
JudgesSound ==
    /\ judge \in [Judges -> [todo : SUBSET Nat, row : Nat, saw : Contents \cup {NoContent}]]
    /\ \A j \in Judges : judge[j].row # 0 =>
          judge[j].row \in 1..Len(rows) /\ judge[j].saw = rows[judge[j].row].hash

PubSound ==
    /\ pub \in [pc : {"idle", "gate", "write"}, draft : Version]
    /\ pub.pc = "write" => pub.draft.rev = 0 \/ pub.draft.content \in cleared

IInv == CopiesSound /\ RowsListed /\ RowsCleared /\ JudgesSound /\ PubSound /\ OnlyVettedIsPublic

-----------------------------------------------------------------------------
\* A draft nobody has versioned yet, no rows, no judges: the invariant holds at first.
LEMMA InitInv == Init => IInv
  <1> SUFFICES ASSUME Init PROVE IInv
    OBVIOUS
  <1>1. CopiesSound
    BY DEF Init, CopiesSound, Sound, Version, Nothing
  <1>2. rows \in Seq(Row({})) /\ Len(rows) = 0
    BY DEF Init
  <1>3. JudgesSound
    BY DEF Init, JudgesSound, Idle
  <1>4. PubSound
    BY DEF Init, PubSound, Nothing, Version
  <1> QED
    BY <1>1, <1>2, <1>3, <1>4 DEF Init, IInv, RowsListed, RowsCleared, OnlyVettedIsPublic

\* A new version of a sound draft is sound, whatever copy it is made from.
LEMMA VersionedSound ==
  ASSUME NEW d, Sound(d), NEW c \in Contents
  PROVE  Sound(Versioned(d, c)) /\ Versioned(d, c).content = c
  BY ConstantsAssumption DEF Sound, Versioned, Version

\* Rows of one set of statuses are rows of a larger one.
LEMMA RowsOfMore ==
  ASSUME NEW S, NEW T, S \subseteq T, NEW q \in Seq(Row(S))
  PROVE  q \in Seq(Row(T))
  <1>1. Row(S) \subseteq Row(T)
    BY DEF Row
  <1> HIDE DEF Row
  <1> QED
    BY <1>1

\* A row that is added at the end, cleared only if what it is about is.
LEMMA AddRowKeeps ==
  ASSUME RowsListed, RowsCleared, JudgesSound, NEW r, NEW S, r \in Row(S), AddRow(r),
         cleared \subseteq cleared', Cleared(r.status) => r.hash \in cleared'
  PROVE  /\ RowsListed' /\ RowsCleared'
         /\ Len(rows) \in Nat /\ Len(rows') = Len(rows) + 1
         /\ \A i \in 1..Len(rows) : rows'[i] = rows[i]
  <1>1. PICK T : rows \in Seq(Row(T))
    BY DEF RowsListed
  <1>2. rows \in Seq(Row(S \cup T)) /\ r \in Row(S \cup T)
    BY <1>1, RowsOfMore DEF Row
  <1>3. rows' = Append(rows, r)
    BY DEF AddRow
  <1> HIDE DEF Row
  <1>4. rows' \in Seq(Row(S \cup T)) /\ Len(rows) \in Nat /\ Len(rows') = Len(rows) + 1
    BY <1>2, <1>3
  <1>5. rows'[Len(rows) + 1] = r /\ \A i \in 1..Len(rows) : rows'[i] = rows[i]
    BY <1>2, <1>3
  <1>6. RowsCleared'
    <2> SUFFICES ASSUME NEW i \in 1..(Len(rows) + 1), Cleared(rows'[i].status)
                 PROVE  rows'[i].hash \in cleared'
      BY <1>4 DEF RowsCleared, Cleared
    <2>1. CASE i \in 1..Len(rows)
      BY <2>1, <1>5 DEF RowsCleared
    <2>2. CASE i = Len(rows) + 1
      BY <2>2, <1>5
    <2> QED
      BY <1>4, <2>1, <2>2
  <1> QED
    BY <1>4, <1>5, <1>6 DEF RowsListed

\* Rows whose status is written anew: the versions they are about stay.
Restated == Len(rows') = Len(rows) /\ \A i \in 1..Len(rows) : rows'[i].hash = rows[i].hash

\* Two sequences with the same indices have the same length.
LEMMA SameLength ==
  ASSUME NEW a \in Nat, NEW b \in Nat, 1..a = 1..b
  PROVE  a = b
  <1>1. a < b => b \in 1..b /\ b \notin 1..a
    OBVIOUS
  <1>2. b < a => a \in 1..a /\ a \notin 1..b
    OBVIOUS
  <1> QED
    BY <1>1, <1>2

\* One row gets the status st, and an attempt more or not.
Restates(i, st) ==
    \/ rows' = [rows EXCEPT ![i].status = st]
    \/ rows' = [rows EXCEPT ![i].status = st, ![i].attempt = @ + 1]

\* The others keep theirs, and every row its version.
LEMMA RestateOne ==
  ASSUME RowsListed, NEW i, NEW st, Restates(i, st)
  PROVE  /\ RowsListed' /\ Restated
         /\ \A k \in 1..Len(rows) : rows'[k].status = IF k = i THEN st ELSE rows[k].status
  <1> USE DEF Restates
  <1>1. PICK T : rows \in Seq(Row(T))
    BY DEF RowsListed
  <1>2. rows \in [1..Len(rows) -> Row(T \cup {st})] /\ Len(rows) \in Nat
    <2>1. rows \in Seq(Row(T \cup {st}))
      BY <1>1, RowsOfMore
    <2> HIDE DEF Row
    <2> QED
      BY <2>1
  <1>3. rows' \in [1..Len(rows) -> Row(T \cup {st})]
    <2>1. ASSUME NEW k \in 1..Len(rows), k = i
          PROVE  rows'[k] \in Row(T \cup {st})
      <3>1. rows[k].attempt + 1 \in Nat /\ rows[k] \in Row(T \cup {st})
        BY <1>2 DEF Row
      <3> QED
        BY <3>1, <2>1, <1>2 DEF Row
    <2>2. ASSUME NEW k \in 1..Len(rows), k # i
          PROVE  rows'[k] \in Row(T \cup {st})
      <3> HIDE DEF Row
      <3> QED
        BY <2>2, <1>2
    <2>3. rows' = [k \in 1..Len(rows) |-> rows'[k]]
      <3> HIDE DEF Row
      <3> QED
        BY <1>2
    <2> HIDE DEF Row
    <2> QED
      BY <2>1, <2>2, <2>3
  <1>4. \A k \in 1..Len(rows) : /\ rows'[k].status = (IF k = i THEN st ELSE rows[k].status)
                               /\ rows'[k].hash = rows[k].hash
    BY <1>2 DEF Row
  <1>5. rows' \in Seq(Row(T \cup {st})) /\ Len(rows') = Len(rows)
    <2> HIDE DEF Row
    <2>1. rows' \in Seq(Row(T \cup {st}))
      BY <1>2, <1>3, SeqDef
    <2>2. DOMAIN rows' = 1..Len(rows') /\ Len(rows') \in Nat
      BY <2>1, LenProperties
    <2>3. DOMAIN rows' = 1..Len(rows)
      BY <1>3
    <2> QED
      BY <1>2, <2>1, <2>2, <2>3, SameLength
  <1> QED
    BY <1>4, <1>5 DEF RowsListed, Restated

\* Rows that are stated anew stay cleared, and judges stay on the payloads of their rows, if the
\* rows that become cleared are about cleared payloads.
LEMMA RestatedKeeps ==
  ASSUME RowsCleared, Restated, RowsListed, RowsListed', cleared \subseteq cleared',
         \A i \in 1..Len(rows) : Cleared(rows'[i].status) => Cleared(rows[i].status) \/ rows[i].hash \in cleared'
  PROVE  RowsCleared'
  BY DEF RowsCleared, Restated, Cleared

\* What was published or let through stays cleared.
LEMMA PubKeeps ==
  ASSUME IInv, UNCHANGED pubVars, cleared \subseteq cleared'
  PROVE  PubSound' /\ OnlyVettedIsPublic'
  BY DEF IInv, PubSound, OnlyVettedIsPublic, pubVars

\* Judges that nothing is done to stay on the payloads of their rows.
LEMMA JudgesKeep ==
  ASSUME JudgesSound, judge' = judge, Len(rows) \in Nat, Len(rows') \in Nat, Len(rows) <= Len(rows'),
         \A i \in 1..Len(rows) : rows'[i].hash = rows[i].hash
  PROVE  JudgesSound'
  BY DEF JudgesSound

\* A step that writes drafts, rows and verdicts alone, and drafts soundly.
LEMMA DraftsKeep ==
  ASSUME IInv, CopiesSound', UNCHANGED <<jobVars, pubVars>>
  PROVE  IInv'
  <1>1. PubSound' /\ OnlyVettedIsPublic'
    BY PubKeeps DEF jobVars
  <1>2. UNCHANGED <<rows, judge, cleared>>
    BY DEF jobVars
  <1>3. RowsListed' /\ RowsCleared' /\ JudgesSound'
    BY <1>2 DEF IInv, RowsListed, RowsCleared, JudgesSound
  <1> QED
    BY <1>1, <1>3 DEF IInv

\* Edits, results, images and refinements write new versions of a copy somebody has loaded.
LEMMA WritesKeep ==
  ASSUME IInv, \/ Edit \/ Result \/ AskImage \/ PutImage \/ ImageFails
               \/ RefineStart \/ RefineWrite \/ RefineEnds
  PROVE  IInv'
  <1>1. UNCHANGED <<jobVars, pubVars>>
    BY DEF Edit, Result, AskImage, PutImage, ImageFails, RefineStart, RefineWrite, RefineEnds
  <1>2. Sound(draft) /\ Sound(regen) /\ Sound(Nothing)
    BY DEF IInv, CopiesSound, Sound, Nothing, Version
  <1>3. Sound(draft)'
    <2>1. ASSUME NEW c \in Contents, draft' = [content |-> c, rev |-> draft.rev + 1, hash |-> c]
          PROVE  Sound(draft)'
      BY <2>1, <1>2, ConstantsAssumption DEF Sound, Version
    <2>2. ASSUME NEW c \in Contents, draft' = Versioned(draft, c) \/ draft' = Versioned(regen, c)
          PROVE  Sound(draft)'
      BY <2>2, <1>2, VersionedSound
    <2>3. ASSUME draft' = draft
          PROVE  Sound(draft)'
      BY <2>3, <1>2
    <2> QED
      BY <2>1, <2>2, <2>3 DEF Edit, Result, AskImage, PutImage, ImageFails, RefineStart, RefineWrite, RefineEnds, Rewrite
  <1>4. Sound(regen)'
    BY <1>2 DEF Edit, Result, AskImage, PutImage, ImageFails, RefineStart, RefineWrite, RefineEnds
  <1>5. Sound(pub.draft)'
    BY <1>1 DEF IInv, CopiesSound, pubVars
  <1> QED
    BY <1>1, <1>3, <1>4, <1>5, DraftsKeep DEF CopiesSound

\* A step on rows and judges that keeps them in order.
LEMMA JobsKeep ==
  ASSUME IInv, UNCHANGED pubVars, CopiesSound', cleared \subseteq cleared', RowsListed', RowsCleared', JudgesSound'
  PROVE  IInv'
  <1>1. PubSound' /\ OnlyVettedIsPublic'
    BY PubKeeps
  <1> QED
    BY <1>1 DEF IInv

\* Drafts and publications that a step does not touch stay sound.
LEMMA CopiesAlone ==
  ASSUME CopiesSound, UNCHANGED <<draft, regen>>, UNCHANGED pubVars
  PROVE  CopiesSound'
  BY DEF CopiesSound, Sound, pubVars

\* The verdict that is carried over clears the payload it is carried to.
LEMMA CarryKeeps ==
  ASSUME IInv, Carry
  PROVE  IInv'
  <1>1. UNCHANGED <<draft, regen, judge>> /\ UNCHANGED pubVars
    BY DEF Carry
  <1>2. CopiesSound' /\ Sound(draft)
    BY <1>1, CopiesAlone DEF IInv, CopiesSound
  <1>3. RowsListed /\ RowsCleared /\ JudgesSound
    BY DEF IInv
  <1>4. CASE UNCHANGED <<rows, scored, cleared>>
    <2>1. RowsListed' /\ RowsCleared' /\ JudgesSound'
      BY <1>1, <1>3, <1>4 DEF RowsListed, RowsCleared, JudgesSound
    <2> QED
      BY <1>1, <1>2, <1>4, <2>1, JobsKeep
  <1>5. CASE ~UNCHANGED <<rows, scored, cleared>>
    <2> DEFINE last == rows[Last(SelectSeq(scored, LAMBDA i : i \notin OnVersion(draft)))]
               r == [rev |-> draft.rev, hash |-> draft.hash, gen |-> 0, status |-> last.status, attempt |-> 0]
    <2>1. /\ draft.hash # NoContent /\ AddRow(r)
          /\ cleared' = IF Cleared(last.status) THEN cleared \cup {draft.content} ELSE cleared
      BY <1>5 DEF Carry, Cleared
    <2> HIDE DEF last
    <2>2. r \in Row({last.status}) /\ draft.hash = draft.content
      BY <2>1, <1>2 DEF Sound, Version, Row
    <2>3. Cleared(r.status) => r.hash \in cleared'
      BY <2>1, <2>2
    <2>4. cleared \subseteq cleared'
      BY <2>1
    <2> HIDE DEF r
    <2>5. /\ RowsListed' /\ RowsCleared'
          /\ Len(rows) \in Nat /\ Len(rows') = Len(rows) + 1
          /\ \A i \in 1..Len(rows) : rows'[i] = rows[i]
      BY <1>3, <2>1, <2>2, <2>3, <2>4, AddRowKeeps
    <2>6. JudgesSound'
      BY <1>1, <1>3, <2>5, JudgesKeep
    <2> QED
      BY <1>1, <1>2, <2>4, <2>5, <2>6, JobsKeep
  <1> QED
    BY <1>4, <1>5

\* A new job is pending; whoever is launched with it has nothing loaded yet.
LEMMA EnqueueKeeps ==
  ASSUME IInv, NEW g \in 1..gens, Enqueue(g)
  PROVE  IInv'
  <1> DEFINE r == [rev |-> draft.rev, hash |-> draft.hash, gen |-> g, status |-> "pending", attempt |-> 0]
             job == Len(rows) + 1
  <1>1. /\ draft.hash # NoContent /\ AddRow(r) /\ UNCHANGED <<draft, regen, cleared>> /\ UNCHANGED pubVars
        /\ judge' = [judge EXCEPT ![job].todo = {job}] \/ judge' = judge
    BY DEF Enqueue, draftVars
  <1>2. CopiesSound' /\ Sound(draft)
    BY <1>1, CopiesAlone DEF IInv, CopiesSound
  <1>3. r \in Row({"pending"}) /\ ~Cleared(r.status)
    BY <1>1, <1>2 DEF Sound, Version, Row, Cleared
  <1>4. RowsListed /\ RowsCleared /\ JudgesSound /\ cleared' = cleared
    BY <1>1 DEF IInv
  <1> HIDE DEF r
  <1>5. /\ RowsListed' /\ RowsCleared'
        /\ Len(rows) \in Nat /\ Len(rows') = Len(rows) + 1
        /\ \A i \in 1..Len(rows) : rows'[i] = rows[i]
    BY <1>1, <1>3, <1>4, AddRowKeeps
  <1>6. CASE judge' = judge
    <2>1. JudgesSound'
      BY <1>4, <1>5, <1>6, JudgesKeep
    <2> QED
      BY <1>1, <1>2, <1>4, <1>5, <2>1, JobsKeep
  <1>7. CASE judge' = [judge EXCEPT ![job].todo = {job}]
    <2>1. {job} \in SUBSET Nat
      BY <1>5
    <2>2. judge' \in [Judges -> [todo : SUBSET Nat, row : Nat, saw : Contents \cup {NoContent}]]
      BY <1>4, <1>7, <2>1 DEF JudgesSound
    <2>3. \A j \in Judges : judge'[j].row = judge[j].row /\ judge'[j].saw = judge[j].saw
      BY <1>4, <1>7 DEF JudgesSound
    <2>4. JudgesSound'
      BY <1>4, <1>5, <2>2, <2>3 DEF JudgesSound
    <2> QED
      BY <1>1, <1>2, <1>4, <1>5, <2>4, JobsKeep
  <1> QED
    BY <1>1, <1>6, <1>7

\* A job that is taken up works on the payload whose hash the row has.
LEMMA RunJobKeeps ==
  ASSUME IInv, NEW j \in Judges, RunJob(j)
  PROVE  IInv'
  <1> DEFINE i == NextJob(j)
             rest == judge[j].todo \ {i}
             J == [todo : SUBSET Nat, row : Nat, saw : Contents \cup {NoContent}]
  <1>1. UNCHANGED <<draft, regen, cleared>> /\ UNCHANGED pubVars /\ cleared' = cleared
    BY DEF RunJob, draftVars
  <1>2. CopiesSound' /\ Sound(draft)
    BY <1>1, CopiesAlone DEF IInv, CopiesSound
  <1>3. RowsListed /\ RowsCleared /\ JudgesSound /\ Len(rows) \in Nat
    BY LenProperties DEF IInv, RowsListed
  <1>4. rest \in SUBSET Nat /\ judge \in [Judges -> J]
    BY <1>3 DEF JudgesSound
  <1>5. CASE rows[i].status # "pending"
    <2>1. judge' = [judge EXCEPT ![j].todo = rest] /\ rows' = rows
      BY <1>5 DEF RunJob
    <2> HIDE DEF i, rest
    <2>2. judge' \in [Judges -> J]
      BY <1>4, <2>1
    <2>3. \A k \in Judges : judge'[k].row = judge[k].row /\ judge'[k].saw = judge[k].saw
      BY <1>4, <2>1
    <2>4. RowsListed' /\ RowsCleared' /\ JudgesSound'
      BY <1>1, <1>3, <2>1, <2>2, <2>3 DEF RowsListed, RowsCleared, JudgesSound
    <2> QED
      BY <1>1, <1>2, <2>4, JobsKeep
  <1>6. CASE rows[i].status = "pending" /\ i \notin OnVersion(draft)
    <2>1. judge' = [judge EXCEPT ![j].todo = rest] /\ rows' = [rows EXCEPT ![i].status = "stale", ![i].attempt = @ + 1]
      BY <1>6 DEF RunJob
    <2> HIDE DEF i, rest
    <2>2. judge' \in [Judges -> J]
      BY <1>4, <2>1
    <2>3. \A k \in Judges : judge'[k].row = judge[k].row /\ judge'[k].saw = judge[k].saw
      BY <1>4, <2>1
    <2>4. RowsListed' /\ Restated /\ \A k \in 1..Len(rows) : rows'[k].status = IF k = i THEN "stale" ELSE rows[k].status
      <3>1. Restates(i, "stale")
        BY <2>1 DEF Restates
      <3> QED
        BY <1>3, <3>1, RestateOne
    <2>5. RowsCleared'
      BY <1>1, <1>3, <2>4, RestatedKeeps DEF Cleared
    <2>6. JudgesSound'
      BY <1>3, <2>2, <2>3, <2>4 DEF JudgesSound, Restated
    <2> QED
      BY <1>1, <1>2, <2>4, <2>5, <2>6, JobsKeep
  <1>7. CASE rows[i].status = "pending" /\ i \in OnVersion(draft)
    <2>1. /\ judge' = [judge EXCEPT ![j] = [todo |-> rest, row |-> i, saw |-> draft.content]]
          /\ rows' = [rows EXCEPT ![i].status = "running", ![i].attempt = @ + 1]
      BY <1>7 DEF RunJob
    <2>2. i \in 1..Len(rows) /\ rows[i].hash = draft.hash
      BY <1>3, <1>7, LenProperties DEF OnVersion, RowsListed
    <2>3. rows[i].hash \in Contents
      <3>1. PICK S : rows \in Seq(Row(S))
        BY <1>3 DEF RowsListed
      <3>2. rows[i] \in Row(S)
        BY <3>1, <2>2, ElementOfSeq
      <3> QED
        BY <3>2 DEF Row
    <2>4. draft.content = rows[i].hash
      BY <1>2, <2>2, <2>3, ConstantsAssumption DEF Sound
    <2> HIDE DEF i, rest
    <2>5. judge' \in [Judges -> J]
      BY <1>4, <2>1, <2>2, <2>3, <2>4
    <2>6. RowsListed' /\ Restated /\ \A k \in 1..Len(rows) : rows'[k].status = IF k = i THEN "running" ELSE rows[k].status
      <3>1. Restates(i, "running")
        BY <2>1 DEF Restates
      <3> QED
        BY <1>3, <3>1, RestateOne
    <2>7. RowsCleared'
      BY <1>1, <1>3, <2>6, RestatedKeeps DEF Cleared
    <2>8. ASSUME NEW k \in Judges, judge'[k].row # 0
          PROVE  judge'[k].row \in 1..Len(rows) /\ judge'[k].saw = rows[judge'[k].row].hash
      BY <1>3, <1>4, <2>1, <2>2, <2>4, <2>8 DEF JudgesSound
    <2>9. JudgesSound'
      BY <2>5, <2>6, <2>8 DEF JudgesSound, Restated
    <2> QED
      BY <1>1, <1>2, <2>6, <2>7, <2>9, JobsKeep
  <1> QED
    BY <1>5, <1>6, <1>7

\* A job that ends: its row has a status, its judge nothing, and if it is cleared so is what was judged.
LEMMA JudgeEnds ==
  ASSUME IInv, NEW j \in Judges, judge[j].row # 0, NEW st,
         rows' = [rows EXCEPT ![judge[j].row].status = st],
         judge' = [judge EXCEPT ![j].row = 0, ![j].saw = NoContent],
         cleared' = (IF Cleared(st) THEN cleared \cup {judge[j].saw} ELSE cleared),
         UNCHANGED draftVars, UNCHANGED pubVars
  PROVE  IInv'
  <1>1. RowsListed /\ RowsCleared /\ JudgesSound /\ CopiesSound'
    BY CopiesAlone DEF IInv, draftVars
  <1>2. judge[j].row \in 1..Len(rows) /\ judge[j].saw = rows[judge[j].row].hash
    BY <1>1 DEF JudgesSound
  <1>3. /\ RowsListed' /\ Restated
        /\ \A k \in 1..Len(rows) : rows'[k].status = IF k = judge[j].row THEN st ELSE rows[k].status
    <2>1. Restates(judge[j].row, st)
      BY DEF Restates
    <2> QED
      BY <1>1, <2>1, RestateOne
  <1>4. cleared \subseteq cleared'
    OBVIOUS
  <1>5. RowsCleared'
    BY <1>1, <1>2, <1>3, <1>4, RestatedKeeps
  <1>6. judge' \in [Judges -> [todo : SUBSET Nat, row : Nat, saw : Contents \cup {NoContent}]]
    BY <1>1 DEF JudgesSound
  <1>7. \A k \in Judges : judge'[k].row # 0 => judge'[k] = judge[k]
    BY <1>1 DEF JudgesSound
  <1>8. JudgesSound'
    BY <1>1, <1>3, <1>6, <1>7 DEF JudgesSound, Restated
  <1> QED
    BY <1>1, <1>3, <1>4, <1>5, <1>8, JobsKeep

\* Verdicts, failures and deaths of judges.
LEMMA JudgesEnd ==
  ASSUME IInv, NEW j \in Judges, Verdict(j) \/ JudgeFails(j) \/ Die(j)
  PROVE  IInv'
  <1>1. CASE Verdict(j)
    <2>1. PICK st \in {"passed", "needs_review"} :
            /\ rows' = [rows EXCEPT ![judge[j].row].status = st]
            /\ cleared' = IF Cleared(st) THEN cleared \cup {judge[j].saw} ELSE cleared
      BY <1>1 DEF Verdict, Cleared
    <2> QED
      BY <1>1, <2>1, JudgeEnds DEF Verdict
  <1>2. CASE JudgeFails(j)
    <2>1. ~Cleared("failed")
      BY DEF Cleared
    <2> QED
      BY <1>2, <2>1, JudgeEnds DEF JudgeFails
  <1>3. CASE Die(j)
    <2>1. /\ judge' = [judge EXCEPT ![j] = Idle]
          /\ UNCHANGED <<draft, regen, rows, cleared>> /\ UNCHANGED pubVars
      BY <1>3 DEF Die, draftVars
    <2>2. CopiesSound' /\ cleared \subseteq cleared'
      BY <2>1, CopiesAlone DEF IInv
    <2>3. RowsListed' /\ RowsCleared'
      BY <2>1 DEF IInv, RowsListed, RowsCleared
    <2>4. JudgesSound'
      BY <2>1 DEF IInv, JudgesSound, Idle
    <2> QED
      BY <2>1, <2>2, <2>3, <2>4, JobsKeep
  <1> QED
    BY <1>1, <1>2, <1>3

\* Jobs taken for dead wait again, which clears nothing, and a list is made.
LEMMA SweepKeeps ==
  ASSUME IInv, NEW s \in Sweepers, NEW dead \in SUBSET DOMAIN rows, Sweep(s, dead)
  PROVE  IInv'
  <1>1. RowsListed /\ RowsCleared /\ JudgesSound
    BY DEF IInv
  <1>2. /\ rows' = Recovered(dead)
        /\ judge' = [judge EXCEPT ![s].todo = {i \in DOMAIN rows : Due(rows'[i])}]
        /\ UNCHANGED <<draft, regen, cleared>> /\ UNCHANGED pubVars /\ cleared' = cleared
    BY DEF Sweep, draftVars
  <1>3. PICK S : rows \in Seq(Row(S))
    BY <1>1 DEF RowsListed
  <1>4. rows \in [1..Len(rows) -> Row(S \cup {"pending"})] /\ Len(rows) \in Nat
    BY <1>3, RowsOfMore, LenProperties
  <1>5. \A i \in 1..Len(rows) : /\ rows'[i] \in Row(S \cup {"pending"})
                               /\ rows'[i].hash = rows[i].hash
                               /\ rows'[i].status \in {rows[i].status, "pending"}
    BY <1>2, <1>4 DEF Recovered, Row
  <1>6. rows' \in Seq(Row(S \cup {"pending"})) /\ Len(rows') = Len(rows)
    <2> HIDE DEF Row
    <2>1. rows' \in [1..Len(rows) -> Row(S \cup {"pending"})]
      BY <1>2, <1>4, <1>5 DEF Recovered
    <2>2. rows' \in Seq(Row(S \cup {"pending"}))
      BY <2>1, <1>4, SeqDef
    <2>3. DOMAIN rows' = 1..Len(rows') /\ Len(rows') \in Nat
      BY <2>2, LenProperties
    <2>4. DOMAIN rows' = 1..Len(rows)
      BY <2>1
    <2> QED
      BY <1>4, <2>2, <2>3, <2>4, SameLength
  <1>7. RowsListed' /\ Restated
    BY <1>5, <1>6 DEF RowsListed, Restated
  <1>8. RowsCleared'
    BY <1>1, <1>2, <1>5, <1>7, RestatedKeeps DEF Cleared
  <1>9. JudgesSound'
    <2>1. {i \in DOMAIN rows : Due(rows'[i])} \in SUBSET Nat
      BY <1>4
    <2> DEFINE todo == {i \in DOMAIN rows : Due(rows'[i])}
    <2> HIDE DEF todo
    <2>2. judge' \in [Judges -> [todo : SUBSET Nat, row : Nat, saw : Contents \cup {NoContent}]]
      BY <1>1, <1>2, <2>1 DEF JudgesSound, todo
    <2>3. \A k \in Judges : judge'[k].row = judge[k].row /\ judge'[k].saw = judge[k].saw
      BY <1>1, <1>2 DEF JudgesSound
    <2> QED
      BY <1>1, <1>7, <2>2, <2>3 DEF JudgesSound, Restated
  <1>10. CopiesSound' /\ cleared \subseteq cleared'
    BY <1>2, CopiesAlone DEF IInv
  <1> QED
    BY <1>2, <1>7, <1>8, <1>9, <1>10, JobsKeep

\* An administrator waives the verdict on the payload the draft has.
LEMMA WaiveKeeps ==
  ASSUME IInv, Waive
  PROVE  IInv'
  <1>1. PICK i \in DOMAIN rows : Latest(i, draft) /\ rows' = [rows EXCEPT ![i].status = "waived"]
    BY DEF Waive
  <1>2. /\ cleared' = cleared \cup {draft.content}
        /\ UNCHANGED <<draft, regen, judge>> /\ UNCHANGED pubVars
    BY DEF Waive, draftVars
  <1>3. RowsListed /\ RowsCleared /\ JudgesSound /\ Sound(draft) /\ CopiesSound'
    BY <1>2, CopiesAlone DEF IInv, CopiesSound
  <1>4. PICK S : rows \in Seq(Row(S))
    BY <1>3 DEF RowsListed
  <1>5. i \in 1..Len(rows) /\ Len(rows) \in Nat
    BY <1>4, LenProperties
  <1>6. rows[i].hash \in Contents /\ rows[i].hash = draft.hash
    <2>1. rows[i] \in Row(S)
      BY <1>4, <1>5, ElementOfSeq
    <2> QED
      BY <2>1, <1>1 DEF Row, Latest, OnVersion
  <1>7. rows[i].hash = draft.content
    BY <1>3, <1>6, ConstantsAssumption DEF Sound
  <1>8. RowsListed' /\ Restated /\ \A k \in 1..Len(rows) : rows'[k].status = IF k = i THEN "waived" ELSE rows[k].status
    <2>1. Restates(i, "waived")
      BY <1>1 DEF Restates
    <2> QED
      BY <1>3, <2>1, RestateOne
  <1>9. cleared \subseteq cleared'
    BY <1>2
  <1>10. RowsCleared'
    BY <1>2, <1>3, <1>7, <1>8, <1>9, RestatedKeeps
  <1>11. JudgesSound'
    BY <1>2, <1>3, <1>5, <1>8, JudgesKeep DEF Restated
  <1> QED
    BY <1>2, <1>3, <1>8, <1>9, <1>10, <1>11, JobsKeep

\* The gate lets through what it finds cleared by the hash of the copy, and that copy is what is published.
LEMMA PublicationKeeps ==
  ASSUME IInv, PublishLoad \/ Gate \/ PublishWrite \/ AdminPublish
  PROVE  IInv'
  <1>1. UNCHANGED draftVars /\ UNCHANGED jobVars
    BY DEF PublishLoad, Gate, PublishWrite, AdminPublish, draftVars
  <1>2. UNCHANGED <<draft, regen, rows, judge, cleared>>
    BY <1>1 DEF draftVars, jobVars
  <1>3. RowsListed' /\ RowsCleared' /\ JudgesSound'
    BY <1>2 DEF IInv, RowsListed, RowsCleared, JudgesSound
  <1>4. Sound(draft) /\ Sound(regen) /\ Sound(pub.draft) /\ Sound(Nothing) /\ PubSound /\ OnlyVettedIsPublic
    BY DEF IInv, CopiesSound, Sound, Nothing, Version
  <1>5. CASE PublishLoad
    BY <1>2, <1>3, <1>4, <1>5 DEF PublishLoad, IInv, CopiesSound, PubSound, OnlyVettedIsPublic, Sound
  <1>6. CASE Gate
    <2>1. CASE Opens(pub.draft)
      <3>1. pub' = [pub EXCEPT !.pc = "write"] /\ world' = world
        BY <1>6, <2>1 DEF Gate
      <3>2. pub.draft.rev = 0 \/ pub.draft.content \in cleared
        <4> SUFFICES ASSUME NEW i \in DOMAIN rows, Latest(i, pub.draft), Cleared(rows[i].status)
                     PROVE  pub.draft.content \in cleared
          BY <2>1 DEF Opens, Cleared
        <4>1. PICK S : rows \in Seq(Row(S))
          BY DEF IInv, RowsListed
        <4>2. i \in 1..Len(rows) /\ rows[i] \in Row(S)
          BY <4>1, LenProperties, ElementOfSeq
        <4>3. rows[i].hash = pub.draft.hash /\ rows[i].hash \in Contents
          BY <4>2 DEF Row, Latest, OnVersion
        <4>4. rows[i].hash \in cleared
          BY <4>2 DEF IInv, RowsCleared
        <4> QED
          BY <1>4, <4>3, <4>4, ConstantsAssumption DEF Sound
      <3>3. pub'.draft = pub.draft /\ pub'.pc = "write" /\ PubSound'
        BY <1>2, <1>4, <3>1, <3>2 DEF PubSound
      <3> QED
        BY <1>2, <1>3, <1>4, <3>1, <3>3 DEF IInv, CopiesSound, OnlyVettedIsPublic, Sound
    <2>2. CASE ~Opens(pub.draft)
      BY <1>2, <1>3, <1>4, <1>6, <2>2 DEF Gate, IInv, CopiesSound, PubSound, OnlyVettedIsPublic, Sound
    <2> QED
      BY <2>1, <2>2
  <1>7. CASE PublishWrite
    <2>1. pub' = [pc |-> "idle", draft |-> Nothing] /\ pub.pc = "write"
      BY <1>7 DEF PublishWrite
    <2>2. PubSound' /\ Sound(pub.draft)'
      BY <1>4, <2>1 DEF PubSound, Sound
    <2>3. OnlyVettedIsPublic'
      BY <1>2, <1>4, <1>7, <2>1 DEF PublishWrite, OnlyVettedIsPublic, PubSound
    <2> QED
      BY <1>2, <1>3, <1>4, <2>2, <2>3 DEF IInv, CopiesSound
  <1>8. CASE AdminPublish
    BY <1>2, <1>3, <1>4, <1>8 DEF AdminPublish, IInv, CopiesSound, PubSound, OnlyVettedIsPublic, Sound
  <1> QED
    BY <1>5, <1>6, <1>7, <1>8

-----------------------------------------------------------------------------
\* Every step keeps the invariant.
LEMMA StepInv == IInv /\ [Next]_vars => IInv'
  <1> SUFFICES ASSUME IInv, [Next]_vars PROVE IInv'
    OBVIOUS
  <1>1. CASE UNCHANGED vars
    <2>1. UNCHANGED <<jobVars, pubVars>> /\ UNCHANGED <<draft, regen>> /\ UNCHANGED pubVars
      BY <1>1 DEF vars, draftVars
    <2> QED
      BY <2>1, CopiesAlone, DraftsKeep DEF IInv
  <1>2. CASE Edit \/ Result \/ AskImage \/ PutImage \/ ImageFails \/ RefineStart \/ RefineWrite \/ RefineEnds
    BY <1>2, WritesKeep
  <1>3. CASE Carry
    BY <1>3, CarryKeeps
  <1>4. ASSUME NEW g \in 1..gens, Enqueue(g)
        PROVE  IInv'
    BY <1>4, EnqueueKeeps
  <1>5. ASSUME NEW j \in Judges, RunJob(j)
        PROVE  IInv'
    BY <1>5, RunJobKeeps
  <1>6. ASSUME NEW j \in Judges, Verdict(j) \/ JudgeFails(j) \/ Die(j)
        PROVE  IInv'
    BY <1>6, JudgesEnd
  <1>7. ASSUME NEW s \in Sweepers, NEW dead \in SUBSET DOMAIN rows, Sweep(s, dead)
        PROVE  IInv'
    BY <1>7, SweepKeeps
  <1>8. CASE Waive
    BY <1>8, WaiveKeeps
  <1>9. CASE PublishLoad \/ Gate \/ PublishWrite \/ AdminPublish
    BY <1>9, PublicationKeeps
  <1> QED
    BY <1>1, <1>2, <1>3, <1>4, <1>5, <1>6, <1>7, <1>8, <1>9 DEF Next

\* The invariant holds of every state.
THEOREM Invariant == Spec => []IInv
  BY InitInv, StepInv, PTL DEF Spec

\* The hash a verdict is looked up by is that of the payload beside it, in the draft and in every copy
\* of it, after any mixture of saves, results, refinements and late images (workshop.py 517-526, 646-648).
THEOREM HashesAgree == Spec => []HashIsContent
  <1>1. IInv => HashIsContent
    BY DEF IInv, CopiesSound, Sound, HashIsContent
  <1> QED
    BY <1>1, Invariant, PTL

\* An owner publishes only what was passed, waived, or took over such a verdict as that very payload,
\* or what was never versioned (publish_service.py 572-606).
THEOREM GateHolds == Spec => []OnlyVettedIsPublic
  <1>1. IInv => OnlyVettedIsPublic
    BY DEF IInv
  <1> QED
    BY <1>1, Invariant, PTL

-----------------------------------------------------------------------------
(* One judge at a time.  If judges keep to their thirty minutes, a row     *)
(* somebody judges is running, or was waived meanwhile, and nobody else    *)
(* judges it: whoever takes a row up finds it pending, and what is taken   *)
(* for dead nobody judges any more.                                        *)

JudgedOnce == \A i, j \in Judges : judge[i].row = judge[j].row /\ judge[i].row # 0 => i = j

JudgedRuns == \A j \in Judges : judge[j].row # 0 => rows[judge[j].row].status \in {"running", "waived"}

Alone == JudgeInTime => JudgedOnce /\ JudgedRuns

\* What VerdictIsFinal says of one step.
FinalStep ==
    JudgeInTime => \A i \in DOMAIN rows :
        rows[i].status \in Ended => rows'[i].status \in {rows[i].status, "waived"}

\* The rows have the indices 1 to their number.
LEMMA RowIndices ==
  ASSUME RowsListed
  PROVE  Len(rows) \in Nat /\ DOMAIN rows = 1..Len(rows)
  BY LenProperties DEF RowsListed

\* A step that gives no row another status and no judge another row.
LEMMA AloneKeeps ==
  ASSUME RowsListed, JudgesSound, Alone,
         \A j \in Judges : judge'[j].row \in {0, judge[j].row},
         \A i \in 1..Len(rows) : rows'[i].status = rows[i].status
  PROVE  Alone' /\ FinalStep
  <1>1. FinalStep
    BY RowIndices DEF FinalStep
  <1>2. JudgedOnce => JudgedOnce'
    BY DEF JudgedOnce
  <1>3. ASSUME JudgedRuns, NEW j \in Judges, judge'[j].row # 0
        PROVE  rows'[judge'[j].row].status \in {"running", "waived"}
    <2>1. judge'[j].row = judge[j].row /\ judge[j].row # 0 /\ judge[j].row \in 1..Len(rows)
      BY <1>3 DEF JudgesSound
    <2>2. rows'[judge[j].row].status = rows[judge[j].row].status
      BY <2>1
    <2> QED
      BY <1>3, <2>1, <2>2 DEF JudgedRuns
  <1> QED
    BY <1>1, <1>2, <1>3 DEF Alone, JudgedRuns

\* A row added at the end leaves the others as they are.
LEMMA AddedAlone ==
  ASSUME RowsListed, JudgesSound, Alone, NEW r, AddRow(r),
         \A j \in Judges : judge'[j].row = judge[j].row
  PROVE  Alone' /\ FinalStep
  <1>1. PICK S : rows \in Seq(Row(S))
    BY DEF RowsListed
  <1>2. rows \in Seq(Row(S) \cup {r}) /\ rows' = Append(rows, r)
    BY <1>1 DEF AddRow
  <1>3. \A i \in 1..Len(rows) : rows'[i] = rows[i]
    BY <1>2, AppendProperties
  <1> QED
    BY <1>3, AloneKeeps

\* A row that gets a new status is one nobody judges, or one whose judge is done; and its verdict, if
\* it had one, is waived.
LEMMA RestatedAlone ==
  ASSUME RowsListed, JudgesSound, Alone, NEW i, NEW st, Restates(i, st),
         \A j \in Judges : judge'[j].row \in {0, judge[j].row},
         JudgeInTime => \/ st = "waived"
                        \/ /\ \A j \in Judges : judge'[j].row # i
                           /\ i \in 1..Len(rows) => rows[i].status \notin Ended
  PROVE  Alone' /\ FinalStep
  <1>1. \A k \in 1..Len(rows) : rows'[k].status = IF k = i THEN st ELSE rows[k].status
    BY RestateOne
  <1>2. JudgeInTime => \A k \in 1..Len(rows) : rows[k].status \in Ended => rows'[k].status \in {rows[k].status, "waived"}
    BY <1>1
  <1>3. FinalStep
    BY <1>2, RowIndices DEF FinalStep
  <1>4. JudgedOnce => JudgedOnce'
    BY DEF JudgedOnce
  <1>5. ASSUME JudgeInTime, JudgedRuns, NEW j \in Judges, judge'[j].row # 0
        PROVE  rows'[judge'[j].row].status \in {"running", "waived"}
    <2>1. judge'[j].row = judge[j].row /\ judge[j].row # 0 /\ judge[j].row \in 1..Len(rows)
      BY <1>5 DEF JudgesSound
    <2>2. rows'[judge[j].row].status = IF judge[j].row = i THEN st ELSE rows[judge[j].row].status
      BY <1>1, <2>1
    <2>3. rows[judge[j].row].status \in {"running", "waived"}
      BY <1>5, <2>1 DEF JudgedRuns
    <2> QED
      BY <1>5, <2>1, <2>2, <2>3
  <1> QED
    BY <1>3, <1>4, <1>5 DEF Alone, JudgedRuns

\* A job is taken up while it is pending, and then nobody judges it.
LEMMA RunJobAlone ==
  ASSUME IInv, Alone, NEW j \in Judges, RunJob(j)
  PROVE  Alone' /\ FinalStep
  <1> DEFINE i == NextJob(j)
             rest == judge[j].todo \ {i}
             J == [todo : SUBSET Nat, row : Nat, saw : Contents \cup {NoContent}]
  <1>1. RowsListed /\ JudgesSound /\ judge \in [Judges -> J] /\ judge[j].row = 0
    BY DEF IInv, JudgesSound, RunJob
  <1>2. CASE rows[i].status # "pending"
    <2>1. judge' = [judge EXCEPT ![j].todo = rest] /\ rows' = rows
      BY <1>2 DEF RunJob
    <2> HIDE DEF i, rest
    <2>2. \A k \in Judges : judge'[k].row = judge[k].row
      BY <1>1, <2>1
    <2> QED
      BY <1>1, <2>1, <2>2, AloneKeeps
  <1>3. CASE rows[i].status = "pending" /\ i \notin OnVersion(draft)
    <2>1. judge' = [judge EXCEPT ![j].todo = rest] /\ Restates(i, "stale")
      BY <1>3 DEF RunJob, Restates
    <2> HIDE DEF i, rest
    <2>2. \A k \in Judges : judge'[k].row = judge[k].row
      BY <1>1, <2>1
    <2>3. rows[i].status \notin Ended
      BY <1>3 DEF Ended
    <2>4. CASE i = 0
      <3>1. i \notin 1..Len(rows)
        BY <1>1, <2>4, RowIndices
      <3>2. \A k \in 1..Len(rows) : rows'[k].status = rows[k].status
        BY <1>1, <2>1, <3>1, RestateOne
      <3> QED
        BY <1>1, <2>2, <3>2, AloneKeeps
    <2>5. CASE i # 0
      <3>1. JudgeInTime => \A k \in Judges : judge'[k].row # i
        BY <1>3, <2>2, <2>5 DEF Alone, JudgedRuns
      <3> QED
        BY <1>1, <2>1, <2>2, <2>3, <3>1, RestatedAlone
    <2> QED
      BY <2>4, <2>5
  <1>4. CASE rows[i].status = "pending" /\ i \in OnVersion(draft)
    <2>1. /\ judge' = [judge EXCEPT ![j] = [todo |-> rest, row |-> i, saw |-> draft.content]]
          /\ Restates(i, "running")
      BY <1>4 DEF RunJob, Restates
    <2>2. i \in 1..Len(rows) /\ i # 0
      BY <1>1, <1>4, RowIndices DEF OnVersion
    <2> HIDE DEF i, rest
    <2>3. judge'[j].row = i /\ \A k \in Judges : k # j => judge'[k] = judge[k]
      BY <1>1, <2>1
    <2>4. \A k \in 1..Len(rows) : rows'[k].status = IF k = i THEN "running" ELSE rows[k].status
      BY <1>1, <2>1, RestateOne
    <2>5. FinalStep
      BY <1>1, <1>4, <2>4, RowIndices DEF FinalStep, Ended
    <2>6. ASSUME JudgeInTime
          PROVE  JudgedOnce' /\ JudgedRuns'
      <3>1. \A k \in Judges : judge[k].row # i
        BY <1>4, <2>2, <2>6 DEF Alone, JudgedRuns
      <3>2. JudgedOnce'
        BY <1>1, <2>3, <2>6, <3>1 DEF Alone, JudgedOnce
      <3>3. ASSUME NEW k \in Judges, judge'[k].row # 0
            PROVE  rows'[judge'[k].row].status \in {"running", "waived"}
        <4>1. CASE k = j
          BY <2>2, <2>3, <2>4, <4>1
        <4>2. CASE k # j
          <5>1. judge'[k].row = judge[k].row /\ judge[k].row \in 1..Len(rows) /\ judge[k].row # i
            BY <1>1, <2>3, <3>1, <3>3, <4>2 DEF JudgesSound
          <5> QED
            BY <2>4, <2>6, <3>3, <5>1 DEF Alone, JudgedRuns
        <4> QED
          BY <4>1, <4>2
      <3> QED
        BY <3>2, <3>3 DEF JudgedRuns
    <2> QED
      BY <2>5, <2>6 DEF Alone
  <1> QED
    BY <1>2, <1>3, <1>4

\* A verdict, or a failure, ends the one judgement of its row; the row had no verdict yet.
LEMMA JudgesEndAlone ==
  ASSUME IInv, Alone, NEW j \in Judges, Verdict(j) \/ JudgeFails(j) \/ Die(j)
  PROVE  Alone' /\ FinalStep
  <1>1. RowsListed /\ JudgesSound
    BY DEF IInv
  <1>2. CASE Die(j)
    <2>1. rows' = rows /\ \A k \in Judges : judge'[k].row \in {0, judge[k].row}
      BY <1>1, <1>2 DEF Die, Idle, JudgesSound
    <2> QED
      BY <1>1, <2>1, AloneKeeps
  <1>3. CASE Verdict(j) \/ JudgeFails(j)
    <2> DEFINE i == judge[j].row
    <2>1. PICK st : Restates(i, st)
      BY <1>3 DEF Verdict, JudgeFails, Restates
    <2>2. judge' = [judge EXCEPT ![j].row = 0, ![j].saw = NoContent] /\ i # 0
      BY <1>3 DEF Verdict, JudgeFails
    <2>3. \A k \in Judges : judge'[k].row = IF k = j THEN 0 ELSE judge[k].row
      BY <1>1, <2>2 DEF JudgesSound
    <2>4. JudgeInTime => \A k \in Judges : judge'[k].row # i
      BY <2>2, <2>3 DEF Alone, JudgedOnce
    <2>5. JudgeInTime => rows[i].status \notin Ended
      BY <2>2 DEF Alone, JudgedRuns, Ended
    <2> HIDE DEF i
    <2> QED
      BY <1>1, <2>1, <2>3, <2>4, <2>5, RestatedAlone
  <1> QED
    BY <1>2, <1>3

\* What a sweep takes for dead nobody judges, and it has no verdict.
LEMMA SweepAlone ==
  ASSUME IInv, Alone, NEW s \in Sweepers, NEW dead \in SUBSET DOMAIN rows, Sweep(s, dead)
  PROVE  Alone' /\ FinalStep
  <1>1. RowsListed /\ JudgesSound
    BY DEF IInv
  <1>2. /\ rows' = Recovered(dead)
        /\ judge' = [judge EXCEPT ![s].todo = {i \in DOMAIN rows : Due(rows'[i])}]
        /\ \A i \in dead : MayBeOld(i)
    BY DEF Sweep
  <1>3. \A k \in Judges : judge'[k].row = judge[k].row
    BY <1>1, <1>2 DEF JudgesSound
  <1>4. PICK S : rows \in Seq(Row(S))
    BY <1>1 DEF RowsListed
  <1>5. \A i \in 1..Len(rows) : rows'[i].status = IF i \in dead THEN "pending" ELSE rows[i].status
    <2>1. DOMAIN rows = 1..Len(rows)
      BY <1>1, RowIndices
    <2>2. \A i \in 1..Len(rows) : rows[i] \in Row(S)
      BY <1>4, ElementOfSeq
    <2> QED
      BY <1>2, <2>1, <2>2 DEF Recovered, Row
  <1>6. \A i \in dead : /\ rows[i].status \notin Ended
                        /\ JudgeInTime => \A k \in Judges : judge[k].row # i
    BY <1>2 DEF MayBeOld, Ended
  <1>7. FinalStep
    BY <1>1, <1>5, <1>6, RowIndices DEF FinalStep
  <1>8. ASSUME JudgeInTime
        PROVE  JudgedOnce' /\ JudgedRuns'
    <2>1. JudgedOnce'
      BY <1>3, <1>8 DEF Alone, JudgedOnce
    <2>2. ASSUME NEW k \in Judges, judge'[k].row # 0
          PROVE  rows'[judge'[k].row].status \in {"running", "waived"}
      <3>1. judge'[k].row = judge[k].row /\ judge[k].row \in 1..Len(rows) /\ judge[k].row \notin dead
        BY <1>1, <1>3, <1>6, <1>8, <2>2 DEF JudgesSound
      <3> QED
        BY <1>5, <1>8, <2>2, <3>1 DEF Alone, JudgedRuns
    <2> QED
      BY <2>1, <2>2 DEF JudgedRuns
  <1> QED
    BY <1>7, <1>8 DEF Alone

\* Steps that touch neither verdicts nor judges.
LEMMA OthersAlone ==
  ASSUME IInv, Alone, UNCHANGED <<rows, judge>>
  PROVE  Alone' /\ FinalStep
  BY AloneKeeps DEF IInv

\* Every step keeps judges apart and verdicts final.
LEMMA AloneStep == IInv /\ Alone /\ [Next]_vars => Alone' /\ FinalStep
  <1> SUFFICES ASSUME IInv, Alone, [Next]_vars PROVE Alone' /\ FinalStep
    OBVIOUS
  <1>1. CASE UNCHANGED vars
    BY <1>1, OthersAlone DEF vars, jobVars
  <1>2. CASE \/ Edit \/ Result \/ AskImage \/ PutImage \/ ImageFails \/ RefineStart \/ RefineWrite \/ RefineEnds
             \/ PublishLoad \/ Gate \/ PublishWrite \/ AdminPublish
    <2>1. UNCHANGED jobVars
      BY <1>2 DEF Edit, Result, AskImage, PutImage, ImageFails, RefineStart, RefineWrite, RefineEnds,
                  PublishLoad, Gate, PublishWrite, AdminPublish
    <2> QED
      BY <2>1, OthersAlone DEF jobVars
  <1>3. CASE Carry
    <2>1. judge' = judge
      BY <1>3 DEF Carry
    <2>2. CASE rows' = rows
      BY <2>1, <2>2, OthersAlone
    <2>3. CASE rows' # rows
      <3>1. PICK r : AddRow(r)
        BY <1>3, <2>3 DEF Carry
      <3> QED
        BY <2>1, <3>1, AddedAlone DEF IInv
    <2> QED
      BY <2>2, <2>3
  <1>4. ASSUME NEW g \in 1..gens, Enqueue(g)
        PROVE  Alone' /\ FinalStep
    <2>1. PICK r : AddRow(r)
      BY <1>4 DEF Enqueue
    <2>2. \A j \in Judges : judge'[j].row = judge[j].row
      BY <1>4 DEF Enqueue, IInv, JudgesSound
    <2> QED
      BY <2>1, <2>2, AddedAlone DEF IInv
  <1>5. ASSUME NEW j \in Judges, RunJob(j)
        PROVE  Alone' /\ FinalStep
    BY <1>5, RunJobAlone
  <1>6. ASSUME NEW j \in Judges, Verdict(j) \/ JudgeFails(j) \/ Die(j)
        PROVE  Alone' /\ FinalStep
    BY <1>6, JudgesEndAlone
  <1>7. ASSUME NEW s \in Sweepers, NEW dead \in SUBSET DOMAIN rows, Sweep(s, dead)
        PROVE  Alone' /\ FinalStep
    BY <1>7, SweepAlone
  <1>8. CASE Waive
    <2>1. PICK i : Restates(i, "waived")
      BY <1>8 DEF Waive, Restates
    <2>2. judge' = judge
      BY <1>8 DEF Waive
    <2> QED
      BY <2>1, <2>2, RestatedAlone DEF IInv
  <1> QED
    BY <1>1, <1>2, <1>3, <1>4, <1>5, <1>6, <1>7, <1>8 DEF Next

\* Nobody judges anything at first.
LEMMA AloneInit == Init => Alone
  BY DEF Init, Idle, Alone, JudgedOnce, JudgedRuns

\* The strengthening holds of every state, beside the invariant it rests on.
LEMMA AloneAlways == Spec => [](IInv /\ Alone)
  <1>1. Init => IInv /\ Alone
    BY InitInv, AloneInit
  <1>2. (IInv /\ Alone) /\ [Next]_vars => (IInv /\ Alone)'
    BY StepInv, AloneStep
  <1> QED
    BY <1>1, <1>2, PTL DEF Spec

\* If judges keep to their thirty minutes, no two coroutines, the sweeps of several processes and the
\* one launched with a job, judge the same row at a time (world_quality_scorer.py 74-110).
THEOREM JudgedByOne == Spec => []OneJudge
  <1>1. Alone => OneJudge
    BY DEF Alone, JudgedOnce, OneJudge
  <1> QED
    BY <1>1, AloneAlways, PTL

\* Under the same condition no step replaces a verdict once it is written, unless by a waiver: neither
\* a sweep, nor a judge that was given up, nor a second run (world_quality_scorer.py 139-195).
THEOREM VerdictsStay == Spec => VerdictIsFinal
  <1>1. (IInv /\ Alone) /\ [Next]_vars => [FinalStep]_vars
    BY AloneStep
  <1> QED
    BY <1>1, AloneAlways, PTL DEF Spec, VerdictIsFinal, FinalStep

-----------------------------------------------------------------------------
(* The pictures of the draft (Pictures): requests that paint, upload and   *)
(* write for seconds beside each other, with copies of the payload they    *)
(* have read before.                                                       *)

CONSTANTS None, Gateway, Old, Requests, Targets, Absent, Attempts, Uploads, Cap

VARIABLES gallery, req, stored

Pics == INSTANCE Pictures WITH draft <- gallery

Addresses == {Old, Gateway} \cup Requests
Uploaded == [by : Requests, n : Nat]
Req == [at : {"none", "paint", "fetch", "upload", "put", "painted", "bringing", "putting", "given", "done", "failed"},
        target : Targets \cup {None}, base : [Targets -> Addresses] \cup {None}, tiers : Nat, tier : Nat,
        attempt : Nat, tries : Nat, url : Addresses \cup {None}]

\* Keys are told from the addresses that are not in our storage, and a picture from none.
Storage == Old \notin Requests /\ Gateway \notin Requests /\ None \notin Uploaded

\* An address that may be shown: what is under a key is the last picture made for it, and stays.
Over == {"painted", "given", "done"}
Lasting(u) ==
    \/ u \in {Old, Gateway}
    \/ u \in Requests /\ req[u].at \in Over /\ stored[u] # None /\ stored[u].n = req[u].attempt

\* The copy a request has read shows only such addresses, and so does the one it will write.
Sensible(q) ==
    /\ q \in Req
    /\ q.at \in {"paint", "fetch", "upload", "put", "painted"} =>
          q.target \in Targets /\ q.base \in [Targets -> Addresses] /\ \A t \in Targets : Lasting(q.base[t])
    /\ q.at \in {"bringing", "putting", "given"} => q.target \in Targets
    /\ q.at \in {"painted", "given"} => q.url \in Addresses /\ Lasting(q.url)

PicsInv ==
    /\ gallery \in [Targets -> Addresses] /\ \A t \in Targets : Lasting(gallery[t])
    /\ stored \in [Requests -> Uploaded \cup {None}]
    /\ DOMAIN req = Requests /\ \A r \in Requests : Sensible(req[r])

LEMMA PicsInit == Storage /\ Pics!Init => PicsInv
BY DEF Storage, Pics!Init, Pics!Fresh, PicsInv, Addresses, Req, Lasting, Sensible

\* What a request does before it is over changes no address that lasts.
LEMMA LastingLasts ==
  ASSUME Storage, PicsInv, NEW r \in Requests, NEW new, req' = [req EXCEPT ![r] = new],
         \A s \in Requests \ {r} : stored'[s] = stored[s],
         req[r].at \notin Over \/ (new.at \in Over /\ new.attempt = req[r].attempt /\ stored'[r] = stored[r]),
         NEW u, Lasting(u)
  PROVE  Lasting(u)'
BY DEF Storage, PicsInv, Lasting

LEMMA RequestMoves ==
  ASSUME Storage, PicsInv, NEW r \in Requests, NEW new, req' = [req EXCEPT ![r] = new],
         \A u : Lasting(u) => Lasting(u)',
         stored' \in [Requests -> Uploaded \cup {None}],
         gallery' \in [Targets -> Addresses], (\A t \in Targets : Lasting(gallery[t]))',
         Sensible(new)'
  PROVE  PicsInv'
<1>1. ASSUME NEW s \in Requests PROVE Sensible(req[s])'
  <2>1. CASE s = r
    BY <2>1 DEF PicsInv
  <2>2. CASE s # r
    <3>1. req'[s] = req[s] /\ Sensible(req[s])
      BY <2>2 DEF PicsInv
    <3> QED
      BY <3>1 DEF Sensible
  <2> QED
    BY <2>1, <2>2
<1> QED
  BY <1>1 DEF PicsInv

\* A request that is not over moves to a place where it shows nothing new.
LEMMA RequestGoesOn ==
  ASSUME Storage, PicsInv, NEW r \in Requests, NEW new, req' = [req EXCEPT ![r] = new], UNCHANGED <<gallery, stored>>,
         req[r].at \notin Over, Sensible(new)
  PROVE  PicsInv'
<1>1. \A u : Lasting(u) => Lasting(u)'
  BY LastingLasts
<1>2. Sensible(new)'
  BY <1>1 DEF Sensible
<1>3. gallery' \in [Targets -> Addresses] /\ (\A t \in Targets : Lasting(gallery[t]))'
  BY <1>1 DEF PicsInv
<1> QED
  BY <1>1, <1>2, <1>3, RequestMoves DEF PicsInv

\* Whatever the generator answers, the request asks again, uploads, fails or shows the gateway's.
LEMMA PaintsSensibly ==
  ASSUME Storage, PicsInv, NEW r \in Requests, req[r].at \in {"paint", "fetch", "put"}
  PROVE  /\ \A k \in Nat : Sensible(Pics!Again(r, k))
         /\ Sensible(Pics!Fail(r)) /\ Sensible(Pics!Busy(r)) /\ Sensible(Pics!GivenUp(r)) /\ Sensible(Pics!Empty(r))
         /\ Sensible(Pics!Policy(r)) /\ Sensible(Pics!Give(r, Gateway))
         /\ Sensible([req[r] EXCEPT !.at = "upload", !.tries = 1]) /\ Sensible([req[r] EXCEPT !.at = "fetch"])
<1>1. Sensible(req[r]) /\ req[r].tier \in Nat /\ req[r].tier + 1 \in Nat
      /\ req[r].attempt + 1 \in Nat /\ req[r] \in Req
  BY DEF PicsInv, Sensible, Req
<1>2. Sensible(Pics!Fail(r))
  BY <1>1 DEF Pics!Fail, Sensible, Req
<1>3. ASSUME NEW k \in Nat PROVE Sensible(Pics!Again(r, k))
  <2> DEFINE q == [req[r] EXCEPT !.at = "paint", !.tier = k, !.attempt = @ + 1]
  <2>1. q \in Req /\ q.at = "paint" /\ q.target = req[r].target /\ q.base = req[r].base
    BY <1>1 DEF Req
  <2>2. Sensible(q)
    <3> HIDE DEF q
    <3> QED
      BY <1>1, <2>1 DEF Sensible
  <2>3. Pics!Again(r, k) = q \/ Pics!Again(r, k) = Pics!Fail(r)
    BY DEF Pics!Again, Pics!Fail
  <2> HIDE DEF q
  <2> QED
    BY <1>2, <2>2, <2>3
<1>4. Sensible(Pics!Give(r, Gateway))
  BY <1>1 DEF Pics!Give, Sensible, Req, Lasting, Addresses
<1>5. Sensible([req[r] EXCEPT !.at = "upload", !.tries = 1]) /\ Sensible([req[r] EXCEPT !.at = "fetch"])
  BY <1>1 DEF Sensible, Req
<1> QED
  BY <1>1, <1>2, <1>3, <1>4, <1>5 DEF Pics!Busy, Pics!GivenUp, Pics!Empty, Pics!Policy, Pics!NextTier
\* What a request is given it shows, and what is under its key has arrived in this very step.
LEMMA UploadKeeps ==
  ASSUME Storage, PicsInv, NEW r \in Requests, NEW outcome, NEW arrived \in BOOLEAN,
         Pics!Upload(r, outcome, arrived)
  PROVE  PicsInv'
<1> PICK new : new = Pics!Put(r, outcome)
  OBVIOUS
<1>1. /\ req' = [req EXCEPT ![r] = new] /\ gallery' = gallery /\ req[r].at \in {"put", "putting"}
      /\ stored' = [stored EXCEPT ![r] = IF arrived THEN [by |-> r, n |-> req[r].attempt] ELSE stored[r]]
      /\ outcome = "ok" => arrived
  BY DEF Pics!Upload, Pics!Become, Pics!Uploading
<1>2. Sensible(req[r]) /\ req[r].attempt \in Nat
  BY DEF PicsInv, Sensible, Req
<1>3. stored' \in [Requests -> Uploaded \cup {None}]
  BY <1>1, <1>2 DEF PicsInv, Uploaded
<1>4. req[r].at \notin Over
  BY <1>1 DEF Over
<1>5. \A u : Lasting(u) => Lasting(u)'
  BY <1>1, <1>4, LastingLasts DEF PicsInv
<1>6. CASE new = Pics!Delivered(r) /\ outcome = "ok"
  <2>1. /\ new \in Req /\ new.at \in {"painted", "given"} /\ new.url = r /\ new.attempt = req[r].attempt
        /\ new.target = req[r].target /\ new.base = req[r].base /\ (new.at = "painted" <=> req[r].at = "put")
    BY <1>1, <1>2, <1>6 DEF Pics!Delivered, Pics!Give, Pics!Brought, Sensible, Req, Addresses
  <2>2. req'[r] = new /\ stored'[r] = [by |-> r, n |-> req[r].attempt]
    BY <1>1, <1>6 DEF PicsInv
  <2>3. [by |-> r, n |-> req[r].attempt] \in Uploaded
    BY <1>2 DEF Uploaded
  <2>4. Lasting(r)'
    BY <2>1, <2>2, <2>3 DEF Lasting, Over, Storage
  <2>5. Sensible(new)'
    BY <1>1, <1>2, <1>5, <2>1, <2>4 DEF Sensible, Addresses
  <2> QED
    BY <1>1, <1>3, <1>5, <2>5, RequestMoves DEF PicsInv
<1>7. CASE new \in {[req[r] EXCEPT !.tries = @ + 1], Pics!Fail(r)} \/ (new = Pics!Busy(r) /\ req[r].at = "put")
  <2>1. Sensible([req[r] EXCEPT !.tries = @ + 1]) /\ Sensible(Pics!Fail(r))
    BY <1>2 DEF Sensible, Req, Pics!Fail
  <2>2. Sensible(new)
    BY <1>7, <2>1, PaintsSensibly
  <2>3. Sensible(new)'
    BY <1>5, <2>2 DEF Sensible
  <2> QED
    BY <1>1, <1>3, <1>5, <2>3, RequestMoves DEF PicsInv
<1> QED
  <2>1. \/ new = Pics!Delivered(r) /\ outcome = "ok"
        \/ new \in {[req[r] EXCEPT !.tries = @ + 1], Pics!Fail(r)}
        \/ new = Pics!Busy(r) /\ ~Pics!Brought(r)
    BY DEF Pics!Put
  <2> QED
    BY <1>1, <1>6, <1>7, <2>1 DEF Pics!Brought

\* The copy that was read shows what lasts, and so does the address that is put into it.
LEMMA WriteKeeps ==
  ASSUME Storage, PicsInv, NEW r \in Requests, Pics!Persist(r) \/ Pics!Place(r)
  PROVE  PicsInv'
<1> PICK new : new = [req[r] EXCEPT !.at = "done"]
  OBVIOUS
<1>1. req' = [req EXCEPT ![r] = new] /\ stored' = stored /\ req[r].at \in {"painted", "given"}
  BY DEF Pics!Persist, Pics!Place, Pics!Become
<1>2. Sensible(req[r])
  BY DEF PicsInv
<1>3. new \in Req /\ new.at = "done" /\ new.attempt = req[r].attempt
  BY <1>2 DEF Sensible, Req
<1>4. \A u : Lasting(u) => Lasting(u)'
  BY <1>1, <1>3, LastingLasts DEF Over
<1>5. Sensible(new)'
  BY <1>3 DEF Sensible
<1>6. gallery' \in [Targets -> Addresses] /\ \A t \in Targets : Lasting(gallery'[t])
  <2>1. req[r].target \in Targets /\ req[r].url \in Addresses /\ Lasting(req[r].url)
    BY <1>1, <1>2 DEF Sensible
  <2>2. CASE Pics!Persist(r)
    <3>1. gallery' = [req[r].base EXCEPT ![req[r].target] = req[r].url] /\ req[r].at = "painted"
      BY <2>2 DEF Pics!Persist
    <3>2. req[r].base \in [Targets -> Addresses] /\ \A t \in Targets : Lasting(req[r].base[t])
      BY <1>2, <3>1 DEF Sensible
    <3> QED
      BY <2>1, <3>1, <3>2
  <2>3. CASE Pics!Place(r)
    <3>1. gallery' = [gallery EXCEPT ![req[r].target] = req[r].url]
      BY <2>3 DEF Pics!Place
    <3> QED
      BY <2>1, <3>1 DEF PicsInv
  <2> QED
    BY <2>2, <2>3
<1>7. (\A t \in Targets : Lasting(gallery[t]))'
  BY <1>4, <1>6
<1> QED
  BY <1>1, <1>4, <1>5, <1>6, <1>7, RequestMoves DEF PicsInv

LEMMA BeginKeeps ==
  ASSUME Storage, PicsInv, NEW r \in Requests, NEW target,
         \/ \E tiers \in 1..2 : Pics!Regenerate(r, target, tiers)
         \/ target \in Targets /\ \E fits \in BOOLEAN : Pics!Bring(r, target, fits)
  PROVE  PicsInv'
<1>1. ASSUME NEW tiers \in 1..2, target \in Targets
      PROVE  Sensible([Pics!Fresh EXCEPT !.at = "paint", !.target = target, !.base = gallery, !.tiers = tiers, !.tier = 1, !.attempt = 1])
  <2> DEFINE q == [Pics!Fresh EXCEPT !.at = "paint", !.target = target, !.base = gallery, !.tiers = tiers, !.tier = 1, !.attempt = 1]
  <2>1. q.at = "paint" /\ q.target = target /\ q.base = gallery /\ gallery \in [Targets -> Addresses]
    BY DEF Pics!Fresh, PicsInv
  <2>2. q \in Req
    <3> DEFINE f == [Pics!Fresh EXCEPT !.at = "paint", !.target = target, !.base = gallery]
    <3>1. target \in Targets \cup {None} /\ gallery \in [Targets -> Addresses] \cup {None} /\ tiers \in Nat
      BY <1>1, <2>1
    <3>2. f \in Req
      BY <3>1 DEF Pics!Fresh, Req
    <3>3. q = [f EXCEPT !.tiers = tiers, !.tier = 1, !.attempt = 1]
      OBVIOUS
    <3> HIDE DEF f, q
    <3> QED
      BY <3>1, <3>2, <3>3 DEF Req
  <2> HIDE DEF q
  <2>3. Sensible(q)
    BY <1>1, <2>1, <2>2 DEF Sensible, PicsInv
  <2> QED
    BY <2>3 DEF q
<1>2. Sensible([Pics!Fresh EXCEPT !.at = "failed"])
      /\ (target \in Targets => Sensible([Pics!Fresh EXCEPT !.at = "bringing", !.target = target, !.tries = 1]))
  BY DEF Pics!Fresh, Sensible, Req
<1>3. req[r].at \notin Over
  BY DEF Pics!Regenerate, Pics!Bring, Over
<1>4. UNCHANGED <<gallery, stored>> /\ \E new : Sensible(new) /\ req' = [req EXCEPT ![r] = new]
  BY <1>1, <1>2 DEF Pics!Regenerate, Pics!Bring, Pics!Become
<1> QED
  BY <1>3, <1>4, RequestGoesOn

LEMMA PaintKeeps ==
  ASSUME Storage, PicsInv, NEW r \in Requests,
         \/ \E answer \in Pics!Answers : Pics!Paint(r, answer)
         \/ \E outcome \in {"ok", "busy", "refused"} : Pics!Fetch(r, outcome)
         \/ Pics!Queue(r)
  PROVE  PicsInv'
<1>1. UNCHANGED <<gallery, stored>> /\ req[r].at \notin Over
  BY DEF Pics!Paint, Pics!Fetch, Pics!Queue, Over
<1>2. CASE \E answer \in Pics!Answers : Pics!Paint(r, answer)
  <2>1. PICK answer \in Pics!Answers : req' = [req EXCEPT ![r] = Pics!Painted(r, answer)] /\ req[r].at = "paint"
    BY <1>2 DEF Pics!Paint, Pics!Become
  <2>2. Sensible(Pics!Painted(r, answer))
    BY <2>1, PaintsSensibly DEF Pics!Painted, Pics!Answers
  <2> QED
    BY <1>1, <2>1, <2>2, RequestGoesOn
<1>3. CASE \E outcome \in {"ok", "busy", "refused"} : Pics!Fetch(r, outcome)
  <2>1. req[r].at = "fetch" /\ \E new : Sensible(new) /\ req' = [req EXCEPT ![r] = new]
    BY <1>3, PaintsSensibly DEF Pics!Fetch, Pics!Become
  <2> QED
    BY <1>1, <2>1, RequestGoesOn
<1>4. CASE Pics!Queue(r)
  <2> DEFINE new == [req[r] EXCEPT !.at = IF @ = "upload" THEN "put" ELSE "putting"]
  <2>1. req' = [req EXCEPT ![r] = new] /\ req[r].at \in {"upload", "bringing"}
    BY <1>4 DEF Pics!Queue, Pics!Become
  <2>2. Sensible(new)
    BY <2>1 DEF PicsInv, Sensible, Req
  <2> HIDE DEF new
  <2> QED
    BY <1>1, <2>1, <2>2, RequestGoesOn
<1> QED
  BY <1>2, <1>3, <1>4

LEMMA PicsStep == Storage /\ PicsInv /\ [Pics!Next]_(Pics!vars) => PicsInv'
<1> SUFFICES ASSUME Storage, PicsInv, [Pics!Next]_(Pics!vars) PROVE PicsInv'
  OBVIOUS
<1>1. CASE UNCHANGED Pics!vars
  BY <1>1 DEF Pics!vars, PicsInv, Lasting, Sensible
<1>2. CASE Pics!Next
  BY <1>2, BeginKeeps, PaintKeeps, UploadKeeps, WriteKeeps DEF Pics!Next
<1> QED
  BY <1>1, <1>2

LEMMA PicsAlways == ASSUME Storage PROVE Pics!Spec => []PicsInv
  BY PicsInit, PicsStep, PTL DEF Pics!Spec

\* image_storage.py, image_regeneration.py: whatever fails, is lost or is tried again, and
\* whichever copy of the payload is written last, an address in a draft is one it had, the
\* gateway's, or that of a picture that has arrived.
THEOREM PicturesArrived == ASSUME Storage PROVE Pics!Spec => []Pics!PictureIsThere
<1>1. PicsInv => Pics!PictureIsThere
  BY DEF PicsInv, Lasting, Pics!PictureIsThere
<1> QED
  BY <1>1, PicsAlways, PTL

\* world_creator_agent_v2.py _generate_image_with_fallback: under a key that a draft shows is
\* the picture that was painted last for it, although lost uploads are repeated.
THEOREM LatestPicture == ASSUME Storage PROVE Pics!Spec => []Pics!LatestIsShown
<1>1. Storage /\ PicsInv => Pics!LatestIsShown
  BY DEF Storage, PicsInv, Lasting, Pics!LatestIsShown
<1> QED
  BY <1>1, PicsAlways, PTL

-----------------------------------------------------------------------------
(* How judges come to one verdict (QualityVote).  The scale of scores and  *)
(* the number of judges do not matter: the lower middle is low unless more *)
(* than half of those who gave a score did not find it low, and what a     *)
(* single judge confirms it had no doubt of.                               *)

CONSTANTS Scores, Codes, Blocking, Risky

VARIABLES contract, asked, verdict

Panel == INSTANCE QualityVote

Scale == Scores \subseteq Nat /\ Blocking \in Nat

\* What a judge may have answered once the contract was held against it.
HeldAnswers == {Panel!Held(a) : a \in Panel!Answers \union {None}}

\* A second judge is asked because of the first; a verdict is that of all who were asked.
PanelInv ==
    /\ asked \in Seq(HeldAnswers)
    /\ Len(asked) > 1 => Panel!Borderline(asked[1])
    /\ verdict # None =>
          /\ verdict.flags = IF Panel!Runs = {} THEN {"unavailable"} ELSE Panel!Flags
          /\ verdict.confirmed = Panel!Confirmed

LEMMA HeldScore ==
  ASSUME NEW a \in HeldAnswers, a # None
  PROVE  a.score \in Scores \union {None}
<1>1. PICK b \in Panel!Answers \union {None} : a = Panel!Held(b)
  BY DEF HeldAnswers
<1>2. CASE b = None
  BY <1>1, <1>2 DEF Panel!Held
<1>3. CASE b \in Panel!Answers /\ b # None
  <2>1. b.score \in Scores \union {None} /\ DOMAIN b = {"score", "tension", "says"}
    BY <1>3 DEF Panel!Answers
  <2>2. \A f : [b EXCEPT !.says = f].score = b.score
    BY <2>1
  <2>3. a = b \/ \E f : a = [b EXCEPT !.says = f]
    BY <1>1, <1>3 DEF Panel!Held
  <2> QED
    BY <2>1, <2>2, <2>3
<1> QED
  BY <1>2, <1>3

LEMMA PanelInit == Panel!Init => PanelInv
<1> SUFFICES ASSUME Panel!Init PROVE PanelInv
  OBVIOUS
<1>1. <<>> \in Seq(HeldAnswers) /\ Len(<<>>) = 0
  OBVIOUS
<1> QED
  BY <1>1 DEF Panel!Init, PanelInv

LEMMA AskKeeps ==
  ASSUME PanelInv, NEW a \in Panel!Answers \union {None}, Panel!Ask(a)
  PROVE  PanelInv'
<1>1. HeldAnswers' = HeldAnswers /\ Panel!Held(a) \in HeldAnswers
  BY DEF Panel!Ask, HeldAnswers, Panel!Held
<1>2. asked \in Seq(HeldAnswers) /\ asked' = Append(asked, Panel!Held(a)) /\ verdict' = None
  BY DEF PanelInv, Panel!Ask
<1>3. asked' \in Seq(HeldAnswers) /\ Len(asked') = Len(asked) + 1
      /\ Len(asked) \in Nat /\ (Len(asked) > 0 => asked'[1] = asked[1])
  BY <1>1, <1>2, AppendProperties
<1>4. ASSUME Len(asked') > 1 PROVE Panel!Borderline(asked'[1])
  <2>1. CASE Len(asked) = 1
    <3>1. Panel!Borderline(asked[1])
      BY <2>1 DEF Panel!Ask, Panel!Enough
    <3> QED
      BY <1>3, <2>1, <3>1
  <2>2. CASE Len(asked) > 1
    BY <1>3, <2>2 DEF PanelInv
  <2> QED
    <3>1. \A n \in Nat : n + 1 > 1 => n = 1 \/ n > 1
      OBVIOUS
    <3>2. Len(asked) = 1 \/ Len(asked) > 1
      BY <1>3, <1>4, <3>1
    <3> QED
      BY <2>1, <2>2, <3>2
<1>5. (Panel!Borderline(asked[1]))' <=> Panel!Borderline(asked'[1])
  BY DEF Panel!Borderline, Panel!Majors
<1> QED
  BY <1>1, <1>2, <1>3, <1>4, <1>5 DEF PanelInv

\* What is asked no more is counted as before.
LEMMA StillHeld ==
  ASSUME contract' = contract, asked' = asked
  PROVE  /\ HeldAnswers' = HeldAnswers /\ (Panel!Borderline(asked[1]))' = Panel!Borderline(asked[1])
         /\ Panel!Runs' = Panel!Runs /\ Panel!Flags' = Panel!Flags /\ Panel!Confirmed' = Panel!Confirmed
<1>1. HeldAnswers' = HeldAnswers
  BY DEF HeldAnswers, Panel!Held
<1>2. (Panel!Borderline(asked[1]))' = Panel!Borderline(asked[1])
  BY DEF Panel!Borderline, Panel!Majors
<1>3. Panel!Runs' = Panel!Runs /\ Panel!Flags' = Panel!Flags /\ Panel!Confirmed' = Panel!Confirmed
  BY DEF Panel!Runs, Panel!Flags, Panel!Confirmed, Panel!Numbers, Panel!Median, Panel!AtMost, Panel!Scored,
     Panel!Named, Panel!Major, Panel!Votes, Panel!Naming, Panel!Borderline
<1> QED
  BY <1>1, <1>2, <1>3

LEMMA DecideKeeps ==
  ASSUME PanelInv, Panel!Decide
  PROVE  PanelInv'
<1>1. contract' = contract /\ asked' = asked
  BY DEF Panel!Decide
<1>2. /\ verdict'.flags = IF Panel!Runs = {} THEN {"unavailable"} ELSE Panel!Flags
      /\ verdict'.confirmed = Panel!Confirmed
  BY DEF Panel!Decide
<1> QED
  BY <1>1, <1>2, StillHeld DEF PanelInv

LEMMA PanelStep == PanelInv /\ [Panel!Next]_(Panel!vars) => PanelInv'
<1> SUFFICES ASSUME PanelInv, [Panel!Next]_(Panel!vars) PROVE PanelInv'
  OBVIOUS
<1>1. CASE UNCHANGED Panel!vars
  BY <1>1, StillHeld DEF Panel!vars, PanelInv
<1>2. CASE Panel!Next
  BY <1>2, AskKeeps, DecideKeeps DEF Panel!Next
<1> QED
  BY <1>1, <1>2

-----------------------------------------------------------------------------
\* A set of numbers has a least one, and, if it is bounded, a largest one.
LEMMA LeastThere ==
  ASSUME NEW S, S \subseteq Nat, S # {}
  PROVE  Panel!Min(S) \in S /\ \A x \in S : Panel!Min(S) <= x
<1>1. PICK n \in S : \A k \in S : ~(<<k, n>> \in OpToRel(<, Nat))
  BY WFMin, NatLessThanWellFounded
<1>2. \A k \in S : ~(k < n)
  BY <1>1 DEF OpToRel
<1>3. n \in Nat /\ \A k \in S : k \in Nat
  OBVIOUS
<1>4. \A k \in S : n <= k
  BY <1>2, <1>3
<1> QED
  BY <1>4 DEF Panel!Min

LEMMA LargestBelow ==
  ASSUME NEW S, S \subseteq Nat, S # {}, NEW b \in Nat, \A x \in S : x <= b
  PROVE  \E n \in S : \A x \in S : x <= n
<1> DEFINE T == {b - x : x \in S}
<1>1. \A x \in S : b - x \in Nat
  OBVIOUS
<1>2. T \subseteq Nat /\ T # {}
  BY <1>1
<1>3. Panel!Min(T) \in T /\ \A t \in T : Panel!Min(T) <= t
  <2> HIDE DEF T
  <2> QED
    BY <1>2, LeastThere
<1>4. PICK n \in S : Panel!Min(T) = b - n
  BY <1>3
<1>5. ASSUME NEW x \in S PROVE x <= n
  <2>1. b - n <= b - x
    BY <1>3, <1>4
  <2> QED
    BY <2>1
<1> QED
  BY <1>5

\* Those who gave a score are finitely many.
LEMMA ScoredFinite ==
  ASSUME Scale, PanelInv
  PROVE  /\ IsFiniteSet(Panel!Runs) /\ IsFiniteSet(Panel!Scored)
         /\ Panel!Runs \subseteq 1..Len(asked)
         /\ \A k \in Panel!Scored : asked[k].score \in Nat
<1>1. asked \in Seq(HeldAnswers) /\ Len(asked) \in Nat /\ DOMAIN asked = 1..Len(asked)
  BY DEF PanelInv
<1>2. IsFiniteSet(1..Len(asked))
  BY <1>1, FS_Interval
<1>3. Panel!Runs \subseteq 1..Len(asked) /\ Panel!Scored \subseteq 1..Len(asked)
  BY <1>1 DEF Panel!Runs, Panel!Scored
<1>4. ASSUME NEW k \in Panel!Scored PROVE asked[k].score \in Nat
  <2>1. asked[k] \in HeldAnswers /\ asked[k] # None /\ asked[k].score # None
    BY <1>1 DEF Panel!Scored, Panel!Runs
  <2>2. asked[k].score \in Scores
    BY <2>1, HeldScore
  <2> QED
    BY <2>2 DEF Scale
<1> QED
  BY <1>2, <1>3, <1>4, FS_Subset

\* The panel counts as the lemmas on finite sets do.
LEMMA CountIsCount ==
  ASSUME NEW S
  PROVE  Panel!Cardinality(S) = Cardinality(S)
BY DEF Panel!Cardinality, Cardinality

LEMMA OutvotedInv == Scale /\ PanelInv => Panel!LowIsOutvoted
<1> SUFFICES ASSUME Scale, PanelInv, verdict # None, verdict.flags = {}, Panel!Low # {}
             PROVE  Cardinality(Panel!Low) < Cardinality(Panel!Fine)
  BY CountIsCount DEF Panel!LowIsOutvoted
<1>1. IsFiniteSet(Panel!Scored) /\ \A k \in Panel!Scored : asked[k].score \in Nat
  BY ScoredFinite
<1>2. Panel!Low \subseteq Panel!Scored /\ Panel!Fine = Panel!Scored \ Panel!Low /\ Panel!Scored \subseteq Panel!Runs
  BY DEF Panel!Low, Panel!Fine, Panel!Scored
<1>3. Panel!Numbers # {} /\ Panel!Flags = {}
  BY <1>2 DEF PanelInv, Panel!Numbers
<1>4. ~(Panel!Median <= Blocking)
  BY <1>3 DEF Panel!Flags
<1> DEFINE L == {asked[k].score : k \in Panel!Low}
<1>5. PICK b \in L : \A x \in L : x <= b
  <2>1. L \subseteq Nat /\ L # {} /\ \A x \in L : x <= Blocking
    BY <1>1, <1>2 DEF Panel!Low
  <2> HIDE DEF L
  <2> QED
    BY <2>1, LargestBelow DEF Scale
<1>6. b \in Nat /\ b <= Blocking /\ b \in Panel!Numbers
  BY <1>1, <1>2 DEF Panel!Low, Panel!Numbers
<1>7. {k \in Panel!Scored : asked[k].score <= b} = Panel!Low
  BY <1>1, <1>5, <1>6 DEF Panel!Low, Scale
<1>8. Panel!AtMost(b) = Cardinality(Panel!Low)
  BY <1>7, CountIsCount DEF Panel!AtMost
<1> DEFINE H == {v \in Panel!Numbers : 2 * Panel!AtMost(v) >= Cardinality(Panel!Scored)}
<1>9. ~(2 * Cardinality(Panel!Low) >= Cardinality(Panel!Scored))
  <2> SUFFICES ASSUME 2 * Cardinality(Panel!Low) >= Cardinality(Panel!Scored) PROVE FALSE
    OBVIOUS
  <2>1. b \in H
    BY <1>6, <1>8
  <2>2. H \subseteq Nat
    BY <1>1 DEF Panel!Numbers
  <2>3. Panel!Median = Panel!Min(H)
    BY CountIsCount DEF Panel!Median
  <2>4. Panel!Min(H) \in Nat /\ Panel!Min(H) <= b
    <3> HIDE DEF H
    <3> QED
      BY <2>1, <2>2, LeastThere
  <2> QED
    BY <1>4, <1>6, <2>3, <2>4 DEF Scale
<1>10. /\ Cardinality(Panel!Low) \in Nat /\ Cardinality(Panel!Scored) \in Nat /\ Cardinality(Panel!Fine) \in Nat
       /\ Cardinality(Panel!Fine) = Cardinality(Panel!Scored) - Cardinality(Panel!Low)
  <2>1. IsFiniteSet(Panel!Low) /\ IsFiniteSet(Panel!Fine)
    BY <1>1, <1>2, FS_Subset
  <2>2. Panel!Scored \intersect Panel!Low = Panel!Low
    BY <1>2
  <2> QED
    BY <1>1, <1>2, <2>1, <2>2, FS_Difference, FS_CardinalityType
<1> QED
  BY <1>9, <1>10

LEMMA SecondedInv == Scale /\ PanelInv => Panel!NobodySecondsItself
<1> SUFFICES ASSUME Scale, PanelInv, verdict # None, NEW c \in Panel!Confirmed
             PROVE  \/ \E j, k \in Panel!Runs : j # k /\ c \in {v.code : v \in Panel!ToSet(asked[j].says)}
                                                     /\ c \in {v.code : v \in Panel!ToSet(asked[k].says)}
                    \/ Len(asked) = 1 /\ ~Panel!Major(c)
  BY DEF PanelInv, Panel!NobodySecondsItself
<1>1. \A k \in Panel!Naming(c) : k \in Panel!Runs /\ c \in {v.code : v \in Panel!ToSet(asked[k].says)}
  BY DEF Panel!Naming, Panel!Firsts, Panel!ToSet
<1>2. IsFiniteSet(Panel!Naming(c)) /\ Cardinality(Panel!Naming(c)) \in Nat
  <2>1. Panel!Naming(c) \subseteq Panel!Runs /\ IsFiniteSet(Panel!Runs)
    BY ScoredFinite DEF Panel!Naming
  <2> QED
    BY <2>1, FS_Subset, FS_CardinalityType
<1>3. CASE Panel!Votes(c) >= 2
  <2>1. Panel!Naming(c) # {}
    BY <1>3, FS_EmptySet, CountIsCount DEF Panel!Votes
  <2>2. PICK j : j \in Panel!Naming(c)
    BY <2>1
  <2>3. Panel!Naming(c) # {j}
    BY <1>3, FS_Singleton, CountIsCount DEF Panel!Votes
  <2>4. PICK k \in Panel!Naming(c) : k # j
    BY <2>2, <2>3
  <2> QED
    BY <1>1, <2>2, <2>4
<1>4. CASE ~Panel!Borderline(asked[1])
  <2>1. Len(asked) \in Nat /\ Len(asked) <= 1 /\ Panel!Runs \subseteq 1..Len(asked)
    BY <1>4, ScoredFinite DEF PanelInv
  <2>2. PICK k \in Panel!Runs : \E v \in Panel!Firsts(asked[k]) : v.code = c
    BY DEF Panel!Confirmed, Panel!Named
  <2>3. Panel!Runs = {1} /\ Len(asked) = 1
    <3>1. k \in Nat /\ 1 <= k /\ k <= Len(asked)
      BY <2>1, <2>2
    <3>2. \A n, i \in Nat : n <= 1 /\ 1 <= i /\ i <= n => n = 1
      OBVIOUS
    <3>3. Len(asked) = 1
      BY <2>1, <3>1, <3>2
    <3>4. \A i \in 1..Len(asked) : i = 1
      BY <3>3
    <3> QED
      BY <2>1, <2>2, <3>3, <3>4
  <2>4. ~Panel!Major(c)
    <3> SUFFICES ASSUME [code |-> c, major |-> TRUE] \in Panel!Firsts(asked[1]) PROVE FALSE
      BY <2>3 DEF Panel!Major
    <3>1. [code |-> c, major |-> TRUE] \in Panel!ToSet(asked[1].says)
      BY DEF Panel!Firsts, Panel!ToSet
    <3>2. c \in Panel!Majors(asked[1])
      BY <3>1 DEF Panel!Majors
    <3> QED
      BY <1>4, <3>2 DEF Panel!Borderline
  <2> QED
    BY <2>3, <2>4
<1> QED
  BY <1>3, <1>4 DEF Panel!Confirmed

\* world_critic_service.py score_world_soft, _median_int: whichever judges fail, give no score or
\* are asked second and third, a world passes a judge's low score only when more judges score it
\* fine than low.
THEOREM LowScoresAreOutvoted == ASSUME Scale PROVE Panel!Spec => []Panel!LowIsOutvoted
<1> QED
  BY PanelInit, PanelStep, OutvotedInv, PTL DEF Panel!Spec

\* world_critic_service.py _merge_quality_violations: what is confirmed was seen by two judges, or
\* by the only one, who had no doubt and did not call it major.
THEOREM ConfirmedByTwo == ASSUME Scale PROVE Panel!Spec => []Panel!NobodySecondsItself
<1> QED
  BY PanelInit, PanelStep, SecondedInv, PTL DEF Panel!Spec

(***************************************************************************)
(* A refinement of a draft, and taking it back (Refining).  The list of    *)
(* events that comes of an answer is made by recursion over its items: the *)
(* recursive functions exist, by induction over the length, and the ids of *)
(* what they make are followed item by item.                               *)
(***************************************************************************)
CONSTANTS Ids, Names, Stranger, Flags, Tries, Longest, MaxRuns, MaxEdits

VARIABLES manuscript, copy, job, changed, snapshot, runs, at

Refine == INSTANCE Refining WITH draft <- manuscript

\* The events a draft starts with are numbered, and an answer has a length.
Numbered == Longest \in Nat /\ \E n \in Nat : Ids = 1..n

Event == [id : Ids, text : Nat]
Whole(d) ==
    /\ d \in [events : Seq(Event), cast : [Names -> Nat], flags : {Flags}, told : SUBSET Codes, edits : Nat]
    /\ Refine!IdsOf(d.events) = Ids

\* The draft, its copy and its snapshot are whole; of a job that runs, the best answer is a list.
RefineInv ==
    /\ Whole(manuscript)
    /\ snapshot # None => Whole(snapshot)
    /\ at # "none" => Whole(copy)
    /\ runs \in Nat
    /\ DOMAIN job = Refine!Jobs
    /\ \A j \in Refine!Jobs : job[j].best # None => job[j].best \in Seq(Refine!Item(j))

\* Induction over the numbers, for a set of them.
LEMMA NumberInduction ==
  ASSUME NEW N, 0 \in N, \A n \in Nat : n \in N => n + 1 \in N
  PROVE  \A n \in Nat : n \in N
<1> DEFINE B == Nat \ N
<1>1. ASSUME B # {} PROVE FALSE
  <2>1. PICK n \in B : \A m \in B : <<m, n>> \notin OpToRel(<, Nat)
    BY <1>1, NatLessThanWellFounded, WFMin, B \subseteq Nat
  <2>2. \A m \in B : ~(m < n)
    BY <2>1 DEF OpToRel
  <2>3. n \in Nat /\ n # 0
    BY <2>1
  <2>4. n - 1 \in Nat /\ n - 1 < n /\ (n - 1) + 1 = n
    BY <2>3
  <2> QED
    BY <2>1, <2>2, <2>3, <2>4
<1> QED
  BY <1>1

\* The two recursions of _refine_events: the list so far, and what the k-th item makes of it.
Grown(kind, list, x, ids) ==
    IF kind = "named" THEN IF x.of \in ids THEN Append(list, x.of) ELSE list
    ELSE IF x.id \in Refine!IdsOf(list) THEN list ELSE Append(list, x)

Grows(f, kind, first, items, ids, n) ==
    f = [k \in 0..n |-> IF k = 0 THEN first ELSE Grown(kind, f[k - 1], items[k], ids)]

\* Such a function exists for lists of every length.
LEMMA GrowthExists ==
  ASSUME NEW kind, NEW first, NEW items, NEW ids
  PROVE  \A n \in Nat : \E f : Grows(f, kind, first, items, ids, n)
<1> DEFINE N == {n \in Nat : \E f : Grows(f, kind, first, items, ids, n)}
<1>1. 0 \in N
  <2>1. Grows([k \in 0..0 |-> first], kind, first, items, ids, 0)
    BY DEF Grows
  <2> QED
    BY <2>1
<1>2. ASSUME NEW n \in Nat, n \in N PROVE n + 1 \in N
  <2>1. PICK f : Grows(f, kind, first, items, ids, n)
    BY <1>2
  <2> DEFINE Step(g, k) == IF k = 0 THEN first ELSE Grown(kind, g[k - 1], items[k], ids)
             next == [k \in 0..(n + 1) |-> IF k \in 0..n THEN f[k] ELSE Step(f, k)]
  <2>2. f = [k \in 0..n |-> Step(f, k)]
    BY <2>1 DEF Grows
  <2>3. ASSUME NEW k \in 0..(n + 1) PROVE next[k] = Step(next, k)
    <3>1. CASE k = 0
      <4>1. next[0] = f[0] /\ f[0] = Step(f, 0)
        BY <2>2
      <4> QED
        BY <3>1, <4>1
    <3>2. CASE k # 0
      <4>1. k - 1 \in 0..n /\ k - 1 \in 0..(n + 1)
        BY <3>2
      <4>2. next[k - 1] = f[k - 1]
        BY <4>1
      <4>3. Step(next, k) = Step(f, k)
        BY <3>2, <4>2
      <4>4. k \in 0..n => f[k] = Step(f, k)
        <5> HIDE DEF Step
        <5> QED
          BY <2>2
      <4>5. next[k] = Step(f, k)
        <5> HIDE DEF Step
        <5> QED
          BY <4>4
      <4> QED
        BY <4>3, <4>5
    <3> QED
      BY <3>1, <3>2
  <2>4. next = [k \in 0..(n + 1) |-> Step(next, k)]
    <3> HIDE DEF Step
    <3> QED
      BY <2>3
  <2>5. Grows(next, kind, first, items, ids, n + 1)
    <3> HIDE DEF next
    <3> QED
      BY <2>4 DEF Grows
  <2> QED
    BY <2>5
<1> QED
  <2> HIDE DEF N
  <2>1. \A n \in Nat : n \in N
    BY <1>1, <1>2, NumberInduction
  <2> QED
    BY <2>1 DEF N

\* What the ids of a list are when one is added.
LEMMA IdsOfAdded ==
  ASSUME NEW list \in Seq(Event), NEW e \in Event
  PROVE  Refine!IdsOf(Append(list, e)) = Refine!IdsOf(list) \cup {e.id} /\ Append(list, e) \in Seq(Event)
<1>1. Append(list, e) \in Seq(Event) /\ Len(Append(list, e)) = Len(list) + 1
  OBVIOUS
<1>2. \A i \in 1..Len(list) : Append(list, e)[i] = list[i]
  OBVIOUS
<1>3. Append(list, e)[Len(list) + 1] = e
  OBVIOUS
<1>4. DOMAIN list = 1..Len(list) /\ DOMAIN Append(list, e) = 1..(Len(list) + 1) /\ Len(list) \in Nat
  OBVIOUS
<1>5. 1..(Len(list) + 1) = (1..Len(list)) \cup {Len(list) + 1}
  BY <1>4
<1> DEFINE longer == Append(list, e)
<1>6. {longer[i].id : i \in 1..(Len(list) + 1)} = {longer[i].id : i \in 1..Len(list)} \cup {longer[Len(list) + 1].id}
  BY <1>5
<1>7. {longer[i].id : i \in 1..Len(list)} = {list[i].id : i \in 1..Len(list)}
  BY <1>2
<1> QED
  BY <1>1, <1>3, <1>4, <1>6, <1>7 DEF Refine!IdsOf

\* What an answer names is a list of ids of events that are there.
LEMMA NamedAreThere ==
  ASSUME NEW S, NEW items \in Seq([of : S, new : BOOLEAN]), NEW events
  PROVE  Refine!Listed(items, events) \in Seq(Refine!IdsOf(events))
<1> DEFINE ids == Refine!IdsOf(events)
           n == Len(items)
           f == CHOOSE g : Grows(g, "named", << >>, items, ids, n)
           N == {k \in Nat : k =< n => f[k] \in Seq(ids)}
<1>1. n \in Nat
  OBVIOUS
<1>2. Grows(f, "named", << >>, items, ids, n)
  BY <1>1, GrowthExists
<1>3. Refine!Listed(items, events) = f[n]
  BY DEF Refine!Listed, Grows, Grown
<1> HIDE DEF f, ids
<1>4. \A k \in 0..n : f[k] = IF k = 0 THEN << >> ELSE Grown("named", f[k - 1], items[k], ids)
  BY <1>2 DEF Grows
<1>5. 0 \in N
  <2>1. f[0] = << >>
    BY <1>1, <1>4
  <2>2. << >> \in Seq(ids)
    OBVIOUS
  <2> QED
    BY <2>1, <2>2
<1>6. ASSUME NEW k \in Nat, k \in N PROVE k + 1 \in N
  <2> SUFFICES ASSUME k + 1 =< n PROVE f[k + 1] \in Seq(ids)
    OBVIOUS
  <2>1. f[k] \in Seq(ids)
    BY <1>1, <1>6
  <2>2. f[k + 1] = Grown("named", f[k], items[k + 1], ids)
    BY <1>1, <1>4
  <2> QED
    BY <2>1, <2>2 DEF Grown
<1>7. n \in N
  <2> HIDE DEF N
  <2> QED
    BY <1>1, <1>5, <1>6, NumberInduction
<1> QED
  BY <1>1, <1>3, <1>7 DEF ids

\* Completing a list adds the ids of the others.
LEMMA CompletedHasAll ==
  ASSUME NEW told \in Seq(Event), NEW events \in Seq(Event)
  PROVE  /\ Refine!Completed(told, events) \in Seq(Event)
         /\ Refine!IdsOf(Refine!Completed(told, events)) = Refine!IdsOf(told) \cup Refine!IdsOf(events)
<1> DEFINE n == Len(events)
           f == CHOOSE g : Grows(g, "whole", told, events, {}, n)
           Upto(k) == {events[i].id : i \in 1..k}
           N == {k \in Nat : k =< n => f[k] \in Seq(Event) /\ Refine!IdsOf(f[k]) = Refine!IdsOf(told) \cup Upto(k)}
<1>1. n \in Nat
  OBVIOUS
<1>2. Grows(f, "whole", told, events, {}, n)
  BY <1>1, GrowthExists
<1>3. Refine!Completed(told, events) = f[n]
  BY DEF Refine!Completed, Grows, Grown
<1> HIDE DEF f
<1>4. \A k \in 0..n : f[k] = IF k = 0 THEN told ELSE Grown("whole", f[k - 1], events[k], {})
  BY <1>2 DEF Grows
<1>5. 0 \in N
  <2>1. f[0] = told /\ Upto(0) = {}
    BY <1>1, <1>4
  <2> QED
    BY <2>1
<1>6. ASSUME NEW k \in Nat, k \in N PROVE k + 1 \in N
  <2> SUFFICES ASSUME k + 1 =< n
               PROVE  f[k + 1] \in Seq(Event) /\ Refine!IdsOf(f[k + 1]) = Refine!IdsOf(told) \cup Upto(k + 1)
    OBVIOUS
  <2>1. f[k] \in Seq(Event) /\ Refine!IdsOf(f[k]) = Refine!IdsOf(told) \cup Upto(k)
    BY <1>1, <1>6
  <2>2. f[k + 1] = Grown("whole", f[k], events[k + 1], {})
    BY <1>1, <1>4
  <2>3. Upto(k + 1) = Upto(k) \cup {events[k + 1].id}
    <3>1. 1..(k + 1) = (1..k) \cup {k + 1}
      OBVIOUS
    <3> QED
      BY <3>1
  <2>4. events[k + 1] \in Event
    BY <1>1
  <2> HIDE DEF Upto
  <2>5. CASE events[k + 1].id \in Refine!IdsOf(f[k])
    <3>1. f[k + 1] = f[k]
      BY <2>2, <2>5 DEF Grown
    <3> QED
      BY <2>1, <2>3, <2>5, <3>1
  <2>6. CASE events[k + 1].id \notin Refine!IdsOf(f[k])
    <3>1. f[k + 1] = Append(f[k], events[k + 1])
      BY <2>2, <2>6 DEF Grown
    <3> QED
      BY <2>1, <2>3, <2>4, <3>1, IdsOfAdded
  <2> QED
    BY <2>5, <2>6
<1>7. n \in N
  <2> HIDE DEF N
  <2> QED
    BY <1>1, <1>5, <1>6, NumberInduction
<1>8. Upto(n) = Refine!IdsOf(events)
  BY DEF Refine!IdsOf
<1> QED
  BY <1>1, <1>3, <1>7, <1>8

-----------------------------------------------------------------------------
\* An id of a list has a last place in it.
LEMMA LastIsThere ==
  ASSUME NEW events \in Seq(Event), NEW id \in Refine!IdsOf(events)
  PROVE  \E i \in DOMAIN events : events[i].id = id /\ \A k \in (i + 1)..Len(events) : events[k].id # id
<1> DEFINE n == Len(events)
           N == {m \in Nat : (\E k \in DOMAIN events : k >= n - m /\ events[k].id = id)
                              => \E i \in DOMAIN events : events[i].id = id /\ \A k \in (i + 1)..n : events[k].id # id}
<1>1. n \in Nat /\ DOMAIN events = 1..n
  OBVIOUS
<1>2. 0 \in N
  <2> SUFFICES ASSUME NEW k \in 1..n, k >= n, events[k].id = id
               PROVE  \A m \in (k + 1)..n : events[m].id # id
    BY <1>1
  <2> QED
    BY <1>1
<1>3. ASSUME NEW m \in Nat, m \in N PROVE m + 1 \in N
  <2> SUFFICES ASSUME NEW k \in 1..n, k >= n - (m + 1), events[k].id = id
               PROVE  \E i \in DOMAIN events : events[i].id = id /\ \A l \in (i + 1)..n : events[l].id # id
    BY <1>1
  <2>1. CASE \E l \in 1..n : l >= n - m /\ events[l].id = id
    BY <1>1, <1>3, <2>1
  <2>2. CASE ~ \E l \in 1..n : l >= n - m /\ events[l].id = id
    <3>1. \A l \in (k + 1)..n : l \in 1..n /\ l >= n - m
      BY <1>1
    <3> QED
      BY <1>1, <2>2, <3>1
  <2> QED
    BY <2>1, <2>2
<1>4. n \in N
  <2> HIDE DEF N
  <2> QED
    BY <1>1, <1>2, <1>3, NumberInduction
<1>5. PICK k \in DOMAIN events : events[k].id = id
  BY DEF Refine!IdsOf
<1>6. k >= n - n
  BY <1>1
<1> QED
  BY <1>4, <1>5, <1>6

\* A rewritten event keeps its id.
LEMMA RewrittenIsEvent ==
  ASSUME runs \in Nat, NEW e \in Event, NEW items
  PROVE  Refine!Rewritten(e, items) \in Event
BY DEF Refine!Rewritten, Event

\* _refine_events loses no id and adds none.
LEMMA RefinedIsWhole ==
  ASSUME runs \in Nat, NEW events \in Seq(Event), NEW S, NEW items \in Seq([of : S, new : BOOLEAN])
  PROVE  /\ Refine!RefineEvents(events, items) \in Seq(Event)
         /\ Refine!IdsOf(Refine!RefineEvents(events, items)) = Refine!IdsOf(events)
<1> DEFINE order == Refine!Listed(items, events)
           there(id) == events[Refine!EventOf(events, id)]
           told == [k \in DOMAIN order |-> Refine!Rewritten(there(order[k]), items)]
<1>1. order \in Seq(Refine!IdsOf(events))
  BY NamedAreThere
<1>2. ASSUME NEW id \in Refine!IdsOf(events) PROVE there(id) \in Event /\ there(id).id = id
  <2> DEFINE P(i) == events[i].id = id
  <2>1. \E i \in DOMAIN events : P(i) /\ \A k \in (i + 1)..Len(events) : events[k].id # id
    BY LastIsThere
  <2>2. Refine!EventOf(events, id) \in DOMAIN events /\ P(Refine!EventOf(events, id))
    BY <2>1 DEF Refine!EventOf
  <2> QED
    BY <2>2
<1>3. ASSUME NEW id \in Refine!IdsOf(events)
      PROVE  Refine!Rewritten(there(id), items) \in Event /\ Refine!Rewritten(there(id), items).id \in Refine!IdsOf(events)
  <2>1. Refine!Rewritten(there(id), items).id = there(id).id
    BY <1>2 DEF Refine!Rewritten, Event
  <2> QED
    BY <1>2, <2>1, RewrittenIsEvent
<1> HIDE DEF order, there
<1>4. told \in Seq(Event) /\ DOMAIN told = DOMAIN order
  <2>1. DOMAIN order = 1..Len(order) /\ Len(order) \in Nat /\ \A k \in DOMAIN order : order[k] \in Refine!IdsOf(events)
    BY <1>1
  <2>2. \A k \in DOMAIN order : Refine!Rewritten(there(order[k]), items) \in Event
    BY <1>3, <2>1
  <2> QED
    BY <2>1, <2>2, SeqDef
<1>5. Refine!IdsOf(told) \subseteq Refine!IdsOf(events)
  <2>1. \A k \in DOMAIN order : order[k] \in Refine!IdsOf(events)
    BY <1>1
  <2>2. \A k \in DOMAIN told : told[k].id \in Refine!IdsOf(events)
    BY <1>3, <2>1
  <2> HIDE DEF told
  <2> QED
    BY <2>2 DEF Refine!IdsOf
<1>6. Refine!RefineEvents(events, items) = Refine!Completed(told, events)
  BY DEF Refine!RefineEvents, order, there
<1> HIDE DEF told
<1> QED
  BY <1>4, <1>5, <1>6, CompletedHasAll

-----------------------------------------------------------------------------
LEMMA RefineInit == Numbered /\ Refine!Init => RefineInv
<1> SUFFICES ASSUME Numbered, Refine!Init PROVE RefineInv
  OBVIOUS
<1>1. PICK m \in Nat : Ids = 1..m
  BY DEF Numbered
<1> DEFINE begun == [i \in Ids |-> [id |-> i, text |-> 0]]
<1>2. begun \in Seq(Event) /\ DOMAIN begun = Ids
  BY <1>1, SeqDef DEF Event
<1>3. Refine!IdsOf(begun) = Ids
  BY DEF Refine!IdsOf
<1>4. Whole(manuscript)
  <2>1. manuscript = [events |-> begun, cast |-> [n \in Names |-> 0], flags |-> Flags, told |-> Codes, edits |-> 0]
    BY DEF Refine!Init
  <2> HIDE DEF begun
  <2> QED
    BY <1>2, <1>3, <2>1 DEF Whole
<1> QED
  BY <1>4 DEF RefineInv, Refine!Init, Refine!Jobs, Refine!Idle

\* Writing, taking back and editing put one whole draft in the place of another.
LEMMA WholeStays ==
  ASSUME RefineInv, Refine!Edit \/ Refine!Undo \/ Refine!FirstWrite \/ Refine!SecondWrite \/ Refine!Fail
                    \/ \E codes \in SUBSET Codes : Refine!Recheck(codes)
  PROVE  RefineInv'
<1>1. CASE Refine!Edit
  <2>1. Whole(manuscript) /\ manuscript' = [manuscript EXCEPT !.edits = @ + 1]
    BY <1>1 DEF RefineInv, Refine!Edit
  <2>2. manuscript'.edits \in Nat /\ manuscript'.events = manuscript.events
    BY <2>1 DEF Whole
  <2>3. Whole(manuscript')
    BY <2>1, <2>2 DEF Whole
  <2> QED
    BY <1>1, <2>3 DEF RefineInv, Refine!Edit, Whole
<1>2. CASE Refine!Undo
  BY <1>2 DEF RefineInv, Refine!Undo, Whole
<1>3. CASE Refine!FirstWrite \/ Refine!SecondWrite
  BY <1>3 DEF RefineInv, Refine!FirstWrite, Refine!SecondWrite, Refine!Write, Whole
<1>4. CASE Refine!Fail
  BY <1>4 DEF RefineInv, Refine!Fail, Refine!Idle, Whole
<1>5. ASSUME NEW codes \in SUBSET Codes, Refine!Recheck(codes) PROVE RefineInv'
  <2>1. Whole(copy)'
    BY <1>5 DEF RefineInv, Whole, Refine!Recheck
  <2> QED
    BY <1>5, <2>1 DEF RefineInv, Refine!Recheck, Whole
<1> QED
  BY <1>1, <1>2, <1>3, <1>4, <1>5

LEMMA StartKeeps ==
  ASSUME RefineInv, NEW jobs \in SUBSET Refine!Jobs, Refine!Start(jobs)
  PROVE  RefineInv'
<1>1. job' = [j \in Refine!Jobs |-> IF j \in jobs THEN [left |-> Tries, best |-> << >>] ELSE Refine!Idle]
  BY DEF Refine!Start
<1>2. \A j \in Refine!Jobs : job'[j].best # None => job'[j].best = << >>
  BY <1>1 DEF Refine!Idle
<1>3. \A j \in Refine!Jobs : job'[j].best # None => job'[j].best \in Seq(Refine!Item(j))
  <2>1. \A S : << >> \in Seq(S)
    OBVIOUS
  <2> QED
    BY <1>2, <2>1
<1> QED
  BY <1>1, <1>3 DEF RefineInv, Refine!Start, Whole

LEMMA AnswerKeeps ==
  ASSUME Numbered, RefineInv, NEW j \in Refine!Jobs, NEW items \in Refine!Upto(Refine!Item(j), Longest), Refine!Answer(j, items)
  PROVE  RefineInv'
<1>1. items \in Seq(Refine!Item(j))
  <2>1. PICK k \in 0..Longest : items \in [1..k -> Refine!Item(j)]
    BY DEF Refine!Upto
  <2>2. k \in Nat
    BY DEF Numbered
  <2> QED
    BY <2>1, <2>2, SeqDef
<1>2. \A i \in Refine!Jobs : job'[i].best # None => job'[i].best \in Seq(Refine!Item(i))
  <2>1. \A i \in Refine!Jobs \ {j} : job'[i] = job[i]
    BY DEF RefineInv, Refine!Answer
  <2>2. job'[j].best = items \/ job'[j].best = job[j].best
    BY DEF RefineInv, Refine!Answer
  <2> QED
    BY <1>1, <2>1, <2>2 DEF RefineInv
<1> QED
  BY <1>2 DEF RefineInv, Refine!Answer, Whole

LEMMA MergeKeeps ==
  ASSUME RefineInv, Refine!Merge
  PROVE  RefineInv'
<1> DEFINE told == job["events"].best
           bios == job["bios"].best
           events == IF told = None THEN copy.events ELSE Refine!RefineEvents(copy.events, told)
           cast == IF bios = None THEN copy.cast ELSE Refine!RefineBios(copy.cast, bios)
<1>1. Whole(copy) /\ runs \in Nat
  BY DEF RefineInv, Refine!Merge
<1>2. events \in Seq(Event) /\ Refine!IdsOf(events) = Ids
  <2>1. CASE told = None
    BY <1>1, <2>1 DEF Whole
  <2>2. CASE told # None
    <3>1. told \in Seq(Refine!Item("events"))
      BY <2>2 DEF RefineInv, Refine!Jobs
    <3>2. told \in Seq([of : Ids \cup {Stranger}, new : BOOLEAN])
      BY <3>1 DEF Refine!Item
    <3>3. copy.events \in Seq(Event) /\ Refine!IdsOf(copy.events) = Ids
      BY <1>1 DEF Whole
    <3> HIDE DEF told
    <3> QED
      BY <1>1, <2>2, <3>2, <3>3, RefinedIsWhole
  <2> QED
    BY <2>1, <2>2
<1>3. cast \in [Names -> Nat]
  BY <1>1 DEF Whole, Refine!RefineBios
<1>4. copy' = [copy EXCEPT !.events = events, !.cast = cast]
  BY DEF Refine!Merge
<1>5. Whole(copy')
  <2> HIDE DEF events, cast
  <2> QED
    BY <1>1, <1>2, <1>3, <1>4 DEF Whole
<1> QED
  BY <1>5 DEF RefineInv, Refine!Merge, Refine!Idle, Whole

LEMMA RefineStep == Numbered /\ RefineInv /\ [Refine!Next]_(Refine!vars) => RefineInv'
<1> SUFFICES ASSUME Numbered, RefineInv, [Refine!Next]_(Refine!vars) PROVE RefineInv'
  OBVIOUS
<1>1. CASE UNCHANGED Refine!vars
  BY <1>1 DEF Refine!vars, RefineInv, Whole
<1>2. CASE Refine!Next
  <2>1. CASE Refine!Edit \/ Refine!Undo \/ Refine!FirstWrite \/ Refine!SecondWrite \/ Refine!Fail
             \/ \E codes \in SUBSET Codes : Refine!Recheck(codes)
    BY <2>1, WholeStays
  <2>2. CASE \E jobs \in SUBSET Refine!Jobs : Refine!Start(jobs)
    BY <2>2, StartKeeps
  <2>3. CASE \E j \in Refine!Jobs : Refine!Asking(j) /\ \E items \in Refine!Upto(Refine!Item(j), Longest) : Refine!Answer(j, items)
    BY <2>3, AnswerKeeps
  <2>4. CASE Refine!Merge
    BY <2>4, MergeKeeps
  <2> QED
    BY <1>2, <2>1, <2>2, <2>3, <2>4 DEF Refine!Next
<1> QED
  BY <1>1, <1>2

\* world_gen_refiner.py _refine_events, recheck_and_refresh; workshop.py undo_world_draft_refine: for
\* drafts of any size and answers of any kind, no event, person or moderation flag of a draft is lost
\* to a refinement, its failure, its repetition or its undoing.
THEOREM DraftsSurvive == ASSUME Numbered PROVE Refine!Spec => []Refine!DraftSurvives
<1>1. RefineInv => Refine!DraftSurvives
  BY DEF RefineInv, Whole, Refine!DraftSurvives
<1> QED
  BY <1>1, RefineInit, RefineStep, PTL DEF Refine!Spec
=============================================================================
