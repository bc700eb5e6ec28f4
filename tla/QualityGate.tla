----------------------------- MODULE QualityGate -----------------------------
(***************************************************************************)
(* The draft of one world, the verdicts on its versions and the gate       *)
(* between the draft and the public                                        *)
(* (services/world_quality_scorer.py, the versioned writes of              *)
(* api/workshop.py and services/generation_task_service.py, the gate of    *)
(* services/publish_service.py, the waiver of api/admin_review.py).        *)
(*                                                                         *)
(* A version of the draft is a revision number and a hash of the payload;  *)
(* a verdict is on a version.  Whatever takes minutes works on a copy: a   *)
(* judge on the payload it read, a refinement, a new image, a publication. *)
(* A transaction of a few statements is one step.                          *)
(*                                                                         *)
(* A payload is a name, and its hash is the payload itself.  The column    *)
(* quality_status of the draft is left out: no guard reads it.             *)
(***************************************************************************)
EXTENDS Integers, FiniteSets, Sequences, SequencesExt

CONSTANTS
    Contents,    \* payloads
    NoContent,   \* no payload, and the hash of a draft that was never versioned
    Sweepers,    \* the loop of each process that runs pending jobs
    MaxAttempts, \* attempts after which a pending job is no longer picked up: three
    JudgeInTime, \* no judge works longer than the thirty minutes after which it is taken for dead
    MaxRev, MaxRows, MaxGen, \* bounds on revisions, on verdicts and on finished generations
    MaxOpen      \* bound on images, refinements and publications that are under way at a time

ASSUME ConstantsAssumption ==
    /\ IsFiniteSet(Sweepers)
    /\ NoContent \notin Contents
    /\ JudgeInTime \in BOOLEAN
    /\ MaxAttempts \in Nat \ {0}
    /\ MaxRev \in Nat /\ MaxRows \in Nat /\ MaxGen \in Nat /\ MaxOpen \in Nat
    /\ Sweepers \cap (1..MaxRows) = {}

VARIABLES
    draft,    \* payload, payload_revision and payload_hash of the draft
    rows,     \* world_quality_scores by created_at; gen is its task, 0 for that of a refinement
    scored,   \* the rows by scored_at
    gens,     \* generation tasks that have succeeded
    judge,    \* per coroutine: jobs it has yet to run, the job it runs, the payload it judges
    regen,    \* the draft as a request for a new image has loaded it
    refine,   \* a refinement: where it is, and the payload it works on
    pub,      \* a publication: where it is, and the draft as it has loaded it
    world,    \* the public payload, and whether the gate let it through
    cleared   \* payloads a judge passed, an administrator waived, or that took over such a verdict

draftVars == <<draft, gens, regen, refine>>
jobVars   == <<rows, scored, judge, cleared>>
pubVars   == <<pub, world>>
vars == <<draftVars, jobVars, pubVars>>

\* Coroutines that run jobs: the sweeps, and one launched with each job.
Judges == Sweepers \cup (1..MaxRows)

Statuses == {"pending", "running", "passed", "needs_review", "stale", "failed", "waived"}
Version == [content : Contents \cup {NoContent}, rev : Nat, hash : Contents \cup {NoContent}]
Nothing == [content |-> NoContent, rev |-> 0, hash |-> NoContent]
Idle == [todo |-> {}, row |-> 0, saw |-> NoContent]

TypeOK ==
    /\ draft \in Version
    /\ rows \in Seq([rev : Nat, hash : Contents, gen : Nat, status : Statuses,
                     attempt : Nat])
    /\ scored \in Seq(1..Len(rows))
    /\ gens \in Nat
    /\ judge \in [Judges -> [todo : SUBSET (1..MaxRows), row : 0..MaxRows,
                             saw : Contents \cup {NoContent}]]
    /\ regen \in Version
    /\ refine \in [pc : {"idle", "work", "recheck", "carry"}, content : Contents \cup {NoContent}]
    /\ pub \in [pc : {"idle", "gate", "write"}, draft : Version]
    /\ world \in [content : Contents \cup {NoContent}, by : {"gate", "other"}]
    /\ cleared \subseteq Contents

\* A draft someone has written by hand or opened on a world: WorldDraft's defaults.
Init ==
    /\ draft \in [content : Contents, rev : {0}, hash : {NoContent}]
    /\ rows = <<>> /\ scored = <<>>
    /\ gens = 0
    /\ judge = [j \in Judges |-> Idle]
    /\ regen = Nothing
    /\ refine = [pc |-> "idle", content |-> NoContent]
    /\ pub = [pc |-> "idle", draft |-> Nothing]
    /\ world = [content |-> NoContent, by |-> "other"]
    /\ cleared = {}

UnderWay ==
    (IF regen # Nothing THEN 1 ELSE 0) + (IF refine.pc # "idle" THEN 1 ELSE 0) + (IF pub.pc # "idle" THEN 1 ELSE 0)

-----------------------------------------------------------------------------
(* Writes of the draft.                                                    *)

\* Mutant: the hash is not computed again.
VersionedOldHash(loaded, c) == [content |-> c, rev |-> loaded.rev + 1, hash |-> IF loaded.rev = 0 THEN c ELSE loaded.hash]

\* _set_versioned_world_payload on the row as it was loaded: another payload is another version.
Versioned(loaded, c) ==
    IF loaded.hash = c THEN [loaded EXCEPT !.content = c]
    ELSE [content |-> c, rev |-> loaded.rev + 1, hash |-> c]

Rewrite(c) ==
    /\ draft' = Versioned(draft, c)
    /\ draft'.rev <= MaxRev

\* The editor saves, or the last refinement is undone.
Edit ==
    /\ \E c \in Contents : Rewrite(c)
    /\ UNCHANGED <<gens, regen, refine, jobVars, pubVars>>

\* A generation task succeeds: its result is a new version, whatever it contains.
Result ==
    /\ gens < MaxGen /\ draft.rev < MaxRev
    /\ gens' = gens + 1
    /\ \E c \in Contents : draft' = [content |-> c, rev |-> draft.rev + 1, hash |-> c]
    /\ UNCHANGED <<regen, refine, jobVars, pubVars>>

\* A new image: the request loads the draft, waits for the image and writes the payload it loaded
\* with the image in it, with the revision after the one it loaded.
AskImage ==
    /\ regen = Nothing /\ UnderWay < MaxOpen
    /\ regen' = draft
    /\ UNCHANGED <<draft, gens, refine, jobVars, pubVars>>

PutImage ==
    /\ regen # Nothing
    /\ regen' = Nothing
    /\ \E c \in Contents \ {regen.content, regen.hash} : draft' = Versioned(regen, c)
    /\ draft'.rev <= MaxRev
    /\ UNCHANGED <<gens, refine, jobVars, pubVars>>

ImageFails ==
    /\ regen # Nothing
    /\ regen' = Nothing
    /\ UNCHANGED <<draft, gens, refine, jobVars, pubVars>>

-----------------------------------------------------------------------------
(* A refinement rewrites a copy, writes it, checks it again, writes it     *)
(* again, and takes over the last verdict.                                 *)

RefineStart ==
    /\ refine.pc = "idle" /\ UnderWay < MaxOpen
    /\ refine' = [pc |-> "work", content |-> draft.content]
    /\ UNCHANGED <<draft, gens, regen, jobVars, pubVars>>

RefineWrite ==
    /\ \/ /\ refine.pc = "work"
          /\ \E c \in Contents : /\ Rewrite(c)
                                 /\ refine' = [pc |-> "recheck", content |-> c]
       \/ /\ refine.pc = "recheck"
          /\ \E c \in Contents : Rewrite(c)   \* refreshed warnings are part of the payload
          /\ refine' = [pc |-> "carry", content |-> NoContent]
    /\ UNCHANGED <<gens, regen, jobVars, pubVars>>

\* Mutant: a verdict is looked up by the revision alone.
OnRevision(d) == {i \in DOMAIN rows : rows[i].rev = d.rev}

OnVersion(d) == {i \in DOMAIN rows : rows[i].rev = d.rev /\ rows[i].hash = d.hash}

\* The row a query for the version of a draft finds is the last created.
Latest(i, d) == i \in OnVersion(d) /\ \A k \in OnVersion(d) : k <= i

AddRow(r) ==
    /\ Len(rows) < MaxRows
    /\ rows' = Append(rows, r)
    /\ scored' = Append(scored, Len(rows) + 1)

\* _carry_forward_quality: the row last scored on another version, copied to this one.
Carry ==
    /\ refine.pc = "carry"
    /\ refine' = [pc |-> "idle", content |-> NoContent]
    /\ LET others == SelectSeq(scored, LAMBDA i : i \notin OnVersion(draft))
       IN IF others = <<>> \/ draft.hash = NoContent
          THEN UNCHANGED <<rows, scored, cleared>>
          ELSE LET last == rows[Last(others)]
               IN /\ AddRow([rev |-> draft.rev, hash |-> draft.hash, gen |-> 0,
                             status |-> last.status, attempt |-> 0])
                  /\ cleared' = IF last.status \in {"passed", "waived"}
                                THEN cleared \cup {draft.content} ELSE cleared
    /\ UNCHANGED <<draft, gens, regen, judge, pubVars>>

\* It changes nothing, fails, or its process dies.
RefineEnds ==
    /\ refine.pc # "idle"
    /\ refine' = [pc |-> "idle", content |-> NoContent]
    /\ UNCHANGED <<draft, gens, regen, jobVars, pubVars>>

-----------------------------------------------------------------------------
(* Jobs.                                                                   *)

\* enqueue, for a task g that has succeeded: by its worker, or for the last one by the author.
\* The coroutine that runs the job is launched after the commit, unless that fails.
Enqueue(g) ==
    /\ draft.hash # NoContent
    /\ LET same == {i \in OnVersion(draft) : rows[i].gen = g}
       IN \A i \in same : (\A k \in same : k <= i) => rows[i].status \in {"stale", "failed"}
    /\ AddRow([rev |-> draft.rev, hash |-> draft.hash, gen |-> g,
               status |-> "pending", attempt |-> 0])
    /\ LET job == Len(rows) + 1
       IN \/ judge' = [judge EXCEPT ![job].todo = {job}]
          \/ UNCHANGED judge
    /\ UNCHANGED <<draftVars, cleared, pubVars>>

NextJob(j) == CHOOSE i \in judge[j].todo : \A k \in judge[j].todo : i <= k

\* Mutant: the row is taken up whatever its status.
RunAnyJob(j) ==
    /\ judge[j].row = 0 /\ judge[j].todo # {}
    /\ NextJob(j) \in OnVersion(draft)
    /\ judge' = [judge EXCEPT ![j] = [todo |-> @.todo \ {NextJob(j)}, row |-> NextJob(j), saw |-> draft.content]]
    /\ rows' = [rows EXCEPT ![NextJob(j)].status = "running", ![NextJob(j)].attempt = @ + 1]
    /\ UNCHANGED <<draftVars, scored, cleared, pubVars>>

\* run_job up to the judge's calls: the row is locked, and the draft read, in one transaction.
RunJob(j) ==
    /\ judge[j].row = 0 /\ judge[j].todo # {}
    /\ LET i == NextJob(j)
           rest == judge[j].todo \ {i}
       IN IF rows[i].status # "pending"
          THEN /\ judge' = [judge EXCEPT ![j].todo = rest]
               /\ UNCHANGED rows
          ELSE IF i \notin OnVersion(draft)
          THEN /\ judge' = [judge EXCEPT ![j].todo = rest]
               /\ rows' = [rows EXCEPT ![i].status = "stale", ![i].attempt = @ + 1]
          ELSE /\ judge' = [judge EXCEPT ![j] = [todo |-> rest, row |-> i, saw |-> draft.content]]
               /\ rows' = [rows EXCEPT ![i].status = "running", ![i].attempt = @ + 1]
    /\ UNCHANGED <<draftVars, scored, cleared, pubVars>>

\* run_job after them: the verdict is written whatever the row says by now.
Verdict(j) ==
    LET i == judge[j].row
    IN /\ i # 0
       /\ \/ /\ rows' = [rows EXCEPT ![i].status = "passed"]
             /\ cleared' = cleared \cup {judge[j].saw}
          \/ /\ rows' = [rows EXCEPT ![i].status = "needs_review"]
             /\ UNCHANGED cleared
       /\ scored' = Append(SelectSeq(scored, LAMBDA k : k # i), i)
       /\ judge' = [judge EXCEPT ![j].row = 0, ![j].saw = NoContent]
       /\ UNCHANGED <<draftVars, pubVars>>

\* Mutant: a status the schema does not know.
JudgeErrs(j) ==
    /\ judge[j].row # 0
    /\ rows' = [rows EXCEPT ![judge[j].row].status = "error"]
    /\ judge' = [judge EXCEPT ![j].row = 0, ![j].saw = NoContent]
    /\ UNCHANGED <<draftVars, scored, cleared, pubVars>>

\* Its except clause.
JudgeFails(j) ==
    LET i == judge[j].row
    IN /\ i # 0
       /\ rows' = [rows EXCEPT ![i].status = "failed"]
       /\ judge' = [judge EXCEPT ![j].row = 0, ![j].saw = NoContent]
       /\ UNCHANGED <<draftVars, scored, cleared, pubVars>>

\* The process dies, or a launched coroutine is lost; a sweep is started again with its process.
Die(j) ==
    /\ judge[j] # Idle
    /\ judge' = [judge EXCEPT ![j] = Idle]
    /\ UNCHANGED <<draftVars, rows, scored, cleared, pubVars>>

\* Mutant: a job that failed is taken for dead too.
MayHaveFailed(i) ==
    /\ i \in DOMAIN rows
    /\ rows[i].status \in {"running", "failed"} /\ rows[i].attempt > 0
    /\ JudgeInTime => \A j \in Judges : judge[j].row # i

\* Started thirty minutes ago; a row that was carried over never started.
MayBeOld(i) ==
    /\ i \in DOMAIN rows
    /\ rows[i].status = "running" /\ rows[i].attempt > 0
    /\ JudgeInTime => \A j \in Judges : judge[j].row # i

\* Mutant: nothing is recovered.
RecoveredNever(dead) == rows
\* Mutant: attempts are not counted.
DueAlways(r) == r.status = "pending"

\* run_pending: jobs taken for dead are pending again; list what may be tried, run it one by one.
Recovered(dead) == [i \in DOMAIN rows |-> IF i \in dead THEN [rows[i] EXCEPT !.status = "pending"] ELSE rows[i]]
Due(r) == r.status = "pending" /\ r.attempt < MaxAttempts

Sweep(s, dead) ==
    /\ judge[s] = Idle
    /\ \A i \in dead : MayBeOld(i)
    /\ rows' = Recovered(dead)
    /\ judge' = [judge EXCEPT ![s].todo = {i \in DOMAIN rows : Due(rows'[i])}]
    /\ UNCHANGED <<draftVars, scored, cleared, pubVars>>

\* An administrator waives the verdict on the draft's version.
Waive ==
    /\ \E i \in DOMAIN rows : Latest(i, draft) /\ rows' = [rows EXCEPT ![i].status = "waived"]
    /\ cleared' = cleared \cup {draft.content}
    /\ UNCHANGED <<draftVars, scored, judge, pubVars>>

-----------------------------------------------------------------------------
(* Publication.                                                            *)

PublishLoad ==
    /\ pub.pc = "idle" /\ UnderWay < MaxOpen
    /\ pub' = [pc |-> "gate", draft |-> draft]
    /\ UNCHANGED <<draftVars, jobVars, world>>

\* _ensure_world_quality_gate for an owner; a draft that was never versioned is let through.
Opens(d) ==
    \/ d.rev = 0
    \/ \E i \in DOMAIN rows : Latest(i, d) /\ rows[i].status \in {"passed", "waived"}

Gate ==
    /\ pub.pc = "gate"
    /\ pub' = IF Opens(pub.draft) THEN [pub EXCEPT !.pc = "write"] ELSE [pc |-> "idle", draft |-> Nothing]
    /\ UNCHANGED <<draftVars, jobVars, world>>

\* _materialize_world_draft and the commit; validation may refuse the payload.
PublishWrite ==
    /\ pub.pc = "write"
    /\ pub' = [pc |-> "idle", draft |-> Nothing]
    /\ \/ world' = [content |-> pub.draft.content, by |-> IF pub.draft.rev = 0 THEN "other" ELSE "gate"]
       \/ UNCHANGED world
    /\ UNCHANGED <<draftVars, jobVars>>

\* An administrator publishes or approves: the gate is advisory.
AdminPublish ==
    /\ world' = [content |-> draft.content, by |-> "other"]
    /\ UNCHANGED <<draftVars, jobVars, pub>>

-----------------------------------------------------------------------------
Next ==
    \/ Edit \/ Result \/ AskImage \/ PutImage \/ ImageFails
    \/ RefineStart \/ RefineWrite \/ Carry \/ RefineEnds
    \/ \E g \in 1..gens : Enqueue(g)
    \/ \E j \in Judges : RunJob(j) \/ Verdict(j) \/ JudgeFails(j) \/ Die(j)
    \/ \E s \in Sweepers : \E dead \in SUBSET DOMAIN rows : Sweep(s, dead)
    \/ Waive
    \/ PublishLoad \/ Gate \/ PublishWrite \/ AdminPublish

Spec == Init /\ [][Next]_vars

-----------------------------------------------------------------------------
(* Properties.                                                             *)

\* Whatever an owner has put before the public was passed by a judge or waived as that very
\* payload, or took over such a verdict in a refinement; the exception are drafts that were never
\* versioned.  Publications, judges and edits all work on copies of the draft (publish_service.py 572-606).
OnlyVettedIsPublic == world.by = "gate" => world.content \in cleared

\* The hash a verdict is looked up by is that of the payload beside it, after any mixture of saves,
\* refinements, results, undos and late images (workshop.py 517-526, 646-648).
HashIsContent == \A d \in {draft, pub.draft, regen} : d.rev > 0 => d.hash = d.content

\* If judges keep to their thirty minutes, a job is never judged by two of them, though the sweeps of
\* several processes and the coroutine launched with the job all take it up (world_quality_scorer.py 74-110).
OneJudge == JudgeInTime => \A i, j \in Judges : judge[i].row = judge[j].row /\ judge[i].row # 0 => i = j

Ended == {"passed", "needs_review", "stale", "failed"}

\* If judges keep to their thirty minutes, a verdict once written is only ever waived: no judge that was
\* given up and no second run of the job replaces it (world_quality_scorer.py 139-195).
VerdictIsFinal ==
    [][JudgeInTime => \A i \in DOMAIN rows : rows[i].status \in Ended => rows'[i].status \in {rows[i].status, "waived"}]_vars

=============================================================================
