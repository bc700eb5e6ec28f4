----------------------------- MODULE Publication -----------------------------
(***************************************************************************)
(* One world, its scripts, their drafts under review, and the games played *)
(* on them: saving, publishing, review, withdrawal, takedown, restoring,   *)
(* deletion, and the start of a game (services/publish_service.py,         *)
(* services/delete_service.py, engine/content_status.py, the endpoints of  *)
(* api/workshop.py, api/admin_review.py and api/admin_content.py, and      *)
(* start_game of services/game_service.py).                                *)
(*                                                                         *)
(* A request loads rows, decides on what it has loaded, and writes later;  *)
(* at READ COMMITTED others commit in between, and the mapper writes only  *)
(* the columns whose value differs from the one that was loaded.  A        *)
(* request that can only read and write at once is one step.               *)
(*                                                                         *)
(* The quality gate is in QualityGate; here an owner's publication may     *)
(* fail at will.  The audit flag is FALSE at every call, so no row becomes *)
(* "submitted".  A row that is deleted is gone for good: a draft saved     *)
(* after that is another row, and so is a draft saved twice at once.       *)
(***************************************************************************)
EXTENDS Integers, FiniteSets

CONSTANTS
    Scripts,   \* scripts of the world
    World,     \* the world
    Players,   \* users who play
    Owner,     \* the author of the world and of its scripts, who may be a player
    Requests,  \* requests that may overlap
    Games      \* names of sessions, used again when a session is over; their number is a bound

ASSUME ConstantsAssumption ==
    /\ IsFiniteSet(Requests) /\ Requests # {}
    /\ World \notin Scripts
    /\ "admin" \notin Players \cup {Owner}

VARIABLES
    status,    \* status of the rows of worlds and scripts
    listed,    \* is_published of a script
    draft,     \* review_status of the drafts
    games,     \* the sessions that are being played or paused
    req,       \* what each request has loaded
    seenPublic \* the works that strangers have been shown

vars == <<status, listed, draft, games, req, seenPublic>>
rows == <<status, listed, seenPublic>>

Works == {World} \cup Scripts
Absent == {"none", "deleted"}
NoGame == [status |-> "none"]
Idle == [op |-> "idle", by |-> Owner, work |-> World, saw |-> "none", set |-> {}]

Operations == {"idle", "save", "publish", "approve", "withdraw", "restore", "delete", "start", "retire"}

TypeOK ==
    /\ status \in [Works -> {"none", "private", "published", "withdrawn", "deleted"}]
    /\ listed \in [Scripts -> BOOLEAN]
    /\ draft \in [Works -> {"none", "editing", "submitted"}]
    /\ games \in [Games -> [player : Players, work : Works, status : {"playing", "paused"}] \cup {NoGame}]
    /\ req \in [Requests -> [op : Operations, by : Players \cup {Owner, "admin"}, work : Works,
                             saw : {"none", "private", "published", "withdrawn"},
                             set : SUBSET (Scripts \cup Games)]]
    /\ seenPublic \subseteq Works

Init ==
    /\ status = [w \in Works |-> "none"]
    /\ listed = [s \in Scripts |-> FALSE]
    /\ draft = [w \in Works |-> "none"]
    /\ games = [g \in Games |-> NoGame]
    /\ req = [r \in Requests |-> Idle]
    /\ seenPublic = {}

Exists(w) == status[w] \notin Absent
GamesOn(w) == {g \in Games : games[g] # NoGame /\ w \in {World, games[g].work}}

\* A request of the operation op has loaded work w, and uses later what it saw of it.
Loads(r, op, by, w, saw, set) ==
    /\ req[r] = Idle
    /\ req' = [req EXCEPT ![r] = [op |-> op, by |-> by, work |-> w, saw |-> saw, set |-> set]]
    /\ UNCHANGED <<rows, draft, games>>

Ends(r) == req' = [req EXCEPT ![r] = Idle]

\* It raises or rolls back: nothing is written.
Fails(r) ==
    /\ req[r].op # "idle"
    /\ Ends(r)
    /\ UNCHANGED <<rows, draft, games>>

\* Mutant: is_published is set, and never reset.
SetStatusOnly(ws, st) ==
    /\ status' = [w \in Works |-> IF w \in ws THEN st ELSE status[w]]
    /\ listed' = [s \in Scripts |-> listed[s] \/ (s \in ws /\ st = "published")]
    /\ seenPublic' = IF st = "published" THEN seenPublic \cup ws ELSE seenPublic

\* The rows of ws take a status; is_published mirrors it.
SetStatus(ws, st) ==
    /\ status' = [w \in Works |-> IF w \in ws THEN st ELSE status[w]]
    /\ listed' = [s \in Scripts |-> IF s \in ws THEN st = "published" ELSE listed[s]]
    /\ seenPublic' = IF st = "published" THEN seenPublic \cup ws ELSE seenPublic

-----------------------------------------------------------------------------
(* Drafts.                                                                 *)

\* A new draft, or one of a row that has none; the draft of a script refers to its world.
CreateDraft(w) ==
    /\ draft[w] = "none" /\ status[w] # "deleted"
    /\ w \in Scripts => Exists(World)
    /\ draft' = [draft EXCEPT ![w] = "editing"]
    /\ UNCHANGED <<rows, games, req>>

DeleteDraft(w) ==
    /\ draft[w] # "none"
    /\ draft' = [draft EXCEPT ![w] = "none"]
    /\ UNCHANGED <<rows, games, req>>

\* Mutant: a status the schema does not know.
SubmitInReview(w) ==
    /\ draft[w] # "none"
    /\ draft' = [draft EXCEPT ![w] = "in_review"]
    /\ UNCHANGED <<rows, games, req>>

\* Whatever the state of the review; a script only under a published world.
Submit(w) ==
    /\ draft[w] # "none"
    /\ w \in Scripts => status[World] = "published"
    /\ draft' = [draft EXCEPT ![w] = "submitted"]
    /\ UNCHANGED <<rows, games, req>>

WithdrawSubmission(w) ==
    /\ draft[w] # "none"
    /\ draft' = [draft EXCEPT ![w] = "editing"]
    /\ UNCHANGED <<rows, games, req>>

\* The author goes on with a draft that was rejected as with one that was never submitted.
Reject(w) ==
    /\ draft[w] = "submitted"
    /\ draft' = [draft EXCEPT ![w] = "editing"]
    /\ UNCHANGED <<rows, games, req>>

-----------------------------------------------------------------------------
(* From the draft to the row.                                              *)

\* Transitions of content_status.
CanTransition(from, to) ==
    <<from, to>> \in {<<"private", "published">>, <<"published", "private">>,
                      <<"published", "withdrawn">>, <<"withdrawn", "published">>}

\* _materialize_world_draft and _materialize_script_draft accept what they have loaded.
MayBecome(w, to) ==
    /\ draft[w] # "none" /\ status[w] # "deleted"
    /\ status[w] \in {"none", to} \/ CanTransition(status[w], to)

\* They write: a new row, which the draft is then linked to and whose world must be there, or the
\* status of the old one if it is not the one that was loaded.
Materialize(r, to) ==
    LET w == req[r].work
    IN IF req[r].saw = "none"
       THEN /\ status[w] = "none" /\ draft[w] # "none"
            /\ w \in Scripts => Exists(World)
            /\ SetStatus({w}, to)
       ELSE /\ Exists(w)
            /\ IF req[r].saw = to THEN UNCHANGED rows ELSE SetStatus({w}, to)

\* A published row is left as it is.
AskSave(r, w) ==
    /\ status[w] # "published" /\ MayBecome(w, "private")
    /\ Loads(r, "save", Owner, w, status[w], {})

Save(r) ==
    /\ req[r].op = "save"
    /\ Materialize(r, "private")
    /\ Ends(r)
    /\ UNCHANGED <<draft, games>>

AskPublish(r, w) ==
    /\ MayBecome(w, "published")
    /\ Loads(r, "publish", Owner, w, status[w], {})

Publish(r) ==
    /\ req[r].op = "publish"
    /\ Materialize(r, "published")
    /\ Ends(r)
    /\ UNCHANGED <<draft, games>>

\* A script only under a world that is published when the approval begins.
AskApprove(r, w) ==
    /\ draft[w] = "submitted" /\ MayBecome(w, "published")
    /\ w \in Scripts => status[World] = "published"
    /\ Loads(r, "approve", "admin", w, status[w], {})

Approve(r) ==
    /\ req[r].op = "approve" /\ draft[req[r].work] # "none"
    /\ Materialize(r, "published")
    /\ draft' = [draft EXCEPT ![req[r].work] = "editing"]
    /\ Ends(r)
    /\ UNCHANGED games

-----------------------------------------------------------------------------
(* Withdrawal, takedown, restoring, deletion.                              *)

AskWithdraw(r, w, by) ==
    /\ CanTransition(status[w], IF by = "admin" THEN "withdrawn" ELSE "private")
    /\ Loads(r, "withdraw", by, w, "none", {})

\* The published scripts of a world follow it.
Withdraw(r) ==
    LET w == req[r].work
        cascade == IF w = World THEN {s \in Scripts : status[s] = "published"} ELSE {}
    IN /\ req[r].op = "withdraw" /\ Exists(w)
       /\ SetStatus({w} \cup cascade, IF req[r].by = "admin" THEN "withdrawn" ELSE "private")
       /\ Ends(r)
       /\ UNCHANGED <<draft, games>>

AskRestore(r, w) ==
    /\ w \in Scripts => status[World] = "published"
    /\ CanTransition(status[w], "published")
    /\ Loads(r, "restore", "admin", w, "none", {})

Restore(r) ==
    /\ req[r].op = "restore" /\ Exists(req[r].work)
    /\ SetStatus({req[r].work}, "published")
    /\ Ends(r)
    /\ UNCHANGED <<draft, games>>

Without(over) == [g \in Games |-> IF g \in over THEN NoGame ELSE games[g]]
Children == {s \in Scripts : Exists(s)}

\* The guards, then a snapshot of the scripts that go with the world.
AskDelete(r, w, by, force) ==
    /\ Exists(w)
    /\ (\E g \in GamesOn(w) : games[g].status = "playing") => by = "admin" /\ force
    /\ w = World /\ Children # {} => by = "admin" \/ force
    /\ Loads(r, "delete", by, w, "none", IF w = World THEN Children ELSE {})

\* Mutant: the games stay.
DeleteRowOnly(r) ==
    /\ req[r].op = "delete" /\ Exists(req[r].work)
    /\ SetStatus({req[r].work} \cup req[r].set, "deleted")
    /\ Ends(r)
    /\ UNCHANGED <<draft, games>>

\* Foreign keys: a script committed meanwhile, or the draft of any script, keeps its world from being deleted.
Delete(r) ==
    LET w == req[r].work
    IN /\ req[r].op = "delete" /\ Exists(w)
       /\ w = World => Children \subseteq req[r].set /\ \A s \in Scripts : draft[s] = "none"
       /\ SetStatus({w} \cup (IF w = World THEN Children ELSE {}), "deleted")
       /\ games' = Without(GamesOn(w))
       /\ Ends(r)
       /\ UNCHANGED draft

-----------------------------------------------------------------------------
(* Games.                                                                  *)

\* Mutant: any script of a public world may be played.
MayPlayAnyScript(p, w) == (status[World] = "published" \/ p = Owner) /\ Exists(w)

\* The access check of start_game, on the world or on a script of it.
MayPlay(p, w) ==
    /\ Exists(World) /\ (status[World] = "published" \/ p = Owner)
    /\ w \in Scripts => Exists(w) /\ (listed[w] \/ p = Owner)

AskStart(r, p, w) ==
    /\ MayPlay(p, w)
    /\ Loads(r, "start", p, w, "none", {})

\* Mutant: paused games are not retired.
RetirePlaying(r) ==
    /\ req[r].op = "start"
    /\ req' = [req EXCEPT ![r].op = "retire",
                          ![r].set = {g \in GamesOn(req[r].work) : /\ games[g].player = req[r].by
                                                                   /\ games[g].work = req[r].work
                                                                   /\ games[g].status = "playing"}]
    /\ UNCHANGED <<rows, draft, games>>

\* _retire_active_sessions_for_key reads the live games of the key, after a model call.
Retire(r) ==
    /\ req[r].op = "start"
    /\ req' = [req EXCEPT ![r].op = "retire",
                          ![r].set = {g \in Games : /\ games[g] # NoGame
                                                    /\ games[g].player = req[r].by /\ games[g].work = req[r].work}]
    /\ UNCHANGED <<rows, draft, games>>

\* They are ended and the new one is inserted, if the rows it refers to are still there.
Start(r, g) ==
    /\ req[r].op = "retire"
    /\ games[g] = NoGame /\ \A q \in Requests : g \notin req[q].set
    /\ Exists(World) /\ Exists(req[r].work)
    /\ games' = [Without(req[r].set) EXCEPT ![g] = [player |-> req[r].by, work |-> req[r].work, status |-> "playing"]]
    /\ Ends(r)
    /\ UNCHANGED <<rows, draft>>

\* pause, resume, abandon or the end of the story (GameTurn).
Play(g) ==
    /\ games[g] # NoGame
    /\ \/ \E st \in {"playing", "paused"} : games' = [games EXCEPT ![g].status = st]
       \/ games' = Without({g})
    /\ UNCHANGED <<rows, draft, req>>

-----------------------------------------------------------------------------
Next ==
    \/ \E w \in Works : CreateDraft(w) \/ DeleteDraft(w) \/ Submit(w) \/ WithdrawSubmission(w) \/ Reject(w)
    \/ \E r \in Requests :
        \/ \E w \in Works :
            \/ AskSave(r, w) \/ AskPublish(r, w) \/ AskApprove(r, w) \/ AskRestore(r, w)
            \/ \E by \in {Owner, "admin"} : AskWithdraw(r, w, by) \/ \E force \in BOOLEAN : AskDelete(r, w, by, force)
            \/ \E p \in Players : AskStart(r, p, w)
        \/ Save(r) \/ Publish(r) \/ Approve(r) \/ Withdraw(r) \/ Restore(r) \/ Delete(r)
        \/ Retire(r) \/ Fails(r) \/ \E g \in Games : Start(r, g)
    \/ \E g \in Games : Play(g)

Spec == Init /\ [][Next]_vars

-----------------------------------------------------------------------------
(* Properties.                                                             *)

\* The two columns that say that a script is public agree, whatever mixture of publications, approvals,
\* withdrawals with their cascade, and restorings writes them: start_game reads one, lists read the other
\* (publish_service.py 720-740, 650-651).
ListedIsPublished == \A s \in Scripts : listed[s] <=> status[s] = "published"

\* A stranger plays only works that have been public at some time: a start that outlives the withdrawal of
\* its world goes through, and a private world or script is never played (game_service.py 233-266).
StrangersSawPublic ==
    \A g \in Games : games[g] # NoGame /\ games[g].player # Owner => {World, games[g].work} \subseteq seenPublic

\* No live game refers to a world or script that is gone: starts that wait for a model and
\* deletions pass each other (delete_service.py 54-106, game_service.py 366-390).
NoDanglingGame ==
    \A g \in Games : games[g] # NoGame => Exists(World) /\ Exists(games[g].work)

\* Of one player and one story there are never more live games than starts that overlap
\* (game_service.py 372-377, 683-717).
LiveBounded ==
    \A p \in Players, w \in Works :
        Cardinality({g \in Games : games[g] # NoGame /\ games[g].player = p /\ games[g].work = w}) <= Cardinality(Requests)

\* Only an administrator lifts a takedown (content_status.py 37-39).
TakedownHolds ==
    [][\A r \in Requests : \A w \in Works :
          status[w] = "withdrawn" /\ status'[w] \in {"private", "published"}
          /\ req[r].op # "idle" /\ req'[r].op = "idle" => req[r].by = "admin"]_vars

=============================================================================
