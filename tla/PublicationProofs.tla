-------------------------- MODULE PublicationProofs --------------------------
(***************************************************************************)
(* For every number of scripts, players, requests and games: the two       *)
(* columns that publish a script agree, strangers play only what has been  *)
(* public, and no live game refers to a row that is gone.                  *)
(*                                                                         *)
(* The invariant is inductive as the conjunction of the three with the     *)
(* types, "what is published has been seen", and "a start that waits was   *)
(* let in when its world and script were public": rows and requests know   *)
(* nothing of each other, so that last part is what carries the access     *)
(* check over the model call that parts it from the insertion.  At the     *)
(* end, the cast of a script from its generation to a game on it           *)
(* (ScriptGeneration).                                                     *)
(***************************************************************************)
EXTENDS Publication, TLAPS

Statuses == {"none", "private", "published", "withdrawn", "deleted"}
Drafts == [Works -> {"none", "editing", "submitted"}]
Sessions == [player : Players, work : Works, status : {"playing", "paused"}]
Loaded == [op : Operations, by : Players \cup {Owner, "admin"}, work : Works,
           saw : {"none", "private", "published", "withdrawn"}, set : SUBSET (Scripts \cup Games)]

\* The rows alone: their types, the two columns, and the works that strangers were shown.
RowsAgree ==
    /\ status \in [Works -> Statuses]
    /\ listed \in [Scripts -> BOOLEAN]
    /\ seenPublic \subseteq Works
    /\ ListedIsPublished
    /\ \A w \in Works : status[w] = "published" => w \in seenPublic

\* A request q to play is a player's, and a stranger's has been let in.
LetIn(q) ==
    q.op \in {"start", "retire"} => q.by \in Players /\ (q.by # Owner => {World, q.work} \subseteq seenPublic)

RequestsLetIn ==
    /\ req \in [Requests -> Loaded]
    /\ \A r \in Requests : LetIn(req[r])

GamesStand ==
    /\ games \in [Games -> Sessions \cup {NoGame}]
    /\ StrangersSawPublic
    /\ NoDanglingGame

IInv == RowsAgree /\ draft \in Drafts /\ RequestsLetIn /\ GamesStand

\* What a step may do to the rows without touching a game: nothing is forgotten, nothing ceases to exist.
RowsStand == seenPublic \subseteq seenPublic' /\ \A w \in Works : Exists(w) => Exists(w)'

-----------------------------------------------------------------------------
\* Nothing is stored and no request has begun: the invariant holds at first.
LEMMA InitInv == Init => IInv
  <1> SUFFICES ASSUME Init PROVE IInv
    OBVIOUS
  <1>1. RowsAgree
    BY DEF Init, RowsAgree, ListedIsPublished, Statuses, Works
  <1>2. draft \in Drafts
    BY DEF Init, Drafts
  <1>3. Idle \in Loaded
    BY DEF Idle, Loaded, Operations, Works
  <1>4. RequestsLetIn
    BY <1>3 DEF Init, RequestsLetIn, LetIn, Idle
  <1>5. GamesStand
    BY DEF Init, GamesStand, StrangersSawPublic, NoDanglingGame
  <1> QED
    BY <1>1, <1>2, <1>4, <1>5 DEF IInv

\* Whatever status some rows take, is_published follows it, and strangers have seen what becomes public.
LEMMA SetStatusAgrees ==
  ASSUME RowsAgree, NEW ws \in SUBSET Works, NEW st \in Statuses, SetStatus(ws, st)
  PROVE  RowsAgree' /\ seenPublic \subseteq seenPublic'
  <1>1. status' \in [Works -> Statuses] /\ listed' \in [Scripts -> BOOLEAN]
    BY DEF RowsAgree, SetStatus
  <1>2. seenPublic' \subseteq Works /\ seenPublic \subseteq seenPublic'
    BY DEF RowsAgree, SetStatus
  <1>3. ListedIsPublished'
    BY DEF RowsAgree, SetStatus, ListedIsPublished, Works
  <1>4. \A w \in Works : status'[w] = "published" => w \in seenPublic'
    BY DEF RowsAgree, SetStatus
  <1> QED
    BY <1>1, <1>2, <1>3, <1>4 DEF RowsAgree

\* A status other than "none" and "deleted" makes no row cease to exist.
LEMMA SetStatusStands ==
  ASSUME RowsAgree, NEW ws \in SUBSET Works, NEW st \in Statuses \ Absent, SetStatus(ws, st)
  PROVE  RowsAgree' /\ RowsStand
  <1>1. RowsAgree' /\ seenPublic \subseteq seenPublic'
    BY SetStatusAgrees
  <1>2. \A w \in Works : Exists(w) => Exists(w)'
    BY DEF SetStatus, Exists
  <1> QED
    BY <1>1, <1>2 DEF RowsStand

\* Rows that a step leaves alone agree and stand.
LEMMA RowsAlone ==
  ASSUME RowsAgree, UNCHANGED rows
  PROVE  RowsAgree' /\ RowsStand
  BY DEF RowsAgree, rows, ListedIsPublished, RowsStand, Exists

\* Writing a draft into its row.
LEMMA MaterializeStands ==
  ASSUME RowsAgree, RequestsLetIn, NEW r \in Requests, NEW to \in {"private", "published"}, Materialize(r, to)
  PROVE  RowsAgree' /\ RowsStand
  <1>1. {req[r].work} \in SUBSET Works
    BY DEF RequestsLetIn, Loaded
  <1>2. to \in Statuses \ Absent
    BY DEF Statuses, Absent
  <1>3. CASE SetStatus({req[r].work}, to)
    BY <1>1, <1>2, <1>3, SetStatusStands
  <1>4. CASE UNCHANGED rows
    BY <1>4, RowsAlone
  <1> QED
    BY <1>3, <1>4 DEF Materialize

\* A game that was let in stays let in, and keeps its world and script, as long as no row ceases to exist.
LEMMA GamesAlone ==
  ASSUME GamesStand, RowsStand, games' = games
  PROVE  GamesStand'
  <1>1. ASSUME NEW g \in Games, games[g] # NoGame
        PROVE  games[g].work \in Works /\ World \in Works
    BY <1>1 DEF GamesStand, Sessions, Works
  <1>2. StrangersSawPublic'
    BY DEF GamesStand, RowsStand, StrangersSawPublic
  <1>3. NoDanglingGame'
    <2> SUFFICES ASSUME NEW g \in Games, games[g] # NoGame
                 PROVE  Exists(World)' /\ Exists(games[g].work)'
      BY DEF NoDanglingGame, Exists
    <2>1. Exists(World) /\ Exists(games[g].work)
      BY DEF GamesStand, NoDanglingGame
    <2> QED
      BY <2>1, <1>1 DEF RowsStand, Exists
  <1> QED
    BY <1>2, <1>3 DEF GamesStand

\* A request that ends leaves the others as they were, and has nothing to be let in for.
LEMMA EndsLetIn ==
  ASSUME RequestsLetIn, NEW r \in Requests, Ends(r), seenPublic \subseteq seenPublic'
  PROVE  RequestsLetIn'
  <1>1. Idle \in Loaded
    BY DEF Idle, Loaded, Operations, Works
  <1>2. req' \in [Requests -> Loaded]
    BY <1>1 DEF RequestsLetIn, Ends
  <1>3. ASSUME NEW q \in Requests
        PROVE  LetIn(req[q])'
    BY <1>3 DEF RequestsLetIn, Ends, Idle, LetIn
  <1> QED
    BY <1>2, <1>3 DEF RequestsLetIn

\* Requests a step does not touch stay let in, for what strangers have seen only grows.
LEMMA RequestsAlone ==
  ASSUME RequestsLetIn, req' = req, seenPublic \subseteq seenPublic'
  PROVE  RequestsLetIn'
  BY DEF RequestsLetIn, LetIn

\* A request that loads what it is about to decide on.
LEMMA LoadsKeeps ==
  ASSUME IInv, NEW r \in Requests, NEW op \in Operations, NEW by \in Players \cup {Owner, "admin"}, NEW w \in Works,
         NEW saw \in {"none", "private", "published", "withdrawn"}, NEW set \in SUBSET (Scripts \cup Games),
         Loads(r, op, by, w, saw, set),
         op \in {"start", "retire"} => by \in Players /\ (by # Owner => {World, w} \subseteq seenPublic)
  PROVE  IInv'
  <1> DEFINE q == [op |-> op, by |-> by, work |-> w, saw |-> saw, set |-> set]
  <1>1. q \in Loaded /\ LetIn(q)
    BY DEF Loaded, LetIn
  <1>2. req' = [req EXCEPT ![r] = q] /\ UNCHANGED <<rows, draft, games>>
    BY DEF Loads
  <1>3. RowsAgree' /\ RowsStand
    BY <1>2, RowsAlone DEF IInv
  <1>4. RequestsLetIn'
    <2> HIDE DEF q
    <2>1. req' \in [Requests -> Loaded]
      BY <1>1, <1>2 DEF IInv, RequestsLetIn
    <2>2. ASSUME NEW p \in Requests
          PROVE  LetIn(req'[p])
      BY <1>1, <1>2, <2>2 DEF IInv, RequestsLetIn
    <2>3. seenPublic' = seenPublic
      BY <1>2 DEF rows
    <2>4. ASSUME NEW p \in Requests
          PROVE  LetIn(req[p])'
      BY <2>2, <2>3, <2>4 DEF LetIn
    <2> QED
      BY <2>1, <2>4 DEF RequestsLetIn
  <1>5. GamesStand'
    BY <1>2, <1>3, GamesAlone DEF IInv
  <1> QED
    BY <1>2, <1>3, <1>4, <1>5 DEF IInv

\* A request that writes rows that stand, and ends.
LEMMA WritesKeeps ==
  ASSUME IInv, NEW r \in Requests, Ends(r), RowsAgree', RowsStand, draft' \in Drafts, games' = games
  PROVE  IInv'
  <1>1. RequestsLetIn'
    BY EndsLetIn DEF IInv, RowsStand
  <1>2. GamesStand'
    BY GamesAlone DEF IInv
  <1> QED
    BY <1>1, <1>2 DEF IInv

\* A step that touches nothing but the drafts.
LEMMA DraftKeeps ==
  ASSUME IInv, draft' \in Drafts, UNCHANGED <<rows, games, req>>
  PROVE  IInv'
  <1>1. RowsAgree' /\ RowsStand
    BY RowsAlone DEF IInv
  <1>2. RequestsLetIn'
    BY <1>1, RequestsAlone DEF IInv, RowsStand
  <1>3. GamesStand'
    BY <1>1, GamesAlone DEF IInv
  <1> QED
    BY <1>1, <1>2, <1>3 DEF IInv

-----------------------------------------------------------------------------
\* The six steps in which a request loads rows and decides: only a start needs the rows to say something.
LEMMA AsksKeep ==
  ASSUME IInv, NEW r \in Requests, NEW w \in Works,
         \/ AskSave(r, w) \/ AskPublish(r, w) \/ AskApprove(r, w) \/ AskRestore(r, w)
         \/ \E by \in {Owner, "admin"} : AskWithdraw(r, w, by) \/ \E force \in BOOLEAN : AskDelete(r, w, by, force)
         \/ \E p \in Players : AskStart(r, p, w)
  PROVE  IInv'
  <1> DEFINE Saw == {"none", "private", "published", "withdrawn"}
  <1>1. {"save", "publish", "approve", "withdraw", "restore", "delete", "start", "retire"} \subseteq Operations
    BY DEF Operations
  <1>2. status[w] # "deleted" => status[w] \in Saw
    BY DEF IInv, RowsAgree, Statuses
  <1>3. {} \in SUBSET (Scripts \cup Games) /\ Children \in SUBSET (Scripts \cup Games)
    BY DEF Children
  <1>4. Owner \in Players \cup {Owner, "admin"} /\ "admin" \in Players \cup {Owner, "admin"} /\ "none" \in Saw
    OBVIOUS
  <1> HIDE DEF Saw
  <1>5. ASSUME NEW op \in {"save", "publish", "approve", "withdraw", "restore", "delete"},
               NEW by \in Players \cup {Owner, "admin"}, NEW saw \in Saw, NEW set \in SUBSET (Scripts \cup Games),
               Loads(r, op, by, w, saw, set)
        PROVE  IInv'
    <2>1. op \in Operations /\ op \notin {"start", "retire"}
      BY DEF Operations
    <2> QED
      BY <1>5, <2>1, LoadsKeeps DEF Saw
  <1>6. CASE AskSave(r, w)
    <2>1. Loads(r, "save", Owner, w, status[w], {}) /\ status[w] \in Saw
      BY <1>6, <1>2 DEF AskSave, MayBecome
    <2> QED
      BY <2>1, <1>5, <1>3, <1>4
  <1>7. CASE AskPublish(r, w)
    <2>1. Loads(r, "publish", Owner, w, status[w], {}) /\ status[w] \in Saw
      BY <1>7, <1>2 DEF AskPublish, MayBecome
    <2> QED
      BY <2>1, <1>5, <1>3, <1>4
  <1>8. CASE AskApprove(r, w)
    <2>1. Loads(r, "approve", "admin", w, status[w], {}) /\ status[w] \in Saw
      BY <1>8, <1>2 DEF AskApprove, MayBecome
    <2> QED
      BY <2>1, <1>5, <1>3, <1>4
  <1>9. CASE AskRestore(r, w)
    <2>1. Loads(r, "restore", "admin", w, "none", {})
      BY <1>9 DEF AskRestore
    <2> QED
      BY <2>1, <1>5, <1>3, <1>4
  <1>10. ASSUME NEW by \in {Owner, "admin"}, AskWithdraw(r, w, by)
        PROVE  IInv'
    <2>1. Loads(r, "withdraw", by, w, "none", {}) /\ by \in Players \cup {Owner, "admin"}
      BY <1>10 DEF AskWithdraw
    <2> QED
      BY <2>1, <1>5, <1>3, <1>4
  <1>11. ASSUME NEW by \in {Owner, "admin"}, NEW force \in BOOLEAN, AskDelete(r, w, by, force)
         PROVE  IInv'
    <2> DEFINE set == IF w = World THEN Children ELSE {}
    <2>1. Loads(r, "delete", by, w, "none", set) /\ by \in Players \cup {Owner, "admin"}
      BY <1>11 DEF AskDelete
    <2>2. set \in SUBSET (Scripts \cup Games)
      BY <1>3
    <2> HIDE DEF set
    <2> QED
      BY <2>1, <2>2, <1>5, <1>4
  <1>12. ASSUME NEW p \in Players, AskStart(r, p, w)
         PROVE  IInv'
    <2>1. Loads(r, "start", p, w, "none", {}) /\ p \in Players \cup {Owner, "admin"}
      BY <1>12 DEF AskStart
    <2>2. ASSUME p # Owner
          PROVE  {World, w} \subseteq seenPublic
      <3>1. status[World] = "published" /\ (w \in Scripts => status[w] = "published")
        BY <1>12, <2>2 DEF AskStart, MayPlay, IInv, RowsAgree, ListedIsPublished
      <3> QED
        BY <3>1 DEF IInv, RowsAgree, Works
    <2> QED
      BY <2>1, <2>2, <1>1, <1>3, <1>4, LoadsKeeps DEF Saw
  <1> QED
    BY <1>6, <1>7, <1>8, <1>9, <1>10, <1>11, <1>12

\* Every step of a draft writes one of its three statuses.
LEMMA DraftsKeep ==
  ASSUME IInv, NEW w \in Works, CreateDraft(w) \/ DeleteDraft(w) \/ Submit(w) \/ WithdrawSubmission(w) \/ Reject(w)
  PROVE  IInv'
  <1>1. draft' \in Drafts
    BY DEF CreateDraft, DeleteDraft, Submit, WithdrawSubmission, Reject, IInv, Drafts
  <1>2. UNCHANGED <<rows, games, req>>
    BY DEF CreateDraft, DeleteDraft, Submit, WithdrawSubmission, Reject
  <1> QED
    BY <1>1, <1>2, DraftKeeps

\* Sessions that are ended leave the others as they were.
LEMMA WithoutTyped ==
  ASSUME GamesStand, NEW over
  PROVE  /\ Without(over) \in [Games -> Sessions \cup {NoGame}]
         /\ \A g \in Games : Without(over)[g] = (IF g \in over THEN NoGame ELSE games[g])
  BY DEF GamesStand, Without

\* A deleted world takes all its live games with it, a deleted script its own, and no other row goes.
LEMMA DeleteKeeps ==
  ASSUME IInv, NEW r \in Requests, Delete(r)
  PROVE  IInv'
  <1> DEFINE w == req[r].work
             gone == {w} \cup (IF w = World THEN Children ELSE {})
  <1>1. w \in Works /\ gone \in SUBSET Works
    BY DEF IInv, RequestsLetIn, Loaded, Children, Works
  <1>2. "deleted" \in Statuses /\ SetStatus(gone, "deleted")
    BY DEF Statuses, Delete
  <1>3. games' = Without(GamesOn(w)) /\ Ends(r) /\ draft' = draft
    BY DEF Delete
  <1>4. \A v \in Works \ gone : Exists(v) => Exists(v)'
    BY <1>2 DEF SetStatus, Exists
  <1>5. World \in Works /\ (w # World => World \notin gone)
    BY DEF Works
  <1> HIDE DEF w
  <1>6. RowsAgree' /\ seenPublic \subseteq seenPublic'
    <2> HIDE DEF gone
    <2> QED
      BY <1>1, <1>2, SetStatusAgrees DEF IInv
  <1>7. RequestsLetIn'
    BY <1>3, <1>6, EndsLetIn DEF IInv
  <1>8. GamesStand
    BY DEF IInv
  <1>9. /\ games' \in [Games -> Sessions \cup {NoGame}]
        /\ \A g \in Games : games'[g] # NoGame => games'[g] = games[g] /\ g \notin GamesOn(w)
    BY <1>3, <1>8, WithoutTyped
  <1>10. StrangersSawPublic'
    BY <1>6, <1>8, <1>9 DEF GamesStand, StrangersSawPublic
  <1>11. NoDanglingGame'
    <2> SUFFICES ASSUME NEW g \in Games, games'[g] # NoGame
                 PROVE  status'[World] \notin Absent /\ status'[games'[g].work] \notin Absent
      BY DEF NoDanglingGame, Exists
    <2>1. games'[g] = games[g] /\ games[g] # NoGame /\ w # World /\ w # games[g].work
      BY <1>9 DEF GamesOn
    <2>2. games[g].work \in Works \ gone
      BY <2>1, <1>8 DEF GamesStand, Sessions
    <2>3. Exists(World) /\ Exists(games[g].work)
      BY <2>1, <1>8 DEF GamesStand, NoDanglingGame
    <2>4. World \in Works \ gone
      BY <2>1, <1>5
    <2> QED
      BY <2>1, <2>2, <2>3, <2>4, <1>4 DEF Exists
  <1> QED
    BY <1>3, <1>6, <1>7, <1>9, <1>10, <1>11 DEF IInv, GamesStand

\* The request goes on from the access check to the insertion, and only the names of old games are added.
LEMMA RetireKeeps ==
  ASSUME IInv, NEW r \in Requests, Retire(r)
  PROVE  IInv'
  <1> DEFINE live == {g \in Games : games[g] # NoGame /\ games[g].player = req[r].by /\ games[g].work = req[r].work}
  <1>1. /\ req[r].op = "start"
        /\ req' = [req EXCEPT ![r].op = "retire", ![r].set = live]
        /\ UNCHANGED <<rows, draft, games>>
    BY DEF Retire
  <1>2. live \in SUBSET (Scripts \cup Games) /\ "retire" \in Operations
    BY DEF Operations
  <1> HIDE DEF live
  <1>3. RowsAgree' /\ RowsStand
    BY <1>1, RowsAlone DEF IInv
  <1>4. req' \in [Requests -> Loaded]
    BY <1>1, <1>2 DEF IInv, RequestsLetIn, Loaded
  <1>5. \A p \in Requests : req'[p].work = req[p].work /\ req'[p].by = req[p].by
    BY <1>1 DEF IInv, RequestsLetIn, Loaded
  <1>6. \A p \in Requests : req'[p].op \in {"start", "retire"} => req[p].op \in {"start", "retire"}
    BY <1>1 DEF IInv, RequestsLetIn, Loaded
  <1>7. ASSUME NEW p \in Requests
        PROVE  LetIn(req[p])'
    BY <1>5, <1>6, <1>3 DEF IInv, RequestsLetIn, LetIn, RowsStand
  <1>8. GamesStand'
    BY <1>1, <1>3, GamesAlone DEF IInv
  <1> QED
    BY <1>1, <1>3, <1>4, <1>7, <1>8 DEF IInv, RequestsLetIn

\* The new game was let in, its world and script are there, and the old ones it replaces are gone.
LEMMA StartKeeps ==
  ASSUME IInv, NEW r \in Requests, NEW g \in Games, Start(r, g)
  PROVE  IInv'
  <1> DEFINE new == [player |-> req[r].by, work |-> req[r].work, status |-> "playing"]
             left == Without(req[r].set)
  <1>1. GamesStand /\ RowsAgree
    BY DEF IInv
  <1>2. /\ games' = [left EXCEPT ![g] = new]
        /\ Ends(r) /\ UNCHANGED <<rows, draft>> /\ Exists(World) /\ Exists(req[r].work)
        /\ req[r].op = "retire"
    BY DEF Start
  <1>3. req[r].by \in Players /\ req[r].work \in Works /\ (req[r].by # Owner => {World, req[r].work} \subseteq seenPublic)
    BY <1>2 DEF IInv, RequestsLetIn, LetIn, Loaded
  <1>4. new \in Sessions
    BY <1>3 DEF Sessions
  <1>5. /\ left \in [Games -> Sessions \cup {NoGame}]
        /\ \A h \in Games : left[h] # NoGame => left[h] = games[h]
    BY <1>1, WithoutTyped
  <1> HIDE DEF left, new
  <1>6. /\ games' \in [Games -> Sessions \cup {NoGame}]
        /\ games'[g] = new
        /\ \A h \in Games \ {g} : games'[h] # NoGame => games'[h] = games[h]
    BY <1>2, <1>4, <1>5
  <1>7. RowsAgree' /\ RowsStand
    BY <1>1, <1>2, RowsAlone
  <1>8. RequestsLetIn'
    BY <1>2, <1>7, EndsLetIn DEF IInv, RowsStand
  <1>9. StrangersSawPublic'
    <2>1. new.player # Owner => {World, new.work} \subseteq seenPublic
      BY <1>3 DEF new
    <2>2. \A h \in Games \ {g} : games'[h] # NoGame /\ games'[h].player # Owner
                                => {World, games'[h].work} \subseteq seenPublic
      BY <1>1, <1>6 DEF GamesStand, StrangersSawPublic
    <2> QED
      BY <2>1, <2>2, <1>6, <1>7 DEF StrangersSawPublic, RowsStand
  <1>10. NoDanglingGame'
    <2>1. status[World] \notin Absent /\ status[new.work] \notin Absent
      BY <1>2 DEF new, Exists
    <2>2. \A h \in Games \ {g} : games'[h] # NoGame => status[World] \notin Absent /\ status[games'[h].work] \notin Absent
      BY <1>1, <1>6 DEF GamesStand, NoDanglingGame, Exists
    <2>3. status' = status
      BY <1>2 DEF rows
    <2> QED
      BY <2>1, <2>2, <2>3, <1>6 DEF NoDanglingGame, Exists
  <1> QED
    BY <1>2, <1>6, <1>7, <1>8, <1>9, <1>10 DEF IInv, GamesStand

\* Playing changes the status of a game or ends it, and never its world or its player.
LEMMA PlayKeeps ==
  ASSUME IInv, NEW g \in Games, Play(g)
  PROVE  IInv'
  <1>1. GamesStand /\ RowsAgree
    BY DEF IInv
  <1>2. UNCHANGED <<rows, draft, req>> /\ games[g] # NoGame
    BY DEF Play
  <1>3. RowsAgree' /\ RowsStand
    BY <1>1, <1>2, RowsAlone
  <1>4. RequestsLetIn'
    BY <1>2, <1>3, RequestsAlone DEF IInv, RowsStand
  <1>5. /\ games' \in [Games -> Sessions \cup {NoGame}]
        /\ \A h \in Games : games'[h] # NoGame =>
              games[h] # NoGame /\ games'[h].player = games[h].player /\ games'[h].work = games[h].work
    <2>1. ASSUME NEW st \in {"playing", "paused"}, games' = [games EXCEPT ![g].status = st]
          PROVE  <1>5!1 /\ <1>5!2
      <3>1. games[g] \in Sessions
        BY <1>1, <1>2 DEF GamesStand
      <3> QED
        BY <3>1, <2>1, <1>1, <1>2 DEF GamesStand, Sessions
    <2>2. CASE games' = Without({g})
      BY <2>2, <1>1, WithoutTyped
    <2> QED
      BY <2>1, <2>2 DEF Play
  <1>6. StrangersSawPublic'
    BY <1>1, <1>3, <1>5 DEF GamesStand, StrangersSawPublic, RowsStand
  <1>7. NoDanglingGame'
    <2>1. status' = status
      BY <1>2 DEF rows
    <2> QED
      BY <2>1, <1>1, <1>5 DEF GamesStand, NoDanglingGame, Exists
  <1> QED
    BY <1>2, <1>3, <1>4, <1>5, <1>6, <1>7 DEF IInv, GamesStand

\* The requests that write rows and end: saving, publishing, approving, withdrawing, restoring, failing.
LEMMA WritesKeep ==
  ASSUME IInv, NEW r \in Requests,
         Save(r) \/ Publish(r) \/ Approve(r) \/ Withdraw(r) \/ Restore(r) \/ Fails(r)
  PROVE  IInv'
  <1>1. RowsAgree /\ RequestsLetIn /\ draft \in Drafts /\ req[r].work \in Works
    BY DEF IInv, RequestsLetIn, Loaded
  <1>2. CASE Save(r)
    <2>1. RowsAgree' /\ RowsStand
      BY <1>1, <1>2, MaterializeStands DEF Save
    <2> QED
      BY <1>1, <1>2, <2>1, WritesKeeps DEF Save
  <1>3. CASE Publish(r)
    <2>1. RowsAgree' /\ RowsStand
      BY <1>1, <1>3, MaterializeStands DEF Publish
    <2> QED
      BY <1>1, <1>3, <2>1, WritesKeeps DEF Publish
  <1>4. CASE Approve(r)
    <2>1. RowsAgree' /\ RowsStand
      BY <1>1, <1>4, MaterializeStands DEF Approve
    <2>2. draft' \in Drafts
      BY <1>1, <1>4 DEF Approve, Drafts
    <2> QED
      BY <1>4, <2>1, <2>2, WritesKeeps DEF Approve
  <1>5. CASE Withdraw(r)
    <2> DEFINE ws == {req[r].work} \cup (IF req[r].work = World THEN {s \in Scripts : status[s] = "published"} ELSE {})
               st == IF req[r].by = "admin" THEN "withdrawn" ELSE "private"
    <2>1. SetStatus(ws, st) /\ Ends(r) /\ UNCHANGED <<draft, games>>
      BY <1>5 DEF Withdraw
    <2>2. ws \in SUBSET Works /\ st \in Statuses \ Absent
      BY <1>1 DEF Works, Statuses, Absent
    <2> HIDE DEF ws, st
    <2>3. RowsAgree' /\ RowsStand
      BY <1>1, <2>1, <2>2, SetStatusStands
    <2> QED
      BY <1>1, <2>1, <2>3, WritesKeeps
  <1>6. CASE Restore(r)
    <2>1. {req[r].work} \in SUBSET Works /\ "published" \in Statuses \ Absent
      BY <1>1 DEF Statuses, Absent
    <2>2. RowsAgree' /\ RowsStand
      BY <1>1, <1>6, <2>1, SetStatusStands DEF Restore
    <2> QED
      BY <1>1, <1>6, <2>2, WritesKeeps DEF Restore
  <1>7. CASE Fails(r)
    <2>1. RowsAgree' /\ RowsStand
      BY <1>1, <1>7, RowsAlone DEF Fails
    <2> QED
      BY <1>1, <1>7, <2>1, WritesKeeps DEF Fails
  <1> QED
    BY <1>2, <1>3, <1>4, <1>5, <1>6, <1>7

-----------------------------------------------------------------------------
\* Every step keeps the invariant.
LEMMA StepInv == IInv /\ [Next]_vars => IInv'
  <1> SUFFICES ASSUME IInv, [Next]_vars PROVE IInv'
    OBVIOUS
  <1>1. CASE UNCHANGED vars
    <2>1. draft' \in Drafts /\ UNCHANGED <<rows, games, req>>
      BY <1>1 DEF vars, rows, IInv
    <2> QED
      BY <2>1, DraftKeeps
  <1>2. ASSUME NEW w \in Works, CreateDraft(w) \/ DeleteDraft(w) \/ Submit(w) \/ WithdrawSubmission(w) \/ Reject(w)
        PROVE  IInv'
    BY <1>2, DraftsKeep
  <1>3. ASSUME NEW r \in Requests, NEW w \in Works,
               \/ AskSave(r, w) \/ AskPublish(r, w) \/ AskApprove(r, w) \/ AskRestore(r, w)
               \/ \E by \in {Owner, "admin"} : AskWithdraw(r, w, by) \/ \E force \in BOOLEAN : AskDelete(r, w, by, force)
               \/ \E p \in Players : AskStart(r, p, w)
        PROVE  IInv'
    BY <1>3, AsksKeep
  <1>4. ASSUME NEW r \in Requests, Save(r) \/ Publish(r) \/ Approve(r) \/ Withdraw(r) \/ Restore(r) \/ Fails(r)
        PROVE  IInv'
    BY <1>4, WritesKeep
  <1>5. ASSUME NEW r \in Requests, Delete(r)
        PROVE  IInv'
    BY <1>5, DeleteKeeps
  <1>6. ASSUME NEW r \in Requests, Retire(r)
        PROVE  IInv'
    BY <1>6, RetireKeeps
  <1>7. ASSUME NEW r \in Requests, NEW g \in Games, Start(r, g)
        PROVE  IInv'
    BY <1>7, StartKeeps
  <1>8. ASSUME NEW g \in Games, Play(g)
        PROVE  IInv'
    BY <1>8, PlayKeeps
  <1> QED
    BY <1>1, <1>2, <1>3, <1>4, <1>5, <1>6, <1>7, <1>8 DEF Next

\* The invariant holds of every state.
THEOREM Invariant == Spec => []IInv
  BY InitInv, StepInv, PTL DEF Spec

\* Statuses, drafts, games and requests have their types (publish_service.py, game_service.py).
THEOREM TypeCorrect == Spec => []TypeOK
  <1>1. IInv => TypeOK
    BY DEF IInv, RowsAgree, RequestsLetIn, GamesStand, Statuses, Drafts, Sessions, Loaded, TypeOK
  <1> QED
    BY <1>1, Invariant, PTL

\* The two columns that publish a script always agree (publish_service.py 720-740, 650-651).
THEOREM ColumnsAgree == Spec => []ListedIsPublished
  <1>1. IInv => ListedIsPublished
    BY DEF IInv, RowsAgree
  <1> QED
    BY <1>1, Invariant, PTL

\* Strangers never play what was never public, however long a start waits (game_service.py 233-266).
THEOREM AccessHolds == Spec => []StrangersSawPublic
  <1>1. IInv => StrangersSawPublic
    BY DEF IInv, GamesStand
  <1> QED
    BY <1>1, Invariant, PTL

\* However many starts and deletions pass each other, no live game is left without its rows
\* (delete_service.py 54-106, game_service.py 366-390).
THEOREM GamesHaveRows == Spec => []NoDanglingGame
  <1>1. IInv => NoDanglingGame
    BY DEF IInv, GamesStand
  <1> QED
    BY <1>1, Invariant, PTL

-----------------------------------------------------------------------------
(* A script from its generation to a game on it: ScriptGeneration, beside  *)
(* the rows above and apart from them.                                     *)

CONSTANTS None, Names, Canon, Additions, Few, Target, MinEndings, Enough, Attempts, MinEvents, EventCounts, Rows

VARIABLES people, used, seen, stage, tries, made, payload, script, session

Made == INSTANCE ScriptGeneration WITH world <- people, draft <- payload, game <- session

MadeFields == {"pack", "locals", "waits", "present", "events", "disabled", "endings", "chosen"}

\* An event waits for somebody of the world as it was read, or of those the script adds.
Knows(p) == p.waits \subseteq Made!NamesOf(seen) \union p.locals

\* The world is read once, before there is a draft; nobody is added once the events are made.
MadeInv ==
    /\ DOMAIN made = MadeFields /\ Knows(made)
    /\ stage \in {"none", "augment", "events"} => made.waits = {}
    /\ stage # "done" => payload = None /\ script = None
    /\ payload # None => Knows(payload)
    /\ script # None => Knows(script)
    /\ session # None => session.name = session.plays[1]

LEMMA MadeInit == Made!Init => MadeInv
<1> SUFFICES ASSUME Made!Init PROVE MadeInv
  OBVIOUS
<1>1. made = Made!Nothing /\ stage = "none" /\ payload = None /\ script = None /\ session = None
  BY DEF Made!Init
<1> QED
  BY <1>1 DEF MadeInv, MadeFields, Knows, Made!Nothing

\* The steps of the generation.
LEMMA MakingKeeps ==
  ASSUME MadeInv, NEW names, NEW flag, NEW n, NEW m,
         \/ Made!Begin(flag) \/ Made!Augment(names) \/ Made!Events(n, names) \/ Made!Endings(m, flag)
         \/ Made!Count \/ Made!Choose(names) \/ Made!Result
  PROVE  MadeInv'
<1>1. CASE Made!Begin(flag)
  <2>1. made' = [Made!Nothing EXCEPT !.pack = flag]
    BY <1>1 DEF Made!Begin
  <2>2. DOMAIN made' = MadeFields /\ made'.waits = {}
    BY <2>1 DEF Made!Nothing, MadeFields
  <2>3. payload' = None /\ script' = None /\ session' = session
    BY <1>1 DEF MadeInv, Made!Begin
  <2> QED
    BY <2>2, <2>3 DEF MadeInv, Knows
<1>2. CASE Made!Augment(names)
  <2>1. made' = [made EXCEPT !.locals = names] /\ stage = "augment" /\ stage' = "events"
        /\ payload' = payload /\ script' = script /\ session' = session /\ seen' = seen
    BY <1>2 DEF Made!Augment
  <2>2. DOMAIN made' = MadeFields /\ made'.waits = {}
    BY <2>1 DEF MadeInv, MadeFields
  <2> QED
    BY <2>1, <2>2 DEF MadeInv, Knows
<1>3. CASE Made!Events(n, names)
  <2>1. /\ made' = [made EXCEPT !.events = n, !.waits = names \intersect Made!Cast, !.disabled = ~(names \subseteq Made!Cast)]
        /\ stage = "events" /\ stage' = "endings"
        /\ payload' = payload /\ script' = script /\ session' = session /\ seen' = seen
    BY <1>3 DEF Made!Events
  <2>2. DOMAIN made' = MadeFields /\ made'.waits = names \intersect Made!Cast /\ made'.locals = made.locals
    BY <2>1 DEF MadeInv, MadeFields
  <2> QED
    BY <2>1, <2>2 DEF MadeInv, Knows, Made!Cast, Made!NamesOf
<1>4. CASE Made!Endings(m, flag) \/ Made!Count \/ Made!Choose(names)
  <2>1. /\ DOMAIN made' = MadeFields /\ made'.waits = made.waits /\ made'.locals = made.locals
        /\ stage \notin {"none", "augment", "events", "done"} /\ stage' \notin {"none", "augment", "events", "done"}
        /\ payload' = payload /\ script' = script /\ session' = session /\ seen' = seen
    <3>1. CASE Made!Endings(m, flag)
      BY <3>1 DEF MadeInv, MadeFields, Made!Endings
    <3>2. CASE Made!Count
      BY <3>2 DEF MadeInv, MadeFields, Made!Count
    <3>3. CASE Made!Choose(names)
      BY <3>3 DEF MadeInv, MadeFields, Made!Choose
    <3> QED
      BY <1>4, <3>1, <3>2, <3>3
  <2> QED
    BY <2>1 DEF MadeInv, Knows, Made!NamesOf
<1>5. CASE Made!Result
  <2>1. /\ payload' = made /\ stage' = "done" /\ made' = made /\ script' = script /\ session' = session
        /\ seen' = seen /\ stage = "result"
    BY <1>5 DEF Made!Result, Made!Normalize
  <2> QED
    BY <2>1 DEF MadeInv, Knows, Made!NamesOf
<1> QED
  BY <1>1, <1>2, <1>3, <1>4, <1>5

\* What the author and the players do.
LEMMA PlayingKeeps ==
  ASSUME MadeInv, NEW names, NEW playable, NEW flag, NEW c,
         Made!Edit(names, playable) \/ Made!Materialize(flag) \/ Made!Start(c) \/ Made!Leave \/ UNCHANGED Made!vars
  PROVE  MadeInv'
<1>1. CASE Made!Edit(names, playable) \/ UNCHANGED Made!vars
  <2>1. UNCHANGED <<seen, stage, tries, made, payload, script, session>>
    BY <1>1 DEF Made!Edit, Made!vars
  <2> QED
    BY <2>1 DEF MadeInv, Knows, Made!NamesOf
<1>2. CASE Made!Materialize(flag)
  <2>1. /\ payload # None /\ script'.waits = payload.waits /\ script'.locals = payload.locals
        /\ UNCHANGED <<seen, stage, made, payload, session>>
    BY <1>2 DEF Made!Materialize
  <2> QED
    BY <2>1 DEF MadeInv, Knows, Made!NamesOf
<1>3. CASE Made!Start(c)
  <2>1. /\ session' = [plays |-> <<c.name, c.row>>, name |-> c.name, opened |-> script.public]
        /\ UNCHANGED <<seen, stage, made, payload, script>>
    BY <1>3 DEF Made!Start
  <2>2. session'.name = session'.plays[1]
    BY <2>1
  <2> QED
    BY <2>1, <2>2 DEF MadeInv, Knows, Made!NamesOf
<1>4. CASE Made!Leave
  BY <1>4 DEF Made!Leave, MadeInv, Knows, Made!NamesOf
<1> QED
  BY <1>1, <1>2, <1>3, <1>4

LEMMA MadeStep == MadeInv /\ [Made!Next]_(Made!vars) => MadeInv'
<1> SUFFICES ASSUME MadeInv, [Made!Next]_(Made!vars) PROVE MadeInv'
  OBVIOUS
<1>1. CASE UNCHANGED Made!vars
  BY <1>1, PlayingKeeps
<1>2. ASSUME NEW names, NEW flag, NEW n, NEW m,
             \/ Made!Begin(flag) \/ Made!Augment(names) \/ Made!Events(n, names) \/ Made!Endings(m, flag)
             \/ Made!Count \/ Made!Choose(names) \/ Made!Result
      PROVE  MadeInv'
  BY <1>2, MakingKeeps
<1>3. ASSUME NEW names, NEW playable, NEW flag, NEW c,
             Made!Edit(names, playable) \/ Made!Materialize(flag) \/ Made!Start(c) \/ Made!Leave
      PROVE  MadeInv'
  BY <1>3, PlayingKeeps
<1> QED
  BY <1>1, <1>2, <1>3 DEF Made!Next

\* Whomever an event of a script waits for takes part in a game on it, whatever the author did to the
\* world meanwhile, unless he took that character out of it: as a row of the world that is not the
\* player's, as one of those the script brought along, or as the player himself.
LEMMA WaitsAreServed == MadeInv => Made!EventsHaveTheirCast
<1> SUFFICES ASSUME MadeInv, session # None, script # None, NEW n \in script.waits,
                    n # session.name, ~(n \in Made!NamesOf(seen) /\ n \notin Made!NamesOf(people))
             PROVE  n \in Made!Npcs
  BY DEF Made!EventsHaveTheirCast
<1>1. n \in Made!NamesOf(seen) \union script.locals /\ session.name = session.plays[1]
  BY DEF MadeInv, Knows
<1>2. CASE n \in Made!NamesOf(people)
  <2>1. PICK c \in people : c.name = n
    BY <1>2 DEF Made!NamesOf
  <2>2. <<c.name, c.row>>[1] = n
    BY <2>1
  <2>3. <<c.name, c.row>> # session.plays
    BY <1>1, <2>2
  <2> QED
    BY <2>1, <2>3 DEF Made!Npcs
<1>3. CASE n \notin Made!NamesOf(people)
  BY <1>1, <1>3 DEF Made!Npcs, Made!Attached
<1> QED
  BY <1>2, <1>3

\* publish_service.py, game_service.py: for every world, pack of the original and number of edits, an
\* event that waits for somebody finds him in the game.
THEOREM CastIsComplete == Made!Spec => []Made!EventsHaveTheirCast
  BY MadeInit, MadeStep, WaitsAreServed, PTL DEF Made!Spec

=============================================================================
