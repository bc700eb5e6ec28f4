# InkWild in TLA+

InkWild is an interactive-fiction service: players act in a story that language
models narrate, authors have worlds and scripts generated, and both spend credits.
What is hard to get right in it is rarely a single request but what happens between
requests and around answers that may be anything: a turn takes minutes and works on a
copy of the session it read before, a generation outlives the connection that asked
for it, a payment can fail after the goods were delivered, a model leaves out half of
what it was asked for, and all of it must survive dropped connections, dead processes
and several workers doing the same chore at once.

This directory holds models of these parts, the TLC configurations that check them on
small instances, and theorems about them, proved with TLAPS for all values of their
constants. Source paths below are relative to `src/backend`.

To check: `tlc -workers 2 -config credit_safe.cfg MCCreditHolds`, and likewise for the
other configurations (*Runs* names their modules); `tlapm CreditHoldsProofs.tla`, and
likewise, for the proofs.

| modules | what they are |
|---|---|
| `CreditHolds` | wallet, ledger, reservations, settlement, sweep and repair of one user's credits |
| `GameTurn` | one game session under concurrent requests: lock, version check, turns, retries, ticks |
| `GenerationTasks` | one user's generation tasks: limit, worker, event log, settlement, stream |
| `QualityGate`, `Refining`, `Pictures` | a draft: its versions, judges and the gate to the public; a refinement and its undoing; one picture from the prompt to the draft |
| `Publication` | a world, its scripts and their games: every transition of status, deletion, the start of a game |
| `WorldGeneration` | one run of `create_world`: nodes, budget, contract, repair |
| `Research`, `CastBuilding`, `Chronicle`, `QualityVote`, `VisualStyle`, `PictureStage`, `FreeStarts`, `Pulse` | what such a run is made of, each at its own size |
| `ScriptGeneration` | a script from its generation to the cast of a game on it |
| `TurnPipeline`, `TurnStream` | the three coroutines of a turn in the engine, and the order of events its consumer relies on (the abstract specification) |
| `DirectorAnswer`, `PartialAnswer`, `NpcActing`, `Recall`, `Compaction`, `Reflection` | what a turn is made of: the director's answer, whole or cut, an NPC's calls, its memories, the window of messages |
| `Story`, `EventConditions` | what a turn does to the game state; the condition of an event from tree to answer |
| `ModelSlots`, `LlmCalls` | which model a slot is bound to; calls to models with slots, keys, retries and booking |
| `MC...` | small instances: sizes, symmetry, and the parts that are checked side by side |
| `...Proofs` | theorems and proofs, eight modules |

## Inventory

The backend is one FastAPI application (`main.py`). Endpoints under `api/` call
`services/`, which keep their state in Postgres through SQLAlchemy (READ COMMITTED,
`expire_on_commit=False`); `engine/` turns a player's input into a story through
`llm/`. Redis holds the session lock and the rate-limit buckets. Four kinds of
activity run at the same time:

- request handlers, most of them server-sent event streams that live for minutes;
- coroutines detached from any request: generation workers, off-stage ticks,
  compactions, reflections, judges, created with `asyncio.create_task` and kept nowhere
  but in the process's memory;
- two loops per process (`main.py` 51-81): the credit sweep, every 300 s, and the
  sweep of pending quality jobs, every 60 s;
- administrators' commands and command-line tools.

They meet in database rows (nothing but `SELECT ... FOR UPDATE`, relative updates,
a version column and one advisory lock orders them), in the Redis lock, in the local
state of one turn's or one generation's coroutines, and in the in-process callbacks
that account for the use of models.

`PROJECT.json` lists all 34 components with their sources and what is left out of each.
In short:

**Money** (`services/credit_service.py`, `models/credit.py`). *State*: a wallet per
user, an append-only ledger, one hold per metered action. *Hard*: status checks without
a row lock, commits that fail after they were applied, dead workers, several sweep
loops, actions that outlive their hold, a repair that reads in three statements.
*Correct when*: balance and ledger agree, held units move with the holds, each hold is
resolved once, finally, and eventually, nobody spends what is reserved. **Modelled**.

**Play.** *Sessions and turns* (`services/game_service.py`, `api/game.py`), *session
lock* (`services/session_lock.py`): a row with a version, a game state, a snapshot, a
retry count; messages; the history of the case board. The copy of the row is minutes old
when it is written, the lock is shorter than a turn may be, two of the three ways of
writing the row do not check its version. Correct when committed turns stay however
requests overlap, a retry takes back the last action and nothing else. **Partly**: starting and
retiring a session is in `Publication`, what an opening writes is not modelled.
*One turn in the engine* (`engine/orchestrator.py`, `director_agent.py`): three
coroutines share the turn's local state; the answer streams in, in any order of fields,
and may be asked for again. Correct when events come whole and in order. **Partly**: the
path without `runtime_architecture_v2_enabled` (off by default) is left out.
*The director's answer*, *NPCs' actions*, *memory and reflection*: model output that may
be cut, malformed or late; cursors that drop what was summarized. **Modelled**.
*Story algorithms*, *conditions of events*: functions of the state of a turn whose
thresholds and records are spread over ten files. **Modelled**. *Off-stage life*:
**partly** (v1's rule engine for plans is not run by the v2 turn).

**Authors.** *Generation tasks* (`services/generation_task_service.py`, `api/workshop.py`):
a limit per user, four kinds of worker, an event log that clients follow over connections
that drop. Correct when the limit holds, success is paid for and failure is not, a failed
task leaves its draft alone, a stream that ends has said how. **Partly** (snapshots and
stage contents are in other modules). *World generation* (`world_creator_agent_v2.py`,
`world_generation_orchestrator.py`), *research*, *cast and chronicle*, *style and
pictures*, *free beginnings*, *quality vote*, *images*, *script generation*: model output
that renames, reorders, duplicates or omits; nodes that succeed and then overdraw the
budget. Correct when what is delivered keeps its contract and is at one with itself.
**Modelled**, the pipeline, images and scripts **partly**. *Quality jobs and publish
gate*, *refinement of a draft*, *publication and review*, *deletion*: versions and
verdicts of a draft that judges, refinements, late images and edits work on as copies.
Correct when only what a judge passed (or an administrator waived) becomes public and the
columns that publish agree. **Modelled**.

**Models.** *Key pool and router* (`llm/router.py`, `key_pool.py`), *model registry and
slots* (`services/model_management.py`): semaphores, cooldowns, timeouts, retries;
bindings that are probed over the network. Correct when no slot is lost, nothing is
spliced or booked twice, what is bound exists and was probed. **Modelled**; vendors'
formats and the best-effort usage sink are not (**partly**).

**Not modelled**: rate limiter (one atomic Redis script) and creation quota (two
concurrent increments may count as one; the per-user limit bounds what that can do); the
engine's guards (functions of one string); authentication (library cryptography, single
rows); administration (single-row updates; those on credits are in `CreditHolds`);
notifications and feedback (appended rows); tools (`cli`, `seeds`, `eval`, migrations);
the client (what the server sees of it, requests, retries, dropped and resumed streams,
are actions of the models). In the source files above, dead and switched-off code is left
out: the v1 director and turn, `world_creator_agent.py`, `intent_system.py`,
`heavy_critic_*`, `light_critic_lore`, `build_lore_pack`.

The hazards of the code, each at its line, and the properties that would catch them are
listed in `PROJECT.json`. Three of the forty have no property, for the reason given there:
the double in-flight check, which the code allows; prose before its commit, by design; and a
dead worker's task, which ends only if its user comes back.

## How the models are composed

Where components share state, one module has them both: the sweep and the actions in
`CreditHolds`; judges, edits, refinements' writes and publication in `QualityGate`; starts
and deletions in `Publication`; the case-board follow-up, ticks and requests in `GameTurn`;
director, NPCs and narrator in `TurnPipeline`. Where one component only sees what another
hands over, the interface is a choice over what the other can hand over: the orchestrator
is a free order of events to `GameTurn`, and `TurnPipeline` shows which orders there are:
it refines `TurnStream`, what the consumer in `game_service.py` relies on.

The stages of a turn, or of a generation, run after one another on a scratch state of
their own. They are checked side by side: `MCTurnPipeline`, `MCGeneration`, `MCStory`,
`MCQualityGate` have a variable `which` that says which part an execution is about, and
the parts' variables, by INSTANCE, over shared slots `s1`, `s2`, .... The parts share no
state, so this loses no interleaving. `MCCreditLive` in the same way checks `CreditHolds`
under two sets of assumptions.

## CreditHolds

One user, a set of `Actions` that each reserve at most one hold, a set of `Sweepers`
(one per process), and an administrator. Each action has a program counter through
gate, run, check, settlement and error handling; each sweeper one through the two
lists of a pass; the repair one through its three reads.

| model | code (`services/credit_service.py`) |
|---|---|
| `ReadWallet`, `CreateWallet`, `VisitWallet` | `get_or_create_wallet`: look, insert with signup row, on a conflict read the winner's |
| `Reserve`, `Refuse`, `GateError` | `reserve` and the callers' gate (fail open or closed) |
| `Work`, `End` | model calls and the end of the stream or worker |
| `SettleCheck`, `Settle`, `SettleReread`, `SettleRecover` | `settle_hold`: unlocked read; `_settle_core`; the except branch |
| `Charge`, `SettleFree`, `ReleaseOnly` | `_settle_core` delivered, not delivered, `_release_only` |
| `SweepLoadFailed`, `Replay`, `ReplayReread`, `GiveUp` | the first half of `sweep_holds` |
| `SweepLoadOrphans`, `ChargeOrphan`, `OrphanReread`, `ForgiveOrphan`, `Forgive` | the second half |
| `Crash`, `SweepCrash`, `Age` | death or cancellation at any await; the TTL passes |
| `Grant`, `RepairRead`, `RepairWrite` | `grant`; `reconcile(repair=True)` |

Every UPDATE of the wallet is relative and commits with its ledger row and its hold,
so a transaction is one step. What the code does not make atomic is kept apart: the
read of a hold and the transaction that acts on it, the list of a pass and the
treatment of each hold, the reads of a repair. A commit that raises may have been
applied: `Settle`, `Replay`, `ChargeOrphan` and `GateError` allow both. The ledger is
kept as sums (in all, of claw-backs, per hold), usage as its price. What SQLAlchemy
does is modelled where it decides something: a rollback expires every listed object,
so the pass ends at the next one it touches; without a rollback `db.get` returns the
object as it was listed.

Two history variables say what the state of the code does not: `repaired`, whether a
repair has written, and `overrun`, by how much charges have exceeded what they had
reserved. `NoOverspend` bounds what is available by it: `balance - held >= -clawed -
overrun` until a repair has written.

**Bounds** (`credit_safe`). Two actions, one sweep loop, an estimate of 2, a cost of 3
(beyond the estimate), a signup grant of 3 (one estimate but not two), claw-backs of one
unit, two attempts of a settlement (5 in the code: one failure that is retried, one that
gives up), repairs at any time. `MaxUse` bounds the usage of an action, `MaxAdjusted` the
grants and claw-backs; attempts are counted no further than they are compared.
`credit_live` has two executions: two actions fairly scheduled with one sweep loop, and
one action that outlives the TTL beside two sweep loops.

**Fairness** (`Fairness`, used by `credit_live`). Weak fairness of each action's
steps and of ageing: the event loop runs coroutines, time passes. Strong fairness of
the sweep's steps: a pass can always be cut short by an exception, but the loop
catches it and comes back (`main.py` 51-62), so a step that is enabled again and
again is taken. It is *not* assumed that a settlement ever succeeds: `Settle` and
`Replay` may fail for ever, and then `HoldResolved` rests on the cap on attempts. Nor
is any crash assumed not to happen.

## GameTurn

One session and a set of `Requests`, each used once and of any of the `Kinds`. A
request that takes the lock loads the row into `mine` and goes through the handler of
its kind. The game state is reduced to what was added to it: the turns and the case-board
operations, each named after the request that made it, so that a lost update is a missing
name. Of an off-stage tick only that matters: it writes back the whole state it read.
`round_number` is the number of turns; `rounds_played`, which a retry does not roll back, is the
separate `rounds`.

| model | code |
|---|---|
| `Acquire`, `Refused`, `Release`, `Expire` | `services/session_lock.py`: SET NX EX, 429, unconditional DEL, expiry |
| `Load`, `Admitted`, `Capped` | loading and the checks of each endpoint, the cost cap |
| `Flush` | `db.commit()`: only the changed columns, no version check |
| `Save`, `Stale` | `save_session_state`: WHERE version = ..., or rollback and 409 |
| `BeginAction`, `Restore`, `ResumeGame` | `process_action`, `retry_action`, `resume_game` up to the orchestrator |
| `Narrate`, `CommitTurn`, `Aftermath`, `Done`, `FollowRefresh`, `FollowCommit` | `_consume_turn` and `_commit_case_board_followup` |
| `Quit`, `QuitSave` | withdraw and test exit |
| `Visit`, `ChangeStatus` | pause and abandon |
| `TickRead`, `TickWrite`, `TickFail` | `_run_offstage_ticks` of `engine/orchestrator.py` |
| `Raise`, `Die` | an exception or disconnect with its `finally`; a death without one |

A save and the refresh that follows are one step. Memories and costs are left out: they
are written in the same transactions and read only into prompts (`Reflection` has what
becomes of them).

**Overlapping requests.** Nothing keeps a request within `session_lock_timeout` (60 s, against
120 s that one model call may take, `config.py`), or a tick from writing back a state that
a turn has replaced meanwhile. Both happen in the model: `Expire` frees the key whoever is still
at work, `TickWrite` writes what was read. Two history variables record it, `outlived` (some
request was still at work when its lock expired) and `overtaken` (some tick wrote over turns or
boards it had not read), so that a property can say what it promises until then:

- `NoLostTurn`, that nobody overwrites a committed turn, holds however many requests have
  outlived their locks and overlap: the version check is enough. It ends with the first tick that
  overtakes a turn, which the code does allow (*Disagreements*), and says that nothing else can.
- `NoOrphanMessages`, `NoLostBoard`, `RollbackOnlyLast`, `RetryBound` hold as long as neither has
  happened (`Undisturbed`), with ticks running all the while. Overlapping requests break the
  first three, as TLC shows without the condition: a retry removes the last two messages by
  position, whosever they are by then.
- `LockFreed` needs neither.

**Bounds.** Each request is used once, so the number of requests bounds everything: four
for `turn_safe` (an action, its retry, and two that disturb them), two for `turn_live`, enough
for one to outlive its lock and the other to write beside it. `MaxRetries` is 1 instead of 3:
the second retry is already the one to refuse. `MaxTicks` is the number of ticks ever
scheduled, 1. In `turn_safe` a constraint ends a behaviour at the first step after which the
properties promise nothing (`Undisturbed` no longer holds); in `turn_live` there is none.
`CHECK_DEADLOCK FALSE`, because a finite set of requests is used up.

**Fairness.** `WF(Expire)`: a Redis key with an expiry expires. `WF(Handler(r))`:
a coroutine goes on, as every model call has a timeout. No client is required to send
anything, and `Die` is always possible.

## GenerationTasks

One user, a set of `Tasks` (the requests that create them), some of them recognized
worlds from before (`Earlier`), and `Streams`. Creation is two steps, `Count` and
`Insert`, between which the transaction holds the advisory lock; the worker of every
kind is one program counter through the phases they share.

| model | code (`services/generation_task_service.py`) |
|---|---|
| `AskNew`, `AskOn` | the endpoints of `api/workshop.py` with their "in flight" guards |
| `Count`, `Insert`, `InsertFails` | `create_generation_task`: `pg_advisory_xact_lock`, `_reap_stale_tasks`, count, insert, commit |
| `Reserve`, `Boot`, `MarkRunning` | the gate, the first event, `_mark_task_running` |
| `RecordEvent` | `_record_event`: row, sequence number, status, heartbeat, result |
| `Progress`, `Result`, `GiveUp`, `Rewrite`, `Fallback`, `Finish`, `Enqueue` | the bodies of the four workers |
| `Raise`, `Report`, `Settle`, `Handler` | their except and finally clauses |
| `Die`, `Silence`, `Look` | a dead process; half an hour without heartbeat; a hung worker that wakes up |
| `Connect`, `ReadTask`, `ReadRows`, `Drop` | `stream_task_events` and its client |

Of the log the model keeps whether an `error` or `done` stands in it, of a draft how
often each task wrote it: contents and revisions are in `QualityGate` and `Refining`.
`Then` lets each commit of a worker raise after it was applied, which takes it to the
handler its exception reaches.

**Assumption.** `MayHang` names the tasks whose worker may be silent for
`STALE_TASK_AFTER_SECONDS` (1800 s) and alive. The comment at lines 31-36 chooses the
threshold so that a live worker always has a heartbeat within it; a single model call
with its retries is the only place where it could be exceeded. `FailedIsFinal`,
`NoLateWrite` and the second half of `PaidIfSucceeded` exclude those tasks; the limit,
the first half (what was free never succeeds) and the streams do not need it.

**Bounds.** A limit of 1 instead of 10, two new requests and an earlier task, one
stream: two creations race for one place, a refinement and a continuation find a
draft to work on, one task may hang and be reaped by the other. The earlier task's
clients have followed it to its end, so the stream follows one of the new. No counter
grows. `CHECK_DEADLOCK FALSE`, because each request is used once. No fairness is assumed
and no liveness stated: nothing in the code makes a task end whose process died.

## QualityGate, Refining, Pictures

One draft, the rows of its verdicts, the coroutines that judge (the sweep of each process,
and one launched with each job), and whoever works on a copy of the draft.

| model | code |
|---|---|
| `Edit`, `Result`, `AskImage`, `PutImage`, `RefineStart`, `RefineWrite`, `Carry` | the versioned writes of `api/workshop.py` and `generation_task_service.py`; the verdict a refinement takes over |
| `Enqueue`, `RunJob`, `Verdict`, `JudgeFails`, `Die`, `Sweep` | `world_quality_scorer.py`: enqueue, claim, judge, recover after thirty minutes |
| `Waive` | `api/admin_review.py` |
| `PublishLoad`, `Gate`, `PublishWrite`, `AdminPublish` | `publish_service.py`: load, find the verdict by hash, publish the loaded payload |

A payload is a name and its hash that payload; `cleared` is the history of what a judge
passed, an administrator waived, or took over such a verdict. `JudgeInTime` says that no
judge outlives the thirty minutes after which it is taken for dead; it is an antecedent
inside `OneJudge` and `VerdictIsFinal`, and `OnlyVettedIsPublic` does not need it.
`quality_status` (no guard reads it) and the deletion of a draft are left out.

`Refining` has the two concurrent jobs of a refinement, their retries, the two writes of
the copy, the failure of any step, the snapshot, the undo and the owner's edits; a text is
the number of the refinement that wrote it. `Pictures` has two requests for pictures of one
draft, each through its prompts, the generator's retries, the upload and the write back.

**Bounds** (`gate_safe`). Two payloads, two revisions, two rows, one sweep that may die,
one attempt; two ids, one person, one flag, two refinements and one edit; two requests for
two targets. The case each property is about (a copy that is older than the draft, a row
recovered while it is judged, a second write that fails) needs two of each.

## Publication

One world, its scripts, players and their games; a request is in flight between what it
loaded and what it writes, and the mapper writes only the columns that differ from what was
loaded.

| model | code |
|---|---|
| `AskSave`, `Save`, `AskPublish`, `Publish`, `Submit`, `Approve`, `Reject`, `Withdraw`, `Restore` | `publish_service.py`, `engine/content_status.py`, `api/workshop.py`, `api/admin_review.py`, `api/admin_content.py` |
| `AskDelete`, `Delete` | `delete_service.py`: guards, snapshot of the scripts, purge of the games |
| `AskStart`, `Retire`, `Start`, `Play` | `start_game`: access check, retirement, a model call, insertion |

**Bounds**: a script, the owner and a stranger, two overlapping requests, three names of
games. Names of games are used again, so histories are unbounded in length.

## WorldGeneration and its parts

`WorldGeneration` is one run: `at` is the node of the pipeline, `row` the persisted rows,
`calls` what was planned and made, `draft` what builders made, `world` the payload. A name
is a pair, whom it names and how it is spelt, because names are matched without the note
in brackets in one place and literally in another. What a model answers is any answer
that the parser lets through: `KeepAll`, `PruneToCanon`, `EnsureMustHave`, `OnePerPerson`,
`UnionBack`, `Deduped`, `BuiltEvents`, `RepairCast`, `Repaired`, `Backfilled` are what the
code makes of it; `Start`, `Overdrawn`, `Raises`, `Finish`, `Killed` the shell of
`world_generation_orchestrator.py`.

| part | code | correct when |
|---|---|---|
| `Research` | `ip_recognizer.py`, `ip_research_pipeline.py`, `continue-generation`: recognition with its votes, the author's choice, two searches, compilation, aliases | a name is in one entry |
| `CastBuilding` | `character_roster_builder.py`, `relations_pack_builder.py`: batches, binding to the roster, the second round, relations | who was answered for is in the cast, as himself |
| `Chronicle` | `shared_events_builder.py`, `events_data_builder.py`: shared past with its supplement, batches of events with their ids | no event is lost to another's id or title |
| `Pulse` | `_run_with_pulse`: the relay of milestones | shown in the order they were told |
| `QualityVote` | `world_critic_service.py`: one judge, a second, a third | a low score passes only when outvoted; no judge seconds itself |
| `VisualStyle`, `PictureStage` | `cover_brief.py`, `_run_visual_brief_stage`, `_run_images`: style and concurrent pictures | one style that suits; each picture where it belongs |
| `FreeStarts` | `_run_free_start_stages`: two calls of a model | beginnings name what exists, and their own character |
| `ScriptGeneration` | `create_script` to `start_game`, while the world is edited | events wait for people who are there |

**Bounds** (`generation_safe`). One person of the original and one who is not, one place in
three spellings, budgets of 18 calls and 24 nodes so that a run may fit or overdraw, an
overrun of 0 or 2 calls per node, 3 or 6 events (below the builder's minimum of 5, and at the 6 the
contract asks for). The parts have
two or three names, batches of two, two attempts, listed in `MCGeneration`.

## TurnPipeline and its parts

| model | code |
|---|---|
| `Stream`, `Answer`, `Garbled`, `ProviderFails`, `Again` | `DirectorAgent.run_v2`: fields, the whole answer, the next attempt |
| `Launch`, `Look`, `WakeForProgress`, `WakeForTask`, `Resume`, `Flush` | the wait loop of `_process_action_v2` (1684-1707) |
| `NpcsStart`, `NpcsEnd`, `Light`, `Weave` | the block of the NPCs |
| `Tell`, `NarratorFails`, `NarratorEnds`, `Core`, `AwaitDirector`, `Book`, `Show`, `EndStory`, `Finish`, `Late` | prose, the rest of the answer, commit, ending, `done`, the late case board |
| `Abandon`, `GiveUp` | the generator is closed; the attempts are used up |

What a field says is the number of the attempt it comes from, which is what a mixture of
attempts would show. `TurnStream` is the abstract specification: `last`, the last event
handed over, and the order in which `GameService._consume_turn` can take them.

`DirectorAnswer` (`run_v2`, `director_validator.py`): attempts in both modes, recalls,
what is made of an answer. `PartialAnswer` (`try_partial_parse`): an answer cut anywhere.
`NpcActing` (`npc_agent.py`, climax and weaving): queries within a limit. `Recall`
(`memory_manager.py`): memories one by one or in a batch. `Compaction` (`compressor.py`,
`_claim_compression`), with the code's own numbers (30 messages kept, a gap of 10, a
threshold of 20, a cap of 72). `Reflection` (`npc_reflection_service.py`): the cursor over
rows that become visible in another order than they are numbered.

In `DirectorAnswer` a world without NPCs, or without events, has nothing to check a name against
and lets every name through, as `director_validator.py` does; and in tool mode an exception of the
first calls reaches the turn as it is, while JSON mode names the provider's failure.

**Bounds** (`pipeline_safe`): two attempts, fields in any order, every mode of a turn;
three attempts of the director's answer; two NPCs; 64 rounds of compactions, one of which
may fail; six rows of memory. In `pipeline_hang` three attempts, fields in the order of
the schema.

## Story, EventConditions

| model | code |
|---|---|
| `ProcessAction`, `RetryAction`, `ResumeGame`, `FailTurn` | how a turn begins and that it may come to nothing: `process_action`, `retry_action`, `resume_game` of `services/game_service.py` |
| `Play` with `Tick` | steps announced earlier, and the rule engine before the director speaks (`world_simulator.py`) |
| `Direct` with `Grounding` | the director's answer, the actions of the NPCs, the player's claim grounded or exposed, the act |
| `Update`, `Fire` | `state_manager`; events from their three sources, clock, condition and intent |
| `Close` | the case board, the count of turns at the climax, the ending, the log of the absent |
| `OffstageTick` | the plans of the absent, in the background |

A retry goes back to the state the last action began with, the climax counter included, and plays
again under the next number, since `rounds_played` is not taken back; a recap plays a turn under
the number of the one before it; a pause takes no notice of an ending, so an ended session can be
resumed and played on. `again` has what a retry needs. Beside the state stand three histories that
only properties read: `said`, which claims were made on which premise and who backed them;
`turns`, how many of the turns that stand were counted; `spared`, how many endings were due and
did not last, because the client left between the save and the ending or a pause took it back.
All three go back with the state. So `EndsInTime` speaks of the turns that stand, and
`FactsAreGrounded` of the premise of the very turn in which a claim was made: one key may be claimed
on several.

A world is a record of its data: events with conditions as tables of nodes, milestones, claims,
endings, schedules. `MCStory` has four: a script with events, the same retold without them and
with two retries or recaps, a free world with claims on two authorities and on a fact, and a
smaller one with a retry or a recap (`last`, `extra`, `inputs` bound the turns, the retries and
recaps, and what is typed). Thresholds are scaled down (climax at round 4, a forced ending from
round 3) so that a whole story fits: every comparison is passed in both directions.
A claim without a key, which the code files under the empty one, is not modelled.
`EventConditions` has trees of two levels, their text as tokens, the parser, and what is stored
of a condition that cannot be read.

## ModelSlots, LlmCalls

`ModelSlots`: providers, models, probes and bindings under two administrators; a binding
reads, asks the model over the network, and writes. `LlmCalls`: a call takes a slot, tries
keys, waits for its first token, may retry, streams, and gives the slot back when its
generator is closed, whatever closed it.

**Fairness** (`llm_safe`): `WF(Proceeds(c))` for each call: the timeouts of router and SDK
end a provider's silence, the sleep before a retry is a timer, the semaphore wakes the
first in its line, the collector takes what nobody refers to.
**Bounds**: two calls of three modes, three keys, one slot per pool, one retry; the
round-robin counter counts modulo 6, a multiple of every number of usable keys.

## Runs

| run | module | shows | distinct states |
|---|---|---|---|
| `credit_safe` | `MCCreditHolds` | two actions, one sweep loop, grants, claw-backs, repairs: until a repair has written, balance = ledger and nobody overspends; a hold is charged once, a settled one is final, held units move with the holds | 1.8 M |
| `credit_live` | `MCCreditLive` | every hold is resolved although settlements may fail for ever; two sweeps and an action that outlives the TTL leave a balance the ledger explains and lock nothing | 63 k |
| `turn_safe` | `MCGameTurn` | four requests and a tick, until one has outlived its lock or the tick has overwritten a turn: no message outlives its turn; no case board is lost | 2.0 M |
| `turn_live` | `MCGameTurn` | requests that outlive their lock and overlap, conflicts, a tick: no turn is overwritten; the lock is freed | 263 k |
| `tasks_safe` | `GenerationTasks` | payment follows the outcome, no late write, streams end complete, beside crashes, reaping, a hung worker and resuming clients | 1.7 M |
| `gate_safe` | `MCQualityGate` | what passes the gate was vetted, one judge per row, verdicts are final; drafts survive refinements and uploads | 1.5 M |
| `publication_safe` | `MCPublication` | the columns agree, strangers play what was public, no game dangles | 1.0 M |
| `generation_safe` | `MCGeneration` | contract, budget and consistency of a world; nothing lost by the parts; votes; pictures | 1.4 M |
| `pipeline_safe` | `MCTurnPipeline` | `TurnPipeline` implements `TurnStream`; one bundle; nothing is forgotten; everyone is served | 1.3 M |
| `story_safe` | `MCStory` | with retries, recaps and failed turns: events fire once, the board knows its clues, stories end, claims need the grounds of their own turn; conditions and bindings | 1.8 M |
| `llm_safe` | `MCLlmCalls` | no slot is lost, what is booked was read, every call ends | 154 k |
| `pipeline_hang` | `TurnPipeline` | *violated*: a director that ends while an event is handed over is never looked at | |

`CHECK_DEADLOCK FALSE` stands where the system really stops: requests used up, games over,
a run of generation ended, a bound on rounds reached. `pipeline_safe` and the credit runs
check deadlock: a turn may stop only where `Stopped` says (ended, gone, or in the hang of
`pipeline_hang`).

Each property of a passing run has a mutant in `PROJECT.json`: a variant of a modelled
definition, written beside it in the module, with which the property fails.

## Disagreements between code and documents

`pipeline_hang` is a run of its own: `orchestrator.py` 1675 says that the wait for the prose
ends when the direction is there "OR the director fully finishes - whichever comes first".
The loop waits for the tasks that have not ended and looks only at what that wait returns;
a director that ends while an event is being handed over is in neither set, and unless it
had sent the direction nothing wakes the turn again.

The following were met while modelling. Where a property states the document's claim it is
named; it stands in its module, violated, and no run checks it.

*Stories.* `ending_system.py` 144-145 says of the floor that it is "not an absolute length cap - a
player who keeps making real progress is never cut off". Every turn from `CLIMAX_ROUND_THRESHOLD`
(25) on counts as climax (`narrative_arc.py` 127), whatever was found in it, and the floor ends the
story after `FORCED_CLIMAX_LINGER_ROUNDS` of them, so it is a cap: `EndsInTime` is that cap. Only
retries, which go back to an earlier count, and recaps, which are not counted, play longer, and
they add no turn that stands. `pause_game` asks for no status, so an ended session can be paused,
resumed and played on; and `resume_game`'s prompt contains one of the connectives that
`action_segmentation.py` splits at, so a recap leaves half of itself as the step announced next.

*Turns.* `docs/ARCHITECTURE.md` 323 promises one turn at a time; the lock lives 60 s, is
not renewed, and its DEL is unconditional (`session_lock.py`), while one model call may take
120 s. `docs/modules/state-and-persistence.md` 133 says the optimistic lock prevents
overwriting; a tick's flush (`orchestrator.py` 2604) takes no part in it, so
`game_service.py` 1048-1051 and `docs/modules/orchestrator.md` 242 (a follow-up does not
overwrite a tick) do not hold either. `docs/modules/case-board.md` 153 says that snapshot and
history change together; rows are written under `rounds_played` and deleted by
`round_number` (`game_service.py` 638), which a retry sets apart. A failed turn asks for a
retry (`orchestrator.py` 1733), which deletes the last two messages whether or not that turn
saved any (`game_service.py` 624). `state-and-persistence.md` 77 puts prose after the commit;
`game_service.py` 850 streams it before. `CastIsLit`: the fallback for fields in an
unfavourable order (`orchestrator.py` 2011) does not cover every order.

*Credits.* `api/admin_credits.py` 229 has a repair "re-derive" from the authoritative
sources; `credit_service.py` 566 writes what was derived as an absolute value, so what
commits between its reads and its write is in the ledger and not in the balance.
`models/credit.py` 27-28 states held units by the holds in status `held`; one in
`settle_failed` keeps its reservation too, and a repair that follows the comment releases it
twice. `credit_service.py` 365 says that what was not delivered is free; when both commits of
a failed action's settlement fail, the sweep charges it by its recorded usage.

*Tasks and drafts.* `generation_task_service.py` 818-819 says a failure to enqueue the quality
job does not affect the draft; it turns the task into a failed, free one. `api/workshop.py` 754
and 821 call the check for a task in flight an idempotency guard; two requests at once both
pass it. `publish_service.py` 575 says that only the exact scored or waived revision may become
public; a refinement's carried verdict lets through another. A waiver given while a judge runs
is overwritten (`world_quality_scorer.py` 168). A late image and a refinement write back copies
that are minutes old and lose edits (`workshop.py` 646). Undoing a running refinement is
overwritten by its second write.

*Publication and scripts.* `PrivateIsPlayable` (`publish_service.py` 695): a private script
cannot be opened. `PublishedHasCast` (711): the validator reads a field the generator does not
write. `TakedownHolds` (`content_status.py` 37): an owner may publish again after a takedown.
`workshop.py` 1017: publishing a script does not check that its world is public. An owner's
`force=true` passes the child-script guard; `delete_world` sets a column to NULL that the table
declares NOT NULL; restoring publishes a private world; two concurrent starts leave two live
sessions (`game_service.py` 372-377).

*Generation.* Two places answered under one and the same name make `_dedup_location_aliases`
(`world_creator_agent_v2.py` 567-570) map a name to itself and follow it for ever, in a process
that does nothing else meanwhile (`Loops`). `StrictIsResearched`, `OutIsOut`: a strict run's
continuation may invent; a name merged into another escapes the cut. `MajorBlocks`: a major
violation may be lost behind a warning of the same kind. `LostIsBackfilled`, `EnoughCanTrigger`:
an event disabled or pruned counts towards the contract. `NeverDrifts` (`cover_brief_helper.py`
279-281), `SkippedIsTold` (`_run_images`), `AllIsShown` (`_run_with_pulse`): a style without a
culture may change, placeholders of a skipped stage are not told of, the end overtakes
milestones.

*Conditions, memory, models.* `StoredIsReadable` (`events_data_builder.py`), `ToldOnce`,
`NothingIsSkipped` (`models/npc_reflection.py`), `StrategyPersists` (`npc_agent.py`);
`GoneStaysGone` (`structural_ledger.py` 18), `ExposedIsNoFact` (`structural_grounding.py` 200);
`BoundIsFit` (`model_management.py` 1368-1371: a bound model may be changed and is not checked
again); `BilledIsReturned` (`metered_image_generator.py` 45), `NextKeyIsTried` (`key_pool.py`:
the walk over the keys stops at the first one seen before). A second failed compaction in a row
leaves messages in neither window nor summary, which is why `pipeline_safe` has one at a time.

## Proofs

All theorems hold for all constants that satisfy the ASSUME of their module, and under the
further assumptions in the table; none but `Roomy` bounds a size. A proof module takes up one
component of the system. Seventeen smaller modules are proved about as instances, with constants and
variables of their own, at the end of the proof module of a component they belong beside:
`Pictures`, `QualityVote` and `Refining` in `QualityGateProofs`; `Reflection`, `NpcActing`,
`Compaction`, `DirectorAnswer` and `Recall` in `TurnPipelineProofs`; `PictureStage`, `Pulse` and `Research` in
`WorldGenerationProofs`; `FreeStarts`, `Chronicle`, `VisualStyle` and `CastBuilding`, whose proofs
share what is said there of lists, in `GenerationTasksProofs`; `ScriptGeneration` in
`PublicationProofs`; `ModelSlots` in `StoryProofs`. What is assumed of their constants is a
hypothesis of the theorem:

- `Registry`: a model to start with exists, the marks for "none" and "gone" are no models;
- `Storage`: the draft's old address, the gateway's and "none" are no uploads;
- `Reflections`: row numbers are numbers, "nobody" is no summary;
- `Frames`: people are a sequence of names, the placeholder is a picture;
- `Scale`: scores and the threshold are numbers;
- `Sizes`: numbers are numbers, there is a first compaction and room for a segment;
- `Roomy`: a compaction is over before the next may begin, the first comes early enough, and the
  ceiling of the window has room for the rounds of all that may come to nothing in a row; with the
  code's numbers, one failure and a model that answers within a round, 30 + 2 (2 * 10 + 1) = 72
  messages, the code's own ceiling;
- `Numbered`: the events of a draft have the ids from 1 on, as the generator gives them;
- `Sized`: what an NPC is given, compared with and searched for are numbers;
- `Scenes`: limits are numbers, there is an attempt, what a role falls back to is a role;
- `Listings`: what is listed is a list, and there is a place;
- `Answered`: how long an answer may be is a number;
- `Wardrobe`: there is a pool of styles for what is of no genre, the fallback is a style that every
  culture may have, hashes are numbers, and a script's pictures are not among a world's;
- `Rostered`: a roster is a list, and a batch has an entry.

What a run checks under the same name is in *italics*.

| module | theorem | statement | assumptions |
|---|---|---|---|
| `CreditHoldsProofs` | `TypeCorrect` | `[]TypeOK` | none: repairs included |
| | `BalanceIsLedger` | *`LedgerBalanced`* | none: any sweeps, any TTL |
| | `GateHolds` | *`NoOverspend`* | none |
| | `OnePartyResolves` | `[]OneResolver` | `TTLCovers`, at most one sweep loop |
| | `NoDoubleCharge`, `SettledStays` | *`ChargedOnce`*, *`SettledIsFinal`* | the same; repairs allowed |
| | `HeldMovesWithHolds` | *`HeldFollowsHolds`* | the same; a repair's own step included |
| | `NothingStaysLocked` | `[]NoLeakedReservation`: with `BalanceIsLedger` all of *`RaceLeavesNoTrace`* | none: any number of sweep loops, any TTL, repairs |
| | `HeldIsReserved` | `[]HeldIsOutstanding` | `TTLCovers`, at most one sweep loop |
| `GameTurnProofs` | `TypeCorrect` | `[]TypeOK` | none |
| | `TurnsSurvive` | *`NoLostTurn`* | none: locks outlived, ticks running |
| | `MessagesBelong`, `BoardsStay` | *`NoOrphanMessages`*, *`NoLostBoard`* | none (`Undisturbed` is in the properties) |
| | `OnlyLastTakenBack`, `RetriesBounded` | `RollbackOnlyLast`, `[]RetryBound` | the same |
| `GenerationTasksProofs` | `TypeCorrect`, `LimitHolds`, `FailureIsFinal` | `[]TypeOK`, `[]WithinLimit`, `FailedIsFinal` | none |
| | `PaymentFollowsSuccess`, `FailedTasksDoNotWrite` | *`PaidIfSucceeded`*, *`NoLateWrite`* | none |
| | `StreamsEndComplete` | *`EndedStreamIsComplete`* | none |
| | `BeginningsSound` | `BeginningsAreSound` of `FreeStarts`, part of *`NamedIsThere`* | `Listings` |
| | `EveryBeatIsKept`, `PastAsTold` | `BeatsKept`, `PastIsTold` of `Chronicle`, part of *`NothingIsLost`* | `Answered` |
| | `CastIsKept` | `NobodyIsReplaced`, `NobodyIsLost`, `PeersAreKnown` of `CastBuilding`, part of *`NothingIsLost`* | `Rostered` |
| | `StylesSuit`, `FamilyKeepsStyle` | `StyleSuits`, `OneStyle` of `VisualStyle`, part of *`PicturesBelong`* | `Wardrobe` |
| `QualityGateProofs` | `HashesAgree`, `GateHolds` | `[]HashIsContent`, *`OnlyVettedIsPublic`* | none |
| | `JudgedByOne`, `VerdictsStay` | *`OneJudge`*, *`VerdictIsFinal`* | none (`JudgeInTime` is in the properties) |
| | `PicturesArrived`, `LatestPicture` | `PictureIsThere`, `LatestIsShown` of `Pictures`: the "pictures" part of *`DraftSurvives`* | `Storage` |
| | `DraftsSurvive` | `DraftSurvives` of `Refining`: the other part | `Numbered` |
| | `LowScoresAreOutvoted`, `ConfirmedByTwo` | `LowIsOutvoted`, `NobodySecondsItself` of `QualityVote`: both of *`LowIsOutvoted`* | `Scale` |
| `PublicationProofs` | `TypeCorrect`, `ColumnsAgree`, `AccessHolds`, `GamesHaveRows` | `[]TypeOK`, *`ListedIsPublished`*, *`StrangersSawPublic`*, *`NoDanglingGame`* | none |
| | `CastIsComplete` | `EventsHaveTheirCast` of `ScriptGeneration`, part of *`NamedIsThere`* | none |
| `TurnPipelineProofs` | `TypeCorrect`, `OneBundle`, `CommitIsWhole` | `[]TypeOK`, *`BundleOnce`*, `[](CopiedAfterNpcs /\ CompressionKept)` | none |
| | `ImplementsStream` | *`OrderOfEvents`*: `TurnPipeline` implements `TurnStream` | none |
| | `CursorHonest` | `CursorIsHonest` of `Reflection`, part of *`NothingIsForgotten`* | `Reflections` |
| | `WindowsAreWhole`, `NothingGoesUntold` | `WindowIsWhole`, `NothingUntold` of `Compaction`, part of *`NothingIsForgotten`* | `Sizes`, and `Roomy` for the first |
| | `AskedTogetherAsAlone` | `BatchIsSingle` of `Recall`, part of *`NothingIsForgotten`* | `Sized` |
| | `RoomRemains` | `RoomToSubmit` of `NpcActing`, part of *`EveryoneIsServed`* | `MaxQueries \in Nat` |
| | `AnswersArePlayable`, `FailuresAreNamed` | `AnswerIsPlayable`, `FailureIsNamed` of `DirectorAnswer`, part of *`EveryoneIsServed`* | `Scenes` |
| `WorldGenerationProofs` | `TypeCorrect`, `ContractKept`, `WorldPaidFor` | `[]TypeOK`, *`ResultMeetsContract`*, *`PaidFor`* | none |
| | `WorldsAreConsistent` | `[]WorldIsConsistent`, the "world" part of *`NamedIsThere`* | none |
| | `OwnPictures`, `PlaceholdersAreTold` | `PictureOfItsOwn`, `PlaceholderIsTold` of `PictureStage`, part of *`PicturesBelong`* | `Frames` |
| | `MilestonesInOrder`, `EveryoneIsListed` | `ShownAsTold` of `Pulse`, `EveryoneOnce` of `Research`, part of *`NothingIsLost`* | none |
| `StoryProofs` | `TypeCorrect` | `[]TypeOK` of `Story` | none |
| | `EventsFireOnce`, `BoardIsSound` | *`FiresOnce`*, *`BoardKnowsItsClues`* | none |
| | `ClaimsAreGrounded`, `ScriptsEndInTime` | *`FactsAreGrounded`*, *`EndsInTime`* | none |
| | `SlotsComeBack`, `CapHolds` | *`NoSlotIsLost`*, holders never exceed slots | none |
| | `BooksAreRead`, `OneOutput` | *`BookedIsRead`*, `[]NoSplice` | none |
| | `BindingsAreSound` | *`BindingIsSound`* of `ModelSlots` | `Registry` |

**Credits.** `RowsTyped` is inductive by itself, repairs included; `WalletInv` adds that wallet
and ledger are integers that agree until a repair has written. `Available` bounds what is
available by claw-backs and `overrun`; it is inductive because a reservation needs its estimate,
a release gives back no more than it reserved, and a charge debits its cost where it frees its
estimate, the difference being what `overrun` collects: it holds however often a hold is
resolved, so neither the TTL nor the number of sweeps matters. Double resolution is excluded by
`OneResolver`: what a party has read of a hold remains true until it acts on it
(`ActionOwnsHold`, `SweepOwnsHolds`, `LedgerRowsMatch`, which need each other).

**Turns.** `LockOwned` (whoever is between acquisition and release is the one the key was set
for) holds until a request outlives its lock. `NoLostTurn` needs no lock: `CopyFresh` says that
a copy with the row's version has the row's state, until a tick overtakes a turn. The rest rests
on `OneByOne`, which is inductive together with the types while `Undisturbed` holds, and neither
history variable forgets (`DisturbedForGood`): with one request at a time a loaded copy *is* the
row (`OwnFresh`), and so the book-keeping may be stated of the row alone. `Placed` and
`TurnsPlaced` say, by the place of each request, whether its turn is in the state yet;
`SinceSnapshot` that whatever is not in the snapshot is an attempt at the last action or a
recap; `SnapBoards` that the snapshot has the boards of its turns; `MessagesPlaced` that the
last messages are those of the turn a retry would take back; `RetriesCounted` that the count
bounds the replays. Each step is brought to one of six effects (`StepCases`), and each part is
proved once per effect.

**Tasks.** The lemma `WorkerSteps` sums up fourteen worker actions in one formula, `Effect`.
`LimitInv` = types, the limit, `Locked` (who inserts has the advisory lock, and the active tasks
it will not reap are below the limit) and `Unborn`. `HeartInv` adds `Silent`, `StaleIsOver`,
`Settled` and `Before`, and yields payment and late writes. `StreamInv` adds `SuccessReported` (a
success stands in the log in the transaction that makes it one) and `SeenEnded` (what a stream
has read of an ended task is followed by a read of its rows): a stream reads the task first, so
rows read after it include the event that ended it.

**The gate.** The gate finds a verdict by the hash of the draft it loaded and publishes the
payload beside it. So `IInv` says that hash and payload belong together in every copy
(`CopiesSound`), that who judges a row has the payload whose hash the row has (`JudgesSound`),
that a row says "passed" or "waived" only of what was cleared (`RowsCleared`), and the same of a
publication under way (`PubSound`). `Alone`: under `JudgeInTime` rows under a judge are
running, or waived, and have one judge: a sweep recovers only rows whose judge is dead.

**Publication.** Rows and requests know nothing of each other; `RequestsLetIn` carries the
access check over the model call that parts it from the insertion, and `RowsStand` (what was
public stays in `seenPublic`, rows that exist are not revived) keeps it.

**A turn of the engine.** The step simulation of `TurnStream` needs only what was handed over
last by the place of the main coroutine (`Placed`); `AfterNpcs` and `Stamped` are of the same
kind. The fields' contents do not matter, so the theorem is for any order and number of attempts.

**A world.** `Shell` has the types of rows and counters, `Ordered` that the nodes before the
one that runs have succeeded, `Afforded` that the run is within its calls, which gives
`PaidFor`. `Content` says how far the draft (`DraftSound`) and the world (`WorldSound`) are at
one with themselves at each place of the pipeline; `Delivered` is the contract, which the repair
after the first check must keep: the second check is what the proof rests on for numbers, and
for names that repairs only add people of the roster.

**Calls.** A step is of three kinds: a call takes a slot, gives it back, or the calls that have
one are the same as before; with finite sets of calls `NoSlotIsLost` follows per kind. `AllRead`
says per place of a call which attempt's output was handed on and booked; before the first token
neither exists.

**Bindings.** `WorkTyped` has what each administrator is about, `ProviderStands` that a model's
provider is there as long as the model is, and `ProbesTrue` that what the registry says has
passed a probe has passed it. The binding reads the row again once the probes are done
(`Verified`), so a model that was deleted or changed meanwhile is not bound on old results.

**Pictures.** An address in the draft is `Lasting`: the old one, the gateway's, or a key whose
request has got past its upload and will not paint again; every copy of the payload was taken
from drafts with such addresses, so it does not matter which is written last. In `PictureStage`
a picture is kept under the task that asked for it, whoever comes back first, and the list of
placeholders is made once, after the last (`Told`).

**Reports.** `Carried` is how many milestones have left the first queue. `InOrder` says that the
second one has just those between what was shown and what was carried, each once and in order,
whatever pulses lie between; `EndIsTrue` that the end in it is that of the work.

**Reflections.** `Honest` is `CursorIsHonest` of a row that was read: it must hold of every copy a
reflection works on, because any of them may be the one that stays. That the cursor itself stands
on a row is the strengthening: a row that becomes visible below it has then come after a larger one.

**An NPC's calls.** `Loop`: as long as it kept to its queries, no round went by without one; so a
last round without an action is left only to who overdrew.

**The window.** `StampIsLast` ties the stamp to the round, whether a turn is told once or anew; all
compactions under way began in the round of the stamp (`Prompt`). `KeptUp` says how far behind
that round the compacted messages may be: a gap for each compaction in a row that came to nothing,
and one for those that still may. With `Roomy` this is the ceiling. `Adjoins`: what a compaction
will tell begins no later than the window does, so its segment closes the gap it makes, even when
another has marked the same messages meanwhile; this needs no bound on how long a model takes.

**The judges.** A score low enough to block is a middle unless half of the scores and more are above
it: the largest of the low ones is exceeded by just those that are not low, so if half of the
judges were low it would be a middle. The invariant only adds that a second judge is asked because
of the first, which is why a single judge that confirms had no doubt.

**The pack.** A name is a member of the first group that lists it, so groups share no member;
`Fits` has each group named after a member, so they share no name either.

**The story.** A turn goes through four lists, of the director's operations, the due events, the
milestones and the claims, each a fold over the state so far. A fold is the value of a function
on the subsets of the indices; that such a function exists, and that what every single item
keeps the whole list keeps, is shown by induction over those subsets, as sets. `Keeps` is what
each item does keep: the types, that what has fired has fired once (`Good`), every clue that was
found and every fact, and of facts it adds at most those it is about. So a part of a turn is
good if its items are, whichever they are and however many. `EndsInTime` rests on `Lingering`
(the turns at the climax are counted from the climax round on) and `Moving` (between turns no
script with endings goes on stalled, unless an ending was spared); both are said of the state a
retry goes back to as well, and that its turns are at most as many as have been played. A claim
becomes a fact in `Judged` alone, on the verdict of the premise it is claimed on, which `said`
records in the same step. Milestones are left out of the theorem on facts, as they are of the
property that is checked: they come about without a claim.

**Sums of money.** A sum over a finite set changes with one term, and is at most another one that it
is below term by term; both are shown by induction over sets. `HeldMovesDown`: no step takes
held_units above the change of the reservation it makes, because a release lowers it by the
estimate or to nothing; so it stays at most the sum of what unresolved holds reserved (`Covered`), with
any number of sweeps. Where nothing is resolved twice every step moves it by just that change, and
it is that sum (`Exact`).

**Lists.** What models answer with is filtered, numbered, merged and put together item by item, by
recursive functions over the places of a list. That these functions exist is shown once for all of
them (`SiftingExists`); what each makes of a list is then an invariant of its items: what is left is
there in its old order (`Within`), nothing stands there twice, every new id is free (`FreeIsFree`: of
one more ids than are used one is not).

**Beginnings, the past and the events.** What was parsed of an answer is sound before it is stored,
so `BeginInv` only has to say that an entry is kept or made of the next answer. `PlotInv`: the
events have ids of their own, and stand in the order of batches and places of the answer from which
they came; a batch that comes late finds the ids of all others used.

**A style.** Whatever is picked is picked from a list that is never empty and whose styles all suit
the culture, because the fallback suits every culture. `StyleInv` ties the row of the world to the
draft it was published from, and every picture to the style the draft had when it was made, which is
the only one it has had since there was one with a culture.

**A cast.** `CastInv`: entries of two batches are different ones (`Apart`), and whoever is asked for
again is not there. So what is bound to an entry stems from one answer (`NewAreTheirOwn`). Who is not
bound by name is bound by place; items under names of the batch use up an entry each and the others
are as many as the entries left, so nobody is lost (`EveryoneIsBound`).

**A refinement.** The draft, its copy and its snapshot have every event once (`Whole`); a job
changes texts under ids that are there, and what a model returns under another id falls away.

**A script's cast.** Whoever an event waits for is of the world as it was read when the script was
begun, or one of those the script adds (`Knows`); this holds of what is being made, of the draft and
of the published script, so a game finds everybody but those the author has taken out of the world since.

**A director's answer.** Whatever was said, what the checks leave of it is playable
(`ResultIsPlayable`). `Counted`: while it is asked there is one failure for each attempt that is over,
and the first of them was to read, so the error that is raised names what failed.

**Memories asked for together.** The order of the query is one of numbers (`BetterByKey`), so rows
can be put in it (`OrderThere`) and in one way only (`OneOrder`); what is left of the whole cast's rows
for one NPC is in order and is all of its rows (`ThoseFall`), hence the list of its own query
(`OwnRows`). A walk that stops keeps the first of what one without a stop keeps (`UptoIsFirst`,
`QuotedAlike`). Both cut before the rerank, which is one function of both. The order of equals is taken
as fixed, by id: the query leaves that of rows of one round open, and a database that changed it
between two queries could tell them apart.

**Only model-checked, and why.**
- Liveness: `HoldResolved`, `LockFreed`, `EveryCallEnds` (fairness and ENABLED are out of the
  prover's reach).
- `TextIsTree` of `EventConditions`: trees, their texts and the sequences of tokens are recursive
  operators, and what a parser makes of every text is induction over data.
- `PartialAnswer`'s part of `EveryoneIsServed`, for the same reason: it reads texts.

Every other invariant of the runs, and every other part of those that a module for TLC puts
together, is stated by a theorem: `RaceLeavesNoTrace`, `DraftSurvives`, `NothingIsLost`,
`LowIsOutvoted`, `NamedIsThere`, `PicturesBelong` and `NothingIsForgotten` are proved part by part.

## What the models leave out

- Wording, prompts, prices and contents: a turn, an operation, a payload, a task is a name; a
  price is a small number; what models answer is a choice over what the parsers let through.
- Database failures inside a transaction: it is applied or it is not. Failures between
  transactions, and applied commits that raise, are modelled.
- Isolation finer than READ COMMITTED between single statements, except where a transaction is
  split on purpose (`Count`/`Insert`, `Look`, the repair, the check and the act of a settlement).
- Several users: wallets, sessions and limits of different users share no row.
- Clock skew and real time: the lock's expiry, the TTL, the heartbeat and cooldowns are events
  that may happen as soon as the stated assumption allows.
- In `Story`, texts, moods and relations; in `LlmCalls`, chains of providers (only chains of one
  are built) and vendors' formats; in `Publication`, the contents of payloads and the audit flag.

## What is left

Proofs: an abstract one-shot escrow (reserve, then pay or return, once), implemented by
`CreditHolds` under the assumptions of `OnePartyResolves`; and a composition of `GenerationTasks` with
`CreditHolds`, in which a worker's death leaves its hold to the sweep.
