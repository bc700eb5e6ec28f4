----------------------------- MODULE Compaction -----------------------------
(***************************************************************************)
(* How a long game's conversation is kept short: the window of messages    *)
(* the director reads, and the summary that old messages are folded into   *)
(* by a task of its own.                                                   *)
(*                                                                         *)
(*   engine/compressor.py               when a compaction is due, and the  *)
(*                                      summary's segments                 *)
(*   engine/orchestrator.py             _claim_compression and             *)
(*                                      _run_compression_with_retry        *)
(*   services/game_service.py           load_recent_messages, the retry of *)
(*                                      a turn                             *)
(*                                                                         *)
(* Messages are numbered in the order they were written; what is compacted *)
(* is always a beginning of the conversation, so one number says it.       *)
(***************************************************************************)
EXTENDS Integers, Sequences, SequencesExt

CONSTANTS
    Keep,       \* messages a compaction leaves alone: 30
    Gap,        \* MIN_GAP_BETWEEN_COMPRESSIONS: 10 rounds
    Threshold,  \* rounds before the first compaction: 20
    HardCap,    \* recent_message_hard_cap: 72 messages
    Segments,   \* max_segments of the summary: 6
    Attempts,   \* how often a compaction is tried: 2
    Lag,        \* bound: rounds that pass while a task waits for the model
    Failures,   \* bound: compactions in a row that come to nothing
    Retries,    \* bound: turns the player has told anew
    LastRound   \* bound: rounds played

VARIABLES
    round,    \* GameState.round_number; the opening is the first
    stamp,    \* GameState.last_compressed_round
    before,   \* the stamp in state_snapshot: the one before the last turn
    cut,      \* is_compressed: of the first so many messages
    summary,  \* context_summary: its segments, each the messages <<first, last>> it tells
    dropped,  \* history: the last message a dropped segment told
    jobs,     \* compactions under way, in the order they began
    failed,   \* history: how many compactions in a row came to nothing
    retried   \* turns told anew so far

vars == <<round, stamp, before, cut, summary, dropped, jobs, failed, retried>>

\* The opening is one message, every turn after it two.
Written == 2 * round - 1

---------------------------------------------------------------------------
(* Turns *)

\* Mutant: a gap too long by one round.
DueLate(last, r) == r > Threshold /\ r - last > Gap

\* should_compress
Due(last, r) == r > Threshold /\ r - last >= Gap

Fresh(r) == [began |-> r, try |-> 1, stage |-> "waiting", from |-> 0, upto |-> 0]

\* _claim_compression: the round is stamped in the state the turn saves, and a
\* task of its own is started.
Claim(last, r) ==
    IF Due(last, r) THEN stamp' = r /\ jobs' = Append(jobs, Fresh(r))
                    ELSE stamp' = last /\ UNCHANGED jobs

Turn ==
    /\ round < LastRound
    /\ \A i \in DOMAIN jobs : round - jobs[i].began < Lag
    /\ round' = round + 1
    /\ before' = stamp
    /\ Claim(stamp, round + 1)
    /\ UNCHANGED <<cut, summary, dropped, failed, retried>>

\* retry_action: the messages and the state of the last turn go, the stamp with
\* them, and the turn is told anew; a task the first telling started goes on.
Retry ==
    /\ round > 1
    /\ retried < Retries
    /\ retried' = retried + 1
    /\ Claim(before, round)
    /\ UNCHANGED <<round, before, cut, summary, dropped, failed>>

---------------------------------------------------------------------------
(* A compaction *)

Leave(i) == jobs' = RemoveAt(jobs, i)

\* All messages not compacted yet but the newest are read.
ReadOld(i) ==
    /\ jobs[i].stage = "waiting"
    /\ IF Written - cut <= Keep
       THEN Leave(i)
       ELSE jobs' = [jobs EXCEPT ![i].stage = "asked", ![i].from = cut + 1, ![i].upto = Written - Keep]
    /\ UNCHANGED <<round, stamp, before, cut, summary, dropped, failed, retried>>

\* merge_context_summary: the newest segments are kept.
Merged(old, new) == IF Len(old) < Segments THEN Append(old, new) ELSE Append(Tail(old), new)

\* Mutant: the messages are marked although the model said nothing.
EmptyMarks(i) ==
    /\ jobs[i].stage = "asked"
    /\ cut' = IF jobs[i].upto > cut THEN jobs[i].upto ELSE cut
    /\ Leave(i)
    /\ UNCHANGED <<round, stamp, before, summary, dropped, failed, retried>>

\* An empty summary, or a process that dies with the task in its memory.
Nothing(i) ==
    /\ jobs[i].stage = "asked"
    /\ failed < Failures
    /\ failed' = failed + 1
    /\ Leave(i)
    /\ UNCHANGED <<round, stamp, before, cut, summary, dropped, retried>>

\* The model answers: the segment is added and its messages are marked in one
\* transaction.  They may have been compacted by another task meanwhile.
Answer(i) ==
    /\ jobs[i].stage = "asked"
    /\ summary' = Merged(summary, <<jobs[i].from, jobs[i].upto>>)
    /\ dropped' = IF Len(summary) = Segments /\ summary[1][2] > dropped THEN summary[1][2] ELSE dropped
    /\ cut' = IF jobs[i].upto > cut THEN jobs[i].upto ELSE cut
    /\ failed' = 0
    /\ Leave(i)
    /\ UNCHANGED <<round, stamp, before, retried>>

\* The model fails: the task reads again, and then gives up.
Fail(i) ==
    /\ jobs[i].stage = "asked"
    /\ IF jobs[i].try < Attempts
       THEN jobs' = [jobs EXCEPT ![i].stage = "waiting", ![i].try = @ + 1] /\ UNCHANGED failed
       ELSE failed < Failures /\ failed' = failed + 1 /\ Leave(i)
    /\ UNCHANGED <<round, stamp, before, cut, summary, dropped, retried>>

Init ==
    /\ round = 1 /\ stamp = 0 /\ before = 0 /\ cut = 0
    /\ summary = <<>> /\ dropped = 0 /\ jobs = <<>> /\ failed = 0 /\ retried = 0

Next ==
    \/ Turn \/ Retry
    \/ \E i \in DOMAIN jobs : ReadOld(i) \/ Answer(i) \/ Fail(i) \/ Nothing(i)

Spec == Init /\ [][Next]_vars

---------------------------------------------------------------------------
(* Properties *)

\* The window a turn reads holds every message that no summary tells: the
\* ceiling of load_recent_messages cuts nothing off, as the comment on
\* MIN_GAP_BETWEEN_COMPRESSIONS asks, though a compaction may come to nothing
\* now and then and the player goes on while the model is asked.
WindowIsWhole == Written - cut <= HardCap

\* A message leaves the window only when a segment tells it: it is told by the
\* summary, or by a segment dropped since (_run_compression).
NothingUntold ==
    \A m \in 1..cut : m <= dropped \/ \E i \in DOMAIN summary : summary[i][1] <= m /\ m <= summary[i][2]

\* No message is told by two segments of the summary.  The code does not keep
\* this: a turn told anew starts its compaction again.
ToldOnce == \A i, j \in DOMAIN summary : i < j => summary[i][2] < summary[j][1]
===========================================================================
