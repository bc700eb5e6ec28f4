-------------------------------- MODULE Recall --------------------------------
(***************************************************************************)
(* What NPCs remember of a session when a turn begins: their memories, the *)
(* most important or the most alike first, and the words they said last.   *)
(* A turn asks for its whole cast at once; a query tool asks for one NPC.  *)
(*                                                                         *)
(*   engine/memory_manager.py       one by one and in a batch              *)
(*   services/embedding_service.py  the vectors, which may be missing      *)
(***************************************************************************)
EXTENDS Integers, Sequences, FiniteSets

CONSTANTS
    Npcs,        \* whose memories are kept
    Limit,       \* how many an NPC is given
    Wider,       \* how many candidates are compared when there is a question
    Searched,    \* how many messages are searched for an NPC's words
    Rows,        \* bound: memories
    Lines        \* bound: messages

VARIABLES
    memories,    \* memory_entries of the session, in the order of their ids
    said         \* of each message of the assistant: who speaks in it

vars == <<memories, said>>

\* A memory: whose, how important, and how alike the question it is: 0 when it has
\* no vector.
Memory == [npc : Npcs, importance : 1..2, alike : 0..2]

---------------------------------------------------------------------------
(* The order of a query *)

\* Of two memories of one round, whose order the query leaves open, the later is taken.
Better(i, j) ==
    \/ memories[i].importance > memories[j].importance
    \/ memories[i].importance = memories[j].importance /\ i > j

Of(npcs) == {i \in DOMAIN memories : memories[i].npc \in npcs}

\* The rows of some NPCs, the most important first, the newest first among equals.
Ordered(npcs) ==
    CHOOSE s \in [1..Cardinality(Of(npcs)) -> Of(npcs)] :
        \A k, l \in DOMAIN s : k < l => Better(s[k], s[l])

First(s, n) == IF n < Len(s) THEN SubSeq(s, 1, n) ELSE s

\* The items of s that are in S: all of them, or a walk that stops to take at n.
Those(s, S) ==
    LET f[k \in 0..Len(s)] ==
            IF k = 0 THEN <<>> ELSE IF s[k] \in S THEN Append(f[k-1], s[k]) ELSE f[k-1]
    IN f[Len(s)]

Upto(s, S, n) ==
    LET f[k \in 0..Len(s)] ==
            IF k = 0 THEN <<>>
            ELSE IF s[k] \in S /\ Len(f[k-1]) < n THEN Append(f[k-1], s[k]) ELSE f[k-1]
    IN f[Len(s)]

\* The candidates put by likeness to the question, those without a vector last.
Reranked(s) ==
    LET Closer(k, l) == \/ memories[s[k]].alike > memories[s[l]].alike
                        \/ memories[s[k]].alike = memories[s[l]].alike /\ k < l
        order == CHOOSE p \in [DOMAIN s -> DOMAIN s] :
                     \A k, l \in DOMAIN s : k < l => Closer(p[k], p[l])
    IN [k \in DOMAIN s |-> s[order[k]]]

Chosen(s, asked, up) ==
    First(IF asked /\ up /\ \E k \in DOMAIN s : memories[s[k]].alike > 0
          THEN Reranked(s) ELSE s, Limit)

Candidates(asked) == IF asked THEN Wider ELSE Limit

\* query_npc_memories: the database cuts the rows of the one NPC.
Recalled(n, asked, up) == Chosen(First(Ordered({n}), Candidates(asked)), asked, up)

\* Mutant: the rows of the whole cast are cut together.
CutTogether(names, n, asked) == Those(First(Ordered(names), Candidates(asked)), Of({n}))

\* One query for the cast; each NPC's rows go to a bucket that closes when it is full.
Bucket(names, n, asked) == Upto(Ordered(names), Of({n}), Candidates(asked))

\* batch_query_npc_memories
BatchRecalled(names, asked, up) ==
    [n \in names |-> Chosen(Bucket(names, n, asked), asked, up)]

---------------------------------------------------------------------------
(* The words an NPC said last *)

\* The window, the newest message first.
Recent == First([k \in 1..Len(said) |-> Len(said) - k + 1], Searched)

With(n) == {i \in DOMAIN said : n \in said[i]}

\* get_npc_recent_utterances: one NPC's, until it has enough.
Words(n) == First(Those(Recent, With(n)), Limit)

\* batch_get_npc_recent_utterances: one walk over the messages for the whole cast, in
\* which an NPC that has enough is passed over.
BatchWords(names) ==
    LET out[k \in 0..Len(Recent)] ==
            IF k = 0 THEN [n \in names |-> <<>>]
            ELSE [n \in names |-> IF Recent[k] \in With(n) /\ Len(out[k-1][n]) < Limit
                                  THEN Append(out[k-1][n], Recent[k]) ELSE out[k-1][n]]
    IN out[Len(Recent)]

---------------------------------------------------------------------------
(* A session *)

\* A turn writes a memory, with a vector unless the embedding service fails.
Write(m) ==
    /\ Len(memories) < Rows
    /\ memories' = Append(memories, m)
    /\ UNCHANGED said

\* A turn saves its message with the words of the NPCs that spoke.
Say(npcs) ==
    /\ Len(said) < Lines
    /\ said' = Append(said, npcs)
    /\ UNCHANGED memories

Init == memories = <<>> /\ said = <<>>

Next ==
    \/ \E m \in Memory : Write(m)
    \/ \E npcs \in SUBSET Npcs : Say(npcs)

Spec == Init /\ [][Next]_vars

---------------------------------------------------------------------------
(* Properties *)

\* An NPC asked about together with others remembers, and is quoted, as it is when
\* asked about alone: whichever others there are, whether or not there is a question
\* and whether or not the embedding service answers (memory_manager.py: the batch
\* "yields results identical to calling the single-NPC method per NPC").
BatchIsSingle ==
    \A names \in SUBSET Npcs :
        /\ BatchWords(names) = [n \in names |-> Words(n)]
        /\ \A asked, up \in BOOLEAN :
              BatchRecalled(names, asked, up) = [n \in names |-> Recalled(n, asked, up)]
=============================================================================
