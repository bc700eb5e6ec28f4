------------------------------- MODULE Chronicle -------------------------------
(***************************************************************************)
(* The past a world's people share, and the events it may come to:         *)
(* build_shared_events of services/shared_events_builder.py and            *)
(* build_events_data of services/events_data_builder.py.                   *)
(*                                                                         *)
(* What is shared is taken from the passages of the research; when that is *)
(* too little, more is asked for that has no passage.  The events are      *)
(* asked for in batches, one after the other, and a writer may number them *)
(* as it likes.                                                            *)
(*                                                                         *)
(* A shared event is its title and the passages it names; an event is its  *)
(* id and which answer it was in.  The id evt_00n is n and any other is 0. *)
(***************************************************************************)
EXTENDS Integers, Sequences, FiniteSets

CONSTANTS
    None,      \* a call that raises, or an answer that is not JSON
    Titles,
    Passages,  \* the passages of the research
    Invented,  \* what an answer may name that is none of them
    KMin,      \* shared events below which more are asked for (5 in the code)
    Batches,   \* calls for events
    MaxId,     \* ids an answer may choose: a bound
    Longest    \* of an answer: a bound

VARIABLES
    past,    \* what is shared, as collected and at last without doubles
    heard,   \* every title that an answer held
    beats,   \* the events, in order
    next,    \* next_generated_id
    told,    \* per batch the number of events its answer held
    at

vars == <<past, heard, beats, next, told, at>>

Upto(S, n) == UNION {[1..k -> S] : k \in 0..n}
Ids == 0..MaxId

Init ==
    /\ past = << >> /\ heard = {} /\ beats = << >> /\ next = 1 /\ told = << >>
    /\ at = "extract"

------------------------------------------------------------------------------
\* _dedup_by_title: a title keeps its place, and the event is the last one told under it.
Deduplicated(events) ==
    LET seen[k \in 0..Len(events)] ==
          IF k = 0 THEN << >>
          ELSE IF \E i \in DOMAIN seen[k - 1] : seen[k - 1][i].title = events[k].title
          THEN [i \in DOMAIN seen[k - 1] |-> IF seen[k - 1][i].title = events[k].title THEN events[k] ELSE seen[k - 1][i]]
          ELSE Append(seen[k - 1], events[k])
    IN seen[Len(events)]

\* What _parse_events_from_data leaves of the answers: passages that are none are taken out.
Parsed(answer, passages) == [i \in DOMAIN answer |-> [answer[i] EXCEPT !.from = @ \intersect passages]]

TitlesOf(events) == {events[i].title : i \in DOMAIN events}

\* Without a first answer there is no past at all.
Extract(answer) ==
    /\ at = "extract"
    /\ IF answer = None
       THEN past' = << >> /\ heard' = {} /\ at' = "events"
       ELSE /\ heard' = TitlesOf(answer)
            /\ IF Len(answer) < KMin
               THEN past' = Parsed(answer, Passages) /\ at' = "supplement"
               ELSE past' = Deduplicated(Parsed(answer, Passages)) /\ at' = "events"
    /\ UNCHANGED <<beats, next, told>>

\* A supplement that fails leaves what there is; one that comes has no passages.
Supplement(answer) ==
    /\ at = "supplement"
    /\ LET more == IF answer = None THEN << >> ELSE Parsed(answer, {})
       IN past' = Deduplicated(past \o more) /\ heard' = heard \union TitlesOf(more)
    /\ at' = "events"
    /\ UNCHANGED <<beats, next, told>>

------------------------------------------------------------------------------
Used(list) == {list[i].id : i \in DOMAIN list}
FreeFrom(n, used) == CHOOSE i \in n..(n + Cardinality(used)) : i \notin used /\ \A j \in n..(i - 1) : j \in used

\* Mutant: the number of the batch's place is taken without a look at what is used.
ReservedUnseen(state, beat) ==
    IF beat.id \notin Used(state.beats)
    THEN [beats |-> Append(state.beats, beat), next |-> state.next]
    ELSE [beats |-> Append(state.beats, [beat EXCEPT !.id = state.next]), next |-> state.next + 1]

\* _reserve_unique_id: who comes second gets the next number nobody has.
Reserved(state, beat) ==
    IF beat.id \notin Used(state.beats)
    THEN [beats |-> Append(state.beats, beat), next |-> state.next]
    ELSE LET free == FreeFrom(state.next, Used(state.beats))
         IN [beats |-> Append(state.beats, [beat EXCEPT !.id = free]), next |-> free + 1]

Numbered(from, new) ==
    LET state[k \in 0..Len(new)] == IF k = 0 THEN from ELSE Reserved(state[k - 1], new[k])
    IN state[Len(new)]

\* The answer of one batch; one that fails has none and the next one is asked for.
Batch(answer) ==
    /\ at = "events" /\ Len(told) < Batches
    /\ LET ids == IF answer = None THEN << >> ELSE answer
           new == [i \in DOMAIN ids |-> [id |-> ids[i], of |-> <<Len(told) + 1, i>>]]
           state == Numbered([beats |-> beats, next |-> next], new)
       IN /\ beats' = state.beats /\ next' = state.next
          /\ told' = Append(told, Len(ids))
    /\ UNCHANGED <<past, heard, at>>

\* The last sweep over the ids keeps the first of each.
Swept(list) ==
    LET kept[k \in 0..Len(list)] ==
          IF k = 0 THEN << >> ELSE IF list[k].id \in Used(kept[k - 1]) THEN kept[k - 1] ELSE Append(kept[k - 1], list[k])
    IN kept[Len(list)]

Finish ==
    /\ at = "events" /\ Len(told) = Batches
    /\ beats' = Swept(beats)
    /\ at' = "done"
    /\ UNCHANGED <<past, heard, next, told>>

SharedEvent == [title : Titles, from : SUBSET (Passages \union {Invented})]
Shared == {None} \union Upto(SharedEvent, Longest)

Next ==
    \/ at = "extract" /\ \E answer \in Shared : Extract(answer)
    \/ at = "supplement" /\ \E answer \in Shared : Supplement(answer)
    \/ at = "events" /\ \E answer \in {None} \union Upto(Ids, Longest) : Batch(answer)
    \/ Finish

Spec == Init /\ [][Next]_vars

------------------------------------------------------------------------------
(* Properties *)

Before(a, b) == a[1] < b[1] \/ (a[1] = b[1] /\ a[2] < b[2])

\* However a writer numbers its events, none of them is lost to another's number, and they
\* keep their order (events_data_builder.py build_events_data).
BeatsKept ==
    at = "done" =>
        /\ \A i, j \in DOMAIN beats : beats[i].id = beats[j].id => i = j
        /\ \A i, j \in DOMAIN beats : i < j => Before(beats[i].of, beats[j].of)
        /\ {beats[i].of : i \in DOMAIN beats} = UNION {{b} \X (1..told[b]) : b \in DOMAIN told}

\* Every title that was told is in the past once, and what it rests on is a passage of the
\* research (shared_events_builder.py build_shared_events).
PastIsTold ==
    at # "supplement" =>
        /\ TitlesOf(past) = heard /\ Cardinality(heard) = Len(past)
        /\ \A i \in DOMAIN past : past[i].from \subseteq Passages
==============================================================================
