----------------------------- MODULE CastBuilding -----------------------------
(***************************************************************************)
(* From a roster to a cast, and what its members are to each other:        *)
(* build_characters_in_batches and _process_batch of                       *)
(* services/character_roster_builder.py, services/relations_pack_builder.py.*)
(*                                                                         *)
(* The roster is cut into batches, each is asked for in a call of its own, *)
(* and whoever is missing is asked for once more.  A writer may rename     *)
(* whom he was asked for; an item is bound to the entry that asked for it. *)
(*                                                                         *)
(* A name is what _norm_name makes of it.  Batches run side by side, but   *)
(* each has its own result and they are put together in order, so here     *)
(* each answers in one step; that one that is no JSON is asked for once    *)
(* more counts as its answer.                                              *)
(***************************************************************************)
EXTENDS Integers, Sequences, FiniteSets, SequencesExt

CONSTANTS
    None,
    Stranger,   \* a name that nobody on the roster has
    Rosters,    \* sequences of names, in which one may occur twice
    BatchSize,  \* entries in a call (6 in the code)
    Longest,    \* items an answer may have: a bound
    Core,       \* of a faction, those the others know for certain (2)
    Trusts      \* degrees of trust

VARIABLES
    roster,
    asked,    \* the batches of this round: sequences of entries of the roster
    answers,  \* the items that came back: none from a call that failed
    cast,     \* the characters: the item each name on the roster is bound to
    peers,    \* per character what he is to others
    at

vars == <<roster, asked, answers, cast, peers, at>>

Listed == ToSet(roster)
Item == [name : Listed \union {Stranger}, ok : BOOLEAN]
Upto(S, n) == UNION {[1..k -> S] : k \in 0..n}
Smaller(a, b) == IF a < b THEN a ELSE b

\* Those of a list that are in S, in their order.
Those(list, S) ==
    LET out[k \in 0..Len(list)] ==
          IF k = 0 THEN << >> ELSE IF list[k] \in S THEN Append(out[k - 1], list[k]) ELSE out[k - 1]
    IN out[Len(list)]

\* Lists behind one another.
Joined(lists) ==
    LET out[k \in 0..Len(lists)] == IF k = 0 THEN << >> ELSE out[k - 1] \o lists[k]
    IN out[Len(lists)]

\* Slices of BatchSize entries.
Batches(entries) ==
    [b \in 1..((Len(entries) + BatchSize - 1) \div BatchSize) |->
        SubSeq(entries, (b - 1) * BatchSize + 1, Smaller(b * BatchSize, Len(entries)))]

Init ==
    /\ roster \in Rosters
    /\ asked = Batches([i \in DOMAIN roster |-> i])
    /\ answers = [b \in DOMAIN asked |-> None]
    /\ cast = << >> /\ peers = None
    /\ at = "first"

\* A call that raises, an answer that is no list or twice no JSON has no items.
Answer(b, items) ==
    /\ at \in {"first", "again"} /\ answers[b] = None
    /\ answers' = [answers EXCEPT ![b] = items]
    /\ UNCHANGED <<roster, asked, cast, peers, at>>

------------------------------------------------------------------------------
Called(batch) == {roster[e] : e \in ToSet(batch)}
EntryOf(batch, name) == CHOOSE e \in ToSet(batch) : roster[e] = name /\ \A f \in ToSet(batch) : roster[f] = name => e <= f
Order(items) == [i \in DOMAIN items |-> i]

\* The first item under the name of an entry is that entry's.
Named(batch, items) ==
    Those(Order(items), {i \in DOMAIN items : items[i].name \in Called(batch) /\ \A j \in 1..(i - 1) : items[j].name # items[i].name})

\* Whoever has a name of the roster belongs to another batch, or was here already.
Unknown(items) == Those(Order(items), {i \in DOMAIN items : items[i].name \notin Listed})

\* Mutant: an item is taken by its name only.
PairsByName(batch, items) == [k \in DOMAIN Named(batch, items) |-> <<Named(batch, items)[k], EntryOf(batch, items[Named(batch, items)[k]].name)>>]

\* What is left of the items goes to what is left of the entries, in order; more is dropped.
Pairs(batch, items) ==
    LET named == Named(batch, items)
        unknown == Unknown(items)
        free == Those(batch, {e \in ToSet(batch) : \A k \in DOMAIN named : items[named[k]].name # roster[e]})
    IN [k \in DOMAIN named |-> <<named[k], EntryOf(batch, items[named[k]].name)>>]
         \o [k \in 1..Smaller(Len(free), Len(unknown)) |-> <<unknown[k], free[k]>>]

\* The characters of a batch; an item the schema refuses takes its entry with it.
Characters(batch, items) ==
    LET pairs == Pairs(batch, items)
        good == Those(pairs, {p \in ToSet(pairs) : items[p[1]].ok})
    IN [k \in DOMAIN good |-> [entry |-> good[k][2], as |-> items[good[k][1]].name]]

Returned == Joined([b \in DOMAIN asked |-> Characters(asked[b], answers[b])])

\* _keep_if_in_roster: of two under one name the first is kept, one that is there stays.
Kept ==
    LET back == Returned
        new == {k \in DOMAIN back : roster[back[k].entry] \notin DOMAIN cast}
    IN [n \in DOMAIN cast \union {roster[back[k].entry] : k \in new} |->
          IF n \in DOMAIN cast THEN cast[n]
          ELSE LET of == {k \in new : roster[back[k].entry] = n}
               IN back[CHOOSE k \in of : \A j \in of : k <= j]]

Missing(known) == Those([i \in DOMAIN roster |-> i], {i \in DOMAIN roster : roster[i] \notin DOMAIN known})

Gather ==
    /\ at \in {"first", "again"} /\ \A b \in DOMAIN answers : answers[b] # None
    /\ cast' = Kept
    /\ IF at = "first" /\ Missing(Kept) # << >>
       THEN /\ at' = "again" /\ asked' = Batches(Missing(Kept))
            /\ answers' = [b \in DOMAIN asked' |-> None]
       ELSE /\ at' = "known" /\ UNCHANGED <<asked, answers>>
    /\ UNCHANGED <<roster, peers>>

\* The characters are handed on; what was asked and answered is forgotten.
Return ==
    /\ at = "known"
    /\ at' = "cast" /\ asked' = << >> /\ answers' = << >>
    /\ UNCHANGED <<roster, cast, peers>>

------------------------------------------------------------------------------
(* What they are to each other.  Nobody passes hostile factions.           *)

\* What was said before of this target under this kind stays.
Added(list, r) == IF \E k \in DOMAIN list : list[k].target = r.target /\ list[k].kind = r.kind THEN list ELSE Append(list, r)

\* Nothing about oneself, nor about one who does not exist.
Fits(owner, r) == r.target # owner /\ r.target \in DOMAIN cast

Tie(other) == [target |-> other, kind |-> "tied", trust |-> 0]
Ally(other) == [target |-> other, kind |-> "ally", trust |-> 3]

\* Relations, one after the other.
Related(list) ==
    LET out[k \in 0..Len(list)] == IF k = 0 THEN << >> ELSE Added(out[k - 1], list[k])
    IN out[Len(list)]

\* First the character's own words, then the events he shares, then the first two of his side.
Relations(owner, said, event, core) ==
    LET others == Those(event, ToSet(event) \ {owner})
        told == IF owner \in ToSet(event) THEN [k \in DOMAIN others |-> Tie(others[k])] ELSE << >>
        side == [k \in DOMAIN core |-> Ally(core[k])]
        all == said \o told \o side
    IN Related(Those(all, {r \in ToSet(all) : Fits(owner, r)}))

Relation == [target : Listed \union {Stranger}, kind : {"tied", "other"}, trust : Trusts]

\* The cast in the order of the roster, everyone once.
InOrder ==
    LET first == Those([i \in DOMAIN roster |-> i], {i \in DOMAIN roster : roster[i] \in DOMAIN cast /\ \A j \in 1..(i - 1) : roster[j] # roster[i]})
    IN [k \in DOMAIN first |-> roster[first[k]]]

\* What one of them says, an event and a faction; each may be of nobody.
Relate(speaker, said, event, side) ==
    /\ at = "cast"
    /\ LET members == Those(InOrder, side)
           core == SubSeq(members, 1, Smaller(Core, Len(members)))
       IN peers' = [n \in DOMAIN cast |->
                      Relations(n, IF n = speaker THEN said ELSE << >>, Those(InOrder, event), IF n \in side THEN core ELSE << >>)]
    /\ at' = "related"
    /\ UNCHANGED <<roster, asked, answers, cast>>

Next ==
    \/ \E b \in DOMAIN answers : \E items \in Upto(Item, Longest) : Answer(b, items)
    \/ Gather
    \/ Return
    \/ /\ at = "cast"
       /\ \E speaker \in DOMAIN cast, said \in Upto(Relation, 1), event, side \in SUBSET DOMAIN cast :
              Relate(speaker, said, event, side)

Spec == Init /\ [][Next]_vars

------------------------------------------------------------------------------
(* Properties *)

Once(n) == Cardinality({i \in DOMAIN roster : roster[i] = n}) = 1

\* Whoever answered under his own name is himself, and carries what the roster says of him:
\* nobody else is put in his place (character_roster_builder.py _process_batch).
NobodyIsReplaced ==
    at = "known" =>
        /\ \A n \in DOMAIN cast : roster[cast[n].entry] = n
        /\ \A b \in DOMAIN asked : \A n \in Called(asked[b]) \intersect DOMAIN cast :
               Once(n) /\ cast[n].as # n => \A i \in DOMAIN answers[b] : answers[b][i].name # n

\* An answer with as many items as were asked for loses nobody, however they are named: those
\* of the roster who are missing in the end were not answered for (character_roster_builder.py
\* _process_batch: twelve characters were lost to their names once).
NobodyIsLost ==
    at = "known" =>
        \A b \in DOMAIN asked :
            LET items == answers[b]
                enough == Len(Named(asked[b], items)) + Len(Unknown(items)) >= Len(asked[b])
            IN /\ enough /\ \A i \in DOMAIN items : items[i].ok
               /\ \A e \in ToSet(asked[b]) : Once(roster[e])
               => Called(asked[b]) \subseteq DOMAIN cast

\* Of what others say, nothing replaces what a character says himself, and nobody is related
\* to himself, to one who does not exist, or twice in one way (relations_pack_builder.py).
PeersAreKnown ==
    at = "related" => \A n \in DOMAIN cast :
        /\ \A k \in DOMAIN peers[n] : peers[n][k].target \in (DOMAIN cast) \ {n}
        /\ \A j, k \in DOMAIN peers[n] :
               peers[n][j].target = peers[n][k].target /\ peers[n][j].kind = peers[n][k].kind => j = k
==============================================================================
