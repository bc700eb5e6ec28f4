------------------------------ MODULE LlmCalls ------------------------------
(***************************************************************************)
(* The calls to the language and picture models of one provider: the slots *)
(* that bound how many run at once, the pool of keys with its cooldowns,   *)
(* the retries before the first token, what is booked of a call.           *)
(*   llm/router.py, llm/key_pool.py, llm/usage_context.py,                 *)
(*   services/usage_recorder.py, services/metered_image_generator.py       *)
(* The router takes a chain of providers; services/model_management.py     *)
(* only ever builds chains of one, so the chain is left out.               *)
(***************************************************************************)
EXTENDS Integers, Sequences, FiniteSets, SequencesExt

CONSTANTS
  Calls,    \* the calls made
  Modes,    \* kinds of call: subset of {"tools", "json", "image"}
  Keys,     \* the provider's keys, in the order of its row
  Hash,     \* Hash[c]: hash of the call's affinity, Nil when it has none
  Timed,    \* calls of a generation slot, which have a total timeout
  Retries,  \* max_retries
  Cap,      \* Cap[p]: slots of the pool p
  Wheel,    \* bound: the round-robin counter counts modulo this
  Nil

Pools == {"text", "image"}

ASSUME CallsAssumption ==
  /\ Modes \subseteq {"tools", "json", "image"}
  /\ Keys # <<>> /\ IsInjective(Keys)
  /\ Hash \in [Calls -> Nat \cup {Nil}] /\ Nil \notin Nat
  /\ IsFiniteSet(Calls) /\ Timed \subseteq Calls /\ Retries \in Nat
  /\ Cap \in [Pools -> Nat \ {0}]
  /\ Wheel \in Nat \ {0} /\ \A n \in 1..Len(Keys) : Wheel % n = 0

VARIABLES
  call,   \* what each call is doing
  free,   \* slots left of each pool
  line,   \* calls waiting for a slot of each pool, first come first
  cool,   \* keys cooling down, the one that is usable again soonest first
  wheel,  \* the round-robin counter
  books   \* what the action's accumulator holds of each call

callVars == <<call, free, line, cool, wheel, books>>

Pool(mode) == IF mode = "image" THEN "image" ELSE "text"
Held == {"calling", "resting", "streaming", "dropped"}  \* a call that has a slot
Over == {"done", "failed"}
Holders(p) == {c \in Calls : call[c].pc \in Held /\ Pool(call[c].mode) = p}

(***************************************************************************)
(* The key pool                                                            *)
(***************************************************************************)
Usable(cl) == SelectSeq(Keys, LAMBDA k : k \notin ToSet(cl))

\* select_key: sticky by affinity, else in turn; when every key is cooling the one
\* that is usable again soonest.
Chosen(c, cl) ==
  LET u == Usable(cl) IN
  IF u = <<>> THEN cl[1]
  ELSE u[1 + ((IF Hash[c] = Nil THEN wheel ELSE Hash[c]) % Len(u))]

Turned(c, cl) ==
  IF Usable(cl) # <<>> /\ Hash[c] = Nil THEN (wheel + 1) % Wheel ELSE wheel

Cooled(k) == Append(SelectSeq(cool, LAMBDA x : x # k), k)  \* report_rate_limited

CoolsOff ==
  /\ cool # <<>> /\ cool' = Tail(cool)
  /\ UNCHANGED <<call, free, line, wheel, books>>

(***************************************************************************)
(* A slot is taken before anything is asked and given back when the        *)
(* generator is closed, whatever closed it.                                *)
(***************************************************************************)
\* mutant
GiveBackOnDone(c, pc) ==
  IF pc = "done" THEN [free EXCEPT ![Pool(call[c].mode)] = @ + 1] ELSE free

GiveBack(c, pc) == [free EXCEPT ![Pool(call[c].mode)] = @ + 1]

Closed(c, pc) == call' = [call EXCEPT ![c] = [@ EXCEPT !.pc = pc, !.key = Nil, !.tried = {}]]

End(c, pc) == Closed(c, pc) /\ free' = GiveBack(c, pc)

Open(c) ==
  /\ call[c].pc = "new"
  /\ \E mode \in Modes :
       /\ line' = [line EXCEPT ![Pool(mode)] = Append(@, c)]
       /\ IF mode = "image"  \* the key is chosen when the generator is built
          THEN /\ call' = [call EXCEPT ![c] = [@ EXCEPT !.pc = "queued", !.mode = mode, !.key = Chosen(c, cool)]]
               /\ wheel' = Turned(c, cool)
          ELSE /\ call' = [call EXCEPT ![c] = [@ EXCEPT !.pc = "queued", !.mode = mode]]
               /\ UNCHANGED wheel
  /\ UNCHANGED <<free, cool, books>>

\* One attempt: KeySwitchingProvider begins with no key tried.
Begin(c) ==
  /\ call' = [call EXCEPT ![c] = [@ EXCEPT !.pc = "calling", !.key = Chosen(c, cool), !.tried = {Chosen(c, cool)}]]
  /\ wheel' = Turned(c, cool)

Take(c) ==
  LET p == Pool(call[c].mode) IN
  /\ call[c].pc = "queued" /\ line[p][1] = c /\ free[p] > 0
  /\ free' = [free EXCEPT ![p] = @ - 1]
  /\ line' = [line EXCEPT ![p] = Tail(@)]
  /\ IF call[c].mode = "image"
     THEN call' = [call EXCEPT ![c].pc = "calling"] /\ UNCHANGED wheel
     ELSE Begin(c)
  /\ UNCHANGED <<cool, books>>

Retry(c) ==
  /\ call[c].pc = "resting"
  /\ Begin(c)
  /\ UNCHANGED <<free, line, cool, books>>

(***************************************************************************)
(* Before the first token                                                  *)
(***************************************************************************)
\* _stream_one_provider: what the provider raises before its first event is tried
\* again if it may pass, up to Retries times; JSON mode has no retry.
AttemptFails(c, transient) ==
  IF call[c].mode = "tools" /\ transient /\ call[c].attempt < Retries
  THEN /\ call' = [call EXCEPT ![c] = [@ EXCEPT !.pc = "resting", !.attempt = @ + 1, !.key = Nil, !.tried = {}]]
       /\ UNCHANGED free
  ELSE End(c, "failed")

\* A failure that another key may not have cools the key, and the next one is asked;
\* a key that was tried already ends the attempt, though others may be left.
KeyFails(c, switchable, transient) ==
  /\ call[c].pc = "calling" /\ call[c].mode # "image"
  /\ IF ~switchable \/ Len(Keys) <= 1
     THEN AttemptFails(c, transient) /\ UNCHANGED <<cool, wheel>>
     ELSE LET cl == Cooled(call[c].key)
              k  == Chosen(c, cl)
          IN  /\ cool' = cl
              /\ IF call[c].tried = ToSet(Keys)
                 THEN AttemptFails(c, transient) /\ UNCHANGED wheel
                 ELSE /\ wheel' = Turned(c, cl)
                      /\ IF k \in call[c].tried
                         THEN AttemptFails(c, transient)
                         ELSE /\ call' = [call EXCEPT ![c] = [@ EXCEPT !.key = k, !.tried = @ \cup {k}]]
                              /\ UNCHANGED free
  /\ UNCHANGED <<line, books>>

\* The first token is late: the provider is cancelled, its key is not cooled.
FirstTokenLate(c) ==
  /\ call[c].pc = "calling" /\ call[c].mode = "tools"
  /\ AttemptFails(c, TRUE)
  /\ UNCHANGED <<line, cool, wheel, books>>

(***************************************************************************)
(* The stream                                                              *)
(***************************************************************************)
Source(c) == <<call[c].attempt, call[c].key>>

Emit(c) ==
  /\ call[c].pc = "calling" /\ call[c].mode # "image"
  /\ call' = [call EXCEPT ![c].pc = "streaming", ![c].out = @ \cup {Source(c)}]
  /\ UNCHANGED <<free, line, cool, wheel, books>>

\* mutant
UsageEarly(c) ==
  /\ call[c].pc \in {"calling", "streaming"} /\ call[c].mode # "image" /\ Source(c) \notin books[c]
  /\ books' = [books EXCEPT ![c] = @ \cup {Source(c)}]
  /\ UNCHANGED <<call, free, line, cool, wheel>>

\* The provider's last event says what the call has used; the router books it
\* at once with the action, the row in token_usage follows or is lost.
Usage(c) ==
  /\ call[c].pc = "streaming" /\ Source(c) \notin books[c]
  /\ books' = [books EXCEPT ![c] = @ \cup {Source(c)}]
  /\ UNCHANGED <<call, free, line, cool, wheel>>

Finish(c) ==
  /\ \/ call[c].pc = "calling" /\ call[c].mode # "image"  \* an empty stream is a success
     \/ call[c].pc = "streaming" /\ books[c] # {}
  /\ End(c, "done")
  /\ UNCHANGED <<line, cool, wheel, books>>

\* mutant
BreaksAgain(c) ==
  /\ call[c].pc = "streaming"
  /\ AttemptFails(c, TRUE)
  /\ UNCHANGED <<line, cool, wheel, books>>

\* Once something was handed on nothing is tried again: not another key, not again.
Breaks(c) ==
  /\ call[c].pc = "streaming"
  /\ End(c, "failed")
  /\ UNCHANGED <<line, cool, wheel, books>>

(***************************************************************************)
(* Pictures: one key, one try; what comes back is booked.                  *)
(***************************************************************************)
PictureComes(c) ==
  /\ call[c].pc = "calling" /\ call[c].mode = "image"
  /\ \E out \in {{}, {Source(c)}} :  \* grok.py answers its own errors with an empty result
       call' = [call EXCEPT ![c] = [@ EXCEPT !.pc = "done", !.key = Nil, !.out = out]]
  /\ books' = [books EXCEPT ![c] = @ \cup {Source(c)}]
  /\ free' = GiveBack(c, "done")
  /\ UNCHANGED <<line, cool, wheel>>

PictureFails(c, limited) ==
  /\ call[c].pc = "calling" /\ call[c].mode = "image"
  /\ End(c, "failed")
  /\ cool' = IF limited THEN Cooled(call[c].key) ELSE cool
  /\ UNCHANGED <<line, wheel, books>>

(***************************************************************************)
(* The end from outside                                                    *)
(***************************************************************************)
\* The total timeout cancels the task: inside the generator the call fails; when the
\* reader is at work between two events it is the reader who is cancelled.
TotalTimeout(c) ==
  /\ c \in Timed /\ call[c].mode # "image"
  /\ \/ call[c].pc \in {"calling", "resting", "streaming"} /\ End(c, "failed")
     \/ call[c].pc = "streaming" /\ call' = [call EXCEPT ![c].pc = "dropped"] /\ UNCHANGED free
  /\ UNCHANGED <<line, cool, wheel, books>>

\* mutant
CancelKeepsPlace(c) ==
  /\ \/ call[c].pc = "queued" /\ Closed(c, "failed") /\ UNCHANGED <<free, line>>
     \/ /\ call[c].pc \in {"calling", "resting", "streaming"}
        /\ End(c, "failed") /\ UNCHANGED line
  /\ UNCHANGED <<cool, wheel, books>>

Cancel(c) ==
  /\ \/ /\ call[c].pc = "queued"
        /\ line' = [line EXCEPT ![Pool(call[c].mode)] = SelectSeq(@, LAMBDA d : d # c)]
        /\ Closed(c, "failed") /\ UNCHANGED free
     \/ /\ call[c].pc \in {"calling", "resting", "streaming"}
        /\ End(c, "failed") /\ UNCHANGED line
  /\ UNCHANGED <<cool, wheel, books>>

\* Who stops reading does not close the generator: it has its slot until it is collected.
StopReading(c) ==
  /\ call[c].pc = "streaming"
  /\ call' = [call EXCEPT ![c].pc = "dropped"]
  /\ UNCHANGED <<free, line, cool, wheel, books>>

Collect(c) ==
  /\ call[c].pc = "dropped"
  /\ End(c, "failed")
  /\ UNCHANGED <<line, cool, wheel, books>>

CallsInit ==
  /\ call = [c \in Calls |-> [pc |-> "new", mode |-> Nil, key |-> Nil, tried |-> {}, attempt |-> 0, out |-> {}]]
  /\ free = Cap
  /\ line = [p \in Pools |-> <<>>]
  /\ cool = <<>> /\ wheel = 0
  /\ books = [c \in Calls |-> {}]

\* What the provider, the clock and the collector bring about.
Proceeds(c) ==
  \/ Take(c) \/ Retry(c) \/ FirstTokenLate(c) \/ Emit(c) \/ Usage(c) \/ Finish(c) \/ Breaks(c)
  \/ PictureComes(c) \/ Collect(c) \/ TotalTimeout(c)
  \/ \E switchable, transient \in BOOLEAN : KeyFails(c, switchable, transient)
  \/ \E limited \in BOOLEAN : PictureFails(c, limited)

CallsNext ==
  \/ CoolsOff
  \/ \E c \in Calls : Open(c) \/ Proceeds(c) \/ Cancel(c) \/ StopReading(c)

CallsSpec == CallsInit /\ [][CallsNext]_callVars

\* Every wait of a call has an end: the timeouts of the router and of the SDKs end a
\* provider's silence, the sleep before a retry is a timer, the semaphore wakes the
\* first in its line, the collector takes what nobody refers to.
FairSpec == CallsSpec /\ \A c \in Calls : WF_callVars(Proceeds(c))

(***************************************************************************)
(* Properties                                                              *)
(***************************************************************************)
CallsTypeOK ==
  /\ call \in [Calls -> [pc : {"new", "queued"} \cup Held \cup Over, mode : Modes \cup {Nil},
                         key : ToSet(Keys) \cup {Nil}, tried : SUBSET ToSet(Keys), attempt : 0..Retries,
                         out : SUBSET ((0..Retries) \X ToSet(Keys))]]
  /\ \A p \in Pools : free[p] \in 0..Cap[p] /\ ToSet(line[p]) \subseteq Calls /\ IsInjective(line[p])
  /\ ToSet(cool) \subseteq ToSet(Keys) /\ IsInjective(cool)
  /\ wheel \in 0..(Wheel - 1)
  /\ books \in [Calls -> SUBSET ((0..Retries) \X ToSet(Keys))]

\* A slot is lost by no way a call may end: success, error, timeout, cancellation, a
\* reader who went away (router.py stream_with_tools: the finally).
NoSlotIsLost == \A p \in Pools : free[p] + Cardinality(Holders(p)) = Cap[p]

\* Nobody is handed the output of two attempts or two keys spliced together
\* (key_pool.py KeySwitchingProvider, router.py _stream_one_provider).
NoSplice == \A c \in Calls : Cardinality(call[c].out) <= 1

\* A text call is booked once at most, and only for the attempt whose output was
\* handed on (router.py _accumulate_usage).
BookedIsRead ==
  \A c \in Calls : call[c].mode # "image" =>
    /\ Cardinality(books[c]) <= 1
    /\ books[c] \subseteq call[c].out

\* metered_image_generator.py:45 "we only bill for images the provider actually
\* returned": a picture that is booked has come.
BilledIsReturned ==
  \A c \in Calls : call[c].mode = "image" => books[c] \subseteq call[c].out

\* key_pool.py:152 "the next available key is tried": an attempt that ends has tried
\* every key that is not cooling.
NextKeyIsTried ==
  [][\A c \in Calls :
       /\ call[c].pc = "calling" /\ call[c].mode # "image"
       /\ call'[c].pc \in {"failed", "resting"} /\ cool' # cool
       =>
         ToSet(Usable(cool')) \subseteq call[c].tried]_callVars

\* Every call that was made comes to an end, however many wait in the line with it.
EveryCallEnds == \A c \in Calls : call[c].pc = "queued" ~> call[c].pc \in Over
=============================================================================
