----------------------------- MODULE ModelSlots -----------------------------
(***************************************************************************)
(* The registry of models: providers, their models, what was probed of a   *)
(* model, and which model each slot of the program is bound to.            *)
(*   services/model_management.py, api/admin_models.py,                    *)
(*   models/model_management.py                                            *)
(* Binding a slot asks the model itself first, which takes seconds: other  *)
(* administrators go on meanwhile, and so do turns that resolve the slot.  *)
(***************************************************************************)
EXTENDS Integers, FiniteSets

CONSTANTS
  Providers,  \* provider rows that may be made
  Models,     \* model rows that may be made; an id is used once
  Slots,      \* slots of the program
  Kind,       \* Kind[s]: the kind of model the slot takes, "text" or "image"
  Needs,      \* Needs[s]: the capabilities it needs
  Admins,     \* administrators at work
  First,      \* the model the bootstrap binds, of provider FirstOf
  FirstOf,
  None, Gone  \* no row yet; a row that was deleted

Kinds == {"text", "image"}
Caps == UNION {Needs[s] : s \in Slots}

VARIABLES
  provider,  \* "absent", "here", "gone"
  model,     \* model rows: [of, kind, enabled], None before, Gone after
  probe,     \* latest probe of each capability of a model, "old" once it expired
  slot,      \* the model a slot is bound to
  seeded,    \* history: slots the bootstrap has bound, without a probe
  work,      \* what each administrator is doing
  passed     \* history: capabilities a model ever passed

vars == <<provider, model, probe, slot, seeded, work, passed>>

Here == {m \in Models : model[m] \notin {None, Gone}}
Idle == [step |-> "idle", slot |-> None, model |-> None, was |-> None, ask |-> {}]
NoProbes == [c \in Caps |-> "none"]

(***************************************************************************)
(* Providers and models                                                    *)
(***************************************************************************)
\* ensure_default_model_management_state: as long as there is no provider at all,
\* whoever lists or resolves makes the defaults, and binds them if there is a key.
Seed ==
  /\ \A p \in Providers : provider[p] # "here"
  /\ provider[FirstOf] = "absent" /\ model[First] = None
  /\ provider' = [provider EXCEPT ![FirstOf] = "here"]
  /\ model' = [model EXCEPT ![First] = [of |-> FirstOf, kind |-> "text", enabled |-> TRUE]]
  /\ \E key \in BOOLEAN :
       LET bound == {s \in Slots : key /\ Kind[s] = "text" /\ slot[s] = None} IN
       /\ slot' = [s \in Slots |-> IF s \in bound THEN First ELSE slot[s]]
       /\ seeded' = seeded \cup bound
  /\ UNCHANGED <<probe, work, passed>>

CreateProvider(p) ==
  /\ provider[p] = "absent"
  /\ provider' = [provider EXCEPT ![p] = "here"]
  /\ UNCHANGED <<model, probe, slot, seeded, work, passed>>

CreateModel(m, p) ==
  /\ provider[p] = "here" /\ model[m] = None
  /\ \E kind \in Kinds : model' = [model EXCEPT ![m] = [of |-> p, kind |-> kind, enabled |-> TRUE]]
  /\ UNCHANGED <<provider, probe, slot, seeded, work, passed>>

\* Kind and use of a model may change while a slot is bound to it.
UpdateModel(m) ==
  /\ m \in Here
  /\ \E kind \in Kinds, enabled \in BOOLEAN :
       model' = [model EXCEPT ![m] = [@ EXCEPT !.kind = kind, !.enabled = enabled]]
  /\ UNCHANGED <<provider, probe, slot, seeded, work, passed>>

Without(ms) ==
  /\ model' = [m \in Models |-> IF m \in ms THEN Gone ELSE model[m]]
  /\ probe' = [m \in Models |-> IF m \in ms THEN NoProbes ELSE probe[m]]
  /\ passed' = [m \in Models |-> IF m \in ms THEN {} ELSE passed[m]]
  /\ slot' = [s \in Slots |-> IF slot[s] \in ms THEN None ELSE slot[s]]
  /\ seeded' = {s \in seeded : slot[s] \notin ms}

\* mutant
DeleteModelKeepsSlots(m) ==
  /\ m \in Here
  /\ model' = [model EXCEPT ![m] = Gone]
  /\ probe' = [probe EXCEPT ![m] = NoProbes] /\ passed' = [passed EXCEPT ![m] = {}]
  /\ UNCHANGED <<provider, slot, seeded, work>>

DeleteModel(m) ==
  /\ m \in Here
  /\ Without({m})
  /\ UNCHANGED <<provider, work>>

\* delete_model_provider lists the provider's models and then deletes what it has
\* listed: a model made in between keeps the whole deletion from being committed.
ListModels(a, p) ==
  /\ work[a].step = "idle" /\ provider[p] = "here"
  /\ work' = [work EXCEPT ![a] = [step |-> "deleting", slot |-> None, model |-> {m \in Here : model[m].of = p},
                                  was |-> p, ask |-> {}]]
  /\ UNCHANGED <<provider, model, probe, slot, seeded, passed>>

DeleteProvider(a) ==
  LET p == work[a].was
      mine == {m \in Here : model[m].of = p}
  IN
  /\ work[a].step = "deleting"
  /\ IF provider[p] = "here" /\ mine \subseteq work[a].model
     THEN provider' = [provider EXCEPT ![p] = "gone"] /\ Without(mine)
     ELSE UNCHANGED <<provider, model, probe, slot, seeded, passed>>
  /\ work' = [work EXCEPT ![a] = Idle]

(***************************************************************************)
(* Probes                                                                  *)
(***************************************************************************)
Probed(m, results) ==
  /\ probe' = [probe EXCEPT ![m] = [c \in Caps |-> IF c \in DOMAIN results THEN results[c] ELSE @[c]]]
  /\ passed' = [passed EXCEPT ![m] = @ \cup {c \in DOMAIN results : results[c] = "passed"}]

Answers(caps) == [caps -> {"passed", "failed"}]

\* An administrator's probe, or the provider's health check.
Probe(m, caps) ==
  /\ m \in Here /\ caps # {}
  /\ \E results \in Answers(caps) : Probed(m, results)
  /\ UNCHANGED <<provider, model, slot, seeded, work>>

Expire(m, c) ==
  /\ probe[m][c] \in {"passed", "failed"}
  /\ probe' = [probe EXCEPT ![m][c] = IF @ = "passed" THEN "passed, old" ELSE "failed, old"]
  /\ UNCHANGED <<provider, model, slot, seeded, work, passed>>

(***************************************************************************)
(* Binding: read the probes, run those that are not fresh and read again,  *)
(* write.                                                                  *)
(***************************************************************************)
Missing(m, s) == {c \in Needs[s] : probe[m][c] \notin {"passed", "failed"}}

\* mutant
VerifiedAny(m, s) == \A c \in Needs[s] : probe[m][c] # "none"

Verified(m, s) == \A c \in Needs[s] : probe[m][c] \in {"passed", "passed, old"}

\* The probes are read; where none is missing they decide at once, and are not read again.
CheckModel(a, s, m) ==
  /\ work[a].step = "idle"
  /\ m \in Here /\ model[m].enabled /\ model[m].kind = Kind[s]
  /\ Missing(m, s) # {} \/ Verified(m, s)
  /\ work' = [work EXCEPT ![a] = [step |-> IF Missing(m, s) = {} THEN "probed" ELSE "probing", slot |-> s,
                                  model |-> m, was |-> slot[s], ask |-> Missing(m, s)]]
  /\ UNCHANGED <<provider, model, probe, slot, seeded, passed>>

\* The model may be deleted while it is asked: its probes cannot be written then.
ProbeMissing(a) ==
  LET m == work[a].model  IN
  /\ work[a].step = "probing"
  /\ IF m \notin Here
     THEN work' = [work EXCEPT ![a] = Idle] /\ UNCHANGED <<probe, passed>>
     ELSE /\ \E results \in Answers(work[a].ask) : Probed(m, results)
          /\ work' = [work EXCEPT ![a].step = "probed"]
  /\ UNCHANGED <<provider, model, slot, seeded>>

\* The binding is the row that was read at the start: a row made or deleted meanwhile
\* makes the commit fail, and a row that already named this model is not changed,
\* even if it names another one by now.
Bind(a) ==
  LET w == work[a]
      s == w.slot
  IN
  /\ w.step = "probed"
  /\ IF /\ w.model \in Here
        /\ w.ask = {} \/ Verified(w.model, s)
        /\ (w.was = None) = (slot[s] = None) /\ w.was # w.model
     THEN slot' = [slot EXCEPT ![s] = w.model] /\ seeded' = seeded \ {s}
     ELSE UNCHANGED <<slot, seeded>>
  /\ work' = [work EXCEPT ![a] = Idle]
  /\ UNCHANGED <<provider, model, probe, passed>>

Unbind(s) ==
  /\ slot[s] # None
  /\ slot' = [slot EXCEPT ![s] = None] /\ seeded' = seeded \ {s}
  /\ UNCHANGED <<provider, model, probe, work, passed>>

Init ==
  /\ provider = [p \in Providers |-> "absent"]
  /\ model = [m \in Models |-> None]
  /\ probe = [m \in Models |-> NoProbes]
  /\ slot = [s \in Slots |-> None] /\ seeded = {}
  /\ work = [a \in Admins |-> Idle]
  /\ passed = [m \in Models |-> {}]

Next ==
  \/ Seed
  \/ \E p \in Providers : CreateProvider(p)
  \/ \E m \in Models, p \in Providers : CreateModel(m, p)
  \/ \E m \in Models : UpdateModel(m) \/ DeleteModel(m)
  \/ \E m \in Models, caps \in SUBSET Caps : Probe(m, caps)
  \/ \E m \in Models, c \in Caps : Expire(m, c)
  \/ \E s \in Slots : Unbind(s)
  \/ \E a \in Admins :
       \/ \E p \in Providers : ListModels(a, p)
       \/ \E s \in Slots, m \in Models : CheckModel(a, s, m)
       \/ DeleteProvider(a) \/ ProbeMissing(a) \/ Bind(a)

Spec == Init /\ [][Next]_vars

(***************************************************************************)
(* Properties                                                              *)
(***************************************************************************)
\* A slot never names a model or a provider that is gone, whatever is deleted while
\* it is being bound (model_management.py delete_model_provider, bind_model_slot).
BoundExists ==
  \A s \in Slots : slot[s] # None => slot[s] \in Here /\ provider[model[slot[s]].of] = "here"

\* What an administrator binds has passed every probe the slot needs, though the
\* probes of others may come in between (model_management.py _ensure_capabilities).
BoundWasProbed ==
  \A s \in Slots \ seeded : slot[s] # None => Needs[s] \subseteq passed[slot[s]]

\* The two together: whatever a slot resolves to is there and can do what the slot needs
\* (model_management.py bind_model_slot, resolve_slot_router).
BindingIsSound == BoundExists /\ BoundWasProbed

\* model_management.py:1370 refuses to bind a disabled model and one of another kind:
\* an update afterwards, or while the binding waits, does both.
BoundIsFit ==
  \A s \in Slots : slot[s] # None => model[slot[s]].enabled /\ model[slot[s]].kind = Kind[s]
=============================================================================
