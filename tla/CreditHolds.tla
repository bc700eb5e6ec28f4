----------------------------- MODULE CreditHolds -----------------------------
(***************************************************************************)
(* The credit wallet of one user (services/credit_service.py): metered     *)
(* actions reserve an estimate, run, and settle the real cost; a periodic  *)
(* sweep recovers the reservations that real-time settlement lost; an      *)
(* administrator grants, claws back and repairs.                           *)
(*                                                                         *)
(* Every UPDATE of the wallet in the code is relative (balance = balance - *)
(* units) and commits together with its ledger row and its hold, so one    *)
(* such transaction is one step here.  What is NOT atomic in the code is   *)
(* kept apart: the read of a hold's status and the transaction that acts   *)
(* on it; the SELECT that lists a sweep's holds and the treatment of each; *)
(* the three SELECTs of a repair and its absolute UPDATE.                  *)
(*                                                                         *)
(* A commit that raises may nevertheless have been applied (the            *)
(* acknowledgement was lost): Settle, Replay, ChargeOrphan and GateError   *)
(* allow both.                                                             *)
(***************************************************************************)
EXTENDS Integers, FiniteSets, Functions

CONSTANTS
    Actions,       \* metered actions (a game turn, a generation task); each reserves at most one hold
    Sweepers,      \* processes running _credit_sweep_loop
    Estimates,     \* possible estimates of an action, in units
    Costs,         \* possible real costs of one model call, in units
    MaxUse,        \* bound on the usage of an action
    SignupGrant,   \* units granted with the wallet
    Adjustments,   \* amounts an administrator grants (> 0) or claws back (< 0)
    MaxAdjusted,   \* bound on the total granted and on the total clawed back
    MaxAttempts,   \* CREDIT_SETTLE_MAX_ATTEMPTS
    GateFailsOpen, \* credit_config.gate_fail_mode = "open"
    TTLCovers,     \* no action outlives CREDIT_HOLD_TTL_SECONDS
    Repairs,       \* an administrator may run reconcile(repair=True)
    NoAction

ASSUME ConstantsAssumption ==
    /\ Estimates \subseteq Nat \ {0}
    /\ Costs \subseteq Nat \ {0}
    /\ MaxUse \in Nat /\ MaxAdjusted \in Nat
    /\ SignupGrant \in Nat
    /\ Adjustments \subseteq Int \ {0}
    /\ MaxAttempts \in Nat \ {0}
    /\ GateFailsOpen \in BOOLEAN /\ TTLCovers \in BOOLEAN /\ Repairs \in BOOLEAN
    /\ NoAction \notin Actions

VARIABLES
    \* credit_wallets
    wallet,    \* the row exists
    balance,   \* balance_units
    held,      \* held_units
    granted,   \* lifetime_granted_units
    \* credit_ledger, summed
    ledger,    \* the sum of delta_units over every row
    clawed,    \* minus the sum over the rows of adjustments below zero
    debits,    \* debits[a]: minus the sum over the rows the hold of a caused
    rows,      \* rows[a]: how many rows the hold of a caused
    overrun,   \* history: what charges took beyond the estimates of their holds
    \* credit_holds
    status,    \* "none" before the row exists
    estimate,
    charged,
    captured,  \* the price of usage_json
    attempts,  \* capped at MaxAttempts, the only value it is compared with
    old,       \* created_at is more than the TTL ago
    \* the coroutine that runs the action
    pc,
    used,      \* the price of its UsageAccumulator
    recorded,  \* the price of its token_usage rows that name the hold's ref
    outcome,   \* what it reports to settle_hold: "delivered" or "failed"
    \* the sweeps
    spc,
    todo,      \* holds listed and not treated yet
    cur,       \* the hold being treated after an exception
    \* the repair
    rpc, snap,
    repaired   \* history: a repair has written what it read

walletVars == <<wallet, balance, held, granted>>
ledgerVars == <<ledger, clawed, debits, rows, overrun>>
holdVars   == <<status, estimate, charged, captured, attempts, old>>
actionVars == <<pc, used, recorded, outcome>>
sweepVars  == <<spc, todo, cur>>
repairVars == <<rpc, snap, repaired>>
vars == <<walletVars, ledgerVars, holdVars, actionVars, sweepVars, repairVars>>

HoldStatus == {"none", "held", "settle_failed", "settled"}

\* A coroutine that can still settle its hold, or will open one.
Live == {"idle", "create", "gate", "running", "unmetered", "ended", "checked", "reread", "recover"}

Snapshot == [balance : Int, held : Int, ledger : Int, holds : Int]

WalletType ==
    /\ wallet \in BOOLEAN
    /\ balance \in Int /\ held \in Int /\ ledger \in Int
    /\ granted \in Nat /\ clawed \in Nat /\ overrun \in Nat

HoldType ==
    /\ debits \in [Actions -> Nat] /\ rows \in [Actions -> Nat]
    /\ status \in [Actions -> HoldStatus]
    /\ estimate \in [Actions -> Nat]
    /\ charged \in [Actions -> Nat] /\ captured \in [Actions -> Nat]
    /\ attempts \in [Actions -> 0..MaxAttempts]
    /\ old \in [Actions -> BOOLEAN]

ActionType ==
    /\ pc \in [Actions -> Live \cup {"done"}]
    /\ used \in [Actions -> Nat] /\ recorded \in [Actions -> Nat]
    /\ outcome \in [Actions -> {"none", "delivered", "failed"}]

SweepType ==
    /\ spc \in [Sweepers -> {"idle", "replay", "replay_reread", "give_up",
                             "orphans", "orphan_reread", "forgive"}]
    /\ todo \in [Sweepers -> SUBSET Actions]
    /\ cur \in [Sweepers -> Actions \cup {NoAction}]
    /\ \A s \in Sweepers :
         spc[s] \in {"replay_reread", "give_up", "orphan_reread", "forgive"} => cur[s] \in Actions

RepairType ==
    /\ rpc \in {"idle", "wallet", "ledger", "holds"}
    /\ snap \in Snapshot
    /\ repaired \in BOOLEAN

TypeOK == WalletType /\ HoldType /\ ActionType /\ SweepType /\ RepairType

Init ==
    /\ wallet = FALSE /\ balance = 0 /\ held = 0
    /\ granted = 0 /\ ledger = 0 /\ clawed = 0 /\ overrun = 0
    /\ debits = [a \in Actions |-> 0] /\ rows = [a \in Actions |-> 0]
    /\ status = [a \in Actions |-> "none"]
    /\ estimate = [a \in Actions |-> 0]
    /\ charged = [a \in Actions |-> 0] /\ captured = [a \in Actions |-> 0]
    /\ attempts = [a \in Actions |-> 0]
    /\ old = [a \in Actions |-> FALSE]
    /\ pc = [a \in Actions |-> "idle"]
    /\ used = [a \in Actions |-> 0] /\ recorded = [a \in Actions |-> 0]
    /\ outcome = [a \in Actions |-> "none"]
    /\ spc = [s \in Sweepers |-> "idle"]
    /\ todo = [s \in Sweepers |-> {}]
    /\ cur = [s \in Sweepers |-> NoAction]
    /\ rpc = "idle"
    /\ snap = [balance |-> 0, held |-> 0, ledger |-> 0, holds |-> 0]
    /\ repaired = FALSE

Goto(a, next) == pc' = [pc EXCEPT ![a] = next]

-----------------------------------------------------------------------------
(* Transactions on a hold, each committed as a whole. *)

\* Mutant: the debit row of a charge is left out.
ChargeWithoutRow(a, units) ==
    /\ held' = held - estimate[a]
    /\ balance' = balance - units
    /\ status' = [status EXCEPT ![a] = "settled"]
    /\ charged' = [charged EXCEPT ![a] = units]
    /\ UNCHANGED <<wallet, granted, ledgerVars, estimate, captured, attempts, old>>

\* _settle_core, delivered: release the reservation, charge units, one debit row if units > 0.
Charge(a, units) ==
    /\ held' = held - estimate[a]
    /\ balance' = balance - units
    /\ ledger' = ledger - units
    /\ debits' = [debits EXCEPT ![a] = @ + units]
    /\ rows' = [rows EXCEPT ![a] = IF units > 0 THEN @ + 1 ELSE @]
    /\ overrun' = overrun + (IF units > estimate[a] THEN units - estimate[a] ELSE 0)
    /\ status' = [status EXCEPT ![a] = "settled"]
    /\ charged' = [charged EXCEPT ![a] = units]
    /\ UNCHANGED <<wallet, granted, clawed, estimate, captured, attempts, old>>

\* Mutant: a failed action keeps its reservation.
SettleFreeKeepsHeld(a) ==
    /\ rows' = [rows EXCEPT ![a] = @ + 1]
    /\ status' = [status EXCEPT ![a] = "settled"]
    /\ charged' = [charged EXCEPT ![a] = 0]
    /\ UNCHANGED <<walletVars, ledger, clawed, debits, overrun, estimate, captured, attempts, old>>

\* _settle_core, not delivered: release, and a "failed, not charged" row of delta 0.
SettleFree(a) ==
    /\ held' = held - estimate[a]
    /\ rows' = [rows EXCEPT ![a] = @ + 1]
    /\ status' = [status EXCEPT ![a] = "settled"]
    /\ charged' = [charged EXCEPT ![a] = 0]
    /\ UNCHANGED <<wallet, balance, granted, ledger, clawed, debits, overrun, estimate, captured,
                   attempts, old>>

\* Mutant: the hold is closed and held_units forgotten.
ReleaseKeepsHeld(a) ==
    /\ status' = [status EXCEPT ![a] = "settled"]
    /\ charged' = [charged EXCEPT ![a] = 0]
    /\ UNCHANGED <<walletVars, ledgerVars, estimate, captured, attempts, old>>

\* _release_only: release without a row.
ReleaseOnly(a) ==
    /\ held' = held - estimate[a]
    /\ status' = [status EXCEPT ![a] = "settled"]
    /\ charged' = [charged EXCEPT ![a] = 0]
    /\ UNCHANGED <<wallet, balance, granted, ledgerVars, estimate, captured, attempts, old>>

NextAttempt(a) == IF attempts[a] < MaxAttempts THEN attempts[a] + 1 ELSE attempts[a]

NoWrite == UNCHANGED <<walletVars, ledgerVars, holdVars>>

-----------------------------------------------------------------------------
(* The wallet, the gate and the grants. *)

\* reserve calls get_or_create_wallet, which first looks for the row.
ReadWallet(a) ==
    /\ pc[a] = "idle"
    /\ Goto(a, IF wallet THEN "gate" ELSE "create")
    /\ NoWrite
    /\ UNCHANGED <<used, recorded, outcome, sweepVars, repairVars>>

\* Mutant: no unique user_id, the loser of the race grants again.
InsertWalletTwice ==
    /\ wallet' = TRUE
    /\ balance' = SignupGrant
    /\ granted' = SignupGrant
    /\ ledger' = ledger + SignupGrant
    /\ UNCHANGED <<held, clawed, debits, rows, overrun, holdVars>>

\* It saw no row: INSERT the wallet with its signup row.  The unique user_id makes the loser
\* of a race roll back and read the winner's row.
InsertWallet ==
    /\ wallet' = TRUE
    /\ IF wallet
       THEN UNCHANGED <<balance, granted, ledger>>
       ELSE /\ balance' = SignupGrant
            /\ granted' = SignupGrant
            /\ ledger' = ledger + SignupGrant
    /\ UNCHANGED <<held, clawed, debits, rows, overrun, holdVars>>

CreateWallet(a) ==
    /\ pc[a] = "create"
    /\ Goto(a, "gate")
    /\ InsertWallet
    /\ UNCHANGED <<used, recorded, outcome, sweepVars, repairVars>>

\* Somebody else came first: get_balance_units, grant and reconcile create the wallet as well.
VisitWallet ==
    /\ ~wallet
    /\ InsertWallet
    /\ UNCHANGED <<actionVars, sweepVars, repairVars>>

\* Mutant: the gate compares the balance, not what is available.
OpenHoldOnBalance(a, e) ==
    /\ balance >= e
    /\ held' = held + e
    /\ status' = [status EXCEPT ![a] = "held"]
    /\ estimate' = [estimate EXCEPT ![a] = e]
    /\ UNCHANGED <<wallet, balance, granted, ledgerVars, charged, captured, attempts, old>>

\* The hold of a, opened by the conditional UPDATE and the INSERT of one transaction.
OpenHold(a, e) ==
    /\ balance - held >= e
    /\ held' = held + e
    /\ status' = [status EXCEPT ![a] = "held"]
    /\ estimate' = [estimate EXCEPT ![a] = e]
    /\ UNCHANGED <<wallet, balance, granted, ledgerVars, charged, captured, attempts, old>>

Reserve(a) ==
    /\ pc[a] = "gate"
    /\ \E e \in Estimates : OpenHold(a, e)
    /\ Goto(a, "running")
    /\ UNCHANGED <<used, recorded, outcome, sweepVars, repairVars>>

\* InsufficientCredits: the action does not start.
Refuse(a) ==
    /\ pc[a] = "gate"
    /\ \E e \in Estimates : balance - held < e
    /\ Goto(a, "done")
    /\ NoWrite
    /\ UNCHANGED <<used, recorded, outcome, sweepVars, repairVars>>

\* reserve raised, its transaction rolled back or committed without an acknowledgement: the
\* caller has no hold id, and runs the action unmetered or blocks it (gate_fail_mode).
GateError(a) ==
    /\ pc[a] \in {"create", "gate"}
    /\ \/ NoWrite
       \/ /\ pc[a] = "gate"
          /\ \E e \in Estimates : OpenHold(a, e)
    /\ Goto(a, IF GateFailsOpen THEN "unmetered" ELSE "done")
    /\ UNCHANGED <<used, recorded, outcome, sweepVars, repairVars>>

\* An administrator's signed adjustment and its ledger row.
Grant(delta) ==
    /\ wallet
    /\ balance' = balance + delta
    /\ ledger' = ledger + delta
    /\ IF delta >= 0
       THEN /\ granted + delta =< SignupGrant + MaxAdjusted
            /\ granted' = granted + delta
            /\ UNCHANGED clawed
       ELSE /\ clawed - delta =< MaxAdjusted
            /\ clawed' = clawed - delta
            /\ UNCHANGED granted
    /\ UNCHANGED <<wallet, held, debits, rows, overrun, holdVars, actionVars, sweepVars, repairVars>>

-----------------------------------------------------------------------------
(* The action and its own settlement (_stream_with_credits, _credit_settle, settle_hold). *)

\* A model call: the accumulator sees its cost; the best-effort token_usage sink may miss it,
\* and an opening turn reserved without a session writes rows its hold cannot be matched with.
Work(a) ==
    /\ pc[a] \in {"running", "unmetered"}
    /\ \E c \in Costs, r \in BOOLEAN :
         /\ used[a] + c =< MaxUse
         /\ used' = [used EXCEPT ![a] = @ + c]
         /\ recorded' = IF r THEN [recorded EXCEPT ![a] = @ + c] ELSE recorded
    /\ NoWrite
    /\ UNCHANGED <<pc, outcome, sweepVars, repairVars>>

\* The stream or the task is over: with something delivered, or in error with nothing delivered.
End(a) ==
    /\ \/ /\ pc[a] = "running"
          /\ \E o \in {"delivered", "failed"} : outcome' = [outcome EXCEPT ![a] = o]
          /\ Goto(a, "ended")
       \/ /\ pc[a] = "unmetered"
          /\ Goto(a, "done")
          /\ UNCHANGED outcome
    /\ NoWrite
    /\ UNCHANGED <<used, recorded, sweepVars, repairVars>>

\* settle_hold reads the hold; one that is not "held" is left alone.
SettleCheck(a) ==
    /\ pc[a] = "ended"
    /\ Goto(a, IF status[a] = "held" THEN "checked" ELSE "done")
    /\ NoWrite
    /\ UNCHANGED <<used, recorded, outcome, sweepVars, repairVars>>

SettleCore(a) == IF outcome[a] = "delivered" THEN Charge(a, used[a]) ELSE SettleFree(a)

Settle(a) ==
    /\ pc[a] = "checked"
    /\ \/ SettleCore(a) /\ Goto(a, "done")
       \/ SettleCore(a) /\ Goto(a, "reread")
       \/ NoWrite /\ Goto(a, "reread")
    /\ UNCHANGED <<used, recorded, outcome, sweepVars, repairVars>>

\* Mutant: the except branch clears the charge before it reads the hold.
SettleRereadClears(a) ==
    /\ pc[a] = "reread"
    /\ Goto(a, IF status[a] = "held" THEN "recover" ELSE "done")
    /\ charged' = [charged EXCEPT ![a] = 0]
    /\ UNCHANGED <<walletVars, ledgerVars, status, estimate, captured, attempts, old>>
    /\ UNCHANGED <<used, recorded, outcome, sweepVars, repairVars>>

\* settle_hold's except branch: roll back and read the hold again.
SettleReread(a) ==
    /\ pc[a] = "reread"
    /\ Goto(a, IF status[a] = "held" THEN "recover" ELSE "done")
    /\ NoWrite
    /\ UNCHANGED <<used, recorded, outcome, sweepVars, repairVars>>

\* Mutant: a status the sweep does not know.
MarkFailedMisspelt(a) ==
    /\ status' = [status EXCEPT ![a] = "failed"]
    /\ captured' = [captured EXCEPT ![a] = used[a]]
    /\ attempts' = [attempts EXCEPT ![a] = NextAttempt(a)]
    /\ UNCHANGED <<walletVars, ledgerVars, estimate, charged, old>>

\* Keep the usage for the sweep.
MarkFailed(a) ==
    /\ status' = [status EXCEPT ![a] = "settle_failed"]
    /\ captured' = [captured EXCEPT ![a] = used[a]]
    /\ attempts' = [attempts EXCEPT ![a] = NextAttempt(a)]
    /\ UNCHANGED <<walletVars, ledgerVars, estimate, charged, old>>

\* ... or, when nothing was delivered, just release.  Either commit may fail in turn: the
\* hold then stays "held".
SettleRecover(a) ==
    /\ pc[a] = "recover"
    /\ \/ IF outcome[a] = "delivered" THEN MarkFailed(a) ELSE ReleaseOnly(a)
       \/ NoWrite
    /\ Goto(a, "done")
    /\ UNCHANGED <<used, recorded, outcome, sweepVars, repairVars>>

\* The worker dies, or the response's cancellation interrupts the coroutine at an await.
Crash(a) ==
    /\ pc[a] \in Live \ {"idle"}
    /\ Goto(a, "done")
    /\ NoWrite
    /\ UNCHANGED <<used, recorded, outcome, sweepVars, repairVars>>

\* The hold passes its time to live.
Age(a) ==
    /\ status[a] = "held" /\ ~old[a]
    /\ TTLCovers => pc[a] \notin Live
    /\ old' = [old EXCEPT ![a] = TRUE]
    /\ UNCHANGED <<walletVars, ledgerVars, status, estimate, charged, captured, attempts,
                   actionVars, sweepVars, repairVars>>

-----------------------------------------------------------------------------
(* sweep_holds: one pass replays the settle_failed holds, then treats the orphans. *)

SweepTo(s, next, holds, hold) ==
    /\ spc' = [spc EXCEPT ![s] = next]
    /\ todo' = [todo EXCEPT ![s] = holds]
    /\ cur' = [cur EXCEPT ![s] = hold]

Abort(s) == SweepTo(s, "idle", {}, NoAction)

\* A rollback expires every object of the session: touching the next listed hold raises
\* outside the try and ends the pass, unless no listed hold is left.
NextAfterRollback(s, phase) ==
    IF todo[s] = {} THEN SweepTo(s, phase, {}, NoAction) ELSE Abort(s)

SweepLoadFailed(s) ==
    /\ spc[s] = "idle"
    /\ SweepTo(s, "replay", {a \in Actions : status[a] = "settle_failed"}, NoAction)
    /\ NoWrite
    /\ UNCHANGED <<actionVars, repairVars>>

\* _settle_core with the captured usage, for a hold taken from the list as it was read.
Replay(s, a) ==
    /\ spc[s] = "replay" /\ a \in todo[s]
    /\ \/ Charge(a, captured[a]) /\ SweepTo(s, "replay", todo[s] \ {a}, NoAction)
       \/ Charge(a, captured[a]) /\ SweepTo(s, "replay_reread", todo[s] \ {a}, a)
       \/ NoWrite /\ SweepTo(s, "replay_reread", todo[s] \ {a}, a)
    /\ UNCHANGED <<actionVars, repairVars>>

\* Mutant: the replay trusts the hold it listed.
ReplayNoReread(s) ==
    LET a == cur[s] IN
    /\ spc[s] = "replay_reread"
    /\ attempts' = [attempts EXCEPT ![a] = NextAttempt(a)]
    /\ IF NextAttempt(a) = MaxAttempts
       THEN SweepTo(s, "give_up", todo[s], a)
       ELSE NextAfterRollback(s, "replay")
    /\ UNCHANGED <<walletVars, ledgerVars, status, estimate, charged, captured, old>>
    /\ UNCHANGED <<actionVars, repairVars>>

\* Mutant: no attempt is the last.
ReplayForever(s) ==
    LET a == cur[s] IN
    /\ spc[s] = "replay_reread"
    /\ IF status[a] = "settle_failed"
       THEN attempts' = [attempts EXCEPT ![a] = NextAttempt(a)]
       ELSE UNCHANGED attempts
    /\ NextAfterRollback(s, "replay")
    /\ UNCHANGED <<walletVars, ledgerVars, status, estimate, charged, captured, old>>
    /\ UNCHANGED <<actionVars, repairVars>>

\* Read again after the rollback, count the attempt; at the cap, give up.
ReplayReread(s) ==
    LET a == cur[s] IN
    /\ spc[s] = "replay_reread"
    /\ \/ /\ status[a] # "settle_failed"
          /\ NextAfterRollback(s, "replay")
          /\ NoWrite
       \/ /\ status[a] = "settle_failed"
          /\ attempts' = [attempts EXCEPT ![a] = NextAttempt(a)]
          /\ IF NextAttempt(a) = MaxAttempts
             THEN SweepTo(s, "give_up", todo[s], a)
             ELSE NextAfterRollback(s, "replay")
          /\ UNCHANGED <<walletVars, ledgerVars, status, estimate, charged, captured, old>>
    /\ UNCHANGED <<actionVars, repairVars>>

\* The session still holds the object it refreshed in ReplayReread: no third read happens.
GiveUp(s) ==
    /\ spc[s] = "give_up"
    /\ ReleaseOnly(cur[s])
    /\ NextAfterRollback(s, "replay")
    /\ UNCHANGED <<actionVars, repairVars>>

\* Mutant: the cutoff is left out.
SweepLoadAnyHeld(s) ==
    /\ spc[s] = "replay" /\ todo[s] = {}
    /\ SweepTo(s, "orphans", {a \in Actions : status[a] = "held"}, NoAction)
    /\ NoWrite
    /\ UNCHANGED <<actionVars, repairVars>>

SweepLoadOrphans(s) ==
    /\ spc[s] = "replay" /\ todo[s] = {}
    /\ SweepTo(s, "orphans", {a \in Actions : status[a] = "held" /\ old[a]}, NoAction)
    /\ NoWrite
    /\ UNCHANGED <<actionVars, repairVars>>

\* Usage was recorded: charge it.
ChargeOrphan(s, a) ==
    /\ spc[s] = "orphans" /\ a \in todo[s] /\ recorded[a] > 0
    /\ \/ Charge(a, recorded[a]) /\ SweepTo(s, "orphans", todo[s] \ {a}, NoAction)
       \/ Charge(a, recorded[a]) /\ SweepTo(s, "orphan_reread", todo[s] \ {a}, a)
       \/ NoWrite /\ SweepTo(s, "orphan_reread", todo[s] \ {a}, a)
    /\ UNCHANGED <<actionVars, repairVars>>

\* None was: forgive.  Without a rollback db.get returns the listed object, not a fresh read.
ForgiveOrphan(s, a) ==
    /\ spc[s] = "orphans" /\ a \in todo[s] /\ recorded[a] = 0
    /\ ReleaseOnly(a)
    /\ SweepTo(s, "orphans", todo[s] \ {a}, NoAction)
    /\ UNCHANGED <<actionVars, repairVars>>

\* Mutant: the orphan is forgiven whatever its status has become.
OrphanNoReread(s) ==
    /\ spc[s] = "orphan_reread"
    /\ SweepTo(s, "forgive", todo[s], cur[s])
    /\ NoWrite
    /\ UNCHANGED <<actionVars, repairVars>>

OrphanReread(s) ==
    /\ spc[s] = "orphan_reread"
    /\ IF status[cur[s]] = "held"
       THEN SweepTo(s, "forgive", todo[s], cur[s])
       ELSE NextAfterRollback(s, "orphans")
    /\ NoWrite
    /\ UNCHANGED <<actionVars, repairVars>>

Forgive(s) ==
    /\ spc[s] = "forgive"
    /\ ReleaseOnly(cur[s])
    /\ NextAfterRollback(s, "orphans")
    /\ UNCHANGED <<actionVars, repairVars>>

SweepEnd(s) ==
    /\ spc[s] = "orphans" /\ todo[s] = {}
    /\ Abort(s)
    /\ NoWrite
    /\ UNCHANGED <<actionVars, repairVars>>

\* A SELECT or a commit outside _settle_core's try raises, the loop is cancelled, or its process
\* dies: the pass is lost and the next one starts over.
SweepCrash(s) ==
    /\ spc[s] # "idle"
    /\ Abort(s)
    /\ NoWrite
    /\ UNCHANGED <<actionVars, repairVars>>

SweepStep(s) ==
    \/ SweepLoadFailed(s) \/ ReplayReread(s) \/ GiveUp(s)
    \/ SweepLoadOrphans(s) \/ OrphanReread(s) \/ Forgive(s)
    \/ SweepEnd(s) \/ SweepCrash(s)
    \/ \E a \in Actions : Replay(s, a) \/ ChargeOrphan(s, a) \/ ForgiveOrphan(s, a)

-----------------------------------------------------------------------------
(* reconcile(repair=True): reads in statements of their own, then writes absolute values. *)

\* The estimates of the holds in one of the states S.
EstimatesOf(S) == SumFunctionOnSet(estimate, {a \in Actions : status[a] \in S})

\* Mutant: held_units is put right before the ledger is read.
RepairReadWrites ==
    /\ Repairs /\ wallet
    /\ \/ /\ rpc = "idle" /\ rpc' = "wallet"
          /\ snap' = [snap EXCEPT !.balance = balance, !.held = held]
       \/ /\ rpc = "wallet" /\ rpc' = "ledger"
          /\ snap' = [snap EXCEPT !.ledger = ledger]
       \/ /\ rpc = "ledger" /\ rpc' = "holds"
          /\ snap' = [snap EXCEPT !.holds = EstimatesOf({"held"})]
    /\ held' = EstimatesOf({"held"})
    /\ UNCHANGED <<wallet, balance, granted, ledgerVars, holdVars, actionVars, sweepVars, repaired>>

RepairRead ==
    /\ Repairs /\ wallet
    /\ \/ /\ rpc = "idle" /\ rpc' = "wallet"
          /\ snap' = [snap EXCEPT !.balance = balance, !.held = held]
       \/ /\ rpc = "wallet" /\ rpc' = "ledger"
          /\ snap' = [snap EXCEPT !.ledger = ledger]
       \/ /\ rpc = "ledger" /\ rpc' = "holds"
          /\ snap' = [snap EXCEPT !.holds = EstimatesOf({"held"})]
    /\ NoWrite
    /\ UNCHANGED <<actionVars, sweepVars, repaired>>

RepairWrite ==
    /\ rpc = "holds"
    /\ rpc' = "idle"
    /\ snap' = [balance |-> 0, held |-> 0, ledger |-> 0, holds |-> 0]
    /\ IF snap.balance # snap.ledger \/ snap.held # snap.holds
       THEN balance' = snap.ledger /\ held' = snap.holds /\ repaired' = TRUE
       ELSE UNCHANGED <<balance, held, repaired>>
    /\ UNCHANGED <<wallet, granted, ledgerVars, holdVars, actionVars, sweepVars>>

-----------------------------------------------------------------------------

ActionStep(a) ==
    \/ ReadWallet(a) \/ CreateWallet(a) \/ Reserve(a) \/ Refuse(a) \/ GateError(a)
    \/ Work(a) \/ End(a)
    \/ SettleCheck(a) \/ Settle(a) \/ SettleReread(a) \/ SettleRecover(a)

Next ==
    \/ \E a \in Actions : ActionStep(a) \/ Crash(a) \/ Age(a)
    \/ \E s \in Sweepers : SweepStep(s)
    \/ VisitWallet \/ \E delta \in Adjustments : Grant(delta)
    \/ RepairRead \/ RepairWrite

Spec == Init /\ [][Next]_vars

\* The event loop runs every coroutine it holds, time passes, the sweep loop survives its own
\* exceptions and keeps coming back, and the database answers again and again: a commit that
\* is tried for ever succeeds once.  That a settlement succeeds is NOT assumed (its pricing may
\* always raise), only that it returns.
Fairness ==
    /\ \A a \in Actions : WF_vars((pc[a] # "idle" /\ ActionStep(a)) \/ Age(a))
    /\ \A s \in Sweepers :
         /\ WF_vars(SweepLoadFailed(s) \/ SweepEnd(s)) /\ SF_vars(SweepLoadOrphans(s))
         /\ SF_vars(\E a \in Actions : Replay(s, a))
         /\ SF_vars(ReplayReread(s)) /\ SF_vars(GiveUp(s))
         /\ SF_vars(\E a \in Actions : ChargeOrphan(s, a) \/ ForgiveOrphan(s, a))
         /\ SF_vars(OrphanReread(s)) /\ SF_vars(Forgive(s))

FairSpec == Spec /\ Fairness

-----------------------------------------------------------------------------
(* Properties. *)

Unresolved == {"held", "settle_failed"}

\* I1 (design of the hardened credits, and _settle_core): the balance is the sum of the ledger,
\* whatever interleaving of gates, settlements, sweeps and grants produced it.  Only a repair may
\* put it out of step: it writes what it has read before.
LedgerBalanced == ~repaired => balance = ledger

\* What I2 must say for the code: held_units is what the unresolved holds reserved, those whose
\* settlement failed included (settle_hold keeps their reservation), until a repair rewrites it.
HeldIsOutstanding == ~repaired => held = EstimatesOf(Unresolved)

\* However many parties tried to resolve it, a hold caused at most one ledger row, and what it
\* debited is what it says it was charged.
ChargedOnce == \A a \in Actions : rows[a] =< 1 /\ debits[a] = charged[a]

\* reserve closes the overspend leak: what is available falls below zero only by what settled
\* actions cost beyond their estimate and by what an administrator clawed back (repairs apart).
NoOverspend == ~repaired => balance - held >= -clawed - overrun

\* held_units never keeps more than the unresolved holds reserved: credits are not locked for
\* ever, even when two parties race to resolve a hold.
NoLeakedReservation == ~repaired => held =< EstimatesOf(Unresolved)

\* The step form of HeldIsOutstanding: a step that moves held_units moves it by what the
\* reservation of one hold changed, and touches the reservation of no other hold.
Reserved(a) == IF status[a] \in Unresolved THEN estimate[a] ELSE 0

HeldMoves ==
    \/ RepairWrite
    \/ held' = held /\ \A a \in Actions : Reserved(a)' = Reserved(a)
    \/ \E a \in Actions :
         /\ held' = held + Reserved(a)' - Reserved(a)
         /\ \A b \in Actions \ {a} : Reserved(b)' = Reserved(b)

HeldFollowsHolds == [][HeldMoves]_vars

\* Why: between the moment a party reads a hold and the transaction in which it acts on what it
\* read, no other party resolves that hold.  With one sweep loop and a TTL that covers every
\* action the unlocked reads of settle_hold and sweep_holds are never stale.
Untouched(a) == debits[a] = 0 /\ rows[a] = 0 /\ charged[a] = 0

ActionOwnsHold ==
    \A a \in Actions :
      /\ pc[a] \in {"idle", "create", "gate"} => status[a] = "none"
      /\ pc[a] \in {"running", "ended", "checked", "recover"} => status[a] = "held"
      /\ pc[a] = "reread" => status[a] \in {"held", "settled"}
      /\ pc[a] = "unmetered" => status[a] \in {"none", "held"}
      /\ old[a] \/ status[a] = "settle_failed" => pc[a] = "done"

SweepOwnsHolds ==
    \A s \in Sweepers :
      /\ spc[s] \in {"replay", "replay_reread", "give_up"} =>
           \A a \in todo[s] : status[a] = "settle_failed" /\ a # cur[s]
      /\ spc[s] \in {"orphans", "orphan_reread", "forgive"} =>
           \A a \in todo[s] : status[a] = "held" /\ old[a] /\ a # cur[s]
      /\ spc[s] = "replay_reread" => status[cur[s]] \in {"settle_failed", "settled"}
      /\ spc[s] = "give_up" => status[cur[s]] = "settle_failed"
      /\ spc[s] = "orphan_reread" => status[cur[s]] \in {"held", "settled"} /\ old[cur[s]]
      /\ spc[s] = "forgive" => status[cur[s]] = "held" /\ old[cur[s]]

LedgerRowsMatch ==
    \A a \in Actions :
      /\ status[a] # "settled" => Untouched(a)
      /\ rows[a] =< 1 /\ debits[a] = charged[a]

OneResolver == ActionOwnsHold /\ SweepOwnsHolds /\ LedgerRowsMatch

\* A settled hold is final: no late settlement, replay or give-up changes its outcome again.
KeepsSettled ==
    \A a \in Actions : status[a] = "settled" =>
        status'[a] = "settled" /\ charged'[a] = charged[a] /\ debits'[a] = debits[a]

SettledIsFinal == [][KeepsSettled]_vars

\* Every reservation is resolved in the end: by its action, by a replay, or by the sweep.
HoldResolved ==
    \A a \in Actions : status[a] \in Unresolved ~> status[a] = "settled"

=============================================================================
