---------------------------- MODULE Provisioning ----------------------------
(***************************************************************************)
(* Orders filled from a catalog supplier (adapters/supplier.py): the order *)
(* is committed pending, and a background task, the sweep or an admin's    *)
(* retry (orders/service.py, scheduler.py, orders/admin_case.py) buys the  *)
(* goods from the account we keep with the supplier.  The purchase takes   *)
(* no idempotency key: a second request buys a second time.                *)
(*                                                                         *)
(* A worker holds the row lock from its first read to its commit and one   *)
(* of the slots of provision_max_concurrency a little longer.  In between  *)
(* it reads the balance, commits the marker that a purchase is leaving,    *)
(* and buys; each is a step, since processes die and other workers buy     *)
(* from the same account.  Everybody else passes a locked order over.      *)
(*                                                                         *)
(* What a seller does by hand and what happens after the delivery is       *)
(* Escrow's.  That goods found under a pending order are delivered without *)
(* a purchase has no action: they are committed with the delivery only.    *)
(***************************************************************************)
EXTENDS Integers, FiniteSets

CONSTANTS
  Orders,
  Slots,       \* what _provision_slots hands out, over all processes
  Sweeps,      \* processes that run provision_sweep_job
  Price,       \* total_amount
  Quantity,
  Cost,        \* cost_price * quantity, as we have it from the last sync
  Charges,     \* what the supplier may take for it
  Funds,       \* our account with the supplier in the beginning
  Partial,     \* accepts_partial_delivery
  MaxRetries,  \* bound: retries of an order by admins
  MaxTopUps    \* bound: payments to the account, of 1 each

ASSUME PriceAssumption == Price \in Nat \ {0} /\ Quantity \in Nat \ {0} /\ Cost \in Nat
ASSUME ChargesAssumption == Charges \subseteq Nat /\ Funds \in Nat
ASSUME PartialAssumption == Partial \in BOOLEAN
ASSUME BoundsAssumption == MaxRetries \in Nat /\ MaxTopUps \in Nat

VARIABLES
  order,     \* rows, with their alerts and the tasks spawned for them
  slot,      \* the workers
  sweep,     \* runs of the job
  bought,    \* purchases the supplier has carried out, external
  account,   \* our balance there and its top-ups, external
  slips      \* history: what may keep a loss from being told

vars == <<order, slot, sweep, bought, account, slips>>

-----------------------------------------------------------------------------
None == "none"
Unknown == -1

(* age: due is PROVISION_RETRY_AFTER, expired PROVISION_DEADLINE, breached *)
(* the package's sla_hours.  marked: PURCHASE_DISPATCHED_OPERATION.  told: *)
(* an alert that asks staff to look the purchase up at the supplier.       *)
Order == [ status : {None, "pending", "delivered", "cancelled"},
           age : {"fresh", "due", "expired", "breached"}, marked : BOOLEAN, lines : 0..Quantity,
           refunded : 0..Price, told : BOOLEAN, tasks : Nat, retries : 0..MaxRetries ]
NoOrder == [ status |-> None, age |-> "fresh", marked |-> FALSE, lines |-> 0, refunded |-> 0,
             told |-> FALSE, tasks |-> 0, retries |-> 0 ]

(* by: the run of the sweep that waits for this worker, or none.           *)
Worker == [ order : Orders, by : Sweeps \cup {None},
            step : {"balance", "mark", "buy", "compare", "apply", "alert"},
            before : Nat \cup {Unknown}, lines : 0..Quantity, tell : BOOLEAN ]
Idle == [order |-> None, by |-> None, step |-> None, before |-> Unknown, lines |-> 0, tell |-> FALSE]
Started(o, by) ==
  [order |-> o, by |-> by, step |-> "balance", before |-> Unknown, lines |-> 0, tell |-> FALSE]

Run == [at : {"rest", "expire", "retry"}, todo : SUBSET Orders]
Rest == [at |-> "rest", todo |-> {}]

Slips == {"again", "compared", "alert", "admin", "sla"}

ASSUME NoneAssumption == None \notin Orders \cup Sweeps

TypeOK ==
  /\ order \in [Orders -> Order]
  /\ slot \in [Slots -> Worker \cup {Idle}]
  /\ sweep \in [Sweeps -> Run]
  /\ bought \in [Orders -> Nat]
  /\ account \in [balance : Nat, topUps : 0..MaxTopUps]
  /\ slips \in [Orders -> SUBSET Slips]

Init ==
  /\ order = [o \in Orders |-> NoOrder]
  /\ slot = [s \in Slots |-> Idle]
  /\ sweep = [j \in Sweeps |-> Rest]
  /\ bought = [o \in Orders |-> 0]
  /\ account = [balance |-> Funds, topUps |-> 0]
  /\ slips = [o \in Orders |-> {}]

-----------------------------------------------------------------------------
Pending(o) == order[o].status = "pending"

(* The row lock: from the read to the commit, not while an alert goes out. *)
Locks(s, o) == slot[s].order = o /\ slot[s].step # "alert"
Locked(o) == \E s \in Slots : Locks(s, o)

Slip(o, why) == slips' = [slips EXCEPT ![o] = @ \cup {why}]

Continue(s, worker) == slot' = [slot EXCEPT ![s] = worker]

(* The order is committed, then its task is spawned; a process that dies   *)
(* in between leaves the order to the sweep.                               *)
create_order_with_adapter(o) ==
  /\ order[o].status = None
  /\ \E spawned \in {0, 1} :
       order' = [order EXCEPT ![o].status = "pending", ![o].tasks = spawned]
  /\ UNCHANGED <<slot, sweep, bought, account, slips>>

(* A task that waits for a slot dies with its process.                     *)
task_lost(o) ==
  /\ order[o].tasks > 0
  /\ order' = [order EXCEPT ![o].tasks = @ - 1]
  /\ UNCHANGED <<slot, sweep, bought, account, slips>>

time_passes(o) ==
  /\ Pending(o) /\ order[o].age # "breached"
  /\ order' = [order EXCEPT ![o].age =
                 CASE @ = "fresh" -> "due" [] @ = "due" -> "expired" [] OTHER -> "breached"]
  /\ UNCHANGED <<slot, sweep, bought, account, slips>>

(* provision_pending_order, up to the adapter: a row that is locked or no  *)
(* longer pending is passed over.  The marker is not looked at.            *)
(* Mutant: does not lock the row. *)
TakesUnlocked(s, o, by) ==
  IF Pending(o)
  THEN /\ Continue(s, Started(o, by))
       /\ IF order[o].marked THEN Slip(o, "again") ELSE UNCHANGED slips
  ELSE UNCHANGED <<slot, slips>>

provision_pending_order(s, o, by) ==
  IF Pending(o) /\ ~Locked(o)
  THEN /\ Continue(s, Started(o, by))
       /\ IF order[o].marked THEN Slip(o, "again") ELSE UNCHANGED slips
  ELSE UNCHANGED <<slot, slips>>

task_runs(s, o) ==
  /\ order[o].tasks > 0 /\ slot[s] = Idle
  /\ provision_pending_order(s, o, None)
  /\ order' = [order EXCEPT ![o].tasks = @ - 1]
  /\ UNCHANGED <<sweep, bought, account>>

-----------------------------------------------------------------------------
(* The adapter.  The balance is a mark for the case that no answer comes;  *)
(* not to get one does not stop the purchase.                              *)
fetch_balance(s) ==
  /\ slot[s].step = "balance"
  /\ \E read \in {account.balance, Unknown} :
       Continue(s, [slot[s] EXCEPT !.step = "mark", !.before = read])
  /\ UNCHANGED <<order, sweep, bought, account, slips>>

Answer(s, lines, tell) ==
  Continue(s, [slot[s] EXCEPT !.step = "apply", !.before = Unknown, !.lines = lines, !.tell = tell])

(* No marker, no purchase.                                                 *)
(* Mutant: a marker that cannot be written is only logged. *)
MarkIfPossible(s) ==
  /\ slot[s].step = "mark"
  /\ \E written \in BOOLEAN : order' = [order EXCEPT ![slot[s].order].marked = @ \/ written]
  /\ Continue(s, [slot[s] EXCEPT !.step = "buy"])
  /\ UNCHANGED <<sweep, bought, account, slips>>

record_purchase_dispatch(s) ==
  /\ slot[s].step = "mark"
  /\ \/ /\ order' = [order EXCEPT ![slot[s].order].marked = TRUE]
        /\ Continue(s, [slot[s] EXCEPT !.step = "buy"])
     \/ Answer(s, 0, FALSE) /\ UNCHANGED order
  /\ UNCHANGED <<sweep, bought, account, slips>>

(* _settle_purchase of an answer with n lines: what is short of the order  *)
(* is delivered by the suppliers that may, and else nothing is.            *)
_settle_purchase(s, n) ==
  IF n = Quantity \/ (n > 0 /\ Partial) THEN Answer(s, n, FALSE) ELSE Answer(s, 0, TRUE)

Compare(s) == Continue(s, [slot[s] EXCEPT !.step = "compare"])

(* One request.  The supplier carries it out, at its price, or not; we     *)
(* hear of it or not.                                                      *)
purchase(s) ==
  /\ slot[s].step = "buy"
  /\ \/ \E charge \in Charges :
          /\ charge <= account.balance
          /\ account' = [account EXCEPT !.balance = @ - charge]
          /\ bought' = [bought EXCEPT ![slot[s].order] = @ + 1]
          /\ Compare(s) \/ \E n \in 0..Quantity : _settle_purchase(s, n)
     \/ /\ Compare(s) \/ Answer(s, 0, FALSE)
        /\ UNCHANGED <<account, bought>>
  /\ UNCHANGED <<order, sweep, slips>>

(* No answer: has the balance gone down by what the purchase costs?        *)
_reconcile_ambiguous(s) ==
  /\ slot[s].step = "compare"
  /\ \E after \in {account.balance, Unknown} :
       LET tell == \/ slot[s].before = Unknown
                   \/ after = Unknown
                   \/ slot[s].before - after >= Cost /\ Cost > 0
       IN  /\ Answer(s, 0, tell)
           /\ IF tell \/ bought[slot[s].order] = 0 THEN UNCHANGED slips
              ELSE Slip(slot[s].order, "compared")
  /\ UNCHANGED <<order, sweep, bought, account>>

(* _apply_provision_result and the commit.  refund_escrow raises on more   *)
(* than is left, and then nothing is committed.                            *)
_apply_provision_result(s) ==
  LET o == slot[s].order
      back == Price - (Price * slot[s].lines) \div Quantity
  IN  /\ slot[s].step = "apply"
      /\ order[o].refunded + back <= Price
      /\ order' = [order EXCEPT ![o].status = IF slot[s].lines > 0 THEN "delivered" ELSE "cancelled",
                                ![o].lines = @ + slot[s].lines,
                                ![o].refunded = @ + back]
      /\ Continue(s, IF slot[s].tell THEN [slot[s] EXCEPT !.step = "alert"] ELSE Idle)
      /\ UNCHANGED <<sweep, bought, account, slips>>

(* The alert is raised after the commit, as well as can be.                *)
_raise_operational_alert(s) ==
  /\ slot[s].step = "alert"
  /\ \/ order' = [order EXCEPT ![slot[s].order].told = TRUE] /\ UNCHANGED slips
     \/ Slip(slot[s].order, "alert") /\ UNCHANGED order
  /\ Continue(s, Idle)
  /\ UNCHANGED <<sweep, bought, account>>

(* An exception: rolled back, the order stays pending.                     *)
provision_error(s) ==
  /\ slot[s] # Idle /\ slot[s].step # "alert"
  /\ Continue(s, Idle)
  /\ UNCHANGED <<order, sweep, bought, account, slips>>

(* The process of a task dies.                                             *)
task_dies(s) ==
  /\ slot[s] # Idle /\ slot[s].by = None
  /\ Continue(s, Idle)
  /\ IF slot[s].step = "alert" THEN Slip(slot[s].order, "alert") ELSE UNCHANGED slips
  /\ UNCHANGED <<order, sweep, bought, account>>

-----------------------------------------------------------------------------
(* provision_sweep_job: first refunds what has expired, order by order;    *)
(* then lists what to retry, and provisions it one after the other.        *)
(* Mutant: the query for retries leaves out marked orders; so does this one. *)
ExpiredUnmarked(o) == Pending(o) /\ order[o].age \in {"expired", "breached"} /\ ~order[o].marked

Expired(o) == Pending(o) /\ order[o].age \in {"expired", "breached"}
Retryable(o) == Pending(o) /\ order[o].age = "due" /\ ~order[o].marked

Goes(j, at, todo) == sweep' = [sweep EXCEPT ![j] = [at |-> at, todo |-> todo]]
Waits(j) == \E s \in Slots : slot[s].by = j

sweep_starts(j) ==
  /\ sweep[j].at = "rest"
  /\ \E o \in Orders : Expired(o) \/ Retryable(o)
  /\ Goes(j, "expire", {o \in Orders : Expired(o)})
  /\ UNCHANGED <<order, slot, bought, account, slips>>

Cancel(o, told) ==
  order' = [order EXCEPT ![o].status = "cancelled", ![o].refunded = Price, ![o].told = told]

(* Mutant: the alert does not ask whether a purchase has left. *)
ExpiresQuietly(j, o) ==
  /\ sweep[j].at = "expire" /\ o \in sweep[j].todo
  /\ IF Expired(o) /\ ~Locked(o) THEN Cancel(o, FALSE) ELSE UNCHANGED order
  /\ Goes(j, "expire", sweep[j].todo \ {o})
  /\ UNCHANGED <<slot, bought, account, slips>>

sweep_expires(j, o) ==
  /\ sweep[j].at = "expire" /\ o \in sweep[j].todo
  /\ IF Expired(o) /\ ~Locked(o) THEN Cancel(o, order[o].marked) ELSE UNCHANGED order
  /\ Goes(j, "expire", sweep[j].todo \ {o})
  /\ UNCHANGED <<slot, bought, account, slips>>

sweep_lists(j) ==
  /\ sweep[j] = [at |-> "expire", todo |-> {}]
  /\ Goes(j, "retry", {o \in Orders : Retryable(o)})
  /\ UNCHANGED <<order, slot, bought, account, slips>>

sweep_retries(j, s, o) ==
  /\ sweep[j].at = "retry" /\ o \in sweep[j].todo /\ ~Waits(j)
  /\ slot[s] = Idle
  /\ provision_pending_order(s, o, j)
  /\ Goes(j, "retry", sweep[j].todo \ {o})
  /\ UNCHANGED <<order, bought, account>>

sweep_ends(j) ==
  /\ sweep[j] = [at |-> "retry", todo |-> {}] /\ ~Waits(j)
  /\ Goes(j, "rest", {})
  /\ UNCHANGED <<order, slot, bought, account, slips>>

(* The process of the job dies, and with it the worker it waits for.       *)
sweep_dies(j) ==
  /\ sweep[j].at # "rest"
  /\ Goes(j, "rest", {})
  /\ slot' = [s \in Slots |-> IF slot[s].by = j THEN Idle ELSE slot[s]]
  /\ slips' = [o \in Orders |->
                 slips[o] \cup {why \in {"alert"} : \E s \in Slots :
                                  slot[s].by = j /\ slot[s].order = o /\ slot[s].step = "alert"}]
  /\ UNCHANGED <<order, bought, account>>

(* The deadline of the package is not meant for these orders, but its      *)
(* query finds them when the sweep has not run for so long.                *)
sla_check_job(o) ==
  /\ Pending(o) /\ order[o].age = "breached" /\ ~Locked(o)
  /\ Cancel(o, order[o].told)
  /\ Slip(o, "sla")
  /\ UNCHANGED <<slot, sweep, bought, account>>

(* Admins look at the status only.                                         *)
retry_provision(o) ==
  /\ Pending(o) /\ order[o].retries < MaxRetries
  /\ order' = [order EXCEPT ![o].tasks = @ + 1, ![o].retries = @ + 1]
  /\ UNCHANGED <<slot, sweep, bought, account, slips>>

refund_order(o) ==
  /\ Pending(o) /\ ~Locked(o)
  /\ Cancel(o, order[o].told)
  /\ Slip(o, "admin")
  /\ UNCHANGED <<slot, sweep, bought, account>>

top_up ==
  /\ account.topUps < MaxTopUps
  /\ account' = [balance |-> account.balance + 1, topUps |-> account.topUps + 1]
  /\ UNCHANGED <<order, slot, sweep, bought, slips>>

-----------------------------------------------------------------------------
Works(s) ==
  \/ fetch_balance(s)
  \/ record_purchase_dispatch(s)
  \/ purchase(s)
  \/ _reconcile_ambiguous(s)
  \/ _apply_provision_result(s)
  \/ _raise_operational_alert(s)
  \/ provision_error(s)

Sweep(j) ==
  \/ sweep_starts(j)
  \/ \E o \in Orders : sweep_expires(j, o)
  \/ sweep_lists(j)
  \/ \E s \in Slots, o \in Orders : sweep_retries(j, s, o)
  \/ sweep_ends(j)

Placed(o) ==
  \/ create_order_with_adapter(o)
  \/ task_lost(o)
  \/ time_passes(o)
  \/ \E s \in Slots : task_runs(s, o)
  \/ sla_check_job(o)
  \/ retry_provision(o)
  \/ refund_order(o)

Next ==
  \/ \E o \in Orders : Placed(o)
  \/ \E s \in Slots : Works(s) \/ task_dies(s)
  \/ \E j \in Sweeps : Sweep(j) \/ sweep_dies(j)
  \/ top_up

Spec == Init /\ [][Next]_vars

(* Time passes; calls end, by a timeout if need be; the job is started     *)
(* every two minutes and gets a slot in its turn (an asyncio.Semaphore is  *)
(* first come, first served).  Its process may die, but not each time it   *)
(* is about to refund the same order.                                      *)
Fairness ==
  /\ \A o \in Orders : WF_vars(time_passes(o) /\ ~Expired(o))
  /\ \A s \in Slots : WF_vars(Works(s))
  /\ \A j \in Sweeps : WF_vars(Sweep(j))
  /\ \A j \in Sweeps : SF_vars(\E s \in Slots, o \in Orders : sweep_retries(j, s, o))
  /\ \A o \in Orders : SF_vars(\E j \in Sweeps : sweep_expires(j, o) /\ order'[o] # order[o])

FairSpec == Spec /\ Fairness

-----------------------------------------------------------------------------
(* Goods or money: what the buyer has got back is the price of what was    *)
(* not delivered.  Two workers on one order, or a sweep that refunds while *)
(* a worker buys, would give both.                                         *)
GoodsOrMoney ==
  \A o \in Orders :
    order[o].refunded = IF order[o].status \in {"delivered", "cancelled"}
                        THEN Price - (Price * order[o].lines) \div Quantity ELSE 0

(* What a crash, a rollback or a lost answer leaves behind is not bought   *)
(* again: only a worker that takes up an order whose marker is already     *)
(* there can buy twice, and no worker that starts on an unmarked one.      *)
BoughtOnce == \A o \in Orders : bought[o] > 1 => "again" \in slips[o]

(* A purchase that was paid for and whose order was refunded is brought to *)
(* the attention of staff, but for: a second attempt; a comparison of      *)
(* balances that others have changed; an alert lost after the commit; the  *)
(* two who refund by hand or by the package's deadline.                    *)
LossIsReported ==
  \A o \in Orders :
    order[o].status = "cancelled" /\ bought[o] > 0 =>
      \/ order[o].told
      \/ \E s \in Slots : slot[s].order = o /\ slot[s].step = "alert"
      \/ slips[o] # {}

(* A buyer who was charged gets goods or money, through dying processes,   *)
(* silent suppliers, rollbacks, and two sweeps at a time.                  *)
ChargedOrderEnds ==
  \A o \in Orders : Pending(o) ~> order[o].status \in {"delivered", "cancelled"}
=============================================================================
