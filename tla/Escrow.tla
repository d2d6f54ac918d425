------------------------------- MODULE Escrow -------------------------------
(***************************************************************************)
(* The money path of a marketplace order: checkout, fulfilment, dispute    *)
(* and settlement, over the wallets and the transaction ledger             *)
(* (orders/service.py, orders/admin_case.py, tasks/service.py,             *)
(* disputes/service.py, wallet/service.py and the settlement jobs of       *)
(* scheduler.py).                                                          *)
(*                                                                         *)
(* A handler that locks the order row (SELECT ... FOR UPDATE) from its     *)
(* first read to its commit is one action.  Two handlers are not of that   *)
(* kind and are split: provisioning holds the row lock across the provider *)
(* call, and accept_order / deliver_order read the row without a lock and  *)
(* write it later.                                                         *)
(*                                                                         *)
(* The ledger is kept per order: the unique index on (type, reference_id)  *)
(* makes each row of an order a function of its type (and, for refunds, of *)
(* the reference suffix), so a row is its amount and 0 means "no row".     *)
(***************************************************************************)
EXTENDS Integers, FiniteSets

CONSTANTS
  Orders,             \* orders that may be placed
  Kinds,              \* how the bought product is fulfilled, see AllKinds
  Hands,              \* seller calls that may be in flight at once
  Prices,             \* list prices (whole dong)
  Discounts,          \* promo discounts
  FeePercents,        \* platform fees an order may settle with
  CashbackPercent,    \* rate of the buyer's tier
  CommissionPercent,  \* referrer's share of the platform fee
  Tasks,              \* service tasks of a task order
  LineKeys,           \* idempotency keys of line-level refunds
  Funds,              \* the buyer's deposited balance
  FundBalance,        \* the affiliate fund
  InitialStock,       \* manual_stock of the made-to-order package
  MaxCases,           \* bound: disputes per order
  MaxExtensions       \* bound: admin escrow extensions per order

AllKinds == {"instant", "manual", "network", "catalog", "inline", "task"}

ASSUME KindsAssumption == Kinds \subseteq AllKinds
ASSUME AmountsAssumption ==
  /\ Prices \subseteq Nat
  /\ Discounts \subseteq Nat
  /\ FeePercents \subseteq 0..100
  /\ CashbackPercent \in 0..100
  /\ CommissionPercent \in 0..100
  /\ Funds \in Nat
  /\ FundBalance \in Nat
  /\ InitialStock \in Nat
ASSUME TasksAssumption == IsFiniteSet(Tasks) /\ Tasks # {}
ASSUME BoundsAssumption == MaxCases \in Nat /\ MaxExtensions \in Nat

VARIABLES
  order,         \* the order rows, each with its ledger rows and its dispute
  wallet,        \* available_balance of every party
  fund,          \* the affiliate fund
  stock,         \* manual_stock left of the made-to-order package
  provisioning,  \* orders whose row a provisioning session holds locked
  inflight       \* seller calls between their read and their commit

vars == <<order, wallet, fund, stock, provisioning, inflight>>

-----------------------------------------------------------------------------
(* Data *)

Parties == {"buyer", "seller", "platform", "referrer"}

OpenStatuses == {"pending", "processing", "delivered"}   \* ESCROW_OPEN_STATUSES
ClosedStatuses == {"completed", "refunded", "cancelled"}
OrderStatus == OpenStatuses \cup ClosedStatuses

TaskStatus == {"todo", "completed", "failed"}

(* The suffix of a refund's reference_id and, for refunds booked by a      *)
(* dispute, the dispute.  Whole is the bare reference "order-<id>".        *)
Whole == <<"", 0>>
Short == <<"-short", 0>>
ShortDelivery == <<":short-delivery", 0>>
AdminRefund == <<":admin-refund", 0>>
RefundKeys == {Whole, Short, ShortDelivery, AdminRefund}
                \cup ((LineKeys \cup {":seller-timeout", ":admin-partial"}) \X (1..MaxCases))

Row == [ kind : AllKinds \cup {"none"},
         status : OrderStatus \cup {"none"},
         total : Nat, discount : Nat, refunded : Nat,
         hold : Nat, release : Nat, fee : Nat, subsidy : Nat,
         refunds : [RefundKeys -> Nat],
         cashback : Nat, cashbackBack : Nat, cashbackClawed : BOOLEAN,
         commission : Nat, commissionBack : Nat, commissionClawed : BOOLEAN,
         clock : {"unset", "running", "due"},   \* escrow_expires_at: none, ahead, passed
         late : BOOLEAN,                        \* past sla_hours / the provision deadline
         held : 0..1,                           \* stock_held
         extensions : 0..MaxExtensions,
         open : BOOLEAN, case : 0..MaxCases,    \* the order's disputes: the latest is open?
         answered : BOOLEAN, remedy : BOOLEAN,  \* seller_responded_at; any line remedied
         task : [Tasks -> TaskStatus] ]

NoRow == [ kind |-> "none", status |-> "none", total |-> 0, discount |-> 0, refunded |-> 0,
           hold |-> 0, release |-> 0, fee |-> 0, subsidy |-> 0,
           refunds |-> [k \in RefundKeys |-> 0],
           cashback |-> 0, cashbackBack |-> 0, cashbackClawed |-> FALSE,
           commission |-> 0, commissionBack |-> 0, commissionClawed |-> FALSE,
           clock |-> "unset", late |-> FALSE, held |-> 0, extensions |-> 0,
           open |-> FALSE, case |-> 0, answered |-> FALSE, remedy |-> FALSE,
           task |-> [t \in Tasks |-> "todo"] ]

SellerCall == [hand : Hands, op : {"accept", "deliver"}, order : Orders]

TypeOK ==
  /\ order \in [Orders -> Row]
  /\ wallet \in [Parties -> Nat]
  /\ fund \in Nat
  /\ stock \in Nat
  /\ provisioning \subseteq Orders
  /\ inflight \subseteq SellerCall

-----------------------------------------------------------------------------
(* Wallet primitives: each takes and returns a transaction in progress, a  *)
(* record of the locked order row, the wallets and the affiliate fund.     *)

Tx(o) == [row |-> order[o], wallet |-> wallet, fund |-> fund]

Remaining(r) == r.total - r.refunded

PlatformFee(amount, pct) == (amount * pct) \div 100

(* Python's round(n / d): to the nearest integer, a tie to the even one.   *)
RoundDiv(n, d) ==
  LET q == n \div d
      twice == 2 * (n % d)
  IN  IF twice > d \/ (twice = d /\ q % 2 = 1) THEN q + 1 ELSE q

(* Mutant: compares with the whole order instead of what is still held. *)
CanRefundTotal(s, amount) == amount > 0 /\ amount <= s.row.total

(* refund_escrow refuses an amount beyond what is still held, before it    *)
(* looks for an earlier row with the same reference; a repeat is a no-op.  *)
CanRefund(s, amount) == amount > 0 /\ amount <= Remaining(s.row)

refund_escrow(s, key, amount) ==
  IF s.row.refunds[key] > 0 THEN s
  ELSE [s EXCEPT !.row.refunded = @ + amount,
                 !.row.refunds[key] = amount,
                 !.wallet["buyer"] = @ + amount]

PromoShare(r, amount, fee) ==
  IF r.discount = 0 THEN 0
  ELSE LET share == (r.discount * amount) \div r.total
       IN  share - ((share * fee) \div amount)

(* Mutant: the seller is credited before the fee is taken. *)
ReleaseGross(s, amount, fee) ==
  [s EXCEPT !.row.release = amount - fee,
            !.row.fee = fee,
            !.wallet["seller"] = @ + amount,
            !.wallet["platform"] = @ + fee]

(* amount is the remaining escrow, positive. *)
release_escrow(s, amount, fee) ==
  IF s.row.release > 0 \/ s.row.fee > 0 THEN s
  ELSE LET subsidy == PromoShare(s.row, amount, fee)
       IN  [s EXCEPT !.row.release = amount - fee,
                     !.row.subsidy = subsidy,
                     !.row.fee = fee,
                     !.wallet["seller"] = @ + (amount - fee) + subsidy,
                     !.wallet["platform"] = @ + fee]

apply_affiliate_commission(s, feeBase) ==
  LET amount == RoundDiv(feeBase * CommissionPercent, 100)
  IN  IF s.row.commission > 0 \/ amount = 0 \/ s.fund < amount THEN s
      ELSE [s EXCEPT !.row.commission = amount,
                     !.fund = @ - amount,
                     !.wallet["referrer"] = @ + amount]

(* Mutant: cashback on a sale that was refunded in part. *)
CashbackDespiteRefund(s) ==
  LET amount == (s.row.total * CashbackPercent) \div 100
  IN  IF s.row.status # "completed" \/ s.row.cashback > 0 \/ amount = 0 THEN s
      ELSE [s EXCEPT !.row.cashback = amount, !.wallet["buyer"] = @ + amount]

apply_buyer_cashback(s) ==
  LET amount == (s.row.total * CashbackPercent) \div 100
  IN  IF \/ s.row.status # "completed"
         \/ s.row.refunded > 0
         \/ s.row.cashback > 0
         \/ amount = 0
      THEN s
      ELSE [s EXCEPT !.row.cashback = amount,
                     !.wallet["buyer"] = @ + amount]

AtMost(a, b) == IF a < b THEN a ELSE b

(* The fund gets the whole commission back, the referrer's wallet gives at *)
(* most what it holds.                                                     *)
clawback_commission_for_order(s) ==
  LET back == AtMost(s.wallet["referrer"], s.row.commission)
  IN  IF s.row.commission = 0 \/ s.row.commissionClawed THEN s
      ELSE [s EXCEPT !.row.commissionClawed = TRUE,
                     !.row.commissionBack = back,
                     !.fund = @ + s.row.commission,
                     !.wallet["referrer"] = @ - back]

clawback_buyer_cashback(s) ==
  LET back == AtMost(s.wallet["buyer"], s.row.cashback)
  IN  IF s.row.cashback = 0 \/ s.row.cashbackClawed THEN s
      ELSE [s EXCEPT !.row.cashbackClawed = TRUE,
                     !.row.cashbackBack = back,
                     !.wallet["buyer"] = @ - back]

Clawbacks(s) == clawback_buyer_cashback(clawback_commission_for_order(s))

SetStatus(s, st) == [s EXCEPT !.row.status = st]
CloseCase(s) == [s EXCEPT !.row.open = FALSE]
StartEscrow(s) == [s EXCEPT !.row.clock = "running"]

(* Mutant: pays out the total, whatever was refunded before. *)
SettleWhole(s, pct) ==
  LET fee == PlatformFee(s.row.total, pct)
      paid == release_escrow(s, s.row.total, fee)
  IN  apply_buyer_cashback(apply_affiliate_commission(SetStatus(paid, "completed"), fee))

(* The settlement every path ends in: release what is left, complete the   *)
(* order, pay the rewards.                                                 *)
Settle(s, pct) ==
  LET left == Remaining(s.row)
      fee == PlatformFee(left, pct)
      paid == IF left > 0 THEN release_escrow(s, left, fee) ELSE s
  IN  apply_buyer_cashback(apply_affiliate_commission(SetStatus(paid, "completed"), fee))

Commit(o, s) ==
  /\ order' = [order EXCEPT ![o] = s.row]
  /\ wallet' = s.wallet
  /\ fund' = s.fund

Unlocked(o) == o \notin provisioning

-----------------------------------------------------------------------------
(* Checkout *)

NewOrder(k, price, discount, st) ==
  [NoRow EXCEPT !.kind = k, !.status = st, !.total = price - discount, !.discount = discount]

(* deduct_credit: the hold of the order's whole amount. *)
deduct_credit(o, r) ==
  [ row |-> [r EXCEPT !.hold = r.total],
    wallet |-> [wallet EXCEPT !["buyer"] = @ - r.total],
    fund |-> fund ]

CanPlace(o, k, price, discount) ==
  /\ order[o].status = "none"
  /\ k \in Kinds
  /\ price > discount
  /\ wallet["buyer"] >= price - discount

create_order_instant(o, price, discount) ==
  /\ CanPlace(o, "instant", price, discount)
  /\ Commit(o, StartEscrow(deduct_credit(o, NewOrder("instant", price, discount, "delivered"))))
  /\ UNCHANGED <<stock, provisioning, inflight>>

create_order_manual(o, price, discount) ==
  /\ CanPlace(o, "manual", price, discount)
  /\ stock > 0
  /\ Commit(o, deduct_credit(o, [NewOrder("manual", price, discount, "pending") EXCEPT !.held = 1]))
  /\ stock' = stock - 1
  /\ UNCHANGED <<provisioning, inflight>>

(* Mutants: delivered without an escrow deadline, cancelled without a refund. *)
DeliveredWithoutClock(s, key, short) ==
  LET r == SetStatus(s, "delivered")
  IN  IF short > 0 THEN refund_escrow(r, key, short) ELSE r

CancelledUnrefunded(s) == SetStatus(s, "cancelled")

(* What a successful or refused provision does to a pending order.  short  *)
(* is the part of the order the source did not deliver.                    *)
provision_delivered(s, key, short) ==
  LET r == SetStatus(s, "delivered")
  IN  StartEscrow(IF short > 0 THEN refund_escrow(r, key, short) ELSE r)

provision_failed(s) == SetStatus(refund_escrow(s, Whole, s.row.total), "cancelled")

(* An adapter without network calls provisions inside the checkout         *)
(* transaction; a task adapter leaves the order processing.                *)
create_order_inline(o, price, discount) ==
  /\ CanPlace(o, "inline", price, discount)
  /\ LET s == deduct_credit(o, NewOrder("inline", price, discount, "pending"))
     IN  \/ Commit(o, provision_delivered(s, Short, 0))
         \/ Commit(o, provision_failed(s))
  /\ UNCHANGED <<stock, provisioning, inflight>>

create_order_task(o, price, discount) ==
  /\ CanPlace(o, "task", price, discount)
  /\ Commit(o, deduct_credit(o, NewOrder("task", price, discount, "processing")))
  /\ UNCHANGED <<stock, provisioning, inflight>>

(* A network adapter: the order is committed pending, provisioning follows. *)
create_order_network(o, k, price, discount) ==
  /\ k \in {"network", "catalog"}
  /\ CanPlace(o, k, price, discount)
  /\ Commit(o, deduct_credit(o, NewOrder(k, price, discount, "pending")))
  /\ UNCHANGED <<stock, provisioning, inflight>>

-----------------------------------------------------------------------------
(* Provisioning: the background task, the sweeper's retry and the admin's  *)
(* retry share one entry point, which skips a row another session holds.   *)

provision_pending_order(o) ==
  /\ Unlocked(o)
  /\ order[o].status = "pending"
  /\ order[o].kind \in {"network", "catalog"}
  /\ provisioning' = provisioning \cup {o}
  /\ UNCHANGED <<order, wallet, fund, stock, inflight>>

apply_provision_success(o, key, short) ==
  /\ o \in provisioning
  /\ short = 0 \/ CanRefund(Tx(o), short)
  /\ Commit(o, provision_delivered(Tx(o), key, short))
  /\ provisioning' = provisioning \ {o}
  /\ UNCHANGED <<stock, inflight>>

apply_provision_failure(o) ==
  /\ o \in provisioning
  /\ CanRefund(Tx(o), order[o].total)
  /\ Commit(o, provision_failed(Tx(o)))
  /\ provisioning' = provisioning \ {o}
  /\ UNCHANGED <<stock, inflight>>

(* The adapter raised or the process died: rollback, the order stays       *)
(* pending and unlocked.                                                   *)
provision_error(o) ==
  /\ o \in provisioning
  /\ provisioning' = provisioning \ {o}
  /\ UNCHANGED <<order, wallet, fund, stock, inflight>>

-----------------------------------------------------------------------------
(* Seller fulfilment.  Both calls read the order without a lock; the UPDATE *)
(* at commit waits for a lock but checks nothing again.                    *)

SellerReads(h, o, op, st) ==
  /\ \A c \in inflight : c.hand # h
  /\ order[o].status = st
  /\ inflight' = inflight \cup {[hand |-> h, op |-> op, order |-> o]}
  /\ UNCHANGED <<order, wallet, fund, stock, provisioning>>

accept_order_read(h, o) == SellerReads(h, o, "accept", "pending")

deliver_order_read(h, o) == SellerReads(h, o, "deliver", "processing")

accept_order_commit(c) ==
  /\ c \in inflight
  /\ c.op = "accept"
  /\ Unlocked(c.order)
  /\ order' = [order EXCEPT ![c.order].status = "processing"]
  /\ inflight' = inflight \ {c}
  /\ UNCHANGED <<wallet, fund, stock, provisioning>>

deliver_order_commit(c) ==
  /\ c \in inflight
  /\ c.op = "deliver"
  /\ Unlocked(c.order)
  /\ order' = [order EXCEPT ![c.order].status = "delivered",
                            ![c.order].held = 0,
                            ![c.order].clock = "running"]
  /\ inflight' = inflight \ {c}
  /\ UNCHANGED <<wallet, fund, stock, provisioning>>

(* update_task: writes one task and, under the order's row lock, moves a   *)
(* processing order once every task has ended.                             *)
update_task(o, t, st) ==
  /\ Unlocked(o)
  /\ order[o].kind = "task"
  /\ order[o].task[t] # st
  /\ LET s == [Tx(o) EXCEPT !.row.task[t] = st]
         ended == \A u \in Tasks : s.row.task[u] # "todo"
         failed == Cardinality({u \in Tasks : s.row.task[u] = "failed"})
         share == RoundDiv(s.row.total * failed, Cardinality(Tasks))
     IN  \/ /\ s.row.status # "processing" \/ ~ended
            /\ Commit(o, s)
         \/ /\ s.row.status = "processing" /\ ended /\ failed = Cardinality(Tasks)
            /\ CanRefund(s, Remaining(s.row))
            /\ Commit(o, SetStatus(refund_escrow(s, Whole, Remaining(s.row)), "cancelled"))
         \/ /\ s.row.status = "processing" /\ ended /\ failed < Cardinality(Tasks)
            /\ share = 0 \/ CanRefund(s, share)
            /\ LET paid == IF share = 0 THEN s ELSE refund_escrow(s, Whole, share)
               IN  Commit(o, StartEscrow(SetStatus(paid, "delivered")))
  /\ UNCHANGED <<stock, provisioning, inflight>>

-----------------------------------------------------------------------------
(* Deadlines and settlement outside a dispute                              *)

(* created_at passes sla_hours or the provision deadline. *)
deadline_passes(o) ==
  /\ order[o].status = "pending"
  /\ ~order[o].late
  /\ order' = [order EXCEPT ![o].late = TRUE]
  /\ UNCHANGED <<wallet, fund, stock, provisioning, inflight>>

(* now reaches escrow_expires_at. *)
escrow_lapses(o) ==
  /\ order[o].status = "delivered"
  /\ order[o].clock = "running"
  /\ order' = [order EXCEPT ![o].clock = "due"]
  /\ UNCHANGED <<wallet, fund, stock, provisioning, inflight>>

(* Mutant: the row goes on holding the unit that was put back. *)
StockStaysHeld(s) == s

release_manual_stock(s) == [s EXCEPT !.row.held = 0]

(* Mutant: does not look at the status again once it has the lock. *)
SlaWithoutRecheck(o) ==
  /\ Unlocked(o)
  /\ order[o].late
  /\ order[o].kind \in {"manual", "catalog"}
  /\ CanRefund(Tx(o), order[o].total)
  /\ Commit(o, release_manual_stock(provision_failed(Tx(o))))
  /\ stock' = stock + order[o].held
  /\ UNCHANGED <<provisioning, inflight>>

(* Orders bought from a package with sla_hours. *)
sla_check_job(o) ==
  /\ Unlocked(o)
  /\ order[o].status = "pending" /\ order[o].late
  /\ order[o].kind \in {"manual", "catalog"}
  /\ CanRefund(Tx(o), order[o].total)
  /\ Commit(o, release_manual_stock(provision_failed(Tx(o))))
  /\ stock' = stock + order[o].held
  /\ UNCHANGED <<provisioning, inflight>>

provision_sweep_job(o) ==
  /\ Unlocked(o)
  /\ order[o].status = "pending" /\ order[o].late
  /\ order[o].kind \in {"network", "catalog"}
  /\ CanRefund(Tx(o), order[o].total)
  /\ Commit(o, provision_failed(Tx(o)))
  /\ UNCHANGED <<stock, provisioning, inflight>>

(* Mutant: settles an order its buyer disputes. *)
SettleableInDispute(o) == Unlocked(o) /\ order[o].status = "delivered"

Settleable(o) ==
  /\ Unlocked(o)
  /\ order[o].status = "delivered"
  /\ ~order[o].open

(* The buyer confirms, or an admin does so for them. *)
confirm_order(o, pct) ==
  /\ Settleable(o)
  /\ Commit(o, Settle(Tx(o), pct))
  /\ UNCHANGED <<stock, provisioning, inflight>>

escrow_release_job(o, pct) ==
  /\ Settleable(o)
  /\ order[o].clock = "due"
  /\ Commit(o, Settle(Tx(o), pct))
  /\ UNCHANGED <<stock, provisioning, inflight>>

refund_order(o) ==
  /\ Unlocked(o)
  /\ order[o].status \in OpenStatuses
  /\ ~order[o].open
  /\ Remaining(order[o]) > 0
  /\ LET paid == refund_escrow(Tx(o), AdminRefund, Remaining(order[o]))
     IN  IF order[o].status = "delivered"
         THEN /\ Commit(o, Clawbacks(SetStatus(paid, "refunded")))
              /\ UNCHANGED stock
         ELSE /\ Commit(o, Clawbacks(release_manual_stock(SetStatus(paid, "cancelled"))))
              /\ stock' = stock + order[o].held
  /\ UNCHANGED <<provisioning, inflight>>

(* May be called while a dispute is open. *)
extend_escrow(o) ==
  /\ Unlocked(o)
  /\ order[o].status = "delivered"
  /\ order[o].extensions < MaxExtensions
  /\ order' = [order EXCEPT ![o].clock = "running", ![o].extensions = @ + 1]
  /\ UNCHANGED <<wallet, fund, stock, provisioning, inflight>>

-----------------------------------------------------------------------------
(* Disputes.  When each timer of a case may fire is the concern of module  *)
(* DisputeCase; here a timer is a resolution that may come once the seller *)
(* has or has not answered.                                                *)

create_dispute(o) ==
  /\ Unlocked(o)
  /\ ~order[o].open
  /\ order[o].status = "delivered"
  /\ order[o].clock # "due"
  /\ order[o].case < MaxCases
  /\ order' = [order EXCEPT ![o].open = TRUE, ![o].case = @ + 1,
                            ![o].answered = FALSE, ![o].remedy = FALSE]
  /\ UNCHANGED <<wallet, fund, stock, provisioning, inflight>>

InCase(o) == Unlocked(o) /\ order[o].open

seller_respond_dispute(o) ==
  /\ InCase(o)
  /\ ~order[o].answered
  /\ order' = [order EXCEPT ![o].answered = TRUE]
  /\ UNCHANGED <<wallet, fund, stock, provisioning, inflight>>

(* Mutant: any refund makes the order a refunded one. *)
FinalizeAnyRefund(s, pct) ==
  IF s.row.refunded > 0
  THEN Clawbacks(SetStatus(CloseCase(s), "refunded"))
  ELSE Settle(CloseCase(s), pct)

(* The common end of a case: what is not refunded goes to the seller. *)
finalize_dispute(s, pct) ==
  IF s.row.refunded = s.row.total
  THEN Clawbacks(SetStatus(CloseCase(s), "refunded"))
  ELSE Settle(CloseCase(s), pct)

LineKinds == {"instant", "network"}

(* Remedy some lines of the case: a replacement (amount 0) or a refund, by *)
(* the seller or (actor "admin", proxy lines only) by the marketplace.     *)
resolve_lines(o, actor, key, amount, pct) ==
  /\ InCase(o)
  /\ order[o].kind \in IF actor = "seller" THEN LineKinds ELSE {"network"}
  /\ order[o].refunds[<<key, order[o].case>>] = 0
  /\ amount = 0 \/ CanRefund(Tx(o), amount)
  /\ LET r == [order[o] EXCEPT !.remedy = TRUE, !.answered = @ \/ actor = "seller"]
         s == [Tx(o) EXCEPT !.row = r]
         paid == IF amount = 0 THEN s ELSE refund_escrow(s, <<key, s.row.case>>, amount)
     IN  Commit(o, IF paid.row.refunded = paid.row.total
                   THEN finalize_dispute(paid, pct) ELSE paid)
  /\ UNCHANGED <<stock, provisioning, inflight>>

(* The buyer accepts what the seller did, or lets the offer lapse. *)
accept_dispute_resolution(o, pct) ==
  /\ InCase(o)
  /\ order[o].answered \/ order[o].remedy
  /\ Commit(o, finalize_dispute(Tx(o), pct))
  /\ UNCHANGED <<stock, provisioning, inflight>>

resolve_abandoned_dispute(o, pct) ==
  /\ InCase(o)
  /\ ~order[o].remedy
  /\ order[o].clock = "due"
  /\ Commit(o, finalize_dispute(Tx(o), pct))
  /\ UNCHANGED <<stock, provisioning, inflight>>

resolve_dispute_after_seller_timeout(o, pct) ==
  /\ InCase(o)
  /\ ~order[o].answered
  /\ LET left == Remaining(order[o])
         paid == IF left = 0 THEN Tx(o)
                 ELSE refund_escrow(Tx(o), <<":seller-timeout", order[o].case>>, left)
     IN  Commit(o, finalize_dispute(paid, pct))
  /\ UNCHANGED <<stock, provisioning, inflight>>

(* The original escrow clock goes on; if it lapsed meanwhile, settle now. *)
withdraw_dispute(o, pct) ==
  /\ InCase(o)
  /\ ~order[o].remedy
  /\ LET s == CloseCase(Tx(o))
     IN  Commit(o, IF s.row.status = "delivered" /\ s.row.clock # "running"
                   THEN Settle(s, pct) ELSE s)
  /\ UNCHANGED <<stock, provisioning, inflight>>

(* Refunds under the bare reference of the order, like a cancellation. *)
refund_dispute(o) ==
  /\ InCase(o)
  /\ LET s == SetStatus(CloseCase(Tx(o)), "refunded")
         left == Remaining(order[o])
     IN  Commit(o, Clawbacks(IF left = 0 THEN s ELSE refund_escrow(s, Whole, left)))
  /\ UNCHANGED <<stock, provisioning, inflight>>

reject_dispute(o, pct) ==
  /\ InCase(o)
  /\ Commit(o, Settle(CloseCase(Tx(o)), pct))
  /\ UNCHANGED <<stock, provisioning, inflight>>

partial_refund_dispute(o, amount, pct) ==
  /\ InCase(o)
  /\ amount < Remaining(order[o])
  /\ LET key == <<":admin-partial", order[o].case>>
     IN  Commit(o, Settle(refund_escrow(CloseCase(Tx(o)), key, amount), pct))
  /\ UNCHANGED <<stock, provisioning, inflight>>

(* A whole-order replacement, or a longer warranty: the case closes and    *)
(* the escrow runs again.                                                  *)
Resume(o) ==
  /\ Commit(o, StartEscrow(SetStatus(CloseCase(Tx(o)), "delivered")))
  /\ UNCHANGED <<stock, provisioning, inflight>>

replace_dispute(o) ==
  /\ InCase(o)
  /\ order[o].kind = "instant"
  /\ ~order[o].remedy
  /\ Resume(o)

(* The days are added to the old deadline, so it may stay in the past. *)
extend_warranty_dispute(o) ==
  /\ InCase(o)
  /\ \/ Resume(o)
     \/ /\ order[o].clock = "due"
        /\ Commit(o, SetStatus(CloseCase(Tx(o)), "delivered"))
        /\ UNCHANGED <<stock, provisioning, inflight>>

-----------------------------------------------------------------------------
Init ==
  /\ order = [o \in Orders |-> NoRow]
  /\ wallet = [p \in Parties |-> IF p = "buyer" THEN Funds ELSE 0]
  /\ fund = FundBalance
  /\ stock = InitialStock
  /\ provisioning = {}
  /\ inflight = {}

(* No amount of an order exceeds its total. *)
Amounts(o) == 1..order[o].total

Checkout(o) ==
  \E price \in Prices, discount \in Discounts :
    \/ create_order_instant(o, price, discount)
    \/ create_order_manual(o, price, discount)
    \/ create_order_inline(o, price, discount)
    \/ create_order_task(o, price, discount)
    \/ \E k \in {"network", "catalog"} : create_order_network(o, k, price, discount)

(* A source that delivered nothing fails, so a short delivery is part of   *)
(* the order.                                                              *)
Fulfil(o) ==
  \/ provision_pending_order(o)
  \/ apply_provision_success(o, Short, 0)
  \/ \E key \in {Short, ShortDelivery}, short \in Amounts(o) \ {order[o].total} :
        apply_provision_success(o, key, short)
  \/ apply_provision_failure(o)
  \/ provision_error(o)
  \/ \E h \in Hands : accept_order_read(h, o) \/ deliver_order_read(h, o)
  \/ \E t \in Tasks, st \in TaskStatus : update_task(o, t, st)

Resolve(o) ==
  \/ create_dispute(o)
  \/ seller_respond_dispute(o)
  \/ refund_dispute(o)
  \/ replace_dispute(o)
  \/ extend_warranty_dispute(o)
  \/ \E pct \in FeePercents :
       \/ \E actor \in {"seller", "admin"}, key \in LineKeys, amount \in {0} \cup Amounts(o) :
            resolve_lines(o, actor, key, amount, pct)
       \/ accept_dispute_resolution(o, pct)
       \/ resolve_abandoned_dispute(o, pct)
       \/ resolve_dispute_after_seller_timeout(o, pct)
       \/ withdraw_dispute(o, pct)
       \/ reject_dispute(o, pct)
       \/ \E amount \in Amounts(o) : partial_refund_dispute(o, amount, pct)

Close(o) ==
  \/ deadline_passes(o)
  \/ escrow_lapses(o)
  \/ sla_check_job(o)
  \/ provision_sweep_job(o)
  \/ refund_order(o)
  \/ extend_escrow(o)
  \/ \E pct \in FeePercents : confirm_order(o, pct) \/ escrow_release_job(o, pct)

SellerCommits == \E c \in inflight : accept_order_commit(c) \/ deliver_order_commit(c)

Next == (\E o \in Orders : Checkout(o) \/ Fulfil(o) \/ Resolve(o) \/ Close(o)) \/ SellerCommits

Spec == Init /\ [][Next]_vars

(* Time passes, the provider call ends, and the jobs of the scheduler run  *)
(* again and again.  A job skips a locked row; it is strongly fair where   *)
(* admins' retries may lock the row over and over.  Nothing is assumed of  *)
(* buyers, sellers and admins.                                             *)
provision_ends(o) ==
  \/ apply_provision_success(o, Short, 0)
  \/ apply_provision_failure(o)
  \/ provision_error(o)

Fairness ==
  \A o \in Orders :
    /\ WF_vars(deadline_passes(o))
    /\ WF_vars(escrow_lapses(o))
    /\ WF_vars(provision_ends(o))
    /\ WF_vars(sla_check_job(o))
    /\ SF_vars(provision_sweep_job(o))
    /\ WF_vars(\E pct \in FeePercents : escrow_release_job(o, pct))

FairSpec == Spec /\ Fairness

-----------------------------------------------------------------------------
(* Properties *)

(* A seller's call is overtaken when its order has left the status the     *)
(* call read.  The money of an order is safe as long as that never happens *)
(* (the code neither locks the row nor checks the status at the write).    *)
StatusRead(c) == IF c.op = "accept" THEN "pending" ELSE "processing"

NoSellerOvertaken == \A c \in inflight : order[c.order].status = StatusRead(c)

(* No order pays out more than its buyer paid: what was refunded and what  *)
(* was released (to the seller and in fees) never exceed the total.  The   *)
(* refund and the release rows have different types, so the unique index   *)
(* does not keep them apart; only the status and the row locks do.         *)
EscrowNotOverspent ==
  \A o \in Orders :
    order[o].refunded + order[o].release + order[o].fee <= order[o].total

(* An open case freezes the escrow: as long as it stays open the order is  *)
(* delivered, nothing is released or rewarded, and only the case's own     *)
(* remedies refund; none of the jobs, the buyer's confirmation and the     *)
(* admin's settlement reaches the money.                                   *)
Freezes(r, s) ==
  /\ r.status = "delivered" /\ s.status = "delivered"
  /\ s.release + s.fee + s.subsidy = 0
  /\ s.cashback + s.commission = 0
  /\ s.case = r.case
  /\ \A k \in RefundKeys : s.refunds[k] # r.refunds[k] => k \in LineKeys \X {r.case}

CaseFreezesEscrow ==
  [][\A o \in Orders : order[o].open /\ order'[o].open => Freezes(order[o], order'[o])]_vars

(* Rewards are paid for settled sales only and stay so: cashback only on a *)
(* completed order with nothing refunded, commission only out of a fee the *)
(* platform earned on a completed order; neither is ever left standing     *)
(* beside a refund booked later.                                           *)
RewardsOnlyOnSettledSales ==
  \A o \in Orders :
    /\ order[o].cashback > 0 /\ ~order[o].cashbackClawed =>
         order[o].status = "completed" /\ order[o].refunded = 0
    /\ order[o].commission > 0 /\ ~order[o].commissionClawed =>
         order[o].status = "completed" /\ order[o].commission <= order[o].fee

(* A closed order stays as it is: its status, what it paid to whom, and    *)
(* its ledger rows (a late job, a second confirmation or an overtaken      *)
(* seller call must not reopen it).                                        *)
ClosedStaysClosed ==
  [][\A o \in Orders : order[o].status \in ClosedStatuses =>
       [order'[o] EXCEPT !.task = order[o].task] = order[o]]_vars

(* Money does not rest in escrow by inaction: an order nobody disputes and *)
(* nobody works on by hand is closed in the end, or its buyer disputes it. *)
UnattendedOrderSettles ==
  \A o \in Orders :
    (order[o].status \in {"pending", "delivered"} /\ ~order[o].open)
      ~> (order[o].status \in ClosedStatuses \/ order[o].open)
=============================================================================
