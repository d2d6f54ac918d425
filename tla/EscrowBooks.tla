---------------------------- MODULE EscrowBooks -----------------------------
(***************************************************************************)
(* The nightly reconciliation of ledger/service.py as invariants of the    *)
(* escrow, the stock account of orders/manual_stock.py, and the contract   *)
(* the escrow implements.                                                  *)
(***************************************************************************)
EXTENDS Escrow, Functions

ASSUME FiniteAssumption == IsFiniteSet(Orders) /\ IsFiniteSet(LineKeys)

(* What _check_orders demands of an order row and its ledger rows. *)
_check_order(r) ==
  LET refund == SumFunctionOnSet(r.refunds, RefundKeys)
      settled == r.release + r.fee
  IN  /\ r.subsidy <= r.discount
      /\ r.hold = r.total
      /\ refund = r.refunded
      /\ r.status = "completed" => settled = r.total - r.refunded
      /\ r.status \in OpenStatuses => settled + r.subsidy = 0
      /\ r.status = "refunded" => refund = r.total

(* The ledger rows of every order agree with its status and its amounts    *)
(* after every transaction, not only when the nightly job looks.           *)
OrderBooks == \A o \in Orders : _check_order(order[o])

Sum(f) == SumFunctionOnSet(f, Orders)

InEscrow(r) == IF r.status \in OpenStatuses THEN Remaining(r) ELSE 0
PaidIn(r) == r.commission + r.subsidy + r.cashback
TookBack(r) == r.commissionBack + r.cashbackBack

(* _check_platform: all the balances and the open escrow together are the  *)
(* money that came in (deposits, and what the platform itself paid as      *)
(* commission, promo subsidy and cashback) less what was clawed back.      *)
PlatformBooks ==
  SumFunctionOnSet(wallet, Parties) + Sum([o \in Orders |-> InEscrow(order[o])])
    = Funds + Sum([o \in Orders |-> PaidIn(order[o])])
            - Sum([o \in Orders |-> TookBack(order[o])])

(* A unit of made-to-order stock is left, held by a pending or processing  *)
(* order, or used by an order that was delivered; an order cancelled       *)
(* before its delivery has put its unit back.                              *)
StockConservation ==
  LET used == {o \in Orders : order[o].kind = "manual" /\ order[o].clock # "unset"}
  IN  stock + Sum([o \in Orders |-> order[o].held]) + Cardinality(used) = InitialStock

-----------------------------------------------------------------------------
Phase(st) ==
  CASE st = "none" -> "none" [] st \in OpenStatuses -> "held" [] st \in ClosedStatuses -> "closed"

(* What an order may cost, and what the contract sees of the rows. *)
Costs == {price - discount : price \in Prices, discount \in Discounts} \cap (Nat \ {0})

MoneyView ==
  [o \in Orders |-> [ phase |-> Phase(order[o].status), total |-> order[o].total,
                      toBuyer |-> order[o].refunded,
                      toSeller |-> order[o].release + order[o].fee ]]

Contract == INSTANCE EscrowContract WITH Totals <- Costs, escrow <- MoneyView

(* Every step of the escrow is a step of the contract or moves no money. *)
KeepsContract == Contract!Spec
=============================================================================
