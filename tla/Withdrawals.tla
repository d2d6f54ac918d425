---------------------------- MODULE Withdrawals -----------------------------
(***************************************************************************)
(* Payouts to bank accounts: the requests of wallet/service.py, the wallet *)
(* layers they move money between, and the cap on what an account that is  *)
(* not a seller may take out (affiliate/service.py).                       *)
(*                                                                         *)
(* Every handler locks the request row, then the wallet row, and commits   *)
(* once, so each is one action; what makes the subject hard is the order   *)
(* in which requests, decisions, transfers, commissions, clawbacks,        *)
(* spending and changes of role follow each other.                         *)
(*                                                                         *)
(* A request carries its ledger rows (reference "withdraw-<id>"), a row    *)
(* being its amount and 0 meaning that there is none.                      *)
(***************************************************************************)
EXTENDS Integers, FiniteSets, Functions

CONSTANTS
  Accounts,
  Requests,      \* withdrawal requests that may be made
  Legacy,        \* the requests approved before balances had layers
  Commissions,   \* orders that may earn a referrer a commission
  Amounts,       \* amounts of requests, credits and debits
  FeePolicies,   \* fee settings <<fixed, percent>> the admin switches between
  MinAmount,     \* withdraw_min_amount
  SellerLimit,   \* withdraw_limit_per_request of the seller's tier
  MaxMoney       \* bound: money credited in a behaviour

ASSUME AmountsAssumption ==
  /\ Amounts \subseteq Nat \ {0}
  /\ FeePolicies \subseteq Nat \X (0..100)
  /\ MinAmount \in Nat /\ SellerLimit \in Nat /\ MaxMoney \in Nat
ASSUME LegacyAssumption == Legacy \subseteq Requests
ASSUME FiniteAssumption == IsFiniteSet(Accounts) /\ IsFiniteSet(Requests) /\ IsFiniteSet(Commissions)

VARIABLES
  account,     \* role and wallet of each account
  request,     \* the withdrawal requests, each with its ledger rows
  commission,  \* the affiliate commissions
  platform,    \* available balance of the platform's wallet
  moneyIn,     \* sum of the ledger rows that bring money in
  moneyOut     \* sum of the ledger rows that take money out

vars == <<account, request, commission, platform, moneyIn, moneyOut>>

-----------------------------------------------------------------------------
RequestStatus == {"none", "pending", "approved", "rejected", "paid"}

(* old is the unreferenced payout row an approval of the old flow booked.  *)
Request == [ owner : Accounts, amount : Nat, fee : Nat, status : RequestStatus,
             source : {"seller_balance", "affiliate_commission"},
             lock : Nat, unlock : Nat, payout : Nat, feeRow : Nat, old : Nat ]

Commission == [owner : Accounts, amount : Nat, status : {"none", "paid", "clawed"}]

TypeOK ==
  /\ account \in [Accounts -> [seller : BOOLEAN, available : Nat, locked : Nat]]
  /\ request \in [Requests -> Request]
  /\ commission \in [Commissions -> Commission]
  /\ platform \in Nat /\ moneyIn \in Nat /\ moneyOut \in Nat

Least(a, b) == IF a < b THEN a ELSE b
Most(a, b) == IF a > b THEN a ELSE b

withdraw_fee_amount(amount, policy) ==
  Most(0, Least(policy[1] + (amount * policy[2]) \div 100, amount))

AmountOf(R) == SumFunctionOnSet([r \in Requests |-> request[r].amount], R)
CommissionOf(C) == SumFunctionOnSet([c \in Commissions |-> commission[c].amount], C)

earned_commission(a) ==
  CommissionOf({c \in Commissions : commission[c].owner = a /\ commission[c].status = "paid"})

(* Mutant: a paid request gives its share of the commission back.          *)
RequestedOpen(a) ==
  {r \in Requests : request[r].owner = a /\ request[r].status \in {"pending", "approved"}}

Requested(a) ==
  {r \in Requests : request[r].owner = a /\ request[r].status \notin {"none", "rejected"}}

withdrawable_commission(a) ==
  Most(0, Least(earned_commission(a) - AmountOf(Requested(a)), account[a].available))

-----------------------------------------------------------------------------
(* Requests and decisions *)

request_withdraw(r, a, amount, policy) ==
  LET fee == withdraw_fee_amount(amount, policy)
  IN  /\ request[r].status = "none"
      /\ account[a].available >= amount
      /\ amount <= IF account[a].seller THEN SellerLimit ELSE withdrawable_commission(a)
      /\ amount >= MinAmount
      /\ amount - fee > 0
      /\ account' = [account EXCEPT ![a].available = @ - amount, ![a].locked = @ + amount]
      /\ request' = [request EXCEPT ![r] =
           [ owner |-> a, amount |-> amount, fee |-> fee, status |-> "pending",
             source |-> IF account[a].seller THEN "seller_balance" ELSE "affiliate_commission",
             lock |-> amount, unlock |-> 0, payout |-> 0, feeRow |-> 0, old |-> 0 ]]
      /\ UNCHANGED <<commission, platform, moneyIn, moneyOut>>

StillLocked(r) == account[request[r].owner].locked >= request[r].amount

(* Mutant: approves a request that was rejected.                           *)
ApproveRejected(r) ==
  /\ request[r].status \in {"pending", "rejected"}
  /\ StillLocked(r)
  /\ request' = [request EXCEPT ![r].status = "approved"]
  /\ UNCHANGED <<account, commission, platform, moneyIn, moneyOut>>

approve_withdrawal(r) ==
  /\ request[r].status = "pending"
  /\ StillLocked(r)
  /\ request' = [request EXCEPT ![r].status = "approved"]
  /\ UNCHANGED <<account, commission, platform, moneyIn, moneyOut>>

(* Mutants: an equal payout of the old flow stands for any request; the    *)
(* old flow's unreferenced payouts are overlooked.                         *)
BookedByAmount(r) ==
  \/ request[r].payout > 0
  \/ \E p \in Requests : /\ request[p].owner = request[r].owner
                         /\ request[p].old > 0 /\ request[p].old = request[r].amount

BookedByReference(r) == request[r].payout > 0

(* The payout is booked under the request's reference; a request with no   *)
(* row of its own counts as booked when the owner has an unreferenced      *)
(* payout of its amount, gross or net.                                     *)
_payout_booked(r) ==
  LET q == request[r]
  IN  \/ q.payout > 0
      \/ /\ q.lock + q.unlock + q.feeRow = 0
         /\ \E p \in Requests : /\ request[p].owner = q.owner
                                /\ request[p].old > 0
                                /\ request[p].old \in {q.amount, q.amount - q.fee}

reject_withdrawal(r) ==
  LET q == request[r]
  IN  /\ q.status \in {"pending", "approved"}
      /\ ~(q.status = "approved" /\ _payout_booked(r))
      /\ StillLocked(r)
      /\ account' = [account EXCEPT ![q.owner].locked = @ - q.amount,
                                    ![q.owner].available = @ + q.amount]
      /\ request' = [request EXCEPT ![r].status = "rejected", ![r].unlock = q.amount]
      /\ UNCHANGED <<commission, platform, moneyIn, moneyOut>>

(* _book_payout: the net amount leaves, the fee goes to the platform.      *)
mark_withdrawal_paid(r) ==
  LET q == request[r]
  IN  /\ q.status = "approved"
      /\ \/ /\ _payout_booked(r)
            /\ request' = [request EXCEPT ![r].status = "paid"]
            /\ UNCHANGED <<account, platform, moneyOut>>
         \/ /\ ~_payout_booked(r)
            /\ StillLocked(r)
            /\ request' = [request EXCEPT ![r].status = "paid",
                                          ![r].payout = q.amount - q.fee,
                                          ![r].feeRow = q.fee]
            /\ account' = [account EXCEPT ![q.owner].locked = @ - q.amount]
            /\ platform' = platform + q.fee
            /\ moneyOut' = moneyOut + (q.amount - q.fee)
      /\ UNCHANGED <<commission, moneyIn>>

-----------------------------------------------------------------------------
(* What else moves the wallet of the account *)

(* topup, a deposit, a sale's release, cashback: not withdrawable by an    *)
(* account that is not a seller.                                           *)
topup(a, amount) ==
  /\ moneyIn + amount <= MaxMoney
  /\ account' = [account EXCEPT ![a].available = @ + amount]
  /\ moneyIn' = moneyIn + amount
  /\ UNCHANGED <<request, commission, platform, moneyOut>>

(* Mutant: overdraws the wallet.                                           *)
DebitOverdraws(a, amount) ==
  /\ account' = [account EXCEPT ![a].available = @ - amount]
  /\ moneyOut' = moneyOut + amount
  /\ UNCHANGED <<request, commission, platform, moneyIn>>

(* admin_debit and deduct_credit: at most the available balance.           *)
admin_debit(a, amount) ==
  /\ account[a].available >= amount
  /\ account' = [account EXCEPT ![a].available = @ - amount]
  /\ moneyOut' = moneyOut + amount
  /\ UNCHANGED <<request, commission, platform, moneyIn>>

credit_affiliate_commission(c, a, amount) ==
  /\ commission[c].status = "none"
  /\ moneyIn + amount <= MaxMoney
  /\ commission' = [commission EXCEPT ![c] = [owner |-> a, amount |-> amount, status |-> "paid"]]
  /\ account' = [account EXCEPT ![a].available = @ + amount]
  /\ moneyIn' = moneyIn + amount
  /\ UNCHANGED <<request, platform, moneyOut>>

(* Mutant: books the whole commission as taken back.                       *)
ClawbackBooksAll(c) ==
  LET a == commission[c].owner
      recovered == Least(account[a].available, commission[c].amount)
  IN  /\ commission[c].status = "paid"
      /\ commission' = [commission EXCEPT ![c].status = "clawed"]
      /\ account' = [account EXCEPT ![a].available = @ - recovered]
      /\ moneyOut' = moneyOut + commission[c].amount
      /\ UNCHANGED <<request, platform, moneyIn>>

(* Takes back what the wallet still has; the commission is clawed anyway.  *)
clawback_commission_for_order(c) ==
  LET a == commission[c].owner
      recovered == Least(account[a].available, commission[c].amount)
  IN  /\ commission[c].status = "paid"
      /\ commission' = [commission EXCEPT ![c].status = "clawed"]
      /\ account' = [account EXCEPT ![a].available = @ - recovered]
      /\ moneyOut' = moneyOut + recovered
      /\ UNCHANGED <<request, platform, moneyIn>>

(* An admin makes the account a seller or takes the role away.             *)
set_roles(a) ==
  /\ account' = [account EXCEPT ![a].seller = ~@]
  /\ UNCHANGED <<request, commission, platform, moneyIn, moneyOut>>

-----------------------------------------------------------------------------
Blank(a) ==
  [ owner |-> a, amount |-> 0, fee |-> 0, status |-> "none", source |-> "seller_balance",
    lock |-> 0, unlock |-> 0, payout |-> 0, feeRow |-> 0, old |-> 0 ]

(* A request of the old flow: approved and booked, never locked.           *)
Booked(a, amount) ==
  [Blank(a) EXCEPT !.amount = amount, !.status = "approved", !.old = amount]

Init ==
  /\ account = [a \in Accounts |-> [seller |-> FALSE, available |-> 0, locked |-> 0]]
  /\ \E a \in Accounts, amount \in Amounts :
       /\ request = [r \in Requests |-> IF r \in Legacy THEN Booked(a, amount) ELSE Blank(a)]
       /\ commission = [c \in Commissions |-> [owner |-> a, amount |-> 0, status |-> "none"]]
  /\ platform = 0 /\ moneyIn = 0 /\ moneyOut = 0

Decide(r) == approve_withdrawal(r) \/ reject_withdrawal(r) \/ mark_withdrawal_paid(r)

Next ==
  \/ \E r \in Requests : Decide(r)
  \/ \E r \in Requests, a \in Accounts, amount \in Amounts, policy \in FeePolicies :
       request_withdraw(r, a, amount, policy)
  \/ \E a \in Accounts :
       \/ set_roles(a)
       \/ \E amount \in Amounts :
            \/ topup(a, amount) \/ admin_debit(a, amount)
            \/ \E c \in Commissions : credit_affiliate_commission(c, a, amount)
  \/ \E c \in Commissions : clawback_commission_for_order(c)

Spec == Init /\ [][Next]_vars

-----------------------------------------------------------------------------
(* Properties *)

Waiting(a) == {r \in Requests \ Legacy : /\ request[r].owner = a
                                         /\ request[r].status \in {"pending", "approved"}}

(* The locked layer of every wallet is exactly what its open requests ask  *)
(* for, so the 409 answers of approve, reject and paid (the balance is no  *)
(* longer locked) never occur: no open request can lose its money to       *)
(* another one.                                                            *)
LockedForOpenRequests == \A a \in Accounts : account[a].locked = AmountOf(Waiting(a))

(* The locked money of a request goes one way, once: paid out with the fee *)
(* kept, or given back, never both and never in part.                      *)
LockedMoneyGoesOneWay ==
  \A r \in Requests :
    LET q == request[r]
        out == q.payout + q.feeRow
    IN  CASE q.status = "paid"     -> out + q.old = q.amount /\ q.unlock = 0
          [] q.status = "rejected" -> q.unlock = q.amount /\ q.lock = q.amount /\ out + q.old = 0
          [] OTHER                 -> out + q.unlock = 0

(* withdrawable_commission: whatever an account deposits, spends, claims   *)
(* back or was as a seller, the requests it made as a non-seller (those    *)
(* not rejected) never exceed the commission it was ever credited with.    *)
NonSellersTakeOnlyCommission ==
  \A a \in Accounts :
    AmountOf({r \in Requests : /\ request[r].owner = a
                              /\ request[r].source = "affiliate_commission"
                              /\ request[r].status \in {"pending", "approved", "paid"}})
      <= CommissionOf({c \in Commissions : commission[c].owner = a})

(* _check_platform without orders: all balances together are the money     *)
(* that came in less the money that left.                                  *)
PlatformBooks ==
  platform + SumFunction([a \in Accounts |-> account[a].available + account[a].locked])
    = moneyIn - moneyOut

(* A decision stands: a paid or rejected request never changes again, and  *)
(* the amount, the fee and the owner of a request are those it was made    *)
(* with, whatever the fee settings and roles become.                       *)
DecisionsStand ==
  [][\A r \in Requests :
       /\ request[r].status \in {"paid", "rejected"} => request'[r] = request[r]
       /\ request[r].status # "none" =>
            /\ request'[r].owner = request[r].owner
            /\ request'[r].amount = request[r].amount
            /\ request'[r].fee = request[r].fee]_vars
=============================================================================
