-------------------------- MODULE WithdrawalProofs --------------------------
(***************************************************************************)
(* The locked money of a withdrawal request goes one way and once, and the *)
(* wallets, the requests and the commissions add up, for any number of     *)
(* accounts and requests and any fee settings.  The first argument is      *)
(* local to a request: a request made now carries a lock row, so it is     *)
(* never taken for one that the old flow has booked, and a request of the  *)
(* old flow is always taken for one.  The second compares the sums before  *)
(* and after a step, which change by what its request, wallet or           *)
(* commission adds to them.                                                *)
(***************************************************************************)
EXTENDS Withdrawals, SumLemmas

USE AmountsAssumption, FiniteAssumption

(* The rows a request has in each status.                                  *)
Rows(q) ==
  /\ q.fee <= q.amount
  /\ q.status \in {"none", "pending", "approved"} => q.payout + q.feeRow + q.unlock = 0
  /\ q.status = "rejected" => q.unlock = q.amount /\ q.payout + q.feeRow = 0
  /\ q.status = "paid" => q.unlock = 0 /\ q.payout + q.feeRow + q.old = q.amount
  /\ q.status # "none" =>
       \/ q.old = 0 /\ q.lock = q.amount /\ q.amount > 0
       \/ /\ q.old = q.amount /\ q.lock = 0 /\ q.amount > 0
          /\ q.status \in {"approved", "paid"}

IInv == TypeOK /\ \A r \in Requests : Rows(request[r])

(* The fee of a request is at most its amount.                             *)
LEMMA FeeType ==
  ASSUME NEW amount \in Nat, NEW policy \in FeePolicies
  PROVE  withdraw_fee_amount(amount, policy) \in 0..amount
<1>1. policy[1] \in Nat /\ policy[2] \in 0..100
  OBVIOUS
<1>2. (amount * policy[2]) \div 100 \in Nat
  BY <1>1, SMT
<1> QED
  BY <1>1, <1>2 DEF withdraw_fee_amount, Most, Least

(* A step that changes one request and one wallet.                         *)
LEMMA OneRequest ==
  ASSUME IInv, NEW r \in Requests, NEW q \in Request, Rows(q),
         request' = [request EXCEPT ![r] = q],
         account' \in [Accounts -> [seller : BOOLEAN, available : Nat, locked : Nat]],
         UNCHANGED <<commission, moneyIn>>, platform' \in Nat, moneyOut' \in Nat
  PROVE  IInv'
  BY DEF IInv, TypeOK

(* A wallet with other amounts is a wallet.                                *)
LEMMA WalletType ==
  ASSUME TypeOK, NEW a \in Accounts, NEW x \in Nat, NEW y \in Nat
  PROVE  /\ [account EXCEPT ![a].available = x]
              \in [Accounts -> [seller : BOOLEAN, available : Nat, locked : Nat]]
         /\ [account EXCEPT ![a].locked = x]
              \in [Accounts -> [seller : BOOLEAN, available : Nat, locked : Nat]]
         /\ [account EXCEPT ![a].available = x, ![a].locked = y]
              \in [Accounts -> [seller : BOOLEAN, available : Nat, locked : Nat]]
         /\ [account EXCEPT ![a].locked = x, ![a].available = y]
              \in [Accounts -> [seller : BOOLEAN, available : Nat, locked : Nat]]
  BY DEF TypeOK

(* A new request.                                                          *)
LEMMA RequestStep ==
  ASSUME IInv, NEW r \in Requests, NEW a \in Accounts, NEW amount \in Amounts,
         NEW policy \in FeePolicies, request_withdraw(r, a, amount, policy)
  PROVE  IInv'
<1> DEFINE fee == withdraw_fee_amount(amount, policy)
           src == IF account[a].seller THEN "seller_balance" ELSE "affiliate_commission"
           q == [ owner |-> a, amount |-> amount, fee |-> fee, status |-> "pending",
                  source |-> src, lock |-> amount, unlock |-> 0, payout |-> 0,
                  feeRow |-> 0, old |-> 0 ]
<1>1. fee \in 0..amount /\ amount \in Nat /\ amount > 0
  BY FeeType
<1>2. src \in {"seller_balance", "affiliate_commission"}
  OBVIOUS
<1>3. account[a].available \in Nat /\ account[a].locked \in Nat
  BY DEF IInv, TypeOK
<1>4. /\ account[a].available >= amount
      /\ account' = [account EXCEPT ![a].available = account[a].available - amount,
                                    ![a].locked = account[a].locked + amount]
      /\ request' = [request EXCEPT ![r] = q]
      /\ UNCHANGED <<commission, platform, moneyIn, moneyOut>>
  BY <1>3 DEF request_withdraw, IInv, TypeOK
<1> HIDE DEF fee, src
<1>5. q \in Request /\ Rows(q)
  BY <1>1, <1>2 DEF Request, RequestStatus, Rows
<1> HIDE DEF q
<1>6. account' \in [Accounts -> [seller : BOOLEAN, available : Nat, locked : Nat]]
  <2>1. account[a].available - amount \in Nat /\ account[a].locked + amount \in Nat
    BY <1>1, <1>3, <1>4
  <2> QED
    BY <1>4, <2>1, WalletType DEF IInv
<1> QED
  BY <1>4, <1>5, <1>6, OneRequest DEF IInv, TypeOK

(* Only a request of the old flow counts as booked before it is paid.      *)
LEMMA BookedByOldFlow ==
  ASSUME TypeOK, NEW r \in Requests, Rows(request[r]), request[r].status = "approved"
  PROVE  _payout_booked(r) <=> request[r].old = request[r].amount
<1> DEFINE q == request[r]
<1>0. q \in Request
  BY DEF TypeOK
<1>1. ASSUME q.old = q.amount PROVE _payout_booked(r)
  <2>1. q.lock = 0 /\ q.old > 0 /\ q.payout + q.feeRow + q.unlock = 0
    BY <1>0, <1>1 DEF Rows, Request
  <2>2. q.lock + q.unlock + q.feeRow = 0
    BY <1>0, <2>1 DEF Request
  <2> QED
    BY <1>1, <2>1, <2>2 DEF _payout_booked
<1>2. ASSUME _payout_booked(r) PROVE q.old = q.amount
  BY <1>0, <1>2 DEF _payout_booked, Rows, Request
<1> QED
  BY <1>1, <1>2

(* The decisions of an admin. *)
LEMMA DecideStep ==
  ASSUME IInv, NEW r \in Requests, Decide(r)
  PROVE  IInv'
<1> DEFINE q == request[r]
           a == q.owner
           net == q.amount - q.fee
<1>0. /\ q \in Request /\ Rows(q) /\ a \in Accounts
      /\ account[a].available \in Nat /\ account[a].locked \in Nat
      /\ account \in [Accounts -> [seller : BOOLEAN, available : Nat, locked : Nat]]
      /\ platform \in Nat /\ moneyOut \in Nat /\ request \in [Requests -> Request]
  BY DEF IInv, TypeOK, Request
<1>n. net \in Nat /\ q.amount \in Nat /\ q.fee \in Nat
  BY <1>0 DEF Request, Rows
<1>b. q.status = "approved" => (_payout_booked(r) <=> q.old = q.amount)
  BY <1>0, BookedByOldFlow DEF IInv
<1>1. CASE approve_withdrawal(r)
  <2> DEFINE s == [q EXCEPT !.status = "approved"]
  <2>1. q.status = "pending" /\ request' = [request EXCEPT ![r] = s]
    BY <1>1 DEF approve_withdrawal
  <2>2. s \in Request /\ Rows(s)
    <3>1. s \in Request
      BY <1>0 DEF Request, RequestStatus
    <3>2. /\ s.amount = q.amount /\ s.fee = q.fee /\ s.old = q.old /\ s.lock = q.lock
          /\ s.payout = q.payout /\ s.feeRow = q.feeRow /\ s.unlock = q.unlock /\ s.status = "approved"
      BY <1>0 DEF Request
    <3> HIDE DEF s
    <3> QED
      BY <1>0, <2>1, <3>1, <3>2 DEF Rows, Request
  <2> HIDE DEF s
  <2> QED
    BY <1>0, <1>1, <2>1, <2>2, OneRequest DEF approve_withdrawal
<1>2. CASE reject_withdrawal(r)
  <2> DEFINE s == [q EXCEPT !.status = "rejected", !.unlock = q.amount]
  <2>1. /\ q.status \in {"pending", "approved"} /\ q.old # q.amount
        /\ account[a].locked >= q.amount
    BY <1>0, <1>2, <1>b DEF reject_withdrawal, StillLocked, Rows
  <2>2. s \in Request /\ Rows(s)
    <3>1. s \in Request
      BY <1>0, <1>n DEF Request, RequestStatus
    <3>2. /\ s.amount = q.amount /\ s.fee = q.fee /\ s.old = q.old /\ s.lock = q.lock
          /\ s.payout = q.payout /\ s.feeRow = q.feeRow /\ s.unlock = q.amount /\ s.status = "rejected"
      BY <1>0 DEF Request
    <3>3. q.payout + q.feeRow + q.unlock = 0 /\ q.fee <= q.amount
          /\ q.old = 0 /\ q.lock = q.amount /\ q.amount > 0
      BY <1>0, <2>1 DEF Rows
    <3>4. q.payout \in Nat /\ q.feeRow \in Nat /\ q.unlock \in Nat
      BY <1>0 DEF Request
    <3>5. q.payout + q.feeRow = 0
      BY <3>3, <3>4
    <3> HIDE DEF s, q
    <3> QED
      BY <3>1, <3>2, <3>3, <3>5 DEF Rows
  <2>3. /\ request' = [request EXCEPT ![r] = s]
        /\ account' = [account EXCEPT ![a].locked = account[a].locked - q.amount,
                                      ![a].available = account[a].available + q.amount]
        /\ UNCHANGED <<commission, platform, moneyIn, moneyOut>>
    BY <1>0, <1>2 DEF reject_withdrawal
  <2>4. account[a].locked - q.amount \in Nat /\ account[a].available + q.amount \in Nat
    BY <1>0, <1>n, <2>1
  <2> HIDE DEF s, q, a
  <2>5. account' \in [Accounts -> [seller : BOOLEAN, available : Nat, locked : Nat]]
    BY <1>0, <2>3, <2>4, WalletType DEF IInv
  <2> QED
    BY <1>0, <2>2, <2>3, <2>5, OneRequest
<1>3. CASE mark_withdrawal_paid(r) /\ _payout_booked(r)
  <2> DEFINE s == [q EXCEPT !.status = "paid"]
  <2>1. q.status = "approved" /\ q.old = q.amount
    BY <1>3, <1>b DEF mark_withdrawal_paid
  <2>2. s \in Request /\ Rows(s)
    <3>1. s \in Request
      BY <1>0 DEF Request, RequestStatus
    <3>2. /\ s.amount = q.amount /\ s.fee = q.fee /\ s.old = q.old /\ s.lock = q.lock
          /\ s.payout = q.payout /\ s.feeRow = q.feeRow /\ s.unlock = q.unlock /\ s.status = "paid"
      BY <1>0 DEF Request
    <3> HIDE DEF s
    <3> QED
      BY <1>0, <2>1, <3>1, <3>2 DEF Rows, Request
  <2>3. request' = [request EXCEPT ![r] = s] /\ UNCHANGED <<account, commission, platform, moneyIn, moneyOut>>
    BY <1>3 DEF mark_withdrawal_paid
  <2> HIDE DEF s
  <2> QED
    BY <1>0, <2>2, <2>3, OneRequest
<1>4. CASE mark_withdrawal_paid(r) /\ ~_payout_booked(r)
  <2> DEFINE s == [q EXCEPT !.status = "paid", !.payout = net, !.feeRow = q.fee]
  <2>1. q.status = "approved" /\ q.old # q.amount /\ account[a].locked >= q.amount
    BY <1>4, <1>b DEF mark_withdrawal_paid, StillLocked
  <2>2. s \in Request /\ Rows(s)
    <3>1. s \in Request
      BY <1>0, <1>n DEF Request, RequestStatus
    <3>2. /\ s.amount = q.amount /\ s.fee = q.fee /\ s.old = q.old /\ s.lock = q.lock
          /\ s.payout = net /\ s.feeRow = q.fee /\ s.unlock = q.unlock /\ s.status = "paid"
      BY <1>0 DEF Request
    <3> HIDE DEF s
    <3> QED
      BY <1>0, <1>n, <2>1, <3>1, <3>2 DEF Rows, Request
  <2>3. /\ request' = [request EXCEPT ![r] = s]
        /\ account' = [account EXCEPT ![a].locked = account[a].locked - q.amount]
        /\ platform' = platform + q.fee /\ moneyOut' = moneyOut + net
        /\ UNCHANGED <<commission, moneyIn>>
    BY <1>0, <1>4 DEF mark_withdrawal_paid
  <2>4. account[a].locked - q.amount \in Nat /\ platform + q.fee \in Nat /\ moneyOut + net \in Nat
    BY <1>0, <1>n, <2>1
  <2> HIDE DEF s, q, a, net
  <2>5. account' \in [Accounts -> [seller : BOOLEAN, available : Nat, locked : Nat]]
    BY <1>0, <2>3, <2>4, WalletType DEF IInv
  <2> QED
    BY <1>0, <2>2, <2>3, <2>4, <2>5, OneRequest
<1> QED
  BY <1>1, <1>2, <1>3, <1>4 DEF Decide

(* What else moves a wallet leaves the requests alone.                     *)
LEMMA OtherStep ==
  ASSUME IInv, UNCHANGED request,
         account' \in [Accounts -> [seller : BOOLEAN, available : Nat, locked : Nat]],
         commission' \in [Commissions -> Commission],
         platform' \in Nat, moneyIn' \in Nat, moneyOut' \in Nat
  PROVE  IInv'
  BY DEF IInv, TypeOK

(* Credits, debits, commissions, clawbacks and changes of role.            *)
LEMMA MoneyStep ==
  ASSUME IInv, NEW a \in Accounts,
         \/ set_roles(a)
         \/ \E amount \in Amounts :
              \/ topup(a, amount) \/ admin_debit(a, amount)
              \/ \E c \in Commissions : credit_affiliate_commission(c, a, amount)
  PROVE  IInv'
<1>0. /\ account \in [Accounts -> [seller : BOOLEAN, available : Nat, locked : Nat]]
      /\ commission \in [Commissions -> Commission]
      /\ account[a].available \in Nat /\ platform \in Nat /\ moneyIn \in Nat /\ moneyOut \in Nat
      /\ TypeOK
  BY DEF IInv, TypeOK
<1>1. CASE set_roles(a)
  <2>1. account' \in [Accounts -> [seller : BOOLEAN, available : Nat, locked : Nat]]
    BY <1>0, <1>1 DEF set_roles
  <2> QED
    BY <1>0, <1>1, <2>1, OtherStep DEF set_roles
<1>2. ASSUME NEW amount \in Amounts, topup(a, amount)
      PROVE  IInv'
  <2>1. account' = [account EXCEPT ![a].available = account[a].available + amount]
        /\ account[a].available + amount \in Nat /\ moneyIn' = moneyIn + amount /\ amount \in Nat
    BY <1>0, <1>2 DEF topup
  <2>2. account' \in [Accounts -> [seller : BOOLEAN, available : Nat, locked : Nat]]
    BY <1>0, <2>1, WalletType
  <2>3. /\ UNCHANGED <<request, commission, platform>>
        /\ moneyIn' \in Nat /\ moneyOut' \in Nat
    BY <1>0, <1>2, <2>1 DEF topup
  <2> QED
    BY <1>0, <2>2, <2>3, OtherStep
<1>3. ASSUME NEW amount \in Amounts, admin_debit(a, amount)
      PROVE  IInv'
  <2>1. account' = [account EXCEPT ![a].available = account[a].available - amount]
        /\ account[a].available - amount \in Nat /\ moneyOut' = moneyOut + amount /\ amount \in Nat
    BY <1>0, <1>3 DEF admin_debit
  <2>2. account' \in [Accounts -> [seller : BOOLEAN, available : Nat, locked : Nat]]
    BY <1>0, <2>1, WalletType
  <2>3. /\ UNCHANGED <<request, commission, platform>>
        /\ moneyIn' \in Nat /\ moneyOut' \in Nat
    BY <1>0, <1>3, <2>1 DEF admin_debit
  <2> QED
    BY <1>0, <2>2, <2>3, OtherStep
<1>4. ASSUME NEW amount \in Amounts, NEW c \in Commissions,
             credit_affiliate_commission(c, a, amount)
      PROVE  IInv'
  <2>1. account' = [account EXCEPT ![a].available = account[a].available + amount]
        /\ account[a].available + amount \in Nat /\ moneyIn' = moneyIn + amount /\ amount \in Nat
    BY <1>0, <1>4 DEF credit_affiliate_commission
  <2>2. commission' \in [Commissions -> Commission]
    BY <1>0, <1>4 DEF credit_affiliate_commission, Commission
  <2>3. account' \in [Accounts -> [seller : BOOLEAN, available : Nat, locked : Nat]]
    BY <1>0, <2>1, WalletType
  <2>4. UNCHANGED <<request, platform, moneyOut>> /\ moneyIn' \in Nat
    BY <1>0, <1>4, <2>1 DEF credit_affiliate_commission
  <2> QED
    BY <1>0, <2>2, <2>3, <2>4, OtherStep
<1> QED
  BY <1>1, <1>2, <1>3, <1>4

(* A clawback takes at most what the wallet holds.                         *)
LEMMA ClawbackStep ==
  ASSUME IInv, NEW c \in Commissions, clawback_commission_for_order(c)
  PROVE  IInv'
<1> DEFINE a == commission[c].owner
           back == Least(account[a].available, commission[c].amount)
<1>0. /\ account \in [Accounts -> [seller : BOOLEAN, available : Nat, locked : Nat]]
      /\ commission \in [Commissions -> Commission]
      /\ a \in Accounts /\ commission[c].amount \in Nat /\ account[a].available \in Nat
      /\ platform \in Nat /\ moneyIn \in Nat /\ moneyOut \in Nat /\ TypeOK
  BY DEF IInv, TypeOK, Commission
<1>1. back \in Nat /\ account[a].available - back \in Nat
  BY <1>0 DEF Least
<1>2. commission' \in [Commissions -> Commission]
  BY <1>0 DEF clawback_commission_for_order, Commission
<1>3. /\ account' = [account EXCEPT ![a].available = account[a].available - back]
      /\ moneyOut' = moneyOut + back /\ UNCHANGED <<request, platform, moneyIn>>
  BY <1>0 DEF clawback_commission_for_order
<1> HIDE DEF a, back
<1>4. account' \in [Accounts -> [seller : BOOLEAN, available : Nat, locked : Nat]]
  BY <1>0, <1>1, <1>3, WalletType
<1>5. moneyOut + back \in Nat
  BY <1>0, <1>1
<1> QED
  BY <1>0, <1>2, <1>3, <1>4, <1>5, OtherStep

-----------------------------------------------------------------------------
(* The books: what the requests, the wallets and the commissions add up to.*)

Opened(r, q, a) == r \notin Legacy /\ q.owner = a /\ q.status \in {"pending", "approved"}

Claimed(q, a) ==
  /\ q.owner = a /\ q.source = "affiliate_commission"
  /\ q.status \in {"pending", "approved", "paid"}

ClaimedBy(a) == {r \in Requests : Claimed(request[r], a)}
EarnedBy(a) == {c \in Commissions : commission[c].owner = a}
If(b, amount) == IF b THEN amount ELSE 0

(* Only the requests of the old flow have an unreferenced payout.          *)
LegacyInv ==
  \A r \in Requests : IF r \in Legacy THEN request[r].old > 0 /\ request[r].status # "none"
                      ELSE request[r].old = 0

Unearned == \A c \in Commissions : commission[c].status = "none" => commission[c].amount = 0

Books ==
  LegacyInv /\ Unearned /\ LockedForOpenRequests /\ NonSellersTakeOnlyCommission /\ PlatformBooks

Balance(a) == account[a].available + account[a].locked

(* What a set of requests asks for, when one of them changes. *)
LEMMA RequestsAsk ==
  ASSUME TypeOK, NEW r \in Requests, NEW q \in Request, request' = [request EXCEPT ![r] = q],
         NEW A \in SUBSET Requests, NEW B \in SUBSET Requests, A \ {r} = B \ {r}
  PROVE  /\ SumFunctionOnSet([p \in Requests |-> request[p].amount], A) \in Int
         /\ SumFunctionOnSet([p \in Requests |-> request'[p].amount], B)
              = SumFunctionOnSet([p \in Requests |-> request[p].amount], A)
                + If(r \in B, q.amount) - If(r \in A, request[r].amount)
<1> DEFINE f == [p \in Requests |-> request[p].amount]
           g == [p \in Requests |-> request'[p].amount]
<1>1. \A p \in Requests : f[p] \in Int /\ g[p] \in Int
  BY DEF TypeOK, Request
<1>2. \A p \in Requests : p # r => g[p] = f[p]
  BY DEF TypeOK
<1>3. f[r] = request[r].amount /\ g[r] = q.amount
  BY DEF TypeOK
<1> HIDE DEF f, g
<1>4. /\ SumFunctionOnSet(f, A) \in Int
      /\ SumFunctionOnSet(g, B) = SumFunctionOnSet(f, A) + Share(g, B, r) - Share(f, A, r)
  BY <1>1, <1>2, SumMoves
<1>5. Share(g, B, r) = If(r \in B, q.amount) /\ Share(f, A, r) = If(r \in A, request[r].amount)
  BY <1>3 DEF If, Share
<1> QED
  BY <1>4, <1>5 DEF f, g

LEMMA LockedStep ==
  ASSUME TypeOK, LockedForOpenRequests,
         NEW r \in Requests, NEW q \in Request, request' = [request EXCEPT ![r] = q],
         \A a \in Accounts :
           account'[a].locked = account[a].locked + If(Opened(r, q, a), q.amount)
                                - If(Opened(r, request[r], a), request[r].amount)
  PROVE  LockedForOpenRequests'
<1>1. SUFFICES ASSUME NEW a \in Accounts PROVE account'[a].locked = AmountOf(Waiting(a))'
  BY DEF LockedForOpenRequests
<1> DEFINE A == Waiting(a)
           B == {p \in Requests \ Legacy : /\ request'[p].owner = a
                                           /\ request'[p].status \in {"pending", "approved"}}
<1>2. A \in SUBSET Requests /\ B \in SUBSET Requests /\ A \ {r} = B \ {r}
  BY DEF Waiting, TypeOK
<1>3. (r \in B <=> Opened(r, q, a)) /\ (r \in A <=> Opened(r, request[r], a))
  BY DEF Waiting, Opened, TypeOK
<1>4. AmountOf(Waiting(a)) = SumFunctionOnSet([p \in Requests |-> request[p].amount], A)
  BY DEF AmountOf
<1>5. AmountOf(Waiting(a))' = SumFunctionOnSet([p \in Requests |-> request'[p].amount], B)
  BY DEF AmountOf, Waiting
<1>6. account[a].locked = AmountOf(Waiting(a))
  BY DEF LockedForOpenRequests
<1> HIDE DEF A, B
<1>7. SumFunctionOnSet([p \in Requests |-> request'[p].amount], B)
        = SumFunctionOnSet([p \in Requests |-> request[p].amount], A)
          + If(r \in B, q.amount) - If(r \in A, request[r].amount)
  BY <1>2, RequestsAsk
<1>8. AmountOf(Waiting(a))' = account[a].locked + If(r \in B, q.amount)
                               - If(r \in A, request[r].amount)
  BY <1>4, <1>5, <1>6, <1>7
<1>9. /\ If(r \in B, q.amount) = If(Opened(r, q, a), q.amount)
      /\ If(r \in A, request[r].amount) = If(Opened(r, request[r], a), request[r].amount)
  BY <1>3 DEF If
<1> QED
  BY <1>8, <1>9

LEMMA ClaimedStep ==
  ASSUME TypeOK, NEW r \in Requests, NEW q \in Request, request' = [request EXCEPT ![r] = q],
         NEW a \in Accounts
  PROVE  /\ AmountOf(ClaimedBy(a)) \in Int
         /\ AmountOf(ClaimedBy(a))' = AmountOf(ClaimedBy(a)) + If(Claimed(q, a), q.amount)
                                      - If(Claimed(request[r], a), request[r].amount)
<1> DEFINE A == ClaimedBy(a)
           B == {p \in Requests : Claimed(request'[p], a)}
<1>1. A \in SUBSET Requests /\ B \in SUBSET Requests /\ A \ {r} = B \ {r}
  BY DEF ClaimedBy, TypeOK
<1>2. (r \in B <=> Claimed(q, a)) /\ (r \in A <=> Claimed(request[r], a))
  BY DEF ClaimedBy, TypeOK
<1>3. AmountOf(ClaimedBy(a)) = SumFunctionOnSet([p \in Requests |-> request[p].amount], A)
  BY DEF AmountOf
<1>4. AmountOf(ClaimedBy(a))' = SumFunctionOnSet([p \in Requests |-> request'[p].amount], B)
  BY DEF AmountOf, ClaimedBy, Claimed
<1> HIDE DEF A, B
<1>5. /\ SumFunctionOnSet([p \in Requests |-> request[p].amount], A) \in Int
      /\ SumFunctionOnSet([p \in Requests |-> request'[p].amount], B)
           = SumFunctionOnSet([p \in Requests |-> request[p].amount], A)
             + If(r \in B, q.amount) - If(r \in A, request[r].amount)
  BY <1>1, RequestsAsk
<1>6. /\ If(r \in B, q.amount) = If(Claimed(q, a), q.amount)
      /\ If(r \in A, request[r].amount) = If(Claimed(request[r], a), request[r].amount)
  BY <1>2 DEF If
<1> QED
  BY <1>3, <1>4, <1>5, <1>6

(* What a commission adds to what its owner was ever credited with. *)
LEMMA EarnedStep ==
  ASSUME TypeOK, NEW c \in Commissions, NEW k \in Commission,
         commission' = [commission EXCEPT ![c] = k],
         commission[c].amount = 0 \/ (k.owner = commission[c].owner /\ k.amount = commission[c].amount),
         NEW a \in Accounts
  PROVE  /\ CommissionOf(EarnedBy(a)) \in Int /\ CommissionOf(EarnedBy(a))' \in Int
         /\ CommissionOf(EarnedBy(a)) <= CommissionOf(EarnedBy(a))'
<1> DEFINE f == [d \in Commissions |-> commission[d].amount]
           g == [d \in Commissions |-> commission'[d].amount]
           A == EarnedBy(a)
           B == {d \in Commissions : commission'[d].owner = a}
<1>1. A \in SUBSET Commissions /\ B \in SUBSET Commissions /\ A \ {c} = B \ {c}
  BY DEF EarnedBy, TypeOK
<1>2. \A d \in Commissions : f[d] \in Int /\ g[d] \in Int /\ (d # c => g[d] = f[d])
  BY DEF TypeOK, Commission
<1>3. CommissionOf(EarnedBy(a)) = SumFunctionOnSet(f, A) /\ CommissionOf(EarnedBy(a))' = SumFunctionOnSet(g, B)
  BY DEF CommissionOf, EarnedBy
<1>4. Share(g, B, c) \in Nat /\ Share(f, A, c) \in Nat /\ Share(f, A, c) <= Share(g, B, c)
  BY DEF Share, EarnedBy, TypeOK, Commission
<1> HIDE DEF f, g, A, B
<1>5. /\ SumFunctionOnSet(f, A) \in Int /\ SumFunctionOnSet(g, B) \in Int
      /\ SumFunctionOnSet(g, B) = SumFunctionOnSet(f, A) + Share(g, B, c) - Share(f, A, c)
  BY <1>1, <1>2, SumMoves
<1> QED
  BY <1>3, <1>4, <1>5

(* A request of an account that is not a seller is within its commission.  *)
LEMMA RequestIsEarned ==
  ASSUME TypeOK, NEW r \in Requests, NEW a \in Accounts, NEW amount \in Amounts,
         NEW policy \in FeePolicies, request_withdraw(r, a, amount, policy), ~account[a].seller
  PROVE  AmountOf(ClaimedBy(a)) + amount <= CommissionOf(EarnedBy(a))
<1> DEFINE asks == [p \in Requests |-> request[p].amount]
           gets == [d \in Commissions |-> commission[d].amount]
           paid == {c \in Commissions : commission[c].owner = a /\ commission[c].status = "paid"}
<1>1. (\A p \in Requests : asks[p] \in Nat) /\ (\A d \in Commissions : gets[d] \in Nat)
  BY DEF TypeOK, Request, Commission
<1>2. /\ Requested(a) \subseteq Requests /\ ClaimedBy(a) \subseteq Requested(a)
      /\ EarnedBy(a) \subseteq Commissions /\ paid \subseteq EarnedBy(a)
  BY DEF Requested, ClaimedBy, Claimed, EarnedBy
<1>3. /\ IsFiniteSet(Requested(a)) /\ IsFiniteSet(ClaimedBy(a))
      /\ IsFiniteSet(EarnedBy(a)) /\ IsFiniteSet(paid)
  BY <1>2, FS_Subset
<1>4. AmountOf(ClaimedBy(a)) <= AmountOf(Requested(a))
  <2>1. \A p \in Requested(a) : asks[p] \in Nat
    BY <1>1, <1>2
  <2> HIDE DEF asks
  <2>2. SumFunctionOnSet(asks, ClaimedBy(a)) <= SumFunctionOnSet(asks, Requested(a))
    BY <1>2, <1>3, <2>1, SumGrows
  <2> QED
    BY <2>2 DEF AmountOf, asks
<1>5. earned_commission(a) <= CommissionOf(EarnedBy(a))
  <2>1. \A d \in EarnedBy(a) : gets[d] \in Nat
    BY <1>1, <1>2
  <2> HIDE DEF gets, paid
  <2>2. SumFunctionOnSet(gets, paid) <= SumFunctionOnSet(gets, EarnedBy(a))
    BY <1>2, <1>3, <2>1, SumGrows
  <2> QED
    BY <2>2 DEF CommissionOf, earned_commission, gets, paid
<1>6. /\ AmountOf(ClaimedBy(a)) \in Int /\ AmountOf(Requested(a)) \in Int
      /\ earned_commission(a) \in Int /\ CommissionOf(EarnedBy(a)) \in Int
  <2>1. /\ \A p \in Requested(a) : asks[p] \in Int
        /\ \A p \in ClaimedBy(a) : asks[p] \in Int
        /\ \A d \in EarnedBy(a) : gets[d] \in Int
        /\ \A d \in paid : gets[d] \in Int
    BY <1>1, <1>2
  <2> HIDE DEF asks, gets, paid
  <2>2. SumFunctionOnSet(asks, Requested(a)) \in Int /\ SumFunctionOnSet(asks, ClaimedBy(a)) \in Int
    BY <1>3, <2>1, SumInt
  <2>3. SumFunctionOnSet(gets, EarnedBy(a)) \in Int /\ SumFunctionOnSet(gets, paid) \in Int
    BY <1>3, <2>1, SumInt
  <2> QED
    BY <2>2, <2>3 DEF AmountOf, CommissionOf, earned_commission, asks, gets, paid
<1>7. amount <= withdrawable_commission(a) /\ amount \in Nat /\ amount > 0 /\ account[a].available \in Nat
  BY DEF request_withdraw, TypeOK
<1>8. amount <= earned_commission(a) - AmountOf(Requested(a))
  BY <1>6, <1>7 DEF withdrawable_commission, Most, Least
<1> QED
  BY <1>4, <1>5, <1>6, <1>7, <1>8

(* All wallets together, when one of them changes. *)
LEMMA WalletsHold ==
  ASSUME TypeOK, TypeOK', NEW a \in Accounts, \A b \in Accounts : b # a => account'[b] = account[b]
  PROVE  /\ SumFunction([b \in Accounts |-> account[b].available + account[b].locked]) \in Int
         /\ Balance(a) \in Int /\ Balance(a)' \in Int
         /\ SumFunction([b \in Accounts |-> account'[b].available + account'[b].locked])
              = SumFunction([b \in Accounts |-> account[b].available + account[b].locked])
                + Balance(a)' - Balance(a)
<1> DEFINE f == [b \in Accounts |-> account[b].available + account[b].locked]
           g == [b \in Accounts |-> account'[b].available + account'[b].locked]
<1>1. \A b \in Accounts : f[b] \in Int /\ g[b] \in Int /\ (b # a => g[b] = f[b])
  BY DEF TypeOK
<1>2. Share(f, Accounts, a) = Balance(a) /\ Share(g, Accounts, a) = Balance(a)'
  BY DEF Share, Balance
<1>3. Balance(a) \in Int /\ Balance(a)' \in Int
  BY DEF Balance, TypeOK
<1>4. SumFunction(f) = SumFunctionOnSet(f, Accounts) /\ SumFunction(g) = SumFunctionOnSet(g, Accounts)
  BY DEF SumFunction
<1> HIDE DEF f, g
<1>5. /\ SumFunctionOnSet(f, Accounts) \in Int
      /\ SumFunctionOnSet(g, Accounts)
           = SumFunctionOnSet(f, Accounts) + Share(g, Accounts, a) - Share(f, Accounts, a)
  BY <1>1, SumMoves
<1>6. /\ SumFunction(f) \in Int
      /\ SumFunction(g) = SumFunction(f) + Balance(a)' - Balance(a)
  BY <1>2, <1>3, <1>4, <1>5
<1> QED
  BY <1>3, <1>6 DEF f, g

LEMMA PlatformStep ==
  ASSUME TypeOK, TypeOK', PlatformBooks, NEW a \in Accounts,
         \A b \in Accounts : b # a => account'[b] = account[b],
         platform' + Balance(a)' - moneyIn' + moneyOut' = platform + Balance(a) - moneyIn + moneyOut
  PROVE  PlatformBooks'
<1> DEFINE all == SumFunction([b \in Accounts |-> account[b].available + account[b].locked])
           next == SumFunction([b \in Accounts |-> account'[b].available + account'[b].locked])
<1>1. /\ all \in Int /\ Balance(a) \in Int /\ Balance(a)' \in Int
      /\ next = all + Balance(a)' - Balance(a)
  BY WalletsHold
<1>2. /\ platform \in Int /\ moneyIn \in Int /\ moneyOut \in Int
      /\ platform' \in Int /\ moneyIn' \in Int /\ moneyOut' \in Int
  BY DEF TypeOK
<1>3. platform + all = moneyIn - moneyOut
  BY DEF PlatformBooks
<1> HIDE DEF all, next
<1>4. platform' + next = moneyIn' - moneyOut'
  BY <1>1, <1>2, <1>3
<1> QED
  BY <1>4 DEF PlatformBooks, next

LEMMA NonSellers ==
  NonSellersTakeOnlyCommission
    <=> \A a \in Accounts : AmountOf(ClaimedBy(a)) <= CommissionOf(EarnedBy(a))
  BY DEF NonSellersTakeOnlyCommission, ClaimedBy, EarnedBy, Claimed

LEMMA NonSellersStep ==
  ASSUME TypeOK, NonSellersTakeOnlyCommission, UNCHANGED commission,
         NEW r \in Requests, NEW q \in Request, request' = [request EXCEPT ![r] = q],
         \A a \in Accounts :
           \/ If(Claimed(q, a), q.amount) <= If(Claimed(request[r], a), request[r].amount)
           \/ /\ AmountOf(ClaimedBy(a)) + If(Claimed(q, a), q.amount) <= CommissionOf(EarnedBy(a))
              /\ If(Claimed(request[r], a), request[r].amount) = 0
  PROVE  NonSellersTakeOnlyCommission'
<1>1. SUFFICES ASSUME NEW a \in Accounts
               PROVE  AmountOf(ClaimedBy(a))' <= CommissionOf(EarnedBy(a))'
  BY DEF NonSellersTakeOnlyCommission, ClaimedBy, EarnedBy, Claimed
<1>2. CommissionOf(EarnedBy(a))' = CommissionOf(EarnedBy(a))
  BY DEF CommissionOf, EarnedBy
<1>3. AmountOf(ClaimedBy(a)) <= CommissionOf(EarnedBy(a))
  BY NonSellers
<1>4. CommissionOf(EarnedBy(a)) \in Int
  <2> DEFINE gets == [d \in Commissions |-> commission[d].amount]
  <2>1. \A d \in EarnedBy(a) : gets[d] \in Int
    BY DEF EarnedBy, TypeOK, Commission
  <2>2. IsFiniteSet(EarnedBy(a))
    BY FS_Subset DEF EarnedBy
  <2> HIDE DEF gets
  <2>3. SumFunctionOnSet(gets, EarnedBy(a)) \in Int
    BY <2>1, <2>2, SumInt
  <2> QED
    BY <2>3 DEF CommissionOf, gets
<1>5. /\ AmountOf(ClaimedBy(a)) \in Int
      /\ AmountOf(ClaimedBy(a))' = AmountOf(ClaimedBy(a)) + If(Claimed(q, a), q.amount)
                                   - If(Claimed(request[r], a), request[r].amount)
  BY ClaimedStep
<1>6. If(Claimed(q, a), q.amount) \in Int /\ If(Claimed(request[r], a), request[r].amount) \in Int
  BY DEF If, TypeOK, Request
<1> QED
  BY <1>2, <1>3, <1>4, <1>5, <1>6

(* A new request locks what it asks for. *)
LEMMA RequestBooks ==
  ASSUME IInv, IInv', Books, NEW r \in Requests, NEW a \in Accounts, NEW amount \in Amounts,
         NEW policy \in FeePolicies, request_withdraw(r, a, amount, policy)
  PROVE  Books'
<1> DEFINE q == request'[r]
<1>1. /\ TypeOK /\ TypeOK' /\ q \in Request /\ request' = [request EXCEPT ![r] = q]
      /\ request[r].status = "none" /\ r \notin Legacy
      /\ UNCHANGED <<commission, platform, moneyIn, moneyOut>>
  BY DEF IInv, TypeOK, Books, LegacyInv, request_withdraw
<1>2. /\ q.owner = a /\ q.amount = amount /\ q.status = "pending" /\ q.old = 0
      /\ q.source = IF account[a].seller THEN "seller_balance" ELSE "affiliate_commission"
  BY <1>1 DEF request_withdraw, TypeOK
<1>3. /\ account'[a].locked = account[a].locked + amount
      /\ account'[a].available = account[a].available - amount
      /\ \A b \in Accounts : b # a => account'[b] = account[b]
      /\ amount \in Nat
  BY <1>1 DEF request_withdraw, TypeOK
<1> HIDE DEF q
<1>4. LegacyInv'
  BY <1>1, <1>2 DEF LegacyInv, Books, TypeOK
<1>5. Unearned'
  BY <1>1 DEF Books, Unearned
<1>6. LockedForOpenRequests'
  <2>1. \A b \in Accounts :
          account'[b].locked = account[b].locked + If(Opened(r, q, b), q.amount)
                               - If(Opened(r, request[r], b), request[r].amount)
    BY <1>1, <1>2, <1>3 DEF Opened, If, TypeOK
  <2> QED
    BY <1>1, <2>1, LockedStep DEF Books
<1>7. NonSellersTakeOnlyCommission'
  <2>1. ~account[a].seller => AmountOf(ClaimedBy(a)) + amount <= CommissionOf(EarnedBy(a))
    BY <1>1, RequestIsEarned
  <2>2. ASSUME NEW b \in Accounts
        PROVE  \/ If(Claimed(q, b), q.amount) <= If(Claimed(request[r], b), request[r].amount)
               \/ /\ AmountOf(ClaimedBy(b)) + If(Claimed(q, b), q.amount) <= CommissionOf(EarnedBy(b))
                  /\ If(Claimed(request[r], b), request[r].amount) = 0
    <3>1. ~Claimed(request[r], b) /\ (Claimed(q, b) => b = a /\ ~account[a].seller)
      BY <1>1, <1>2 DEF Claimed
    <3>2. CASE Claimed(q, b)
      BY <1>2, <2>1, <3>1, <3>2 DEF If
    <3>3. CASE ~Claimed(q, b)
      BY <3>1, <3>3 DEF If
    <3> QED
      BY <3>2, <3>3
  <2> QED
    BY <1>1, <2>2, NonSellersStep DEF Books
<1>8. PlatformBooks'
  <2>1. Balance(a)' = Balance(a)
    BY <1>1, <1>3 DEF Balance, TypeOK
  <2> QED
    BY <1>1, <1>3, <2>1, PlatformStep DEF Books
<1> QED
  BY <1>4, <1>5, <1>6, <1>7, <1>8 DEF Books

(* A decision unlocks what the request asked for, or moves nothing. *)
LEMMA DecideBooks ==
  ASSUME IInv, IInv', Books, NEW r \in Requests, Decide(r)
  PROVE  Books'
<1>a. PICK a \in Accounts : a = request[r].owner
  BY DEF IInv, TypeOK, Request
<1> DEFINE q == request[r]
           s == request'[r]
<1>1. /\ TypeOK /\ TypeOK' /\ q \in Request /\ s \in Request /\ Rows(q)
      /\ q.owner = a /\ commission' = commission /\ moneyIn' = moneyIn
      /\ request' = [request EXCEPT ![r] = s]
  <2>1. TypeOK /\ TypeOK' /\ q \in Request /\ s \in Request /\ Rows(q) /\ q.owner = a
    BY <1>a DEF IInv, TypeOK, Request
  <2>2. /\ request' = [request EXCEPT ![r] = s] /\ commission' = commission /\ moneyIn' = moneyIn
    BY <2>1 DEF Decide, approve_withdrawal, reject_withdrawal, mark_withdrawal_paid, TypeOK
  <2> QED
    BY <2>1, <2>2
<1>2. /\ s.owner = a /\ s.amount = q.amount /\ s.source = q.source /\ s.old = q.old
      /\ q.status \in {"pending", "approved"} /\ s.status \in {"approved", "paid", "rejected"}
  BY <1>1 DEF Decide, approve_withdrawal, reject_withdrawal, mark_withdrawal_paid, TypeOK, Request
<1>3. r \in Legacy <=> q.old = q.amount
  BY <1>1, <1>2 DEF Books, LegacyInv, Rows, Request
<1>4. \A b \in Accounts : b # a => account'[b] = account[b]
  BY <1>1 DEF Decide, approve_withdrawal, reject_withdrawal, mark_withdrawal_paid, TypeOK
(* Either the request stays open, or it is one of the old flow and leaves  *)
(* the wallet alone, or its amount is unlocked. *)
<1>5. \/ /\ s.status = "approved" /\ q.status = "pending"
         /\ UNCHANGED <<account, platform, moneyOut>>
      \/ s.status = "paid" /\ r \in Legacy /\ UNCHANGED <<account, platform, moneyOut>>
      \/ /\ s.status \in {"paid", "rejected"} /\ r \notin Legacy
         /\ account'[a].locked = account[a].locked - q.amount
         /\ platform' + Balance(a)' + moneyOut' = platform + Balance(a) + moneyOut
  <2>1. CASE approve_withdrawal(r)
    BY <1>1, <2>1 DEF approve_withdrawal, TypeOK
  <2>2. CASE reject_withdrawal(r)
    <3>1. /\ q.amount \in Nat /\ account[a].locked \in Nat /\ account[a].available \in Nat
          /\ platform \in Nat /\ moneyOut \in Nat
      BY <1>1 DEF TypeOK, Request
    <3>2. q.old # q.amount
      <4>1. CASE q.status = "pending"
        BY <1>1, <4>1 DEF Rows, Request
      <4>2. CASE q.status = "approved"
        <5>1. ~_payout_booked(r)
          BY <2>2, <4>2 DEF reject_withdrawal
        <5> QED
          BY <1>1, <4>2, <5>1, BookedByOldFlow
      <4> QED
        BY <1>2, <4>1, <4>2
    <3>3. /\ s.status = "rejected"
          /\ account'[a].locked = account[a].locked - q.amount
          /\ account'[a].available = account[a].available + q.amount
          /\ platform' = platform /\ moneyOut' = moneyOut
      BY <1>1, <2>2 DEF reject_withdrawal, TypeOK
    <3> QED
      BY <1>3, <3>1, <3>2, <3>3 DEF Balance
  <2>3. CASE mark_withdrawal_paid(r)
    <3>1. /\ q.amount \in Nat /\ q.fee \in Nat /\ account[a].locked \in Nat /\ account[a].available \in Nat
          /\ platform \in Nat /\ moneyOut \in Nat /\ q.status = "approved"
      BY <1>1, <2>3 DEF TypeOK, Request, mark_withdrawal_paid
    <3>2. _payout_booked(r) <=> r \in Legacy
      BY <1>1, <1>3, <3>1, BookedByOldFlow
    <3>3. CASE _payout_booked(r)
      <4>1. request' = [request EXCEPT ![r].status = "paid"] /\ UNCHANGED <<account, platform, moneyOut>>
        BY <2>3, <3>3 DEF mark_withdrawal_paid
      <4>2. s.status = "paid"
        BY <1>1, <4>1 DEF TypeOK, Request
      <4> QED
        BY <3>2, <3>3, <4>1, <4>2
    <3>4. CASE ~_payout_booked(r)
      <4>1. /\ s.status = "paid"
            /\ account'[a].locked = account[a].locked - q.amount
            /\ account'[a].available = account[a].available
            /\ platform' = platform + q.fee /\ moneyOut' = moneyOut + (q.amount - q.fee)
        <5>1. /\ request' = [request EXCEPT ![r].status = "paid", ![r].payout = q.amount - q.fee,
                                            ![r].feeRow = q.fee]
              /\ account' = [account EXCEPT ![q.owner].locked = @ - q.amount]
              /\ platform' = platform + q.fee /\ moneyOut' = moneyOut + (q.amount - q.fee)
          BY <2>3, <3>4 DEF mark_withdrawal_paid
        <5>2. s.status = "paid"
          BY <1>1, <5>1 DEF TypeOK, Request
        <5>3. account'[a].locked = account[a].locked - q.amount /\ account'[a].available = account[a].available
          BY <1>1, <5>1 DEF TypeOK
        <5> QED
          BY <5>1, <5>2, <5>3
      <4> QED
        BY <3>1, <3>2, <3>4, <4>1 DEF Balance
    <3> QED
      BY <3>3, <3>4
  <2> QED
    BY <2>1, <2>2, <2>3 DEF Decide
<1> HIDE DEF q, s
<1>7. LegacyInv'
  BY <1>1, <1>2 DEF LegacyInv, Books, TypeOK, q, s
<1>8. Unearned'
  BY <1>1 DEF Books, Unearned
<1>9. LockedForOpenRequests'
  <2>1. \A d \in Accounts :
          account'[d].locked = account[d].locked + If(Opened(r, s, d), s.amount)
                               - If(Opened(r, q, d), q.amount)
    <3> SUFFICES ASSUME NEW d \in Accounts
                 PROVE  account'[d].locked = account[d].locked + If(Opened(r, s, d), s.amount)
                                             - If(Opened(r, q, d), q.amount)
      OBVIOUS
    <3>1. account[d].locked \in Nat /\ q.amount \in Nat /\ s.amount = q.amount /\ q.owner = a
      BY <1>1, <1>2 DEF TypeOK, Request, q
    <3>2. CASE d # a
      BY <1>2, <1>4, <3>1, <3>2 DEF Opened, If
    <3>3. CASE d = a
      BY <1>2, <1>5, <3>1, <3>3 DEF Opened, If
    <3> QED
      BY <3>2, <3>3
  <2> QED
    BY <1>1, <2>1, LockedStep DEF Books, q
<1>10. NonSellersTakeOnlyCommission'
  <2>1. \A d \in Accounts : If(Claimed(s, d), s.amount) <= If(Claimed(q, d), q.amount)
    BY <1>1, <1>2 DEF Claimed, If, Request, q
  <2> QED
    BY <1>1, <2>1, NonSellersStep DEF Books, q
<1>11. PlatformBooks'
  <2>1. /\ Balance(a) \in Int /\ platform \in Int /\ moneyOut \in Int /\ moneyIn \in Int
        /\ Balance(a)' \in Int /\ platform' \in Int /\ moneyOut' \in Int
    BY <1>1 DEF Balance, TypeOK
  <2>2. platform' + Balance(a)' + moneyOut' = platform + Balance(a) + moneyOut
    <3>1. account' = account => Balance(a)' = Balance(a)
      BY DEF Balance
    <3> QED
      BY <1>5, <3>1
  <2>3. platform' + Balance(a)' - moneyIn' + moneyOut' = platform + Balance(a) - moneyIn + moneyOut
    BY <1>1, <2>1, <2>2
  <2> QED
    BY <1>1, <1>4, <2>3, PlatformStep DEF Books
<1> QED
  BY <1>7, <1>8, <1>9, <1>10, <1>11 DEF Books

(* What moves a wallet without a request moves neither locked money nor    *)
(* what requests ask for.                                                  *)
LEMMA RequestsUnmoved ==
  ASSUME Books, UNCHANGED request, \A a \in Accounts : account'[a].locked = account[a].locked
  PROVE  LegacyInv' /\ LockedForOpenRequests'
<1>1. LegacyInv'
  BY DEF LegacyInv, Books
<1>2. \A a \in Accounts : AmountOf(Waiting(a))' = AmountOf(Waiting(a))
  BY DEF AmountOf, Waiting
<1>3. LockedForOpenRequests'
  BY <1>2 DEF LockedForOpenRequests, Books
<1> QED
  BY <1>1, <1>3

LEMMA CommissionsUnmoved ==
  ASSUME Books, UNCHANGED <<request, commission>>
  PROVE  Unearned' /\ NonSellersTakeOnlyCommission'
<1>1. Unearned'
  BY DEF Unearned, Books
<1>2. \A a \in Accounts : /\ AmountOf(ClaimedBy(a))' = AmountOf(ClaimedBy(a))
                          /\ CommissionOf(EarnedBy(a))' = CommissionOf(EarnedBy(a))
  BY DEF AmountOf, ClaimedBy, Claimed, CommissionOf, EarnedBy
<1>3. \A a \in Accounts : AmountOf(ClaimedBy(a)) <= CommissionOf(EarnedBy(a))
  BY NonSellers DEF Books
<1>4. NonSellersTakeOnlyCommission'
  BY <1>2, <1>3 DEF NonSellersTakeOnlyCommission, ClaimedBy, EarnedBy, Claimed
<1> QED
  BY <1>1, <1>4

(* One commission is credited or clawed back. *)
LEMMA CommissionsMove ==
  ASSUME TypeOK, Books, UNCHANGED request, NEW c \in Commissions, NEW k \in Commission,
         commission' = [commission EXCEPT ![c] = k], k.status # "none",
         commission[c].amount = 0 \/ (k.owner = commission[c].owner /\ k.amount = commission[c].amount)
  PROVE  Unearned' /\ NonSellersTakeOnlyCommission'
<1>1. Unearned'
  BY DEF Unearned, Books, TypeOK
<1>2. SUFFICES ASSUME NEW a \in Accounts
               PROVE  AmountOf(ClaimedBy(a))' <= CommissionOf(EarnedBy(a))'
  BY <1>1 DEF NonSellersTakeOnlyCommission, ClaimedBy, EarnedBy, Claimed
<1>3. AmountOf(ClaimedBy(a))' = AmountOf(ClaimedBy(a))
  BY DEF AmountOf, ClaimedBy, Claimed
<1>4. AmountOf(ClaimedBy(a)) \in Int
  <2> DEFINE asks == [p \in Requests |-> request[p].amount]
  <2>1. \A p \in ClaimedBy(a) : asks[p] \in Int
    BY DEF ClaimedBy, TypeOK, Request
  <2>2. IsFiniteSet(ClaimedBy(a))
    BY FS_Subset DEF ClaimedBy
  <2> HIDE DEF asks
  <2>3. SumFunctionOnSet(asks, ClaimedBy(a)) \in Int
    BY <2>1, <2>2, SumInt
  <2> QED
    BY <2>3 DEF AmountOf, asks
<1>5. /\ CommissionOf(EarnedBy(a)) \in Int /\ CommissionOf(EarnedBy(a))' \in Int
      /\ CommissionOf(EarnedBy(a)) <= CommissionOf(EarnedBy(a))'
  BY EarnedStep
<1>6. AmountOf(ClaimedBy(a)) <= CommissionOf(EarnedBy(a))
  BY NonSellers DEF Books
<1> QED
  BY <1>3, <1>4, <1>5, <1>6

(* Only the available balance moves, with the totals. *)
LEMMA AvailableStep ==
  ASSUME TypeOK, TypeOK', PlatformBooks, NEW a \in Accounts, UNCHANGED platform,
         \A b \in Accounts : /\ account'[b].locked = account[b].locked
                             /\ b # a => account'[b] = account[b],
         account'[a].available - moneyIn' + moneyOut' = account[a].available - moneyIn + moneyOut
  PROVE  PlatformBooks'
<1>1. /\ platform \in Int /\ moneyIn \in Int /\ moneyOut \in Int
      /\ platform' \in Int /\ moneyIn' \in Int /\ moneyOut' \in Int
      /\ account[a].available \in Int /\ account'[a].available \in Int /\ account[a].locked \in Int
  BY DEF TypeOK
<1>2. platform' + Balance(a)' - moneyIn' + moneyOut' = platform + Balance(a) - moneyIn + moneyOut
  BY <1>1 DEF Balance
<1> QED
  BY <1>2, PlatformStep

LEMMA MoneyBooks ==
  ASSUME IInv, IInv', Books, NEW a \in Accounts,
         \/ set_roles(a)
         \/ \E amount \in Amounts :
              \/ topup(a, amount) \/ admin_debit(a, amount)
              \/ \E c \in Commissions : credit_affiliate_commission(c, a, amount)
  PROVE  Books'
<1>0. /\ TypeOK /\ TypeOK' /\ moneyIn \in Nat /\ moneyOut \in Nat /\ account[a].available \in Nat
      /\ account \in [Accounts -> [seller : BOOLEAN, available : Nat, locked : Nat]]
      /\ LegacyInv /\ PlatformBooks
  BY DEF IInv, TypeOK, Books
<1>1. CASE set_roles(a)
  <2>1. /\ UNCHANGED <<request, commission, platform, moneyIn, moneyOut>>
        /\ \A b \in Accounts : /\ account'[b].locked = account[b].locked
                               /\ b # a => account'[b] = account[b]
        /\ account'[a].available = account[a].available
    BY <1>0, <1>1 DEF set_roles
  <2>2. PlatformBooks'
    BY <1>0, <2>1, AvailableStep
  <2> QED
    BY <2>1, <2>2, RequestsUnmoved, CommissionsUnmoved DEF Books
<1>2. ASSUME NEW amount \in Amounts, topup(a, amount) PROVE Books'
  <2>1. /\ UNCHANGED <<request, commission, platform, moneyOut>>
        /\ \A b \in Accounts : /\ account'[b].locked = account[b].locked
                               /\ b # a => account'[b] = account[b]
        /\ account'[a].available = account[a].available + amount /\ moneyIn' = moneyIn + amount
    BY <1>0, <1>2 DEF topup
  <2>2. account'[a].available - moneyIn' + moneyOut' = account[a].available - moneyIn + moneyOut
    BY <1>0, <2>1
  <2>3. PlatformBooks'
    BY <1>0, <2>1, <2>2, AvailableStep
  <2> QED
    BY <2>1, <2>3, RequestsUnmoved, CommissionsUnmoved DEF Books
<1>3. ASSUME NEW amount \in Amounts, admin_debit(a, amount) PROVE Books'
  <2>1. /\ UNCHANGED <<request, commission, platform, moneyIn>>
        /\ \A b \in Accounts : /\ account'[b].locked = account[b].locked
                               /\ b # a => account'[b] = account[b]
        /\ account'[a].available = account[a].available - amount /\ moneyOut' = moneyOut + amount
    BY <1>0, <1>3 DEF admin_debit
  <2>2. account'[a].available - moneyIn' + moneyOut' = account[a].available - moneyIn + moneyOut
    BY <1>0, <2>1
  <2>3. PlatformBooks'
    BY <1>0, <2>1, <2>2, AvailableStep
  <2> QED
    BY <2>1, <2>3, RequestsUnmoved, CommissionsUnmoved DEF Books
<1>4. ASSUME NEW amount \in Amounts, NEW c \in Commissions, credit_affiliate_commission(c, a, amount)
      PROVE  Books'
  <2> DEFINE k == [owner |-> a, amount |-> amount, status |-> "paid"]
  <2>1. /\ UNCHANGED <<request, platform, moneyOut>> /\ commission' = [commission EXCEPT ![c] = k]
        /\ \A b \in Accounts : /\ account'[b].locked = account[b].locked
                               /\ b # a => account'[b] = account[b]
        /\ account'[a].available = account[a].available + amount /\ moneyIn' = moneyIn + amount
    BY <1>0, <1>4 DEF credit_affiliate_commission
  <2>2. k \in Commission /\ k.status # "none"
    BY DEF Commission
  <2>3. commission[c].amount = 0
    BY <1>4 DEF credit_affiliate_commission, Books, Unearned
  <2>4. account'[a].available - moneyIn' + moneyOut' = account[a].available - moneyIn + moneyOut
    <3>1. /\ account'[a].available = account[a].available + amount /\ moneyIn' = moneyIn + amount
          /\ moneyOut' = moneyOut /\ amount \in Nat
      BY <2>1
    <3> QED
      BY <1>0, <3>1
  <2>5. PlatformBooks'
    BY <1>0, <2>1, <2>4, AvailableStep
  <2> HIDE DEF k
  <2>6. Unearned' /\ NonSellersTakeOnlyCommission'
    BY <1>0, <2>1, <2>2, <2>3, CommissionsMove
  <2> QED
    BY <2>1, <2>5, <2>6, RequestsUnmoved DEF Books
<1> QED
  BY <1>1, <1>2, <1>3, <1>4

(* A clawback takes the commission's mark, and what the wallet still has.  *)
LEMMA ClawbackBooks ==
  ASSUME IInv, IInv', Books, NEW c \in Commissions, clawback_commission_for_order(c)
  PROVE  Books'
<1>a. PICK a \in Accounts : a = commission[c].owner
  BY DEF IInv, TypeOK, Commission
<1> DEFINE back == Least(account[a].available, commission[c].amount)
           k == [commission[c] EXCEPT !.status = "clawed"]
<1>0. /\ TypeOK /\ TypeOK' /\ moneyIn \in Nat /\ moneyOut \in Nat /\ account[a].available \in Nat
      /\ account \in [Accounts -> [seller : BOOLEAN, available : Nat, locked : Nat]]
      /\ commission[c] \in Commission /\ commission \in [Commissions -> Commission] /\ PlatformBooks
  BY DEF IInv, TypeOK, Books
<1>1. back \in Nat
  BY <1>0 DEF Least, Commission
<1>2. /\ k \in Commission /\ k.status # "none" /\ k.owner = commission[c].owner
      /\ k.amount = commission[c].amount
  BY <1>0 DEF Commission
<1>3. /\ UNCHANGED <<request, platform, moneyIn>> /\ commission' = [commission EXCEPT ![c] = k]
      /\ \A b \in Accounts : /\ account'[b].locked = account[b].locked
                             /\ b # a => account'[b] = account[b]
      /\ account'[a].available = account[a].available - back /\ moneyOut' = moneyOut + back
  BY <1>0, <1>a DEF clawback_commission_for_order
<1> HIDE DEF back, k
<1>4. account'[a].available - moneyIn' + moneyOut' = account[a].available - moneyIn + moneyOut
  BY <1>0, <1>1, <1>3
<1>5. PlatformBooks'
  BY <1>0, <1>3, <1>4, AvailableStep
<1>6. Unearned' /\ NonSellersTakeOnlyCommission'
  BY <1>0, <1>2, <1>3, CommissionsMove
<1> QED
  BY <1>3, <1>5, <1>6, RequestsUnmoved DEF Books

-----------------------------------------------------------------------------
(* Requests are either new, with no row, or booked by the old flow.        *)
LEMMA InitInv == ASSUME Init PROVE IInv
<1> PICK a \in Accounts, amount \in Amounts :
      /\ request = [r \in Requests |-> IF r \in Legacy THEN Booked(a, amount) ELSE Blank(a)]
      /\ commission = [c \in Commissions |-> [owner |-> a, amount |-> 0, status |-> "none"]]
  BY DEF Init
<1>1. amount \in Nat /\ amount > 0
  OBVIOUS
<1>2. Booked(a, amount) \in Request /\ Blank(a) \in Request
  BY <1>1 DEF Booked, Blank, Request, RequestStatus
<1>3. Rows(Booked(a, amount)) /\ Rows(Blank(a))
  BY <1>1 DEF Booked, Blank, Rows
<1>4. TypeOK
  BY <1>2 DEF Init, TypeOK, Commission
<1> QED
  BY <1>3, <1>4 DEF IInv

(* At first nothing is locked, credited or asked for. *)
LEMMA InitBooks == ASSUME Init, IInv PROVE Books
<1> PICK a \in Accounts, amount \in Amounts :
      /\ request = [r \in Requests |-> IF r \in Legacy THEN Booked(a, amount) ELSE Blank(a)]
      /\ commission = [c \in Commissions |-> [owner |-> a, amount |-> 0, status |-> "none"]]
  BY DEF Init
<1>1. LegacyInv /\ Unearned
  <2>1. amount > 0
    OBVIOUS
  <2>2. \A r \in Requests : request[r] = IF r \in Legacy THEN Booked(a, amount) ELSE Blank(a)
    OBVIOUS
  <2>3. Booked(a, amount).old > 0 /\ Booked(a, amount).status # "none" /\ Blank(a).old = 0
    BY <2>1 DEF Booked, Blank
  <2> QED
    BY <2>2, <2>3 DEF LegacyInv, Unearned
<1>2. \A b \in Accounts : Waiting(b) = {} /\ ClaimedBy(b) = {}
  BY DEF Waiting, ClaimedBy, Claimed, Booked, Blank
<1>3. LockedForOpenRequests
  <2>1. \A b \in Accounts : account[b].locked = 0
    BY DEF Init
  <2>2. \A b \in Accounts : AmountOf(Waiting(b)) = 0
    BY <1>2, SumEmpty DEF AmountOf
  <2> QED
    BY <2>1, <2>2 DEF LockedForOpenRequests
<1>4. NonSellersTakeOnlyCommission
  <2> DEFINE gets == [c \in Commissions |-> commission[c].amount]
  <2>1. \A c \in Commissions : gets[c] = 0
    OBVIOUS
  <2> HIDE DEF gets
  <2>2. ASSUME NEW b \in Accounts PROVE AmountOf(ClaimedBy(b)) <= CommissionOf(EarnedBy(b))
    <3>1. AmountOf(ClaimedBy(b)) = 0
      BY <1>2, SumEmpty DEF AmountOf
    <3>2. IsFiniteSet(EarnedBy(b)) /\ \A c \in EarnedBy(b) : gets[c] = 0
      BY <2>1, FS_Subset DEF EarnedBy
    <3>3. SumFunctionOnSet(gets, EarnedBy(b)) = 0
      BY <3>2, SumZero
    <3>4. CommissionOf(EarnedBy(b)) = 0
      BY <3>3 DEF CommissionOf, gets
    <3> QED
      BY <3>1, <3>4
  <2> QED
    BY <2>2, NonSellers
<1>5. PlatformBooks
  <2> DEFINE wallets == [b \in Accounts |-> account[b].available + account[b].locked]
  <2>1. DOMAIN wallets = Accounts /\ \A b \in Accounts : wallets[b] = 0
    BY DEF Init
  <2>2. platform = 0 /\ moneyIn = 0 /\ moneyOut = 0
    BY DEF Init
  <2> HIDE DEF wallets
  <2>3. SumFunction(wallets) = 0
    BY <2>1, SumZero DEF SumFunction
  <2>4. platform + SumFunction(wallets) = moneyIn - moneyOut
    BY <2>2, <2>3
  <2> QED
    BY <2>4 DEF PlatformBooks, wallets
<1> QED
  BY <1>1, <1>3, <1>4, <1>5 DEF Books

(* Every step keeps the rows of every request in order.                    *)
LEMMA StepInv == ASSUME IInv, [Next]_vars PROVE IInv'
<1>1. CASE UNCHANGED vars
  BY <1>1 DEF vars, IInv, TypeOK
<1> QED
  BY <1>1, DecideStep, RequestStep, MoneyStep, ClawbackStep DEF Next

LEMMA BooksInv == Spec => [](IInv /\ Books)
<1>1. ASSUME IInv, Books, [Next]_vars PROVE IInv' /\ Books'
  <2>1. IInv'
    BY <1>1, StepInv
  <2>2. CASE UNCHANGED vars
    <3>1. UNCHANGED <<account, request, commission, platform, moneyIn, moneyOut>>
      BY <2>2 DEF vars
    <3>2. PlatformBooks'
      BY <1>1, <3>1 DEF Books, PlatformBooks
    <3> QED
      BY <1>1, <2>1, <3>1, <3>2, RequestsUnmoved, CommissionsUnmoved DEF Books
  <2> QED
    BY <1>1, <2>1, <2>2, DecideBooks, RequestBooks, MoneyBooks, ClawbackBooks DEF Next
<1> QED
  BY <1>1, InitInv, InitBooks, PTL DEF Spec

(* No balance, locked balance or total goes below zero, whatever order     *)
(* requests, decisions, debits and clawbacks come in (the CHECK            *)
(* constraints of wallets and withdraw_requests).                          *)
THEOREM WalletsStayTyped == Spec => []TypeOK
<1>1. IInv => TypeOK
  BY DEF IInv
<1> QED
  BY <1>1, InitInv, StepInv, PTL DEF Spec

(* approve_withdrawal, reject_withdrawal and mark_withdrawal_paid move the *)
(* locked money of a request one way, once and in full; a request the old  *)
(* flow booked is neither given back nor booked again.                     *)
THEOREM OneWay == Spec => []LockedMoneyGoesOneWay
<1>1. IInv => LockedMoneyGoesOneWay
  <2> SUFFICES ASSUME IInv, NEW r \in Requests
               PROVE  LET q == request[r]
                          out == q.payout + q.feeRow
                      IN  CASE q.status = "paid"     -> out + q.old = q.amount /\ q.unlock = 0
                            [] q.status = "rejected" ->
                                 q.unlock = q.amount /\ q.lock = q.amount /\ out + q.old = 0
                            [] OTHER                 -> out + q.unlock = 0
    BY DEF LockedMoneyGoesOneWay
  <2>1. request[r] \in Request /\ Rows(request[r])
    BY DEF IInv, TypeOK
  <2>2. CASE request[r].status = "paid"
    BY <2>1, <2>2 DEF Rows, Request
  <2>3. CASE request[r].status = "rejected"
    BY <2>1, <2>3 DEF Rows, Request
  <2>4. CASE request[r].status \in {"none", "pending", "approved"}
    BY <2>1, <2>4 DEF Rows, Request
  <2> QED
    BY <2>1, <2>2, <2>3, <2>4 DEF Request, RequestStatus
<1> QED
  BY <1>1, InitInv, StepInv, PTL DEF Spec

(* A decision of an admin stands, and a request keeps the owner, amount    *)
(* and fee it was made with.                                               *)
THEOREM Decided == Spec => DecisionsStand
<1> DEFINE Same(q, r) == q.owner = r.owner /\ q.amount = r.amount /\ q.fee = r.fee
           Stands == \A r \in Requests :
             /\ request[r].status \in {"paid", "rejected"} => request'[r] = request[r]
             /\ request[r].status # "none" => Same(request'[r], request[r])
<1>1. ASSUME IInv, [Next]_vars PROVE [Stands]_vars
  <2>0. request \in [Requests -> Request]
    BY <1>1 DEF IInv, TypeOK
  <2>1. ASSUME UNCHANGED request PROVE Stands
    BY <2>1
  <2>2. ASSUME NEW r \in Requests, NEW q, request' = [request EXCEPT ![r] = q],
               request[r].status \notin {"paid", "rejected"},
               request[r].status # "none" => Same(q, request[r])
        PROVE  Stands
    BY <2>0, <2>2
  <2> HIDE DEF Stands
  <2>3. ASSUME NEW r \in Requests, Decide(r) PROVE Stands
    <3> DEFINE q == request[r]
    <3>0. q \in Request
      BY <2>0
    <3>1. CASE approve_withdrawal(r)
      <4> DEFINE s == [q EXCEPT !.status = "approved"]
      <4>1. request' = [request EXCEPT ![r] = s] /\ q.status = "pending" /\ Same(s, q)
        BY <3>0, <3>1 DEF approve_withdrawal, Request
      <4> HIDE DEF s
      <4> QED
        BY <2>2, <4>1
    <3>2. CASE reject_withdrawal(r)
      <4> DEFINE s == [q EXCEPT !.status = "rejected", !.unlock = q.amount]
      <4>1. /\ request' = [request EXCEPT ![r] = s] /\ q.status \in {"pending", "approved"}
            /\ Same(s, q)
        BY <2>0, <3>0, <3>2 DEF reject_withdrawal, Request
      <4> HIDE DEF s
      <4> QED
        BY <2>2, <4>1
    <3>3. CASE mark_withdrawal_paid(r)
      <4> DEFINE s == [q EXCEPT !.status = "paid"]
                 t == [q EXCEPT !.status = "paid", !.payout = q.amount - q.fee, !.feeRow = q.fee]
      <4>1. request' = [request EXCEPT ![r] = s] \/ request' = [request EXCEPT ![r] = t]
        BY <2>0, <3>0, <3>3 DEF mark_withdrawal_paid
      <4>2. q.status = "approved" /\ Same(s, q) /\ Same(t, q)
        BY <3>0, <3>3 DEF mark_withdrawal_paid, Request
      <4> HIDE DEF s, t
      <4> QED
        BY <2>2, <4>1, <4>2
    <3> QED
      BY <2>3, <3>1, <3>2, <3>3 DEF Decide
  <2>4. ASSUME NEW r \in Requests, NEW a \in Accounts, NEW amount \in Amounts,
               NEW policy \in FeePolicies, request_withdraw(r, a, amount, policy)
        PROVE  Stands
    <3>1. request[r].status = "none" /\ \E q : request' = [request EXCEPT ![r] = q]
      BY <2>4 DEF request_withdraw
    <3> QED
      BY <2>2, <3>1
  <2>5. ASSUME NEW a \in Accounts, NEW amount \in Amounts, NEW c \in Commissions,
               \/ set_roles(a) \/ topup(a, amount) \/ admin_debit(a, amount)
               \/ credit_affiliate_commission(c, a, amount) \/ clawback_commission_for_order(c)
        PROVE  UNCHANGED request
    BY <2>5 DEF set_roles, topup, admin_debit, credit_affiliate_commission,
                clawback_commission_for_order
  <2> QED
    BY <1>1, <2>1, <2>3, <2>4, <2>5 DEF Next, vars, set_roles, topup, admin_debit,
       credit_affiliate_commission, clawback_commission_for_order
<1>2. [Stands]_vars => [\A r \in Requests :
             /\ request[r].status \in {"paid", "rejected"} => request'[r] = request[r]
             /\ request[r].status # "none" =>
                  /\ request'[r].owner = request[r].owner
                  /\ request'[r].amount = request[r].amount
                  /\ request'[r].fee = request[r].fee]_vars
  OBVIOUS
<1> QED
  BY <1>1, <1>2, InitInv, StepInv, PTL DEF Spec, DecisionsStand

(* approve_withdrawal, reject_withdrawal and mark_withdrawal_paid never    *)
(* find the money of an open request gone: the locked layer of a wallet is *)
(* the sum of what its open requests ask for.                              *)
THEOREM LockedIsAskedFor == Spec => []LockedForOpenRequests
<1>1. Books => LockedForOpenRequests
  BY DEF Books
<1> QED
  BY <1>1, BooksInv, PTL

(* withdrawable_commission caps what an account asks for while it is not a *)
(* seller, over all its requests, by the commissions it was credited with. *)
THEOREM CommissionCap == Spec => []NonSellersTakeOnlyCommission
<1>1. Books => NonSellersTakeOnlyCommission
  BY DEF Books
<1> QED
  BY <1>1, BooksInv, PTL

(* Every handler moves as much money between the wallets, the platform and *)
(* the outside as its ledger rows say (_check_platform of reconciliation). *)
THEOREM BooksBalance == Spec => []PlatformBooks
<1>1. Books => PlatformBooks
  BY DEF Books
<1> QED
  BY <1>1, BooksInv, PTL
=============================================================================
