---------------------------- MODULE EscrowProofs ----------------------------
(***************************************************************************)
(* No order pays out more than its buyer paid, for any number of orders,   *)
(* prices, fees, tasks, disputes and line refunds, as long as no seller    *)
(* call is overtaken.  The argument is about transactions: every operator  *)
(* a handler is composed of keeps a transaction Sound, and the handlers    *)
(* that refund or release start from an order nothing was released of.     *)
(***************************************************************************)
EXTENDS Escrow, TLAPS, FiniteSetTheorems

USE AmountsAssumption, TasksAssumption, BoundsAssumption

TxType == [row : Row, wallet : [Parties -> Nat], fund : Nat]

Within(r) == r.refunded + r.release + r.fee <= r.total
Unpaid(r) == r.release = 0 /\ r.fee = 0

Sound(s) == s \in TxType /\ Within(s.row)

SamePay(r, q) ==
  q.total = r.total /\ q.refunded = r.refunded /\ q.release = r.release /\ q.fee = r.fee

SamePhase(r, q) == q.status = r.status /\ q.open = r.open /\ q.case = r.case

-----------------------------------------------------------------------------
(* Arithmetic of the settlement *)

(* A fee of at most a hundred percent is at most the amount. *)
LEMMA FeeWithin == ASSUME NEW amount \in Nat, NEW pct \in 0..100
                   PROVE  PlatformFee(amount, pct) \in 0..amount
  BY SMT DEF PlatformFee

(* A proportion of an amount is at most the amount. *)
LEMMA PartWithin == ASSUME NEW a \in Nat, NEW n \in Nat, NEW d \in Nat, d > 0, n <= d
                    PROVE  (a * n) \div d \in 0..a
  BY SMT

(* Rounding yields a natural number. *)
LEMMA RoundDivType == ASSUME NEW n \in Nat, NEW d \in Nat, d > 0
                      PROVE  RoundDiv(n, d) \in Nat
  BY SMT DEF RoundDiv

(* The seller's part of a promo discount is never negative. *)
LEMMA PromoShareType ==
  ASSUME NEW r \in Row, NEW amount \in Nat, amount > 0, amount <= r.total,
         NEW fee \in 0..amount
  PROVE  PromoShare(r, amount, fee) \in Nat
<1> DEFINE share == (r.discount * amount) \div r.total
<1>0. r.discount \in Nat /\ r.total \in Nat
  BY DEF Row
<1>1. share \in Nat
  BY <1>0, PartWithin
<1>2. (share * fee) \div amount \in 0..share
  BY <1>1, PartWithin
<1> HIDE DEF share
<1>3. share - ((share * fee) \div amount) \in Nat
  BY <1>1, <1>2
<1> QED
  BY <1>3 DEF PromoShare, share

-----------------------------------------------------------------------------
(* Every operator on transactions keeps them Sound. *)

(* The references of a refund are refund keys. *)
LEMMA KeysOfRow ==
  /\ Whole \in RefundKeys /\ Short \in RefundKeys
  /\ ShortDelivery \in RefundKeys /\ AdminRefund \in RefundKeys
  /\ \A k \in LineKeys \cup {":seller-timeout", ":admin-partial"}, c \in 1..MaxCases :
       <<k, c>> \in RefundKeys
  BY DEF RefundKeys

(* A transaction with another row. *)
LEMMA TxRow ==
  ASSUME NEW s \in TxType, NEW r
  PROVE  [s EXCEPT !.row = r] = [row |-> r, wallet |-> s.wallet, fund |-> s.fund]
  BY DEF TxType

(* Any change of a row that leaves the wallets alone. *)
LEMMA RowOnly ==
  ASSUME NEW s, Sound(s), NEW r \in Row, SamePay(s.row, r)
  PROVE  Sound([row |-> r, wallet |-> s.wallet, fund |-> s.fund])
  BY DEF Sound, TxType, SamePay, Within

(* The updates that move no money. *)
LEMMA PlainSound ==
  ASSUME NEW s, Sound(s)
  PROVE  /\ \A st \in OrderStatus :
              /\ Sound(SetStatus(s, st)) /\ SamePay(s.row, SetStatus(s, st).row)
              /\ SetStatus(s, st).row.status = st
              /\ SetStatus(s, st).row.open = s.row.open
              /\ SetStatus(s, st).row.refunds = s.row.refunds
              /\ SetStatus(s, st).row.case = s.row.case
         /\ Sound(CloseCase(s)) /\ SamePay(s.row, CloseCase(s).row)
         /\ CloseCase(s).row.status = s.row.status
         /\ ~CloseCase(s).row.open
         /\ CloseCase(s).row.refunds = s.row.refunds
         /\ CloseCase(s).row.case = s.row.case
         /\ Sound(StartEscrow(s)) /\ SamePay(s.row, StartEscrow(s).row)
         /\ SamePhase(s.row, StartEscrow(s).row)
         /\ Sound(release_manual_stock(s)) /\ SamePay(s.row, release_manual_stock(s).row)
         /\ SamePhase(s.row, release_manual_stock(s).row)
<1>0. s.row \in Row /\ s \in TxType
  BY DEF Sound, TxType
<1>1. ASSUME NEW st \in OrderStatus
      PROVE  /\ Sound(SetStatus(s, st)) /\ SamePay(s.row, SetStatus(s, st).row)
             /\ SetStatus(s, st).row.status = st
             /\ SetStatus(s, st).row.open = s.row.open
             /\ SetStatus(s, st).row.refunds = s.row.refunds
             /\ SetStatus(s, st).row.case = s.row.case
  <2> DEFINE r == [s.row EXCEPT !.status = st]
  <2>1. SetStatus(s, st) = [row |-> r, wallet |-> s.wallet, fund |-> s.fund]
    BY <1>0 DEF SetStatus, TxType
  <2>2. r \in Row
    BY <1>0 DEF Row
  <2>3. /\ SamePay(s.row, r) /\ r.status = st /\ r.open = s.row.open
        /\ r.refunds = s.row.refunds /\ r.case = s.row.case
    BY <1>0 DEF Row, SamePay
  <2> HIDE DEF r
  <2> QED
    BY <2>1, <2>2, <2>3, RowOnly
<1>2. /\ Sound(CloseCase(s)) /\ SamePay(s.row, CloseCase(s).row)
      /\ CloseCase(s).row.status = s.row.status
      /\ ~CloseCase(s).row.open
      /\ CloseCase(s).row.refunds = s.row.refunds
      /\ CloseCase(s).row.case = s.row.case
  <2> DEFINE r == [s.row EXCEPT !.open = FALSE]
  <2>1. CloseCase(s) = [row |-> r, wallet |-> s.wallet, fund |-> s.fund]
    BY <1>0, TxRow DEF CloseCase
  <2>2. r \in Row
    BY <1>0 DEF Row
  <2>3. /\ SamePay(s.row, r) /\ r.status = s.row.status
        /\ r.refunds = s.row.refunds /\ r.case = s.row.case
    BY <1>0 DEF Row, SamePay
  <2>4. ~r.open
    BY <1>0, Zenon DEF Row
  <2> HIDE DEF r
  <2> QED
    BY <2>1, <2>2, <2>3, <2>4, RowOnly
<1>3. /\ Sound(StartEscrow(s)) /\ SamePay(s.row, StartEscrow(s).row)
      /\ SamePhase(s.row, StartEscrow(s).row)
  <2> DEFINE r == [s.row EXCEPT !.clock = "running"]
  <2>1. StartEscrow(s) = [row |-> r, wallet |-> s.wallet, fund |-> s.fund]
    BY <1>0 DEF StartEscrow, TxType
  <2>2. r \in Row
    BY <1>0 DEF Row
  <2>3. SamePay(s.row, r) /\ SamePhase(s.row, r)
    BY <1>0 DEF Row, SamePay, SamePhase
  <2> HIDE DEF r
  <2> QED
    BY <2>1, <2>2, <2>3, RowOnly
<1>4. /\ Sound(release_manual_stock(s)) /\ SamePay(s.row, release_manual_stock(s).row)
      /\ SamePhase(s.row, release_manual_stock(s).row)
  <2> DEFINE r == [s.row EXCEPT !.held = 0]
  <2>1. release_manual_stock(s) = [row |-> r, wallet |-> s.wallet, fund |-> s.fund]
    BY <1>0 DEF release_manual_stock, TxType
  <2>2. r \in Row
    BY <1>0 DEF Row
  <2>3. SamePay(s.row, r) /\ SamePhase(s.row, r)
    BY <1>0 DEF Row, SamePay, SamePhase
  <2> HIDE DEF r
  <2> QED
    BY <2>1, <2>2, <2>3, RowOnly
<1> QED
  BY <1>1, <1>2, <1>3, <1>4

(* A refund of no more than what is left keeps the books of an order       *)
(* nothing was released of.                                                *)
LEMMA RefundSound ==
  ASSUME NEW s, Sound(s), Unpaid(s.row), NEW key \in RefundKeys,
         NEW amount \in Nat, CanRefund(s, amount)
  PROVE  /\ Sound(refund_escrow(s, key, amount))
         /\ Unpaid(refund_escrow(s, key, amount).row)
         /\ SamePhase(s.row, refund_escrow(s, key, amount).row)
<1> DEFINE t == refund_escrow(s, key, amount)
           f == [s.row.refunds EXCEPT ![key] = amount]
           r == [s.row EXCEPT !.refunded = s.row.refunded + amount, !.refunds = f]
           w == [s.wallet EXCEPT !["buyer"] = @ + amount]
<1>0. s.row \in Row /\ s \in TxType
  BY DEF Sound, TxType
<1>1. CASE s.row.refunds[key] > 0
  BY <1>1 DEF refund_escrow, SamePhase
<1>2. CASE ~(s.row.refunds[key] > 0)
  <2>1. f \in [RefundKeys -> Nat]
    BY <1>0 DEF Row
  <2>2. [s.row EXCEPT !.refunded = @ + amount, !.refunds[key] = amount] = r
    BY <1>0 DEF Row
  <2>3. t = [row |-> r, wallet |-> w, fund |-> s.fund]
    BY <1>0, <1>2, <2>2 DEF refund_escrow, TxType
  <2>4. s.row.refunded + amount \in Nat
    BY <1>0 DEF Row
  <2>5. r \in Row
    BY <1>0, <2>1, <2>4 DEF Row
  <2>6. /\ r.refunded = s.row.refunded + amount /\ r.total = s.row.total
        /\ r.release = 0 /\ r.fee = 0 /\ SamePhase(s.row, r)
    BY <1>0 DEF Row, SamePhase, Unpaid
  <2>7. w \in [Parties -> Nat]
    BY <1>0 DEF TxType, Parties
  <2>8. Within(r)
    BY <1>0, <2>6 DEF Row, Within, CanRefund, Remaining
  <2> HIDE DEF r, w
  <2> QED
    BY <1>0, <2>3, <2>5, <2>6, <2>7, <2>8 DEF Sound, TxType, Unpaid
<1> QED
  BY <1>1, <1>2

(* Paying out all that is left, less the fee, and the seller's part of the *)
(* discount, which the platform pays.                                      *)
LEMMA ReleaseSound ==
  ASSUME NEW s, Sound(s), Unpaid(s.row), Remaining(s.row) > 0,
         NEW fee \in 0..Remaining(s.row)
  PROVE  /\ Sound(release_escrow(s, Remaining(s.row), fee))
         /\ SamePhase(s.row, release_escrow(s, Remaining(s.row), fee).row)
<1> DEFINE amount == Remaining(s.row)
           subsidy == PromoShare(s.row, amount, fee)
           r == [s.row EXCEPT !.release = amount - fee, !.subsidy = subsidy, !.fee = fee]
           w == [s.wallet EXCEPT !["seller"] = @ + (amount - fee) + subsidy,
                                 !["platform"] = @ + fee]
           t == release_escrow(s, amount, fee)
<1>0. s.row \in Row /\ s \in TxType
  BY DEF Sound, TxType
<1>1. amount \in Nat /\ amount > 0 /\ amount <= s.row.total /\ fee \in Nat /\ amount - fee \in Nat
  BY <1>0 DEF Row, Remaining, Within, Sound, Unpaid
<1>2. subsidy \in Nat
  BY <1>0, <1>1, PromoShareType
<1>3. t = [row |-> r, wallet |-> w, fund |-> s.fund]
  <2>1. ~(s.row.release > 0 \/ s.row.fee > 0)
    BY DEF Unpaid
  <2> QED
    BY <1>0, <2>1 DEF release_escrow, TxType
<1> HIDE DEF amount, subsidy
<1>4. r \in Row
  BY <1>0, <1>1, <1>2 DEF Row
<1>5. /\ r.release = amount - fee /\ r.fee = fee /\ r.total = s.row.total
      /\ r.refunded = s.row.refunded /\ SamePhase(s.row, r)
  BY <1>0 DEF Row, SamePhase
<1>6. w \in [Parties -> Nat]
  BY <1>0, <1>1, <1>2 DEF TxType, Parties
<1>7. Within(r)
  BY <1>0, <1>1, <1>5 DEF Within, Row, Remaining, amount
<1> HIDE DEF r, w
<1> QED
  BY <1>0, <1>3, <1>4, <1>5, <1>6, <1>7 DEF Sound, TxType, amount

(* The rewards and their clawbacks are the platform's money.               *)
Rewarded(s, t) == Sound(t) /\ SamePay(s.row, t.row) /\ SamePhase(s.row, t.row)

(* One reward operator after another. *)
LEMMA RewardedTransitive ==
  ASSUME NEW s, NEW t, NEW u, Rewarded(s, t), Rewarded(t, u)
  PROVE  Rewarded(s, u)
  BY DEF Rewarded, SamePay, SamePhase

(* The referrer's commission comes out of the affiliate fund.             *)
LEMMA CommissionSound ==
  ASSUME NEW s, Sound(s), NEW fee \in Nat
  PROVE  Rewarded(s, apply_affiliate_commission(s, fee))
<1> DEFINE amount == RoundDiv(fee * CommissionPercent, 100)
           r == [s.row EXCEPT !.commission = amount]
           w == [s.wallet EXCEPT !["referrer"] = @ + amount]
           t == apply_affiliate_commission(s, fee)
<1>0. s.row \in Row /\ s \in TxType
  BY DEF Sound, TxType
<1>1. amount \in Nat
  <2>1. fee * CommissionPercent \in Nat
    BY SMT
  <2> QED
    BY <2>1, RoundDivType
<1> HIDE DEF amount
<1>2. CASE s.row.commission > 0 \/ amount = 0 \/ s.fund < amount
  BY <1>2 DEF apply_affiliate_commission, Rewarded, SamePay, SamePhase, amount
<1>3. CASE ~(s.row.commission > 0 \/ amount = 0 \/ s.fund < amount)
  <2>1. t = [row |-> r, wallet |-> w, fund |-> s.fund - amount]
    BY <1>0, <1>3 DEF apply_affiliate_commission, TxType, amount
  <2>2. r \in Row
    BY <1>0, <1>1 DEF Row
  <2>3. SamePay(s.row, r) /\ SamePhase(s.row, r)
    BY <1>0 DEF Row, SamePay, SamePhase
  <2>4. w \in [Parties -> Nat] /\ s.fund - amount \in Nat
    BY <1>0, <1>1, <1>3 DEF TxType, Parties
  <2> HIDE DEF r, w
  <2> QED
    BY <2>1, <2>2, <2>3, <2>4 DEF Rewarded, Sound, TxType, Within, SamePay
<1> QED
  BY <1>2, <1>3

(* The cashback leaves the order's own escrow as it was. *)
LEMMA CashbackSound ==
  ASSUME NEW s, Sound(s)
  PROVE  Rewarded(s, apply_buyer_cashback(s))
<1> DEFINE amount == (s.row.total * CashbackPercent) \div 100
           r == [s.row EXCEPT !.cashback = amount]
           w == [s.wallet EXCEPT !["buyer"] = @ + amount]
           t == apply_buyer_cashback(s)
<1>0. s.row \in Row /\ s \in TxType
  BY DEF Sound, TxType
<1>1. amount \in Nat
  <2>1. s.row.total \in Nat
    BY <1>0 DEF Row
  <2> QED
    BY <2>1, FeeWithin DEF PlatformFee
<1> HIDE DEF amount
<1>2. CASE t = s
  BY <1>2 DEF Rewarded, SamePay, SamePhase
<1>3. CASE t # s
  <2>1. t = [row |-> r, wallet |-> w, fund |-> s.fund]
    BY <1>0, <1>3 DEF apply_buyer_cashback, TxType, amount
  <2>2. r \in Row
    BY <1>0, <1>1 DEF Row
  <2>3. SamePay(s.row, r) /\ SamePhase(s.row, r)
    BY <1>0 DEF Row, SamePay, SamePhase
  <2>4. w \in [Parties -> Nat]
    BY <1>0, <1>1 DEF TxType, Parties
  <2> HIDE DEF r, w
  <2> QED
    BY <1>0, <2>1, <2>2, <2>3, <2>4 DEF Rewarded, Sound, TxType, Within, SamePay
<1> QED
  BY <1>2, <1>3

(* The lesser of two natural numbers. *)
LEMMA AtMostType == ASSUME NEW a \in Nat, NEW b \in Nat
                    PROVE  AtMost(a, b) \in 0..a /\ AtMost(a, b) \in 0..b
  BY DEF AtMost

(* Taking the rewards back takes no more than the wallets hold. *)
LEMMA ClawbacksSound ==
  ASSUME NEW s, Sound(s)
  PROVE  Rewarded(s, Clawbacks(s))
<1>1. ASSUME NEW u, Sound(u)
      PROVE  Rewarded(u, clawback_commission_for_order(u))
  <2> DEFINE back == AtMost(u.wallet["referrer"], u.row.commission)
             r == [u.row EXCEPT !.commissionClawed = TRUE, !.commissionBack = back]
             w == [u.wallet EXCEPT !["referrer"] = @ - back]
             t == clawback_commission_for_order(u)
  <2>0. u.row \in Row /\ u \in TxType
    BY <1>1 DEF Sound, TxType
  <2>a. u.wallet["referrer"] \in Nat /\ u.row.commission \in Nat
    BY <2>0 DEF TxType, Parties, Row
  <2>b. back \in 0..u.wallet["referrer"]
    BY <2>a, AtMostType
  <2> HIDE DEF back
  <2>1. back \in Nat /\ back <= u.wallet["referrer"]
    BY <2>a, <2>b
  <2>2. CASE t = u
    BY <1>1, <2>2 DEF Rewarded, SamePay, SamePhase
  <2>3. CASE t # u
    <3>1. t = [row |-> r, wallet |-> w, fund |-> u.fund + u.row.commission]
      BY <2>0, <2>3 DEF clawback_commission_for_order, TxType, back
    <3>2. r \in Row
      BY <2>0, <2>1 DEF Row
    <3>3. SamePay(u.row, r) /\ SamePhase(u.row, r)
      BY <2>0 DEF Row, SamePay, SamePhase
    <3>4. w \in [Parties -> Nat] /\ u.fund + u.row.commission \in Nat
      BY <2>0, <2>a, <2>1 DEF TxType, Parties
    <3> HIDE DEF r, w
    <3> QED
      BY <1>1, <3>1, <3>2, <3>3, <3>4 DEF Rewarded, Sound, TxType, Within, SamePay
  <2> QED
    BY <2>2, <2>3
<1>2. ASSUME NEW u, Sound(u)
      PROVE  Rewarded(u, clawback_buyer_cashback(u))
  <2> DEFINE back == AtMost(u.wallet["buyer"], u.row.cashback)
             r == [u.row EXCEPT !.cashbackClawed = TRUE, !.cashbackBack = back]
             w == [u.wallet EXCEPT !["buyer"] = @ - back]
             t == clawback_buyer_cashback(u)
  <2>0. u.row \in Row /\ u \in TxType
    BY <1>2 DEF Sound, TxType
  <2>a. u.wallet["buyer"] \in Nat /\ u.row.cashback \in Nat
    BY <2>0 DEF TxType, Parties, Row
  <2>b. back \in 0..u.wallet["buyer"]
    BY <2>a, AtMostType
  <2> HIDE DEF back
  <2>1. back \in Nat /\ back <= u.wallet["buyer"]
    BY <2>a, <2>b
  <2>2. CASE t = u
    BY <1>2, <2>2 DEF Rewarded, SamePay, SamePhase
  <2>3. CASE t # u
    <3>1. t = [row |-> r, wallet |-> w, fund |-> u.fund]
      BY <2>0, <2>3 DEF clawback_buyer_cashback, TxType, back
    <3>2. r \in Row
      BY <2>0, <2>1 DEF Row
    <3>3. SamePay(u.row, r) /\ SamePhase(u.row, r)
      BY <2>0 DEF Row, SamePay, SamePhase
    <3>4. w \in [Parties -> Nat]
      BY <2>0, <2>a, <2>1 DEF TxType, Parties
    <3> HIDE DEF r, w
    <3> QED
      BY <1>2, <2>0, <3>1, <3>2, <3>3, <3>4 DEF Rewarded, Sound, TxType, Within, SamePay
  <2> QED
    BY <2>2, <2>3
<1>3. Rewarded(s, clawback_commission_for_order(s))
  BY <1>1
<1>4. Rewarded(clawback_commission_for_order(s), Clawbacks(s))
  BY <1>2, <1>3 DEF Clawbacks, Rewarded
<1> QED
  BY <1>3, <1>4, RewardedTransitive

(* A settlement completes the order and pays out at most what was left.    *)
LEMMA SettleSound ==
  ASSUME NEW s, Sound(s), Unpaid(s.row), NEW pct \in FeePercents
  PROVE  /\ Sound(Settle(s, pct))
         /\ Settle(s, pct).row.status = "completed"
         /\ Settle(s, pct).row.open = s.row.open
<1> DEFINE left == Remaining(s.row)
           fee == PlatformFee(left, pct)
           paid == IF left > 0 THEN release_escrow(s, left, fee) ELSE s
           done == SetStatus(paid, "completed")
           shared == apply_affiliate_commission(done, fee)
<1>1. left \in Nat
  BY DEF Sound, TxType, Row, Within, Unpaid, Remaining
<1>2. fee \in 0..left /\ fee \in Nat
  <2>1. pct \in 0..100
    OBVIOUS
  <2> HIDE DEF left
  <2>2. fee \in 0..left
    BY <1>1, <2>1, FeeWithin
  <2> QED
    BY <1>1, <2>2
<1> HIDE DEF fee
<1>3. Sound(paid) /\ SamePhase(s.row, paid.row)
  BY <1>1, <1>2, ReleaseSound DEF SamePhase
<1> HIDE DEF paid
<1>4. Sound(done) /\ done.row.status = "completed" /\ done.row.open = s.row.open
  BY <1>3, PlainSound DEF OrderStatus, ClosedStatuses, SamePhase
<1> HIDE DEF done
<1>5. Rewarded(done, shared)
  BY <1>2, <1>4, CommissionSound
<1>6. Rewarded(shared, apply_buyer_cashback(shared))
  BY <1>5, CashbackSound DEF Rewarded
<1>7. Settle(s, pct) = apply_buyer_cashback(shared)
  BY DEF Settle, shared, done, paid, fee
<1> HIDE DEF shared
<1> QED
  BY <1>4, <1>5, <1>6, <1>7 DEF Rewarded, SamePhase

(* The end of a case closes it and the order.                              *)
LEMMA FinalizeSound ==
  ASSUME NEW s, Sound(s), Unpaid(s.row), NEW pct \in FeePercents
  PROVE  /\ Sound(finalize_dispute(s, pct))
         /\ finalize_dispute(s, pct).row.status \in ClosedStatuses
         /\ ~finalize_dispute(s, pct).row.open
<1> DEFINE c == CloseCase(s)
           d == SetStatus(c, "refunded")
<1>1. Sound(c) /\ Unpaid(c.row) /\ ~c.row.open
  BY PlainSound DEF SamePay, Unpaid
<1> HIDE DEF c
<1>2. Sound(d) /\ d.row.status = "refunded" /\ ~d.row.open
  BY <1>1, PlainSound DEF OrderStatus, ClosedStatuses
<1> HIDE DEF d
<1>3. /\ Sound(Clawbacks(d)) /\ Clawbacks(d).row.status = "refunded"
      /\ ~Clawbacks(d).row.open
  BY <1>2, ClawbacksSound DEF Rewarded, SamePhase
<1>4. /\ Sound(Settle(c, pct)) /\ Settle(c, pct).row.status = "completed"
      /\ ~Settle(c, pct).row.open
  BY <1>1, SettleSound
<1> QED
  BY <1>3, <1>4 DEF finalize_dispute, c, d, ClosedStatuses

-----------------------------------------------------------------------------
(* The inductive invariant: an order that is not closed has released       *)
(* nothing, an open case belongs to a delivered order, and a provisioning  *)
(* session holds the lock of a pending one.                                *)
RowInv(r) ==
  /\ Within(r)
  /\ r.status \notin ClosedStatuses => Unpaid(r)
  /\ r.open => r.status = "delivered" /\ r.case > 0

IInv ==
  /\ TypeOK
  /\ \A o \in Orders : RowInv(order[o])
  /\ \A o \in provisioning : order[o].status = "pending"

(* A step that replaces one row, its lock held or given up.                *)
LEMMA RowStep ==
  ASSUME IInv, NEW o \in Orders, NEW r \in Row, RowInv(r),
         order' = [order EXCEPT ![o] = r],
         wallet' \in [Parties -> Nat], fund' \in Nat, stock' \in Nat,
         inflight' \subseteq SellerCall,
         provisioning' \subseteq provisioning \cup {o},
         o \in provisioning' => r.status = "pending"
  PROVE  IInv'
<1>1. TypeOK'
  BY DEF IInv, TypeOK
<1>2. \A p \in Orders : RowInv(order[p])'
  BY DEF IInv, TypeOK, RowInv, Within, Unpaid
<1>3. \A p \in provisioning' : order'[p].status = "pending"
  BY DEF IInv, TypeOK
<1> QED
  BY <1>1, <1>2, <1>3 DEF IInv

(* A step that commits a transaction. *)
LEMMA CommitStep ==
  ASSUME IInv, NEW o \in Orders, NEW s, Sound(s), RowInv(s.row), Commit(o, s),
         stock' \in Nat, inflight' \subseteq SellerCall,
         provisioning' \subseteq provisioning, o \notin provisioning'
  PROVE  IInv'
<1>1. s.row \in Row /\ s.wallet \in [Parties -> Nat] /\ s.fund \in Nat
  BY DEF Sound, TxType
<1> QED
  BY <1>1, RowStep DEF Commit

(* The transaction of an order begins sound.                               *)
LEMMA TxSound ==
  ASSUME IInv, NEW o \in Orders
  PROVE  Sound(Tx(o)) /\ Tx(o).row = order[o] /\ RowInv(order[o]) /\ order[o] \in Row
  BY DEF IInv, TypeOK, Tx, Sound, TxType, RowInv

(* A settled transaction of a row with no open case keeps the invariant.   *)
LEMMA ClosedRow ==
  ASSUME NEW s, Sound(s), s.row.status \in ClosedStatuses, ~s.row.open
  PROVE  RowInv(s.row)
  BY DEF Sound, RowInv

(* A pending, processing or delivered order nothing was released of.       *)
LEMMA OpenRow ==
  ASSUME NEW s, Sound(s), Unpaid(s.row),
         ~s.row.open \/ (s.row.status = "delivered" /\ s.row.case > 0)
  PROVE  RowInv(s.row)
  BY DEF Sound, RowInv

-----------------------------------------------------------------------------
(* One lemma per group of actions. *)

(* Checkout: a new row, nothing of which was paid out, and its hold. *)
Fresh(r, st, total) ==
  /\ r \in Row
  /\ r.status = st /\ ~r.open
  /\ r.total = total /\ r.refunded = 0 /\ Unpaid(r)

(* The order row a checkout builds, with or without a unit of stock. *)
LEMMA NewOrderFresh ==
  ASSUME NEW k \in AllKinds, NEW st \in OpenStatuses, NEW price \in Prices,
         NEW discount \in Discounts, price > discount
  PROVE  /\ Fresh(NewOrder(k, price, discount, st), st, price - discount)
         /\ Fresh([NewOrder(k, price, discount, st) EXCEPT !.held = 1], st, price - discount)
         /\ price - discount \in Nat /\ price - discount > 0
<1> DEFINE r == NewOrder(k, price, discount, st)
           q == [r EXCEPT !.held = 1]
<1>1. price \in Nat /\ discount \in Nat /\ price - discount \in Nat /\ price - discount > 0
  BY SMT
<1>2. NoRow \in Row
  BY DEF NoRow, Row, OrderStatus, TaskStatus
<1>3. NoRow.refunded = 0 /\ Unpaid(NoRow) /\ ~NoRow.open
  BY DEF NoRow, Unpaid
<1>4. st \in OrderStatus
  BY DEF OrderStatus
<1>5. r \in Row
  BY <1>1, <1>2, <1>4 DEF NewOrder, Row
<1>6. /\ r.status = st /\ r.total = price - discount
      /\ r.refunded = 0 /\ Unpaid(r)
  BY <1>2, <1>3 DEF NewOrder, Row, Unpaid
<1>6a. ~r.open
  BY <1>2, <1>3 DEF NewOrder, Row
<1> HIDE DEF r
<1>7. q \in Row
  BY <1>5 DEF Row
<1>8. /\ q.status = st /\ q.total = price - discount
      /\ q.refunded = 0 /\ Unpaid(q)
  BY <1>5, <1>6 DEF Row, Unpaid
<1>8a. ~q.open
  BY <1>5, <1>6a DEF Row
<1> HIDE DEF q
<1> QED
  BY <1>1, <1>5, <1>6, <1>6a, <1>7, <1>8, <1>8a DEF Fresh, q, r

(* The hold takes the total from a buyer who has it. *)
LEMMA HoldSound ==
  ASSUME IInv, NEW o \in Orders, NEW st, NEW total \in Nat, NEW r, Fresh(r, st, total),
         wallet["buyer"] >= total
  PROVE  /\ Sound(deduct_credit(o, r)) /\ Unpaid(deduct_credit(o, r).row)
         /\ deduct_credit(o, r).row.status = st /\ ~deduct_credit(o, r).row.open
         /\ deduct_credit(o, r).row.total = total
         /\ deduct_credit(o, r).row.refunded = 0
<1> DEFINE q == [r EXCEPT !.hold = r.total]
           w == [wallet EXCEPT !["buyer"] = @ - r.total]
<1>1. q \in Row
  BY DEF Fresh, Row
<1>2. q.status = st /\ q.total = total /\ q.refunded = 0 /\ Unpaid(q)
  BY DEF Fresh, Row, Unpaid
<1>3. ~q.open
  BY DEF Fresh, Row
<1>4. w \in [Parties -> Nat]
  BY DEF IInv, TypeOK, Parties, Fresh
<1>5. deduct_credit(o, r) = [row |-> q, wallet |-> w, fund |-> fund]
  BY DEF deduct_credit
<1>6. Within(q)
  BY <1>1, <1>2 DEF Within, Unpaid, Row
<1> HIDE DEF q, w
<1> QED
  BY <1>1, <1>2, <1>3, <1>4, <1>5, <1>6 DEF Sound, TxType, IInv, TypeOK

(* What a successful or a failed provision leaves. *)
LEMMA ProvisionSound ==
  ASSUME NEW s, Sound(s), Unpaid(s.row), ~s.row.open
  PROVE  /\ \A key \in RefundKeys, short \in Nat : short = 0 \/ CanRefund(s, short) =>
              LET t == provision_delivered(s, key, short) IN Sound(t) /\ RowInv(t.row)
         /\ CanRefund(s, s.row.total) =>
              LET t == provision_failed(s)
              IN  Sound(t) /\ RowInv(t.row) /\ t.row.status = "cancelled" /\ ~t.row.open
<1>1. ASSUME NEW key \in RefundKeys, NEW short \in Nat, short = 0 \/ CanRefund(s, short)
      PROVE  LET t == provision_delivered(s, key, short) IN Sound(t) /\ RowInv(t.row)
  <2> DEFINE d == SetStatus(s, "delivered")
             p == IF short > 0 THEN refund_escrow(d, key, short) ELSE d
  <2>1. Sound(d) /\ SamePay(s.row, d.row) /\ ~d.row.open
    BY PlainSound DEF OrderStatus, OpenStatuses
  <2>2. Unpaid(d.row) /\ (short > 0 => CanRefund(d, short))
    BY <1>1, <2>1 DEF SamePay, Unpaid, CanRefund, Remaining
  <2> HIDE DEF d
  <2>3. Sound(p) /\ Unpaid(p.row) /\ ~p.row.open
    BY <2>1, <2>2, RefundSound DEF SamePhase
  <2>4. provision_delivered(s, key, short) = StartEscrow(p)
    BY DEF provision_delivered, d
  <2> HIDE DEF p
  <2>5. /\ Sound(StartEscrow(p)) /\ Unpaid(StartEscrow(p).row)
        /\ ~StartEscrow(p).row.open
    BY <2>3, PlainSound DEF SamePay, SamePhase, Unpaid
  <2> QED
    BY <2>4, <2>5, OpenRow
<1>2. ASSUME CanRefund(s, s.row.total)
      PROVE  LET t == provision_failed(s)
             IN  Sound(t) /\ RowInv(t.row) /\ t.row.status = "cancelled" /\ ~t.row.open
  <2> DEFINE p == refund_escrow(s, Whole, s.row.total)
  <2>1. s.row.total \in Nat
    BY DEF Sound, TxType, Row
  <2>2. Sound(p) /\ SamePhase(s.row, p.row)
    BY <1>2, <2>1, KeysOfRow, RefundSound
  <2>3. provision_failed(s) = SetStatus(p, "cancelled")
    BY DEF provision_failed
  <2> HIDE DEF p
  <2>4. /\ Sound(SetStatus(p, "cancelled")) /\ SetStatus(p, "cancelled").row.status = "cancelled"
        /\ ~SetStatus(p, "cancelled").row.open
    BY <2>2, PlainSound DEF SamePhase, OrderStatus, ClosedStatuses
  <2> QED
    BY <2>3, <2>4, ClosedRow DEF ClosedStatuses
<1> QED
  BY <1>1, <1>2

(* Every checkout adds a row of which nothing was paid out. *)
LEMMA CheckoutStep == ASSUME IInv, NEW o \in Orders, Checkout(o) PROVE IInv'
<1> PICK price \in Prices, discount \in Discounts :
      \/ create_order_instant(o, price, discount)
      \/ create_order_manual(o, price, discount)
      \/ create_order_inline(o, price, discount)
      \/ create_order_task(o, price, discount)
      \/ \E k \in {"network", "catalog"} : create_order_network(o, k, price, discount)
  BY DEF Checkout
<1> DEFINE total == price - discount
           R(k, st) == NewOrder(k, price, discount, st)
           S(k, st) == deduct_credit(o, R(k, st))
<1>0. /\ order[o].status = "none" /\ price > discount /\ wallet["buyer"] >= total
  BY DEF create_order_instant, create_order_manual, create_order_inline,
         create_order_task, create_order_network, CanPlace
<1>1. o \notin provisioning /\ stock \in Nat /\ inflight \subseteq SellerCall
  BY <1>0 DEF IInv, TypeOK
<1>2. ASSUME NEW k \in AllKinds, NEW st \in OpenStatuses
      PROVE  /\ Sound(S(k, st)) /\ Unpaid(S(k, st).row)
             /\ S(k, st).row.status = st /\ ~S(k, st).row.open
             /\ S(k, st).row.total = total /\ S(k, st).row.refunded = 0
             /\ total \in Nat /\ total > 0
  <2>1. Fresh(R(k, st), st, total) /\ total \in Nat /\ total > 0
    BY <1>0, NewOrderFresh
  <2> HIDE DEF R, total
  <2> QED
    BY <1>0, <2>1, HoldSound
<1>3. CASE create_order_instant(o, price, discount)
  <2> DEFINE s == S("instant", "delivered")
  <2>1. Sound(s) /\ Unpaid(s.row) /\ ~s.row.open
    BY <1>2 DEF AllKinds, OpenStatuses
  <2>2. Commit(o, StartEscrow(s)) /\ UNCHANGED <<stock, provisioning, inflight>>
    BY <1>3 DEF create_order_instant
  <2> HIDE DEF s
  <2>3. Sound(StartEscrow(s)) /\ RowInv(StartEscrow(s).row)
    BY <2>1, PlainSound, OpenRow DEF SamePay, SamePhase, Unpaid
  <2> QED
    BY <1>1, <2>2, <2>3, CommitStep
<1>4. CASE create_order_manual(o, price, discount)
  <2> DEFINE r == [R("manual", "pending") EXCEPT !.held = 1]
             s == deduct_credit(o, r)
  <2>1. Fresh(r, "pending", total) /\ total \in Nat
    BY <1>0, NewOrderFresh DEF AllKinds, OpenStatuses
  <2>2. /\ Commit(o, s) /\ stock > 0 /\ stock' = stock - 1
        /\ UNCHANGED <<provisioning, inflight>>
    BY <1>4 DEF create_order_manual
  <2> HIDE DEF r, total
  <2>3. Sound(s) /\ RowInv(s.row)
    BY <1>0, <2>1, HoldSound, OpenRow
  <2> HIDE DEF s
  <2> QED
    BY <1>1, <2>2, <2>3, CommitStep
<1>5. CASE create_order_inline(o, price, discount)
  <2> DEFINE s == S("inline", "pending")
  <2>1. Sound(s) /\ Unpaid(s.row) /\ ~s.row.open /\ CanRefund(s, s.row.total)
    <3>1. "inline" \in AllKinds /\ "pending" \in OpenStatuses
      BY DEF AllKinds, OpenStatuses
    <3>2. /\ Sound(s) /\ Unpaid(s.row) /\ ~s.row.open
          /\ s.row.total = total /\ s.row.refunded = 0 /\ total \in Nat /\ total > 0
      BY <1>2, <3>1
    <3> HIDE DEF s, total
    <3>3. CanRefund(s, s.row.total)
      BY <3>2 DEF CanRefund, Remaining
    <3> QED
      BY <3>2, <3>3
  <2>2. /\ Commit(o, provision_delivered(s, Short, 0)) \/ Commit(o, provision_failed(s))
        /\ UNCHANGED <<stock, provisioning, inflight>>
    BY <1>5 DEF create_order_inline
  <2> HIDE DEF s
  <2>3. /\ Sound(provision_delivered(s, Short, 0)) /\ RowInv(provision_delivered(s, Short, 0).row)
        /\ Sound(provision_failed(s)) /\ RowInv(provision_failed(s).row)
    BY <2>1, KeysOfRow, ProvisionSound
  <2> QED
    BY <1>1, <2>2, <2>3, CommitStep
<1>6. CASE create_order_task(o, price, discount)
  <2> DEFINE s == S("task", "processing")
  <2>1. Sound(s) /\ RowInv(s.row)
    BY <1>2, OpenRow DEF AllKinds, OpenStatuses
  <2>2. Commit(o, s) /\ UNCHANGED <<stock, provisioning, inflight>>
    BY <1>6 DEF create_order_task
  <2> HIDE DEF s
  <2> QED
    BY <1>1, <2>1, <2>2, CommitStep
<1>7. CASE \E k \in {"network", "catalog"} : create_order_network(o, k, price, discount)
  <2> PICK k \in {"network", "catalog"} : create_order_network(o, k, price, discount)
    BY <1>7
  <2> DEFINE s == S(k, "pending")
  <2>1. Sound(s) /\ RowInv(s.row)
    BY <1>2, OpenRow DEF AllKinds, OpenStatuses
  <2>2. Commit(o, s) /\ UNCHANGED <<stock, provisioning, inflight>>
    BY DEF create_order_network
  <2> HIDE DEF s
  <2> QED
    BY <1>1, <2>1, <2>2, CommitStep
<1> QED
  BY <1>3, <1>4, <1>5, <1>6, <1>7

(* Provisioning and tasks, and the reads of the seller's calls. *)
LEMMA FulfilStep == ASSUME IInv, NEW o \in Orders, Fulfil(o) PROVE IInv'
<1>0. /\ Sound(Tx(o)) /\ Tx(o).row = order[o] /\ RowInv(order[o]) /\ order[o] \in Row
      /\ stock \in Nat /\ inflight \subseteq SellerCall /\ provisioning \subseteq Orders
      /\ wallet \in [Parties -> Nat] /\ fund \in Nat
  BY TxSound DEF IInv, TypeOK
<1>1. CASE provision_pending_order(o)
  <2>1. TypeOK' /\ \A p \in Orders : RowInv(order[p])'
    BY <1>0, <1>1 DEF provision_pending_order, IInv, TypeOK, RowInv, Within, Unpaid
  <2> QED
    BY <1>1, <2>1 DEF provision_pending_order, IInv
<1>2. ASSUME NEW key \in RefundKeys, NEW short \in Nat, apply_provision_success(o, key, short)
      PROVE  IInv'
  <2> DEFINE t == provision_delivered(Tx(o), key, short)
  <2>1. order[o].status = "pending"
    BY <1>2 DEF apply_provision_success, IInv
  <2>2. Unpaid(Tx(o).row) /\ ~Tx(o).row.open
    BY <1>0, <2>1 DEF RowInv, ClosedStatuses
  <2>3. short = 0 \/ CanRefund(Tx(o), short)
    BY <1>2 DEF apply_provision_success
  <2>4. Sound(t) /\ RowInv(t.row)
    BY <1>0, <2>2, <2>3, ProvisionSound
  <2>5. /\ Commit(o, t) /\ provisioning' = provisioning \ {o}
        /\ stock' = stock /\ inflight' = inflight
    BY <1>2 DEF apply_provision_success
  <2> HIDE DEF t
  <2> QED
    BY <1>0, <2>4, <2>5, CommitStep
<1>3. CASE apply_provision_failure(o)
  <2> DEFINE t == provision_failed(Tx(o))
  <2>1. order[o].status = "pending"
    BY <1>3 DEF apply_provision_failure, IInv
  <2>2. Unpaid(Tx(o).row) /\ ~Tx(o).row.open
    BY <1>0, <2>1 DEF RowInv, ClosedStatuses
  <2>3. CanRefund(Tx(o), Tx(o).row.total)
    BY <1>0, <1>3 DEF apply_provision_failure
  <2>4. Sound(t) /\ RowInv(t.row)
    BY <1>0, <2>2, <2>3, ProvisionSound
  <2>5. /\ Commit(o, t) /\ provisioning' = provisioning \ {o}
        /\ stock' = stock /\ inflight' = inflight
    BY <1>3 DEF apply_provision_failure
  <2> HIDE DEF t
  <2> QED
    BY <1>0, <2>4, <2>5, CommitStep
<1>4. CASE provision_error(o)
  <2>1. TypeOK' /\ \A p \in Orders : RowInv(order[p])'
    BY <1>0, <1>4 DEF provision_error, IInv, TypeOK, RowInv, Within, Unpaid
  <2> QED
    BY <1>4, <2>1 DEF provision_error, IInv
<1>5. ASSUME NEW h \in Hands, NEW op \in {"accept", "deliver"}, NEW st, SellerReads(h, o, op, st)
      PROVE  IInv'
  <2>1. inflight' \subseteq SellerCall
    BY <1>0, <1>5 DEF SellerReads, SellerCall
  <2>2. TypeOK' /\ \A p \in Orders : RowInv(order[p])'
    BY <1>0, <1>5, <2>1 DEF SellerReads, IInv, TypeOK, RowInv, Within, Unpaid
  <2> QED
    BY <1>5, <2>2 DEF SellerReads, IInv
<1>6. ASSUME NEW t \in Tasks, NEW st \in TaskStatus, update_task(o, t, st)
      PROVE  IInv'
  <2> DEFINE q == [order[o] EXCEPT !.task[t] = st]
             s == [Tx(o) EXCEPT !.row.task[t] = st]
             failed == Cardinality({u \in Tasks : s.row.task[u] = "failed"})
             share == RoundDiv(s.row.total * failed, Cardinality(Tasks))
             left == Remaining(s.row)
             all == SetStatus(refund_escrow(s, Whole, left), "cancelled")
             paid == IF share = 0 THEN s ELSE refund_escrow(s, Whole, share)
             some == StartEscrow(SetStatus(paid, "delivered"))
  <2>1. q \in Row /\ SamePay(order[o], q) /\ q.status = order[o].status
    <3> DEFINE f == [order[o].task EXCEPT ![t] = st]
    <3>1. f \in [Tasks -> TaskStatus]
      BY <1>0 DEF Row
    <3>2. q = [order[o] EXCEPT !.task = f]
      BY <1>0 DEF Row
    <3>3. [order[o] EXCEPT !.task = f] \in Row
      BY <1>0, <3>1 DEF Row
    <3> QED
      BY <1>0, <3>2, <3>3 DEF Row, SamePay
  <2>2. (q.open <=> order[o].open) /\ q.case = order[o].case
    BY <1>0 DEF Row
  <2>3. s = [row |-> q, wallet |-> wallet, fund |-> fund]
    BY DEF Tx
  <2> HIDE DEF q
  <2>4. Sound(s) /\ RowInv(s.row) /\ s.row.status = order[o].status
    BY <1>0, <2>1, <2>2, <2>3, RowOnly DEF Tx, RowInv, SamePay, Within, Unpaid
  <2>5. share \in Nat
    <3>1. Cardinality(Tasks) \in Nat /\ Cardinality(Tasks) > 0
      BY FS_CardinalityType, FS_EmptySet
    <3>2. failed \in Nat
      BY FS_Subset, FS_CardinalityType
    <3>3. s.row.total \in Nat
      BY <2>4 DEF Sound, TxType, Row
    <3> HIDE DEF failed
    <3>4. s.row.total * failed \in Nat
      BY <3>2, <3>3, SMT
    <3> QED
      BY <3>1, <3>4, RoundDivType
  <2>6. left \in Nat
    BY <2>4 DEF Sound, TxType, Row, Within, RowInv, Remaining
  <2>7. o \notin provisioning /\ stock' = stock /\ provisioning' = provisioning /\ inflight' = inflight
    BY <1>6 DEF update_task, Unlocked
  <2>8. \/ Commit(o, s)
        \/ s.row.status = "processing" /\ CanRefund(s, left) /\ Commit(o, all)
        \/ s.row.status = "processing" /\ (share = 0 \/ CanRefund(s, share)) /\ Commit(o, some)
    BY <1>6 DEF update_task
  <2> HIDE DEF s, share, left
  <2>9. CASE Commit(o, s)
    BY <1>0, <2>4, <2>7, <2>9, CommitStep
  <2>10. CASE s.row.status = "processing" /\ CanRefund(s, left) /\ Commit(o, all)
    <3>1. Unpaid(s.row) /\ ~s.row.open
      BY <2>4, <2>10 DEF RowInv, ClosedStatuses
    <3> DEFINE p == refund_escrow(s, Whole, left)
    <3>a. Sound(p) /\ ~p.row.open
      BY <2>4, <2>6, <2>10, <3>1, KeysOfRow, RefundSound DEF SamePhase
    <3> HIDE DEF p
    <3>b. /\ Sound(SetStatus(p, "cancelled")) /\ SetStatus(p, "cancelled").row.status = "cancelled"
          /\ ~SetStatus(p, "cancelled").row.open
      BY <3>a, PlainSound DEF OrderStatus, ClosedStatuses
    <3>2. Sound(all) /\ all.row.status = "cancelled" /\ ~all.row.open
      BY <3>b DEF p
    <3> HIDE DEF all
    <3>3. RowInv(all.row)
      BY <3>2, ClosedRow DEF ClosedStatuses
    <3> QED
      BY <1>0, <2>7, <2>10, <3>2, <3>3, CommitStep
  <2>11. CASE s.row.status = "processing" /\ (share = 0 \/ CanRefund(s, share)) /\ Commit(o, some)
    <3>1. Unpaid(s.row) /\ ~s.row.open
      BY <2>4, <2>11 DEF RowInv, ClosedStatuses
    <3>2. Sound(paid) /\ Unpaid(paid.row) /\ ~paid.row.open
      BY <2>4, <2>5, <2>11, <3>1, KeysOfRow, RefundSound DEF SamePhase
    <3> HIDE DEF paid
    <3> DEFINE d == SetStatus(paid, "delivered")
    <3>3. Sound(d) /\ Unpaid(d.row) /\ ~d.row.open
      BY <3>2, PlainSound DEF OrderStatus, OpenStatuses, SamePay, Unpaid
    <3> HIDE DEF d
    <3>4. Sound(StartEscrow(d)) /\ RowInv(StartEscrow(d).row)
      BY <3>3, PlainSound, OpenRow DEF SamePay, SamePhase, Unpaid
    <3>5. Commit(o, StartEscrow(d))
      BY <2>11 DEF d
    <3> QED
      BY <1>0, <2>7, <3>4, <3>5, CommitStep
  <2> QED
    BY <2>8, <2>9, <2>10, <2>11
<1>7. \A key \in {Short, ShortDelivery} : key \in RefundKeys
  BY KeysOfRow
<1>8. order[o].total \in Nat
  BY <1>0 DEF Row
<1> QED
  BY <1>1, <1>2, <1>3, <1>4, <1>5, <1>6, <1>7, <1>8, KeysOfRow
     DEF Fulfil, Amounts, accept_order_read, deliver_order_read

(* The seller's writes, when no call is overtaken. *)
LEMMA SellerStep == ASSUME IInv, NoSellerOvertaken, SellerCommits PROVE IInv'
<1> PICK c \in inflight : accept_order_commit(c) \/ deliver_order_commit(c)
  BY DEF SellerCommits
<1> DEFINE o == c.order
           a == [order[o] EXCEPT !.status = "processing"]
           d == [order[o] EXCEPT !.status = "delivered", !.held = 0, !.clock = "running"]
<1>0. /\ o \in Orders /\ order[o] \in Row /\ RowInv(order[o])
      /\ wallet \in [Parties -> Nat] /\ fund \in Nat /\ stock \in Nat
      /\ inflight \subseteq SellerCall /\ c.op \in {"accept", "deliver"}
  BY DEF IInv, TypeOK, SellerCall
<1>1. Unpaid(order[o]) /\ ~order[o].open
  BY <1>0 DEF NoSellerOvertaken, StatusRead, RowInv, ClosedStatuses
<1>2. CASE accept_order_commit(c)
  <2>1. a \in Row /\ SamePay(order[o], a) /\ a.status = "processing"
    BY <1>0 DEF Row, SamePay, OrderStatus, OpenStatuses
  <2>2. ~a.open
    BY <1>0, <1>1 DEF Row
  <2>3. /\ order' = [order EXCEPT ![o] = a] /\ o \notin provisioning
        /\ wallet' = wallet /\ fund' = fund /\ stock' = stock /\ provisioning' = provisioning
        /\ inflight' \subseteq inflight
    BY <1>2 DEF accept_order_commit, Unlocked
  <2> HIDE DEF a, o
  <2>4. RowInv(a)
    BY <1>0, <1>1, <2>1, <2>2 DEF RowInv, Within, SamePay, Unpaid
  <2> QED
    BY <1>0, <2>1, <2>3, <2>4, RowStep
<1>3. CASE deliver_order_commit(c)
  <2>1. SamePay(order[o], d) /\ d.status = "delivered"
    BY <1>0 DEF Row, SamePay
  <2>1a. ~d.open
    BY <1>0, <1>1 DEF Row
  <2>2. d \in Row
    <3> DEFINE x == [order[o] EXCEPT !.status = "delivered"]
               y == [x EXCEPT !.held = 0]
               z == [y EXCEPT !.clock = "running"]
    <3>1. x \in Row
      BY <1>0 DEF Row, OrderStatus, OpenStatuses
    <3>2. d = z
      BY <1>0 DEF Row
    <3> HIDE DEF x
    <3>3. y \in Row
      BY <3>1 DEF Row
    <3> HIDE DEF y
    <3>4. z \in Row
      BY <3>3 DEF Row
    <3> QED
      BY <3>2, <3>4
  <2>3. /\ order' = [order EXCEPT ![o] = d] /\ o \notin provisioning
        /\ wallet' = wallet /\ fund' = fund /\ stock' = stock /\ provisioning' = provisioning
        /\ inflight' \subseteq inflight
    BY <1>3 DEF deliver_order_commit, Unlocked
  <2> HIDE DEF d, o
  <2>4. RowInv(d)
    BY <1>0, <1>1, <2>1, <2>1a DEF RowInv, Within, SamePay, Unpaid
  <2> QED
    BY <1>0, <2>2, <2>3, <2>4, RowStep
<1> QED
  BY <1>2, <1>3

(* An order in the hands of the case or of a settlement is unpaid.         *)
LEMMA DeliveredUnpaid ==
  ASSUME IInv, NEW o \in Orders, order[o].status \in OpenStatuses \/ order[o].open
  PROVE  Sound(Tx(o)) /\ Tx(o).row = order[o] /\ Unpaid(Tx(o).row) /\ Remaining(order[o]) \in Nat
<1>1. Sound(Tx(o)) /\ Tx(o).row = order[o] /\ RowInv(order[o]) /\ order[o] \in Row
  BY TxSound
<1>2. order[o].status \notin ClosedStatuses
  BY <1>1 DEF RowInv, OpenStatuses, ClosedStatuses
<1> QED
  BY <1>1, <1>2 DEF RowInv, Within, Unpaid, Row, Remaining

(* Settlements and deadlines outside a case. *)
LEMMA CloseStep == ASSUME IInv, NEW o \in Orders, Close(o) PROVE IInv'
<1>0. /\ Sound(Tx(o)) /\ Tx(o).row = order[o] /\ RowInv(order[o]) /\ order[o] \in Row
      /\ stock \in Nat /\ inflight \subseteq SellerCall /\ provisioning \subseteq Orders
      /\ wallet \in [Parties -> Nat] /\ fund \in Nat /\ order[o].held \in Nat
  BY TxSound DEF IInv, TypeOK, Row
<1>1. CASE deadline_passes(o) \/ escrow_lapses(o) \/ extend_escrow(o)
  <2> DEFINE a == [order[o] EXCEPT !.late = TRUE]
             b == [order[o] EXCEPT !.clock = "due"]
             e == [order[o] EXCEPT !.clock = "running", !.extensions = @ + 1]
  <2>1. a \in Row /\ SamePay(order[o], a) /\ a.status = order[o].status
    BY <1>0 DEF Row, SamePay
  <2>2. (a.open <=> order[o].open) /\ a.case = order[o].case
    BY <1>0 DEF Row
  <2>3. b \in Row /\ SamePay(order[o], b) /\ b.status = order[o].status
    BY <1>0 DEF Row, SamePay
  <2>4. (b.open <=> order[o].open) /\ b.case = order[o].case
    BY <1>0 DEF Row
  <2>5. SamePay(order[o], e) /\ e.status = order[o].status
    BY <1>0 DEF Row, SamePay
  <2>6. (e.open <=> order[o].open) /\ e.case = order[o].case
    BY <1>0 DEF Row
  <2>7. extend_escrow(o) => e \in Row
    <3>1. ASSUME extend_escrow(o) PROVE order[o].extensions + 1 \in 0..MaxExtensions
      BY <1>0, <3>1 DEF extend_escrow, Row
    <3>2. ASSUME NEW n \in 0..MaxExtensions
          PROVE  [order[o] EXCEPT !.clock = "running", !.extensions = n] \in Row
      BY <1>0 DEF Row
    <3> QED
      BY <3>1, <3>2
  <2>8. /\ \/ order' = [order EXCEPT ![o] = a]
           \/ order' = [order EXCEPT ![o] = b]
           \/ order' = [order EXCEPT ![o] = e] /\ extend_escrow(o)
        /\ UNCHANGED <<wallet, fund, stock, provisioning, inflight>>
    BY <1>1 DEF deadline_passes, escrow_lapses, extend_escrow
  <2>9. o \in provisioning => order[o].status = "pending"
    BY DEF IInv
  <2> HIDE DEF a, b, e
  <2>10. RowInv(a) /\ RowInv(b) /\ RowInv(e)
    BY <1>0, <2>1, <2>2, <2>3, <2>4, <2>5, <2>6 DEF RowInv, Within, SamePay, Unpaid
  <2> QED
    BY <1>0, <2>1, <2>3, <2>5, <2>7, <2>8, <2>9, <2>10, RowStep
<1>2. CASE sla_check_job(o) \/ provision_sweep_job(o)
  <2> DEFINE t == provision_failed(Tx(o))
             u == release_manual_stock(t)
  <2>1. /\ order[o].status = "pending" /\ o \notin provisioning
        /\ CanRefund(Tx(o), Tx(o).row.total)
    BY <1>0, <1>2 DEF sla_check_job, provision_sweep_job, Unlocked
  <2>2. Unpaid(Tx(o).row) /\ ~Tx(o).row.open
    BY <1>0, <2>1 DEF RowInv, ClosedStatuses
  <2>3. Sound(t) /\ RowInv(t.row) /\ t.row.status = "cancelled" /\ ~t.row.open
    BY <1>0, <2>1, <2>2, ProvisionSound
  <2>4. /\ Commit(o, t) \/ Commit(o, u)
        /\ stock' \in Nat /\ provisioning' = provisioning /\ inflight' = inflight
    BY <1>0, <1>2 DEF sla_check_job, provision_sweep_job
  <2> HIDE DEF t
  <2>5. Sound(u) /\ u.row.status = "cancelled" /\ ~u.row.open
    BY <2>3, PlainSound DEF SamePhase
  <2> HIDE DEF u
  <2>6. RowInv(u.row)
    BY <2>5, ClosedRow DEF ClosedStatuses
  <2> QED
    BY <1>0, <2>1, <2>3, <2>4, <2>5, <2>6, CommitStep
<1>3. ASSUME NEW pct \in FeePercents, confirm_order(o, pct) \/ escrow_release_job(o, pct)
      PROVE  IInv'
  <2> DEFINE t == Settle(Tx(o), pct)
  <2>1. order[o].status = "delivered" /\ ~order[o].open /\ o \notin provisioning
    BY <1>3 DEF confirm_order, escrow_release_job, Settleable, Unlocked
  <2>2. Sound(t) /\ t.row.status = "completed" /\ ~t.row.open
    BY <1>0, <2>1, DeliveredUnpaid, SettleSound DEF OpenStatuses
  <2>3. Commit(o, t) /\ stock' = stock /\ provisioning' = provisioning /\ inflight' = inflight
    BY <1>3 DEF confirm_order, escrow_release_job
  <2> HIDE DEF t
  <2>4. RowInv(t.row)
    BY <2>2, ClosedRow DEF ClosedStatuses
  <2> QED
    BY <1>0, <2>1, <2>2, <2>3, <2>4, CommitStep
<1>4. CASE refund_order(o)
  <2> DEFINE left == Remaining(order[o])
             p == refund_escrow(Tx(o), AdminRefund, left)
             a == SetStatus(p, "refunded")
             b == SetStatus(p, "cancelled")
             c == release_manual_stock(b)
  <2>1. /\ order[o].status \in OpenStatuses /\ ~order[o].open /\ o \notin provisioning /\ left > 0
    BY <1>4 DEF refund_order, Unlocked
  <2>2. Unpaid(Tx(o).row) /\ left \in Nat /\ CanRefund(Tx(o), left)
    BY <1>0, <2>1, DeliveredUnpaid DEF CanRefund
  <2>3. /\ Commit(o, Clawbacks(a)) \/ Commit(o, Clawbacks(c))
        /\ stock' \in Nat /\ provisioning' = provisioning /\ inflight' = inflight
    BY <1>0, <1>4 DEF refund_order
  <2>4. Sound(p) /\ ~p.row.open
    BY <1>0, <2>1, <2>2, KeysOfRow, RefundSound DEF SamePhase
  <2> HIDE DEF p
  <2>b. ASSUME NEW st \in OrderStatus
        PROVE  /\ Sound(SetStatus(p, st)) /\ SetStatus(p, st).row.status = st
               /\ ~SetStatus(p, st).row.open
    BY <2>4, PlainSound
  <2>5. /\ Sound(a) /\ a.row.status = "refunded" /\ ~a.row.open
        /\ Sound(b) /\ b.row.status = "cancelled" /\ ~b.row.open
    BY <2>b DEF OrderStatus, ClosedStatuses
  <2> HIDE DEF a, b
  <2>6. Sound(c) /\ c.row.status = "cancelled" /\ ~c.row.open
    BY <2>5, PlainSound DEF SamePhase
  <2> HIDE DEF c
  <2>a. ASSUME NEW x, Sound(x), x.row.status \in ClosedStatuses, ~x.row.open
        PROVE  Sound(Clawbacks(x)) /\ RowInv(Clawbacks(x).row)
    <3>1. Rewarded(x, Clawbacks(x))
      BY <2>a, ClawbacksSound
    <3> QED
      BY <2>a, <3>1, ClosedRow DEF Rewarded, SamePhase
  <2>7. /\ Sound(Clawbacks(a)) /\ RowInv(Clawbacks(a).row)
        /\ Sound(Clawbacks(c)) /\ RowInv(Clawbacks(c).row)
    BY <2>5, <2>6, <2>a DEF ClosedStatuses
  <2> QED
    BY <1>0, <2>1, <2>3, <2>7, CommitStep
<1> QED
  BY <1>1, <1>2, <1>3, <1>4 DEF Close

-----------------------------------------------------------------------------
(* The resolutions of a case. *)
LEMMA ResolveStep == ASSUME IInv, NEW o \in Orders, Resolve(o) PROVE IInv'
<1>0. /\ Sound(Tx(o)) /\ Tx(o).row = order[o] /\ RowInv(order[o]) /\ order[o] \in Row
      /\ stock \in Nat /\ inflight \subseteq SellerCall /\ provisioning \subseteq Orders
      /\ wallet \in [Parties -> Nat] /\ fund \in Nat
  BY TxSound DEF IInv, TypeOK
<1> DEFINE Ends(s) == /\ Commit(o, s)
                      /\ UNCHANGED <<stock, provisioning, inflight>>
<1>a. ASSUME NEW s, InCase(o), Sound(s), RowInv(s.row), Ends(s)
      PROVE  IInv'
  BY <1>0, <1>a, CommitStep DEF InCase, Unlocked
<1>b. ASSUME InCase(o)
      PROVE  /\ Unpaid(Tx(o).row) /\ order[o].status = "delivered"
             /\ order[o].case \in 1..MaxCases /\ order[o].open /\ Remaining(order[o]) \in Nat
  <2>1. order[o].status = "delivered" /\ Unpaid(Tx(o).row) /\ Remaining(order[o]) \in Nat
    BY <1>0, <1>b, DeliveredUnpaid DEF InCase, RowInv
  <2>2. order[o].case \in 1..MaxCases
    BY <1>0, <1>b DEF Row, InCase, RowInv
  <2> QED
    BY <1>b, <2>1, <2>2 DEF InCase
<1>c. ASSUME NEW s, InCase(o), Sound(s), s.row.status \in ClosedStatuses, ~s.row.open, Ends(s)
      PROVE  IInv'
  <2>1. RowInv(s.row)
    BY <1>c, ClosedRow
  <2> QED
    BY <1>a, <1>c, <2>1
(* The case closed, with the money untouched. *)
<1>d. ASSUME InCase(o)
      PROVE  LET s == CloseCase(Tx(o))
             IN  Sound(s) /\ Unpaid(s.row) /\ ~s.row.open /\ s.row.status = "delivered"
  BY <1>0, <1>b, <1>d, PlainSound DEF SamePay, Unpaid
(* A refund booked by the case. *)
<1>e. ASSUME NEW s, Sound(s), Unpaid(s.row), NEW k \in LineKeys \cup {":seller-timeout", ":admin-partial"},
             NEW n \in 1..MaxCases, NEW amount \in Nat, CanRefund(s, amount)
      PROVE  LET t == refund_escrow(s, <<k, n>>, amount)
             IN  Sound(t) /\ Unpaid(t.row) /\ SamePhase(s.row, t.row)
  BY <1>e, KeysOfRow, RefundSound
<1>1. CASE create_dispute(o) \/ seller_respond_dispute(o)
  <2> DEFINE a == [order[o] EXCEPT !.answered = TRUE]
             n == order[o].case + 1
             b == [order[o] EXCEPT !.open = TRUE, !.case = @ + 1,
                                   !.answered = FALSE, !.remedy = FALSE]
  <2>1. a \in Row /\ SamePay(order[o], a) /\ a.status = order[o].status
    BY <1>0 DEF Row, SamePay
  <2>2. (a.open <=> order[o].open) /\ a.case = order[o].case
    BY <1>0 DEF Row
  <2>3. CASE create_dispute(o)
    <3>1. n \in 0..MaxCases /\ n > 0 /\ order[o].status = "delivered" /\ o \notin provisioning
      BY <1>0, <2>3 DEF create_dispute, Row, Unlocked
    <3>2. SamePay(order[o], b) /\ b.status = "delivered" /\ b.case = n
      BY <1>0, <3>1 DEF Row, SamePay
    <3>3. b \in Row
      <4> DEFINE x == [order[o] EXCEPT !.open = TRUE]
                 y == [x EXCEPT !.case = n]
                 z == [y EXCEPT !.answered = FALSE]
                 u == [z EXCEPT !.remedy = FALSE]
      <4> HIDE DEF n
      <4>1. x \in Row /\ x.case = order[o].case
        BY <1>0 DEF Row
      <4>2. b = u
        BY <1>0 DEF Row, n
      <4> HIDE DEF x
      <4>3. y \in Row
        BY <3>1, <4>1 DEF Row
      <4> HIDE DEF y
      <4>4. z \in Row
        BY <4>3 DEF Row
      <4> HIDE DEF z
      <4>5. u \in Row
        BY <4>4 DEF Row
      <4> QED
        BY <4>2, <4>5
    <3>4. order' = [order EXCEPT ![o] = b] /\ UNCHANGED <<wallet, fund, stock, provisioning, inflight>>
      BY <2>3 DEF create_dispute
    <3> HIDE DEF b, n
    <3>5. RowInv(b)
      BY <1>0, <3>1, <3>2 DEF RowInv, Within, SamePay, Unpaid, ClosedStatuses
    <3> QED
      BY <1>0, <3>1, <3>3, <3>4, <3>5, RowStep
  <2>4. CASE seller_respond_dispute(o)
    <3>1. /\ order' = [order EXCEPT ![o] = a] /\ UNCHANGED <<wallet, fund, stock, provisioning, inflight>>
          /\ o \notin provisioning
      BY <2>4 DEF seller_respond_dispute, InCase, Unlocked
    <3> HIDE DEF a
    <3>2. RowInv(a)
      BY <1>0, <2>1, <2>2 DEF RowInv, Within, SamePay, Unpaid
    <3> QED
      BY <1>0, <2>1, <3>1, <3>2, RowStep
  <2> QED
    BY <1>1, <2>3, <2>4
<1>2. CASE refund_dispute(o)
  <2> DEFINE c == CloseCase(Tx(o))
             s == SetStatus(c, "refunded")
             left == Remaining(order[o])
             p == IF left = 0 THEN s ELSE refund_escrow(s, Whole, left)
  <2>1. InCase(o) /\ Ends(Clawbacks(p))
    BY <1>2 DEF refund_dispute
  <2>2. Sound(c) /\ Unpaid(c.row) /\ ~c.row.open /\ SamePay(order[o], c.row)
    BY <1>0, <1>d, <2>1, PlainSound
  <2> HIDE DEF c
  <2>3. /\ Sound(s) /\ Unpaid(s.row) /\ ~s.row.open /\ s.row.status = "refunded"
        /\ SamePay(order[o], s.row)
    BY <2>2, PlainSound DEF OrderStatus, ClosedStatuses, SamePay, Unpaid
  <2>4. left \in Nat /\ (left # 0 => CanRefund(s, left))
    BY <1>b, <2>1, <2>3 DEF CanRefund, Remaining, SamePay
  <2> HIDE DEF s, left
  <2>5. Sound(p) /\ ~p.row.open /\ p.row.status = "refunded"
    BY <2>3, <2>4, KeysOfRow, RefundSound DEF SamePhase
  <2> HIDE DEF p
  <2>6. Sound(Clawbacks(p)) /\ ~Clawbacks(p).row.open /\ Clawbacks(p).row.status = "refunded"
    BY <2>5, ClawbacksSound DEF Rewarded, SamePhase
  <2> HIDE DEF Ends
  <2> QED
    BY <1>c, <2>1, <2>6 DEF ClosedStatuses
<1>3. CASE replace_dispute(o) \/ extend_warranty_dispute(o)
  <2> DEFINE c == CloseCase(Tx(o))
             s == SetStatus(c, "delivered")
  <2>1. InCase(o) /\ (Ends(StartEscrow(s)) \/ Ends(s))
    BY <1>3 DEF replace_dispute, extend_warranty_dispute, Resume
  <2>2. Sound(c) /\ Unpaid(c.row) /\ ~c.row.open
    BY <1>d, <2>1
  <2> HIDE DEF c
  <2>3. Sound(s) /\ Unpaid(s.row) /\ ~s.row.open
    BY <2>2, PlainSound DEF OrderStatus, OpenStatuses, SamePay, Unpaid
  <2> HIDE DEF s
  <2>4. Sound(StartEscrow(s)) /\ RowInv(StartEscrow(s).row)
    BY <2>3, PlainSound, OpenRow DEF SamePay, SamePhase, Unpaid
  <2>5. RowInv(s.row)
    BY <2>3, OpenRow
  <2> HIDE DEF Ends
  <2> QED
    BY <1>a, <2>1, <2>3, <2>4, <2>5
<1>4. ASSUME NEW pct \in FeePercents, NEW actor \in {"seller", "admin"}, NEW key \in LineKeys,
             NEW amount \in Nat, resolve_lines(o, actor, key, amount, pct)
      PROVE  IInv'
  <2> DEFINE r == [order[o] EXCEPT !.remedy = TRUE, !.answered = @ \/ actor = "seller"]
             s == [Tx(o) EXCEPT !.row = r]
             paid == IF amount = 0 THEN s ELSE refund_escrow(s, <<key, s.row.case>>, amount)
  <2>1. InCase(o) /\ (amount = 0 \/ CanRefund(Tx(o), amount))
    BY <1>4 DEF resolve_lines
  <2>2. Ends(IF paid.row.refunded = paid.row.total THEN finalize_dispute(paid, pct) ELSE paid)
    BY <1>4 DEF resolve_lines
  <2>3. s = [row |-> r, wallet |-> wallet, fund |-> fund]
    <3> HIDE DEF r
    <3> QED
      BY DEF Tx
  <2>4. r \in Row
    <3>1. ASSUME NEW x \in BOOLEAN
          PROVE  [order[o] EXCEPT !.remedy = TRUE, !.answered = x] \in Row
      BY <1>0 DEF Row
    <3>2. (order[o].answered \/ actor = "seller") \in BOOLEAN
      BY Zenon
    <3> QED
      BY <3>1, <3>2
  <2>5. SamePay(order[o], r) /\ r.status = order[o].status /\ r.case = order[o].case
    BY <1>0 DEF Row, SamePay
  <2>6. r.open <=> order[o].open
    BY <1>0 DEF Row
  <2> HIDE DEF r, Ends
  <2>7. /\ Sound(s) /\ Unpaid(s.row) /\ (amount # 0 => CanRefund(s, amount))
        /\ s.row.status = "delivered" /\ s.row.case \in 1..MaxCases
    <3> HIDE DEF s
    <3>1. s.row = r
      BY <2>3
    <3>2. CanRefund(Tx(o), amount) => CanRefund(s, amount)
      BY <1>0, <2>5, <3>1 DEF SamePay, Tx, CanRefund, Remaining
    <3>3. Sound(s)
      <4>1. Sound([row |-> r, wallet |-> Tx(o).wallet, fund |-> Tx(o).fund])
        BY <1>0, <2>4, <2>5, RowOnly
      <4>2. Tx(o).wallet = wallet /\ Tx(o).fund = fund
        BY DEF Tx
      <4> QED
        BY <2>3, <4>1, <4>2
    <3> QED
      BY <1>0, <1>b, <2>1, <2>5, <3>1, <3>2, <3>3 DEF SamePay, Unpaid
  <2> HIDE DEF s
  <2>8. /\ Sound(paid) /\ Unpaid(paid.row) /\ paid.row.status = "delivered" /\ paid.row.case > 0
    BY <1>e, <2>7 DEF SamePhase
  <2> HIDE DEF paid
  <2>9. CASE paid.row.refunded = paid.row.total
    <3>1. /\ Sound(finalize_dispute(paid, pct)) /\ ~finalize_dispute(paid, pct).row.open
          /\ finalize_dispute(paid, pct).row.status \in ClosedStatuses
      BY <2>8, FinalizeSound
    <3> QED
      BY <1>c, <2>1, <2>2, <2>9, <3>1
  <2>10. CASE paid.row.refunded # paid.row.total
    <3>1. RowInv(paid.row)
      BY <2>8, OpenRow
    <3> QED
      BY <1>a, <2>1, <2>2, <2>8, <2>10, <3>1
  <2> QED
    BY <2>9, <2>10
<1>5. ASSUME NEW pct \in FeePercents,
             \/ accept_dispute_resolution(o, pct)
             \/ resolve_abandoned_dispute(o, pct)
             \/ resolve_dispute_after_seller_timeout(o, pct)
      PROVE  IInv'
  <2> DEFINE left == Remaining(order[o])
             t == IF left = 0 THEN Tx(o)
                  ELSE refund_escrow(Tx(o), <<":seller-timeout", order[o].case>>, left)
  <2>1. InCase(o) /\ (Ends(finalize_dispute(Tx(o), pct)) \/ Ends(finalize_dispute(t, pct)))
    BY <1>5 DEF accept_dispute_resolution, resolve_abandoned_dispute,
                resolve_dispute_after_seller_timeout
  <2>2. Sound(Tx(o)) /\ Unpaid(Tx(o).row)
    BY <1>0, <1>b, <2>1
  <2>3. Sound(t) /\ Unpaid(t.row)
    <3>1. left # 0 => CanRefund(Tx(o), left)
      BY <1>0, <1>b, <2>1 DEF CanRefund
    <3>2. left \in Nat /\ order[o].case \in 1..MaxCases
      BY <1>b, <2>1
    <3> HIDE DEF left
    <3> QED
      BY <1>e, <2>2, <3>1, <3>2
  <2> HIDE DEF t, Ends
  <2>4. /\ Sound(finalize_dispute(Tx(o), pct)) /\ ~finalize_dispute(Tx(o), pct).row.open
        /\ finalize_dispute(Tx(o), pct).row.status \in ClosedStatuses
    BY <2>2, FinalizeSound
  <2>5. /\ Sound(finalize_dispute(t, pct)) /\ ~finalize_dispute(t, pct).row.open
        /\ finalize_dispute(t, pct).row.status \in ClosedStatuses
    BY <2>3, FinalizeSound
  <2> QED
    BY <1>c, <2>1, <2>4, <2>5
<1>6. ASSUME NEW pct \in FeePercents, NEW amount \in Nat, amount > 0,
             \/ withdraw_dispute(o, pct)
             \/ reject_dispute(o, pct)
             \/ partial_refund_dispute(o, amount, pct)
      PROVE  IInv'
  <2> DEFINE c == CloseCase(Tx(o))
             p == refund_escrow(c, <<":admin-partial", order[o].case>>, amount)
  <2>1. /\ InCase(o)
        /\ \/ Ends(c)
           \/ Ends(Settle(c, pct))
           \/ Ends(Settle(p, pct)) /\ amount < Remaining(order[o])
    BY <1>6 DEF withdraw_dispute, reject_dispute, partial_refund_dispute
  <2>2. Sound(c) /\ Unpaid(c.row) /\ ~c.row.open /\ SamePay(order[o], c.row)
    BY <1>0, <1>d, <2>1, PlainSound
  <2> HIDE DEF c, Ends
  <2>3. ASSUME NEW x, Sound(x), Unpaid(x.row), ~x.row.open, Ends(Settle(x, pct))
        PROVE  IInv'
    <3>1. Sound(Settle(x, pct)) /\ Settle(x, pct).row.status = "completed" /\ ~Settle(x, pct).row.open
      BY <2>3, SettleSound
    <3> QED
      BY <1>c, <2>1, <2>3, <3>1 DEF ClosedStatuses
  <2>4. CASE Ends(c)
    <3>1. RowInv(c.row)
      BY <2>2, OpenRow
    <3> QED
      BY <1>a, <2>1, <2>2, <2>4, <3>1
  <2>5. CASE Ends(Settle(p, pct)) /\ amount < Remaining(order[o])
    <3>1. CanRefund(c, amount)
      BY <1>6, <1>b, <2>1, <2>2, <2>5 DEF CanRefund, Remaining, SamePay
    <3>2. order[o].case \in 1..MaxCases
      BY <1>b, <2>1
    <3>3. Sound(p) /\ Unpaid(p.row) /\ ~p.row.open
      BY <1>e, <2>2, <3>1, <3>2 DEF SamePhase
    <3> HIDE DEF p
    <3> QED
      BY <2>3, <2>5, <3>3
  <2> QED
    BY <2>1, <2>2, <2>3, <2>4, <2>5
<1>7. \A amount \in {0} \cup Amounts(o) : amount \in Nat
  BY <1>0 DEF Amounts, Row
<1>8. \A amount \in Amounts(o) : amount \in Nat /\ amount > 0
  BY <1>0 DEF Amounts, Row
<1>9. ASSUME NEW pct \in FeePercents, withdraw_dispute(o, pct) \/ reject_dispute(o, pct)
      PROVE  IInv'
  BY <1>6, <1>9
<1> HIDE DEF Ends
<1> QED
  BY <1>1, <1>2, <1>3, <1>4, <1>5, <1>6, <1>7, <1>8, <1>9 DEF Resolve

-----------------------------------------------------------------------------
(* The invariant of the specification *)

(* No order is placed yet: every row is empty. *)
LEMMA InitInv == ASSUME Init PROVE IInv
<1>1. NoRow \in Row
  <2>1. [k \in RefundKeys |-> 0] \in [RefundKeys -> Nat]
    OBVIOUS
  <2>2. [t \in Tasks |-> "todo"] \in [Tasks -> TaskStatus]
    BY DEF TaskStatus
  <2>3. 0 \in 0..MaxCases /\ 0 \in 0..MaxExtensions /\ 0 \in 0..1 /\ 0 \in Nat
    OBVIOUS
  <2> QED
    BY <2>1, <2>2, <2>3 DEF NoRow, Row
<1>2. TypeOK
  BY <1>1 DEF Init, TypeOK, Parties
<1>3. \A o \in Orders : RowInv(order[o])
  BY DEF Init, NoRow, RowInv, Within, Unpaid
<1>4. \A o \in provisioning : order[o].status = "pending"
  BY DEF Init
<1> QED
  BY <1>2, <1>3, <1>4 DEF IInv

(* Every step that no seller call has been overtaken before keeps the      *)
(* invariant.                                                              *)
LEMMA StepInv == ASSUME IInv, NoSellerOvertaken, [Next]_vars PROVE IInv'
<1>1. ASSUME NEW o \in Orders, Checkout(o) \/ Fulfil(o) \/ Resolve(o) \/ Close(o)
      PROVE  IInv'
  BY <1>1, CheckoutStep, FulfilStep, ResolveStep, CloseStep
<1>2. CASE SellerCommits
  BY <1>2, SellerStep
<1>3. CASE UNCHANGED vars
  BY <1>3 DEF vars, IInv, TypeOK, RowInv, Within, Unpaid
<1> QED
  BY <1>1, <1>2, <1>3 DEF Next

(* Where sellers make no unlocked call at all, none is overtaken: the      *)
(* hypothesis of the theorems below speaks of those calls only.            *)
LEMMA NobodyOvertakes == Hands = {} => (Spec => []NoSellerOvertaken)
<1> SUFFICES ASSUME Hands = {} PROVE Spec => []NoSellerOvertaken
  OBVIOUS
<1>1. Init => IInv
  BY InitInv
<1>2. IInv => NoSellerOvertaken
  <2> SUFFICES ASSUME IInv PROVE inflight = {}
    BY DEF NoSellerOvertaken
  <2>1. inflight \subseteq SellerCall
    BY DEF IInv, TypeOK
  <2>2. SellerCall = {}
    BY DEF SellerCall
  <2> QED
    BY <2>1, <2>2
<1>3. IInv /\ NoSellerOvertaken /\ [Next]_vars => IInv'
  BY StepInv
<1> QED
  BY <1>1, <1>2, <1>3, PTL DEF Spec

(* The rows, the wallets, the fund and the stock stay within their types;  *)
(* in particular no wallet, no stock and no remaining escrow ever goes     *)
(* below zero (the CHECK constraints of orders and wallets).               *)
THEOREM TypeCorrect == Spec /\ []NoSellerOvertaken => []TypeOK
<1>1. Init => IInv
  BY InitInv
<1>2. IInv /\ NoSellerOvertaken /\ [Next]_vars => IInv'
  BY StepInv
<1>3. IInv => TypeOK
  BY DEF IInv
<1> QED
  BY <1>1, <1>2, <1>3, PTL DEF Spec

(* What an order refunds, releases and earns in fees never exceeds what    *)
(* its buyer paid, whatever the handlers and jobs do to it in which order, *)
(* as long as no unlocked accept_order / deliver_order call is overtaken.  *)
THEOREM NotOverspent == Spec /\ []NoSellerOvertaken => []EscrowNotOverspent
<1>1. Init => IInv
  BY InitInv
<1>2. IInv /\ NoSellerOvertaken /\ [Next]_vars => IInv'
  BY StepInv
<1>3. IInv => EscrowNotOverspent
  BY DEF IInv, RowInv, Within, EscrowNotOverspent
<1> QED
  BY <1>1, <1>2, <1>3, PTL DEF Spec
=============================================================================
