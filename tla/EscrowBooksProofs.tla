------------------------- MODULE EscrowBooksProofs -------------------------
(***************************************************************************)
(* The books of the escrow balance: every order's ledger rows add up to    *)
(* what its row says, all wallets and escrows together hold what came in,  *)
(* no unit of stock is lost, rewards stand on settled sales only, and what *)
(* is closed or under dispute is left alone.  The argument goes over       *)
(* transactions again: which fields of the row an operator changes, and    *)
(* that it only moves money between the row, the wallets and the platform. *)
(***************************************************************************)
EXTENDS EscrowBooks, EscrowProofs, SumLemmas

USE AmountsAssumption, TasksAssumption, BoundsAssumption, FiniteAssumption

(* The rows r and q differ in the fields F at most. *)
Only(r, q, F) == \A f \in DOMAIN NoRow \ F : q[f] = r[f]

Left(r) == r.total - r.refunded - r.release - r.fee

Cash(w) == w["buyer"] + w["seller"] + w["platform"] + w["referrer"]

(* What a transaction may move about but never make or lose: the wallets,  *)
(* what the order still holds, less what the platform paid into it.        *)
Money(s) == Cash(s.wallet) + Left(s.row) - PaidIn(s.row) + TookBack(s.row)

-----------------------------------------------------------------------------
(* The invariant of a row *)

Booked(r) == SumFunctionOnSet(r.refunds, RefundKeys) = r.refunded

Unclawed(r) ==
  ~r.commissionClawed /\ ~r.cashbackClawed /\ r.commissionBack = 0 /\ r.cashbackBack = 0

Unrewarded(r) == r.subsidy = 0 /\ r.commission = 0 /\ r.cashback = 0

(* The references under which the rest of an open order may be refunded    *)
(* have not been used.                                                     *)
Free(r) == r.refunds[AdminRefund] = 0 /\ (r.kind # "task" => r.refunds[Whole] = 0)

Core(r) ==
  /\ r.hold = r.total /\ Booked(r) /\ r.subsidy <= r.discount
  /\ Unclawed(r)
  /\ r.kind \in Kinds \cup {"none"}
  /\ r.kind # "manual" => r.held = 0

(* A pending or processing order of the made-to-order package holds its    *)
(* unit; once delivered, it has used it.                                   *)
Keeping(r) ==
  r.kind = "manual" =>
    /\ r.status # "delivered" => r.held = 1 /\ r.clock = "unset"
    /\ r.status = "delivered" => r.clock # "unset"

Standing(r) == Unrewarded(r) /\ Free(r) /\ Keeping(r)

Divided(r) ==
  /\ r.cashback > 0 => r.refunded = 0
  /\ r.commission <= r.fee
  /\ r.status = "completed" => Left(r) = 0
  /\ r.status # "completed" => Unrewarded(r) /\ (r.kind # "task" => r.refunded = r.total)

Books(r) ==
  /\ Core(r)
  /\ r.status = "none" => r = NoRow
  /\ r.status \in OpenStatuses => Standing(r)
  /\ r.status \in ClosedStatuses => Divided(r)

BooksInv ==
  /\ \A o \in Orders : Books(order[o])
  /\ \A o \in provisioning : order[o].kind # "manual"

-----------------------------------------------------------------------------
(* Rows that differ in a few fields *)

(* One change after another. *)
LEMMA OnlyTwice ==
  ASSUME NEW r, NEW q, NEW u, NEW F, NEW G, NEW H,
         Only(r, q, F), Only(q, u, G), F \subseteq H, G \subseteq H
  PROVE  Only(r, u, H)
  BY DEF Only

MoneyFields == {"total", "refunded", "release", "fee", "commission", "subsidy", "cashback",
                "commissionBack", "cashbackBack"}

(* A change of other fields moves no money. *)
LEMMA NoMoney ==
  ASSUME NEW s, NEW t, NEW F, F \cap MoneyFields = {}, Only(s.row, t.row, F), t.wallet = s.wallet
  PROVE  Money(t) = Money(s)
<1>1. \A f \in MoneyFields : t.row[f] = s.row[f]
  BY DEF Only, MoneyFields, NoRow
<1>2. /\ t.row.total = s.row.total /\ t.row.refunded = s.row.refunded
      /\ t.row.release = s.row.release /\ t.row.fee = s.row.fee
      /\ t.row.commission = s.row.commission /\ t.row.subsidy = s.row.subsidy
      /\ t.row.cashback = s.row.cashback
      /\ t.row.commissionBack = s.row.commissionBack
      /\ t.row.cashbackBack = s.row.cashbackBack
  BY <1>1 DEF MoneyFields
<1> QED
  BY <1>2 DEF Money, Left, PaidIn, TookBack

(* What is left of a row, what the platform paid in and took back.         *)
LEMMA MoneyType ==
  ASSUME NEW r \in Row
  PROVE  Left(r) \in Int /\ PaidIn(r) \in Nat /\ TookBack(r) \in Nat
  BY DEF Row, Left, PaidIn, TookBack

LEMMA PairFinite == ASSUME NEW a, NEW b PROVE IsFiniteSet({a, b})
<1>1. IsFiniteSet({a}) /\ IsFiniteSet({b})
  BY FS_Singleton
<1>2. IsFiniteSet({a} \cup {b})
  BY <1>1, FS_Union
<1>3. {a} \cup {b} = {a, b}
  OBVIOUS
<1> QED
  BY <1>2, <1>3, Zenon

(* An order has finitely many references for refunds.                      *)
LEMMA KeysFinite == IsFiniteSet(RefundKeys)
<1> DEFINE A == {Whole, Short} \cup {ShortDelivery, AdminRefund}
           B == LineKeys \cup {":seller-timeout", ":admin-partial"}
<1>1. IsFiniteSet(A)
  BY PairFinite, FS_Union
<1>2. IsFiniteSet({":seller-timeout", ":admin-partial"})
  BY PairFinite
<1>3. IsFiniteSet(B)
  BY <1>2, FS_Union
<1>4. IsFiniteSet(1..MaxCases)
  BY FS_Interval
<1>5. IsFiniteSet(B \X (1..MaxCases))
  BY <1>3, <1>4, FS_Product
<1>6. RefundKeys = A \cup (B \X (1..MaxCases))
  BY DEF RefundKeys
<1> HIDE DEF A, B
<1> QED
  BY <1>1, <1>5, <1>6, FS_Union

(* All wallets together. *)
LEMMA Cashes ==
  ASSUME NEW w \in [Parties -> Nat]
  PROVE  SumFunctionOnSet(w, Parties) = Cash(w) /\ Cash(w) \in Nat
<1> DEFINE a == {"buyer"}
           b == a \cup {"seller"}
           c == b \cup {"platform"}
           d == c \cup {"referrer"}
<1>1. \A p \in Parties : w[p] \in Int
  OBVIOUS
<1>2. /\ IsFiniteSet({}) /\ IsFiniteSet(a) /\ IsFiniteSet(b) /\ IsFiniteSet(c)
      /\ {} \cup {"buyer"} = a /\ d = Parties
  <2>1. /\ IsFiniteSet({}) /\ IsFiniteSet({"buyer"}) /\ IsFiniteSet({"seller"})
        /\ IsFiniteSet({"platform"}) /\ IsFiniteSet({"referrer"})
    BY FS_EmptySet, FS_Singleton
  <2>2. IsFiniteSet(b)
    BY <2>1, FS_Union
  <2>3. IsFiniteSet(c)
    BY <2>1, <2>2, FS_Union
  <2> QED
    BY <2>1, <2>2, <2>3 DEF Parties
<1>3. SumFunctionOnSet(w, {}) = 0
  BY SumEmpty
<1>4. SumFunctionOnSet(w, a) = w["buyer"] + 0
  <2>1. "buyer" \notin {} /\ \A y \in {} \cup {"buyer"} : w[y] \in Int
    BY <1>1 DEF Parties
  <2> QED
    BY <1>2, <1>3, <2>1, SumAdd
<1>5. SumFunctionOnSet(w, b) = w["seller"] + SumFunctionOnSet(w, a)
  <2>1. "seller" \notin a /\ \A y \in a \cup {"seller"} : w[y] \in Int
    BY <1>1 DEF Parties
  <2> QED
    BY <1>2, <2>1, SumAdd
<1>6. SumFunctionOnSet(w, c) = w["platform"] + SumFunctionOnSet(w, b)
  <2>1. "platform" \notin b /\ \A y \in b \cup {"platform"} : w[y] \in Int
    BY <1>1 DEF Parties
  <2> QED
    BY <1>2, <2>1, SumAdd
<1>7. SumFunctionOnSet(w, d) = w["referrer"] + SumFunctionOnSet(w, c)
  <2>1. "referrer" \notin c /\ \A y \in c \cup {"referrer"} : w[y] \in Int
    BY <1>1 DEF Parties
  <2> QED
    BY <1>2, <2>1, SumAdd
<1>8. w["buyer"] \in Nat /\ w["seller"] \in Nat /\ w["platform"] \in Nat /\ w["referrer"] \in Nat
  BY DEF Parties
<1> HIDE DEF a, b, c, d
<1> QED
  BY <1>2, <1>4, <1>5, <1>6, <1>7, <1>8 DEF Cash

-----------------------------------------------------------------------------
(* What the operators on transactions change *)

(* t differs from s in fields F of the row, which are not about money.     *)
Flags(s, t, F) == Only(s.row, t.row, F) /\ t.wallet = s.wallet /\ Money(t) = Money(s)

(* The row of a transaction is replaced by one with other flags.           *)
LEMMA FlagsOf ==
  ASSUME NEW s, NEW r, NEW F, F \cap MoneyFields = {}, Only(s.row, r, F)
  PROVE  Flags(s, [row |-> r, wallet |-> s.wallet, fund |-> s.fund], F)
<1> DEFINE t == [row |-> r, wallet |-> s.wallet, fund |-> s.fund]
<1>1. t.row = r /\ t.wallet = s.wallet
  OBVIOUS
<1> HIDE DEF t
<1> QED
  BY <1>1, NoMoney DEF Flags

(* The updates that move no money. *)
LEMMA PlainBooks ==
  ASSUME NEW s, Sound(s)
  PROVE  /\ \A st \in OrderStatus : Flags(s, SetStatus(s, st), {"status"})
         /\ Flags(s, CloseCase(s), {"open"})
         /\ Flags(s, StartEscrow(s), {"clock"}) /\ StartEscrow(s).row.clock = "running"
         /\ Flags(s, release_manual_stock(s), {"held"}) /\ release_manual_stock(s).row.held = 0
<1>0. s.row \in Row /\ s \in TxType
  BY DEF Sound, TxType
<1>1. ASSUME NEW st \in OrderStatus PROVE Flags(s, SetStatus(s, st), {"status"})
  <2> DEFINE r == [s.row EXCEPT !.status = st]
  <2>1. SetStatus(s, st) = [row |-> r, wallet |-> s.wallet, fund |-> s.fund]
    BY <1>0 DEF SetStatus, TxType
  <2>2. Only(s.row, r, {"status"})
    BY <1>0 DEF Row, Only, NoRow
  <2>3. {"status"} \cap MoneyFields = {}
    BY DEF MoneyFields
  <2> HIDE DEF r
  <2> QED
    BY <2>1, <2>2, <2>3, FlagsOf
<1>2. Flags(s, CloseCase(s), {"open"})
  <2> DEFINE r == [s.row EXCEPT !.open = FALSE]
  <2>1. CloseCase(s) = [row |-> r, wallet |-> s.wallet, fund |-> s.fund]
    BY <1>0, TxRow DEF CloseCase
  <2>2. Only(s.row, r, {"open"})
    BY <1>0 DEF Row, Only, NoRow
  <2>3. {"open"} \cap MoneyFields = {}
    BY DEF MoneyFields
  <2> HIDE DEF r
  <2> QED
    BY <2>1, <2>2, <2>3, FlagsOf
<1>3. Flags(s, StartEscrow(s), {"clock"}) /\ StartEscrow(s).row.clock = "running"
  <2> DEFINE r == [s.row EXCEPT !.clock = "running"]
  <2>1. StartEscrow(s) = [row |-> r, wallet |-> s.wallet, fund |-> s.fund]
    BY <1>0 DEF StartEscrow, TxType
  <2>2. Only(s.row, r, {"clock"}) /\ r.clock = "running"
    BY <1>0 DEF Row, Only, NoRow
  <2>3. {"clock"} \cap MoneyFields = {}
    BY DEF MoneyFields
  <2> HIDE DEF r
  <2> QED
    BY <2>1, <2>2, <2>3, FlagsOf
<1>4. Flags(s, release_manual_stock(s), {"held"}) /\ release_manual_stock(s).row.held = 0
  <2> DEFINE r == [s.row EXCEPT !.held = 0]
  <2>1. release_manual_stock(s) = [row |-> r, wallet |-> s.wallet, fund |-> s.fund]
    BY <1>0 DEF release_manual_stock, TxType
  <2>2. Only(s.row, r, {"held"}) /\ r.held = 0
    BY <1>0 DEF Row, Only, NoRow
  <2>3. {"held"} \cap MoneyFields = {}
    BY DEF MoneyFields
  <2> HIDE DEF r
  <2> QED
    BY <2>1, <2>2, <2>3, FlagsOf
<1> QED
  BY <1>1, <1>2, <1>3, <1>4

(* A refund enters one row in the ledger, or none if the row is there. *)
Refunds(s, t, key, amount) ==
  /\ Only(s.row, t.row, {"refunded", "refunds"})
  /\ \A k \in RefundKeys : k # key => t.row.refunds[k] = s.row.refunds[k]
  /\ s.row.refunds[key] = 0 => t.row.refunded = s.row.refunded + amount
  /\ s.row.refunded <= t.row.refunded
  /\ Money(t) = Money(s)
  /\ Booked(s.row) => Booked(t.row)

LEMMA RefundBooks ==
  ASSUME NEW s, Sound(s), NEW key \in RefundKeys, NEW amount \in Nat
  PROVE  Refunds(s, refund_escrow(s, key, amount), key, amount)
<1> DEFINE t == refund_escrow(s, key, amount)
           f == [s.row.refunds EXCEPT ![key] = amount]
           r == [s.row EXCEPT !.refunded = s.row.refunded + amount, !.refunds = f]
           w == [s.wallet EXCEPT !["buyer"] = @ + amount]
<1>0. s.row \in Row /\ s \in TxType /\ s.row.refunded \in Nat
  BY DEF Sound, TxType, Row
<1>1. CASE s.row.refunds[key] > 0
  <2>1. t = s /\ s.row.refunds[key] # 0
    BY <1>1 DEF refund_escrow
  <2> HIDE DEF t
  <2> QED
    BY <1>0, <2>1 DEF Refunds, Only, t
<1>2. CASE ~(s.row.refunds[key] > 0)
  <2>1. s.row.refunds \in [RefundKeys -> Nat] /\ s.row.refunds[key] = 0
    BY <1>0, <1>2 DEF Row
  <2>2. [s.row EXCEPT !.refunded = @ + amount, !.refunds[key] = amount] = r
    BY <1>0 DEF Row
  <2>3. t = [row |-> r, wallet |-> w, fund |-> s.fund]
    BY <1>0, <1>2, <2>2 DEF refund_escrow, TxType
  <2>4. t.row = r /\ t.wallet = w
    BY <2>3
  <2>5. /\ Only(s.row, r, {"refunded", "refunds"}) /\ r.refunds = f
        /\ r.refunded = s.row.refunded + amount
    BY <1>0 DEF Row, Only, NoRow
  <2>6. \A k \in RefundKeys : k # key => f[k] = s.row.refunds[k]
    BY <2>1
  <2>7. Cash(w) = Cash(s.wallet) + amount
    BY <1>0 DEF TxType, Parties, Cash
  <2>8. /\ Left(r) = Left(s.row) - amount /\ PaidIn(r) = PaidIn(s.row)
        /\ TookBack(r) = TookBack(s.row)
    BY <1>0 DEF Row, Left, PaidIn, TookBack
  <2>9. /\ Cash(s.wallet) \in Nat /\ Left(s.row) \in Int /\ PaidIn(s.row) \in Nat
        /\ TookBack(s.row) \in Nat
    BY <1>0, Cashes, MoneyType DEF TxType
  <2>10. Booked(s.row) => Booked(r)
    <3> DEFINE g == s.row.refunds
    <3>1. /\ SumFunctionOnSet(g, RefundKeys) \in Int
          /\ SumFunctionOnSet(f, RefundKeys)
               = SumFunctionOnSet(g, RefundKeys) + Share(f, RefundKeys, key) - Share(g, RefundKeys, key)
      <4>1. /\ \A k \in RefundKeys : g[k] \in Int /\ f[k] \in Int
            /\ \A k \in RefundKeys : k # key => f[k] = g[k]
        BY <2>1
      <4>2. RefundKeys \in SUBSET RefundKeys /\ IsFiniteSet(RefundKeys)
        BY KeysFinite
      <4> HIDE DEF f, g
      <4> QED
        BY <4>1, <4>2, SumMoves
    <3>2. Share(f, RefundKeys, key) = amount /\ Share(g, RefundKeys, key) = 0
      BY <2>1 DEF Share
    <3> HIDE DEF f, r
    <3> QED
      BY <1>0, <2>5, <3>1, <3>2 DEF Booked
  <2> HIDE DEF t, r, w, f
  <2>11. Money(t) = Money(s)
    BY <2>4, <2>7, <2>8, <2>9 DEF Money
  <2> QED
    BY <1>0, <2>1, <2>4, <2>5, <2>6, <2>10, <2>11 DEF Refunds, t
<1> QED
  BY <1>1, <1>2

(* The platform adds at most the discount to a release. *)
LEMMA PromoShareWithin ==
  ASSUME NEW r \in Row, NEW amount \in Nat, amount > 0, amount <= r.total,
         NEW fee \in 0..amount
  PROVE  PromoShare(r, amount, fee) \in 0..r.discount
<1> DEFINE share == (r.discount * amount) \div r.total
<1>0. r.discount \in Nat /\ r.total \in Nat /\ r.total > 0
  BY DEF Row
<1>1. (r.discount * amount) \div r.total \in 0..r.discount
  BY <1>0, PartWithin
<1>2. (share * fee) \div amount \in 0..share
  BY <1>1, PartWithin
<1> DEFINE back == (share * fee) \div amount
<1> HIDE DEF share, back
<1>3. share \in 0..r.discount /\ back \in 0..share
  BY <1>1, <1>2 DEF share, back
<1>4. share - back \in 0..r.discount /\ 0 \in 0..r.discount
  BY <1>0, <1>3
<1> QED
  BY <1>4 DEF PromoShare, share, back

(* A release pays out what is left, with the seller's part of a discount. *)
LEMMA ReleaseBooks ==
  ASSUME NEW s, Sound(s), Unpaid(s.row), s.row.subsidy = 0, Remaining(s.row) > 0,
         NEW fee \in 0..Remaining(s.row), NEW t, t = release_escrow(s, Remaining(s.row), fee)
  PROVE  /\ Only(s.row, t.row, {"release", "fee", "subsidy"})
         /\ t.row.fee = fee /\ Left(t.row) = 0 /\ t.row.subsidy <= t.row.discount
         /\ Money(t) = Money(s)
<1> DEFINE amount == Remaining(s.row)
           subsidy == PromoShare(s.row, amount, fee)
           r == [s.row EXCEPT !.release = amount - fee, !.subsidy = subsidy, !.fee = fee]
           w == [s.wallet EXCEPT !["seller"] = @ + (amount - fee) + subsidy,
                                 !["platform"] = @ + fee]
<1>0. s.row \in Row /\ s \in TxType
  BY DEF Sound, TxType
<1>1. amount \in Nat /\ amount > 0 /\ amount <= s.row.total /\ fee \in Nat /\ amount - fee \in Nat
  BY <1>0 DEF Row, Remaining, Within, Sound, Unpaid
<1>2. subsidy \in 0..s.row.discount /\ subsidy \in Nat
  <2>1. subsidy \in 0..s.row.discount
    BY <1>0, <1>1, PromoShareWithin
  <2>2. s.row.discount \in Nat
    BY <1>0 DEF Row
  <2> QED
    BY <2>1, <2>2
<1>3. t.row = r /\ t.wallet = w
  <2>1. ~(s.row.release > 0 \/ s.row.fee > 0)
    BY DEF Unpaid
  <2> QED
    BY <1>0, <2>1 DEF release_escrow, TxType
<1> HIDE DEF subsidy
<1>4. amount = s.row.total - s.row.refunded
  BY DEF Remaining
<1> HIDE DEF amount
<1>5. Only(s.row, r, {"release", "fee", "subsidy"})
  BY <1>0 DEF Row, Only, NoRow
<1>6. /\ r.release = amount - fee /\ r.fee = fee /\ r.subsidy = subsidy
      /\ r.discount = s.row.discount /\ r.total = s.row.total
      /\ r.refunded = s.row.refunded /\ r.commission = s.row.commission
      /\ r.cashback = s.row.cashback /\ TookBack(r) = TookBack(s.row)
  BY <1>0 DEF Row, TookBack
<1>7. /\ s.row.total \in Nat /\ s.row.refunded \in Nat /\ s.row.commission \in Nat
      /\ s.row.cashback \in Nat /\ TookBack(s.row) \in Nat
  BY <1>0, MoneyType DEF Row
<1>8. Left(s.row) = amount /\ Left(r) = 0
  BY <1>1, <1>4, <1>6, <1>7 DEF Left, Unpaid
<1>9. PaidIn(r) = PaidIn(s.row) + subsidy /\ PaidIn(s.row) \in Nat
  BY <1>2, <1>6, <1>7 DEF PaidIn
<1>10. Cash(w) = Cash(s.wallet) + amount + subsidy /\ Cash(s.wallet) \in Nat
  BY <1>0, <1>1, <1>2, Cashes DEF TxType, Parties, Cash
<1> HIDE DEF r, w
<1>11. Money(t) = Money(s)
  BY <1>1, <1>2, <1>3, <1>6, <1>7, <1>8, <1>9, <1>10 DEF Money
<1> QED
  BY <1>1, <1>2, <1>3, <1>5, <1>6, <1>8, <1>11

(* A commission of at most a hundred percent is at most the fee.          *)
LEMMA CommissionWithin ==
  ASSUME NEW fee \in Nat
  PROVE  RoundDiv(fee * CommissionPercent, 100) \in 0..fee
<1>1. CommissionPercent \in 0..100
  OBVIOUS
<1>2. fee * CommissionPercent \in Nat /\ fee * CommissionPercent <= 100 * fee
  BY <1>1, SMT
<1>3. ASSUME NEW n \in Nat, n <= 100 * fee PROVE RoundDiv(n, 100) \in 0..fee
  BY <1>3, SMT DEF RoundDiv
<1> QED
  BY <1>2, <1>3

(* The fund pays the commission, which the fee covers. *)
LEMMA CommissionBooks ==
  ASSUME NEW s, Sound(s), s.row.commission = 0, NEW fee \in Nat,
         NEW t, t = apply_affiliate_commission(s, fee)
  PROVE  /\ Only(s.row, t.row, {"commission"})
         /\ t.row.commission <= fee
         /\ Money(t) = Money(s)
<1> DEFINE amount == RoundDiv(fee * CommissionPercent, 100)
           r == [s.row EXCEPT !.commission = amount]
           w == [s.wallet EXCEPT !["referrer"] = @ + amount]
<1>0. s.row \in Row /\ s \in TxType
  BY DEF Sound, TxType
<1>1. amount \in 0..fee /\ amount \in Nat
  <2>1. amount \in 0..fee
    BY CommissionWithin
  <2> HIDE DEF amount
  <2> QED
    BY <2>1
<1>2. CASE t = s
  BY <1>2 DEF Only
<1>3. CASE t # s
  <2>1. t = [row |-> r, wallet |-> w, fund |-> s.fund - amount]
    <3>1. t = [s EXCEPT !.row.commission = amount, !.fund = @ - amount,
                        !.wallet["referrer"] = @ + amount]
      BY <1>3 DEF apply_affiliate_commission
    <3> HIDE DEF amount
    <3> QED
      BY <1>0, <3>1 DEF TxType
  <2> HIDE DEF amount
  <2>2. /\ Only(s.row, r, {"commission"}) /\ r.commission = amount
        /\ Left(r) = Left(s.row) /\ TookBack(r) = TookBack(s.row)
    BY <1>0 DEF Row, Only, NoRow, Left, TookBack
  <2>3. PaidIn(r) = PaidIn(s.row) + amount
    BY <1>0, <1>1 DEF Row, PaidIn
  <2>4. Cash(w) = Cash(s.wallet) + amount
    BY <1>0, <1>1 DEF TxType, Parties, Cash
  <2>5. /\ Cash(s.wallet) \in Nat /\ Left(s.row) \in Int /\ PaidIn(s.row) \in Nat
        /\ TookBack(s.row) \in Nat
    BY <1>0, Cashes, MoneyType DEF TxType
  <2>6. t.row = r /\ t.wallet = w
    BY <2>1
  <2> HIDE DEF r, w
  <2>7. Money(t) = Money(s)
    BY <1>1, <2>2, <2>3, <2>4, <2>5, <2>6 DEF Money
  <2> QED
    BY <1>1, <2>2, <2>6, <2>7
<1> QED
  BY <1>2, <1>3

(* Cashback is paid for an order of which nothing was refunded. *)
LEMMA CashbackBooks ==
  ASSUME NEW s, Sound(s), s.row.cashback = 0, NEW t, t = apply_buyer_cashback(s)
  PROVE  /\ Only(s.row, t.row, {"cashback"})
         /\ t.row.cashback > 0 => t.row.refunded = 0
         /\ Money(t) = Money(s)
<1> DEFINE amount == (s.row.total * CashbackPercent) \div 100
           r == [s.row EXCEPT !.cashback = amount]
           w == [s.wallet EXCEPT !["buyer"] = @ + amount]
<1>0. s.row \in Row /\ s \in TxType /\ s.row.refunded \in Nat
  BY DEF Sound, TxType, Row
<1>1. amount \in Nat
  <2>1. s.row.total \in Nat
    BY <1>0 DEF Row
  <2> QED
    BY <2>1, FeeWithin DEF PlatformFee
<1>2. CASE t = s
  BY <1>2 DEF Only
<1>3. CASE t # s
  <2>1. t = [row |-> r, wallet |-> w, fund |-> s.fund] /\ ~(s.row.refunded > 0)
    BY <1>0, <1>3 DEF apply_buyer_cashback, TxType
  <2> HIDE DEF amount
  <2>2. /\ Only(s.row, r, {"cashback"}) /\ r.refunded = s.row.refunded
        /\ Left(r) = Left(s.row) /\ TookBack(r) = TookBack(s.row)
    BY <1>0 DEF Row, Only, NoRow, Left, TookBack
  <2>3. PaidIn(r) = PaidIn(s.row) + amount
    BY <1>0, <1>1 DEF Row, PaidIn
  <2>4. Cash(w) = Cash(s.wallet) + amount
    BY <1>0, <1>1 DEF TxType, Parties, Cash
  <2>5. /\ Cash(s.wallet) \in Nat /\ Left(s.row) \in Int /\ PaidIn(s.row) \in Nat
        /\ TookBack(s.row) \in Nat
    BY <1>0, Cashes, MoneyType DEF TxType
  <2>6. t.row = r /\ t.wallet = w
    BY <2>1
  <2> HIDE DEF r, w
  <2>7. Money(t) = Money(s)
    BY <1>1, <2>2, <2>3, <2>4, <2>5, <2>6 DEF Money
  <2> QED
    BY <1>0, <2>1, <2>2, <2>6, <2>7
<1> QED
  BY <1>2, <1>3

(* An order on which no reward stands has none to take back. *)
LEMMA NothingClawed ==
  ASSUME NEW s, Unrewarded(s.row)
  PROVE  Clawbacks(s) = s
  BY DEF Unrewarded, Clawbacks, clawback_commission_for_order, clawback_buyer_cashback

EndFields == {"status", "open", "release", "fee", "subsidy", "commission", "cashback"}

(* t is the transaction s with the rest of the order divided. *)
Ends(s, t) ==
  /\ Only(s.row, t.row, EndFields)
  /\ Divided(t.row) /\ t.row.subsidy <= t.row.discount
  /\ Money(t) = Money(s)

(* A settlement divides the order. *)
LEMMA SettleBooks ==
  ASSUME NEW s, Sound(s), Unpaid(s.row), Unrewarded(s.row), NEW pct \in FeePercents
  PROVE  Ends(s, Settle(s, pct))
<1> DEFINE left == Remaining(s.row)
           fee == PlatformFee(left, pct)
           paid == IF left > 0 THEN release_escrow(s, left, fee) ELSE s
           done == SetStatus(paid, "completed")
           shared == apply_affiliate_commission(done, fee)
           t == apply_buyer_cashback(shared)
<1>0. s.row \in Row
  BY DEF Sound, TxType
<1>1. left \in Nat
  BY DEF Sound, TxType, Row, Within, Unpaid, Remaining
<1>2. fee \in 0..left /\ fee \in Nat
  <2>1. pct \in 0..100
    OBVIOUS
  <2> HIDE DEF left
  <2>2. fee \in 0..left
    BY <1>1, <2>1, FeeWithin
  <2> QED
    BY <1>1, <2>2
<1>a. left = 0 => fee = 0
  BY <1>2
<1> HIDE DEF fee
<1>3. Sound(paid)
  BY <1>1, <1>2, ReleaseSound
<1>4. /\ Only(s.row, paid.row, {"release", "fee", "subsidy"})
      /\ paid.row.fee = fee /\ Left(paid.row) = 0 /\ paid.row.subsidy <= paid.row.discount
      /\ Money(paid) = Money(s)
  <2>1. CASE left > 0
    <3>1. paid = release_escrow(s, left, fee)
      BY <2>1
    <3> HIDE DEF paid
    <3> QED
      BY <1>2, <2>1, <3>1, ReleaseBooks DEF Unrewarded
  <2>2. CASE ~(left > 0)
    <3>1. paid = s /\ left = 0 /\ fee = 0
      BY <1>1, <1>a, <2>2
    <3>2. Left(s.row) = 0 /\ s.row.subsidy <= s.row.discount
      BY <1>0, <3>1 DEF Left, Unpaid, Unrewarded, Remaining, Row
    <3> HIDE DEF paid
    <3> QED
      BY <3>1, <3>2 DEF Only, Unpaid
  <2> QED
    BY <2>1, <2>2
<1> HIDE DEF paid, left
<1>5. /\ Sound(done) /\ Flags(paid, done, {"status"}) /\ done.row.status = "completed"
  <2>1. "completed" \in OrderStatus
    BY DEF OrderStatus, ClosedStatuses
  <2> QED
    BY <1>3, <2>1, PlainSound, PlainBooks
<1> HIDE DEF done
<1>6. done.row.commission = 0 /\ done.row.cashback = 0
  BY <1>4, <1>5 DEF Flags, Only, NoRow, Unrewarded
<1>7. /\ Sound(shared) /\ Only(done.row, shared.row, {"commission"})
      /\ shared.row.commission <= fee /\ Money(shared) = Money(done)
  BY <1>2, <1>5, <1>6, CommissionSound, CommissionBooks DEF Rewarded
<1> HIDE DEF shared
<1>8. shared.row.cashback = 0
  BY <1>6, <1>7 DEF Only, NoRow
<1>9. /\ Only(shared.row, t.row, {"cashback"})
      /\ t.row.cashback > 0 => t.row.refunded = 0
      /\ Money(t) = Money(shared)
  BY <1>7, <1>8, CashbackBooks
<1> HIDE DEF t
<1>10. Settle(s, pct) = t
  BY DEF Settle, t, shared, done, paid, fee, left
<1>11. Only(paid.row, t.row, {"status", "commission", "cashback"})
  <2>1. Only(paid.row, shared.row, {"status", "commission"})
    BY <1>5, <1>7, OnlyTwice DEF Flags
  <2> QED
    BY <1>9, <2>1, OnlyTwice
<1>12. Only(s.row, t.row, EndFields)
  BY <1>4, <1>11 DEF Only, EndFields
<1>13. /\ t.row.fee = fee /\ t.row.subsidy <= t.row.discount /\ Left(t.row) = 0
  BY <1>4, <1>11 DEF Only, NoRow, Left
<1>14. t.row.status = "completed" /\ t.row.commission <= fee
  <2>1. t.row.status = shared.row.status /\ t.row.commission = shared.row.commission
    BY <1>9 DEF Only, NoRow
  <2>2. shared.row.status = done.row.status
    BY <1>7 DEF Only, NoRow
  <2> QED
    BY <1>5, <1>7, <2>1, <2>2
<1>15. Money(t) = Money(s)
  BY <1>4, <1>5, <1>7, <1>9 DEF Flags
<1>16. Ends(s, t)
  BY <1>9, <1>12, <1>13, <1>14, <1>15 DEF Ends, Divided
<1> QED
  BY <1>10, <1>16

(* So does the end of a case, which may have refunded everything. *)
LEMMA FinalizeBooks ==
  ASSUME NEW s, Sound(s), Unpaid(s.row), Unrewarded(s.row), NEW pct \in FeePercents
  PROVE  Ends(s, finalize_dispute(s, pct))
<1> DEFINE c == CloseCase(s)
           d == SetStatus(c, "refunded")
           t == finalize_dispute(s, pct)
<1>0. s.row \in Row
  BY DEF Sound, TxType
<1>1. Sound(c) /\ Unpaid(c.row) /\ Flags(s, c, {"open"})
  BY PlainSound, PlainBooks DEF SamePay, Unpaid
<1> HIDE DEF c
<1>2. Unrewarded(c.row)
  BY <1>1 DEF Flags, Only, NoRow, Unrewarded
<1>3. CASE s.row.refunded = s.row.total
  <2>1. Flags(c, d, {"status"}) /\ d.row.status = "refunded"
    <3>1. "refunded" \in OrderStatus
      BY DEF OrderStatus, ClosedStatuses
    <3> QED
      BY <1>1, <3>1, PlainSound, PlainBooks
  <2>2. t = Clawbacks(d)
    BY <1>3 DEF finalize_dispute, d, c
  <2> HIDE DEF t, d
  <2>3. Unrewarded(d.row)
    BY <1>2, <2>1 DEF Flags, Only, NoRow, Unrewarded
  <2>4. t = d
    BY <2>2, <2>3, NothingClawed
  <2>5. Only(s.row, d.row, EndFields)
    BY <1>1, <2>1 DEF Flags, Only, EndFields
  <2>6. /\ d.row.refunded = s.row.refunded /\ d.row.total = s.row.total
        /\ d.row.discount = s.row.discount /\ d.row.fee = s.row.fee
    BY <1>1, <2>1 DEF Flags, Only, NoRow
  <2>7. /\ d.row.refunded = d.row.total /\ d.row.subsidy <= d.row.discount
        /\ d.row.commission <= d.row.fee /\ ~(d.row.cashback > 0)
    BY <1>0, <1>3, <2>3, <2>6 DEF Unrewarded, Row
  <2> QED
    BY <1>1, <2>1, <2>3, <2>4, <2>5, <2>7 DEF Ends, Divided, Flags, t
<1>4. CASE s.row.refunded # s.row.total
  <2>1. t = Settle(c, pct)
    BY <1>4 DEF finalize_dispute, c
  <2> HIDE DEF t
  <2>2. Ends(c, t)
    BY <1>1, <1>2, <2>1, SettleBooks
  <2>3. Only(s.row, t.row, EndFields)
    BY <1>1, <2>2 DEF Flags, Ends, Only, EndFields
  <2> QED
    BY <1>1, <2>2, <2>3 DEF Ends, Flags, t
<1> QED
  BY <1>3, <1>4

-----------------------------------------------------------------------------
(* What a step does to an order *)

(* A new order holds its whole price, or has bounced. *)
Opens(q) ==
  /\ q.total \in Costs
  /\ (q.status \in OpenStatuses /\ q.refunded = 0) \/ q.status = "cancelled"

GoesOn(r, q) ==
  q.status # "none" /\ q.kind = r.kind /\ q.total = r.total /\ r.refunded <= q.refunded

(* Only remedies of the case refund while it is open. *)
CaseOnly(r, q) ==
  /\ q.case = r.case
  /\ \A k \in RefundKeys : q.refunds[k] # r.refunds[k] => k \in LineKeys \X {r.case}

Follows(r, q) ==
  /\ r.status = "none" => Opens(q)
  /\ r.status # "none" => GoesOn(r, q)
  /\ r.status \in ClosedStatuses => Only(r, q, {"task"})
  /\ r.open /\ q.open => CaseOnly(r, q)

(* The units of made-to-order stock that an order holds or has used. *)
Used(r) == IF r.kind = "manual" /\ r.clock # "unset" THEN 1 ELSE 0
Units(r) == r.held + Used(r)

(* Every step commits a transaction on one order, or leaves the books.     *)
Transacts(o, s) ==
  /\ Commit(o, s)
  /\ Books(s.row) /\ Follows(order[o], s.row)
  /\ Money(s) = Money(Tx(o))
  /\ stock' + Units(s.row) = stock + Units(order[o])

StepOn(o) ==
  /\ (\E s : Transacts(o, s)) \/ UNCHANGED <<order, wallet, fund, stock>>
  /\ \A p \in provisioning' \ provisioning : order'[p].kind # "manual"

StayFields == {"status", "refunded", "refunds", "late", "clock", "extensions", "held",
               "open", "case", "answered", "remedy", "task"}

(* An open order stays open. *)
LEMMA StaysOpen ==
  ASSUME NEW r, Books(r), r.status \in OpenStatuses,
         NEW q, Only(r, q, StayFields), q.status \in OpenStatuses,
         Booked(q), Free(q), Keeping(q), r.refunded <= q.refunded,
         q.held = r.held \/ q.held = 0,
         r.open /\ q.open => CaseOnly(r, q)
  PROVE  Books(q) /\ Follows(r, q)
<1>1. /\ q.hold = r.hold /\ q.total = r.total /\ q.subsidy = r.subsidy
      /\ q.discount = r.discount /\ q.commissionBack = r.commissionBack
      /\ q.cashbackBack = r.cashbackBack /\ q.kind = r.kind
      /\ q.commission = r.commission /\ q.cashback = r.cashback
  BY DEF Only, NoRow, StayFields
<1>2. q.commissionClawed = r.commissionClawed /\ q.cashbackClawed = r.cashbackClawed
  BY DEF Only, NoRow, StayFields
<1>3. Unclawed(q)
  BY <1>1, <1>2, Zenon DEF Unclawed, Books, Core
<1>4. r.kind # "manual" => q.held = 0
  BY DEF Books, Core
<1>5. Core(q)
  BY <1>1, <1>3, <1>4 DEF Books, Core
<1>6. Standing(q)
  BY <1>1 DEF Standing, Unrewarded, Books
<1>7. /\ r.status # "none" /\ r.status \notin ClosedStatuses
      /\ q.status # "none" /\ q.status \notin ClosedStatuses
  BY DEF OpenStatuses, ClosedStatuses
<1> QED
  BY <1>1, <1>5, <1>6, <1>7 DEF Books, Follows, GoesOn

(* An open order is closed. *)
LEMMA IsClosed ==
  ASSUME NEW r, Books(r), r.status \in OpenStatuses,
         NEW q, Only(r, q, StayFields \cup EndFields), q.status \in ClosedStatuses, ~q.open,
         Booked(q), Divided(q), q.subsidy <= q.discount, r.refunded <= q.refunded,
         q.held = r.held \/ q.held = 0
  PROVE  Books(q) /\ Follows(r, q)
<1>1. /\ q.hold = r.hold /\ q.total = r.total
      /\ q.discount = r.discount /\ q.commissionBack = r.commissionBack
      /\ q.cashbackBack = r.cashbackBack /\ q.kind = r.kind
  BY DEF Only, NoRow, StayFields, EndFields
<1>2. q.commissionClawed = r.commissionClawed /\ q.cashbackClawed = r.cashbackClawed
  BY DEF Only, NoRow, StayFields, EndFields
<1>3. Unclawed(q)
  BY <1>1, <1>2, Zenon DEF Unclawed, Books, Core
<1>4. r.kind # "manual" => q.held = 0
  BY DEF Books, Core
<1>5. Core(q)
  BY <1>1, <1>3, <1>4 DEF Books, Core
<1>7. /\ r.status # "none" /\ r.status \notin ClosedStatuses
      /\ q.status # "none" /\ q.status \notin OpenStatuses
  BY DEF OpenStatuses, ClosedStatuses
<1>8. Follows(r, q)
  BY <1>1, <1>7, Zenon DEF Follows, GoesOn
<1> QED
  BY <1>5, <1>7, <1>8 DEF Books

(* A task of an order changes, whatever the order's status. *)
LEMMA TaskOnly ==
  ASSUME NEW r, Books(r), r.refunded \in Nat, r.status # "none", NEW q, Only(r, q, {"task"})
  PROVE  Books(q) /\ Follows(r, q)
<1>1. \A f \in DOMAIN NoRow : f # "task" => q[f] = r[f]
  BY DEF Only
<1>2. /\ q.kind = r.kind /\ q.status = r.status /\ q.total = r.total
      /\ q.discount = r.discount /\ q.refunded = r.refunded /\ q.hold = r.hold
      /\ q.release = r.release /\ q.fee = r.fee /\ q.subsidy = r.subsidy
      /\ q.refunds = r.refunds /\ q.cashback = r.cashback /\ q.cashbackBack = r.cashbackBack
      /\ q.commission = r.commission /\ q.commissionBack = r.commissionBack
      /\ q.clock = r.clock /\ q.held = r.held /\ q.case = r.case
  BY <1>1 DEF NoRow
<1>3. q.commissionClawed = r.commissionClawed /\ q.cashbackClawed = r.cashbackClawed
  BY <1>1 DEF NoRow
<1>4. Unclawed(q)
  BY <1>2, <1>3, Zenon DEF Unclawed, Books, Core
<1>5. Core(q)
  BY <1>2, <1>4 DEF Books, Core, Booked
<1>6. Standing(r) => Standing(q)
  BY <1>2 DEF Standing, Unrewarded, Free, Keeping
<1>7. Divided(r) => Divided(q)
  BY <1>2 DEF Divided, Unrewarded, Left
<1>8. Books(q)
  BY <1>2, <1>5, <1>6, <1>7 DEF Books
<1>9. Follows(r, q)
  BY <1>2 DEF Follows, GoesOn, CaseOnly
<1> QED
  BY <1>8, <1>9

-----------------------------------------------------------------------------
(* Checkout and fulfilment *)

(* What a successful or a failed provision does to an order. *)
Provisioned(s, t) ==
  /\ Only(s.row, t.row, {"status", "clock", "refunded", "refunds"})
  /\ t.row.status = "delivered" /\ t.row.clock = "running"
  /\ s.row.refunded <= t.row.refunded
  /\ Booked(t.row) /\ Free(t.row) /\ Money(t) = Money(s)

Bounced(s, t) ==
  /\ Only(s.row, t.row, {"status", "refunded", "refunds"})
  /\ t.row.status = "cancelled"
  /\ s.row.refunded <= t.row.refunded
  /\ Booked(t.row) /\ Divided(t.row) /\ Money(t) = Money(s)

(* No refund that goes with a delivery uses a reference kept free. *)
LEMMA KeepsFree ==
  ASSUME NEW s, NEW t, NEW key \in RefundKeys, NEW amount, Refunds(s, t, key, amount),
         Free(s.row), key # Whole, key # AdminRefund
  PROVE  Free(t.row)
<1>1. t.row.kind = s.row.kind
  BY DEF Refunds, Only, NoRow
<1>2. t.row.refunds[Whole] = s.row.refunds[Whole] /\ t.row.refunds[AdminRefund] = s.row.refunds[AdminRefund]
  BY KeysOfRow DEF Refunds
<1> QED
  BY <1>1, <1>2 DEF Free

(* A delivery, in full. *)
LEMMA DeliveredInFull ==
  ASSUME NEW s, Sound(s), Booked(s.row), Free(s.row),
         NEW key, NEW t, t = provision_delivered(s, key, 0)
  PROVE  Provisioned(s, t) /\ t.row.refunded = s.row.refunded
<1> DEFINE d == SetStatus(s, "delivered")
<1>1. "delivered" \in OrderStatus
  BY DEF OrderStatus, OpenStatuses
<1>2. Sound(d) /\ d.row.status = "delivered" /\ Flags(s, d, {"status"})
  BY <1>1, PlainSound, PlainBooks
<1>3. t = StartEscrow(d)
  BY DEF provision_delivered
<1> HIDE DEF d
<1>4. Flags(d, t, {"clock"}) /\ t.row.clock = "running"
  BY <1>2, <1>3, PlainBooks
<1>5. Only(s.row, t.row, {"status", "clock"}) /\ Money(t) = Money(s)
  BY <1>2, <1>4, OnlyTwice DEF Flags
<1>6. t.row.status = "delivered"
  BY <1>2, <1>4 DEF Flags, Only, NoRow
<1>7. /\ t.row.refunded = s.row.refunded /\ t.row.refunds = s.row.refunds
      /\ t.row.kind = s.row.kind /\ s.row.refunded \in Nat
  BY <1>5 DEF Only, NoRow, Sound, TxType, Row
<1> QED
  BY <1>4, <1>5, <1>6, <1>7 DEF Provisioned, Only, Booked, Free

(* A delivery of which a part is refunded. *)
LEMMA DeliveredInPart ==
  ASSUME NEW s, Sound(s), Unpaid(s.row), Booked(s.row), Free(s.row),
         NEW key \in {Short, ShortDelivery}, NEW short \in Nat, short > 0,
         CanRefund(s, short), NEW t, t = provision_delivered(s, key, short)
  PROVE  Provisioned(s, t)
<1> DEFINE d == SetStatus(s, "delivered")
           p == refund_escrow(d, key, short)
<1>1. "delivered" \in OrderStatus
  BY DEF OrderStatus, OpenStatuses
<1>2. /\ Sound(d) /\ d.row.status = "delivered" /\ Flags(s, d, {"status"})
      /\ SamePay(s.row, d.row)
  BY <1>1, PlainSound, PlainBooks
<1>3. t = StartEscrow(p)
  BY DEF provision_delivered
<1> HIDE DEF d
<1>4. key \in RefundKeys /\ key # Whole /\ key # AdminRefund
  <2>1. key \in RefundKeys
    BY KeysOfRow
  <2>a. Short[1] = "-short" /\ ShortDelivery[1] = ":short-delivery"
    BY DEF Short, ShortDelivery
  <2>2. key[1] # "" /\ key[1] # ":admin-refund"
    BY <2>a
  <2>3. Whole[1] = "" /\ AdminRefund[1] = ":admin-refund"
    BY DEF Whole, AdminRefund
  <2> QED
    BY <2>1, <2>2, <2>3
<1>5. Refunds(d, p, key, short)
  BY <1>2, <1>4, RefundBooks
<1>6. Unpaid(d.row) /\ CanRefund(d, short)
  BY <1>2 DEF SamePay, Unpaid, CanRefund, Remaining
<1>7. Sound(p)
  BY <1>2, <1>4, <1>6, RefundSound
<1> HIDE DEF p
<1>8. Flags(p, t, {"clock"}) /\ t.row.clock = "running"
  BY <1>3, <1>7, PlainBooks
<1>9. /\ d.row.refunds = s.row.refunds /\ d.row.refunded = s.row.refunded
      /\ d.row.kind = s.row.kind
  BY <1>2 DEF Flags, Only, NoRow
<1>10. Booked(p.row) /\ Free(p.row) /\ s.row.refunded <= p.row.refunded
  <2>1. Booked(d.row) /\ Free(d.row)
    BY <1>9 DEF Booked, Free
  <2> QED
    BY <1>4, <1>5, <1>9, <2>1, KeepsFree DEF Refunds
<1>11. /\ t.row.refunds = p.row.refunds /\ t.row.refunded = p.row.refunded
       /\ t.row.kind = p.row.kind /\ t.row.status = p.row.status
  BY <1>8 DEF Flags, Only, NoRow
<1>12. p.row.status = "delivered"
  BY <1>2, <1>5 DEF Refunds, Only, NoRow
<1>13. Only(s.row, t.row, {"status", "clock", "refunded", "refunds"})
  <2>1. Only(s.row, p.row, {"status", "refunded", "refunds"})
    BY <1>2, <1>5, OnlyTwice DEF Flags, Refunds
  <2> QED
    BY <1>8, <2>1, OnlyTwice DEF Flags
<1>14. Money(t) = Money(s)
  BY <1>2, <1>5, <1>8 DEF Flags, Refunds
<1> QED
  BY <1>8, <1>10, <1>11, <1>12, <1>13, <1>14 DEF Provisioned, Booked, Free

(* A failure gives the whole price back. *)
LEMMA FailedBooks ==
  ASSUME NEW s, Sound(s), Unpaid(s.row), Unrewarded(s.row), Booked(s.row), Free(s.row),
         CanRefund(s, s.row.total), NEW t, t = provision_failed(s)
  PROVE  Bounced(s, t)
<1> DEFINE p == refund_escrow(s, Whole, s.row.total)
<1>0. s.row.total \in Nat /\ s.row.refunded \in Nat /\ s.row.discount \in Nat
  BY DEF Sound, TxType, Row
<1>1. Refunds(s, p, Whole, s.row.total)
  BY <1>0, KeysOfRow, RefundBooks
<1>2. Sound(p)
  BY <1>0, KeysOfRow, RefundSound
<1>3. t = SetStatus(p, "cancelled")
  BY DEF provision_failed
<1> HIDE DEF p
<1>4. Flags(p, t, {"status"}) /\ t.row.status = "cancelled"
  <2>1. "cancelled" \in OrderStatus
    BY DEF OrderStatus, ClosedStatuses
  <2>2. SetStatus(p, "cancelled").row.status = "cancelled"
    BY <1>2, <2>1, PlainSound
  <2>3. Flags(p, SetStatus(p, "cancelled"), {"status"})
    BY <1>2, <2>1, PlainBooks
  <2> QED
    BY <1>3, <2>2, <2>3
<1>5. Only(s.row, t.row, {"status", "refunded", "refunds"}) /\ Money(t) = Money(s)
  BY <1>1, <1>4, OnlyTwice DEF Flags, Refunds
<1>6. t.row.refunds = p.row.refunds /\ t.row.refunded = p.row.refunded
  BY <1>4 DEF Flags, Only, NoRow
<1>7. Booked(t.row) /\ s.row.refunded <= t.row.refunded
  BY <1>1, <1>6 DEF Booked, Refunds
<1>8. Unrewarded(t.row) /\ t.row.fee = 0 /\ t.row.total = s.row.total /\ t.row.kind = s.row.kind
  BY <1>5 DEF Only, NoRow, Unrewarded, Unpaid
<1>9. s.row.refunded = 0
  BY <1>0 DEF CanRefund, Remaining
<1>10. s.row.kind # "task" => t.row.refunded = t.row.total
  BY <1>0, <1>1, <1>6, <1>8, <1>9 DEF Refunds, Free
<1>11. Divided(t.row)
  BY <1>4, <1>8, <1>10 DEF Divided, Unrewarded
<1> QED
  BY <1>4, <1>5, <1>7, <1>11 DEF Bounced

(* The row that a checkout builds before the hold. *)
Built(r, k, st, total) ==
  /\ r \in Row
  /\ Only(NoRow, r, {"kind", "status", "total", "discount", "held"})
  /\ r.kind = k /\ r.status = st /\ r.total = total

LEMMA BuiltOrder ==
  ASSUME NEW k \in AllKinds, NEW st \in OpenStatuses, NEW price \in Prices,
         NEW discount \in Discounts, price > discount
  PROVE  /\ Built(NewOrder(k, price, discount, st), k, st, price - discount)
         /\ NewOrder(k, price, discount, st).held = 0
         /\ Built([NewOrder(k, price, discount, st) EXCEPT !.held = 1], k, st, price - discount)
         /\ [NewOrder(k, price, discount, st) EXCEPT !.held = 1].held = 1
<1> DEFINE r == NewOrder(k, price, discount, st)
           q == [r EXCEPT !.held = 1]
<1>1. r \in Row /\ q \in Row
  BY NewOrderFresh DEF Fresh
<1>2. /\ Only(NoRow, r, {"kind", "status", "total", "discount", "held"})
      /\ r.kind = k /\ r.status = st /\ r.total = price - discount /\ r.held = 0
  BY DEF NewOrder, NoRow, Only
<1> HIDE DEF r
<1>3. /\ Only(NoRow, q, {"kind", "status", "total", "discount", "held"})
      /\ q.kind = k /\ q.status = st /\ q.total = price - discount /\ q.held = 1
  <2>1. \A f \in DOMAIN NoRow : q[f] = IF f = "held" THEN 1 ELSE r[f]
    BY <1>1 DEF NoRow, Row
  <2>2. /\ Only(NoRow, q, {"kind", "status", "total", "discount", "held"})
        /\ q.kind = r.kind /\ q.status = r.status /\ q.total = r.total /\ q.held = 1
    <3> HIDE DEF q
    <3>1. Only(NoRow, q, {"kind", "status", "total", "discount", "held"})
      BY <1>2, <2>1 DEF Only
    <3>2. q.kind = r.kind /\ q.status = r.status /\ q.total = r.total /\ q.held = 1
      BY <2>1 DEF NoRow
    <3> QED
      BY <3>1, <3>2
  <2> HIDE DEF q
  <2> QED
    BY <1>2, <2>2
<1> HIDE DEF q
<1> QED
  BY <1>1, <1>2, <1>3 DEF Built, q, r

(* No row has no ledger rows. *)
LEMMA EmptyBooks ==
  /\ Booked(NoRow) /\ Unclawed(NoRow) /\ Unrewarded(NoRow) /\ Free(NoRow)
  /\ Left(NoRow) = 0 /\ PaidIn(NoRow) = 0 /\ TookBack(NoRow) = 0 /\ Units(NoRow) = 0
<1>1. NoRow.refunds = [k \in RefundKeys |-> 0] /\ NoRow.refunded = 0
  BY DEF NoRow
<1>2. \A k \in RefundKeys : NoRow.refunds[k] = 0
  BY <1>1
<1>3. SumFunctionOnSet(NoRow.refunds, RefundKeys) = 0
  BY <1>2, KeysFinite, SumZero
<1>4. Booked(NoRow)
  BY <1>1, <1>3 DEF Booked
<1>5. Unclawed(NoRow)
  BY DEF NoRow, Unclawed
<1>6. Free(NoRow)
  BY <1>2, KeysOfRow DEF Free
<1> QED
  BY <1>4, <1>5, <1>6
     DEF NoRow, Unrewarded, Left, PaidIn, TookBack, Units, Used

(* The hold takes the price of the order, and no more, from its buyer. *)
Placed(o, s, k, st, total) ==
  /\ Core(s.row) /\ Unrewarded(s.row) /\ Free(s.row)
  /\ s.row.kind = k /\ s.row.status = st /\ s.row.clock = "unset"
  /\ s.row.total = total /\ s.row.refunded = 0
  /\ Money(s) = Money(Tx(o))

LEMMA HoldBooks ==
  ASSUME IInv, NEW o \in Orders, order[o] = NoRow, NEW k \in Kinds, NEW st, NEW total \in Nat,
         NEW r, Built(r, k, st, total), k # "manual" => r.held = 0, k \in AllKinds
  PROVE  Placed(o, deduct_credit(o, r), k, st, total) /\ deduct_credit(o, r).row.held = r.held
<1> DEFINE q == [r EXCEPT !.hold = r.total]
           w == [wallet EXCEPT !["buyer"] = @ - r.total]
           s == deduct_credit(o, r)
<1>1. /\ Only(NoRow, q, {"kind", "status", "total", "discount", "held", "hold"})
      /\ q.kind = k /\ q.status = st /\ q.total = total /\ q.hold = total
      /\ q.held = r.held /\ q.discount = r.discount
  BY DEF Built, Only, NoRow, Row
<1>2. s.row = q /\ s.wallet = w
  BY DEF deduct_credit
<1>3. r.discount \in Nat
  BY DEF Built, Row
<1>4. Cash(w) = Cash(wallet) - total /\ Cash(wallet) \in Nat
  BY Cashes DEF IInv, TypeOK, Parties, Cash, Built
<1> HIDE DEF s, q, w
<1>5. /\ q.refunds = NoRow.refunds /\ q.refunded = NoRow.refunded
      /\ q.subsidy = 0 /\ q.commission = 0 /\ q.cashback = 0
      /\ q.commissionBack = 0 /\ q.cashbackBack = 0
      /\ q.release = 0 /\ q.fee = 0 /\ q.clock = "unset"
      /\ NoRow.refunded = 0
  BY <1>1 DEF Only, NoRow
<1>6. ~q.commissionClawed /\ ~q.cashbackClawed
  BY <1>1 DEF Only, NoRow
<1>7. Booked(q) /\ Free(q) /\ Unrewarded(q)
  <2>1. NoRow.refunds[Whole] = 0 /\ NoRow.refunds[AdminRefund] = 0
    BY KeysOfRow DEF NoRow
  <2> QED
    BY <1>5, <2>1, EmptyBooks DEF Booked, Free, Unrewarded
<1>8. Core(q)
  BY <1>1, <1>3, <1>5, <1>6, <1>7 DEF Core, Unclawed
<1>9. Left(q) = total /\ PaidIn(q) = 0 /\ TookBack(q) = 0
  BY <1>1, <1>5 DEF Left, PaidIn, TookBack
<1>10. Money(s) = Money(Tx(o))
  BY <1>2, <1>4, <1>9, EmptyBooks DEF Money, Tx
<1> QED
  BY <1>1, <1>2, <1>5, <1>7, <1>8, <1>10 DEF Placed, s

(* A placed order, delivered or bounced in the same transaction.           *)
LEMMA BeginsBooks ==
  ASSUME NEW o \in Orders, order[o] = NoRow, NEW k, NEW st \in OpenStatuses,
         NEW total \in Costs, NEW s, Placed(o, s, k, st, total),
         NEW t, Only(s.row, t.row, {"status", "clock", "refunded", "refunds"}),
         Booked(t.row), Money(t) = Money(s),
         \/ t.row.status \in OpenStatuses /\ Free(t.row) /\ Keeping(t.row) /\ t.row.refunded = 0
         \/ t.row.status = "cancelled" /\ Divided(t.row)
  PROVE  Books(t.row) /\ Follows(order[o], t.row) /\ Money(t) = Money(Tx(o))
<1> DEFINE r == s.row
           q == t.row
<1>1. /\ q.hold = r.hold /\ q.total = r.total /\ q.subsidy = r.subsidy
      /\ q.discount = r.discount /\ q.commissionBack = r.commissionBack
      /\ q.cashbackBack = r.cashbackBack /\ q.kind = r.kind /\ q.held = r.held
      /\ q.commission = r.commission /\ q.cashback = r.cashback
  BY DEF Only, NoRow
<1>2. q.commissionClawed = r.commissionClawed /\ q.cashbackClawed = r.cashbackClawed
  BY DEF Only, NoRow
<1>3. Unclawed(q)
  BY <1>1, <1>2, Zenon DEF Unclawed, Placed, Core
<1>4. Core(q)
  BY <1>1, <1>3 DEF Placed, Core
<1>5. Unrewarded(q)
  BY <1>1 DEF Placed, Unrewarded
<1>6. Books(q)
  <2>1. CASE q.status \in OpenStatuses /\ Free(q) /\ Keeping(q)
    BY <1>4, <1>5, <2>1 DEF Books, Standing, OpenStatuses, ClosedStatuses
  <2>2. CASE q.status = "cancelled" /\ Divided(q)
    BY <1>4, <2>2 DEF Books, OpenStatuses, ClosedStatuses
  <2> QED
    BY <2>1, <2>2
<1>7. Opens(q)
  BY <1>1 DEF Placed, Opens
<1>8. NoRow.status = "none" /\ ~NoRow.open /\ NoRow.status \notin ClosedStatuses
  BY DEF NoRow, ClosedStatuses
<1>9. Follows(order[o], q)
  BY <1>7, <1>8 DEF Follows
<1> QED
  BY <1>6, <1>9 DEF Placed

(* Every checkout begins the books of an order. *)
LEMMA CheckoutBooks == ASSUME IInv, BooksInv, NEW o \in Orders, Checkout(o) PROVE StepOn(o)
<1> PICK price \in Prices, discount \in Discounts :
      \/ create_order_instant(o, price, discount)
      \/ create_order_manual(o, price, discount)
      \/ create_order_inline(o, price, discount)
      \/ create_order_task(o, price, discount)
      \/ \E k \in {"network", "catalog"} : create_order_network(o, k, price, discount)
  BY DEF Checkout
<1> DEFINE total == price - discount
           R(k, st) == NewOrder(k, price, discount, st)
           S(k, st) == deduct_credit(o, R(k, st))
<1>0. /\ order[o].status = "none" /\ price > discount /\ wallet["buyer"] >= total
  BY DEF create_order_instant, create_order_manual, create_order_inline,
         create_order_task, create_order_network, CanPlace
<1>1. order[o] = NoRow /\ Units(order[o]) = 0 /\ stock \in Nat
  BY <1>0, EmptyBooks DEF BooksInv, Books, IInv, TypeOK
<1>2. total \in Nat /\ total > 0 /\ total \in Costs
  <2>1. price \in Nat /\ discount \in Nat
    BY SMT
  <2>2. total \in Nat /\ total # 0
    BY <1>0, <2>1
  <2>3. total \in {p - d : p \in Prices, d \in Discounts}
    OBVIOUS
  <2> HIDE DEF total
  <2> QED
    BY <2>2, <2>3 DEF Costs
<1>3. ASSUME NEW k \in AllKinds, k \in Kinds, k # "manual", NEW st \in OpenStatuses
      PROVE  /\ Placed(o, S(k, st), k, st, total) /\ S(k, st).row.held = 0
             /\ Sound(S(k, st)) /\ Unpaid(S(k, st).row)
  <2>1. Built(R(k, st), k, st, total) /\ R(k, st).held = 0
    BY <1>0, BuiltOrder
  <2>2. Fresh(R(k, st), st, total)
    BY <1>0, NewOrderFresh
  <2> HIDE DEF R, total
  <2> QED
    BY <1>0, <1>1, <1>2, <1>3, <2>1, <2>2, HoldBooks, HoldSound
<1>4. ASSUME NEW k \in AllKinds, k # "manual", NEW t, Commit(o, t), t.row.kind = k,
             t.row.held = 0, UNCHANGED <<stock, provisioning>>,
             Books(t.row), Follows(order[o], t.row), Money(t) = Money(Tx(o))
      PROVE  StepOn(o)
  <2>1. Units(t.row) = 0
    BY <1>4 DEF Units, Used
  <2>2. Transacts(o, t)
    BY <1>1, <1>4, <2>1 DEF Transacts
  <2> QED
    BY <1>4, <2>2 DEF StepOn
<1>5. CASE create_order_instant(o, price, discount)
  <2> DEFINE s == S("instant", "delivered")
             t == StartEscrow(s)
  <2>1. "instant" \in AllKinds /\ "instant" \in Kinds /\ "delivered" \in OpenStatuses
    BY <1>5 DEF create_order_instant, CanPlace, AllKinds, OpenStatuses
  <2>2. Placed(o, s, "instant", "delivered", total) /\ s.row.held = 0 /\ Sound(s)
    BY <1>3, <2>1
  <2>3. Commit(o, t) /\ UNCHANGED <<stock, provisioning>>
    BY <1>5 DEF create_order_instant
  <2> HIDE DEF s, total, S
  <2>4. Flags(s, t, {"clock"})
    BY <2>2, PlainBooks
  <2> HIDE DEF t
  <2>5. /\ t.row.refunded = s.row.refunded /\ t.row.refunds = s.row.refunds
        /\ t.row.kind = s.row.kind /\ t.row.status = s.row.status /\ t.row.held = s.row.held
    BY <2>4 DEF Flags, Only, NoRow
  <2>6. /\ Only(s.row, t.row, {"status", "clock", "refunded", "refunds"})
        /\ Money(t) = Money(s)
    BY <2>4 DEF Flags, Only
  <2>7. /\ t.row.status \in OpenStatuses /\ Free(t.row) /\ Keeping(t.row)
        /\ t.row.refunded = 0 /\ Booked(t.row) /\ t.row.kind = "instant" /\ t.row.held = 0
    BY <2>1, <2>2, <2>5 DEF Placed, Core, Free, Keeping, Booked
  <2>8. Books(t.row) /\ Follows(order[o], t.row) /\ Money(t) = Money(Tx(o))
    BY <1>1, <1>2, <2>1, <2>2, <2>6, <2>7, BeginsBooks
  <2> QED
    BY <1>4, <2>1, <2>3, <2>7, <2>8
<1>6. CASE create_order_manual(o, price, discount)
  <2> DEFINE r == [R("manual", "pending") EXCEPT !.held = 1]
             t == deduct_credit(o, r)
  <2>1. "manual" \in AllKinds /\ "manual" \in Kinds /\ "pending" \in OpenStatuses
    BY <1>6 DEF create_order_manual, CanPlace, AllKinds, OpenStatuses
  <2>2. Built(r, "manual", "pending", total) /\ r.held = 1
    BY <1>0, <2>1, BuiltOrder
  <2>3. /\ Commit(o, t) /\ stock' = stock - 1 /\ provisioning' = provisioning
    BY <1>6 DEF create_order_manual
  <2> HIDE DEF r, total
  <2>4. Placed(o, t, "manual", "pending", total) /\ t.row.held = 1
    BY <1>1, <1>2, <2>1, <2>2, HoldBooks
  <2> HIDE DEF t
  <2>5. /\ t.row.status \in OpenStatuses /\ Free(t.row) /\ Keeping(t.row)
        /\ t.row.refunded = 0 /\ Booked(t.row)
    BY <2>1, <2>4 DEF Placed, Core, Keeping
  <2>6. Only(t.row, t.row, {"status", "clock", "refunded", "refunds"})
    BY DEF Only
  <2>7. Books(t.row) /\ Follows(order[o], t.row) /\ Money(t) = Money(Tx(o))
    BY <1>1, <1>2, <2>1, <2>4, <2>5, <2>6, BeginsBooks
  <2>8. Units(t.row) = 1
    BY <2>4 DEF Placed, Units, Used
  <2>9. Transacts(o, t)
    BY <1>1, <2>3, <2>7, <2>8 DEF Transacts
  <2> QED
    BY <2>3, <2>9 DEF StepOn
<1>7. CASE create_order_inline(o, price, discount)
  <2> DEFINE s == S("inline", "pending")
             d == provision_delivered(s, Short, 0)
             e == provision_failed(s)
  <2>1. "inline" \in AllKinds /\ "inline" \in Kinds /\ "pending" \in OpenStatuses
    BY <1>7 DEF create_order_inline, CanPlace, AllKinds, OpenStatuses
  <2>2. Placed(o, s, "inline", "pending", total) /\ s.row.held = 0 /\ Sound(s) /\ Unpaid(s.row)
    BY <1>3, <2>1
  <2>3. Commit(o, d) \/ Commit(o, e)
    BY <1>7 DEF create_order_inline
  <2>4. UNCHANGED <<stock, provisioning>>
    BY <1>7 DEF create_order_inline
  <2> HIDE DEF s, total, S
  <2>5. Booked(s.row) /\ Free(s.row) /\ Unrewarded(s.row) /\ CanRefund(s, s.row.total)
    BY <1>2, <2>2 DEF Placed, Core, CanRefund, Remaining
  <2>6. CASE Commit(o, d)
    <3>1. Provisioned(s, d) /\ d.row.refunded = s.row.refunded
      BY <2>2, <2>5, DeliveredInFull
    <3> HIDE DEF d
    <3>2. d.row.kind = "inline" /\ d.row.held = 0
      BY <2>2, <3>1 DEF Provisioned, Only, NoRow, Placed
    <3>3. /\ Only(s.row, d.row, {"status", "clock", "refunded", "refunds"})
          /\ d.row.status \in OpenStatuses /\ Free(d.row) /\ Keeping(d.row)
          /\ d.row.refunded = 0 /\ Booked(d.row) /\ Money(d) = Money(s)
      BY <2>2, <3>1, <3>2 DEF Provisioned, Keeping, OpenStatuses, Placed
    <3>4. Books(d.row) /\ Follows(order[o], d.row) /\ Money(d) = Money(Tx(o))
      BY <1>1, <1>2, <2>1, <2>2, <3>3, BeginsBooks
    <3> QED
      BY <1>4, <2>1, <2>4, <2>6, <3>2, <3>4
  <2>7. CASE Commit(o, e)
    <3>1. Bounced(s, e)
      BY <2>2, <2>5, FailedBooks
    <3> HIDE DEF e
    <3>2. e.row.kind = "inline" /\ e.row.held = 0
      BY <2>2, <3>1 DEF Bounced, Only, NoRow, Placed
    <3>3. /\ Only(s.row, e.row, {"status", "clock", "refunded", "refunds"})
          /\ e.row.status = "cancelled" /\ Divided(e.row)
          /\ Booked(e.row) /\ Money(e) = Money(s)
      BY <3>1 DEF Bounced, Only
    <3>4. Books(e.row) /\ Follows(order[o], e.row) /\ Money(e) = Money(Tx(o))
      BY <1>1, <1>2, <2>1, <2>2, <3>3, BeginsBooks
    <3> QED
      BY <1>4, <2>1, <2>4, <2>7, <3>2, <3>4
  <2> QED
    BY <2>3, <2>6, <2>7
<1>8. ASSUME NEW k \in {"network", "catalog", "task"}, NEW st \in {"pending", "processing"},
             k \in Kinds, Commit(o, S(k, st)), UNCHANGED <<stock, provisioning>>
      PROVE  StepOn(o)
  <2> DEFINE t == S(k, st)
  <2>1. k \in AllKinds /\ k # "manual" /\ st \in OpenStatuses
    BY DEF AllKinds, OpenStatuses
  <2>2. Placed(o, t, k, st, total) /\ t.row.held = 0
    BY <1>3, <1>8, <2>1
  <2>3. Commit(o, t) /\ UNCHANGED <<stock, provisioning>>
    BY <1>8
  <2> HIDE DEF t, total, S
  <2>4. /\ t.row.status \in OpenStatuses /\ Free(t.row) /\ Keeping(t.row)
        /\ t.row.refunded = 0 /\ Booked(t.row)
    BY <2>1, <2>2 DEF Placed, Core, Keeping
  <2>5. Only(t.row, t.row, {"status", "clock", "refunded", "refunds"})
    BY DEF Only
  <2>6. Books(t.row) /\ Follows(order[o], t.row) /\ Money(t) = Money(Tx(o))
    BY <1>1, <1>2, <2>1, <2>2, <2>4, <2>5, BeginsBooks
  <2>7. t.row.kind = k
    BY <2>2 DEF Placed
  <2> QED
    BY <1>4, <2>1, <2>2, <2>3, <2>6, <2>7
<1>9. CASE create_order_task(o, price, discount)
  <2>1. "task" \in Kinds /\ Commit(o, S("task", "processing")) /\ UNCHANGED <<stock, provisioning>>
    BY <1>9 DEF create_order_task, CanPlace
  <2> QED
    BY <1>8, <2>1
<1>10. CASE \E k \in {"network", "catalog"} : create_order_network(o, k, price, discount)
  <2> PICK k \in {"network", "catalog"} : create_order_network(o, k, price, discount)
    BY <1>10
  <2>1. k \in Kinds /\ Commit(o, S(k, "pending")) /\ UNCHANGED <<stock, provisioning>>
    BY DEF create_order_network, CanPlace
  <2> QED
    BY <1>8, <2>1
<1> QED
  BY <1>5, <1>6, <1>7, <1>9, <1>10

(* What holds of the transaction of an order that is not closed.           *)
OpenBooks(o) ==
  /\ Sound(Tx(o)) /\ Tx(o).row = order[o] /\ order[o] \in Row /\ Unpaid(order[o])
  /\ Books(order[o]) /\ order[o].status \in OpenStatuses
  /\ Unrewarded(order[o]) /\ Booked(order[o]) /\ Free(order[o]) /\ Keeping(order[o])
  /\ order[o].refunded \in Nat /\ Remaining(order[o]) \in Nat

LEMMA OpenOrder ==
  ASSUME IInv, BooksInv, NEW o \in Orders, order[o].status \in OpenStatuses \/ order[o].open
  PROVE  OpenBooks(o)
<1>1. /\ Sound(Tx(o)) /\ Tx(o).row = order[o] /\ Unpaid(Tx(o).row)
      /\ Remaining(order[o]) \in Nat
  BY DeliveredUnpaid
<1>2. RowInv(order[o]) /\ order[o] \in Row /\ Books(order[o])
  BY TxSound DEF BooksInv
<1>3. order[o].status \in OpenStatuses
  BY <1>2 DEF RowInv, OpenStatuses
<1>4. order[o].refunded \in Nat
  BY <1>2 DEF Row
<1> QED
  BY <1>1, <1>2, <1>3, <1>4 DEF OpenBooks, Books, Core, Standing

(* The two ways to end the argument about an action. *)
LEMMA Done ==
  ASSUME NEW o \in Orders, NEW s, Commit(o, s), Books(s.row), Follows(order[o], s.row),
         Money(s) = Money(Tx(o)), stock' + Units(s.row) = stock + Units(order[o]),
         provisioning' \subseteq provisioning
  PROVE  StepOn(o)
<1>1. Transacts(o, s)
  BY DEF Transacts
<1> QED
  BY <1>1 DEF StepOn

LEMMA KeepsUnits ==
  ASSUME NEW r, NEW q, q.kind = r.kind, q.held = r.held, q.kind = "manual" => (q.clock = "unset" <=> r.clock = "unset")
  PROVE  Units(q) = Units(r)
  BY DEF Units, Used

(* Provisioning does not deliver made-to-order goods.                      *)
LEMMA ProvisionStep ==
  ASSUME IInv, BooksInv, NEW o \in Orders, o \in provisioning, NEW t, Commit(o, t),
         Provisioned(Tx(o), t) \/ Bounced(Tx(o), t),
         provisioning' \subseteq provisioning, stock' = stock
  PROVE  StepOn(o)
<1>0. order[o].status = "pending" /\ order[o].kind # "manual"
  BY DEF IInv, BooksInv
<1>1. OpenBooks(o) /\ ~order[o].open
  BY <1>0, OpenOrder, TxSound DEF OpenStatuses, RowInv
<1> DEFINE r == order[o]
           q == t.row
<1>2. Only(r, q, {"status", "clock", "refunded", "refunds"})
  BY <1>1 DEF Provisioned, Bounced, OpenBooks, Only
<1>3. q.kind = r.kind /\ q.held = r.held /\ Only(r, q, StayFields) /\ Only(r, q, StayFields \cup EndFields)
  BY <1>2 DEF Only, NoRow, StayFields
<1>3a. q.open = r.open
  BY <1>2 DEF Only, NoRow
<1>4. Booked(q) /\ r.refunded <= q.refunded /\ Money(t) = Money(Tx(o))
  BY <1>1 DEF Provisioned, Bounced, OpenBooks
<1>5. Books(q) /\ Follows(r, q)
  <2>1. CASE Provisioned(Tx(o), t)
    <3>1. q.status \in OpenStatuses /\ Free(q) /\ Keeping(q)
      BY <1>0, <1>3, <2>1 DEF Provisioned, Keeping, OpenStatuses
    <3> HIDE DEF q, r
    <3>2. Books(r) /\ r.status \in OpenStatuses /\ ~r.open
      BY <1>1 DEF OpenBooks, r
    <3> QED
      BY <1>3, <1>4, <3>1, <3>2, StaysOpen
  <2>2. CASE Bounced(Tx(o), t)
    <3>1. q.status \in ClosedStatuses /\ Divided(q)
      BY <2>2 DEF Bounced, ClosedStatuses
    <3>2. Books(r) /\ r.status \in OpenStatuses /\ ~q.open
      BY <1>1, <1>3a DEF OpenBooks
    <3>3. q.subsidy <= q.discount
      BY <1>1, <1>2 DEF OpenBooks, Books, Core, Only, NoRow
    <3> HIDE DEF q, r
    <3> QED
      BY <1>3, <1>4, <3>1, <3>2, <3>3, IsClosed
  <2> QED
    BY <2>1, <2>2
<1>6. Units(q) = Units(r) /\ Units(r) \in Int /\ stock \in Int
  BY <1>0, <1>1, <1>3, KeepsUnits DEF OpenBooks, Row, Units, Used, IInv, TypeOK
<1> HIDE DEF q
<1>7. stock' + Units(t.row) = stock + Units(order[o])
  BY <1>6 DEF q
<1> QED
  BY <1>4, <1>5, <1>7, Done DEF q

(* An order made of tasks ends with the last of them. *)
LEMMA TaskBooks ==
  ASSUME IInv, BooksInv, NEW o \in Orders, NEW t \in Tasks, NEW st \in TaskStatus,
         update_task(o, t, st)
  PROVE  StepOn(o)
<1> DEFINE q == [order[o] EXCEPT !.task[t] = st]
           s == [Tx(o) EXCEPT !.row.task[t] = st]
           failed == Cardinality({u \in Tasks : s.row.task[u] = "failed"})
           share == RoundDiv(s.row.total * failed, Cardinality(Tasks))
           left == Remaining(s.row)
           all == SetStatus(refund_escrow(s, Whole, left), "cancelled")
           paid == IF share = 0 THEN s ELSE refund_escrow(s, Whole, share)
           some == StartEscrow(SetStatus(paid, "delivered"))
<1>0. /\ Sound(Tx(o)) /\ order[o] \in Row /\ RowInv(order[o]) /\ Books(order[o])
      /\ order[o].kind = "task" /\ stock \in Nat
  BY TxSound DEF BooksInv, update_task, IInv, TypeOK
<1>1. /\ Only(order[o], q, {"task"}) /\ q \in Row
  <2> DEFINE f == [order[o].task EXCEPT ![t] = st]
  <2>1. f \in [Tasks -> TaskStatus]
    BY <1>0 DEF Row
  <2>2. q = [order[o] EXCEPT !.task = f]
    BY <1>0 DEF Row
  <2>3. [order[o] EXCEPT !.task = f] \in Row
    BY <1>0, <2>1 DEF Row
  <2> HIDE DEF f
  <2>4. Only(order[o], [order[o] EXCEPT !.task = f], {"task"})
    BY <1>0 DEF Only, NoRow, Row
  <2> QED
    BY <2>2, <2>3, <2>4
<1>2. s = [row |-> q, wallet |-> wallet, fund |-> fund]
  BY DEF Tx
<1> HIDE DEF q
<1>3. s.row = q /\ s.wallet = Tx(o).wallet /\ Tx(o).row = order[o]
  BY <1>2 DEF Tx
<1>4. stock' = stock /\ provisioning' = provisioning
  BY DEF update_task
<1>5. \/ Commit(o, s)
      \/ s.row.status = "processing" /\ CanRefund(s, left) /\ Commit(o, all)
      \/ s.row.status = "processing" /\ (share = 0 \/ CanRefund(s, share)) /\ Commit(o, some)
  BY DEF update_task
<1>6. q.kind = "task" /\ order[o].status # "none" /\ q.status = order[o].status
  BY <1>0, <1>1 DEF Only, NoRow, Books
<1>6a. q.open = order[o].open
  BY <1>1 DEF Only, NoRow
<1>7. Money(s) = Money(Tx(o))
  <2>1. {"task"} \cap MoneyFields = {} /\ Only(Tx(o).row, s.row, {"task"})
    BY <1>1, <1>3 DEF MoneyFields
  <2> HIDE DEF s
  <2> QED
    BY <1>3, <2>1, NoMoney
<1>8. Books(q) /\ Follows(order[o], q)
  <2>1. order[o].refunded \in Nat
    BY <1>0 DEF Row
  <2> QED
    BY <1>0, <1>1, <1>6, <2>1, TaskOnly
<1>9. SamePay(order[o], q)
  BY <1>1 DEF Only, NoRow, SamePay
<1>10. Sound(s)
  <2>1. Within(q)
    BY <1>0, <1>9 DEF RowInv, Within, SamePay
  <2> QED
    BY <1>0, <1>1, <1>2, <2>1 DEF Sound, TxType, Tx
<1>11. share \in Nat
  <2>1. Cardinality(Tasks) \in Nat /\ Cardinality(Tasks) > 0
    BY FS_CardinalityType, FS_EmptySet
  <2>2. failed \in Nat
    BY FS_Subset, FS_CardinalityType
  <2>3. s.row.total \in Nat
    BY <1>10 DEF Sound, TxType, Row
  <2> HIDE DEF failed
  <2>4. s.row.total * failed \in Nat
    BY <2>2, <2>3, SMT
  <2> QED
    BY <2>1, <2>4, RoundDivType
<1>12. left \in Nat
  BY <1>0, <1>3, <1>9, <1>10 DEF RowInv, Within, SamePay, Remaining, Row, Sound, TxType
<1>13. Units(s.row) = Units(order[o]) /\ Units(order[o]) \in Int
  BY <1>0, <1>1, <1>3, <1>6, KeepsUnits DEF Only, NoRow, Row, Units, Used
<1> HIDE DEF share, left, s
<1>14. CASE Commit(o, s)
  <2>1. stock' + Units(s.row) = stock + Units(order[o])
    BY <1>0, <1>4, <1>13
  <2> QED
    BY <1>3, <1>4, <1>7, <1>8, <1>14, <2>1, Done
<1>15. ASSUME s.row.status = "processing"
       PROVE  /\ OpenBooks(o) /\ ~order[o].open
              /\ Unpaid(s.row) /\ Unrewarded(s.row) /\ Booked(s.row) /\ Free(s.row)
  <2>1. order[o].status = "processing"
    BY <1>3, <1>6, <1>15
  <2>2. OpenBooks(o) /\ ~order[o].open
    BY <1>0, <2>1, OpenOrder DEF OpenStatuses, RowInv
  <2>3. Unpaid(q)
    BY <1>9, <2>2 DEF OpenBooks, SamePay, Unpaid
  <2>4. q.subsidy = order[o].subsidy /\ q.commission = order[o].commission
        /\ q.cashback = order[o].cashback /\ q.refunds = order[o].refunds
        /\ q.refunded = order[o].refunded /\ q.kind = order[o].kind
    BY <1>1 DEF Only, NoRow
  <2> QED
    BY <1>3, <2>2, <2>3, <2>4 DEF OpenBooks, Unrewarded, Booked, Free
<1>16. ASSUME NEW p, NEW a, NEW F, F = {"task", "refunded", "refunds", "status", "clock"},
              Only(order[o], p.row, F), Commit(o, p), Money(p) = Money(s)
       PROVE  /\ p.row.kind = "task" /\ p.row.held = order[o].held
              /\ stock' + Units(p.row) = stock + Units(order[o])
              /\ Only(order[o], p.row, StayFields) /\ Only(order[o], p.row, StayFields \cup EndFields)
              /\ p.row.open = order[o].open /\ Keeping(p.row)
  <2>1. p.row.kind = "task" /\ p.row.held = order[o].held
    BY <1>0, <1>16 DEF Only, NoRow
  <2>2. Units(p.row) = Units(order[o])
    BY <1>0, <2>1, KeepsUnits
  <2>3. Only(order[o], p.row, StayFields) /\ Only(order[o], p.row, StayFields \cup EndFields)
    BY <1>16 DEF Only, StayFields
  <2>4. p.row.open = order[o].open
    BY <1>16 DEF Only, NoRow
  <2>5. Keeping(p.row)
    BY <2>1 DEF Keeping
  <2> QED
    BY <1>0, <1>4, <1>13, <2>1, <2>2, <2>3, <2>4, <2>5
<1>17. CASE s.row.status = "processing" /\ CanRefund(s, left) /\ Commit(o, all)
  <2> DEFINE p == refund_escrow(s, Whole, left)
  <2>1. Refunds(s, p, Whole, left)
    BY <1>10, <1>12, KeysOfRow, RefundBooks
  <2>2. Sound(p)
    BY <1>10, <1>12, <1>15, <1>17, KeysOfRow, RefundSound
  <2> HIDE DEF p
  <2>3. "cancelled" \in OrderStatus
    BY DEF OrderStatus, ClosedStatuses
  <2>4. Flags(p, SetStatus(p, "cancelled"), {"status"})
    BY <2>2, <2>3, PlainBooks
  <2>5. SetStatus(p, "cancelled").row.status = "cancelled"
    BY <2>2, <2>3, PlainSound
  <2> DEFINE a == SetStatus(p, "cancelled")
  <2>6. Commit(o, a)
    BY <1>17 DEF p
  <2>7. Flags(p, a, {"status"}) /\ a.row.status = "cancelled"
    BY <2>4, <2>5
  <2> HIDE DEF a
  <2>8. Only(order[o], a.row, {"task", "refunded", "refunds", "status", "clock"})
    BY <1>1, <1>3, <2>1, <2>7 DEF Refunds, Flags, Only
  <2>9. Money(a) = Money(s)
    BY <2>1, <2>7 DEF Refunds, Flags
  <2>10. /\ a.row.kind = "task" /\ a.row.held = order[o].held
         /\ stock' + Units(a.row) = stock + Units(order[o])
         /\ Only(order[o], a.row, StayFields \cup EndFields)
         /\ a.row.open = order[o].open
    BY <1>16, <2>6, <2>8, <2>9
  <2>11. /\ a.row.refunds = p.row.refunds /\ a.row.refunded = p.row.refunded
    BY <2>7 DEF Flags, Only, NoRow
  <2>12. s.row.refunded = order[o].refunded
    BY <1>3, <1>9 DEF SamePay
  <2>13. Booked(a.row) /\ order[o].refunded <= a.row.refunded
    BY <1>15, <1>17, <2>1, <2>11, <2>12 DEF Refunds, Booked
  <2>14. /\ a.row.subsidy = order[o].subsidy /\ a.row.commission = order[o].commission
         /\ a.row.cashback = order[o].cashback /\ a.row.fee = order[o].fee
         /\ a.row.discount = order[o].discount
    BY <2>8 DEF Only, NoRow
  <2>15. Divided(a.row) /\ a.row.subsidy <= a.row.discount
    BY <1>15, <1>17, <2>7, <2>10, <2>14
       DEF Divided, OpenBooks, Unrewarded, Unpaid, Books, Core
  <2>16. ~a.row.open /\ a.row.status \in ClosedStatuses
    BY <1>15, <1>17, <2>7, <2>10 DEF ClosedStatuses
  <2>17. Books(order[o]) /\ order[o].status \in OpenStatuses
    BY <1>15, <1>17 DEF OpenBooks
  <2>18. Books(a.row) /\ Follows(order[o], a.row)
    BY <2>10, <2>13, <2>15, <2>16, <2>17, IsClosed
  <2> QED
    BY <1>4, <1>7, <2>6, <2>9, <2>10, <2>18, Done
<1>18. CASE s.row.status = "processing" /\ (share = 0 \/ CanRefund(s, share)) /\ Commit(o, some)
  <2>1. /\ Only(s.row, paid.row, {"refunded", "refunds"}) /\ Money(paid) = Money(s)
        /\ Booked(paid.row) /\ s.row.refunded <= paid.row.refunded
        /\ paid.row.refunds[AdminRefund] = 0 /\ Sound(paid)
    <3>0. /\ Booked(s.row) /\ s.row.refunds[AdminRefund] = 0 /\ s.row.refunded \in Nat
          /\ Unpaid(s.row)
      BY <1>10, <1>15, <1>18 DEF Free, Sound, TxType, Row
    <3>1. CASE share = 0
      <4>1. paid = s
        BY <3>1
      <4> HIDE DEF paid
      <4> QED
        BY <1>10, <3>0, <4>1 DEF Only
    <3>2. CASE share # 0
      <4>1. paid = refund_escrow(s, Whole, share)
        BY <3>2
      <4> HIDE DEF paid
      <4>2. Refunds(s, paid, Whole, share)
        BY <1>10, <1>11, <4>1, KeysOfRow, RefundBooks
      <4>3. Sound(paid)
        BY <1>10, <1>11, <1>18, <3>0, <3>2, <4>1, KeysOfRow, RefundSound
      <4>4. AdminRefund # Whole
        <5>1. AdminRefund[1] = ":admin-refund" /\ Whole[1] = ""
          BY DEF AdminRefund, Whole
        <5> QED
          BY <5>1
      <4> QED
        BY <3>0, <4>2, <4>3, <4>4, KeysOfRow DEF Refunds
    <3> QED
      BY <3>1, <3>2
  <2> HIDE DEF paid
  <2> DEFINE d == SetStatus(paid, "delivered")
             a == StartEscrow(d)
  <2>2. "delivered" \in OrderStatus
    BY DEF OrderStatus, OpenStatuses
  <2>3. Sound(d) /\ d.row.status = "delivered" /\ Flags(paid, d, {"status"})
    BY <2>1, <2>2, PlainSound, PlainBooks
  <2>4. Commit(o, a)
    BY <1>18
  <2> HIDE DEF d
  <2>5. Flags(d, a, {"clock"})
    BY <2>3, PlainBooks
  <2> HIDE DEF a
  <2>6. Only(paid.row, a.row, {"status", "clock"}) /\ Money(a) = Money(s)
    BY <2>1, <2>3, <2>5, OnlyTwice DEF Flags
  <2>7. Only(order[o], a.row, {"task", "refunded", "refunds", "status", "clock"})
    BY <1>1, <1>3, <2>1, <2>6 DEF Only
  <2>8. /\ a.row.kind = "task" /\ a.row.held = order[o].held
        /\ stock' + Units(a.row) = stock + Units(order[o])
        /\ Only(order[o], a.row, StayFields)
        /\ a.row.open = order[o].open /\ Keeping(a.row)
    BY <1>16, <2>4, <2>6, <2>7
  <2>9. /\ a.row.refunds = paid.row.refunds /\ a.row.refunded = paid.row.refunded
    BY <2>6 DEF Only, NoRow
  <2>10. s.row.refunded = order[o].refunded
    BY <1>3, <1>9 DEF SamePay
  <2>11. Booked(a.row) /\ order[o].refunded <= a.row.refunded /\ Free(a.row)
    BY <2>1, <2>8, <2>9, <2>10 DEF Booked, Free
  <2>12. a.row.status = "delivered"
    BY <2>3, <2>5 DEF Flags, Only, NoRow
  <2>13. ~order[o].open /\ a.row.status \in OpenStatuses
    BY <1>15, <1>18, <2>12 DEF OpenStatuses
  <2>14. Books(order[o]) /\ order[o].status \in OpenStatuses
    BY <1>15, <1>18 DEF OpenBooks
  <2>15. Books(a.row) /\ Follows(order[o], a.row)
    BY <2>8, <2>11, <2>13, <2>14, StaysOpen
  <2> QED
    BY <1>4, <1>7, <2>4, <2>6, <2>8, <2>15, Done
<1> QED
  BY <1>5, <1>14, <1>17, <1>18

(* Provisioning, tasks, and the reads of the seller's calls. *)
LEMMA FulfilBooks == ASSUME IInv, BooksInv, NEW o \in Orders, Fulfil(o) PROVE StepOn(o)
<1>1. CASE provision_pending_order(o)
  <2>1. order[o].kind # "manual" /\ order' = order /\ provisioning' \ provisioning \subseteq {o}
    BY <1>1 DEF provision_pending_order
  <2> QED
    BY <1>1, <2>1 DEF provision_pending_order, StepOn
<1>2. ASSUME NEW key \in {Short, ShortDelivery}, NEW short \in Nat,
             apply_provision_success(o, key, short)
      PROVE  StepOn(o)
  <2> DEFINE t == provision_delivered(Tx(o), key, short)
  <2>1. o \in provisioning /\ (short = 0 \/ CanRefund(Tx(o), short))
    BY <1>2 DEF apply_provision_success
  <2>2. Commit(o, t) /\ provisioning' \subseteq provisioning /\ stock' = stock
    BY <1>2 DEF apply_provision_success
  <2>3. OpenBooks(o)
    BY <2>1, OpenOrder DEF IInv, OpenStatuses
  <2>4. Provisioned(Tx(o), t)
    <3>1. CASE short = 0
      <4>1. t = provision_delivered(Tx(o), key, 0)
        BY <3>1
      <4> HIDE DEF t
      <4> QED
        BY <2>3, <4>1, DeliveredInFull DEF OpenBooks
    <3>2. CASE short # 0
      <4>1. short > 0 /\ t = provision_delivered(Tx(o), key, short)
        BY <3>2
      <4> HIDE DEF t
      <4> QED
        BY <2>1, <2>3, <3>2, <4>1, DeliveredInPart DEF OpenBooks
    <3> QED
      BY <3>1, <3>2
  <2> HIDE DEF t
  <2> QED
    BY <2>1, <2>2, <2>4, ProvisionStep
<1>3. CASE apply_provision_failure(o)
  <2> DEFINE t == provision_failed(Tx(o))
  <2>1. o \in provisioning /\ CanRefund(Tx(o), order[o].total)
    BY <1>3 DEF apply_provision_failure
  <2>2. Commit(o, t) /\ provisioning' \subseteq provisioning /\ stock' = stock
    BY <1>3 DEF apply_provision_failure
  <2>3. OpenBooks(o)
    BY <2>1, OpenOrder DEF IInv, OpenStatuses
  <2>4. Bounced(Tx(o), t)
    BY <2>1, <2>3, FailedBooks DEF OpenBooks
  <2> HIDE DEF t
  <2> QED
    BY <2>1, <2>2, <2>4, ProvisionStep
<1>4. CASE provision_error(o)
  BY <1>4 DEF provision_error, StepOn
<1>5. ASSUME NEW h \in Hands, accept_order_read(h, o) \/ deliver_order_read(h, o)
      PROVE  StepOn(o)
  BY <1>5 DEF accept_order_read, deliver_order_read, SellerReads, StepOn
<1>6. ASSUME NEW t \in Tasks, NEW st \in TaskStatus, update_task(o, t, st)
      PROVE  StepOn(o)
  BY <1>6, TaskBooks
<1>7. order[o].total \in Nat
  BY TxSound DEF Row
<1>8. \A short \in Amounts(o) \ {order[o].total} : short \in Nat
  BY <1>7 DEF Amounts
<1> QED
  BY <1>1, <1>2, <1>3, <1>4, <1>5, <1>6, <1>8 DEF Fulfil

(* A row of the order is replaced; neither a wallet nor an amount changes. *)
LEMMA RowBooks ==
  ASSUME IInv, NEW o \in Orders, NEW q, NEW F, F \cap MoneyFields = {}, Only(order[o], q, F),
         order' = [order EXCEPT ![o] = q], wallet' = wallet, fund' = fund,
         Books(q), Follows(order[o], q),
         stock' + Units(q) = stock + Units(order[o]), provisioning' \subseteq provisioning
  PROVE  StepOn(o)
<1> DEFINE s == [row |-> q, wallet |-> wallet, fund |-> fund]
<1>1. s.row = q /\ s.wallet = wallet /\ s.fund = fund
  OBVIOUS
<1> HIDE DEF s
<1>2. Commit(o, s)
  BY <1>1 DEF Commit
<1>3. Money(s) = Money(Tx(o))
  <2>1. Tx(o).row = order[o] /\ Tx(o).wallet = wallet
    BY DEF Tx
  <2> QED
    BY <1>1, <2>1, NoMoney
<1> QED
  BY <1>1, <1>2, <1>3, Done

(* The seller's writes, when no call is overtaken. *)
LEMMA SellerBooks ==
  ASSUME IInv, BooksInv, NoSellerOvertaken, SellerCommits
  PROVE  \E o \in Orders : StepOn(o)
<1> PICK c \in inflight : accept_order_commit(c) \/ deliver_order_commit(c)
  BY DEF SellerCommits
<1> DEFINE o == c.order
           a == [order[o] EXCEPT !.status = "processing"]
           d == [order[o] EXCEPT !.status = "delivered", !.held = 0, !.clock = "running"]
<1>0. o \in Orders /\ stock \in Nat /\ c.op \in {"accept", "deliver"}
  BY DEF IInv, TypeOK, SellerCall
<1>1. order[o].status = StatusRead(c) /\ OpenBooks(o) /\ ~order[o].open
  <2>1. order[o].status = StatusRead(c)
    BY DEF NoSellerOvertaken
  <2>2. order[o].status \in OpenStatuses /\ order[o].status # "delivered"
    BY <2>1 DEF StatusRead, OpenStatuses
  <2> HIDE DEF o
  <2> QED
    BY <1>0, <2>1, <2>2, OpenOrder, TxSound DEF RowInv
<1>2. CASE accept_order_commit(c)
  <2>1. /\ order' = [order EXCEPT ![o] = a] /\ wallet' = wallet /\ fund' = fund
        /\ stock' = stock /\ provisioning' = provisioning
    BY <1>2 DEF accept_order_commit
  <2>2. order[o].status = "pending"
    BY <1>1, <1>2 DEF accept_order_commit, StatusRead
  <2> HIDE DEF o
  <2>3. Only(order[o], a, {"status"}) /\ a.status = "processing"
    BY <1>1 DEF OpenBooks, Row, Only, NoRow
  <2> HIDE DEF a
  <2>4. /\ a.kind = order[o].kind /\ a.held = order[o].held /\ a.clock = order[o].clock
        /\ a.refunds = order[o].refunds /\ a.refunded = order[o].refunded
        /\ Only(order[o], a, StayFields)
    BY <2>3 DEF Only, NoRow, StayFields
  <2>5. /\ Booked(a) /\ Free(a) /\ Keeping(a) /\ order[o].refunded <= a.refunded
        /\ a.status \in OpenStatuses
    BY <1>1, <2>2, <2>3, <2>4 DEF OpenBooks, Booked, Free, Keeping, OpenStatuses
  <2>6. Books(a) /\ Follows(order[o], a)
    BY <1>1, <2>4, <2>5, StaysOpen DEF OpenBooks
  <2>7. Units(a) = Units(order[o]) /\ {"status"} \cap MoneyFields = {}
    BY <2>4 DEF Units, Used, MoneyFields
  <2>8. StepOn(o)
    BY <1>0, <2>1, <2>3, <2>6, <2>7, RowBooks
  <2> QED
    BY <1>0, <2>8
<1>3. CASE deliver_order_commit(c)
  <2>1. /\ order' = [order EXCEPT ![o] = d] /\ wallet' = wallet /\ fund' = fund
        /\ stock' = stock /\ provisioning' = provisioning
    BY <1>3 DEF deliver_order_commit
  <2>2. order[o].status = "processing"
    BY <1>1, <1>3 DEF deliver_order_commit, StatusRead
  <2> HIDE DEF o
  <2>3. /\ Only(order[o], d, {"status", "held", "clock"})
        /\ d.status = "delivered" /\ d.held = 0 /\ d.clock = "running"
    BY <1>1 DEF OpenBooks, Row, Only, NoRow
  <2> HIDE DEF d
  <2>4. /\ d.kind = order[o].kind
        /\ d.refunds = order[o].refunds /\ d.refunded = order[o].refunded
        /\ Only(order[o], d, StayFields)
    BY <2>3 DEF Only, NoRow, StayFields
  <2>5. /\ Booked(d) /\ Free(d) /\ Keeping(d) /\ order[o].refunded <= d.refunded
        /\ d.status \in OpenStatuses
    BY <1>1, <2>2, <2>3, <2>4 DEF OpenBooks, Booked, Free, Keeping, OpenStatuses
  <2>6. Books(d) /\ Follows(order[o], d)
    BY <1>1, <2>3, <2>4, <2>5, StaysOpen DEF OpenBooks
  <2>7. Units(d) = Units(order[o]) /\ {"status", "held", "clock"} \cap MoneyFields = {}
    BY <1>1, <2>2, <2>3, <2>4 DEF Units, Used, MoneyFields, OpenBooks, Keeping, Books, Core
  <2>8. StepOn(o)
    BY <1>0, <2>1, <2>3, <2>6, <2>7, RowBooks
  <2> QED
    BY <1>0, <2>8
<1> QED
  BY <1>2, <1>3

-----------------------------------------------------------------------------
(* The end of an order *)

CaseFields == {"open", "answered", "remedy", "refunded", "refunds"}

(* A transaction on the open order o that has refunded at most.            *)
OnCase(o, s) ==
  /\ Sound(s) /\ Unpaid(s.row) /\ Unrewarded(s.row) /\ Only(order[o], s.row, CaseFields)
  /\ Booked(s.row) /\ Free(s.row) /\ order[o].refunded <= s.row.refunded
  /\ Money(s) = Money(Tx(o))

(* Rows that share what OnCase looks at. *)
LEMMA CaseRow ==
  ASSUME NEW o \in Orders, NEW s, OnCase(o, s), NEW t, Sound(t),
         Only(s.row, t.row, {"open", "answered", "remedy"}), Money(t) = Money(s)
  PROVE  OnCase(o, t)
<1>1. /\ t.row.release = s.row.release /\ t.row.fee = s.row.fee
      /\ t.row.subsidy = s.row.subsidy /\ t.row.commission = s.row.commission
      /\ t.row.cashback = s.row.cashback /\ t.row.refunds = s.row.refunds
      /\ t.row.refunded = s.row.refunded /\ t.row.kind = s.row.kind
  BY DEF Only, NoRow
<1>2. Only(order[o], t.row, CaseFields)
  BY DEF OnCase, Only, CaseFields
<1> QED
  BY <1>1, <1>2 DEF OnCase, Unpaid, Unrewarded, Booked, Free

(* A case begins with the order as it is, and may be closed.               *)
LEMMA CaseBegins ==
  ASSUME NEW o \in Orders, OpenBooks(o)
  PROVE  OnCase(o, Tx(o)) /\ OnCase(o, CloseCase(Tx(o))) /\ ~CloseCase(Tx(o)).row.open
<1>1. OnCase(o, Tx(o))
  BY DEF OnCase, OpenBooks, Only
<1>2. /\ Sound(CloseCase(Tx(o))) /\ Flags(Tx(o), CloseCase(Tx(o)), {"open"})
      /\ ~CloseCase(Tx(o)).row.open
  BY PlainSound, PlainBooks DEF OpenBooks
<1>3. Only(Tx(o).row, CloseCase(Tx(o)).row, {"open", "answered", "remedy"})
  BY <1>2 DEF Flags, Only
<1>4. OnCase(o, CloseCase(Tx(o)))
  BY <1>1, <1>2, <1>3, CaseRow DEF Flags
<1> QED
  BY <1>1, <1>2, <1>4

(* A refund booked by the case touches none of the references kept free.   *)
LEMMA CaseRefund ==
  ASSUME NEW o \in Orders, OpenBooks(o), NEW s, OnCase(o, s),
         NEW k \in LineKeys \cup {":seller-timeout", ":admin-partial"}, NEW n \in 1..MaxCases,
         NEW amount \in Nat, CanRefund(s, amount),
         NEW t, t = refund_escrow(s, <<k, n>>, amount)
  PROVE  /\ OnCase(o, t)
         /\ t.row.open = s.row.open
         /\ \A x \in RefundKeys : x # <<k, n>> => t.row.refunds[x] = s.row.refunds[x]
<1>1. <<k, n>> \in RefundKeys /\ n # 0
  BY KeysOfRow
<1>2. <<k, n>> # Whole /\ <<k, n>> # AdminRefund
  <2>1. Whole[2] = 0 /\ AdminRefund[2] = 0 /\ <<k, n>>[2] = n
    BY DEF Whole, AdminRefund
  <2> QED
    BY <1>1, <2>1
<1>3. Refunds(s, t, <<k, n>>, amount)
  BY <1>1, RefundBooks DEF OnCase
<1>4. Sound(t) /\ Unpaid(t.row)
  BY <1>1, RefundSound DEF OnCase
<1>5. Free(t.row)
  BY <1>1, <1>2, <1>3, KeepsFree DEF OnCase
<1>6. Unrewarded(t.row)
  BY <1>3 DEF Refunds, Only, NoRow, OnCase, Unrewarded
<1>7. t.row.open = s.row.open
  BY <1>3 DEF Refunds, Only, NoRow
<1>8. Only(order[o], t.row, CaseFields)
  BY <1>3 DEF Refunds, OnCase, Only, CaseFields
<1>9. order[o].refunded <= t.row.refunded
  <2>1. order[o].refunded <= s.row.refunded /\ s.row.refunded <= t.row.refunded
    BY <1>3 DEF OnCase, Refunds
  <2>2. order[o].refunded \in Nat /\ s.row.refunded \in Nat /\ t.row.refunded \in Nat
    BY <1>4 DEF OpenBooks, OnCase, Sound, TxType, Row
  <2> QED
    BY <2>1, <2>2
<1>10. Money(t) = Money(Tx(o)) /\ Booked(t.row)
  BY <1>3 DEF Refunds, OnCase
<1>11. OnCase(o, t)
  BY <1>4, <1>5, <1>6, <1>8, <1>9, <1>10 DEF OnCase
<1> QED
  BY <1>3, <1>7, <1>11 DEF Refunds

(* The rest of the order is divided. *)
LEMMA EndsOrder ==
  ASSUME IInv, NEW o \in Orders, OpenBooks(o), NEW s, OnCase(o, s), NEW t, Ends(s, t), Commit(o, t),
         t.row.status \in ClosedStatuses, ~t.row.open,
         stock' = stock, provisioning' = provisioning
  PROVE  StepOn(o)
<1>1. /\ t.row.refunds = s.row.refunds /\ t.row.refunded = s.row.refunded
      /\ t.row.kind = s.row.kind /\ t.row.held = s.row.held /\ t.row.clock = s.row.clock
  BY DEF Ends, Only, NoRow, EndFields
<1>2. s.row.kind = order[o].kind /\ s.row.held = order[o].held /\ s.row.clock = order[o].clock
  BY DEF OnCase, Only, NoRow, CaseFields
<1>3. Only(order[o], t.row, StayFields \cup EndFields)
  BY DEF OnCase, Ends, Only, CaseFields, StayFields
<1>4. Booked(t.row) /\ order[o].refunded <= t.row.refunded
  BY <1>1 DEF OnCase, Booked
<1>5. Divided(t.row) /\ t.row.subsidy <= t.row.discount /\ Money(t) = Money(Tx(o))
  BY DEF OnCase, Ends
<1>6. t.row.held = order[o].held
  BY <1>1, <1>2
<1>7. Books(t.row) /\ Follows(order[o], t.row)
  BY <1>3, <1>4, <1>5, <1>6, IsClosed DEF OpenBooks
<1>8. Units(t.row) = Units(order[o])
  BY <1>1, <1>2 DEF Units, Used
<1> QED
  BY <1>5, <1>7, <1>8, Done

(* A settlement, and the common end of a case.                             *)
LEMMA SettlesOrder ==
  ASSUME IInv, NEW o \in Orders, OpenBooks(o), NEW s, OnCase(o, s), ~s.row.open,
         NEW pct \in FeePercents, Commit(o, Settle(s, pct)),
         stock' = stock, provisioning' = provisioning
  PROVE  StepOn(o)
<1> DEFINE t == Settle(s, pct)
<1>1. Sound(s) /\ Unpaid(s.row) /\ Unrewarded(s.row)
  BY DEF OnCase
<1>2. Ends(s, t) /\ t.row.status = "completed" /\ ~t.row.open
  BY <1>1, SettleSound, SettleBooks
<1>3. Commit(o, t)
  OBVIOUS
<1>4. "completed" \in ClosedStatuses
  BY DEF ClosedStatuses
<1> HIDE DEF t
<1> QED
  BY <1>2, <1>3, <1>4, EndsOrder

LEMMA FinalizesOrder ==
  ASSUME IInv, NEW o \in Orders, OpenBooks(o), NEW s, OnCase(o, s),
         NEW pct \in FeePercents, Commit(o, finalize_dispute(s, pct)),
         stock' = stock, provisioning' = provisioning
  PROVE  StepOn(o)
<1> DEFINE t == finalize_dispute(s, pct)
<1>1. Sound(s) /\ Unpaid(s.row) /\ Unrewarded(s.row)
  BY DEF OnCase
<1>2. Ends(s, t) /\ t.row.status \in ClosedStatuses /\ ~t.row.open
  BY <1>1, FinalizeSound, FinalizeBooks
<1>3. Commit(o, t)
  OBVIOUS
<1> HIDE DEF t
<1> QED
  BY <1>2, <1>3, EndsOrder

(* A cancellation or a refund of the whole order, which puts back a unit   *)
(* of stock that the order still held.                                     *)
LEMMA CancelsOrder ==
  ASSUME IInv, NEW o \in Orders, OpenBooks(o), NEW t, Commit(o, t),
         Only(order[o], t.row, {"status", "open", "held", "refunded", "refunds"}),
         Booked(t.row), order[o].refunded <= t.row.refunded, Money(t) = Money(Tx(o)),
         t.row.status \in {"refunded", "cancelled"}, ~t.row.open,
         t.row.kind # "task" => t.row.refunded = t.row.total,
         t.row.held = order[o].held \/ t.row.held = 0,
         stock' = stock + (order[o].held - t.row.held), provisioning' = provisioning
  PROVE  StepOn(o)
<1> DEFINE q == t.row
           r == order[o]
<1>1. Only(r, q, StayFields \cup EndFields)
  BY DEF Only, StayFields, EndFields
<1>2. /\ q.kind = r.kind /\ q.clock = r.clock /\ q.fee = r.fee /\ q.discount = r.discount
      /\ q.subsidy = r.subsidy /\ q.commission = r.commission /\ q.cashback = r.cashback
  BY DEF Only, NoRow
<1>3. q.status \in ClosedStatuses /\ q.status # "completed"
  BY DEF ClosedStatuses
<1>4. Divided(q) /\ q.subsidy <= q.discount
  BY <1>2, <1>3 DEF OpenBooks, Books, Core, Divided, Unrewarded, Unpaid
<1>5. Books(q) /\ Follows(r, q)
  <2>1. Books(r) /\ r.status \in OpenStatuses
    BY DEF OpenBooks
  <2> QED
    BY <1>1, <1>3, <1>4, <2>1, IsClosed
<1>6. Used(q) = Used(r) /\ Used(r) \in Nat
  BY <1>2 DEF Used
<1>7. r.held \in Nat /\ stock \in Nat
  BY DEF OpenBooks, Row, IInv, TypeOK
<1>8. stock' + Units(q) = stock + Units(r)
  <2> HIDE DEF q, r
  <2>1. q.held \in Nat /\ stock' = stock + (r.held - q.held)
    BY <1>7 DEF q, r
  <2> QED
    BY <1>6, <1>7, <2>1 DEF Units
<1> QED
  BY <1>5, <1>8, Done

-----------------------------------------------------------------------------
(* Deadlines and settlement outside a case *)

LEMMA CloseBooks == ASSUME IInv, BooksInv, NEW o \in Orders, Close(o) PROVE StepOn(o)
<1>0. order[o].status \in OpenStatuses
  BY DEF Close, deadline_passes, escrow_lapses, extend_escrow, sla_check_job,
         provision_sweep_job, confirm_order, escrow_release_job, Settleable, refund_order, OpenStatuses
<1>1. OpenBooks(o)
  BY <1>0, OpenOrder
<1>2. ASSUME NEW q, Only(order[o], q, {"late", "clock", "extensions"}),
             order[o].kind = "manual" => (order[o].clock = "unset" <=> q.clock = "unset"),
             order' = [order EXCEPT ![o] = q], UNCHANGED <<wallet, fund, stock, provisioning>>
      PROVE  StepOn(o)
  <2>1. /\ q.kind = order[o].kind /\ q.held = order[o].held /\ q.status = order[o].status
        /\ q.refunds = order[o].refunds /\ q.refunded = order[o].refunded
        /\ q.case = order[o].case
    BY <1>2 DEF Only, NoRow
  <2>2. Only(order[o], q, StayFields)
    BY <1>2 DEF Only, StayFields
  <2>3. Booked(q) /\ Free(q) /\ Keeping(q) /\ order[o].refunded <= q.refunded
    BY <1>1, <1>2, <2>1 DEF OpenBooks, Booked, Free, Keeping
  <2>4. CaseOnly(order[o], q)
    BY <2>1 DEF CaseOnly
  <2>5. Books(q) /\ Follows(order[o], q)
    BY <1>1, <2>1, <2>2, <2>3, <2>4, StaysOpen DEF OpenBooks
  <2>6. Units(q) = Units(order[o])
    BY <1>2, <2>1, KeepsUnits
  <2>7. {"late", "clock", "extensions"} \cap MoneyFields = {}
    BY DEF MoneyFields
  <2> QED
    BY <1>2, <2>5, <2>6, <2>7, RowBooks
<1>3. CASE deadline_passes(o)
  <2> DEFINE q == [order[o] EXCEPT !.late = TRUE]
  <2>1. /\ order' = [order EXCEPT ![o] = q] /\ UNCHANGED <<wallet, fund, stock, provisioning>>
    BY <1>3 DEF deadline_passes
  <2>2. Only(order[o], q, {"late", "clock", "extensions"}) /\ q.clock = order[o].clock
    BY <1>1 DEF OpenBooks, Row, Only, NoRow
  <2> HIDE DEF q
  <2> QED
    BY <1>2, <2>1, <2>2
<1>4. CASE escrow_lapses(o)
  <2> DEFINE q == [order[o] EXCEPT !.clock = "due"]
  <2>1. /\ order' = [order EXCEPT ![o] = q] /\ UNCHANGED <<wallet, fund, stock, provisioning>>
    BY <1>4 DEF escrow_lapses
  <2>2. /\ Only(order[o], q, {"late", "clock", "extensions"})
        /\ q.clock = "due" /\ order[o].clock = "running"
    BY <1>1, <1>4 DEF OpenBooks, Row, Only, NoRow, escrow_lapses
  <2> HIDE DEF q
  <2> QED
    BY <1>2, <2>1, <2>2
<1>5. CASE extend_escrow(o)
  <2> DEFINE q == [order[o] EXCEPT !.clock = "running", !.extensions = @ + 1]
  <2>1. /\ order' = [order EXCEPT ![o] = q] /\ UNCHANGED <<wallet, fund, stock, provisioning>>
    BY <1>5 DEF extend_escrow
  <2>2. Only(order[o], q, {"late", "clock", "extensions"}) /\ q.clock = "running"
    BY <1>1 DEF OpenBooks, Row, Only, NoRow
  <2>3. order[o].status = "delivered"
    BY <1>5 DEF extend_escrow
  <2>4. order[o].kind = "manual" => order[o].clock # "unset"
    BY <1>1, <2>3 DEF OpenBooks, Keeping
  <2> HIDE DEF q
  <2> QED
    BY <1>2, <2>1, <2>2, <2>4
<1>6. CASE sla_check_job(o) \/ provision_sweep_job(o)
  <2> DEFINE t == provision_failed(Tx(o))
             u == release_manual_stock(t)
  <2>1. /\ CanRefund(Tx(o), Tx(o).row.total) /\ order[o].status = "pending"
        /\ provisioning' = provisioning
    BY <1>1, <1>6 DEF sla_check_job, provision_sweep_job, OpenBooks
  <2>2. \/ Commit(o, t) /\ stock' = stock
        \/ Commit(o, u) /\ stock' = stock + order[o].held
    BY <1>6 DEF sla_check_job, provision_sweep_job
  <2>3. ~order[o].open /\ stock \in Nat /\ order[o].held \in Nat
    BY <1>1, <2>1, TxSound DEF RowInv, IInv, TypeOK, OpenBooks, Row
  <2>4. Bounced(Tx(o), t)
    BY <1>1, <2>1, FailedBooks DEF OpenBooks
  <2>5. Sound(t)
    BY <1>1, <2>1, <2>3, ProvisionSound DEF OpenBooks
  <2> HIDE DEF t
  <2>6. /\ Only(order[o], t.row, {"status", "refunded", "refunds"}) /\ t.row.status = "cancelled"
        /\ order[o].refunded <= t.row.refunded
        /\ Booked(t.row) /\ Divided(t.row) /\ Money(t) = Money(Tx(o))
    BY <1>1, <2>4 DEF Bounced, OpenBooks
  <2>7. CASE Commit(o, t) /\ stock' = stock
    <3>1. ~t.row.open
      BY <2>3, <2>6 DEF Only, NoRow
    <3>2. t.row.held = order[o].held
      BY <2>6 DEF Only, NoRow
    <3>3. Only(order[o], t.row, {"status", "open", "held", "refunded", "refunds"})
      BY <2>6 DEF Only
    <3>4. t.row.kind # "task" => t.row.refunded = t.row.total
      BY <2>6 DEF Divided
    <3>5. stock' = stock + (order[o].held - t.row.held)
      BY <2>3, <2>7, <3>2
    <3> QED
      BY <1>1, <2>1, <2>6, <2>7, <3>1, <3>2, <3>3, <3>4, <3>5, CancelsOrder
  <2>8. CASE Commit(o, u) /\ stock' = stock + order[o].held
    <3>1. Flags(t, u, {"held"}) /\ u.row.held = 0
      BY <2>5, PlainBooks
    <3> HIDE DEF u
    <3>2. /\ u.row.status = "cancelled" /\ u.row.refunded = t.row.refunded
          /\ u.row.refunds = t.row.refunds /\ u.row.kind = t.row.kind
          /\ u.row.total = t.row.total /\ Money(u) = Money(Tx(o))
      BY <2>6, <3>1 DEF Flags, Only, NoRow
    <3>3. Only(order[o], u.row, {"status", "open", "held", "refunded", "refunds"})
      BY <2>6, <3>1 DEF Flags, Only
    <3>4. ~u.row.open
      BY <2>3, <2>6, <3>1 DEF Flags, Only, NoRow
    <3>5. Booked(u.row) /\ order[o].refunded <= u.row.refunded
      BY <2>6, <3>2 DEF Booked
    <3>6. u.row.kind # "task" => u.row.refunded = u.row.total
      BY <2>6, <3>2 DEF Divided
    <3>7. stock' = stock + (order[o].held - u.row.held)
      BY <2>3, <2>8, <3>1
    <3> QED
      BY <1>1, <2>1, <2>8, <3>1, <3>2, <3>3, <3>4, <3>5, <3>6, <3>7, CancelsOrder
  <2> QED
    BY <2>2, <2>7, <2>8
<1>7. ASSUME NEW pct \in FeePercents, confirm_order(o, pct) \/ escrow_release_job(o, pct)
      PROVE  StepOn(o)
  <2>1. /\ Commit(o, Settle(Tx(o), pct)) /\ stock' = stock /\ provisioning' = provisioning
    BY <1>7 DEF confirm_order, escrow_release_job
  <2>2. ~Tx(o).row.open
    BY <1>1, <1>7 DEF confirm_order, escrow_release_job, Settleable, OpenBooks
  <2> QED
    BY <1>1, <2>1, <2>2, CaseBegins, SettlesOrder
<1>8. CASE refund_order(o)
  <2> DEFINE left == Remaining(order[o])
             p == refund_escrow(Tx(o), AdminRefund, left)
             a == SetStatus(p, "refunded")
             b == SetStatus(p, "cancelled")
             c == release_manual_stock(b)
  <2>1. ~order[o].open /\ left > 0 /\ provisioning' = provisioning
    BY <1>8 DEF refund_order
  <2>2. \/ Commit(o, Clawbacks(a)) /\ stock' = stock
        \/ Commit(o, Clawbacks(c)) /\ stock' = stock + order[o].held
    BY <1>8 DEF refund_order
  <2>3. left \in Nat /\ CanRefund(Tx(o), left)
    BY <1>1, <2>1 DEF OpenBooks, CanRefund
  <2>4. Sound(p)
    BY <1>1, <2>3, KeysOfRow, RefundSound DEF OpenBooks
  <2>5. Refunds(Tx(o), p, AdminRefund, left)
    BY <1>1, <2>3, KeysOfRow, RefundBooks DEF OpenBooks
  <2>6. stock \in Nat /\ order[o].held \in Nat /\ left = order[o].total - order[o].refunded
        /\ order[o].total \in Nat /\ order[o].refunded \in Nat
    BY <1>1 DEF IInv, TypeOK, OpenBooks, Row, Remaining
  <2> HIDE DEF p
  <2>7. /\ Only(order[o], p.row, {"refunded", "refunds"}) /\ Booked(p.row)
        /\ order[o].refunded <= p.row.refunded /\ Money(p) = Money(Tx(o))
        /\ p.row.refunded = order[o].refunded + left
    BY <1>1, <2>5 DEF OpenBooks, Refunds, Free
  <2>8. p.row.refunded = p.row.total
    <3>1. p.row.total = order[o].total
      BY <2>7 DEF Only, NoRow
    <3> QED
      BY <2>6, <2>7, <3>1
  <2>9. "refunded" \in OrderStatus /\ "cancelled" \in OrderStatus
    BY DEF OrderStatus, ClosedStatuses
  <2>10. ASSUME NEW st \in {"refunded", "cancelled"}
         PROVE  /\ Sound(SetStatus(p, st)) /\ Flags(p, SetStatus(p, st), {"status"})
                /\ SetStatus(p, st).row.status = st
    <3>1. st \in OrderStatus
      BY <2>9
    <3>2. Sound(SetStatus(p, st)) /\ SetStatus(p, st).row.status = st
      BY <2>4, <3>1, PlainSound
    <3>3. Flags(p, SetStatus(p, st), {"status"})
      BY <2>4, <3>1, PlainBooks
    <3> QED
      BY <3>2, <3>3
  <2>11. /\ Sound(a) /\ Flags(p, a, {"status"}) /\ a.row.status = "refunded"
         /\ Sound(b) /\ Flags(p, b, {"status"}) /\ b.row.status = "cancelled"
    BY <2>10
  <2> HIDE DEF a, b
  <2>12. Flags(b, c, {"held"}) /\ c.row.held = 0
    BY <2>11, PlainBooks
  <2> HIDE DEF c
  <2>13. ASSUME NEW x, Only(p.row, x.row, {"status", "held"}), Money(x) = Money(p),
                Commit(o, Clawbacks(x)), x.row.status \in {"refunded", "cancelled"},
                x.row.held = order[o].held \/ x.row.held = 0,
                stock' = stock + (order[o].held - x.row.held)
         PROVE  StepOn(o)
    <3>1. Only(order[o], x.row, {"status", "open", "held", "refunded", "refunds"})
      BY <2>7, <2>13 DEF Only
    <3>2. /\ x.row.refunded = p.row.refunded /\ x.row.refunds = p.row.refunds
          /\ x.row.total = p.row.total /\ x.row.subsidy = order[o].subsidy
          /\ x.row.commission = order[o].commission /\ x.row.cashback = order[o].cashback
      BY <2>7, <2>13 DEF Only, NoRow
    <3>3. ~x.row.open
      BY <2>1, <2>7, <2>13 DEF Only, NoRow
    <3>4. Unrewarded(x.row) /\ Booked(x.row)
      BY <1>1, <2>7, <3>2 DEF OpenBooks, Unrewarded, Booked
    <3>5. Commit(o, x)
      BY <2>13, <3>4, NothingClawed
    <3> QED
      BY <1>1, <2>1, <2>7, <2>8, <2>13, <3>1, <3>2, <3>3, <3>4, <3>5, CancelsOrder
  <2>14. p.row.held = order[o].held
    BY <2>7 DEF Only, NoRow
  <2>15. CASE Commit(o, Clawbacks(a)) /\ stock' = stock
    <3>1. Only(p.row, a.row, {"status", "held"}) /\ Money(a) = Money(p) /\ a.row.held = p.row.held
      BY <2>11 DEF Flags, Only, NoRow
    <3>2. stock' = stock + (order[o].held - a.row.held)
      BY <2>6, <2>14, <2>15, <3>1
    <3> QED
      BY <2>11, <2>13, <2>14, <2>15, <3>1, <3>2
  <2>16. CASE Commit(o, Clawbacks(c)) /\ stock' = stock + order[o].held
    <3>1. /\ Only(p.row, c.row, {"status", "held"}) /\ Money(c) = Money(p)
          /\ c.row.status = b.row.status
      BY <2>11, <2>12 DEF Flags, Only, NoRow
    <3>2. stock' = stock + (order[o].held - c.row.held)
      BY <2>6, <2>12, <2>16
    <3> QED
      BY <2>11, <2>12, <2>13, <2>16, <3>1, <3>2
  <2> QED
    BY <2>2, <2>15, <2>16
<1> QED
  BY <1>3, <1>4, <1>5, <1>6, <1>7, <1>8 DEF Close

-----------------------------------------------------------------------------
(* The resolutions of a case *)

LEMMA ResolveBooks == ASSUME IInv, BooksInv, NEW o \in Orders, Resolve(o) PROVE StepOn(o)
<1>a. create_dispute(o) \/ InCase(o)
  <2>1. ASSUME \/ seller_respond_dispute(o) \/ refund_dispute(o)
               \/ replace_dispute(o) \/ extend_warranty_dispute(o)
        PROVE  InCase(o)
    BY <2>1 DEF seller_respond_dispute, refund_dispute, replace_dispute, extend_warranty_dispute
  <2>2. ASSUME NEW pct, NEW actor, NEW key, NEW amount, resolve_lines(o, actor, key, amount, pct)
        PROVE  InCase(o)
    BY <2>2 DEF resolve_lines
  <2>3. ASSUME NEW pct, \/ accept_dispute_resolution(o, pct) \/ resolve_abandoned_dispute(o, pct)
                        \/ resolve_dispute_after_seller_timeout(o, pct)
        PROVE  InCase(o)
    BY <2>3 DEF accept_dispute_resolution, resolve_abandoned_dispute,
                resolve_dispute_after_seller_timeout
  <2>4. ASSUME NEW pct, NEW amount, \/ withdraw_dispute(o, pct) \/ reject_dispute(o, pct)
                                    \/ partial_refund_dispute(o, amount, pct)
        PROVE  InCase(o)
    BY <2>4 DEF withdraw_dispute, reject_dispute, partial_refund_dispute
  <2> QED
    BY <2>1, <2>2, <2>3, <2>4 DEF Resolve
<1>0. order[o].status \in OpenStatuses \/ order[o].open
  BY <1>a DEF create_dispute, InCase, OpenStatuses
<1>1. OpenBooks(o)
  BY <1>0, OpenOrder
<1>2. /\ OnCase(o, Tx(o)) /\ OnCase(o, CloseCase(Tx(o))) /\ ~CloseCase(Tx(o)).row.open
      /\ Tx(o).row = order[o] /\ order[o] \in Row
  BY <1>1, CaseBegins DEF OpenBooks
<1>3. InCase(o) => order[o].status = "delivered" /\ order[o].case \in 1..MaxCases
  BY TxSound DEF InCase, RowInv, Row
(* The order stays delivered, with its money untouched or a part refunded. *)
<1>4. ASSUME NEW t, Only(order[o], t.row, StayFields), t.row.status = "delivered",
             order[o].status = "delivered",
             Booked(t.row), Free(t.row), order[o].refunded <= t.row.refunded,
             t.row.held = order[o].held, t.row.clock = "running" \/ t.row.clock = order[o].clock,
             order[o].open /\ t.row.open => CaseOnly(order[o], t.row),
             Money(t) = Money(Tx(o)), Commit(o, t), UNCHANGED <<stock, provisioning>>
      PROVE  StepOn(o)
  <2>1. t.row.kind = order[o].kind
    BY <1>4 DEF Only, NoRow, StayFields
  <2>2. order[o].kind = "manual" => order[o].clock # "unset" /\ t.row.clock # "unset"
    BY <1>1, <1>4 DEF OpenBooks, Keeping
  <2>3. Keeping(t.row)
    BY <1>4, <2>1, <2>2 DEF Keeping
  <2>4. t.row.status \in OpenStatuses
    BY <1>4 DEF OpenStatuses
  <2>5. Books(t.row) /\ Follows(order[o], t.row)
    BY <1>1, <1>4, <2>3, <2>4, StaysOpen DEF OpenBooks
  <2>6. Units(t.row) = Units(order[o])
    BY <1>4, <2>1, <2>2, KeepsUnits
  <2> QED
    BY <1>4, <2>5, <2>6, Done
<1>5. CASE create_dispute(o) \/ seller_respond_dispute(o)
  <2> DEFINE a == [order[o] EXCEPT !.answered = TRUE]
             b == [order[o] EXCEPT !.open = TRUE, !.case = @ + 1,
                                   !.answered = FALSE, !.remedy = FALSE]
             F == {"open", "case", "answered", "remedy"}
  <2>1. ASSUME NEW q, Only(order[o], q, F), order' = [order EXCEPT ![o] = q],
               UNCHANGED <<wallet, fund, stock, provisioning>>,
               order[o].open => q.case = order[o].case
        PROVE  StepOn(o)
    <3>1. /\ q.kind = order[o].kind /\ q.held = order[o].held /\ q.status = order[o].status
          /\ q.refunds = order[o].refunds /\ q.refunded = order[o].refunded
          /\ q.clock = order[o].clock
      BY <2>1 DEF Only, NoRow
    <3>2. Only(order[o], q, StayFields)
      BY <2>1 DEF Only, StayFields
    <3>3. Booked(q) /\ Free(q) /\ Keeping(q) /\ order[o].refunded <= q.refunded
      BY <1>1, <2>1, <3>1 DEF OpenBooks, Booked, Free, Keeping
    <3>4. order[o].open => CaseOnly(order[o], q)
      BY <2>1, <3>1 DEF CaseOnly
    <3>5. Books(q) /\ Follows(order[o], q)
      BY <1>1, <3>1, <3>2, <3>3, <3>4, StaysOpen DEF OpenBooks
    <3>6. Units(q) = Units(order[o])
      BY <3>1, KeepsUnits
    <3>7. F \cap MoneyFields = {}
      BY DEF MoneyFields
    <3> HIDE DEF F
    <3> QED
      BY <2>1, <3>5, <3>6, <3>7, RowBooks
  <2>2. CASE create_dispute(o)
    <3>1. order' = [order EXCEPT ![o] = b] /\ UNCHANGED <<wallet, fund, stock, provisioning>>
      BY <2>2 DEF create_dispute
    <3>2. Only(order[o], b, F) /\ ~order[o].open
      BY <1>2, <2>2 DEF Row, Only, NoRow, create_dispute
    <3> HIDE DEF b, F
    <3> QED
      BY <2>1, <3>1, <3>2
  <2>3. CASE seller_respond_dispute(o)
    <3>1. order' = [order EXCEPT ![o] = a] /\ UNCHANGED <<wallet, fund, stock, provisioning>>
      BY <2>3 DEF seller_respond_dispute
    <3>2. Only(order[o], a, F) /\ a.case = order[o].case
      BY <1>2 DEF Row, Only, NoRow
    <3> HIDE DEF a, F
    <3> QED
      BY <2>1, <3>1, <3>2
  <2> QED
    BY <1>5, <2>2, <2>3
<1>6. CASE refund_dispute(o)
  <2> DEFINE c == CloseCase(Tx(o))
             s == SetStatus(c, "refunded")
             left == Remaining(order[o])
             t == IF left = 0 THEN s ELSE refund_escrow(s, Whole, left)
  <2>1. Commit(o, Clawbacks(t)) /\ stock' = stock /\ provisioning' = provisioning
    BY <1>6 DEF refund_dispute
  <2>2. "refunded" \in OrderStatus
    BY DEF OrderStatus, ClosedStatuses
  <2>3. Sound(c) /\ OnCase(o, c) /\ ~c.row.open
    BY <1>2 DEF OnCase
  <2>a. Flags(Tx(o), c, {"open"})
    BY <1>1, PlainBooks DEF OpenBooks
  <2> HIDE DEF c
  <2>4. /\ Sound(s) /\ s.row.status = "refunded" /\ SamePay(c.row, s.row)
    BY <2>2, <2>3, PlainSound
  <2>5. Flags(c, s, {"status"})
    BY <2>2, <2>3, PlainBooks
  <2> HIDE DEF s
  <2>6. /\ Only(order[o], s.row, {"open", "status"}) /\ Money(s) = Money(Tx(o))
    BY <1>2, <2>5, <2>a DEF Flags, Only
  <2>7. /\ s.row.refunds = order[o].refunds /\ s.row.refunded = order[o].refunded
        /\ s.row.total = order[o].total /\ s.row.kind = order[o].kind
        /\ s.row.subsidy = order[o].subsidy /\ s.row.commission = order[o].commission
        /\ s.row.cashback = order[o].cashback
    BY <2>6 DEF Only, NoRow
  <2>8. ~s.row.open
    BY <2>3, <2>5 DEF Flags, Only, NoRow
  <2>9. /\ order[o].total \in Nat /\ order[o].refunded \in Nat
        /\ left = order[o].total - order[o].refunded /\ left \in Nat
    BY <1>1 DEF OpenBooks, Row, Remaining
  <2>10. /\ Only(s.row, t.row, {"refunded", "refunds"}) /\ Booked(t.row)
         /\ order[o].refunded <= t.row.refunded /\ Money(t) = Money(s)
         /\ s.row.kind # "task" => t.row.refunded = s.row.total
    <3>1. Booked(s.row)
      BY <1>1, <2>7 DEF OpenBooks, Booked
    <3>2. CASE left = 0
      <4>1. t = s
        BY <3>2
      <4> HIDE DEF t
      <4> QED
        BY <2>7, <2>9, <3>1, <3>2, <4>1 DEF Only
    <3>3. CASE left # 0
      <4>1. t = refund_escrow(s, Whole, left)
        BY <3>3
      <4> HIDE DEF t
      <4>2. Refunds(s, t, Whole, left)
        BY <2>4, <2>9, <4>1, KeysOfRow, RefundBooks
      <4>3. s.row.kind # "task" => s.row.refunds[Whole] = 0
        BY <1>1, <2>7 DEF OpenBooks, Free
      <4> QED
        BY <2>7, <2>9, <3>1, <4>2, <4>3 DEF Refunds
    <3> QED
      BY <3>2, <3>3
  <2> HIDE DEF t
  <2>11. /\ t.row.status = "refunded" /\ t.row.kind = s.row.kind /\ t.row.total = s.row.total
         /\ t.row.held = order[o].held
         /\ t.row.subsidy = s.row.subsidy /\ t.row.commission = s.row.commission
         /\ t.row.cashback = s.row.cashback
    BY <2>4, <2>6, <2>10 DEF Only, NoRow
  <2>12. ~t.row.open
    BY <2>8, <2>10 DEF Only, NoRow
  <2>13. Only(order[o], t.row, {"status", "open", "held", "refunded", "refunds"})
    BY <2>6, <2>10 DEF Only
  <2>14. Unrewarded(t.row)
    BY <1>1, <2>7, <2>11 DEF OpenBooks, Unrewarded
  <2>15. Commit(o, t)
    BY <2>1, <2>14, NothingClawed
  <2>16. stock' = stock + (order[o].held - t.row.held)
    <3>1. stock \in Nat /\ order[o].held \in Nat
      BY <1>2 DEF IInv, TypeOK, Row
    <3> QED
      BY <2>1, <2>11, <3>1
  <2>17. t.row.kind # "task" => t.row.refunded = t.row.total
    BY <2>10, <2>11
  <2> QED
    BY <1>1, <2>1, <2>6, <2>10, <2>11, <2>12, <2>13, <2>15, <2>16, <2>17, CancelsOrder
<1>7. CASE replace_dispute(o) \/ extend_warranty_dispute(o)
  <2> DEFINE c == CloseCase(Tx(o))
             d == SetStatus(c, "delivered")
             e == StartEscrow(d)
  <2>1. /\ InCase(o)
        /\ Commit(o, d) \/ Commit(o, e)
        /\ UNCHANGED <<stock, provisioning>>
    BY <1>7 DEF replace_dispute, extend_warranty_dispute, Resume
  <2>2. "delivered" \in OrderStatus
    BY DEF OrderStatus, OpenStatuses
  <2>3. Sound(c) /\ ~c.row.open
    BY <1>2 DEF OnCase
  <2>4. Flags(Tx(o), c, {"open"})
    BY <1>1, PlainBooks DEF OpenBooks
  <2> HIDE DEF c
  <2>5. Sound(d) /\ d.row.status = "delivered"
    <3>1. \A st \in OrderStatus : Sound(SetStatus(c, st)) /\ SetStatus(c, st).row.status = st
      BY <2>3, PlainSound
    <3> QED
      BY <2>2, <3>1
  <2>6. Flags(c, d, {"status"})
    BY <2>2, <2>3, PlainBooks
  <2> HIDE DEF d
  <2>7. Flags(d, e, {"clock"}) /\ e.row.clock = "running"
    BY <2>5, PlainBooks
  <2> HIDE DEF e
  <2>8. Only(order[o], d.row, {"open", "status"}) /\ Money(d) = Money(Tx(o))
    BY <1>2, <2>4, <2>6 DEF Flags, Only
  <2>9. ~d.row.open
    BY <2>3, <2>6 DEF Flags, Only, NoRow
  <2>10. ASSUME NEW t, Only(d.row, t.row, {"clock"}), Money(t) = Money(d), Commit(o, t),
                t.row.clock = "running" \/ t.row.clock = order[o].clock
         PROVE  StepOn(o)
    <3>1. Only(order[o], t.row, StayFields)
      BY <2>8, <2>10 DEF Only, StayFields
    <3>2. /\ t.row.refunds = order[o].refunds /\ t.row.refunded = order[o].refunded
          /\ t.row.kind = order[o].kind /\ t.row.held = order[o].held
          /\ t.row.status = d.row.status
      BY <2>8, <2>10 DEF Only, NoRow
    <3>3. ~t.row.open
      BY <2>9, <2>10 DEF Only, NoRow
    <3>4. Booked(t.row) /\ Free(t.row) /\ order[o].refunded <= t.row.refunded
      BY <1>1, <3>2 DEF OpenBooks, Booked, Free
    <3> QED
      BY <1>3, <1>4, <2>1, <2>5, <2>8, <2>10, <3>1, <3>2, <3>3, <3>4
  <2>11. CASE Commit(o, d)
    <3>1. d.row.clock = order[o].clock /\ Only(d.row, d.row, {"clock"})
      BY <2>8 DEF Only, NoRow
    <3> QED
      BY <2>10, <2>11, <3>1
  <2>12. CASE Commit(o, e)
    BY <2>7, <2>10, <2>12 DEF Flags
  <2> QED
    BY <2>1, <2>11, <2>12
<1>8. ASSUME NEW pct \in FeePercents, NEW actor \in {"seller", "admin"}, NEW key \in LineKeys,
             NEW amount \in Nat, resolve_lines(o, actor, key, amount, pct)
      PROVE  StepOn(o)
  <2> DEFINE r == [order[o] EXCEPT !.remedy = TRUE, !.answered = @ \/ actor = "seller"]
             s == [Tx(o) EXCEPT !.row = r]
             paid == IF amount = 0 THEN s ELSE refund_escrow(s, <<key, s.row.case>>, amount)
  <2>1. /\ InCase(o) /\ UNCHANGED <<stock, provisioning>>
        /\ amount = 0 \/ CanRefund(Tx(o), amount)
    BY <1>8 DEF resolve_lines
  <2>2. Commit(o, IF paid.row.refunded = paid.row.total THEN finalize_dispute(paid, pct) ELSE paid)
    BY <1>8 DEF resolve_lines
  <2>3. s = [row |-> r, wallet |-> wallet, fund |-> fund]
    <3> HIDE DEF r
    <3> QED
      BY DEF Tx
  <2>4. r \in Row
    <3>1. ASSUME NEW x \in BOOLEAN
          PROVE  [order[o] EXCEPT !.remedy = TRUE, !.answered = x] \in Row
      BY <1>2 DEF Row
    <3>2. (order[o].answered \/ actor = "seller") \in BOOLEAN
      BY Zenon
    <3> QED
      BY <3>1, <3>2
  <2>5. Only(order[o], r, {"open", "answered", "remedy"}) /\ r.case = order[o].case
    BY <1>2 DEF Row, Only, NoRow
  <2> HIDE DEF r
  <2>6. s.row = r /\ s.wallet = wallet /\ s.fund = fund
    BY <2>3
  <2>7. Sound(s)
    <3>1. SamePay(order[o], r)
      BY <2>5 DEF SamePay, Only, NoRow
    <3>2. Sound(Tx(o)) /\ Tx(o).wallet = wallet /\ Tx(o).fund = fund
      BY <1>2 DEF OnCase, Tx
    <3>3. Sound([row |-> r, wallet |-> Tx(o).wallet, fund |-> Tx(o).fund])
      BY <1>2, <2>4, <3>1, <3>2, RowOnly
    <3> QED
      BY <2>3, <3>2, <3>3
  <2> HIDE DEF s
  <2>8. OnCase(o, s)
    <3>1. Flags(Tx(o), s, {"open", "answered", "remedy"})
      <4>1. {"open", "answered", "remedy"} \cap MoneyFields = {}
        BY DEF MoneyFields
      <4>2. s = [row |-> r, wallet |-> Tx(o).wallet, fund |-> Tx(o).fund]
        BY <2>3 DEF Tx
      <4> QED
        BY <1>2, <2>5, <4>1, <4>2, FlagsOf
    <3> QED
      BY <1>2, <2>7, <3>1, CaseRow DEF Flags
  <2>9. s.row.case \in 1..MaxCases /\ s.row.case = order[o].case /\ (amount # 0 => CanRefund(s, amount))
    <3>1. CanRefund(Tx(o), amount) => CanRefund(s, amount)
      BY <1>2, <2>5, <2>6 DEF Only, NoRow, CanRefund, Remaining
    <3> QED
      BY <1>3, <2>1, <2>5, <2>6, <3>1
  <2>10. /\ OnCase(o, paid)
         /\ \A k \in RefundKeys : k # <<key, order[o].case>> => paid.row.refunds[k] = order[o].refunds[k]
    <3>1. s.row.refunds = order[o].refunds
      BY <2>5, <2>6 DEF Only, NoRow
    <3>2. CASE amount = 0
      <4>1. paid = s
        BY <3>2
      <4> HIDE DEF paid
      <4> QED
        BY <2>8, <3>1, <4>1
    <3>3. CASE amount # 0
      <4>1. paid = refund_escrow(s, <<key, s.row.case>>, amount)
        BY <3>3
      <4> HIDE DEF paid
      <4>2. key \in LineKeys \cup {":seller-timeout", ":admin-partial"}
        OBVIOUS
      <4> QED
        BY <1>1, <2>8, <2>9, <3>1, <3>3, <4>1, <4>2, CaseRefund
    <3> QED
      BY <3>2, <3>3
  <2> HIDE DEF paid
  <2>11. CASE paid.row.refunded = paid.row.total
    BY <1>1, <2>1, <2>2, <2>10, <2>11, FinalizesOrder
  <2>12. CASE paid.row.refunded # paid.row.total
    <3>1. Commit(o, paid)
      BY <2>2, <2>12
    <3>2. Only(order[o], paid.row, CaseFields)
      BY <2>10 DEF OnCase
    <3>3. /\ Only(order[o], paid.row, StayFields) /\ paid.row.status = order[o].status
          /\ paid.row.held = order[o].held /\ paid.row.clock = order[o].clock
          /\ paid.row.case = order[o].case
      BY <3>2 DEF Only, NoRow, CaseFields, StayFields
    <3>4. CaseOnly(order[o], paid.row)
      BY <2>10, <3>3 DEF CaseOnly
    <3> QED
      BY <1>3, <1>4, <2>1, <2>10, <3>1, <3>3, <3>4 DEF OnCase
  <2> QED
    BY <2>11, <2>12
<1>9. ASSUME NEW pct \in FeePercents,
             accept_dispute_resolution(o, pct) \/ resolve_abandoned_dispute(o, pct)
      PROVE  StepOn(o)
  <2>1. /\ Commit(o, finalize_dispute(Tx(o), pct))
        /\ stock' = stock /\ provisioning' = provisioning
    BY <1>9 DEF accept_dispute_resolution, resolve_abandoned_dispute
  <2> QED
    BY <1>1, <1>2, <2>1, FinalizesOrder
<1>10. ASSUME NEW pct \in FeePercents, resolve_dispute_after_seller_timeout(o, pct)
       PROVE  StepOn(o)
  <2> DEFINE left == Remaining(order[o])
             paid == IF left = 0 THEN Tx(o)
                     ELSE refund_escrow(Tx(o), <<":seller-timeout", order[o].case>>, left)
  <2>1. /\ InCase(o) /\ Commit(o, finalize_dispute(paid, pct))
        /\ stock' = stock /\ provisioning' = provisioning
    BY <1>10 DEF resolve_dispute_after_seller_timeout
  <2>2. OnCase(o, paid)
    <3>1. CASE left = 0
      BY <1>2, <3>1
    <3>2. CASE left # 0
      <4>1. paid = refund_escrow(Tx(o), <<":seller-timeout", order[o].case>>, left)
        BY <3>2
      <4>2. left \in Nat /\ CanRefund(Tx(o), left)
        BY <1>1, <3>2 DEF OpenBooks, CanRefund
      <4>3. order[o].case \in 1..MaxCases
        BY <1>3, <2>1
      <4> HIDE DEF paid, left
      <4> QED
        BY <1>1, <1>2, <4>1, <4>2, <4>3, CaseRefund
    <3> QED
      BY <3>1, <3>2
  <2> HIDE DEF paid
  <2> QED
    BY <1>1, <2>1, <2>2, FinalizesOrder
<1>11. ASSUME NEW pct \in FeePercents, withdraw_dispute(o, pct) \/ reject_dispute(o, pct)
       PROVE  StepOn(o)
  <2> DEFINE c == CloseCase(Tx(o))
  <2>1. /\ InCase(o)
        /\ Commit(o, c) \/ Commit(o, Settle(c, pct))
        /\ UNCHANGED <<stock, provisioning>>
    BY <1>11 DEF withdraw_dispute, reject_dispute
  <2>2. OnCase(o, c) /\ ~c.row.open
    BY <1>2
  <2> HIDE DEF c
  <2>3. CASE Commit(o, c)
    <3>1. Only(order[o], c.row, CaseFields)
      BY <2>2 DEF OnCase
    <3>2. /\ Only(order[o], c.row, StayFields) /\ c.row.status = order[o].status
          /\ c.row.held = order[o].held /\ c.row.clock = order[o].clock
      BY <3>1 DEF Only, NoRow, CaseFields, StayFields
    <3> QED
      BY <1>3, <1>4, <2>1, <2>2, <2>3, <3>2 DEF OnCase
  <2>4. CASE Commit(o, Settle(c, pct))
    BY <1>1, <2>1, <2>2, <2>4, SettlesOrder
  <2> QED
    BY <2>1, <2>3, <2>4
<1>12. ASSUME NEW pct \in FeePercents, NEW amount \in Nat, amount > 0,
              partial_refund_dispute(o, amount, pct)
       PROVE  StepOn(o)
  <2> DEFINE c == CloseCase(Tx(o))
             p == refund_escrow(c, <<":admin-partial", order[o].case>>, amount)
  <2>1. /\ InCase(o) /\ Commit(o, Settle(p, pct)) /\ amount < Remaining(order[o])
        /\ stock' = stock /\ provisioning' = provisioning
    BY <1>12 DEF partial_refund_dispute
  <2>2. OnCase(o, c) /\ ~c.row.open
    BY <1>2
  <2>3. CanRefund(c, amount)
    <3>1. Remaining(c.row) = Remaining(order[o])
      <4>1. Flags(Tx(o), c, {"open"})
        BY <1>1, PlainBooks DEF OpenBooks
      <4> HIDE DEF c
      <4> QED
        BY <1>2, <4>1 DEF Flags, Only, NoRow, Remaining
    <3>2. Remaining(order[o]) \in Nat
      BY <1>1 DEF OpenBooks
    <3> HIDE DEF c
    <3> QED
      BY <1>12, <2>1, <3>1, <3>2 DEF CanRefund
  <2>4. order[o].case \in 1..MaxCases
    BY <1>3, <2>1
  <2> HIDE DEF c
  <2>5. OnCase(o, p) /\ p.row.open = c.row.open
    BY <1>1, <2>2, <2>3, <2>4, CaseRefund
  <2> HIDE DEF p
  <2> QED
    BY <1>1, <2>1, <2>2, <2>5, SettlesOrder
<1>13. \A amount \in {0} \cup Amounts(o) : amount \in Nat
  BY <1>2 DEF Amounts, Row
<1>14. \A amount \in Amounts(o) : amount \in Nat /\ amount > 0
  BY <1>2 DEF Amounts, Row
<1> QED
  BY <1>5, <1>6, <1>7, <1>8, <1>9, <1>10, <1>11, <1>12, <1>13, <1>14 DEF Resolve

-----------------------------------------------------------------------------
(* The invariant of the specification *)

LEMMA StepBooks ==
  ASSUME IInv, BooksInv, NoSellerOvertaken, Next
  PROVE  \E o \in Orders : StepOn(o)
  BY CheckoutBooks, FulfilBooks, ResolveBooks, CloseBooks, SellerBooks DEF Next

(* What a step on one order does to the rows of all.                       *)
LEMMA OneRow ==
  ASSUME IInv, BooksInv, NEW o \in Orders, NEW s, Transacts(o, s)
  PROVE  /\ order' = [order EXCEPT ![o] = s.row] /\ order'[o] = s.row
         /\ \A p \in Orders : p # o => order'[p] = order[p]
  BY DEF Transacts, Commit, IInv, TypeOK

LEMMA KeepsBooks ==
  ASSUME IInv, BooksInv, NEW o \in Orders, StepOn(o)
  PROVE  BooksInv'
<1>1. CASE UNCHANGED <<order, wallet, fund, stock>>
  <2>1. \A p \in Orders : Books(order'[p])
    BY <1>1 DEF BooksInv
  <2>2. \A p \in provisioning' : order'[p].kind # "manual"
    BY <1>1 DEF BooksInv, StepOn
  <2> QED
    BY <2>1, <2>2 DEF BooksInv
<1>2. ASSUME NEW s, Transacts(o, s) PROVE BooksInv'
  <2>1. /\ order'[o] = s.row
        /\ \A p \in Orders : p # o => order'[p] = order[p]
    BY <1>2, OneRow
  <2>2. Books(s.row) /\ Follows(order[o], s.row)
    BY <1>2 DEF Transacts
  <2>3. \A p \in Orders : Books(order'[p])
    BY <2>1, <2>2 DEF BooksInv
  <2>4. ASSUME NEW p \in provisioning, p \in provisioning' PROVE order'[p].kind # "manual"
    <3>1. p \in Orders /\ order[p].status = "pending" /\ order[p].kind # "manual"
      BY DEF IInv, TypeOK, BooksInv
    <3> QED
      BY <2>1, <2>2, <3>1 DEF Follows, GoesOn
  <2>5. \A p \in provisioning' : order'[p].kind # "manual"
    BY <2>4 DEF StepOn
  <2> QED
    BY <2>3, <2>5 DEF BooksInv
<1> QED
  BY <1>1, <1>2 DEF StepOn

LEMMA BooksBegin == ASSUME Init PROVE BooksInv
<1>1. Books(NoRow)
  <2>1. NoRow.status = "none" /\ NoRow.kind = "none" /\ NoRow.hold = NoRow.total
        /\ NoRow.subsidy <= NoRow.discount /\ NoRow.held = 0
    BY DEF NoRow
  <2> QED
    BY <2>1, EmptyBooks DEF Books, Core, OpenStatuses, ClosedStatuses
<1> QED
  BY <1>1 DEF Init, BooksInv

LEMMA BooksStay ==
  ASSUME IInv, BooksInv, NoSellerOvertaken, [Next]_vars
  PROVE  IInv' /\ BooksInv'
<1>1. IInv'
  BY StepInv
<1>2. ASSUME Next PROVE BooksInv'
  BY <1>2, StepBooks, KeepsBooks
<1>3. ASSUME UNCHANGED vars PROVE BooksInv'
  BY <1>3 DEF vars, BooksInv
<1> QED
  BY <1>1, <1>2, <1>3

(* The status of a row is one of the three kinds.                          *)
LEMMA Statuses ==
  ASSUME IInv, NEW o \in Orders
  PROVE  order[o].status \in {"none"} \cup OpenStatuses \cup ClosedStatuses
  BY TxSound DEF Row, OrderStatus

(* A reward that stands, stands on a completed sale: cashback with nothing *)
(* refunded, commission within the fee; no handler, job or late seller     *)
(* call that was not overtaken leaves a reward beside a refund.            *)
THEOREM RewardsStand == Spec /\ []NoSellerOvertaken => []RewardsOnlyOnSettledSales
<1>1. Init => IInv /\ BooksInv
  BY InitInv, BooksBegin
<1>2. IInv /\ BooksInv /\ NoSellerOvertaken /\ [Next]_vars => IInv' /\ BooksInv'
  BY BooksStay
<1>3. IInv /\ BooksInv => RewardsOnlyOnSettledSales
  <2> SUFFICES ASSUME IInv, BooksInv, NEW o \in Orders
               PROVE  /\ order[o].cashback > 0 =>
                            order[o].status = "completed" /\ order[o].refunded = 0
                      /\ order[o].commission > 0 =>
                            order[o].status = "completed" /\ order[o].commission <= order[o].fee
    BY DEF RewardsOnlyOnSettledSales
  <2>1. Books(order[o])
    BY DEF BooksInv
  <2>2. CASE order[o].status = "none"
    BY <2>1, <2>2 DEF Books, NoRow
  <2>3. CASE order[o].status \in OpenStatuses
    BY <2>1, <2>3 DEF Books, Standing, Unrewarded
  <2>4. CASE order[o].status \in ClosedStatuses
    BY <2>1, <2>4 DEF Books, Divided, Unrewarded
  <2> QED
    BY <2>2, <2>3, <2>4, Statuses
<1> QED
  BY <1>1, <1>2, <1>3, PTL DEF Spec

(* Once an order is completed, refunded or cancelled, nothing but the      *)
(* state of its service tasks changes: no job, confirmation, dispute or    *)
(* seller call reopens it or moves its money again.                        *)
THEOREM ClosedIsFinal == Spec /\ []NoSellerOvertaken => ClosedStaysClosed
<1> DEFINE A == \A o \in Orders : order[o].status \in ClosedStatuses =>
                  [order'[o] EXCEPT !.task = order[o].task] = order[o]
<1>1. Init => IInv /\ BooksInv
  BY InitInv, BooksBegin
<1>2. IInv /\ BooksInv /\ NoSellerOvertaken /\ [Next]_vars => IInv' /\ BooksInv'
  BY BooksStay
<1>3. IInv /\ BooksInv /\ NoSellerOvertaken /\ Next => A
  <2> SUFFICES ASSUME IInv, BooksInv, NoSellerOvertaken, Next,
                      NEW p \in Orders, order[p].status \in ClosedStatuses
               PROVE  [order'[p] EXCEPT !.task = order[p].task] = order[p]
    OBVIOUS
  <2>1. order[p] \in Row /\ order'[p] \in Row
    <3>1. IInv'
      BY StepInv
    <3> QED
      BY <3>1 DEF IInv, TypeOK
  <2>2. Only(order[p], order'[p], {"task"})
    <3>1. PICK o \in Orders : StepOn(o)
      BY StepBooks
    <3>2. CASE UNCHANGED <<order, wallet, fund, stock>>
      BY <3>2 DEF Only
    <3>3. ASSUME NEW s, Transacts(o, s) PROVE Only(order[p], order'[p], {"task"})
      <4>1. Follows(order[o], s.row)
        BY <3>3 DEF Transacts
      <4> QED
        BY <3>3, <4>1, OneRow DEF Follows, Only
    <3> QED
      BY <3>1, <3>2, <3>3 DEF StepOn
  <2> DEFINE r == order[p]
             q == order'[p]
  <2>3. \A f \in DOMAIN NoRow : [q EXCEPT !.task = r.task][f] = r[f]
    BY <2>1, <2>2 DEF Only, Row, NoRow
  <2> QED
    BY <2>1, <2>3 DEF Row, NoRow
<1> QED
  BY <1>1, <1>2, <1>3, PTL DEF Spec, ClosedStaysClosed

(* As long as a case stays open the order stays delivered, nothing of it   *)
(* is released or rewarded, and only remedies of that very case refund:    *)
(* neither a job nor a confirmation nor an admin's settlement reaches it.  *)
THEOREM CaseFreezes == Spec /\ []NoSellerOvertaken => CaseFreezesEscrow
<1> DEFINE A == \A o \in Orders : order[o].open /\ order'[o].open => Freezes(order[o], order'[o])
<1>1. Init => IInv /\ BooksInv
  BY InitInv, BooksBegin
<1>2. IInv /\ BooksInv /\ NoSellerOvertaken /\ [Next]_vars => IInv' /\ BooksInv'
  BY BooksStay
<1>3. IInv /\ BooksInv /\ NoSellerOvertaken /\ Next => A
  <2> SUFFICES ASSUME IInv, BooksInv, NoSellerOvertaken, Next,
                      NEW p \in Orders, order[p].open, order'[p].open
               PROVE  Freezes(order[p], order'[p])
    OBVIOUS
  <2>1. RowInv(order[p]) /\ order[p].status = "delivered"
    BY TxSound DEF RowInv
  <2>2. IInv' /\ BooksInv'
    BY StepInv, BooksStay DEF Next
  <2>3. /\ order'[p] \in Row /\ order'[p].status = "delivered" /\ Unpaid(order'[p])
        /\ Unrewarded(order'[p])
    <3>1. RowInv(order'[p]) /\ order'[p] \in Row /\ Books(order'[p])
      BY <2>2 DEF IInv, TypeOK, BooksInv
    <3>2. order'[p].status = "delivered"
      BY <3>1 DEF RowInv
    <3> QED
      BY <3>1, <3>2 DEF RowInv, Books, Standing, OpenStatuses, ClosedStatuses
  <2>4. CaseOnly(order[p], order'[p])
    <3>1. PICK o \in Orders : StepOn(o)
      BY StepBooks
    <3>2. CASE order'[p] = order[p]
      BY <3>2 DEF CaseOnly
    <3>3. ASSUME NEW s, Transacts(o, s), p = o PROVE CaseOnly(order[p], order'[p])
      <4>1. Follows(order[o], s.row) /\ order'[o] = s.row
        BY <3>3, OneRow DEF Transacts
      <4> QED
        BY <3>3, <4>1 DEF Follows
    <3>4. ASSUME NEW s, Transacts(o, s), p # o PROVE order'[p] = order[p]
      BY <3>4, OneRow
    <3> QED
      BY <3>1, <3>2, <3>3, <3>4 DEF StepOn
  <2>5. /\ order'[p].release + order'[p].fee + order'[p].subsidy = 0
        /\ order'[p].cashback + order'[p].commission = 0
    BY <2>3 DEF Unpaid, Unrewarded
  <2> QED
    BY <2>1, <2>3, <2>4, <2>5 DEF Freezes, CaseOnly
<1> QED
  BY <1>1, <1>2, <1>3, PTL DEF Spec, CaseFreezesEscrow

-----------------------------------------------------------------------------
(* Stock *)

(* A set that gains or loses one element. *)
LEMMA CountMoves ==
  ASSUME NEW S, NEW T, NEW x, IsFiniteSet(S), IsFiniteSet(T), S \ {x} = T \ {x}
  PROVE  /\ Cardinality(S) \in Nat /\ Cardinality(T) \in Nat
         /\ Cardinality(T) + (IF x \in S THEN 1 ELSE 0) = Cardinality(S) + (IF x \in T THEN 1 ELSE 0)
<1> DEFINE R == S \ {x}
<1>1. IsFiniteSet(R) /\ Cardinality(R) \in Nat /\ Cardinality(S) \in Nat /\ Cardinality(T) \in Nat
  <2>1. IsFiniteSet(R)
    BY FS_RemoveElement
  <2> QED
    BY <2>1, FS_CardinalityType
<1>2. Cardinality(S) = Cardinality(R) + (IF x \in S THEN 1 ELSE 0)
  <2>1. CASE x \in S
    <3>1. Cardinality(R) = Cardinality(S) - 1
      BY <2>1, FS_RemoveElement
    <3> HIDE DEF R
    <3> QED
      BY <1>1, <2>1, <3>1
  <2>2. CASE x \notin S
    <3>1. R = S
      BY <2>2
    <3> HIDE DEF R
    <3> QED
      BY <1>1, <2>2, <3>1
  <2> QED
    BY <2>1, <2>2
<1>3. Cardinality(T) = Cardinality(R) + (IF x \in T THEN 1 ELSE 0)
  <2>0. R = T \ {x}
    OBVIOUS
  <2>1. CASE x \in T
    <3>1. Cardinality(T \ {x}) = Cardinality(T) - 1
      BY <2>1, FS_RemoveElement
    <3> HIDE DEF R
    <3> QED
      BY <1>1, <2>0, <2>1, <3>1
  <2>2. CASE x \notin T
    <3>1. R = T
      BY <2>0, <2>2
    <3> HIDE DEF R
    <3> QED
      BY <1>1, <2>2, <3>1
  <2> QED
    BY <2>1, <2>2
<1> HIDE DEF R
<1> QED
  BY <1>1, <1>2, <1>3

(* A step moves units between the stock, the order and the used ones.     *)
LEMMA StockStep ==
  ASSUME IInv, BooksInv, NEW o \in Orders, NEW s, Transacts(o, s), StockConservation, IInv'
  PROVE  StockConservation'
<1> DEFINE f == [p \in Orders |-> order[p].held]
           g == [p \in Orders |-> order'[p].held]
           U == {p \in Orders : order[p].kind = "manual" /\ order[p].clock # "unset"}
           V == {p \in Orders : order'[p].kind = "manual" /\ order'[p].clock # "unset"}
<1>1. /\ order'[o] = s.row /\ s.row \in Row /\ order[o] \in Row
      /\ \A p \in Orders : p # o => order'[p] = order[p]
  <2>1. /\ order'[o] = s.row
        /\ \A p \in Orders : p # o => order'[p] = order[p]
    BY OneRow
  <2> QED
    BY <2>1 DEF IInv, TypeOK
<1>2. /\ Sum(f) \in Int
      /\ Sum(g) = Sum(f) + s.row.held - order[o].held
  <2>1. \A p \in Orders : f[p] \in Int /\ g[p] \in Int
    BY DEF IInv, TypeOK, Row
  <2>2. \A p \in Orders : p # o => g[p] = f[p]
    BY <1>1
  <2>3. f[o] = order[o].held /\ g[o] = s.row.held
    BY <1>1
  <2> HIDE DEF f, g
  <2>4. /\ SumFunctionOnSet(f, Orders) \in Int
        /\ SumFunctionOnSet(g, Orders)
             = SumFunctionOnSet(f, Orders) + Share(g, Orders, o) - Share(f, Orders, o)
    BY <2>1, <2>2, SumMoves
  <2> QED
    BY <2>3, <2>4 DEF Share, Sum
<1>3. /\ Cardinality(U) \in Nat /\ Cardinality(V) \in Nat
      /\ Cardinality(V) + Used(order[o]) = Cardinality(U) + Used(s.row)
  <2>1. IsFiniteSet(U) /\ IsFiniteSet(V)
    BY FS_Subset
  <2>2. U \ {o} = V \ {o}
    BY <1>1
  <2>3. o \in U <=> order[o].kind = "manual" /\ order[o].clock # "unset"
    OBVIOUS
  <2>4. o \in V <=> s.row.kind = "manual" /\ s.row.clock # "unset"
    BY <1>1
  <2> HIDE DEF U, V
  <2>5. /\ Cardinality(U) \in Nat /\ Cardinality(V) \in Nat
        /\ Cardinality(V) + (IF o \in U THEN 1 ELSE 0) = Cardinality(U) + (IF o \in V THEN 1 ELSE 0)
    BY <2>1, <2>2, CountMoves
  <2> QED
    BY <2>3, <2>4, <2>5 DEF Used
<1>4. /\ stock' + Units(s.row) = stock + Units(order[o])
      /\ stock \in Nat /\ stock' \in Nat
  BY DEF Transacts, IInv, TypeOK
<1>5. stock + Sum(f) + Cardinality(U) = InitialStock
  BY DEF StockConservation
<1>6. Used(s.row) \in Nat /\ Used(order[o]) \in Nat /\ s.row.held \in Nat /\ order[o].held \in Nat
  BY <1>1 DEF Used, Row
<1> HIDE DEF f, g, U, V
<1>7. stock' + Sum(g) + Cardinality(V) = InitialStock
  BY <1>2, <1>3, <1>4, <1>5, <1>6 DEF Units
<1> QED
  BY <1>7 DEF StockConservation, Sum, g, V

(* No unit of made-to-order stock is lost or invented: each is left, held  *)
(* by an order that waits for its goods, or used by one that was           *)
(* delivered, whatever is placed, cancelled, timed out or refunded.        *)
THEOREM StockConserved == Spec /\ []NoSellerOvertaken => []StockConservation
<1>1. Init => IInv /\ BooksInv
  BY InitInv, BooksBegin
<1>2. IInv /\ BooksInv /\ NoSellerOvertaken /\ [Next]_vars => IInv' /\ BooksInv'
  BY BooksStay
<1>3. Init => StockConservation
  <2> SUFFICES ASSUME Init PROVE StockConservation
    OBVIOUS
  <2> DEFINE f == [o \in Orders |-> order[o].held]
             U == {o \in Orders : order[o].kind = "manual" /\ order[o].clock # "unset"}
  <2>1. (\A o \in Orders : f[o] = 0) /\ U = {}
    BY DEF Init, NoRow
  <2> HIDE DEF f, U
  <2>2. Sum(f) = 0 /\ Cardinality(U) = 0
    BY <2>1, SumZero, FS_EmptySet DEF Sum
  <2> QED
    BY <2>2 DEF Init, StockConservation, f, U
<1>4. IInv /\ BooksInv /\ NoSellerOvertaken /\ StockConservation /\ [Next]_vars
        => StockConservation'
  <2> SUFFICES ASSUME IInv, BooksInv, NoSellerOvertaken, StockConservation, [Next]_vars
               PROVE  StockConservation'
    OBVIOUS
  <2>1. ASSUME order' = order, stock' = stock PROVE StockConservation'
    BY <2>1 DEF StockConservation
  <2>2. ASSUME Next PROVE StockConservation'
    <3>1. PICK o \in Orders : StepOn(o)
      BY <2>2, StepBooks
    <3>2. IInv'
      BY StepInv
    <3> QED
      BY <2>1, <3>1, <3>2, StockStep DEF StepOn
  <2> QED
    BY <2>1, <2>2 DEF vars
<1> QED
  BY <1>1, <1>2, <1>3, <1>4, PTL DEF Spec

-----------------------------------------------------------------------------
(* Reconciliation.  A task order of which a task had failed may be closed  *)
(* with a part of its money still in escrow.                               *)

(* Of every other order, what is left is what it holds in escrow.          *)
LEMMA RowBalances ==
  ASSUME "task" \notin Kinds, NEW r \in Row, RowInv(r), Books(r)
  PROVE  /\ InEscrow(r) = Left(r)
         /\ r.status \in {"none"} \cup OpenStatuses \cup ClosedStatuses
         /\ r.status \in ClosedStatuses => Left(r) = 0
         /\ r.status = "none" => r = NoRow
         /\ r.status \in OpenStatuses => Unpaid(r)
         /\ r.status \in {"refunded", "cancelled"} => r.refunded = r.total
<1>1. r \in Row /\ Books(r) /\ RowInv(r)
  OBVIOUS
<1>2. /\ r.total \in Nat /\ r.refunded \in Nat /\ r.release \in Nat /\ r.fee \in Nat
  BY <1>1 DEF Row
<1>3. r.kind # "task"
  BY <1>1 DEF Books, Core
<1>4. r.status \in {"none"} \cup OpenStatuses \cup ClosedStatuses
  BY DEF Row, OrderStatus
<1>5. CASE r.status = "none"
  <2>1. r = NoRow
    BY <1>1, <1>5 DEF Books
  <2>2. InEscrow(NoRow) = 0 /\ NoRow.status = "none"
    BY DEF InEscrow, NoRow, OpenStatuses
  <2> QED
    BY <2>1, <2>2, EmptyBooks DEF OpenStatuses, ClosedStatuses
<1>6. CASE r.status \in OpenStatuses
  <2>1. Unpaid(r) /\ r.status \notin ClosedStatuses /\ r.status # "none"
    BY <1>1, <1>6 DEF RowInv, OpenStatuses, ClosedStatuses
  <2>2. InEscrow(r) = Left(r)
    BY <1>2, <1>6, <2>1 DEF InEscrow, Left, Remaining, Unpaid
  <2> QED
    BY <1>4, <1>6, <2>1, <2>2 DEF OpenStatuses
<1>7. CASE r.status \in ClosedStatuses
  <2>1. Divided(r) /\ r.status \notin OpenStatuses /\ r.status # "none"
    BY <1>1, <1>7 DEF Books, OpenStatuses, ClosedStatuses
  <2>2. r.status # "completed" => r.refunded = r.total
    BY <1>3, <2>1 DEF Divided
  <2>3. Left(r) = 0
    BY <1>1, <1>2, <2>1, <2>2 DEF Divided, Left, RowInv, Within
  <2> QED
    BY <1>4, <2>1, <2>2, <2>3 DEF InEscrow
<1> QED
  BY <1>4, <1>5, <1>6, <1>7

(* A task order that is closed as refunded with less than its price.       *)
FallsShort(r) == r.kind = "task" /\ r.status = "refunded" /\ r.refunded < r.total

Reconciled(r) ==
  /\ r.hold = r.total /\ Booked(r) /\ r.subsidy <= r.discount
  /\ _check_order(r) \/ FallsShort(r)

LEMMA RowReconciles ==
  ASSUME NEW r \in Row, RowInv(r), Books(r)
  PROVE  Reconciled(r)
<1>1. /\ r.total \in Nat /\ r.refunded \in Nat /\ r.release \in Nat /\ r.fee \in Nat
      /\ r.refunded <= r.total
  BY DEF Row, RowInv, Within
<1>2. /\ r.subsidy <= r.discount /\ r.hold = r.total
      /\ SumFunctionOnSet(r.refunds, RefundKeys) = r.refunded
  BY DEF Books, Core, Booked
<1>3. r.status = "completed" => r.release + r.fee = r.total - r.refunded
  BY <1>1 DEF Books, Divided, Left, ClosedStatuses
<1>4. r.status \in OpenStatuses => r.release + r.fee + r.subsidy = 0
  <2> SUFFICES ASSUME r.status \in OpenStatuses PROVE r.release + r.fee + r.subsidy = 0
    OBVIOUS
  <2>1. r.release = 0 /\ r.fee = 0
    BY DEF RowInv, Unpaid, OpenStatuses, ClosedStatuses
  <2>2. r.subsidy = 0
    BY DEF Books, Standing, Unrewarded
  <2> QED
    BY <2>1, <2>2
<1>5. r.status = "refunded" => r.refunded = r.total \/ FallsShort(r)
  <2>1. ASSUME r.status = "refunded", r.kind # "task" PROVE r.refunded = r.total
    BY <2>1 DEF Books, Divided, ClosedStatuses
  <2> QED
    BY <1>1, <2>1 DEF FallsShort
<1>6. ASSUME ~FallsShort(r) PROVE _check_order(r)
  BY <1>2, <1>3, <1>4, <1>5, <1>6 DEF _check_order
<1> QED
  BY <1>2, <1>6 DEF Reconciled, Booked

(* The checks that the nightly job makes of every order hold after every   *)
(* transaction: the hold is the total, the refund rows add up, a completed *)
(* order paid out what was not refunded, an open one paid nothing, and a   *)
(* refunded one gave everything back.  The only order of which one of them *)
(* may fail is a task order, and the only one that may fail is the last.   *)
THEOREM OnlyTasksFallShort ==
  Spec /\ []NoSellerOvertaken => [](\A o \in Orders : Reconciled(order[o]))
<1>1. Init => IInv /\ BooksInv
  BY InitInv, BooksBegin
<1>2. IInv /\ BooksInv /\ NoSellerOvertaken /\ [Next]_vars => IInv' /\ BooksInv'
  BY BooksStay
<1>3. IInv /\ BooksInv => \A o \in Orders : Reconciled(order[o])
  BY RowReconciles, TxSound DEF BooksInv
<1> QED
  BY <1>1, <1>2, <1>3, PTL DEF Spec

(* Where no tasks are sold, the nightly job finds nothing wrong with an    *)
(* order.                                                                  *)
THEOREM OrdersReconcile ==
  ASSUME "task" \notin Kinds
  PROVE  Spec /\ []NoSellerOvertaken => []OrderBooks
<1>1. Init => IInv /\ BooksInv
  BY InitInv, BooksBegin
<1>2. IInv /\ BooksInv /\ NoSellerOvertaken /\ [Next]_vars => IInv' /\ BooksInv'
  BY BooksStay
<1>3. IInv /\ BooksInv => OrderBooks
  <2> SUFFICES ASSUME IInv, BooksInv, NEW o \in Orders PROVE _check_order(order[o])
    BY DEF OrderBooks
  <2>1. Reconciled(order[o])
    BY RowReconciles, TxSound DEF BooksInv
  <2>2. order[o].kind # "task"
    BY DEF BooksInv, Books, Core
  <2> QED
    BY <2>1, <2>2 DEF Reconciled, FallsShort
<1> QED
  BY <1>1, <1>2, <1>3, PTL DEF Spec

(* All wallets, and what the orders have left, are what came in.           *)
Balance ==
  Cash(wallet) + Sum([o \in Orders |-> Left(order[o])])
    = Funds + Sum([o \in Orders |-> PaidIn(order[o])])
            - Sum([o \in Orders |-> TookBack(order[o])])

(* One order's part of a sum over all orders. *)
LEMMA SumOfRows ==
  ASSUME NEW o \in Orders, NEW a, NEW b, NEW x, NEW y,
         a \in [Orders -> Int], b \in [Orders -> Int],
         \A p \in Orders : p # o => b[p] = a[p], a[o] = x, b[o] = y
  PROVE  Sum(a) \in Int /\ Sum(b) = Sum(a) + y - x
<1>1. /\ SumFunctionOnSet(a, Orders) \in Int
      /\ SumFunctionOnSet(b, Orders)
           = SumFunctionOnSet(a, Orders) + Share(b, Orders, o) - Share(a, Orders, o)
  <2>1. \A p \in Orders : a[p] \in Int /\ b[p] \in Int
    OBVIOUS
  <2> QED
    BY <2>1, SumMoves
<1> QED
  BY <1>1 DEF Share, Sum

(* A step moves money between the wallets, the order and the platform.     *)
LEMMA BalanceStep ==
  ASSUME IInv, BooksInv, NEW o \in Orders, NEW s, Transacts(o, s), Balance, IInv'
  PROVE  Balance'
<1> DEFINE a == [p \in Orders |-> Left(order[p])]
           b == [p \in Orders |-> PaidIn(order[p])]
           c == [p \in Orders |-> TookBack(order[p])]
           x == [p \in Orders |-> Left(order'[p])]
           y == [p \in Orders |-> PaidIn(order'[p])]
           z == [p \in Orders |-> TookBack(order'[p])]
<1>1. /\ order'[o] = s.row /\ s.row \in Row /\ order[o] \in Row
      /\ \A p \in Orders : p # o => order'[p] = order[p]
  <2>1. /\ order'[o] = s.row
        /\ \A p \in Orders : p # o => order'[p] = order[p]
    BY OneRow
  <2> QED
    BY <2>1 DEF IInv, TypeOK
<1>2. /\ a \in [Orders -> Int] /\ b \in [Orders -> Int] /\ c \in [Orders -> Int]
      /\ x \in [Orders -> Int] /\ y \in [Orders -> Int] /\ z \in [Orders -> Int]
  <2>1. \A p \in Orders : order[p] \in Row /\ order'[p] \in Row
    BY DEF IInv, TypeOK
  <2>2. \A p \in Orders :
          /\ Left(order[p]) \in Int /\ PaidIn(order[p]) \in Int /\ TookBack(order[p]) \in Int
          /\ Left(order'[p]) \in Int /\ PaidIn(order'[p]) \in Int /\ TookBack(order'[p]) \in Int
    BY <2>1, MoneyType
  <2> QED
    BY <2>2
<1>3. /\ \A p \in Orders : p # o => x[p] = a[p]
      /\ \A p \in Orders : p # o => y[p] = b[p]
      /\ \A p \in Orders : p # o => z[p] = c[p]
  BY <1>1
<1>4. /\ a[o] = Left(order[o]) /\ b[o] = PaidIn(order[o]) /\ c[o] = TookBack(order[o])
      /\ x[o] = Left(s.row) /\ y[o] = PaidIn(s.row) /\ z[o] = TookBack(s.row)
  BY <1>1
<1>5. Cash(wallet) + Sum(a) = Funds + Sum(b) - Sum(c)
  BY DEF Balance
<1>6. Cash(wallet) \in Nat /\ Cash(wallet') \in Nat /\ Funds \in Nat
  BY Cashes DEF IInv, TypeOK
<1>7. Money(s) = Money(Tx(o)) /\ s.wallet = wallet'
  BY DEF Transacts, Commit
<1>8. /\ Left(order[o]) \in Int /\ PaidIn(order[o]) \in Int /\ TookBack(order[o]) \in Int
      /\ Left(s.row) \in Int /\ PaidIn(s.row) \in Int /\ TookBack(s.row) \in Int
  BY <1>1, MoneyType
<1> HIDE DEF a, b, c, x, y, z
<1>9. /\ Sum(a) \in Int /\ Sum(x) = Sum(a) + Left(s.row) - Left(order[o])
      /\ Sum(b) \in Int /\ Sum(y) = Sum(b) + PaidIn(s.row) - PaidIn(order[o])
      /\ Sum(c) \in Int /\ Sum(z) = Sum(c) + TookBack(s.row) - TookBack(order[o])
  <2>1. Sum(a) \in Int /\ Sum(x) = Sum(a) + Left(s.row) - Left(order[o])
    BY <1>2, <1>3, <1>4, SumOfRows
  <2>2. Sum(b) \in Int /\ Sum(y) = Sum(b) + PaidIn(s.row) - PaidIn(order[o])
    BY <1>2, <1>3, <1>4, SumOfRows
  <2>3. Sum(c) \in Int /\ Sum(z) = Sum(c) + TookBack(s.row) - TookBack(order[o])
    BY <1>2, <1>3, <1>4, SumOfRows
  <2> QED
    BY <2>1, <2>2, <2>3
<1>10. Cash(wallet') + Left(s.row) - PaidIn(s.row) + TookBack(s.row)
         = Cash(wallet) + Left(order[o]) - PaidIn(order[o]) + TookBack(order[o])
  BY <1>7 DEF Money, Tx
<1>11. Cash(wallet') + Sum(x) = Funds + Sum(y) - Sum(z)
  BY <1>5, <1>6, <1>8, <1>9, <1>10
<1> QED
  BY <1>11 DEF Balance, x, y, z, Cash

LEMMA BalanceKept ==
  /\ Init => Balance
  /\ IInv /\ BooksInv /\ NoSellerOvertaken /\ Balance /\ [Next]_vars => Balance'
<1>1. Init => Balance
  <2> SUFFICES ASSUME Init PROVE Balance
    OBVIOUS
  <2> DEFINE a == [o \in Orders |-> Left(order[o])]
             b == [o \in Orders |-> PaidIn(order[o])]
             c == [o \in Orders |-> TookBack(order[o])]
  <2>1. \A o \in Orders : a[o] = 0 /\ b[o] = 0 /\ c[o] = 0
    BY EmptyBooks DEF Init
  <2> HIDE DEF a, b, c
  <2>2. Sum(a) = 0 /\ Sum(b) = 0 /\ Sum(c) = 0
    BY <2>1, SumZero DEF Sum
  <2>3. Cash(wallet) = Funds
    BY DEF Init, Cash, Parties
  <2> QED
    BY <2>2, <2>3 DEF Balance, a, b, c
<1>2. IInv /\ BooksInv /\ NoSellerOvertaken /\ Balance /\ [Next]_vars => Balance'
  <2> SUFFICES ASSUME IInv, BooksInv, NoSellerOvertaken, Balance, [Next]_vars
               PROVE  Balance'
    OBVIOUS
  <2>1. ASSUME order' = order, wallet' = wallet PROVE Balance'
    BY <2>1 DEF Balance, Cash
  <2>2. ASSUME Next PROVE Balance'
    <3>1. PICK o \in Orders : StepOn(o)
      BY <2>2, StepBooks
    <3>2. IInv'
      BY StepInv
    <3> QED
      BY <2>1, <3>1, <3>2, BalanceStep DEF StepOn
  <2> QED
    BY <2>1, <2>2 DEF vars
<1> QED
  BY <1>1, <1>2

(* Money is neither made nor lost, whatever is sold: all the balances      *)
(* together with what the orders have left are the deposits and what the   *)
(* platform paid out of its own (commissions, promo subsidies, cashback)   *)
(* less what it took back.                                                 *)
THEOREM MoneyConserved == Spec /\ []NoSellerOvertaken => []Balance
<1>1. Init => IInv /\ BooksInv
  BY InitInv, BooksBegin
<1>2. IInv /\ BooksInv /\ NoSellerOvertaken /\ [Next]_vars => IInv' /\ BooksInv'
  BY BooksStay
<1> QED
  BY <1>1, <1>2, BalanceKept, PTL DEF Spec

(* Where no tasks are sold, what the orders have left is what the open     *)
(* ones hold in escrow: the platform's equation holds after every          *)
(* transaction and not only when the nightly job looks.                    *)
THEOREM PlatformReconciles ==
  ASSUME "task" \notin Kinds
  PROVE  Spec /\ []NoSellerOvertaken => []PlatformBooks
<1>1. Init => IInv /\ BooksInv
  BY InitInv, BooksBegin
<1>2. IInv /\ BooksInv /\ NoSellerOvertaken /\ [Next]_vars => IInv' /\ BooksInv'
  BY BooksStay
<1>3. IInv /\ BooksInv /\ Balance => PlatformBooks
  <2> SUFFICES ASSUME IInv, BooksInv, Balance PROVE PlatformBooks
    OBVIOUS
  <2>1. SumFunctionOnSet(wallet, Parties) = Cash(wallet)
    BY Cashes DEF IInv, TypeOK
  <2> DEFINE a == [o \in Orders |-> Left(order[o])]
             b == [o \in Orders |-> InEscrow(order[o])]
  <2>2. \A o \in Orders : a[o] = b[o]
    BY RowBalances, TxSound DEF BooksInv
  <2> HIDE DEF a, b
  <2>3. Sum(a) = Sum(b)
    BY <2>2, SumEqual DEF Sum
  <2> QED
    BY <2>1, <2>3 DEF Balance, PlatformBooks, a, b
<1> QED
  BY <1>1, <1>2, <1>3, BalanceKept, PTL DEF Spec

-----------------------------------------------------------------------------
(* The contract *)

(* A row of a legal phase. *)
Phased(r) ==
  /\ r.total \in Nat /\ r.refunded \in Nat /\ r.refunded <= r.total
  /\ r.status = "none" => Phase(r.status) = "none" /\ r = NoRow
  /\ r.status \in OpenStatuses => Phase(r.status) = "held" /\ r.release + r.fee = 0
  /\ r.status \in ClosedStatuses =>
       Phase(r.status) = "closed" /\ r.release + r.fee = r.total - r.refunded
  /\ r.status \in {"none"} \cup OpenStatuses \cup ClosedStatuses
  /\ r.status = "cancelled" => r.refunded = r.total

LEMMA RowPhase ==
  ASSUME "task" \notin Kinds, NEW r \in Row, RowInv(r), Books(r)
  PROVE  Phased(r)
<1>1. /\ r \in Row /\ RowInv(r)
      /\ r.status \in ClosedStatuses => Left(r) = 0
      /\ r.status = "none" => r = NoRow
      /\ r.status \in OpenStatuses => Unpaid(r)
      /\ r.status \in {"refunded", "cancelled"} => r.refunded = r.total
      /\ r.status \in {"none"} \cup OpenStatuses \cup ClosedStatuses
  BY RowBalances
<1>2. /\ r.total \in Nat /\ r.refunded \in Nat /\ r.release \in Nat /\ r.fee \in Nat
      /\ r.refunded <= r.total
  BY <1>1 DEF Row, RowInv, Within
<1>3. /\ r.status = "none" => Phase(r.status) = "none"
      /\ r.status \in OpenStatuses => Phase(r.status) = "held"
      /\ r.status \in ClosedStatuses => Phase(r.status) = "closed"
  BY DEF Phase, OpenStatuses, ClosedStatuses
<1> QED
  BY <1>1, <1>2, <1>3 DEF Phased, Left, Unpaid

(* Records of the contract are equal when their fields are.                *)
LEMMA SameHeld ==
  ASSUME NEW x \in Contract!Held, NEW y \in Contract!Held, x.phase = y.phase,
         x.total = y.total, x.toBuyer = y.toBuyer, x.toSeller = y.toSeller
  PROVE  x = y
  BY DEF Contract!Held

(* A transaction on one order is a step of the contract, or moves none of  *)
(* the order's money.                                                      *)
LEMMA ContractStep ==
  ASSUME NEW o \in Orders, \A p \in Orders : p # o => order'[p] = order[p],
         Phased(order[o]), Phased(order'[o]), Follows(order[o], order'[o])
  PROVE  [Contract!Next]_MoneyView
<1> DEFINE r == order[o]
           q == order'[o]
           old == MoneyView[o]
           new == MoneyView'[o]
<1>1. MoneyView' = [MoneyView EXCEPT ![o] = new]
  BY DEF MoneyView
<1>2. /\ old.phase = Phase(r.status) /\ old.total = r.total
      /\ old.toBuyer = r.refunded /\ old.toSeller = r.release + r.fee
      /\ new.phase = Phase(q.status) /\ new.total = q.total
      /\ new.toBuyer = q.refunded /\ new.toSeller = q.release + q.fee
  BY DEF MoneyView
<1>3. old \in Contract!Held /\ new \in Contract!Held
  <2>1. /\ Phase(r.status) \in {"none", "held", "closed"} /\ r.release + r.fee \in Nat
        /\ Phase(q.status) \in {"none", "held", "closed"} /\ q.release + q.fee \in Nat
    <3>1. NoRow.release + NoRow.fee = 0
      BY DEF NoRow
    <3> QED
      BY <3>1 DEF Phased
  <2>2. /\ r.total \in Nat /\ r.refunded \in Nat /\ q.total \in Nat /\ q.refunded \in Nat
    BY DEF Phased
  <2> QED
    BY <2>1, <2>2 DEF MoneyView, Contract!Held
<1> HIDE DEF old, new
<1>4. CASE r.status = "none"
  <2>1. r = NoRow /\ Opens(q) /\ old.phase = "none"
    BY <1>2, <1>4 DEF Phased, Follows
  <2>2. q.total \in Costs /\ q.total \in Nat
    BY <2>1 DEF Opens, Phased
  <2>3. CASE q.status \in OpenStatuses /\ q.refunded = 0
    <3> DEFINE e == [Contract!Empty EXCEPT !.phase = "held", !.total = q.total]
    <3>1. e \in Contract!Held /\ e.phase = "held" /\ e.total = q.total /\ e.toBuyer = 0 /\ e.toSeller = 0
      BY <2>2 DEF Contract!Empty, Contract!Held
    <3>2. new.phase = "held" /\ new.total = q.total /\ new.toBuyer = 0 /\ new.toSeller = 0
      BY <1>2, <2>3 DEF Phased
    <3> HIDE DEF e
    <3>3. new = e
      BY <1>3, <3>1, <3>2, SameHeld
    <3>4. Contract!Pay(o, q.total)
      BY <1>1, <2>1, <3>3 DEF Contract!Pay, Contract!Put, e, old
    <3> QED
      BY <2>2, <3>4 DEF Contract!Next
  <2>4. CASE q.status = "cancelled"
    <3> DEFINE e == [Contract!Empty EXCEPT !.phase = "closed", !.total = q.total, !.toBuyer = q.total]
    <3>1. /\ e \in Contract!Held /\ e.phase = "closed" /\ e.total = q.total
          /\ e.toBuyer = q.total /\ e.toSeller = 0
      BY <2>2 DEF Contract!Empty, Contract!Held
    <3>2. new.phase = "closed" /\ new.total = q.total /\ new.toBuyer = q.total /\ new.toSeller = 0
      BY <1>2, <2>4 DEF Phased, ClosedStatuses
    <3> HIDE DEF e
    <3>3. new = e
      BY <1>3, <3>1, <3>2, SameHeld
    <3>4. Contract!Pay(o, q.total)
      BY <1>1, <2>1, <3>3 DEF Contract!Pay, Contract!Put, e, old
    <3> QED
      BY <2>2, <3>4 DEF Contract!Next
  <2> QED
    BY <2>1, <2>3, <2>4 DEF Opens
<1>5. CASE r.status \in ClosedStatuses
  <2>1. Only(r, q, {"task"})
    BY <1>5 DEF Follows
  <2>2. /\ q.status = r.status /\ q.total = r.total /\ q.refunded = r.refunded
        /\ q.release = r.release /\ q.fee = r.fee
    BY <2>1 DEF Only, NoRow
  <2>3. new = old
    BY <1>2, <1>3, <2>2, SameHeld
  <2>4. [MoneyView EXCEPT ![o] = old] = MoneyView
    BY DEF MoneyView, old
  <2> QED
    BY <1>1, <2>3, <2>4
<1>6. CASE r.status \in OpenStatuses
  <2> DEFINE amount == q.refunded - r.refunded
  <2>1. GoesOn(r, q) /\ r.status # "none"
    BY <1>6 DEF Follows, OpenStatuses
  <2>2. /\ amount \in 0..r.total /\ r.refunded + amount = q.refunded /\ q.refunded <= r.total
        /\ q.total = r.total /\ q.status # "none"
        /\ r.total \in Nat /\ r.refunded \in Nat /\ q.refunded \in Nat
    BY <2>1 DEF GoesOn, Phased
  <2>3. /\ old.phase = "held" /\ old.toSeller = 0 /\ old.total = r.total /\ old.toBuyer = r.refunded
    BY <1>2, <1>6 DEF Phased
  <2> HIDE DEF amount
  <2>4. CASE q.status \in OpenStatuses
    <3> DEFINE e == [old EXCEPT !.toBuyer = @ + amount]
    <3>1. /\ e \in Contract!Held /\ e.phase = "held" /\ e.total = r.total
          /\ e.toBuyer = q.refunded /\ e.toSeller = 0
      BY <1>3, <2>2, <2>3 DEF Contract!Held
    <3>2. new.phase = "held" /\ new.total = r.total /\ new.toBuyer = q.refunded /\ new.toSeller = 0
      BY <1>2, <2>2, <2>4 DEF Phased
    <3> HIDE DEF e
    <3>3. new = e
      BY <1>3, <3>1, <3>2, SameHeld
    <3>4. Contract!GiveBack(o, amount)
      BY <1>1, <2>2, <2>3, <3>3 DEF Contract!GiveBack, Contract!Put, e, old
    <3>5. amount \in 0..MoneyView[o].total
      BY <2>2, <2>3 DEF old
    <3> QED
      BY <3>4, <3>5 DEF Contract!Next
  <2>5. CASE q.status \in ClosedStatuses
    <3> DEFINE e == [old EXCEPT !.phase = "closed", !.toBuyer = @ + amount,
                                !.toSeller = old.total - (old.toBuyer + amount)]
    <3>1. /\ e \in Contract!Held /\ e.phase = "closed" /\ e.total = r.total
          /\ e.toBuyer = q.refunded /\ e.toSeller = r.total - q.refunded
      <4>1. r.total - q.refunded \in Nat
        BY <2>2
      <4> QED
        BY <1>3, <2>2, <2>3, <4>1 DEF Contract!Held
    <3>2. /\ new.phase = "closed" /\ new.total = r.total /\ new.toBuyer = q.refunded
          /\ new.toSeller = r.total - q.refunded
      BY <1>2, <2>2, <2>5 DEF Phased
    <3> HIDE DEF e
    <3>3. new = e
      BY <1>3, <3>1, <3>2, SameHeld
    <3>4. Contract!Divide(o, amount)
      BY <1>1, <2>2, <2>3, <3>3 DEF Contract!Divide, Contract!Put, e, old
    <3>5. amount \in 0..MoneyView[o].total
      BY <2>2, <2>3 DEF old
    <3> QED
      BY <3>4, <3>5 DEF Contract!Next
  <2> QED
    BY <2>2, <2>4, <2>5 DEF Phased
<1> QED
  BY <1>4, <1>5, <1>6 DEF Phased

(* The whole machinery of checkout, fulfilment, timers, disputes and       *)
(* settlements implements the contract: a payment is held, parts of it may *)
(* go back to the buyer, one step divides the rest to the last dong, and   *)
(* then nothing moves.                                                     *)
THEOREM ImplementsContract ==
  ASSUME "task" \notin Kinds
  PROVE  Spec /\ []NoSellerOvertaken => KeepsContract
<1>1. Init => IInv /\ BooksInv
  BY InitInv, BooksBegin
<1>2. IInv /\ BooksInv /\ NoSellerOvertaken /\ [Next]_vars => IInv' /\ BooksInv'
  BY BooksStay
<1>3. Init => Contract!Init
  <2>1. Phase("none") = "none"
    BY DEF Phase, OpenStatuses, ClosedStatuses
  <2> QED
    BY <2>1 DEF Init, Contract!Init, Contract!Empty, MoneyView, NoRow
<1>4. IInv /\ BooksInv /\ NoSellerOvertaken /\ IInv' /\ BooksInv' /\ [Next]_vars
        => [Contract!Next]_MoneyView
  <2> SUFFICES ASSUME IInv, BooksInv, NoSellerOvertaken, IInv', BooksInv', [Next]_vars
               PROVE  [Contract!Next]_MoneyView
    OBVIOUS
  <2>1. ASSUME order' = order PROVE [Contract!Next]_MoneyView
    BY <2>1 DEF MoneyView
  <2>2. ASSUME Next PROVE [Contract!Next]_MoneyView
    <3>1. PICK o \in Orders : StepOn(o)
      BY <2>2, StepBooks
    <3>2. Phased(order[o]) /\ Phased(order'[o])
      <4>1. /\ order[o] \in Row /\ RowInv(order[o]) /\ Books(order[o])
            /\ order'[o] \in Row /\ RowInv(order'[o]) /\ Books(order'[o])
        BY DEF IInv, TypeOK, BooksInv
      <4> QED
        BY <4>1, RowPhase
    <3>3. ASSUME NEW s, Transacts(o, s) PROVE [Contract!Next]_MoneyView
      <4>1. /\ \A p \in Orders : p # o => order'[p] = order[p]
            /\ Follows(order[o], order'[o])
        BY <3>3, OneRow DEF Transacts
      <4> QED
        BY <3>2, <4>1, ContractStep
    <3> QED
      BY <2>1, <3>1, <3>3 DEF StepOn
  <2> QED
    BY <2>1, <2>2 DEF vars
<1> QED
  BY <1>1, <1>2, <1>3, <1>4, PTL DEF Spec, KeepsContract, Contract!Spec
=============================================================================
