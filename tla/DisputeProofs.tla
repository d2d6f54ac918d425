---------------------------- MODULE DisputeProofs ----------------------------
(***************************************************************************)
(* The timers and the money of a dispute, for any number of orders, lines  *)
(* and cases.  What a case holds is an invariant of the one order, kept by *)
(* every handler; what a job does with an old view of the order is bounded *)
(* by what the view may say, and the money at the end of a case is right   *)
(* in every behaviour in which no view is old.                             *)
(***************************************************************************)
EXTENDS DisputeCase, SumLemmas

USE ChoicesAssumption, LinesAssumption, NumbersAssumption

(* A line that was refunded is claimed no more, and what is claimed can    *)
(* still be replaced.                                                      *)
Shape(c) ==
  /\ c.refunded <= Total
  /\ IsOpen(c) => c.status = "delivered"
  /\ c.claimed \subseteq Lines \X (0..MAX_WARRANTY_CLAIM_GENERATION)
  /\ IsOpen(c) => \A l \in c.gone : Item(c, l) \in c.claimed => Item(c, l) \in c.remedied

Covered(c) ==
  IsOpen(c) /\ c.offer # "none" =>
    /\ c.claimed \subseteq c.remedied
    /\ c.claimed # {} \/ c.noted
    /\ ~c.review

Fits(c) ==
  c.status = "delivered" => c.refunded + SumFunctionOnSet(c.cap, Lines \ c.gone) = Total

CaseInv(c) == Shape(c) /\ Covered(c) /\ Fits(c)

(* Whatever the age of what a job has seen, it was never more than the     *)
(* total.                                                                  *)
Seen == \A j \in Jobs : \A o \in Orders : job[j].seen[o].refunded <= Total

IInv == TypeOK /\ (\A o \in Orders : CaseInv(case[o])) /\ Seen

Paid(c) ==
  /\ c.refunded = c.credited
  /\ c.released = IF c.status = "delivered" THEN 0 ELSE Total - c.credited

(* What a handler makes of a case. *)
Kept(c, d) == d \in Case /\ CaseInv(d) /\ (Paid(c) => Paid(d))

(* The fields CaseInv and Paid are about. *)
Same(c, d) ==
  /\ d.status = c.status /\ d.dispute = c.dispute /\ d.credited = c.credited
  /\ d.refunded = c.refunded /\ d.released = c.released /\ d.offer = c.offer
  /\ d.review = c.review /\ d.noted = c.noted /\ d.claimed = c.claimed
  /\ d.remedied = c.remedied /\ d.generation = c.generation /\ d.gone = c.gone /\ d.cap = c.cap

Closed == DisputeStatus \ {"open"}

-----------------------------------------------------------------------------
(* Cases, field by field. *)
LEMMA ZeroGeneration == [l \in Lines |-> 0] \in [Lines -> Generations]
  BY DEF Generations, MAX_WARRANTY_CLAIM_GENERATION

LEMMA Fields ==
  ASSUME NEW c \in Case
  PROVE  /\ \A x \in {"delivered", "completed", "refunded"} : [c EXCEPT !.status = x] \in Case
         /\ \A x \in DisputeStatus : [c EXCEPT !.dispute = x] \in Case
         /\ \A x \in 0..MaxCases : [c EXCEPT !.cases = x] \in Case
         /\ \A x \in Nat : /\ [c EXCEPT !.credited = x] \in Case
                           /\ [c EXCEPT !.refunded = x] \in Case
                           /\ [c EXCEPT !.released = x] \in Case
         /\ \A x \in {"running", "lapsed", "overdue"} : [c EXCEPT !.escrow = x] \in Case
         /\ \A x \in 0..MaxExtensions : [c EXCEPT !.extensions = x] \in Case
         /\ \A x \in BOOLEAN : /\ [c EXCEPT !.quiet = x] \in Case
                               /\ [c EXCEPT !.review = x] \in Case
                               /\ [c EXCEPT !.answered = x] \in Case
                               /\ [c EXCEPT !.noted = x] \in Case
         /\ \A x \in {"none", "running", "due"} : /\ [c EXCEPT !.deadline = x] \in Case
                                                  /\ [c EXCEPT !.offer = x] \in Case
         /\ \A x \in SUBSET Items : /\ [c EXCEPT !.claimed = x] \in Case
                                    /\ [c EXCEPT !.remedied = x] \in Case
         /\ \A x \in [Lines -> Generations] : [c EXCEPT !.generation = x] \in Case
         /\ \A x \in SUBSET Lines : [c EXCEPT !.gone = x] \in Case
         /\ \A x \in [Lines -> Nat] : [c EXCEPT !.cap = x] \in Case
<1>1. \A x \in {"delivered", "completed", "refunded"} : [c EXCEPT !.status = x] \in Case
  BY DEF Case
<1>2. \A x \in DisputeStatus : [c EXCEPT !.dispute = x] \in Case
  BY DEF Case
<1>3. \A x \in 0..MaxCases : [c EXCEPT !.cases = x] \in Case
  BY DEF Case
<1>4. \A x \in Nat : [c EXCEPT !.credited = x] \in Case
  BY DEF Case
<1>5. \A x \in Nat : [c EXCEPT !.refunded = x] \in Case
  BY DEF Case
<1>6. \A x \in Nat : [c EXCEPT !.released = x] \in Case
  BY DEF Case
<1>7. \A x \in {"running", "lapsed", "overdue"} : [c EXCEPT !.escrow = x] \in Case
  BY DEF Case
<1>8. \A x \in 0..MaxExtensions : [c EXCEPT !.extensions = x] \in Case
  BY DEF Case
<1>9. \A x \in BOOLEAN : [c EXCEPT !.quiet = x] \in Case
  BY DEF Case
<1>10. \A x \in BOOLEAN : [c EXCEPT !.review = x] \in Case
  BY DEF Case
<1>11. \A x \in BOOLEAN : [c EXCEPT !.answered = x] \in Case
  BY DEF Case
<1>12. \A x \in BOOLEAN : [c EXCEPT !.noted = x] \in Case
  BY DEF Case
<1>13. \A x \in {"none", "running", "due"} : [c EXCEPT !.deadline = x] \in Case
  BY DEF Case
<1>14. \A x \in {"none", "running", "due"} : [c EXCEPT !.offer = x] \in Case
  BY DEF Case
<1>15. \A x \in SUBSET Items : [c EXCEPT !.claimed = x] \in Case
  BY DEF Case
<1>16. \A x \in SUBSET Items : [c EXCEPT !.remedied = x] \in Case
  BY DEF Case
<1>17. \A x \in [Lines -> Generations] : [c EXCEPT !.generation = x] \in Case
  BY DEF Case
<1>18. \A x \in SUBSET Lines : [c EXCEPT !.gone = x] \in Case
  BY DEF Case
<1>19. \A x \in [Lines -> Nat] : [c EXCEPT !.cap = x] \in Case
  BY DEF Case
<1> QED
  BY <1>1, <1>2, <1>3, <1>4, <1>5, <1>6, <1>7, <1>8, <1>9, <1>10, <1>11, <1>12, <1>13, <1>14,
     <1>15, <1>16, <1>17, <1>18, <1>19

LEMMA SameKept ==
  ASSUME NEW c \in Case, CaseInv(c), NEW d \in Case, Same(c, d)
  PROVE  Kept(c, d)
<1>1. Shape(d)
  BY DEF Same, CaseInv, Shape, IsOpen, Item
<1>2. Covered(d)
  BY DEF Same, CaseInv, Covered, IsOpen
<1>3. Fits(d)
  BY DEF Same, CaseInv, Fits
<1>4. Paid(c) => Paid(d)
  BY DEF Same, Paid
<1> QED
  BY <1>1, <1>2, <1>3, <1>4 DEF Kept, CaseInv

(* A closed case whose order is settled. *)
LEMMA EndSound ==
  ASSUME NEW c \in Case, CaseInv(c), NEW d \in Case,
         d.status # "delivered", ~IsOpen(d), d.claimed = c.claimed, d.refunded <= Total
  PROVE  CaseInv(d)
  BY DEF CaseInv, Shape, Covered, Fits

LEMMA EndKept ==
  ASSUME NEW c \in Case, CaseInv(c), NEW d \in Case,
         d.status # "delivered", ~IsOpen(d), d.claimed = c.claimed, d.refunded <= Total,
         Paid(c) => Paid(d)
  PROVE  Kept(c, d)
<1>1. CaseInv(d)
  BY EndSound
<1> QED
  BY <1>1 DEF Kept

LEMMA CapsType ==
  ASSUME NEW c \in Case, NEW S \in SUBSET Lines
  PROVE  /\ IsFiniteSet(S) /\ SumFunctionOnSet(c.cap, S) \in Nat
         /\ \A l \in Lines : c.cap[l] \in Nat
<1>1. \A l \in Lines : c.cap[l] \in Nat
  BY DEF Case
<1>2. IsFiniteSet(S)
  BY FS_Subset
<1> QED
  BY <1>1, <1>2, SumNat

(* The shares of an amount. *)
LEMMA SplitsType ==
  ASSUME NEW amount \in Nat, NEW f \in Splits(amount)
  PROVE  f \in [Lines -> Nat] /\ SumFunctionOnSet(f, Lines) = amount
<1>1. Cardinality(Lines) \in Nat \ {0}
  BY FS_CardinalityType, FS_EmptySet
<1>2. amount \div Cardinality(Lines) \in Nat
  BY <1>1, SMT
<1> DEFINE base == amount \div Cardinality(Lines)
<1>3. base + 1 \in Nat /\ base \in Nat
  BY <1>2
<1>4. f \in [Lines -> {base, base + 1}] /\ SumFunctionOnSet(f, Lines) = amount
  BY DEF Splits
<1> HIDE DEF base
<1> QED
  BY <1>3, <1>4

-----------------------------------------------------------------------------
(* Settling. *)
Ended(c, d, outcome, status) ==
  /\ d \in Case /\ d.status = status /\ d.dispute = outcome /\ d.offer = "none"
  /\ d.refunded = c.refunded /\ d.credited = c.credited /\ d.released = c.released
  /\ d.claimed = c.claimed

LEMMA EndsType ==
  ASSUME NEW c \in Case, NEW outcome \in DisputeStatus,
         NEW status \in {"delivered", "completed", "refunded"}
  PROVE  Ended(c, [Ends(c, outcome) EXCEPT !.status = status], outcome, status)
<1> DEFINE d == [Ends(c, outcome) EXCEPT !.status = status]
<1>1. "none" \in {"none", "running", "due"}
  OBVIOUS
<1>2. d \in Case
  BY <1>1, Fields DEF Ends
<1>3. /\ d.status = status /\ d.dispute = outcome /\ d.offer = "none"
      /\ d.refunded = c.refunded /\ d.credited = c.credited /\ d.released = c.released
      /\ d.claimed = c.claimed
  BY DEF Ends, Case
<1> QED
  BY <1>2, <1>3 DEF Ended

LEMMA ReleaseType ==
  ASSUME NEW c \in Case, NEW amount \in Nat
  PROVE  LET d == release_escrow(c, amount)
         IN  /\ d \in Case /\ d.status = c.status /\ d.dispute = c.dispute /\ d.offer = c.offer
             /\ d.refunded = c.refunded /\ d.credited = c.credited /\ d.claimed = c.claimed
             /\ c.released = 0 => d.released = amount
<1> DEFINE d == [c EXCEPT !.released = amount]
<1>1. d \in Case
  BY Fields
<1>2. /\ d.status = c.status /\ d.dispute = c.dispute /\ d.offer = c.offer
      /\ d.refunded = c.refunded /\ d.credited = c.credited /\ d.claimed = c.claimed
      /\ d.released = amount
  BY DEF Case
<1>3. c.released = 0 => ~(c.released > 0)
  BY DEF Case
<1> HIDE DEF d
<1>4. release_escrow(c, amount) = IF c.released > 0 THEN c ELSE d
  BY DEF release_escrow, d
<1>5. CASE c.released > 0
  BY <1>3, <1>4, <1>5
<1>6. CASE ~(c.released > 0)
  BY <1>1, <1>2, <1>4, <1>6
<1> QED
  BY <1>5, <1>6

LEMMA FinalizeType ==
  ASSUME NEW c \in Case, NEW amount \in 0..Total, NEW outcome \in DisputeStatus
  PROVE  LET d == finalize_dispute(c, amount, outcome)
         IN  /\ d \in Case /\ d.status \in {"completed", "refunded"} /\ d.offer = "none"
             /\ d.dispute = IF amount = Total THEN "resolved_refund" ELSE outcome
             /\ d.refunded = c.refunded /\ d.credited = c.credited /\ d.claimed = c.claimed
             /\ c.released = 0 => d.released = Total - amount
<1> DEFINE r == [Ends(c, "resolved_refund") EXCEPT !.status = "refunded"]
           e == [Ends(c, outcome) EXCEPT !.status = "completed"]
<1>0. /\ "resolved_refund" \in DisputeStatus
      /\ "completed" \in {"delivered", "completed", "refunded"}
      /\ "refunded" \in {"delivered", "completed", "refunded"}
  BY DEF DisputeStatus
<1>1. Ended(c, r, "resolved_refund", "refunded")
  BY <1>0, EndsType, Zenon
<1>2. Ended(c, e, outcome, "completed")
  BY <1>0, EndsType, Zenon
<1>3. finalize_dispute(c, amount, outcome)
        = IF amount = Total THEN r ELSE release_escrow(e, Total - amount)
  BY DEF finalize_dispute
<1>4. Total - amount \in Nat
  OBVIOUS
<1> HIDE DEF r, e
<1>5. CASE amount = Total
  BY <1>1, <1>3, <1>5 DEF Ended
<1>6. CASE amount # Total
  <2> DEFINE d == release_escrow(e, Total - amount)
  <2>1. /\ d \in Case /\ d.status = e.status /\ d.dispute = e.dispute /\ d.offer = e.offer
        /\ d.refunded = e.refunded /\ d.credited = e.credited /\ d.claimed = e.claimed
        /\ e.released = 0 => d.released = Total - amount
    BY <1>2, <1>4, ReleaseType DEF Ended
  <2> HIDE DEF d
  <2>2. finalize_dispute(c, amount, outcome) = d
    BY <1>3, <1>6 DEF d
  <2> QED
    BY <1>2, <1>6, <2>1, <2>2 DEF Ended
<1> QED
  BY <1>5, <1>6

LEMMA FinalizeKept ==
  ASSUME NEW c \in Case, CaseInv(c), c.status = "delivered", NEW amount \in 0..Total,
         NEW outcome \in Closed, Paid(c) => amount = c.refunded
  PROVE  Kept(c, finalize_dispute(c, amount, outcome))
<1> DEFINE d == finalize_dispute(c, amount, outcome)
<1>1. /\ d \in Case /\ d.status \in {"completed", "refunded"}
      /\ d.dispute = IF amount = Total THEN "resolved_refund" ELSE outcome
      /\ d.refunded = c.refunded /\ d.credited = c.credited /\ d.claimed = c.claimed
      /\ c.released = 0 => d.released = Total - amount
  BY FinalizeType DEF Closed
<1> HIDE DEF d
<1>2. ~IsOpen(d)
  BY <1>1 DEF IsOpen, Closed
<1>3. Paid(c) => Paid(d)
  BY <1>1 DEF Paid
<1>4. d.refunded <= Total
  BY <1>1 DEF CaseInv, Shape
<1>5. Kept(c, d)
  BY <1>1, <1>2, <1>3, <1>4, EndKept
<1> QED
  BY <1>5 DEF d

(* Settled and settled_order: the order is completed and the rest released.*)
LEMMA SettleKept ==
  ASSUME NEW c \in Case, CaseInv(c), c.status = "delivered", NEW s \in Case,
         s.status = "completed", ~IsOpen(s), s.claimed = c.claimed,
         s.refunded <= Total, s.released = c.released,
         s.refunded - c.refunded = s.credited - c.credited
  PROVE  Kept(c, IF Remaining(s) > 0 THEN release_escrow(s, Remaining(s)) ELSE s)
<1> DEFINE d == release_escrow(s, Remaining(s))
           left == Remaining(s)
<1>0. /\ c.refunded \in Nat /\ c.credited \in Nat /\ s.refunded \in Nat /\ s.credited \in Nat
      /\ left \in Nat /\ left = Total - s.refunded /\ s.released \in Nat
  BY DEF Case, Remaining
<1>1. /\ d \in Case /\ d.status = s.status /\ d.dispute = s.dispute
      /\ d.refunded = s.refunded /\ d.credited = s.credited /\ d.claimed = s.claimed
      /\ s.released = 0 => d.released = left
  BY <1>0, ReleaseType
<1> HIDE DEF d, left
<1>2. Kept(c, d)
  <2>1. Paid(c) => Paid(d)
    BY <1>0, <1>1 DEF Paid
  <2> QED
    BY <1>1, <2>1, EndKept DEF IsOpen
<1>3. ASSUME ~(left > 0) PROVE Kept(c, s)
  <2>1. Paid(c) => Paid(s)
    BY <1>0, <1>3 DEF Paid
  <2> QED
    BY <2>1, EndKept
<1> QED
  BY <1>2, <1>3 DEF d, left

-----------------------------------------------------------------------------
(* Handlers that leave the money alone. *)
SameMoney(c, d) ==
  /\ d.status = c.status /\ d.refunded = c.refunded /\ d.credited = c.credited
  /\ d.released = c.released /\ d.gone = c.gone /\ d.cap = c.cap

LEMMA MoneyKept ==
  ASSUME NEW c \in Case, CaseInv(c), NEW d \in Case, SameMoney(c, d), Shape(d), Covered(d)
  PROVE  Kept(c, d)
<1>1. Fits(d)
  BY DEF SameMoney, CaseInv, Fits
<1>2. Paid(c) => Paid(d)
  BY DEF SameMoney, Paid
<1> QED
  BY <1>1, <1>2 DEF Kept, CaseInv

(* Handlers and timers that touch a case without its claims. *)
LEMMA TouchKept ==
  ASSUME NEW c \in Case, CaseInv(c), NEW d \in Case, SameMoney(c, d),
         d.claimed = c.claimed, d.remedied = c.remedied, d.generation = c.generation,
         IsOpen(d) => IsOpen(c), Covered(d)
  PROVE  Kept(c, d)
<1>1. Shape(d)
  BY DEF SameMoney, CaseInv, Shape, Item
<1> QED
  BY <1>1, MoneyKept

LEMMA KeptTwice ==
  ASSUME NEW c, NEW d, NEW e, Kept(c, d), Kept(d, e)
  PROVE  Kept(c, e)
  BY DEF Kept

LEMMA OfferKept ==
  ASSUME NEW c \in Case, CaseInv(c), c.claimed \subseteq c.remedied, c.claimed # {} \/ c.noted
  PROVE  Kept(c, offer_resolution_deadline(c))
<1> DEFINE d == [c EXCEPT !.offer = "running"]
<1>1. "running" \in {"none", "running", "due"}
  OBVIOUS
<1>2. d \in Case
  BY <1>1, Fields
<1>3. /\ SameMoney(c, d) /\ d.claimed = c.claimed /\ d.remedied = c.remedied
      /\ d.generation = c.generation /\ d.noted = c.noted /\ d.review = c.review
      /\ d.dispute = c.dispute
  BY DEF Case, SameMoney
<1> HIDE DEF d
<1>4. ASSUME ~c.review PROVE Kept(c, d)
  <2>1. Covered(d)
    BY <1>3, <1>4 DEF Covered
  <2> QED
    BY <1>2, <1>3, <2>1, TouchKept DEF IsOpen
<1>5. Kept(c, c)
  BY DEF Kept
<1>6. offer_resolution_deadline(c) = IF c.review \/ c.offer # "none" THEN c ELSE d
  BY DEF offer_resolution_deadline, d
<1> QED
  BY <1>4, <1>5, <1>6

LEMMA AfterRemedyKept ==
  ASSUME NEW c \in Case, CaseInv(c), IsOpen(c)
  PROVE  Kept(c, AfterRemedy(c))
<1>1. CASE c.refunded = Total
  <2>1. Total \in 0..Total /\ "resolved_refund" \in Closed /\ c.status = "delivered"
    BY DEF Closed, DisputeStatus, CaseInv, Shape
  <2>2. Kept(c, finalize_dispute(c, Total, "resolved_refund"))
    BY <1>1, <2>1, FinalizeKept
  <2> QED
    BY <1>1, <2>2 DEF AfterRemedy
<1>2. CASE c.refunded # Total /\ AllClaimedRemedied(c)
  <2>1. Kept(c, offer_resolution_deadline(c))
    BY <1>2, OfferKept DEF AllClaimedRemedied
  <2> QED
    BY <1>2, <2>1 DEF AfterRemedy
<1>3. CASE c.refunded # Total /\ ~AllClaimedRemedied(c)
  BY <1>3 DEF AfterRemedy, Kept
<1> QED
  BY <1>1, <1>2, <1>3

LEMMA ItemsType ==
  ASSUME NEW c \in Case, NEW S \in SUBSET Lines
  PROVE  ItemsOf(c, S) \in SUBSET Items /\ \A l \in Lines : Item(c, l) \in Items
<1>1. \A l \in Lines : Item(c, l) \in Items
  BY DEF Case, Item, Items
<1> QED
  BY <1>1 DEF ItemsOf

(* Lines that are refunded: their caps leave the escrow. *)
LEMMA RefundLinesKept ==
  ASSUME NEW c \in Case, CaseInv(c), IsOpen(c), NEW S \in SUBSET Lines, S \cap c.gone = {},
         CanRefund(c, SumFunctionOnSet(c.cap, S))
  PROVE  Kept(c, RefundLines(c, S)) /\ IsOpen(RefundLines(c, S))
<1> DEFINE paid == SumFunctionOnSet(c.cap, S)
           items == ItemsOf(c, S)
           d == RefundLines(c, S)
<1>1. /\ paid \in Nat /\ c.refunded \in Nat /\ c.credited \in Nat
      /\ c.refunded + paid <= Total
      /\ c.gone \in SUBSET Lines /\ c.remedied \in SUBSET Items
  BY CapsType DEF Case, CanRefund, Remaining
<1>2. items \in SUBSET Items
  BY ItemsType
<1> HIDE DEF paid
<1>3. d = [c EXCEPT !.remedied = c.remedied \cup items, !.gone = c.gone \cup S,
                    !.refunded = c.refunded + paid, !.credited = c.credited + paid]
  BY DEF RefundLines, refund_escrow, paid, Case
<1>4. /\ c.remedied \cup items \in SUBSET Items /\ c.gone \cup S \in SUBSET Lines
      /\ c.refunded + paid \in Nat /\ c.credited + paid \in Nat
  BY <1>1, <1>2
<1> HIDE DEF d
<1>5. d \in Case
  BY <1>3, <1>4, Fields
<1>6. /\ d.status = c.status /\ d.dispute = c.dispute /\ d.released = c.released
      /\ d.offer = c.offer /\ d.review = c.review /\ d.noted = c.noted
      /\ d.claimed = c.claimed /\ d.generation = c.generation /\ d.cap = c.cap
      /\ d.refunded = c.refunded + paid /\ d.credited = c.credited + paid
      /\ d.remedied = c.remedied \cup items /\ d.gone = c.gone \cup S
  BY <1>3 DEF Case
<1>7. Shape(d)
  <2>1. \A l \in S : Item(d, l) \in items
    BY <1>6 DEF Item, ItemsOf
  <2> HIDE DEF items
  <2>2. \A l \in d.gone : Item(d, l) \in d.claimed => Item(d, l) \in d.remedied
    BY <1>6, <2>1 DEF CaseInv, Shape, Item
  <2>3. d.refunded <= Total
    BY <1>1, <1>6
  <2> QED
    BY <1>6, <2>2, <2>3 DEF CaseInv, Shape, IsOpen
<1>8. Covered(d)
  BY <1>6 DEF CaseInv, Covered, IsOpen
<1>9. Fits(d)
  <2>1. /\ IsFiniteSet(Lines \ c.gone) /\ (\A l \in Lines \ c.gone : c.cap[l] \in Nat)
        /\ S \in SUBSET (Lines \ c.gone) /\ (Lines \ c.gone) \ S = Lines \ (c.gone \cup S)
    BY <1>1, CapsType
  <2>2. SumFunctionOnSet(c.cap, Lines \ c.gone)
          = paid + SumFunctionOnSet(c.cap, Lines \ (c.gone \cup S))
    BY <2>1, SumSplit DEF paid
  <2>3. SumFunctionOnSet(c.cap, Lines \ (c.gone \cup S)) \in Nat
    BY CapsType
  <2>4. c.status = "delivered" => c.refunded + SumFunctionOnSet(c.cap, Lines \ c.gone) = Total
    BY DEF CaseInv, Fits
  <2> QED
    BY <1>1, <1>6, <2>2, <2>3, <2>4 DEF Fits
<1>10. Paid(c) => Paid(d)
  <2>1. CaseInv(c) /\ IsOpen(c) => c.status = "delivered"
    BY DEF CaseInv, Shape
  <2> QED
    BY <1>1, <1>6, <2>1 DEF Paid
<1> QED
  BY <1>5, <1>6, <1>7, <1>8, <1>9, <1>10 DEF Kept, CaseInv, IsOpen, d

(* What Settled, settled_order and the withdrawal make of an order. *)
LEMMA SettledKept ==
  ASSUME NEW c \in Case, CaseInv(c), c.status = "delivered", NEW e \in Case,
         e.claimed = c.claimed, e.released = c.released, e.refunded <= Total,
         e.refunded - c.refunded = e.credited - c.credited, NEW outcome \in Closed
  PROVE  Kept(c, Settled(e, outcome))
<1> DEFINE s == [Ends(e, outcome) EXCEPT !.status = "completed"]
<1>1. "completed" \in {"delivered", "completed", "refunded"} /\ outcome \in DisputeStatus
  BY DEF Closed
<1>2. Ended(e, s, outcome, "completed")
  BY <1>1, EndsType, Zenon
<1>3. Settled(e, outcome) = IF Remaining(e) > 0 THEN release_escrow(s, Remaining(e)) ELSE s
  BY DEF Settled
<1> HIDE DEF s
<1>4. Remaining(s) = Remaining(e) /\ ~IsOpen(s)
  BY <1>2 DEF Ended, Remaining, IsOpen, Closed
<1>5. Kept(c, IF Remaining(s) > 0 THEN release_escrow(s, Remaining(s)) ELSE s)
  BY <1>2, <1>4, SettleKept DEF Ended
<1> QED
  BY <1>3, <1>4, <1>5

-----------------------------------------------------------------------------
(* A handler writes one order, and keeps what holds of it. *)
Changes(o) == \E d : Kept(case[o], d) /\ Write(o, d)

LEMMA OneCase ==
  ASSUME IInv, NEW o \in Orders
  PROVE  /\ case[o] \in Case /\ CaseInv(case[o])
         /\ IsOpen(case[o]) => case[o].status = "delivered"
  BY DEF IInv, TypeOK, CaseInv, Shape

LEMMA escrow_passes_Kept ==
  ASSUME IInv, NEW o \in Orders, escrow_passes(o) PROVE Changes(o)
<1>1. case[o] \in Case /\ CaseInv(case[o])
  BY OneCase
<1>2. PICK x \in {"running", "lapsed", "overdue"} : Write(o, [case[o] EXCEPT !.escrow = x])
  BY DEF escrow_passes
<1>3. [case[o] EXCEPT !.escrow = x] \in Case
  BY <1>1, Fields
<1>4. Same(case[o], [case[o] EXCEPT !.escrow = x])
  BY <1>1 DEF Same, Case
<1> QED
  BY <1>1, <1>2, <1>3, <1>4, SameKept DEF Changes

LEMMA claims_go_quiet_Kept ==
  ASSUME IInv, NEW o \in Orders, claims_go_quiet(o) PROVE Changes(o)
<1> DEFINE d == [case[o] EXCEPT !.quiet = TRUE]
<1>1. case[o] \in Case /\ CaseInv(case[o])
  BY OneCase
<1>2. TRUE \in BOOLEAN
  OBVIOUS
<1>3. d \in Case
  BY <1>1, <1>2, Fields
<1>4. Same(case[o], d)
  BY <1>1 DEF Same, Case
<1> QED
  BY <1>1, <1>3, <1>4, SameKept DEF Changes, claims_go_quiet

LEMMA seller_deadline_passes_Kept ==
  ASSUME IInv, NEW o \in Orders, seller_deadline_passes(o) PROVE Changes(o)
<1> DEFINE d == [case[o] EXCEPT !.deadline = "due"]
<1>1. case[o] \in Case /\ CaseInv(case[o])
  BY OneCase
<1>2. "due" \in {"none", "running", "due"}
  OBVIOUS
<1>3. d \in Case
  BY <1>1, <1>2, Fields
<1>4. Same(case[o], d)
  BY <1>1 DEF Same, Case
<1> QED
  BY <1>1, <1>3, <1>4, SameKept DEF Changes, seller_deadline_passes

LEMMA resolution_deadline_passes_Kept ==
  ASSUME IInv, NEW o \in Orders, resolution_deadline_passes(o) PROVE Changes(o)
<1> DEFINE d == [case[o] EXCEPT !.offer = "due"]
<1>1. case[o] \in Case /\ CaseInv(case[o]) /\ IsOpen(case[o]) /\ case[o].offer # "none"
  BY OneCase DEF resolution_deadline_passes
<1>2. "due" \in {"none", "running", "due"}
  OBVIOUS
<1>3. d \in Case
  BY <1>1, <1>2, Fields
<1>4. /\ SameMoney(case[o], d) /\ d.claimed = case[o].claimed /\ d.remedied = case[o].remedied
      /\ d.generation = case[o].generation /\ d.noted = case[o].noted
      /\ d.review = case[o].review
  BY <1>1 DEF SameMoney, Case
<1> HIDE DEF d
<1>5. Covered(d)
  BY <1>1, <1>4 DEF CaseInv, Covered
<1>6. Kept(case[o], d)
  BY <1>1, <1>3, <1>4, <1>5, TouchKept
<1> QED
  BY <1>6 DEF Changes, resolution_deadline_passes, d

-----------------------------------------------------------------------------
(* Claims: the lines were not refunded, and can still be replaced. *)
LEMMA ClaimsShape ==
  ASSUME NEW c \in Case, NEW S \in SUBSET Lines, Claimable(c, S)
  PROVE  /\ ItemsOf(c, S) \subseteq Lines \X (0..MAX_WARRANTY_CLAIM_GENERATION)
         /\ \A l \in c.gone : Item(c, l) \notin ItemsOf(c, S)
<1>1. \A l \in S : c.generation[l] \in 0..MAX_WARRANTY_CLAIM_GENERATION
  BY DEF Claimable, Case, Generations, MAX_WARRANTY_CLAIM_GENERATION
<1> QED
  BY <1>1 DEF ItemsOf, Item, Claimable

LEMMA create_dispute_Kept ==
  ASSUME IInv, NEW o \in Orders, NEW S \in SUBSET Lines, NEW timed,
         create_dispute(o, S, timed)
  PROVE  Changes(o)
<1> DEFINE c == [case[o] EXCEPT !.dispute = "open", !.cases = @ + 1, !.quiet = FALSE,
                           !.deadline = IF timed THEN "running" ELSE "none", !.offer = "none",
                           !.review = FALSE, !.answered = FALSE, !.noted = FALSE,
                           !.claimed = {}, !.remedied = {}, !.generation = [l \in Lines |-> 0]]
           d == [c EXCEPT !.claimed = ItemsOf(c, S)]
<1>1. case[o] \in Case /\ CaseInv(case[o])
  BY OneCase
<1>2. /\ "open" \in DisputeStatus /\ FALSE \in BOOLEAN /\ {} \in SUBSET Items
      /\ (IF timed THEN "running" ELSE "none") \in {"none", "running", "due"}
      /\ "none" \in {"none", "running", "due"}
  BY DEF DisputeStatus
<1>3. case[o].cases + 1 \in 0..MaxCases
  BY <1>1 DEF create_dispute, Case
<1>4. c \in Case
  <2> DEFINE c1 == [case[o] EXCEPT !.dispute = "open", !.cases = @ + 1, !.quiet = FALSE,
                                   !.deadline = IF timed THEN "running" ELSE "none"]
             c2 == [c1 EXCEPT !.offer = "none", !.review = FALSE, !.answered = FALSE,
                              !.noted = FALSE]
             c3 == [c2 EXCEPT !.claimed = {}, !.remedied = {}, !.generation = [l \in Lines |-> 0]]
  <2>1. c1 \in Case
    BY <1>1, <1>2, <1>3, Fields
  <2>2. ASSUME c1 \in Case PROVE c2 \in Case
    <3> HIDE DEF c1
    <3> QED
      BY <1>2, <2>2, Fields
  <2>3. ASSUME c2 \in Case PROVE c3 \in Case
    <3> HIDE DEF c1, c2
    <3> QED
      BY <1>2, <2>3, Fields, ZeroGeneration
  <2>4. c = c3
    OBVIOUS
  <2> HIDE DEF c, c1, c2, c3
  <2> QED
    BY <2>1, <2>2, <2>3, <2>4
<1>5. /\ SameMoney(case[o], c) /\ c.offer = "none"
  BY <1>1 DEF Case, SameMoney
<1>6. Claimable(c, S) /\ Write(o, d) /\ case[o].status = "delivered"
  BY DEF create_dispute
<1> HIDE DEF c
<1>7. ItemsOf(c, S) \in SUBSET Items
  BY <1>4, ItemsType
<1>8. d \in Case
  BY <1>4, <1>7, Fields
<1>9. /\ SameMoney(case[o], d) /\ d.offer = "none" /\ d.claimed = ItemsOf(c, S)
      /\ d.generation = c.generation /\ d.gone = c.gone
  BY <1>4, <1>5 DEF Case, SameMoney
<1> HIDE DEF d
<1>10. Shape(d)
  <2>1. \A l \in d.gone : Item(d, l) \notin d.claimed
    BY <1>4, <1>6, <1>9, ClaimsShape DEF Item
  <2>2. d.claimed \subseteq Lines \X (0..MAX_WARRANTY_CLAIM_GENERATION)
    BY <1>4, <1>6, <1>9, ClaimsShape
  <2> QED
    BY <1>1, <1>6, <1>9, <2>1, <2>2 DEF CaseInv, Shape, SameMoney
<1>11. Covered(d)
  BY <1>9 DEF Covered
<1>12. Kept(case[o], d)
  BY <1>1, <1>8, <1>9, <1>10, <1>11, MoneyKept
<1> QED
  BY <1>6, <1>12 DEF Changes

LEMMA append_claim_batch_Kept ==
  ASSUME IInv, NEW o \in Orders, NEW S \in SUBSET Lines, append_claim_batch(o, S)
  PROVE  Changes(o)
<1> DEFINE c == case[o]
           more == c.claimed \cup ItemsOf(c, S)
           d == [c EXCEPT !.claimed = more, !.quiet = FALSE, !.offer = "none"]
<1>1. c \in Case /\ CaseInv(c) /\ IsOpen(c) /\ Claimable(c, S)
  BY OneCase DEF append_claim_batch, InCase
<1>2. Write(o, d)
  BY DEF append_claim_batch
<1> HIDE DEF c
<1>3. more \in SUBSET Items /\ "none" \in {"none", "running", "due"} /\ FALSE \in BOOLEAN
  BY <1>1, ItemsType DEF Case
<1>4. d \in Case
  BY <1>1, <1>3, Fields
<1>5. /\ SameMoney(c, d) /\ d.offer = "none" /\ d.claimed = more /\ d.remedied = c.remedied
      /\ d.generation = c.generation /\ d.gone = c.gone /\ d.dispute = c.dispute
  BY <1>1 DEF Case, SameMoney
<1> HIDE DEF d
<1>6. Shape(d)
  <2>1. /\ ItemsOf(c, S) \subseteq Lines \X (0..MAX_WARRANTY_CLAIM_GENERATION)
        /\ \A l \in c.gone : Item(c, l) \notin ItemsOf(c, S)
    BY <1>1, ClaimsShape
  <2>2. \A l \in d.gone : Item(d, l) \in d.claimed => Item(d, l) \in d.remedied
    BY <1>1, <1>5, <2>1 DEF CaseInv, Shape, Item
  <2> QED
    BY <1>1, <1>5, <2>1, <2>2 DEF CaseInv, Shape, SameMoney, IsOpen
<1>7. Covered(d)
  BY <1>5 DEF Covered
<1>8. Kept(c, d)
  BY <1>1, <1>4, <1>5, <1>6, <1>7, MoneyKept
<1> QED
  BY <1>2, <1>8 DEF Changes, c

LEMMA accept_dispute_resolution_Kept ==
  ASSUME IInv, NEW o \in Orders, accept_dispute_resolution(o) PROVE Changes(o)
<1> DEFINE c == case[o]
<1>1. c \in Case /\ CaseInv(c) /\ c.status = "delivered"
  BY OneCase DEF accept_dispute_resolution, InCase
<1>2. PICK outcome \in Closed : Write(o, finalize_dispute(c, c.refunded, outcome))
  BY DEF accept_dispute_resolution, Closed, DisputeStatus
<1> HIDE DEF c
<1>3. c.refunded \in 0..Total
  BY <1>1 DEF CaseInv, Shape, Case
<1>4. Kept(c, finalize_dispute(c, c.refunded, outcome))
  BY <1>1, <1>3, FinalizeKept
<1> QED
  BY <1>2, <1>4 DEF Changes, c

(* A case that is closed while the order stays delivered. *)
LEMMA ClosedKept ==
  ASSUME NEW c \in Case, CaseInv(c), NEW outcome \in Closed
  PROVE  Kept(c, Ends(c, outcome)) /\ Ends(c, outcome) \in Case
<1> DEFINE d == Ends(c, outcome)
<1>1. "none" \in {"none", "running", "due"} /\ outcome \in DisputeStatus
  BY DEF Closed
<1>2. d \in Case
  BY <1>1, Fields DEF Ends
<1>3. /\ SameMoney(c, d) /\ d.claimed = c.claimed /\ d.remedied = c.remedied
      /\ d.generation = c.generation /\ d.dispute = outcome
  BY DEF Ends, Case, SameMoney
<1> HIDE DEF d
<1>4. ~IsOpen(d)
  BY <1>3 DEF IsOpen, Closed
<1>5. Kept(c, d)
  BY <1>2, <1>3, <1>4, TouchKept DEF Covered
<1> QED
  BY <1>2, <1>5 DEF d

LEMMA withdraw_dispute_Kept ==
  ASSUME IInv, NEW o \in Orders, withdraw_dispute(o) PROVE Changes(o)
<1> DEFINE c == case[o]
           e == Ends(c, "withdrawn_by_buyer")
<1>1. c \in Case /\ CaseInv(c) /\ c.status = "delivered"
  BY OneCase DEF withdraw_dispute, InCase
<1>2. "withdrawn_by_buyer" \in Closed
  BY DEF Closed, DisputeStatus
<1>3. e.escrow = c.escrow /\ Remaining(e) = Remaining(c)
  BY <1>1 DEF Ends, Case, Remaining
<1>4. Write(o, IF e.escrow = "running" THEN e ELSE Settled(c, "withdrawn_by_buyer"))
  BY <1>3 DEF withdraw_dispute, Settled
<1>5. Kept(c, e)
  BY <1>1, <1>2, ClosedKept
<1>6. Kept(c, Settled(c, "withdrawn_by_buyer"))
  <2>1. c.refunded <= Total /\ c.refunded - c.refunded = c.credited - c.credited
    BY <1>1 DEF CaseInv, Shape, Case
  <2> HIDE DEF c
  <2> QED
    BY <1>1, <1>2, <2>1, SettledKept
<1> HIDE DEF e
<1> QED
  BY <1>4, <1>5, <1>6 DEF Changes

LEMMA request_marketplace_review_Kept ==
  ASSUME IInv, NEW o \in Orders, NEW role, request_marketplace_review(o, role)
  PROVE  Changes(o)
<1> DEFINE c == case[o]
           answered == c.answered \/ role = "seller"
           d == [c EXCEPT !.review = TRUE, !.offer = "none", !.answered = answered]
<1>1. c \in Case /\ CaseInv(c) /\ IsOpen(c)
  BY OneCase DEF request_marketplace_review, InCase
<1>2. Write(o, d)
  BY DEF request_marketplace_review
<1>3. TRUE \in BOOLEAN /\ answered \in BOOLEAN /\ "none" \in {"none", "running", "due"}
  OBVIOUS
<1> HIDE DEF c, answered
<1>4. d \in Case
  BY <1>1, <1>3, Fields
<1>5. /\ SameMoney(c, d) /\ d.claimed = c.claimed /\ d.remedied = c.remedied
      /\ d.generation = c.generation /\ d.offer = "none"
  BY <1>1 DEF Case, SameMoney
<1> HIDE DEF d
<1>6. Kept(c, d)
  BY <1>1, <1>4, <1>5, TouchKept DEF Covered
<1> QED
  BY <1>2, <1>6 DEF Changes, c

LEMMA seller_respond_dispute_Kept ==
  ASSUME IInv, NEW o \in Orders, seller_respond_dispute(o) PROVE Changes(o)
<1> DEFINE c == case[o]
           d == [c EXCEPT !.noted = TRUE, !.answered = TRUE]
<1>1. c \in Case /\ CaseInv(c) /\ IsOpen(c)
  BY OneCase DEF seller_respond_dispute, InCase
<1>2. Write(o, IF d.claimed \subseteq d.remedied THEN offer_resolution_deadline(d) ELSE d)
  BY DEF seller_respond_dispute
<1>3. TRUE \in BOOLEAN
  OBVIOUS
<1> HIDE DEF c
<1>4. d \in Case
  BY <1>1, <1>3, Fields
<1>5. /\ SameMoney(c, d) /\ d.claimed = c.claimed /\ d.remedied = c.remedied
      /\ d.generation = c.generation /\ d.offer = c.offer /\ d.noted = TRUE
      /\ d.dispute = c.dispute /\ d.review = c.review
  BY <1>1 DEF Case, SameMoney
<1> HIDE DEF d
<1>6. Covered(d)
  BY <1>1, <1>5 DEF CaseInv, Covered, IsOpen
<1>7. Kept(c, d)
  BY <1>1, <1>4, <1>5, <1>6, TouchKept
<1>8. ASSUME d.claimed \subseteq d.remedied PROVE Kept(c, offer_resolution_deadline(d))
  <2>1. Kept(d, offer_resolution_deadline(d))
    BY <1>4, <1>5, <1>7, <1>8, OfferKept DEF Kept
  <2> QED
    BY <1>7, <2>1, KeptTwice
<1> QED
  BY <1>2, <1>7, <1>8 DEF Changes, c

-----------------------------------------------------------------------------
(* Remedies, line by line. *)
Answered(c) == [c EXCEPT !.answered = TRUE]

LEMMA AnsweredKept ==
  ASSUME NEW c \in Case, CaseInv(c), IsOpen(c)
  PROVE  /\ Kept(c, Answered(c)) /\ IsOpen(Answered(c)) /\ Same(c, Answered(c))
<1> DEFINE d == [c EXCEPT !.answered = TRUE]
<1>1. TRUE \in BOOLEAN
  OBVIOUS
<1>2. d \in Case
  BY <1>1, Fields
<1>3. Same(c, d)
  BY DEF Same, Case
<1>4. Kept(c, d) /\ IsOpen(d)
  BY <1>2, <1>3, SameKept DEF IsOpen, Same
<1> QED
  BY <1>3, <1>4 DEF Answered

LEMMA RefundKept ==
  ASSUME NEW c \in Case, CaseInv(c), IsOpen(c), NEW S \in SUBSET Lines, S \cap c.gone = {},
         CanRefund(c, SumFunctionOnSet(c.cap, S))
  PROVE  Kept(c, AfterRemedy(RefundLines(c, S)))
<1>1. Kept(c, RefundLines(c, S)) /\ IsOpen(RefundLines(c, S))
  BY RefundLinesKept
<1>2. Kept(RefundLines(c, S), AfterRemedy(RefundLines(c, S)))
  BY <1>1, AfterRemedyKept DEF Kept
<1> QED
  BY <1>1, <1>2, KeptTwice

Replaced(c, S) ==
  [c EXCEPT !.remedied = @ \cup ItemsOf(c, S),
            !.generation = [l \in Lines |-> @[l] + IF l \in S THEN 1 ELSE 0]]

LEMMA ReplacedKept ==
  ASSUME NEW c \in Case, CaseInv(c), IsOpen(c), NEW S \in SUBSET Lines,
         ItemsOf(c, S) \subseteq c.claimed \ c.remedied
  PROVE  Kept(c, Replaced(c, S)) /\ IsOpen(Replaced(c, S))
<1> DEFINE items == ItemsOf(c, S)
           next == [l \in Lines |-> c.generation[l] + IF l \in S THEN 1 ELSE 0]
           d == [c EXCEPT !.remedied = c.remedied \cup items, !.generation = next]
<1>1. items \in SUBSET Items /\ \A l \in S : Item(c, l) \in items
  BY ItemsType DEF ItemsOf
<1>2. \A l \in S : Item(c, l) \in c.claimed \ c.remedied
  BY <1>1
<1>3. \A l \in Lines : c.generation[l] \in 0..2
  BY DEF Case, Generations, MAX_WARRANTY_CLAIM_GENERATION
<1>4. \A l \in S : c.generation[l] \in 0..1
  BY <1>2 DEF CaseInv, Shape, Item, MAX_WARRANTY_CLAIM_GENERATION
<1>5. next \in [Lines -> Generations]
  BY <1>3, <1>4 DEF Generations, MAX_WARRANTY_CLAIM_GENERATION
<1>6. \A l \in Lines \ S : next[l] = c.generation[l]
  BY <1>3
<1>7. Replaced(c, S) = d
  BY DEF Replaced, Case
<1> HIDE DEF items, next
<1>8. c.remedied \cup items \in SUBSET Items
  BY <1>1 DEF Case
<1>9. d \in Case
  BY <1>5, <1>8, Fields
<1>10. /\ SameMoney(c, d) /\ d.dispute = c.dispute /\ d.offer = c.offer /\ d.claimed = c.claimed
       /\ d.noted = c.noted /\ d.review = c.review
       /\ d.remedied = c.remedied \cup items /\ d.generation = next
  BY DEF Case, SameMoney
<1> HIDE DEF d
<1>11. Shape(d)
  <2>1. \A l \in c.gone : l \notin S
    BY <1>2 DEF CaseInv, Shape
  <2>2. c.gone \subseteq Lines
    BY DEF Case
  <2>3. \A l \in c.gone : Item(d, l) = Item(c, l)
    BY <1>6, <1>10, <2>1, <2>2 DEF Item
  <2> QED
    BY <1>10, <2>3 DEF CaseInv, Shape, SameMoney
<1>12. Covered(d)
  BY <1>10 DEF CaseInv, Covered, IsOpen
<1> QED
  BY <1>7, <1>9, <1>10, <1>11, <1>12, MoneyKept DEF IsOpen

LEMMA seller_resolve_resources_Kept ==
  ASSUME IInv, NEW o \in Orders, NEW S \in SUBSET Lines, NEW action,
         seller_resolve_resources(o, S, action)
  PROVE  Changes(o)
<1> DEFINE b == case[o]
           c == Answered(b)
<1>1. b \in Case /\ CaseInv(b) /\ IsOpen(b)
  BY OneCase DEF seller_resolve_resources, InCase
<1>2. /\ ItemsOf(c, S) \subseteq c.claimed \ c.remedied
      /\ \/ /\ CanRefund(c, SumFunctionOnSet(c.cap, S))
            /\ Write(o, AfterRemedy(RefundLines(c, S)))
         \/ Write(o, AfterRemedy(Replaced(c, S)))
  BY DEF seller_resolve_resources, Answered, Replaced
<1> HIDE DEF b, c
<1>3. /\ c \in Case /\ CaseInv(c) /\ IsOpen(c) /\ Kept(b, c)
  BY <1>1, AnsweredKept DEF Kept, c
<1>4. CASE /\ CanRefund(c, SumFunctionOnSet(c.cap, S))
           /\ Write(o, AfterRemedy(RefundLines(c, S)))
  <2>1. \A l \in S : Item(c, l) \in c.claimed \ c.remedied
    BY <1>2 DEF ItemsOf
  <2>2. S \cap c.gone = {}
    BY <1>3, <2>1 DEF CaseInv, Shape
  <2>3. Kept(c, AfterRemedy(RefundLines(c, S)))
    BY <1>3, <1>4, <2>2, RefundKept
  <2>4. Kept(b, AfterRemedy(RefundLines(c, S)))
    BY <1>3, <2>3, KeptTwice
  <2> QED
    BY <1>4, <2>4 DEF Changes, b
<1>5. CASE Write(o, AfterRemedy(Replaced(c, S)))
  <2>1. Kept(c, Replaced(c, S)) /\ IsOpen(Replaced(c, S))
    BY <1>2, <1>3, ReplacedKept
  <2>2. Kept(Replaced(c, S), AfterRemedy(Replaced(c, S)))
    BY <2>1, AfterRemedyKept DEF Kept
  <2>3. Kept(b, AfterRemedy(Replaced(c, S)))
    BY <1>3, <2>1, <2>2, KeptTwice
  <2> QED
    BY <1>5, <2>3 DEF Changes, b
<1> QED
  BY <1>2, <1>4, <1>5

LEMMA refund_proxy_lines_Kept ==
  ASSUME IInv, NEW o \in Orders, NEW S \in SUBSET Lines, NEW c,
         Kept(case[o], c), IsOpen(c), refund_proxy_lines(o, c, S)
  PROVE  Changes(o)
<1>1. /\ S \cap c.gone = {} /\ CanRefund(c, SumFunctionOnSet(c.cap, S))
      /\ Write(o, AfterRemedy(RefundLines(c, S)))
  BY DEF refund_proxy_lines
<1>2. Kept(c, AfterRemedy(RefundLines(c, S)))
  BY <1>1, RefundKept DEF Kept
<1>3. Kept(case[o], AfterRemedy(RefundLines(c, S)))
  BY <1>2, KeptTwice
<1> QED
  BY <1>1, <1>3 DEF Changes

LEMMA seller_resolve_proxies_Kept ==
  ASSUME IInv, NEW o \in Orders, NEW S \in SUBSET Lines, seller_resolve_proxies(o, S)
  PROVE  Changes(o)
<1>1. refund_proxy_lines(o, Answered(case[o]), S)
  BY DEF seller_resolve_proxies, Answered
<1>2. case[o] \in Case /\ CaseInv(case[o]) /\ IsOpen(case[o])
  BY <1>1, OneCase DEF refund_proxy_lines, InCase
<1>3. Kept(case[o], Answered(case[o])) /\ IsOpen(Answered(case[o]))
  BY <1>2, AnsweredKept
<1> QED
  BY <1>1, <1>3, refund_proxy_lines_Kept

LEMMA admin_refund_proxies_Kept ==
  ASSUME IInv, NEW o \in Orders, NEW S \in SUBSET Lines, admin_refund_proxies(o, S)
  PROVE  Changes(o)
<1>1. refund_proxy_lines(o, case[o], S)
  BY DEF admin_refund_proxies
<1>2. Kept(case[o], case[o]) /\ IsOpen(case[o])
  BY <1>1, OneCase DEF refund_proxy_lines, InCase, Kept
<1> QED
  BY <1>1, <1>2, refund_proxy_lines_Kept

-----------------------------------------------------------------------------
(* The marketplace *)
LEMMA refund_escrow_Type ==
  ASSUME NEW c \in Case, NEW amount \in Nat
  PROVE  /\ refund_escrow(c, amount) \in Case
         /\ refund_escrow(c, amount).refunded = c.refunded + amount
         /\ refund_escrow(c, amount).credited = c.credited + amount
         /\ refund_escrow(c, amount).claimed = c.claimed
         /\ refund_escrow(c, amount).released = c.released
         /\ refund_escrow(c, amount).dispute = c.dispute
<1> DEFINE r == c.refunded + amount
           p == c.credited + amount
           d == [c EXCEPT !.refunded = r, !.credited = p]
<1>1. r \in Nat /\ p \in Nat
  BY DEF Case
<1>2. refund_escrow(c, amount) = d
  BY DEF refund_escrow
<1> HIDE DEF r, p
<1>3. d \in Case
  BY <1>1, Fields
<1>4. /\ d.refunded = r /\ d.credited = p /\ d.claimed = c.claimed /\ d.released = c.released
      /\ d.dispute = c.dispute
  BY DEF Case
<1> HIDE DEF d
<1> QED
  BY <1>2, <1>3, <1>4 DEF r, p

LEMMA refund_dispute_Kept ==
  ASSUME IInv, NEW o \in Orders, refund_dispute(o) PROVE Changes(o)
<1> DEFINE c == case[o]
           e == Ends(c, "resolved_refund")
           left == Remaining(c)
           r == refund_escrow(e, left)
           d == [r EXCEPT !.status = "refunded"]
<1>1. c \in Case /\ CaseInv(c) /\ c.status = "delivered"
  BY OneCase DEF refund_dispute, InCase
<1>2. Write(o, d)
  BY DEF refund_dispute
<1>3. "resolved_refund" \in Closed /\ "refunded" \in {"delivered", "completed", "refunded"}
  BY DEF Closed, DisputeStatus
<1>4. /\ c.refunded \in Nat /\ c.credited \in Nat /\ left \in Nat
      /\ left = Total - c.refunded
  BY <1>1 DEF CaseInv, Shape, Case, Remaining
<1>5. e \in Case
  BY <1>1, <1>3, ClosedKept
<1>6. /\ e.refunded = c.refunded /\ e.credited = c.credited /\ e.claimed = c.claimed
      /\ e.released = c.released /\ e.dispute = "resolved_refund"
  BY <1>1 DEF Ends, Case
<1> HIDE DEF c, e, left
<1>7. /\ r \in Case /\ r.refunded = c.refunded + left
      /\ r.credited = c.credited + left /\ r.claimed = c.claimed
      /\ r.released = c.released /\ r.dispute = "resolved_refund"
  <2>1. /\ r \in Case /\ r.refunded = e.refunded + left /\ r.credited = e.credited + left
        /\ r.claimed = e.claimed /\ r.released = e.released /\ r.dispute = e.dispute
    BY <1>4, <1>5, refund_escrow_Type
  <2> HIDE DEF r
  <2> QED
    BY <1>6, <2>1
<1> HIDE DEF r
<1>8. d \in Case
  BY <1>3, <1>7, Fields
<1>9. /\ d.status = "refunded" /\ d.refunded = r.refunded /\ d.credited = r.credited
      /\ d.claimed = r.claimed /\ d.released = r.released /\ d.dispute = r.dispute
  BY <1>7 DEF Case
<1> HIDE DEF d
<1>10. ~IsOpen(d) /\ d.refunded <= Total
  BY <1>4, <1>7, <1>9 DEF IsOpen
<1>11. Paid(c) => Paid(d)
  BY <1>1, <1>4, <1>7, <1>9 DEF Paid
<1>12. Kept(c, d)
  BY <1>1, <1>7, <1>8, <1>9, <1>10, <1>11, EndKept
<1> QED
  BY <1>2, <1>12 DEF Changes, c

LEMMA reject_dispute_Kept ==
  ASSUME IInv, NEW o \in Orders, reject_dispute(o) PROVE Changes(o)
<1> DEFINE c == case[o]
<1>1. /\ c \in Case /\ CaseInv(c) /\ c.status = "delivered"
      /\ Write(o, Settled(c, "resolved_reject"))
  BY OneCase DEF reject_dispute, InCase
<1>2. "resolved_reject" \in Closed
  BY DEF Closed, DisputeStatus
<1>3. c.refunded <= Total /\ c.refunded - c.refunded = c.credited - c.credited
  BY <1>1 DEF CaseInv, Shape, Case
<1> HIDE DEF c
<1>4. Kept(c, Settled(c, "resolved_reject"))
  BY <1>1, <1>2, <1>3, SettledKept
<1> QED
  BY <1>1, <1>4 DEF Changes, c

LEMMA partial_refund_dispute_Kept ==
  ASSUME IInv, NEW o \in Orders, NEW amount \in 1..Total, partial_refund_dispute(o, amount)
  PROVE  Changes(o)
<1> DEFINE c == case[o]
           e == refund_escrow(c, amount)
<1>1. /\ c \in Case /\ CaseInv(c) /\ c.status = "delivered" /\ amount < Remaining(c)
      /\ Write(o, Settled(e, "resolved_partial_refund"))
  BY OneCase DEF partial_refund_dispute, InCase
<1>2. "resolved_partial_refund" \in Closed
  BY DEF Closed, DisputeStatus
<1> HIDE DEF c
<1>3. /\ e \in Case /\ e.refunded = c.refunded + amount /\ e.credited = c.credited + amount
      /\ e.claimed = c.claimed /\ e.released = c.released
  BY <1>1, refund_escrow_Type
<1> HIDE DEF e
<1>4. e.refunded <= Total /\ e.refunded - c.refunded = e.credited - c.credited
  BY <1>1, <1>3 DEF Remaining, Case
<1>5. Kept(c, Settled(e, "resolved_partial_refund"))
  BY <1>1, <1>2, <1>3, <1>4, SettledKept
<1> QED
  BY <1>1, <1>5 DEF Changes, c

LEMMA replace_dispute_Kept ==
  ASSUME IInv, NEW o \in Orders, replace_dispute(o) PROVE Changes(o)
<1> DEFINE c == case[o]
           e == Ends(c, "resolved_replace")
<1>1. c \in Case /\ CaseInv(c) /\ c.status = "delivered"
  BY OneCase DEF replace_dispute, InCase
<1>2. PICK caps \in Splits(Remaining(c)) :
        Write(o, [e EXCEPT !.escrow = "running", !.cap = caps, !.gone = {}])
  BY DEF replace_dispute
<1> DEFINE d == [e EXCEPT !.escrow = "running", !.cap = caps, !.gone = {}]
<1>3. "resolved_replace" \in Closed /\ "running" \in {"running", "lapsed", "overdue"}
      /\ {} \in SUBSET Lines
  BY DEF Closed, DisputeStatus
<1>4. c.refunded \in Nat /\ Remaining(c) \in Nat /\ Remaining(c) = Total - c.refunded
  BY <1>1 DEF CaseInv, Shape, Case, Remaining
<1>5. e \in Case
  BY <1>1, <1>3, ClosedKept
<1>6. /\ e.refunded = c.refunded /\ e.credited = c.credited /\ e.claimed = c.claimed
      /\ e.released = c.released /\ e.dispute = "resolved_replace" /\ e.status = c.status
  BY <1>1 DEF Ends, Case
<1> HIDE DEF c, e
<1>7. caps \in [Lines -> Nat] /\ SumFunctionOnSet(caps, Lines) = Remaining(c)
  BY <1>4, SplitsType
<1>8. d \in Case
  BY <1>3, <1>5, <1>7, Fields
<1>9. /\ d.status = c.status /\ d.refunded = c.refunded /\ d.credited = c.credited
      /\ d.claimed = c.claimed /\ d.released = c.released /\ d.dispute = "resolved_replace"
      /\ d.cap = caps /\ d.gone = {}
  BY <1>5, <1>6 DEF Case
<1> HIDE DEF d
<1>10. ~IsOpen(d)
  BY <1>9 DEF IsOpen
<1>11. Shape(d) /\ Covered(d)
  BY <1>1, <1>9, <1>10 DEF CaseInv, Shape, Covered
<1>12. Fits(d)
  <2>1. Lines \ {} = Lines
    OBVIOUS
  <2> QED
    BY <1>4, <1>7, <1>9, <2>1 DEF Fits
<1>13. Paid(c) => Paid(d)
  BY <1>9 DEF Paid
<1> QED
  BY <1>2, <1>8, <1>11, <1>12, <1>13 DEF Changes, Kept, CaseInv, c, d

LEMMA extend_warranty_dispute_Kept ==
  ASSUME IInv, NEW o \in Orders, extend_warranty_dispute(o) PROVE Changes(o)
<1> DEFINE c == case[o]
           e == Ends(c, "resolved_extend_warranty")
<1>1. c \in Case /\ CaseInv(c) /\ c.escrow \in {"running", "lapsed", "overdue"}
  BY OneCase DEF extend_warranty_dispute, InCase, Case
<1>2. PICK x \in {"running", "lapsed", "overdue"} : Write(o, [e EXCEPT !.escrow = x])
  BY <1>1 DEF extend_warranty_dispute
<1> DEFINE d == [e EXCEPT !.escrow = x]
<1>3. "resolved_extend_warranty" \in Closed
  BY DEF Closed, DisputeStatus
<1> HIDE DEF c
<1>4. Kept(c, e) /\ e \in Case
  BY <1>1, <1>3, ClosedKept
<1> HIDE DEF e
<1>5. d \in Case
  BY <1>4, Fields
<1>6. Same(e, d)
  BY <1>4 DEF Same, Case
<1>7. Kept(e, d)
  BY <1>4, <1>5, <1>6, SameKept DEF Kept
<1>8. Kept(c, d)
  BY <1>4, <1>7, KeptTwice
<1> QED
  BY <1>2, <1>8 DEF Changes, c

LEMMA extend_escrow_Kept ==
  ASSUME IInv, NEW o \in Orders, extend_escrow(o) PROVE Changes(o)
<1> DEFINE c == case[o]
           more == c.extensions + 1
           d == [c EXCEPT !.escrow = "running", !.extensions = more]
<1>1. c \in Case /\ CaseInv(c)
  BY OneCase
<1>2. Write(o, d) /\ more \in 0..MaxExtensions
  BY <1>1 DEF extend_escrow, Case
<1>3. "running" \in {"running", "lapsed", "overdue"}
  OBVIOUS
<1> HIDE DEF c, more
<1>4. d \in Case
  BY <1>1, <1>2, <1>3, Fields
<1>5. Same(c, d)
  BY <1>1 DEF Same, Case
<1>6. Kept(c, d)
  BY <1>1, <1>4, <1>5, SameKept
<1> QED
  BY <1>2, <1>6 DEF Changes, c

(* The end of an order without a case. *)
LEMMA settled_order_Kept ==
  ASSUME IInv, NEW o \in Orders, Undisputed(o), Write(o, settled_order(case[o]))
  PROVE  Changes(o)
<1> DEFINE c == case[o]
           s == [c EXCEPT !.status = "completed"]
<1>1. c \in Case /\ CaseInv(c) /\ c.status = "delivered" /\ ~IsOpen(c)
  BY OneCase DEF Undisputed
<1>2. "completed" \in {"delivered", "completed", "refunded"}
  OBVIOUS
<1>3. settled_order(c) = IF Remaining(c) > 0 THEN release_escrow(s, Remaining(c)) ELSE s
  BY DEF settled_order
<1> HIDE DEF c
<1>4. s \in Case
  BY <1>1, <1>2, Fields
<1>5. /\ s.status = "completed" /\ s.dispute = c.dispute /\ s.refunded = c.refunded
      /\ s.credited = c.credited /\ s.claimed = c.claimed /\ s.released = c.released
  BY <1>1 DEF Case
<1> HIDE DEF s
<1>6. /\ Remaining(s) = Remaining(c) /\ ~IsOpen(s) /\ s.refunded <= Total
      /\ s.refunded - c.refunded = s.credited - c.credited
  BY <1>1, <1>5 DEF Remaining, IsOpen, CaseInv, Shape, Case
<1>7. Kept(c, IF Remaining(s) > 0 THEN release_escrow(s, Remaining(s)) ELSE s)
  BY <1>1, <1>4, <1>5, <1>6, SettleKept
<1> QED
  BY <1>3, <1>6, <1>7 DEF Changes, c

-----------------------------------------------------------------------------
(* The jobs *)

(* Whatever the age of what the job has seen, a case it settles is closed  *)
(* and stays a sound case; if the view is fresh, the money is right.       *)
LEMMA ResolveKept ==
  ASSUME NEW j \in Jobs, NEW c \in Case, CaseInv(c), c.status = "delivered",
         NEW seen, seen.refunded \in 0..Total
  PROVE  /\ Resolve(j, c, seen) \in Case /\ CaseInv(Resolve(j, c, seen))
         /\ seen.refunded = c.refunded => Kept(c, Resolve(j, c, seen))
<1> DEFINE d == Resolve(j, c, seen)
           old == seen.refunded
<1> HIDE DEF old
<1>1. ASSUME NEW outcome \in Closed
      PROVE  /\ finalize_dispute(c, old, outcome) \in Case
             /\ CaseInv(finalize_dispute(c, old, outcome))
             /\ old = c.refunded => Kept(c, finalize_dispute(c, old, outcome))
  <2> DEFINE r == finalize_dispute(c, old, outcome)
  <2>1. /\ r \in Case /\ r.status \in {"completed", "refunded"}
        /\ r.dispute = IF old = Total THEN "resolved_refund" ELSE outcome
        /\ r.refunded = c.refunded /\ r.claimed = c.claimed
    BY FinalizeType DEF Closed, old
  <2>2. old = c.refunded => Kept(c, r)
    BY FinalizeKept DEF old
  <2> HIDE DEF r
  <2>3. r.refunded <= Total /\ ~IsOpen(r)
    BY <2>1 DEF CaseInv, Shape, IsOpen, Closed
  <2>4. CaseInv(r)
    BY <2>1, <2>3, EndSound
  <2> QED
    BY <2>1, <2>2, <2>4 DEF r
<1>2. CASE j = "resolution_timeout"
  <2>1. "resolved_timeout" \in Closed
    BY DEF Closed, DisputeStatus
  <2>2. Resolve(j, c, seen) = finalize_dispute(c, old, "resolved_timeout")
    BY <1>2 DEF Resolve, old
  <2> QED
    BY <1>1, <2>1, <2>2 DEF old
<1>3. CASE j = "abandonment"
  <2>1. "resolved_abandoned" \in Closed
    BY DEF Closed, DisputeStatus
  <2>2. Resolve(j, c, seen) = finalize_dispute(c, old, "resolved_abandoned")
    BY <1>3 DEF Resolve, old
  <2> QED
    BY <1>1, <2>1, <2>2 DEF old
<1>4. CASE j = "seller_timeout"
  <2> DEFINE left == Total - old
             total == old + left
             credit == c.credited + left
             p == [c EXCEPT !.refunded = total, !.credited = credit]
             r == finalize_dispute(p, total, "resolved_refund")
  <2>1. /\ left \in Nat /\ total = Total /\ total \in Nat /\ credit \in Nat /\ total \in 0..Total
        /\ credit = c.credited + Total - old
    BY DEF old, Case
  <2>2. Resolve(j, c, seen) = r
    BY <1>4 DEF Resolve, old
  <2> HIDE DEF left, total, credit
  <2>3. p \in Case
    BY <2>1, Fields
  <2>4. /\ p.refunded = total /\ p.credited = credit /\ p.claimed = c.claimed
        /\ p.released = c.released
    BY DEF Case
  <2> HIDE DEF p
  <2>5. /\ r \in Case /\ r.status \in {"completed", "refunded"}
        /\ r.dispute = IF total = Total THEN "resolved_refund" ELSE "resolved_refund"
        /\ r.refunded = p.refunded /\ r.credited = p.credited /\ r.claimed = p.claimed
        /\ p.released = 0 => r.released = Total - total
    <3>1. "resolved_refund" \in DisputeStatus
      BY DEF DisputeStatus
    <3> QED
      BY <2>1, <2>3, <3>1, FinalizeType
  <2> HIDE DEF r
  <2>6. r.refunded <= Total /\ ~IsOpen(r) /\ r.claimed = c.claimed
    BY <2>1, <2>4, <2>5 DEF IsOpen
  <2>7. CaseInv(r)
    BY <2>5, <2>6, EndSound
  <2>8. ASSUME old = c.refunded PROVE Paid(c) => Paid(r)
    BY <2>1, <2>4, <2>5, <2>8 DEF Paid, Case
  <2> QED
    BY <2>2, <2>5, <2>7, <2>8 DEF Kept, old
<1> QED
  BY <1>2, <1>3, <1>4 DEF Jobs

LEMMA SeenType ==
  ASSUME IInv, NEW j \in Jobs, NEW o \in Orders
  PROVE  job[j].seen[o].refunded \in 0..Total
<1>1. job[j].seen[o] \in Snapshot
  BY DEF IInv, TypeOK
<1> QED
  BY <1>1 DEF IInv, Seen, Snapshot

LEMMA job_settles_Kept ==
  ASSUME IInv, NEW j \in Jobs, NEW o \in Orders, job_settles(j, o)
  PROVE  \E d \in Case : /\ CaseInv(d) /\ case' = [case EXCEPT ![o] = d]
                         /\ job[j].seen[o].refunded = case[o].refunded => Kept(case[o], d)
<1> DEFINE d == Resolve(j, case[o], job[j].seen[o])
<1>1. case[o] \in Case /\ CaseInv(case[o]) /\ case[o].status = "delivered"
  BY OneCase DEF job_settles
<1>2. d \in Case /\ CaseInv(d)
      /\ (job[j].seen[o].refunded = case[o].refunded => Kept(case[o], d))
  BY <1>1, SeenType, ResolveKept
<1>3. case' = [case EXCEPT ![o] = d]
  BY DEF job_settles
<1> HIDE DEF d
<1> QED
  BY <1>2, <1>3

Row == [locks : BOOLEAN, batch : SUBSET Orders, seen : [Orders -> Snapshot]]

RowInv(r) == r \in Row /\ \A o \in Orders : r.seen[o].refunded <= Total

JobsInv == job \in [Jobs -> Row] /\ \A j \in Jobs : RowInv(job[j])

LEMMA JobsInvIs ==
  IInv <=> /\ case \in [Orders -> Case] /\ (\A o \in Orders : CaseInv(case[o]))
           /\ JobsInv
  BY DEF IInv, TypeOK, Seen, JobsInv, RowInv, Row

LEMMA NotSeenType == NotSeen \in Snapshot /\ NotSeen.refunded <= Total
  BY DEF NotSeen, Snapshot

LEMMA IdleInv == RowInv(Idle)
<1>1. Idle \in Row
  BY NotSeenType DEF Idle, Row
<1>2. \A o \in Orders : Idle.seen[o] = NotSeen
  BY DEF Idle
<1> QED
  BY <1>1, <1>2, NotSeenType DEF RowInv

LEMMA WithoutInv ==
  ASSUME IInv, NEW j \in Jobs, NEW o \in Orders
  PROVE  RowInv(Without(j, o)) /\ RowInv([Without(j, o) EXCEPT !.locks = FALSE])
<1> DEFINE r == Without(j, o)
           seen == [job[j].seen EXCEPT ![o] = NotSeen]
<1>1. job[j] \in Row /\ \A p \in Orders : job[j].seen[p].refunded <= Total
  BY JobsInvIs DEF JobsInv, RowInv
<1>2. seen \in [Orders -> Snapshot] /\ \A p \in Orders : seen[p].refunded <= Total
  BY <1>1, NotSeenType DEF Row
<1>3. r = [job[j] EXCEPT !.batch = job[j].batch \ {o}, !.seen = seen]
  BY DEF Without
<1> HIDE DEF seen, r
<1>4. r \in Row /\ r.seen = seen
  BY <1>1, <1>2, <1>3 DEF Row
<1>5. [r EXCEPT !.locks = FALSE] \in Row /\ [r EXCEPT !.locks = FALSE].seen = seen
  BY <1>4 DEF Row
<1> QED
  BY <1>2, <1>4, <1>5 DEF RowInv, r

LEMMA RowWritten ==
  ASSUME IInv, NEW j \in Jobs, NEW r, RowInv(r), job' = [job EXCEPT ![j] = r]
  PROVE  JobsInv'
<1>1. job \in [Jobs -> Row] /\ \A k \in Jobs : RowInv(job[k])
  BY JobsInvIs DEF JobsInv
<1>2. job' \in [Jobs -> Row]
  BY <1>1 DEF RowInv
<1>3. \A k \in Jobs : job'[k] = r \/ job'[k] = job[k]
  BY <1>1
<1>4. \A k \in Jobs : RowInv(job'[k])
  BY <1>1, <1>3
<1> QED
  BY <1>2, <1>4 DEF JobsInv, RowInv

LEMMA CaseWritten ==
  ASSUME IInv, NEW o \in Orders, NEW d \in Case, CaseInv(d), case' = [case EXCEPT ![o] = d]
  PROVE  case' \in [Orders -> Case] /\ \A p \in Orders : CaseInv(case'[p])
<1>1. case \in [Orders -> Case] /\ \A p \in Orders : CaseInv(case[p])
  BY JobsInvIs
<1>2. case' \in [Orders -> Case]
  BY <1>1
<1>3. \A p \in Orders : case'[p] = d \/ case'[p] = case[p]
  BY <1>1
<1> QED
  BY <1>1, <1>2, <1>3

LEMMA ChangesInv ==
  ASSUME IInv, NEW o \in Orders, Changes(o) PROVE IInv'
<1>1. PICK d : Kept(case[o], d) /\ Write(o, d)
  BY DEF Changes
<1>2. case' \in [Orders -> Case] /\ \A p \in Orders : CaseInv(case'[p])
  BY <1>1, CaseWritten DEF Kept, Write
<1>3. JobsInv'
  BY <1>1, JobsInvIs DEF Write, JobsInv
<1> QED
  BY <1>2, <1>3 DEF IInv, TypeOK, Seen, JobsInv, RowInv, Row

LEMMA job_selects_Inv ==
  ASSUME IInv, NEW j \in Jobs, job_selects(j) PROVE IInv'
<1> DEFINE due == {o \in Orders : Unlocked(o) /\ Selects(j, case[o])}
           seen == [o \in Orders |-> IF o \in due THEN ViewOf(case[o]) ELSE NotSeen]
           r == [locks |-> TRUE, batch |-> due, seen |-> seen]
<1>1. \A o \in Orders : ViewOf(case[o]) \in Snapshot /\ ViewOf(case[o]).refunded <= Total
  BY OneCase DEF ViewOf, Case, Snapshot, CaseInv, Shape
<1>2. job' = [job EXCEPT ![j] = r] /\ UNCHANGED case
  BY DEF job_selects
<1>3. due \subseteq Orders
  OBVIOUS
<1> HIDE DEF due
<1>4. seen \in [Orders -> Snapshot] /\ \A o \in Orders : seen[o].refunded <= Total
  BY <1>1, NotSeenType
<1> HIDE DEF seen
<1>5. RowInv(r)
  BY <1>3, <1>4 DEF RowInv, Row
<1> HIDE DEF r
<1>6. JobsInv'
  BY <1>2, <1>5, RowWritten
<1> QED
  BY <1>2, <1>6, JobsInvIs DEF IInv, TypeOK, Seen, JobsInv, RowInv, Row

LEMMA job_passes_Inv ==
  ASSUME IInv, NEW j \in Jobs, NEW o \in Orders, job_passes(j, o) PROVE IInv'
<1>1. PICK r : RowInv(r) /\ job' = [job EXCEPT ![j] = r] /\ UNCHANGED case
  BY IdleInv, WithoutInv DEF job_passes
<1>2. JobsInv'
  BY <1>1, RowWritten
<1> QED
  BY <1>1, <1>2, JobsInvIs DEF IInv, TypeOK, Seen, JobsInv, RowInv, Row

LEMMA job_aborts_Inv ==
  ASSUME IInv, NEW j \in Jobs, NEW o \in Orders, job_aborts(j, o) PROVE IInv'
<1>1. JobsInv'
  BY IdleInv, RowWritten DEF job_aborts
<1> QED
  BY <1>1, JobsInvIs DEF job_aborts, IInv, TypeOK, Seen, JobsInv, RowInv, Row

LEMMA job_settles_Inv ==
  ASSUME IInv, NEW j \in Jobs, NEW o \in Orders, job_settles(j, o) PROVE IInv'
<1>1. JobsInv'
  BY WithoutInv, RowWritten DEF job_settles
<1>2. case' \in [Orders -> Case] /\ \A p \in Orders : CaseInv(case'[p])
  BY job_settles_Kept, CaseWritten
<1> QED
  BY <1>1, <1>2 DEF IInv, TypeOK, Seen, JobsInv, RowInv, Row

-----------------------------------------------------------------------------
LEMMA TimeKept == ASSUME IInv, NEW o \in Orders, Time(o) PROVE Changes(o)
  BY escrow_passes_Kept, claims_go_quiet_Kept, seller_deadline_passes_Kept,
     resolution_deadline_passes_Kept DEF Time

LEMMA PeopleKept == ASSUME IInv, NEW o \in Orders, People(o) PROVE Changes(o)
<1>1. ASSUME NEW S \in SUBSET Lines, NEW timed \in Windows, create_dispute(o, S, timed)
      PROVE  Changes(o)
  BY <1>1, create_dispute_Kept
<1>2. ASSUME NEW S \in SUBSET Lines, append_claim_batch(o, S) PROVE Changes(o)
  BY <1>2, append_claim_batch_Kept
<1>3. ASSUME NEW S \in SUBSET Lines, NEW action \in {"refund", "replace"},
             seller_resolve_resources(o, S, action)
      PROVE  Changes(o)
  BY <1>3, seller_resolve_resources_Kept
<1>4. ASSUME NEW S \in SUBSET Lines, seller_resolve_proxies(o, S) PROVE Changes(o)
  BY <1>4, seller_resolve_proxies_Kept
<1>5. ASSUME NEW S \in SUBSET Lines, admin_refund_proxies(o, S) PROVE Changes(o)
  BY <1>5, admin_refund_proxies_Kept
<1>6. CASE accept_dispute_resolution(o)
  BY <1>6, accept_dispute_resolution_Kept
<1>7. CASE withdraw_dispute(o)
  BY <1>7, withdraw_dispute_Kept
<1>8. ASSUME NEW role \in {"buyer", "seller"}, request_marketplace_review(o, role)
      PROVE  Changes(o)
  BY <1>8, request_marketplace_review_Kept
<1>9. CASE seller_respond_dispute(o)
  BY <1>9, seller_respond_dispute_Kept
<1>10. CASE refund_dispute(o)
  BY <1>10, refund_dispute_Kept
<1>11. CASE reject_dispute(o)
  BY <1>11, reject_dispute_Kept
<1>12. ASSUME NEW amount \in 1..Total, partial_refund_dispute(o, amount) PROVE Changes(o)
  BY <1>12, partial_refund_dispute_Kept
<1>13. CASE replace_dispute(o)
  BY <1>13, replace_dispute_Kept
<1>14. CASE extend_warranty_dispute(o)
  BY <1>14, extend_warranty_dispute_Kept
<1>15. CASE extend_escrow(o)
  BY <1>15, extend_escrow_Kept
<1>16. CASE confirm_order(o)
  BY <1>16, settled_order_Kept DEF confirm_order
<1> QED
  BY <1>1, <1>2, <1>3, <1>4, <1>5, <1>6, <1>7, <1>8, <1>9, <1>10, <1>11, <1>12, <1>13, <1>14,
     <1>15, <1>16 DEF People

LEMMA escrow_release_job_Kept ==
  ASSUME IInv, NEW o \in Orders, escrow_release_job(o) PROVE Changes(o)
  BY settled_order_Kept DEF escrow_release_job

LEMMA InitInv == Init => IInv
<1> SUFFICES ASSUME Init PROVE IInv
  OBVIOUS
<1>1. ASSUME NEW o \in Orders PROVE case[o] \in Case /\ CaseInv(case[o]) /\ Paid(case[o])
  <2>1. PICK goods \in Goods, caps \in Splits(Total) : case[o] = NewCase(goods, caps)
    BY DEF Init
  <2>2. caps \in [Lines -> Nat] /\ SumFunctionOnSet(caps, Lines) = Total
    BY SplitsType
  <2>3. case[o] \in Case
    BY <2>1, <2>2, ZeroGeneration DEF NewCase, Case
  <2>4. /\ case[o].status = "delivered" /\ case[o].dispute = "none" /\ case[o].refunded = 0
        /\ case[o].credited = 0 /\ case[o].released = 0 /\ case[o].claimed = {}
        /\ case[o].gone = {} /\ case[o].cap = caps
    BY <2>1 DEF NewCase
  <2>5. Shape(case[o]) /\ Covered(case[o])
    BY <2>4 DEF Shape, Covered, IsOpen
  <2>6. Fits(case[o])
    <3>1. Lines \ {} = Lines
      OBVIOUS
    <3> QED
      BY <2>2, <2>4, <3>1 DEF Fits
  <2> QED
    BY <2>3, <2>4, <2>5, <2>6 DEF CaseInv, Paid
<1>2. case \in [Orders -> Case]
  <2>1. case = [o \in Orders |-> case[o]]
    BY DEF Init
  <2> QED
    BY <1>1, <2>1
<1>3. JobsInv
  BY IdleInv DEF Init, JobsInv, RowInv
<1> QED
  BY <1>1, <1>2, <1>3, JobsInvIs

LEMMA NextInv == IInv /\ [Next]_vars => IInv'
<1> SUFFICES ASSUME IInv, [Next]_vars PROVE IInv'
  OBVIOUS
<1>1. ASSUME NEW o \in Orders, Time(o) \/ People(o) \/ escrow_release_job(o) PROVE IInv'
  BY <1>1, TimeKept, PeopleKept, escrow_release_job_Kept, ChangesInv
<1>2. ASSUME NEW j \in Jobs, JobSteps(j) PROVE IInv'
  BY <1>2, job_selects_Inv, job_passes_Inv, job_settles_Inv, job_aborts_Inv DEF JobSteps
<1>3. CASE UNCHANGED vars
  BY <1>3 DEF vars, IInv, TypeOK, Seen
<1> QED
  BY <1>1, <1>2, <1>3 DEF Next

-----------------------------------------------------------------------------
(* The views of the jobs *)

(* What a job saw of an order it still has to settle is what the order has *)
(* been refunded.                                                          *)
Fresh(j) == \A o \in job[j].batch : job[j].seen[o].refunded = case[o].refunded

(* A view that can do no harm: the money is as it was, and an escrow clock *)
(* that had run out has not been set again.                                *)
Holds(c, seen) ==
  /\ seen.refunded = c.refunded
  /\ seen.escrow = "overdue" => c.escrow = "overdue"

Held(j) == \A o \in job[j].batch : Holds(case[o], job[j].seen[o])

(* Under the locks of its query a job's view cannot grow old.              *)
LockedViewsFresh == \A j \in Jobs : job[j].locks => Held(j)

(* The orders a job still has to settle after its first commit, without a  *)
(* lock, have not been refunded since it selected them.                    *)
LaterViewsFresh == \A j \in Jobs : ~job[j].locks => Fresh(j)

(* Time passes over locks, but it refunds nothing and sets no clock back.  *)
LEMMA TimeHolds ==
  ASSUME IInv, NEW o \in Orders, Time(o)
  PROVE  /\ UNCHANGED job
         /\ \A p \in Orders : Holds(case'[p], ViewOf(case[p]))
<1>0. case \in [Orders -> Case]
  BY JobsInvIs
<1>1. ASSUME NEW d, Holds(d, ViewOf(case[o])), Write(o, d)
      PROVE  UNCHANGED job /\ \A p \in Orders : Holds(case'[p], ViewOf(case[p]))
  <2>1. UNCHANGED job /\ \A p \in Orders : case'[p] = IF p = o THEN d ELSE case[p]
    BY <1>0, <1>1 DEF Write
  <2> QED
    BY <1>1, <2>1 DEF Holds, ViewOf
<1>2. CASE escrow_passes(o)
  <2>1. PICK x : x # "running" /\ Write(o, [case[o] EXCEPT !.escrow = x])
                 /\ (case[o].escrow = "overdue" => x = "overdue")
    BY <1>2 DEF escrow_passes
  <2>2. Holds([case[o] EXCEPT !.escrow = x], ViewOf(case[o]))
    BY <1>0, <2>1 DEF Case, Holds, ViewOf
  <2> QED
    BY <1>1, <2>1, <2>2
<1>3. CASE claims_go_quiet(o)
  <2>1. Holds([case[o] EXCEPT !.quiet = TRUE], ViewOf(case[o]))
    BY <1>0 DEF Case, Holds, ViewOf
  <2> QED
    BY <1>1, <1>3, <2>1 DEF claims_go_quiet
<1>4. CASE seller_deadline_passes(o)
  <2>1. Holds([case[o] EXCEPT !.deadline = "due"], ViewOf(case[o]))
    BY <1>0 DEF Case, Holds, ViewOf
  <2> QED
    BY <1>1, <1>4, <2>1 DEF seller_deadline_passes
<1>5. CASE resolution_deadline_passes(o)
  <2>1. Holds([case[o] EXCEPT !.offer = "due"], ViewOf(case[o]))
    BY <1>0 DEF Case, Holds, ViewOf
  <2> QED
    BY <1>1, <1>5, <2>1 DEF resolution_deadline_passes
<1> QED
  BY <1>2, <1>3, <1>4, <1>5 DEF Time

(* Everyone else takes the row lock of the order. *)
LEMMA HandlersLock ==
  ASSUME NEW o \in Orders, People(o) \/ escrow_release_job(o)
  PROVE  Unlocked(o)
  BY DEF People, escrow_release_job, Undisputed, InCase, create_dispute, append_claim_batch,
         seller_resolve_resources, seller_resolve_proxies, admin_refund_proxies,
         refund_proxy_lines, accept_dispute_resolution, withdraw_dispute,
         request_marketplace_review, seller_respond_dispute, refund_dispute, reject_dispute,
         partial_refund_dispute, replace_dispute, extend_warranty_dispute, extend_escrow,
         confirm_order

LEMMA NextLocked == IInv /\ LockedViewsFresh /\ [Next]_vars => LockedViewsFresh'
<1> SUFFICES ASSUME IInv, LockedViewsFresh, [Next]_vars, NEW k \in Jobs, job'[k].locks
             PROVE  Held(k)'
  BY DEF LockedViewsFresh
<1>0. /\ case \in [Orders -> Case] /\ job \in [Jobs -> Row] /\ job[k].batch \subseteq Orders
      /\ job[k].locks => Held(k)
  BY JobsInvIs DEF JobsInv, LockedViewsFresh, Row
<1>1. ASSUME NEW o \in Orders, Time(o) PROVE Held(k)'
  <2>1. UNCHANGED job /\ \A p \in Orders : Holds(case'[p], ViewOf(case[p]))
    BY <1>1, TimeHolds
  <2> QED
    BY <1>0, <2>1 DEF Held, Holds, ViewOf
<1>2. ASSUME NEW o \in Orders, People(o) \/ escrow_release_job(o) PROVE Held(k)'
  <2>1. PICK d : Write(o, d)
    BY <1>2, PeopleKept, escrow_release_job_Kept DEF Changes
  <2>2. o \notin LockedBy(k)
    BY <1>2, HandlersLock DEF Unlocked
  <2>3. job[k].locks /\ o \notin job[k].batch
    BY <2>1, <2>2 DEF Write, LockedBy
  <2>4. UNCHANGED job /\ \A p \in Orders : p # o => case'[p] = case[p]
    BY <1>0, <2>1 DEF Write
  <2> QED
    BY <1>0, <2>3, <2>4 DEF Held
<1>3. ASSUME NEW j \in Jobs, job_selects(j) PROVE Held(k)'
  <2>1. CASE k # j
    <3>1. job'[k] = job[k] /\ UNCHANGED case
      BY <1>0, <1>3, <2>1 DEF job_selects
    <3> QED
      BY <1>0, <3>1 DEF Held
  <2>2. CASE k = j
    <3> DEFINE due == {o \in Orders : Unlocked(o) /\ Selects(j, case[o])}
               seen == [o \in Orders |->
                          IF o \in due THEN ViewOf(case[o]) ELSE NotSeen]
    <3>1. job'[k] = [locks |-> TRUE, batch |-> due, seen |-> seen] /\ UNCHANGED case
      BY <1>0, <1>3, <2>2 DEF job_selects
    <3>2. \A o \in due : Holds(case[o], seen[o])
      BY DEF Holds, ViewOf
    <3> HIDE DEF due, seen
    <3> QED
      BY <3>1, <3>2 DEF Held
  <2> QED
    BY <2>1, <2>2
<1>4. ASSUME NEW j \in Jobs, NEW o \in Orders, job_passes(j, o) PROVE Held(k)'
  <2>1. UNCHANGED case /\ (k # j => job'[k] = job[k])
    BY <1>0, <1>4 DEF job_passes
  <2>2. ASSUME k = j
        PROVE  /\ job[k].locks /\ job'[k].batch = job[k].batch \ {o}
               /\ \A p \in job'[k].batch : job'[k].seen[p] = job[k].seen[p]
    <3>1. job'[k] = Without(k, o)
      BY <1>0, <1>4, <2>2 DEF job_passes, Idle
    <3>2. /\ Without(k, o).locks = job[k].locks
          /\ Without(k, o).batch = job[k].batch \ {o}
          /\ Without(k, o).seen = [job[k].seen EXCEPT ![o] = NotSeen]
      BY <1>0 DEF Without, Row
    <3>3. job[k].seen \in [Orders -> Snapshot]
      BY <1>0 DEF Row
    <3> QED
      BY <1>0, <3>1, <3>2, <3>3
  <2> QED
    BY <1>0, <2>1, <2>2 DEF Held
<1>5. ASSUME NEW j \in Jobs, NEW o \in Orders, job_settles(j, o) PROVE Held(k)'
  <2>1. k # j
    <3>1. job'[j].locks = FALSE
      <4>1. job'[j] = [Without(j, o) EXCEPT !.locks = FALSE]
        BY <1>0, <1>5 DEF job_settles
      <4>2. Without(j, o) \in Row
        BY WithoutInv DEF RowInv
      <4> QED
        BY <4>1, <4>2 DEF Row
    <3> QED
      BY <3>1
  <2>2. job'[k] = job[k] /\ \A p \in Orders : p # o => case'[p] = case[p]
    BY <1>0, <1>5, <2>1 DEF job_settles
  <2>3. o \notin LockedBy(k)
    BY <1>5, <2>1 DEF job_settles, Mine
  <2> QED
    BY <1>0, <2>2, <2>3 DEF Held, LockedBy
<1>6. ASSUME NEW j \in Jobs, NEW o \in Orders, job_aborts(j, o) PROVE Held(k)'
  <2>1. UNCHANGED case /\ (k # j => job'[k] = job[k]) /\ (k = j => job'[k] = Idle)
    BY <1>0, <1>6 DEF job_aborts
  <2> QED
    BY <1>0, <2>1 DEF Held, Idle
<1>7. CASE UNCHANGED vars
  BY <1>0, <1>7 DEF vars, Held
<1> QED
  BY <1>1, <1>2, <1>3, <1>4, <1>5, <1>6, <1>7 DEF Next, JobSteps

-----------------------------------------------------------------------------
(* The money *)
LEMMA SellerGetsTheRestIs == SellerGetsTheRest <=> \A o \in Orders : Paid(case[o])
  BY DEF SellerGetsTheRest, Paid

LEMMA KeptPaid ==
  ASSUME IInv, SellerGetsTheRest, NEW o \in Orders, NEW d, Kept(case[o], d),
         case' = [case EXCEPT ![o] = d]
  PROVE  SellerGetsTheRest'
<1>1. case \in [Orders -> Case] /\ \A p \in Orders : Paid(case[p])
  BY JobsInvIs, SellerGetsTheRestIs
<1>2. Paid(d)
  BY <1>1 DEF Kept
<1>3. \A p \in Orders : case'[p] = d \/ case'[p] = case[p]
  BY <1>1
<1>4. \A p \in Orders : Paid(case'[p])
  BY <1>1, <1>2, <1>3
<1> QED
  BY <1>4 DEF SellerGetsTheRest, Paid

LEMMA NextPaid ==
  IInv /\ LockedViewsFresh /\ LaterViewsFresh /\ SellerGetsTheRest /\ [Next]_vars
    => SellerGetsTheRest'
<1> SUFFICES ASSUME IInv, LockedViewsFresh, LaterViewsFresh, SellerGetsTheRest, [Next]_vars
             PROVE  SellerGetsTheRest'
  OBVIOUS
<1>1. ASSUME NEW o \in Orders, Time(o) \/ People(o) \/ escrow_release_job(o)
      PROVE  SellerGetsTheRest'
  <2>1. PICK d : Kept(case[o], d) /\ Write(o, d)
    BY <1>1, TimeKept, PeopleKept, escrow_release_job_Kept DEF Changes
  <2> QED
    BY <2>1, KeptPaid DEF Write
<1>2. ASSUME NEW j \in Jobs, NEW o \in Orders, job_settles(j, o) PROVE SellerGetsTheRest'
  <2>1. o \in job[j].batch /\ Fresh(j)
    BY <1>2 DEF job_settles, Mine, LockedViewsFresh, LaterViewsFresh, Held, Holds, Fresh
  <2>2. job[j].seen[o].refunded = case[o].refunded
    BY <2>1 DEF Fresh
  <2>3. PICK d : Kept(case[o], d) /\ case' = [case EXCEPT ![o] = d]
    BY <1>2, <2>2, job_settles_Kept
  <2> QED
    BY <2>3, KeptPaid
<1>3. ASSUME UNCHANGED case PROVE SellerGetsTheRest'
  BY <1>3 DEF SellerGetsTheRest
<1> QED
  BY <1>1, <1>2, <1>3 DEF Next, JobSteps, job_selects, job_passes, job_aborts, vars

LEMMA InitPaid == Init => SellerGetsTheRest /\ LockedViewsFresh
<1> SUFFICES ASSUME Init PROVE SellerGetsTheRest /\ LockedViewsFresh
  OBVIOUS
<1>1. ASSUME NEW o \in Orders PROVE Paid(case[o])
  <2>1. PICK goods \in Goods, caps \in Splits(Total) : case[o] = NewCase(goods, caps)
    BY DEF Init
  <2> QED
    BY <2>1 DEF NewCase, Paid
<1>2. \A j \in Jobs : job[j] = Idle
  BY DEF Init
<1> QED
  BY <1>1, <1>2, SellerGetsTheRestIs DEF LockedViewsFresh, Idle

-----------------------------------------------------------------------------
LEMMA Invariant == Spec => []IInv
<1> QED
  BY InitInv, NextInv, PTL DEF Spec

(* Every handler and every job leaves the rows of an order, its dispute    *)
(* and the jobs' lists well formed; a line is replaced at most once more   *)
(* than MAX_WARRANTY_CLAIM_GENERATION.                                     *)
THEOREM DisputeTypes == Spec => []TypeOK
<1>1. IInv => TypeOK
  BY DEF IInv
<1> QED
  BY <1>1, Invariant, PTL

(* offer_resolution_deadline: the buyer's response window runs only over   *)
(* an offer for every claim, or over an answer to a case without claims,   *)
(* and never during a review; a new claim withdraws it.                    *)
THEOREM OffersCover == Spec => []OfferCoversClaims
<1>1. IInv => OfferCoversClaims
  BY DEF IInv, CaseInv, Covered, OfferCoversClaims
<1> QED
  BY <1>1, Invariant, PTL

(* Over claims, refunds, replacements, new cases and whole-order           *)
(* replacements, the caps of the lines a buyer still holds add up to what  *)
(* is left in escrow.                                                      *)
THEOREM LinesFit == Spec => []LinesFitEscrow
<1>1. IInv => LinesFitEscrow
  BY DEF IInv, CaseInv, Fits, LinesFitEscrow
<1> QED
  BY <1>1, Invariant, PTL

(* The first order a job settles, it settles on what the order has been    *)
(* refunded: until then it holds the locks of its query.                   *)
THEOREM FirstViewIsFresh == Spec => []LockedViewsFresh
  BY InitPaid, Invariant, NextLocked, PTL DEF Spec

(* finalize_dispute: as long as the orders a job settles after its first   *)
(* commit have not been refunded since it selected them, every case ends   *)
(* with the seller paid the total less what went back to the buyer.        *)
THEOREM SellerPaid == Spec /\ []LaterViewsFresh => []SellerGetsTheRest
  BY InitPaid, Invariant, FirstViewIsFresh, NextPaid, PTL DEF Spec

-----------------------------------------------------------------------------
(* The outcome of a job names the job, and only the seller's deadline      *)
(* refunds.                                                                *)
LEMMA ResolveOutcome ==
  ASSUME NEW j \in Jobs, NEW c \in Case, NEW seen, seen.refunded \in 0..Total
  PROVE  /\ Resolve(j, c, seen).dispute = "resolved_timeout" => j = "resolution_timeout"
         /\ Resolve(j, c, seen).dispute = "resolved_abandoned" => j = "abandonment"
         /\ Resolve(j, c, seen).credited # c.credited => j = "seller_timeout"
         /\ Resolve(j, c, seen).status # "delivered"
<1> DEFINE old == seen.refunded
           d == Resolve(j, c, seen)
<1>1. CASE j = "seller_timeout"
  <2> DEFINE left == Total - old
             total == old + left
             credit == c.credited + left
             p == [c EXCEPT !.refunded = total, !.credited = credit]
  <2>1. total \in 0..Total /\ total \in Nat /\ credit \in Nat
    BY DEF Case
  <2>2. d = finalize_dispute(p, total, "resolved_refund")
    BY <1>1 DEF Resolve
  <2>3. "resolved_refund" \in DisputeStatus
    BY DEF DisputeStatus
  <2> HIDE DEF left, total, credit, d
  <2>4. p \in Case
    BY <2>1, Fields
  <2> HIDE DEF p
  <2>5. /\ d.dispute = IF total = Total THEN "resolved_refund" ELSE "resolved_refund"
        /\ d.status \in {"completed", "refunded"}
    BY <2>1, <2>2, <2>3, <2>4, FinalizeType
  <2> QED
    BY <1>1, <2>5 DEF d
<1>2. CASE j = "resolution_timeout"
  <2>1. d = finalize_dispute(c, old, "resolved_timeout")
    BY <1>2 DEF Resolve
  <2>2. "resolved_timeout" \in DisputeStatus
    BY DEF DisputeStatus
  <2> HIDE DEF old, d
  <2>3. /\ d.dispute = IF old = Total THEN "resolved_refund" ELSE "resolved_timeout"
        /\ d.credited = c.credited /\ d.status \in {"completed", "refunded"}
    BY <2>1, <2>2, FinalizeType DEF old
  <2> QED
    BY <1>2, <2>3 DEF d
<1>3. CASE j = "abandonment"
  <2>1. d = finalize_dispute(c, old, "resolved_abandoned")
    BY <1>3 DEF Resolve
  <2>2. "resolved_abandoned" \in DisputeStatus
    BY DEF DisputeStatus
  <2> HIDE DEF old, d
  <2>3. /\ d.dispute = IF old = Total THEN "resolved_refund" ELSE "resolved_abandoned"
        /\ d.credited = c.credited /\ d.status \in {"completed", "refunded"}
    BY <2>1, <2>2, FinalizeType DEF old
  <2> QED
    BY <1>3, <2>3 DEF d
<1> QED
  BY <1>1, <1>2, <1>3 DEF Jobs

LEMMA SettlesRespect ==
  ASSUME IInv, NEW j \in Jobs, NEW o \in Orders, job_settles(j, o)
  PROVE  /\ ~case[o].review
         /\ case'[o].dispute = "resolved_timeout" => case[o].claimed \subseteq case[o].remedied
         /\ case'[o].dispute = "resolved_abandoned" => case[o].remedied = {}
         /\ case'[o].credited > case[o].credited => ~case[o].answered
         /\ \A p \in Orders : p # o => case'[p] = case[p]
<1> DEFINE c == case[o]
           seen == job[j].seen[o]
<1>1. /\ IsOpen(c) /\ Eligible(j, c, seen) /\ case' = [case EXCEPT ![o] = Resolve(j, c, seen)]
  BY DEF job_settles
<1>2. case \in [Orders -> Case] /\ c \in Case /\ CaseInv(c)
  BY JobsInvIs
<1>3. case'[o] = Resolve(j, c, seen) /\ \A p \in Orders : p # o => case'[p] = case[p]
  BY <1>1, <1>2
<1>4. /\ case'[o].dispute = "resolved_timeout" => j = "resolution_timeout"
      /\ case'[o].dispute = "resolved_abandoned" => j = "abandonment"
      /\ case'[o].credited # c.credited => j = "seller_timeout"
  BY <1>2, <1>3, SeenType, ResolveOutcome
<1> HIDE DEF c, seen
<1>5. ~c.review
  BY <1>1 DEF Eligible
<1>6. j = "resolution_timeout" => c.claimed \subseteq c.remedied
  BY <1>1, <1>2 DEF Eligible, CaseInv, Covered
<1>7. j = "abandonment" => c.remedied = {}
  BY <1>1 DEF Eligible
<1>8. j = "seller_timeout" => ~c.answered
  BY <1>1 DEF Eligible
<1>9. case'[o].credited > c.credited => case'[o].credited # c.credited
  <2>1. c.credited \in Nat
    BY <1>2 DEF Case
  <2> QED
    BY <2>1
<1> QED
  BY <1>3, <1>4, <1>5, <1>6, <1>7, <1>8, <1>9 DEF c

LEMMA NextRespects ==
  ASSUME IInv, [Next]_vars, NEW o \in Orders, case[o] # case'[o], job # job'
  PROVE  /\ ~case[o].review
         /\ case'[o].dispute = "resolved_timeout" => case[o].claimed \subseteq case[o].remedied
         /\ case'[o].dispute = "resolved_abandoned" => case[o].remedied = {}
         /\ case'[o].credited > case[o].credited => ~case[o].answered
<1>1. ASSUME NEW p \in Orders, Time(p) \/ People(p) \/ escrow_release_job(p) PROVE FALSE
  BY <1>1, TimeKept, PeopleKept, escrow_release_job_Kept DEF Changes, Write
<1>2. PICK j \in Jobs, p \in Orders : job_settles(j, p)
  BY <1>1 DEF Next, JobSteps, job_selects, job_passes, job_aborts, vars
<1>3. p = o
  BY <1>2, SettlesRespect
<1> QED
  BY <1>2, <1>3, SettlesRespect

(* The three jobs check the dispute again under its lock: however old the  *)
(* query they work from, none settles a case under review, over a claim    *)
(* nobody remedied, or against a seller who has answered.                  *)
THEOREM TimersRespectPeople == Spec => JobsRespectPeople
<1>1. IInv /\ [Next]_vars =>
        [\A o \in Orders : case[o] # case'[o] /\ job # job' =>
           /\ ~case[o].review
           /\ case'[o].dispute = "resolved_timeout" => case[o].claimed \subseteq case[o].remedied
           /\ case'[o].dispute = "resolved_abandoned" => case[o].remedied = {}
           /\ case'[o].credited > case[o].credited => ~case[o].answered]_vars
  BY NextRespects
<1> QED
  BY <1>1, Invariant, PTL DEF Spec, JobsRespectPeople

-----------------------------------------------------------------------------
(* A view does no harm while the locks of the query are held, nor where    *)
(* nobody has changed the order.  What is settled beforehand is exact      *)
(* whatever jobs have done to others: DeliveredPaid.                       *)
DeliveredPaid == \A o \in Orders : case[o].status = "delivered" => Paid(case[o])

LEMMA HandlersDelivered ==
  ASSUME IInv, NEW o \in Orders, Time(o) \/ People(o) \/ escrow_release_job(o)
  PROVE  case[o].status = "delivered"
<1>1. IsOpen(case[o]) => case[o].status = "delivered"
  BY OneCase
<1>2. CASE Time(o)
  BY <1>1, <1>2 DEF Time, escrow_passes, claims_go_quiet, seller_deadline_passes,
                    resolution_deadline_passes
<1>3. CASE People(o)
  BY <1>1, <1>3 DEF People, Undisputed, InCase, create_dispute, append_claim_batch,
         seller_resolve_resources, seller_resolve_proxies, admin_refund_proxies,
         refund_proxy_lines, accept_dispute_resolution, withdraw_dispute,
         request_marketplace_review, seller_respond_dispute, refund_dispute, reject_dispute,
         partial_refund_dispute, replace_dispute, extend_warranty_dispute, extend_escrow,
         confirm_order
<1>4. CASE escrow_release_job(o)
  BY <1>4 DEF escrow_release_job, Undisputed
<1> QED
  BY <1>2, <1>3, <1>4

(* What a job makes of the order it settles. *)
LEMMA SettlesClosed ==
  ASSUME IInv, NEW j \in Jobs, NEW o \in Orders, job_settles(j, o)
  PROVE  /\ case[o].status = "delivered" /\ case'[o].status # "delivered"
         /\ \A p \in Orders : p # o => case'[p] = case[p]
         /\ \A k \in Jobs : k # j => job'[k] = job[k]
         /\ case'[o].dispute = "resolved_abandoned" => job[j].seen[o].escrow = "overdue"
<1> DEFINE d == Resolve(j, case[o], job[j].seen[o])
<1>1. /\ case \in [Orders -> Case] /\ job \in [Jobs -> Row] /\ case[o] \in Case
      /\ case[o].status = "delivered"
  BY JobsInvIs, OneCase DEF job_settles, JobsInv
<1>2. d.status # "delivered" /\ (d.dispute = "resolved_abandoned" => j = "abandonment")
  BY <1>1, SeenType, ResolveOutcome
<1>3. case' = [case EXCEPT ![o] = d] /\ \A k \in Jobs : k # j => job'[k] = job[k]
  BY <1>1 DEF job_settles
<1>4. j = "abandonment" => job[j].seen[o].escrow = "overdue"
  BY DEF job_settles, Eligible
<1> HIDE DEF d
<1> QED
  BY <1>1, <1>2, <1>3, <1>4

LEMMA NextDelivered == IInv /\ DeliveredPaid /\ [Next]_vars => DeliveredPaid'
<1> SUFFICES ASSUME IInv, DeliveredPaid, [Next]_vars PROVE DeliveredPaid'
  OBVIOUS
<1>0. case \in [Orders -> Case]
  BY JobsInvIs
<1>1. ASSUME NEW o \in Orders, Time(o) \/ People(o) \/ escrow_release_job(o)
      PROVE  DeliveredPaid'
  <2>1. PICK d : Kept(case[o], d) /\ Write(o, d)
    BY <1>1, TimeKept, PeopleKept, escrow_release_job_Kept DEF Changes
  <2>2. Paid(d)
    BY <1>1, <2>1, HandlersDelivered DEF Kept, DeliveredPaid
  <2>3. \A p \in Orders : case'[p] = d \/ case'[p] = case[p]
    BY <1>0, <2>1 DEF Write
  <2>4. \A p \in Orders : case'[p].status = "delivered" => Paid(case'[p])
    BY <2>2, <2>3 DEF DeliveredPaid
  <2> QED
    BY <2>4 DEF DeliveredPaid, Paid
<1>2. ASSUME NEW j \in Jobs, NEW o \in Orders, job_settles(j, o) PROVE DeliveredPaid'
  <2>1. \A p \in Orders : case'[p].status = "delivered" => case'[p] = case[p]
    BY <1>2, SettlesClosed
  <2>2. \A p \in Orders : case'[p].status = "delivered" => Paid(case'[p])
    BY <2>1 DEF DeliveredPaid
  <2> QED
    BY <2>2 DEF DeliveredPaid, Paid
<1>3. ASSUME UNCHANGED case PROVE DeliveredPaid'
  BY <1>3 DEF DeliveredPaid
<1> QED
  BY <1>1, <1>2, <1>3 DEF Next, JobSteps, job_selects, job_passes, job_aborts, vars

LEMMA NextMisjudges ==
  ASSUME IInv, LockedViewsFresh, DeliveredPaid, [Next]_vars,
         NEW j \in Jobs, NEW o \in Orders, job'[j] # job[j], case'[o] # case[o],
         job[j].locks \/ job[j].seen[o] = ViewOf(case[o])
  PROVE  /\ case'[o].refunded = case'[o].credited
         /\ case'[o].released = Total - case'[o].credited
         /\ case'[o].dispute = "resolved_abandoned" => case[o].escrow = "overdue"
<1>1. ASSUME NEW p \in Orders, Time(p) \/ People(p) \/ escrow_release_job(p) PROVE FALSE
  BY <1>1, TimeKept, PeopleKept, escrow_release_job_Kept DEF Changes, Write
<1>2. PICK k \in Jobs, p \in Orders : job_settles(k, p)
  BY <1>1 DEF Next, JobSteps, job_selects, job_passes, job_aborts, vars
<1>3. k = j /\ p = o
  BY <1>2, SettlesClosed
<1>4. job_settles(j, o) /\ o \in job[j].batch
  BY <1>2, <1>3 DEF job_settles, Mine
<1>5. Holds(case[o], job[j].seen[o])
  BY <1>4 DEF LockedViewsFresh, Held, Holds, ViewOf
<1>6. PICK d : Kept(case[o], d) /\ case' = [case EXCEPT ![o] = d]
  BY <1>4, <1>5, job_settles_Kept DEF Holds
<1>7. case'[o] = d
  BY <1>6, JobsInvIs
<1>8. Paid(case'[o]) /\ case'[o].status # "delivered"
  BY <1>4, <1>6, <1>7, SettlesClosed DEF Kept, DeliveredPaid
<1>9. case'[o].dispute = "resolved_abandoned" => case[o].escrow = "overdue"
  BY <1>4, <1>5, SettlesClosed DEF Holds
<1> QED
  BY <1>8, <1>9 DEF Paid

(* The sessions of the jobs keep orders beyond their first commit.  Any    *)
(* order that is settled under the locks of the query, or that nobody has  *)
(* changed since, gets its money divided exactly and is abandoned only     *)
(* when its escrow is over by the grace, whatever happens to the others.   *)
THEOREM OldViewsOnly == Spec => OnlyOldViewsMisjudge
<1>1. Init => DeliveredPaid
  BY InitPaid, SellerGetsTheRestIs DEF DeliveredPaid
<1>2. IInv /\ LockedViewsFresh /\ DeliveredPaid /\ [Next]_vars =>
        [\A j \in Jobs, o \in Orders :
           /\ job'[j] # job[j] /\ case'[o] # case[o]
           /\ job[j].locks \/ job[j].seen[o] = ViewOf(case[o])
           => /\ case'[o].refunded = case'[o].credited
              /\ case'[o].released = Total - case'[o].credited
              /\ case'[o].dispute = "resolved_abandoned" => case[o].escrow = "overdue"]_vars
  BY NextMisjudges
<1> QED
  BY <1>1, <1>2, NextDelivered, Invariant, FirstViewIsFresh, PTL
     DEF Spec, OnlyOldViewsMisjudge
=============================================================================
