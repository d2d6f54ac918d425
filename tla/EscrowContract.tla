--------------------------- MODULE EscrowContract ---------------------------
(***************************************************************************)
(* What the marketplace promises about the money of an order.  A buyer's   *)
(* payment is held; while it is held parts of it may go back to the buyer  *)
(* and none of it goes to anybody else; one step divides what is left, to  *)
(* the last dong, between the buyer and the seller's side (the seller and  *)
(* the platform's fee), and after that step nothing moves any more.        *)
(***************************************************************************)
EXTENDS Integers

CONSTANTS
  Orders,
  Totals   \* what an order may cost, positive

VARIABLE escrow

Held == [phase : {"none", "held", "closed"}, total : Nat, toBuyer : Nat, toSeller : Nat]

Empty == [phase |-> "none", total |-> 0, toBuyer |-> 0, toSeller |-> 0]

Init == escrow = [o \in Orders |-> Empty]

Put(o, e) == escrow' = [escrow EXCEPT ![o] = e]

(* The buyer pays; the payment may bounce at once. *)
Pay(o, total) ==
  /\ escrow[o].phase = "none"
  /\ \/ Put(o, [Empty EXCEPT !.phase = "held", !.total = total])
     \/ Put(o, [Empty EXCEPT !.phase = "closed", !.total = total, !.toBuyer = total])

(* Give part of the payment back and hold the rest. *)
GiveBack(o, amount) ==
  /\ escrow[o].phase = "held"
  /\ escrow[o].toBuyer + amount <= escrow[o].total
  /\ Put(o, [escrow[o] EXCEPT !.toBuyer = @ + amount])

(* Give amount back and pay all the rest out. *)
Divide(o, amount) ==
  /\ escrow[o].phase = "held"
  /\ escrow[o].toBuyer + amount <= escrow[o].total
  /\ Put(o, [escrow[o] EXCEPT !.phase = "closed",
                              !.toBuyer = @ + amount,
                              !.toSeller = escrow[o].total - (escrow[o].toBuyer + amount)])

Next ==
  \E o \in Orders :
    \/ \E total \in Totals : Pay(o, total)
    \/ \E amount \in 0..escrow[o].total : GiveBack(o, amount) \/ Divide(o, amount)

Spec == Init /\ [][Next]_escrow
=============================================================================
