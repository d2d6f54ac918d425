------------------------------ MODULE MCTakedown ------------------------------
(* Takedown requests on a small instance. *)
EXTENDS Takedown, TLC

Alike == Permutations(PartnerOrders) \cup Permutations(Handlers)

(* The partner works on one of the orders it was made to create.           *)
OneMoves ==
  Cardinality({o \in PartnerOrders : Len(partner[o].log) > 1}) <= 1

(* A webhook that changes nothing might as well not have come: the state   *)
(* in which it is still to come can do all that the other can.             *)
HeardMatters == heard' # heard => request' # request

(* Staff leaves the order alone.                                           *)
Unattended == \A r \in Requests : order[r].by # "staff"

(* No warranty is claimed, and an order that is closed is of no interest.  *)
Plain ==
  /\ \A h \in Handlers : call[h].op # "warranty"
  /\ \A r \in Requests : order[r].status \notin {"completed", "refunded"}
=============================================================================
