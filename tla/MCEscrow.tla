------------------------------ MODULE MCEscrow ------------------------------
(* The instances of the escrow that TLC checks. *)
EXTENDS EscrowBooks, TLC

OrderSymmetry == Permutations(Orders)
=============================================================================
