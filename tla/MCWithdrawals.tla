--------------------------- MODULE MCWithdrawals ----------------------------
(* Small instance of Withdrawals. *)
EXTENDS Withdrawals, TLC

(* Fees of one dong, of half the amount, and none. *)
SomeFees == {<<0, 0>>, <<1, 0>>, <<0, 50>>}

Symmetry == Permutations(Accounts) \cup Permutations(Commissions)
=============================================================================
