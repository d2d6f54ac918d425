--------------------------- MODULE MCProvisioning ---------------------------
(* Orders from a catalog supplier on a small instance. *)
EXTENDS Provisioning, TLC
=============================================================================
