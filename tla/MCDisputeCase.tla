---------------------------- MODULE MCDisputeCase ----------------------------
(* DisputeCase on small instances.  Orders are interchangeable, and so are *)
(* the lines of all of them together; symmetry is used in safety runs only. *)
EXTENDS DisputeCase, TLC

OrderSymmetry == Permutations(Orders) \cup Permutations(Lines)

(* What two orders add to one is the batch of a job: nothing else lets the *)
(* case of one order bear on another.  States in which an order has no     *)
(* more case to come and no batch is running are therefore not extended:   *)
(* from there on only one order moves, as in the run of a single order,    *)
(* and a job settles a batch of one before it lets go of any lock.         *)
Over(c) == c.status # "delivered" \/ (~IsOpen(c) /\ c.cases = MaxCases)
BatchMatters == (\E o \in Orders : Over(case[o])) => \E j \in Jobs : job[j].batch # {}

(* An extension makes old what a batch that is running saw of the clock;   *)
(* whoever selects the order later sees it.                                *)
ExtensionMatters ==
  LET extended == {o \in Orders : case[o].extensions > 0}
  IN  extended # {} => Cardinality(extended) = 1 /\ \E j \in Jobs : extended \subseteq job[j].batch

(* The run of a single order has claims of some lines only; here a buyer   *)
(* claims them all or none, and they are remedied one by one.              *)
WholeClaims == \A o \in Orders : case[o].claimed \in {{}, Lines \X {0}}
==============================================================================
