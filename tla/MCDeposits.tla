------------------------------ MODULE MCDeposits ------------------------------
(* Deposits on a small instance. *)
EXTENDS Deposits, TLC

CONSTANTS i1, i2, t1, p1, d1
MCCreatedAt == i1 :> 1 @@ i2 :> 2

(* The rails have nothing in common but the count of pending intents and,  *)
(* the two of the bank, the queries of the job.  So each behaviour sees    *)
(* money on one of them, beside a request of the retired one at most.      *)
(* Only what happens to that rail's configuration matters: the switch of   *)
(* the other one stays, and beneficiaries change for bank transfers only.  *)
Banked == \E t \in Transfers : transfer[t].code[1] \in {"account", "nothing"}
Used == {intent[i].provider : i \in {j \in Intents : intent[j] # NoIntent}}
        \cup (IF Banked THEN {"sepay"} ELSE {})

OneRail ==
  /\ Cardinality(Used) <= 1 \/ (Used = {"payos", "sepay"} /\ intent[i2] # NoIntent)
  /\ {"sepay", "nowpayments"} \ Used \subseteq rail.on
  /\ "sepay" \notin Used => rail.previous = {}

(* The amount of a transfer matters only where an intent expects one, and  *)
(* all the bank's rail asks is whether the two are the same.               *)
PlainAmounts ==
  /\ \A t \in Transfers : transfer[t].code[1] \in {"account", "nothing"} => transfer[t].amount = 1
  /\ \A i \in Intents : intent[i].provider \in {"sepay", "nowpayments"} => intent[i].amount = 1

(* What two requests add to one is their place in the queries of the job:  *)
(* with both made, one payment is under way, for one of them and in full,  *)
(* on rails as they were set up.                                           *)
OnePayment ==
  intent[i2] # NoIntent =>
    /\ intent[i1] # NoIntent
    /\ \A i \in Intents : intent[i].dest = d1 /\ intent[i].amount = 1
    /\ \A t \in Transfers : transfer[t] # NoTransfer =>
         /\ t = t1 /\ payment[p1] = NoPayment
         /\ transfer[t].code[1] \in {"intent", "link"}
         /\ transfer[t].dest = d1 /\ transfer[t].amount = 1
    /\ \A p \in Payments : payment[p] # NoPayment => p = p1 /\ payment[p].kind = "full"
    /\ rail.changes = 0 /\ rail.shared

(* Transfers are interchangeable, and so are payments.  What was sent never*)
(* changes, so it is enough to see every two of them under one choice of   *)
(* their names.                                                            *)
Rank(t) == 8 * [intent |-> 1, link |-> 2, account |-> 3, nothing |-> 4, none |-> 0][transfer[t].code[1]]
           + 2 * transfer[t].amount + IF transfer[t].dest = d1 THEN 0 ELSE 1
KindRank(p) == [full |-> 1, underpaid |-> 2, foreign |-> 3, none |-> 0][payment[p].kind]

NamesAgree ==
  /\ \A t \in Transfers : transfer[t] # NoTransfer => Rank(t1) <= Rank(t)
  /\ \A p \in Payments : payment[p] # NoPayment => KindRank(p1) <= KindRank(p)

MCInit == Init /\ rail.on = {"sepay", "nowpayments"}
MCSpec == MCInit /\ [][Next]_vars /\ Fairness
=============================================================================
