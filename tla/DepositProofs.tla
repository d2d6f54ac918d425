---------------------------- MODULE DepositProofs ----------------------------
(***************************************************************************)
(* A bank transfer is credited once, for any number of intents, transfers, *)
(* beneficiaries and admins.  The argument: a transfer carries one code,   *)
(* so what it pays is one intent or one account; an account is credited    *)
(* under the webhook's name of the transfer only, because a name that the  *)
(* reconciliation has entered into the journal is in use by a paid intent  *)
(* for ever; and a name is used once.                                      *)
(* What a paid intent rests on, and the types of the rows, follow from a   *)
(* list of what a step may do to an intent (Moves).                        *)
(***************************************************************************)
EXTENDS Deposits, SumLemmas

Fields == {"provider", "account", "amount", "dest", "status", "aged", "paid", "by", "id", "bound"}
IsRow(row) == row = [f \in Fields |-> row[f]]

(* What was paid is left to Backed, below.                                 *)
Shapes ==
  /\ "shared" \in DOMAIN rail
  /\ intent = [i \in Intents |-> intent[i]]
  /\ \A i \in Intents : IsRow(intent[i])
  /\ transfer \in [Transfers -> Transfer \cup {NoTransfer}]
  /\ payment \in [Payments -> Payment \cup {NoPayment}]
  /\ asked \in [Intents -> SUBSET Payments]
  /\ standing \in [Ids -> Credit \cup {NoCredit}]
  /\ DOMAIN journal = Ids

(* A paid intent of the bank's rail names its transfer; nothing else does. *)
IntentInv(i) ==
  /\ intent[i].provider = None => intent[i] = NoIntent
  /\ intent[i].provider # "sepay" => intent[i].id = Unnamed
  /\ intent[i].provider = "sepay" =>
       \/ intent[i].status # "paid" /\ intent[i].by = None /\ intent[i].id = Unnamed
       \/ /\ intent[i].status = "paid"
          /\ intent[i].by \in Transfers
          /\ transfer[intent[i].by].code = <<"intent", i>>
          /\ \/ intent[i].id = <<intent[i].by, "webhook">>
             \/ intent[i].id = <<intent[i].by, "api">> /\ ~rail.shared
  /\ intent[i].provider = "nowpayments" /\ intent[i].status = "paid" => intent[i].bound \in Payments
  /\ asked[i] # {} => intent[i].provider = "nowpayments"

(* What the outside has paid for exists.                                   *)
OutsideInv ==
  /\ \A t \in Transfers, i \in Intents :
       /\ transfer[t].code = <<"intent", i>> => intent[i].provider = "sepay"
       /\ transfer[t].code = <<"link", i>> => intent[i].provider = "payos"
  /\ \A p \in Payments :
       payment[p] # NoPayment => intent[payment[p].invoice].provider = "nowpayments"

(* The names in use.                                                       *)
NameInv(t) ==
  /\ standing[<<t, "api">>] = NoCredit
  /\ standing[<<t, "webhook">>] # NoCredit =>
       /\ Named(<<t, "webhook">>) = {}
       /\ standing[<<t, "webhook">>].by = "code" => transfer[t].code[1] = "account"
  /\ journal[<<t, "api">>] # None => Named(<<t, "api">>) # {}

IInv ==
  /\ Shapes
  /\ \A i \in Intents : IntentInv(i)
  /\ OutsideInv
  /\ \A t \in Transfers : NameInv(t)

(* What an update leaves of a row.                                         *)
Same(row, new, others) == IsRow(new) /\ \A f \in Fields \ others : new[f] = row[f]

LEMMA RowUpdates ==
  ASSUME NEW row, IsRow(row), NEW v
  PROVE  /\ Same(row, [row EXCEPT !.status = v], {"status"}) /\ [row EXCEPT !.status = v].status = v
         /\ Same(row, [row EXCEPT !.aged = v], {"aged"})
         /\ Same(row, [row EXCEPT !.id = v], {"id"}) /\ [row EXCEPT !.id = v].id = v
         /\ Same(row, [row EXCEPT !.bound = v], {"bound"}) /\ [row EXCEPT !.bound = v].bound = v
  BY DEF Same, IsRow, Fields

LEMMA PaidRow ==
  ASSUME NEW row, IsRow(row), NEW amount, NEW t
  PROVE  /\ Same(row, apply_deposit_paid(row, amount, t), {"status", "paid", "by"})
         /\ apply_deposit_paid(row, amount, t).status = "paid"
         /\ apply_deposit_paid(row, amount, t).by = t
  BY DEF Same, IsRow, Fields, apply_deposit_paid

(* The names of a transfer.                                                *)
LEMMA IdNames ==
  ASSUME NEW t \in Transfers
  PROVE  /\ <<t, "webhook">> \in Ids /\ <<t, "api">> \in Ids
         /\ Id(t, "webhook") = <<t, "webhook">>
         /\ Id(t, "api") = IF rail.shared THEN <<t, "webhook">> ELSE <<t, "api">>
  BY DEF Ids, Id

LEMMA IdCases ==
  ASSUME NEW x \in Ids
  PROVE  x[1] \in Transfers /\ (x = <<x[1], "webhook">> \/ x = <<x[1], "api">>)
  BY DEF Ids

(* A standing credit is under the name of a webhook.                       *)
LEMMA StandingName ==
  ASSUME IInv, NEW x \in Ids, standing[x] # NoCredit
  PROVE  x = <<x[1], "webhook">>
<1>1. x[1] \in Transfers /\ (x = <<x[1], "webhook">> \/ x = <<x[1], "api">>)
  BY IdCases
<1>2. standing[<<x[1], "api">>] = NoCredit
  BY <1>1 DEF IInv, NameInv
<1> QED
  BY <1>1, <1>2

(* What the invariant says of credits.                                     *)
LEMMA OneCredit == IInv => TransferCreditedOnce
<1> SUFFICES ASSUME IInv, NEW t \in Transfers, NEW c \in Credits(t), NEW d \in Credits(t)
             PROVE  c = d \/ TwoNames(t, c, d) \/ TwoNames(t, d, c)
  BY DEF TransferCreditedOnce
<1>1. ASSUME NEW i \in Intents, intent[i].provider = "sepay", intent[i].by = t
      PROVE  /\ transfer[t].code = <<"intent", i>>
             /\ intent[i].id = <<t, "webhook">> \/ (intent[i].id = <<t, "api">> /\ ~rail.shared)
  <2>1. t # None
    BY NoneAssumption
  <2> QED
    BY <1>1, <2>1 DEF IInv, IntentInv
<1>2. ASSUME NEW x \in Ids, x[1] = t, standing[x] # NoCredit
      PROVE  x = <<t, "webhook">>
  BY <1>2, StandingName
<1>3. ASSUME NEW i \in Intents, intent[i].provider = "sepay", intent[i].by = t,
             standing[<<t, "webhook">>] # NoCredit
      PROVE  TwoNames(t, <<"standing", <<t, "webhook">>>>, <<"intent", i>>)
  <2>1. intent[i].id # <<t, "webhook">>
    BY <1>3, IdNames DEF IInv, NameInv, Named
  <2>2. intent[i].id = <<t, "api">> /\ ~rail.shared
    BY <1>1, <1>3, <2>1
  <2>3. transfer[t].code[1] # "account"
    BY <1>1, <1>3
  <2>4. standing[<<t, "webhook">>].by = "admin"
    BY <1>3, <2>3, IdNames DEF IInv, NameInv, Shapes, Credit
  <2> QED
    BY <2>2, <2>4 DEF TwoNames
<1>4. CASE \E i, j \in Intents : c = <<"intent", i>> /\ d = <<"intent", j>>
  BY <1>1, <1>4 DEF Credits
<1>5. \A e \in Credits(t) :
        \/ \E i \in Intents : e = <<"intent", i>> /\ intent[i].provider = "sepay" /\ intent[i].by = t
        \/ e = <<"standing", <<t, "webhook">>>> /\ standing[<<t, "webhook">>] # NoCredit
  BY <1>2 DEF Credits
<1> QED
  BY <1>3, <1>4, <1>5

(* What it says of the queue.                                              *)
LEMMA QueueClean == IInv => QueueIsUncredited
<1> SUFFICES ASSUME IInv, NEW x \in Ids, _unmatched_filter(x), NEW c \in Credits(x[1])
             PROVE  ~rail.shared /\ c[1] = "intent" /\ intent[c[2]].id = <<x[1], "api">>
  BY DEF QueueIsUncredited
<1> DEFINE t == x[1]
<1>1. t \in Transfers /\ (x = <<t, "webhook">> \/ x = <<t, "api">>)
  BY IdCases
<1>2. Named(x) = {} /\ standing[x] = NoCredit /\ journal[x] # None
  BY DEF _unmatched_filter, Free, None
<1>3. x = <<t, "webhook">>
  BY <1>1, <1>2 DEF IInv, NameInv
<1>4. \A y \in Ids : y[1] = t /\ standing[y] # NoCredit => y = <<t, "webhook">>
  BY StandingName
<1>5. PICK i \in Intents : c = <<"intent", i>> /\ intent[i].provider = "sepay" /\ intent[i].by = t
  BY <1>2, <1>3, <1>4 DEF Credits
<1>6. intent[i].id # x
  BY <1>2 DEF Named
<1>7. t # None
  BY <1>1, NoneAssumption
<1> QED
  BY <1>3, <1>5, <1>6, <1>7 DEF IInv, IntentInv

-----------------------------------------------------------------------------
(* What a step that credits no bank transfer does to an intent.            *)
Keeps(old, new) ==
  /\ IsRow(new)
  /\ new.id = old.id
  /\ new.provider = None => new = old
  /\ old.provider # None => new.provider = old.provider
  /\ new.provider = "sepay" => new.by = old.by /\ (new.status = "paid" <=> old.status = "paid")
  /\ new.provider = "nowpayments" /\ new.status = "paid" => new.bound \in Payments

KeepsNames ==
  /\ DOMAIN journal' = Ids
  /\ \A t \in Transfers : journal'[<<t, "api">>] # None => journal[<<t, "api">>] # None

(* An intent that does not change is kept.                                 *)
LEMMA KeepsSelf ==
  ASSUME IInv, NEW i \in Intents
  PROVE  Keeps(intent[i], intent[i])
  BY DEF IInv, Shapes, IntentInv, Keeps

(* A step that keeps every intent preserves the invariant.                 *)
LEMMA KeepsStep ==
  ASSUME IInv, intent' = [i \in Intents |-> intent'[i]],
         \A i \in Intents : Keeps(intent[i], intent'[i]),
         UNCHANGED <<standing, transfer, payment>>,
         "shared" \in DOMAIN rail', rail'.shared = rail.shared,
         asked' \in [Intents -> SUBSET Payments],
         \A i \in Intents : asked'[i] # {} => intent[i].provider = "nowpayments",
         KeepsNames
  PROVE  IInv'
<1>1. Shapes'
  BY DEF IInv, Shapes, Keeps, KeepsNames
<1>2. ASSUME NEW i \in Intents PROVE IntentInv(i)'
  <2>1. Keeps(intent[i], intent'[i]) /\ IntentInv(i) /\ (asked'[i] # {} => intent[i].provider = "nowpayments")
    BY DEF IInv
  <2>2. intent[i].provider = None => intent[i].status = None /\ intent[i].by = None /\ intent[i].id = Unnamed
    BY <2>1 DEF IntentInv, NoIntent, Row, None
  <2> QED
    BY <2>1, <2>2 DEF IntentInv, Keeps, None
<1>3. OutsideInv'
  <2>1. \A i \in Intents : intent[i].provider # None => intent'[i].provider = intent[i].provider
    BY DEF Keeps
  <2>2. \A p \in Payments : payment[p] # NoPayment => payment[p].invoice \in Intents
    BY DEF IInv, Shapes, Payment
  <2> QED
    BY <2>1, <2>2 DEF IInv, OutsideInv, None
<1>4. ASSUME NEW t \in Transfers PROVE NameInv(t)'
  <2>1. \A x : Named(x)' = Named(x)
    BY DEF Named, Keeps
  <2> QED
    BY <2>1 DEF IInv, NameInv, KeepsNames
<1> QED
  BY <1>1, <1>2, <1>3, <1>4 DEF IInv

(* A transfer pays the intent whose code it carries, under a name that is  *)
(* free; the name may enter the journal with it.                           *)
LEMMA PaysStep ==
  ASSUME IInv, NEW i \in Intents, NEW t \in Transfers, NEW x,
         x = <<t, "webhook">> \/ (x = <<t, "api">> /\ ~rail.shared),
         transfer[t].code = <<"intent", i>>, intent[i].status # "paid",
         Pays(i, t, x), DOMAIN journal' = Ids,
         \A u \in Transfers : journal'[<<u, "api">>] # None =>
           journal[<<u, "api">>] # None \/ x = <<u, "api">>
  PROVE  IInv'
<1> DEFINE row == [apply_deposit_paid(intent[i], intent[i].amount, t) EXCEPT !.id = x]
<1>1. /\ intent' = [intent EXCEPT ![i] = row]
      /\ UNCHANGED <<rail, standing, payos, transfer, payment, asked>>
      /\ Free(x)
  BY DEF Pays, Write
<1>2. /\ IsRow(row) /\ row.id = x /\ row.by = t /\ row.status = "paid"
      /\ row.provider = intent[i].provider
  <2> DEFINE paid == apply_deposit_paid(intent[i], intent[i].amount, t)
  <2>1. IsRow(intent[i])
    BY DEF IInv, Shapes
  <2>2. /\ Same(intent[i], paid, {"status", "paid", "by"})
        /\ paid.status = "paid" /\ paid.by = t
    BY <2>1, PaidRow
  <2>3. IsRow(paid)
    BY <2>2 DEF Same
  <2> HIDE DEF paid
  <2>4. Same(paid, [paid EXCEPT !.id = x], {"id"}) /\ [paid EXCEPT !.id = x].id = x
    BY <2>3, RowUpdates
  <2> QED
    BY <2>2, <2>4 DEF Same, Fields, paid
<1>3. intent[i].provider = "sepay"
  BY DEF IInv, OutsideInv
<1>4. intent[i].id = Unnamed
  BY <1>3 DEF IInv, IntentInv
<1> HIDE DEF row
<1>5. intent'[i] = row /\ \A j \in Intents : j # i => intent'[j] = intent[j]
  BY <1>1 DEF IInv, Shapes
<1>6. Shapes'
  BY <1>1, <1>2, <1>5 DEF IInv, Shapes
<1>7. ASSUME NEW j \in Intents PROVE IntentInv(j)'
  <2>1. CASE j = i
    BY <1>1, <1>2, <1>3, <1>5, <2>1 DEF IInv, IntentInv, None
  <2>2. CASE j # i
    BY <1>1, <1>5, <2>2 DEF IInv, IntentInv, NoIntent
  <2> QED
    BY <2>1, <2>2
<1>8. OutsideInv'
  <2>1. \A j \in Intents : intent'[j].provider = intent[j].provider
    BY <1>2, <1>5
  <2>2. \A p \in Payments : payment[p] # NoPayment => payment[p].invoice \in Intents
    BY DEF IInv, Shapes, Payment
  <2> QED
    BY <1>1, <2>1, <2>2 DEF IInv, OutsideInv
<1>9. ASSUME NEW u \in Transfers PROVE NameInv(u)'
  <2>1. x # Unnamed
    BY DEF Unnamed, None
  <2>2. i \in Named(x)'
    BY <1>2, <1>5 DEF Named
  <2>3. \A y : y # Unnamed /\ y # x => Named(y)' = Named(y)
    BY <1>2, <1>4, <1>5 DEF Named
  <2>4. <<u, "webhook">> # Unnamed /\ <<u, "api">> # Unnamed
    BY DEF Unnamed, None
  <2>5. standing[x] = NoCredit
    BY <1>1 DEF Free
  <2>6. NameInv(u)
    BY DEF IInv
  <2>7. standing[<<u, "webhook">>] # NoCredit => Named(<<u, "webhook">>)' = {}
    BY <2>3, <2>4, <2>5, <2>6 DEF NameInv
  <2>8. journal'[<<u, "api">>] # None => Named(<<u, "api">>)' # {}
    BY <2>2, <2>3, <2>4, <2>6 DEF NameInv
  <2> QED
    BY <1>1, <2>6, <2>7, <2>8 DEF NameInv
<1> QED
  BY <1>6, <1>7, <1>8, <1>9 DEF IInv

(* An account is credited under the webhook's name of a transfer.          *)
LEMMA CreditStep ==
  ASSUME IInv, NEW t \in Transfers, NEW a \in Accounts, NEW by \in {"code", "admin"},
         by = "code" => transfer[t].code[1] = "account",
         _credit_standing_code(<<t, "webhook">>, a, by), KeepsNames
  PROVE  IInv'
<1> DEFINE x == <<t, "webhook">>
           credit == [account |-> a, by |-> by]
<1>1. /\ Named(x) = {}
      /\ standing' = [standing EXCEPT ![x] = credit]
      /\ UNCHANGED <<rail, intent, payos, transfer, payment, asked>>
  BY DEF _credit_standing_code, Free
<1>2. x \in Ids
  BY IdNames
<1>3. Shapes'
  BY <1>1, <1>2 DEF IInv, Shapes, Credit, KeepsNames
<1>4. \A i \in Intents : IntentInv(i)'
  BY <1>1 DEF IInv, IntentInv
<1>5. OutsideInv'
  BY <1>1 DEF IInv, OutsideInv
<1>6. ASSUME NEW u \in Transfers PROVE NameInv(u)'
  <2>1. \A y : Named(y)' = Named(y)
    BY <1>1 DEF Named
  <2>2. NameInv(u) /\ (journal'[<<u, "api">>] # None => journal[<<u, "api">>] # None)
    BY DEF IInv, KeepsNames
  <2>3. <<u, "api">> # x /\ <<u, "api">> \in Ids /\ <<u, "webhook">> \in Ids
    BY IdNames
  <2>4. CASE u = t
    <3>1. standing'[<<u, "webhook">>] = credit
      BY <1>1, <1>2, <2>4 DEF IInv, Shapes
    <3>2. standing'[<<u, "api">>] = standing[<<u, "api">>]
      BY <1>1, <2>3 DEF IInv, Shapes
    <3> QED
      BY <1>1, <2>1, <2>2, <2>4, <3>1, <3>2 DEF NameInv
  <2>5. CASE u # t
    <3>1. <<u, "webhook">> # x
      BY <2>5
    <3>2. standing'[<<u, "webhook">>] = standing[<<u, "webhook">>]
           /\ standing'[<<u, "api">>] = standing[<<u, "api">>]
      BY <1>1, <2>3, <3>1 DEF IInv, Shapes
    <3> QED
      BY <1>1, <2>1, <2>2, <3>2 DEF NameInv
  <2> QED
    BY <2>4, <2>5
<1> QED
  BY <1>3, <1>4, <1>5, <1>6 DEF IInv

(* People send money to the bank, or pay an invoice.                       *)
LEMMA BankStep ==
  ASSUME IInv, NEW t \in Transfers, NEW code \in Codes, NEW amount \in Amounts,
         NEW d \in Destinations, bank_transfer(t, code, amount, d)
  PROVE  IInv'
<1> DEFINE sent == [code |-> code, amount |-> amount, dest |-> d]
<1>1. /\ transfer[t] = NoTransfer /\ transfer' = [transfer EXCEPT ![t] = sent]
      /\ UNCHANGED <<rail, intent, standing, journal, payment, asked>>
  BY DEF bank_transfer
<1>2. sent \in Transfer
  BY DEF Transfer
<1>3. /\ transfer'[t].code = code
      /\ \A u \in Transfers : u # t => transfer'[u] = transfer[u]
  BY <1>1 DEF IInv, Shapes
<1>4. transfer[t].code = <<None, None>>
  BY <1>1 DEF NoTransfer
<1>5. Shapes'
  BY <1>1, <1>2 DEF IInv, Shapes
<1>6. ASSUME NEW i \in Intents PROVE IntentInv(i)'
  <2>1. IntentInv(i)
    BY DEF IInv
  <2>2. transfer[t].code # <<"intent", i>>
    BY <1>4 DEF None
  <2> QED
    BY <1>1, <1>3, <2>1, <2>2 DEF IntentInv
<1>7. OutsideInv'
  <2>1. \A i \in Intents : /\ code = <<"intent", i>> => intent[i].provider = "sepay"
                           /\ code = <<"link", i>> => intent[i].provider = "payos"
    BY DEF bank_transfer
  <2> QED
    BY <1>1, <1>3, <2>1 DEF IInv, OutsideInv
<1>8. ASSUME NEW u \in Transfers PROVE NameInv(u)'
  <2>1. \A y : Named(y)' = Named(y)
    BY <1>1 DEF Named
  <2>2. NameInv(u)
    BY DEF IInv
  <2>3. u = t /\ standing[<<u, "webhook">>] # NoCredit => standing[<<u, "webhook">>].by # "code"
    BY <1>4, <2>2 DEF NameInv, None
  <2> QED
    BY <1>1, <1>3, <2>1, <2>2, <2>3 DEF NameInv
<1> QED
  BY <1>5, <1>6, <1>7, <1>8 DEF IInv

LEMMA CryptoStep ==
  ASSUME IInv, NEW p \in Payments, NEW i \in Intents, NEW kind \in {"full", "underpaid", "foreign"},
         crypto_payment(p, i, kind)
  PROVE  IInv'
<1>1. /\ payment' = [payment EXCEPT ![p] = [invoice |-> i, kind |-> kind]]
      /\ intent[i].provider = "nowpayments"
      /\ UNCHANGED <<rail, intent, standing, journal, transfer, asked>>
  BY DEF crypto_payment
<1>2. Shapes'
  BY <1>1 DEF IInv, Shapes, Payment
<1>3. \A j \in Intents : IntentInv(j)'
  BY <1>1 DEF IInv, IntentInv
<1>4. OutsideInv'
  BY <1>1 DEF IInv, OutsideInv, Shapes
<1>5. \A y : Named(y)' = Named(y)
  BY <1>1 DEF Named
<1>6. \A t \in Transfers : NameInv(t)'
  BY <1>1, <1>5 DEF IInv, NameInv
<1> QED
  BY <1>2, <1>3, <1>4, <1>6 DEF IInv

(* A row written for one intent.                                           *)
LEMMA WriteStep ==
  ASSUME IInv, NEW i \in Intents, NEW row, Keeps(intent[i], row),
         intent' = [intent EXCEPT ![i] = row],
         UNCHANGED <<rail, standing, transfer, payment, asked>>, KeepsNames
  PROVE  IInv'
<1>1. intent'[i] = row /\ \A j \in Intents : j # i => intent'[j] = intent[j]
  BY DEF IInv, Shapes
<1>2. \A j \in Intents : Keeps(intent[j], intent'[j])
  BY <1>1, KeepsSelf
<1>3. intent' = [j \in Intents |-> intent'[j]]
  BY DEF IInv, Shapes
<1>4. \A j \in Intents : asked'[j] # {} => intent[j].provider = "nowpayments"
  BY DEF IInv, IntentInv
<1>5. "shared" \in DOMAIN rail' /\ asked' \in [Intents -> SUBSET Payments]
  BY DEF IInv, Shapes
<1> QED
  BY <1>2, <1>3, <1>4, <1>5, KeepsStep

LEMMA JournalSame == ASSUME IInv, UNCHANGED journal PROVE KeepsNames
  BY DEF IInv, Shapes, KeepsNames

(* A status other than "paid" for an intent that is not paid.              *)
LEMMA StatusKeeps ==
  ASSUME IInv, NEW i \in Intents, intent[i].status \in Unpaid, NEW status \in Unpaid
  PROVE  Keeps(intent[i], [intent[i] EXCEPT !.status = status])
<1> DEFINE new == [intent[i] EXCEPT !.status = status]
<1>1. IsRow(intent[i])
  BY DEF IInv, Shapes
<1>2. Same(intent[i], new, {"status"}) /\ new.status = status
  BY <1>1, RowUpdates
<1>3. intent[i].provider # None
  BY DEF IInv, IntentInv, NoIntent, Row, Unpaid, None
<1> HIDE DEF new
<1>5. /\ IsRow(new) /\ new.id = intent[i].id /\ new.provider = intent[i].provider
      /\ new.by = intent[i].by /\ new.status # "paid"
  BY <1>2 DEF Same, Fields, Unpaid
<1>6. Keeps(intent[i], new)
  BY <1>3, <1>5 DEF Keeps, Unpaid
<1> QED
  BY <1>6 DEF new

LEMMA CreateStep ==
  ASSUME IInv, NEW i \in Intents, NEW a \in Accounts, NEW p \in {"sepay", "nowpayments"},
         NEW amount \in Amounts, create_deposit(i, a, p, amount)
  PROVE  IInv'
<1> DEFINE row == Row(p, a, amount, rail.current)
<1>1. intent[i] = NoIntent
  BY DEF create_deposit
<1>2. Keeps(NoIntent, row)
  BY DEF Keeps, IsRow, Fields, NoIntent, Row, None
<1>3. KeepsNames
  BY JournalSame DEF create_deposit
<1> QED
  BY <1>1, <1>2, <1>3, WriteStep DEF create_deposit, Write

LEMMA CancelStep == ASSUME IInv, NEW i \in Intents, cancel_deposit(i) PROVE IInv'
<1>1. KeepsNames
  BY JournalSame DEF cancel_deposit
<1>2. Keeps(intent[i], [intent[i] EXCEPT !.status = "cancelled"])
  BY StatusKeeps DEF cancel_deposit, Unpaid
<1> QED
  BY <1>1, <1>2, WriteStep DEF cancel_deposit, Write

LEMMA AgeStep == ASSUME IInv, NEW i \in Intents, age(i) PROVE IInv'
<1> DEFINE new == [intent[i] EXCEPT !.aged = TRUE]
<1>1. KeepsNames
  BY JournalSame DEF age
<1>2. IsRow(intent[i])
  BY DEF IInv, Shapes
<1>3. Same(intent[i], new, {"aged"})
  BY <1>2, RowUpdates
<1>4. Keeps(intent[i], new)
  <2>1. Keeps(intent[i], intent[i]) /\ intent[i].provider # None
    BY KeepsSelf DEF age, IInv, IntentInv, NoIntent, Row, None
  <2> HIDE DEF new
  <2> QED
    BY <1>3, <2>1 DEF Same, Fields, Keeps
<1> QED
  BY <1>1, <1>4, WriteStep DEF age, Write

LEMMA ExpireStep == ASSUME IInv, deposit_expire_job PROVE IInv'
<1>1. PICK due \in SUBSET {i \in Intents : intent[i].status = "pending"} :
        intent' = [i \in Intents |->
                     IF i \in due THEN [intent[i] EXCEPT !.status = "expired"] ELSE intent[i]]
  BY DEF deposit_expire_job
<1>2. UNCHANGED <<rail, standing, journal, transfer, payment, asked>>
  BY DEF deposit_expire_job
<1>3. ASSUME NEW i \in Intents PROVE Keeps(intent[i], intent'[i])
  <2>1. CASE i \in due
    <3>1. Keeps(intent[i], [intent[i] EXCEPT !.status = "expired"])
      BY <1>1, <2>1, StatusKeeps DEF Unpaid
    <3> QED
      BY <1>1, <2>1, <3>1
  <2>2. CASE i \notin due
    BY <1>1, <2>2, KeepsSelf
  <2> QED
    BY <2>1, <2>2
<1>4. intent' = [i \in Intents |-> intent'[i]]
  BY <1>1
<1>5. /\ \A i \in Intents : asked'[i] # {} => intent[i].provider = "nowpayments"
      /\ "shared" \in DOMAIN rail' /\ asked' \in [Intents -> SUBSET Payments]
  BY <1>2 DEF IInv, Shapes, IntentInv
<1>6. KeepsNames
  BY <1>2, JournalSame
<1> QED
  BY <1>2, <1>3, <1>4, <1>5, <1>6, KeepsStep

(* A step that leaves every intent as it is.                               *)
LEMMA IdleStep ==
  ASSUME IInv, UNCHANGED <<intent, standing, transfer, payment>>,
         "shared" \in DOMAIN rail', rail'.shared = rail.shared,
         asked' \in [Intents -> SUBSET Payments],
         \A i \in Intents : asked'[i] # {} => intent[i].provider = "nowpayments",
         KeepsNames
  PROVE  IInv'
<1>1. \A i \in Intents : Keeps(intent[i], intent'[i])
  BY KeepsSelf
<1>2. intent' = [i \in Intents |-> intent'[i]]
  BY DEF IInv, Shapes
<1> QED
  BY <1>1, <1>2, KeepsStep

LEMMA AskedTyped ==
  ASSUME IInv
  PROVE  /\ "shared" \in DOMAIN rail /\ asked \in [Intents -> SUBSET Payments]
         /\ \A i \in Intents : asked[i] # {} => intent[i].provider = "nowpayments"
  BY DEF IInv, Shapes, IntentInv

LEMMA ConfigStep == ASSUME IInv, update_config PROVE IInv'
<1>1. "shared" \in DOMAIN rail' /\ rail'.shared = rail.shared
  BY DEF update_config, IInv, Shapes
<1>2. UNCHANGED <<intent, standing, journal, transfer, payment, asked>>
  BY DEF update_config
<1> QED
  BY <1>1, <1>2, AskedTyped, JournalSame, IdleStep

(* The row of the webhook enters the journal.                              *)
LEMMA SepayWebhookStep == ASSUME IInv, NEW t \in Transfers, handle_sepay_webhook(t) PROVE IInv'
<1> DEFINE x == <<t, "webhook">>
           code == transfer[t].code
<1>1. Id(t, "webhook") = x /\ x \in Ids
  BY IdNames
<1>2. KeepsNames
  BY <1>1 DEF handle_sepay_webhook, IInv, Shapes, KeepsNames
<1>3. code \in Codes \cup {<<None, None>>}
  BY DEF IInv, Shapes, Transfer, NoTransfer
<1>4. CASE code[1] = "account" /\ _credit_standing_code(x, code[2], "code")
  <2>1. code[2] \in Accounts
    BY <1>3, <1>4 DEF Codes, Nothing, None
  <2> QED
    BY <1>2, <1>4, <2>1, CreditStep
<1>5. CASE code[1] = "intent" /\ Payable(code[2], t) /\ Pays(code[2], t, x)
  <2>1. code[2] \in Intents /\ code = <<"intent", code[2]>>
    BY <1>3, <1>5 DEF Codes, Nothing, None
  <2>2. intent[code[2]].status # "paid"
    BY <1>5 DEF Payable, Unpaid
  <2>3. DOMAIN journal' = Ids
    BY <1>2 DEF KeepsNames
  <2>4. \A u \in Transfers : journal'[<<u, "api">>] # None => journal[<<u, "api">>] # None
    BY <1>2 DEF KeepsNames
  <2> HIDE DEF x
  <2> QED
    BY <1>5, <2>1, <2>2, <2>3, <2>4, PaysStep DEF x
<1>6. CASE UNCHANGED <<rail, intent, standing, payos, transfer, payment, asked>>
  BY <1>2, <1>6, AskedTyped, IdleStep
<1> QED
  BY <1>1, <1>4, <1>5, <1>6 DEF handle_sepay_webhook

(* The queue holds names of webhooks only.                                 *)
LEMMA QueueNames ==
  ASSUME IInv, NEW x \in Ids, _unmatched_filter(x)
  PROVE  x[1] \in Transfers /\ x = <<x[1], "webhook">>
<1>1. x[1] \in Transfers /\ (x = <<x[1], "webhook">> \/ x = <<x[1], "api">>)
  BY IdCases
<1>2. Named(x) = {} /\ journal[x] # None
  BY DEF _unmatched_filter, Free, None
<1> QED
  BY <1>1, <1>2 DEF IInv, NameInv

LEMMA AssignStep ==
  ASSUME IInv, NEW x \in Ids, NEW a \in Accounts, assign_unmatched_transfer(x, a) PROVE IInv'
<1>1. x[1] \in Transfers /\ x = <<x[1], "webhook">>
  BY QueueNames DEF assign_unmatched_transfer
<1>2. KeepsNames
  BY <1>1 DEF assign_unmatched_transfer, IInv, Shapes, KeepsNames
<1>3. _credit_standing_code(<<x[1], "webhook">>, a, "admin")
  BY <1>1 DEF assign_unmatched_transfer
<1> QED
  BY <1>1, <1>2, <1>3, CreditStep

LEMMA DismissStep ==
  ASSUME IInv, NEW x \in Ids, dismiss_unmatched_transfer(x) PROVE IInv'
<1>1. x[1] \in Transfers /\ x = <<x[1], "webhook">>
  BY QueueNames DEF dismiss_unmatched_transfer
<1>2. KeepsNames
  BY <1>1 DEF dismiss_unmatched_transfer, IInv, Shapes, KeepsNames
<1> QED
  BY <1>2, AskedTyped, IdleStep DEF dismiss_unmatched_transfer

(* PayOS: its intents are none of the bank's.                              *)
LEMMA PayosKeeps ==
  ASSUME IInv, NEW i \in Intents, intent[i].provider = "payos", NEW amount, NEW t
  PROVE  Keeps(intent[i], apply_deposit_paid(intent[i], amount, t))
<1> DEFINE new == apply_deposit_paid(intent[i], amount, t)
<1>1. IsRow(intent[i])
  BY DEF IInv, Shapes
<1>2. Same(intent[i], new, {"status", "paid", "by"})
  BY <1>1, PaidRow
<1> HIDE DEF new
<1>3. IsRow(new) /\ new.id = intent[i].id /\ new.provider = intent[i].provider
  BY <1>2 DEF Same, Fields
<1>4. Keeps(intent[i], new)
  BY <1>3 DEF Keeps, None
<1> QED
  BY <1>4 DEF new

LEMMA PayosWebhookStep == ASSUME IInv, NEW t \in Transfers, handle_webhook(t) PROVE IInv'
<1> DEFINE i == transfer[t].code[2]
<1>1. UNCHANGED <<rail, standing, journal, transfer, payment, asked>> /\ KeepsNames
  BY JournalSame DEF handle_webhook
<1>2. transfer[t].code \in Codes \cup {<<None, None>>} /\ transfer[t].code[1] = "link"
  BY DEF IInv, Shapes, Transfer, NoTransfer, handle_webhook
<1>3. i \in Intents /\ transfer[t].code = <<"link", i>>
  BY <1>2 DEF Codes, Nothing, None
<1>4. intent[i].provider = "payos"
  BY <1>3 DEF IInv, OutsideInv
<1>5. CASE intent' = intent
  BY <1>1, <1>5, AskedTyped, IdleStep
<1>6. CASE intent' = [intent EXCEPT ![i] = apply_deposit_paid(@, transfer[t].amount, t)]
  <2>1. Keeps(intent[i], apply_deposit_paid(intent[i], transfer[t].amount, t))
    BY <1>3, <1>4, PayosKeeps
  <2> HIDE DEF i
  <2> QED
    BY <1>1, <1>3, <1>6, <2>1, WriteStep
<1> QED
  BY <1>5, <1>6 DEF handle_webhook

LEMMA PayosReconcileStep ==
  ASSUME IInv, NEW i \in Intents, intent[i].status \in Unpaid, intent[i].provider = "payos",
         _reconcile_payos(i)
  PROVE  IInv'
<1>1. KeepsNames
  BY JournalSame DEF _reconcile_payos
<1>2. PICK row : Write(i, row) /\ Keeps(intent[i], row)
  <2>1. CASE \E t \in Linked(i) : \E received :
               Write(i, apply_deposit_paid(intent[i], received, t))
    BY <2>1, PayosKeeps
  <2>2. CASE \E status \in {"cancelled", "expired"} :
               Write(i, [intent[i] EXCEPT !.status = status])
    BY <2>2, StatusKeeps DEF Unpaid
  <2> QED
    BY <2>1, <2>2 DEF _reconcile_payos
<1> QED
  BY <1>1, <1>2, WriteStep DEF Write

(* The bank's list: the first match pays the intent.                       *)
LEMMA SepayReconcileStep ==
  ASSUME IInv, NEW i \in Intents, intent[i].status \in Unpaid, _reconcile_sepay(i)
  PROVE  IInv'
<1>1. PICK t \in Transfers :
        /\ Matches(t, i)
        /\ journal' = [journal EXCEPT ![Id(t, "api")] = IF @ = None THEN "open" ELSE @]
        /\ Pays(i, t, Id(t, "api"))
  BY DEF _reconcile_sepay
<1> DEFINE x == Id(t, "api")
<1>2. x = <<t, "webhook">> \/ (x = <<t, "api">> /\ ~rail.shared)
  BY IdNames
<1>3. DOMAIN journal' = Ids
  BY <1>1 DEF IInv, Shapes
<1>4. ASSUME NEW u \in Transfers, journal'[<<u, "api">>] # None
      PROVE  journal[<<u, "api">>] # None \/ x = <<u, "api">>
  BY <1>1, <1>4, IdNames DEF IInv, Shapes
<1>5. transfer[t].code = <<"intent", i>> /\ intent[i].status # "paid"
  BY <1>1 DEF Matches, Unpaid
<1>6. Pays(i, t, x)
  BY <1>1
<1> HIDE DEF x
<1> QED
  BY <1>2, <1>3, <1>4, <1>5, <1>6, PaysStep

LEMMA ReconcileStep == ASSUME IInv, NEW i \in Intents, reconcile_intent(i) PROVE IInv'
<1>1. CASE intent[i].provider = "nowpayments" /\ \E p \in Payments : _reconcile_nowpayments(i, p)
  <2>1. PICK p \in Payments : _reconcile_nowpayments(i, p)
    BY <1>1
  <2>2. UNCHANGED <<rail, intent, standing, journal, transfer, payment>>
    BY <2>1 DEF _reconcile_nowpayments
  <2>3. /\ asked' \in [Intents -> SUBSET Payments]
        /\ \A j \in Intents : asked'[j] # {} => intent[j].provider = "nowpayments"
    BY <1>1, <2>1, AskedTyped DEF _reconcile_nowpayments
  <2> QED
    BY <2>2, <2>3, AskedTyped, JournalSame, IdleStep
<1>2. CASE _reconcile_sepay(i)
  BY <1>2, SepayReconcileStep DEF reconcile_intent
<1>3. CASE intent[i].provider = "payos" /\ _reconcile_payos(i)
  BY <1>3, PayosReconcileStep DEF reconcile_intent
<1> QED
  BY <1>1, <1>2, <1>3 DEF reconcile_intent

(* A crypto payment binds the intent it pays.                              *)
LEMMA CryptoKeeps ==
  ASSUME IInv, NEW i \in Intents, intent[i].provider = "nowpayments", NEW p \in Payments
  PROVE  Keeps(intent[i], _try_credit_nowpayments_finished(intent[i], p))
<1> DEFINE bound == [intent[i] EXCEPT !.bound = p]
           paid == apply_deposit_paid(bound, intent[i].amount, None)
<1>1. IsRow(intent[i]) /\ Keeps(intent[i], intent[i])
  BY KeepsSelf DEF IInv, Shapes
<1>2. Same(intent[i], bound, {"bound"}) /\ bound.bound = p
  BY <1>1, RowUpdates
<1>3. IsRow(bound)
  BY <1>2 DEF Same
<1> HIDE DEF bound
<1>4. Same(bound, paid, {"status", "paid", "by"})
  BY <1>3, PaidRow
<1> HIDE DEF paid
<1>5. Keeps(intent[i], bound)
  BY <1>2, <1>3 DEF Same, Fields, Keeps, None
<1>6. Keeps(intent[i], paid)
  BY <1>2, <1>4 DEF Same, Fields, Keeps, None
<1> QED
  BY <1>1, <1>5, <1>6 DEF _try_credit_nowpayments_finished, bound, paid

LEMMA IpnStep == ASSUME IInv, NEW p \in Payments, handle_nowpayments_ipn(p) PROVE IInv'
<1> DEFINE i == payment[p].invoice
<1>1. i \in Intents /\ intent[i].provider = "nowpayments"
  BY DEF handle_nowpayments_ipn, IInv, Shapes, OutsideInv, Payment
<1>2. Keeps(intent[i], _try_credit_nowpayments_finished(intent[i], p))
  BY <1>1, CryptoKeeps
<1>3. KeepsNames
  BY JournalSame DEF handle_nowpayments_ipn
<1>4. Write(i, _try_credit_nowpayments_finished(intent[i], p))
  BY DEF handle_nowpayments_ipn
<1> HIDE DEF i
<1> QED
  BY <1>1, <1>2, <1>3, <1>4, WriteStep DEF Write

LEMMA ApplyStep ==
  ASSUME IInv, NEW i \in Intents, NEW p \in Payments, apply_reconciled(i, p) PROVE IInv'
<1> DEFINE row == IF intent[i].status = "paid" THEN intent[i]
                  ELSE _try_credit_nowpayments_finished(intent[i], p)
<1>1. /\ intent' = [intent EXCEPT ![i] = row]
      /\ UNCHANGED <<rail, standing, journal, transfer, payment>>
      /\ asked' = [asked EXCEPT ![i] = @ \ {p}]
  BY DEF apply_reconciled
<1>2. intent[i].provider = "nowpayments"
  BY AskedTyped DEF apply_reconciled
<1>3. Keeps(intent[i], row)
  BY <1>2, CryptoKeeps, KeepsSelf
<1> HIDE DEF row
<1>4. \A j \in Intents : Keeps(intent[j], intent'[j])
  BY <1>1, <1>3, KeepsSelf DEF IInv, Shapes
<1>5. intent' = [j \in Intents |-> intent'[j]]
  BY <1>1 DEF IInv, Shapes
<1>6. /\ asked' \in [Intents -> SUBSET Payments]
      /\ \A j \in Intents : asked'[j] # {} => intent[j].provider = "nowpayments"
  BY <1>1, AskedTyped
<1> QED
  BY <1>1, <1>4, <1>5, <1>6, AskedTyped, JournalSame, KeepsStep

LEMMA LostStep == ASSUME IInv, NEW i \in Intents, reconcile_lost(i) PROVE IInv'
<1>1. /\ asked' \in [Intents -> SUBSET Payments]
      /\ \A j \in Intents : asked'[j] # {} => intent[j].provider = "nowpayments"
  BY AskedTyped DEF reconcile_lost
<1> QED
  BY <1>1, AskedTyped, JournalSame, IdleStep DEF reconcile_lost

-----------------------------------------------------------------------------
LEMMA InitStep == Init => IInv
<1> SUFFICES ASSUME Init PROVE IInv
  OBVIOUS
<1>1. intent \in [Intents -> {NoIntent} \cup Retired]
  BY DEF Init
<1>2. ASSUME NEW i \in Intents
      PROVE  /\ IsRow(intent[i]) /\ intent[i].id = Unnamed
             /\ intent[i] = NoIntent \/ intent[i].provider = "payos"
  <2>1. CASE intent[i] = NoIntent
    BY <2>1 DEF IsRow, Fields, NoIntent, Row
  <2>2. CASE \E a \in Accounts, n \in Amounts : intent[i] = Row("payos", a, n, rail.current)
    BY <2>2 DEF IsRow, Fields, Row
  <2> QED
    BY <1>1, <2>1, <2>2 DEF Retired
<1>3. /\ "shared" \in DOMAIN rail
      /\ transfer = [t \in Transfers |-> NoTransfer]
      /\ payment = [p \in Payments |-> NoPayment]
      /\ asked = [i \in Intents |-> {}]
      /\ standing = [x \in Ids |-> NoCredit]
      /\ journal = [x \in Ids |-> None]
  BY DEF Init
<1>4. Shapes
  BY <1>1, <1>2, <1>3 DEF Shapes
<1>5. NoIntent.provider = None
  BY DEF NoIntent, Row
<1>6. \A i \in Intents : IntentInv(i)
  BY <1>2, <1>3, <1>5 DEF IntentInv, None
<1>7. OutsideInv
  BY <1>3 DEF OutsideInv, NoTransfer, None
<1>8. \A t \in Transfers : NameInv(t)
  BY <1>3, IdNames DEF NameInv
<1> QED
  BY <1>4, <1>6, <1>7, <1>8 DEF IInv

LEMMA NextStep == IInv /\ [Next]_vars => IInv'
<1> SUFFICES ASSUME IInv, [Next]_vars PROVE IInv'
  OBVIOUS
<1>1. CASE \E i \in Intents, a \in Accounts, p \in {"sepay", "nowpayments"}, amount \in Amounts :
             create_deposit(i, a, p, amount)
  BY <1>1, CreateStep
<1>2. CASE \E i \in Intents : cancel_deposit(i) \/ age(i)
  BY <1>2, CancelStep, AgeStep
<1>3. CASE deposit_expire_job \/ update_config
  BY <1>3, ExpireStep, ConfigStep
<1>4. CASE \E t \in Transfers, code \in Codes, amount \in Amounts, d \in Destinations :
             bank_transfer(t, code, amount, d)
  BY <1>4, BankStep
<1>5. CASE \E p \in Payments, i \in Intents, kind \in {"full", "underpaid", "foreign"} :
             crypto_payment(p, i, kind)
  BY <1>5, CryptoStep
<1>6. CASE \E t \in Transfers : handle_sepay_webhook(t) \/ handle_webhook(t)
  BY <1>6, SepayWebhookStep, PayosWebhookStep
<1>7. CASE \E x \in Ids, a \in Accounts : assign_unmatched_transfer(x, a)
  BY <1>7, AssignStep
<1>8. CASE \E x \in Ids : dismiss_unmatched_transfer(x)
  BY <1>8, DismissStep
<1>9. CASE \E p \in Payments : handle_nowpayments_ipn(p)
  BY <1>9, IpnStep
<1>10. CASE \E i \in Intents : reconcile_intent(i) \/ reconcile_lost(i)
  BY <1>10, ReconcileStep, LostStep
<1>11. CASE \E i \in Intents, p \in Payments : apply_reconciled(i, p)
  BY <1>11, ApplyStep
<1>12. CASE UNCHANGED vars
  BY <1>12, AskedTyped, JournalSame, IdleStep DEF vars
<1> QED
  BY <1>1, <1>2, <1>3, <1>4, <1>5, <1>6, <1>7, <1>8, <1>9, <1>10, <1>11, <1>12 DEF Next

LEMMA Invariant == Spec => []IInv
<1> QED
  BY InitStep, NextStep, PTL DEF Spec

(* However often and in whatever order webhook, reconciliation and admins  *)
(* come to a bank transfer, it is credited once; a second time only by     *)
(* hand, where the provider has two names for it.                          *)
THEOREM CreditedOnce == Spec => []TransferCreditedOnce
<1> QED
  BY Invariant, OneCredit, PTL

(* What the admin's queue offers has been credited to nobody, unless the   *)
(* reconciliation has credited it under its other name.                    *)
THEOREM QueueOffersUncredited == Spec => []QueueIsUncredited
<1> QED
  BY Invariant, QueueClean, PTL

-----------------------------------------------------------------------------
(* A paid intent that is not written, or written as it was, stays.         *)
LEMMA PaidStays ==
  ASSUME IInv, [Next]_vars, NEW i \in Intents, intent[i].status = "paid"
  PROVE  intent'[i] = intent[i]
<1>1. ASSUME NEW j \in Intents, NEW row, Write(j, row), j = i => row = intent[i]
      PROVE  intent'[i] = intent[i]
  BY <1>1 DEF Write, IInv, Shapes
<1>2. ASSUME NEW j \in Intents, NEW row, Write(j, row), intent[j].status # "paid"
      PROVE  intent'[i] = intent[i]
  BY <1>1, <1>2
<1>3. CASE \E j \in Intents, a \in Accounts, p \in {"sepay", "nowpayments"}, amount \in Amounts :
             create_deposit(j, a, p, amount)
  BY <1>2, <1>3 DEF create_deposit, NoIntent, Row, None
<1>4. CASE \E j \in Intents : cancel_deposit(j) \/ age(j)
  BY <1>2, <1>4 DEF cancel_deposit, age
<1>5. CASE deposit_expire_job
  BY <1>5 DEF deposit_expire_job
<1>6. CASE UNCHANGED intent
  BY <1>6
<1>7. CASE \E t \in Transfers : handle_sepay_webhook(t)
  <2>1. PICK t \in Transfers : handle_sepay_webhook(t)
    BY <1>7
  <2> DEFINE x == Id(t, "webhook")
             j == transfer[t].code[2]
  <2>2. CASE transfer[t].code[1] = "intent" /\ Payable(j, t) /\ Pays(j, t, x)
    <3>1. transfer[t].code \in Codes \cup {<<None, None>>}
      BY DEF IInv, Shapes, Transfer, NoTransfer
    <3>2. j \in Intents
      BY <2>2, <3>1 DEF Codes, Nothing, None
    <3>3. intent[j].status # "paid"
      BY <2>2 DEF Payable, Unpaid
    <3> HIDE DEF j
    <3> QED
      BY <1>2, <2>2, <3>2, <3>3 DEF Pays
  <2>3. CASE UNCHANGED intent
    BY <2>3
  <2> QED
    BY <2>1, <2>2, <2>3 DEF handle_sepay_webhook, _credit_standing_code
<1>8. CASE \E t \in Transfers : handle_webhook(t)
  BY <1>8 DEF handle_webhook, IInv, Shapes
<1>9. CASE \E p \in Payments : handle_nowpayments_ipn(p)
  <2>1. PICK p \in Payments : handle_nowpayments_ipn(p)
    BY <1>9
  <2> DEFINE j == payment[p].invoice
             row == _try_credit_nowpayments_finished(intent[j], p)
  <2>2. j \in Intents /\ intent[j].provider = "nowpayments"
    BY <2>1 DEF handle_nowpayments_ipn, IInv, Shapes, OutsideInv, Payment
  <2>3. ASSUME intent[j].status = "paid" PROVE row = intent[j]
    <3>1. intent[j].bound \in Payments /\ IsRow(intent[j])
      BY <2>2, <2>3 DEF IInv, IntentInv, Shapes
    <3>2. intent[j].bound # None
      BY <3>1, NoneAssumption
    <3>3. intent[j].bound = p => [intent[j] EXCEPT !.bound = p] = intent[j]
      BY <3>1 DEF IsRow
    <3> QED
      BY <2>3, <3>2, <3>3 DEF _try_credit_nowpayments_finished
  <2>4. Write(j, row)
    BY <2>1 DEF handle_nowpayments_ipn
  <2> HIDE DEF j, row
  <2> QED
    BY <1>1, <2>2, <2>3, <2>4
<1>10. CASE \E j \in Intents : reconcile_intent(j)
  <2>1. PICK j \in Intents : reconcile_intent(j)
    BY <1>10
  <2>2. intent[j].status # "paid"
    BY <2>1 DEF reconcile_intent, Unpaid
  <2>3. UNCHANGED intent \/ \E row : Write(j, row)
    BY <2>1 DEF reconcile_intent, _reconcile_nowpayments, _reconcile_sepay, _reconcile_payos, Pays
  <2> QED
    BY <1>2, <2>2, <2>3
<1>11. CASE \E j \in Intents, p \in Payments : apply_reconciled(j, p)
  BY <1>11 DEF apply_reconciled, IInv, Shapes
<1>12. CASE \E j \in Intents : reconcile_lost(j)
  BY <1>6, <1>12 DEF reconcile_lost
<1>13. CASE update_config \/ UNCHANGED vars
  BY <1>6, <1>13 DEF update_config, vars
<1>14. CASE \E t \in Transfers, code \in Codes, amount \in Amounts, d \in Destinations :
              bank_transfer(t, code, amount, d)
  BY <1>6, <1>14 DEF bank_transfer
<1>15. CASE \E p \in Payments, j \in Intents, kind \in {"full", "underpaid", "foreign"} :
              crypto_payment(p, j, kind)
  BY <1>6, <1>15 DEF crypto_payment
<1>16. CASE \E x \in Ids : dismiss_unmatched_transfer(x) \/ \E a \in Accounts : assign_unmatched_transfer(x, a)
  BY <1>6, <1>16 DEF dismiss_unmatched_transfer, assign_unmatched_transfer, _credit_standing_code
<1> QED
  BY <1>3, <1>4, <1>5, <1>7, <1>8, <1>9, <1>10, <1>11, <1>12, <1>13, <1>14, <1>15, <1>16 DEF Next

(* Nothing touches a paid intent: not a late webhook, not a reconciliation *)
(* that asked before it was paid, not the expiry, not its owner.           *)
THEOREM PaidStaysPaid == Spec => PaidIsFinal
<1>1. IInv /\ [Next]_vars => [\A i \in Intents : intent[i].status = "paid" => intent'[i] = intent[i]]_vars
  BY PaidStays
<1> QED
  BY <1>1, Invariant, PTL DEF Spec, PaidIsFinal

-----------------------------------------------------------------------------
(* What has come in for a paid intent. *)
Backed(i) ==
  intent[i].status = "paid" =>
    /\ intent[i].provider = "sepay" =>
         Matches(intent[i].by, i) /\ intent[i].paid = intent[i].amount
    /\ intent[i].provider = "nowpayments" =>
         /\ payment[intent[i].bound] = [invoice |-> i, kind |-> "full"]
         /\ intent[i].paid = intent[i].amount
    /\ intent[i].provider = "payos" => intent[i].paid <= Received(i)

(* A reconciliation has asked for payments of this invoice.                *)
Asked(i) == \A p \in asked[i] : payment[p].invoice = i

Backing == \A i \in Intents : Backed(i) /\ Asked(i)

(* What a step makes of an intent. *)
Opened(i, new) ==
  /\ intent[i] = NoIntent
  /\ \E a \in Accounts, p \in {"sepay", "nowpayments"}, amount \in Amounts :
       new = Row(p, a, amount, rail.current)

Touched(i, new) ==
  /\ intent[i].status \in Unpaid
  /\ \/ \E status \in Unpaid : new = [intent[i] EXCEPT !.status = status]
     \/ new = [intent[i] EXCEPT !.aged = TRUE]

PaidByBank(i, new) ==
  /\ intent[i].status \in Unpaid /\ intent[i].provider = "sepay"
  /\ \E t \in Transfers, x \in Ids :
       /\ Matches(t, i)
       /\ new = [apply_deposit_paid(intent[i], intent[i].amount, t) EXCEPT !.id = x]

PaidByLink(i, new) ==
  /\ intent[i].status \in Unpaid /\ intent[i].provider = "payos"
  /\ \E t \in Transfers, amount \in Nat :
       amount <= Received(i) /\ new = apply_deposit_paid(intent[i], amount, t)

PaidByCoin(i, new) ==
  /\ intent[i].provider = "nowpayments"
  /\ \E p \in Payments :
       payment[p].invoice = i /\ new = _try_credit_nowpayments_finished(intent[i], p)

Moves(i, new) ==
  \/ new = intent[i] \/ Opened(i, new) \/ Touched(i, new)
  \/ PaidByBank(i, new) \/ PaidByLink(i, new) \/ PaidByCoin(i, new)

LEMMA AmountsType ==
  ASSUME IInv
  PROVE  \A t \in Transfers : transfer[t].amount \in Nat
  BY AmountsAssumption DEF IInv, Shapes, Transfer, NoTransfer

LEMMA ReceivedType ==
  ASSUME IInv, NEW i \in Intents
  PROVE  /\ Received(i) \in Nat
         /\ \A t \in Linked(i) : t \in Transfers /\ transfer[t].amount <= Received(i)
<1> DEFINE f == [t \in Transfers |-> transfer[t].amount]
           S == Linked(i)
<1>1. S \in SUBSET Transfers /\ IsFiniteSet(S)
  BY FiniteAssumption, FS_Subset DEF Linked
<1>2. \A t \in S : f[t] \in Nat /\ f[t] = transfer[t].amount
  BY <1>1, AmountsType
<1> HIDE DEF f, S
<1>3. SumFunctionOnSet(f, S) \in Nat
  BY <1>1, <1>2, SumNat
<1>4. ASSUME NEW t \in S PROVE f[t] <= SumFunctionOnSet(f, S)
  <2>1. SumFunctionOnSet(f, S) = f[t] + SumFunctionOnSet(f, S \ {t})
    BY <1>1, <1>2, SumRemove
  <2>2. IsFiniteSet(S \ {t}) /\ \A u \in S \ {t} : f[u] \in Nat
    BY <1>1, <1>2, FS_Subset
  <2>3. SumFunctionOnSet(f, S \ {t}) \in Nat
    BY <2>2, SumNat
  <2> QED
    BY <1>2, <2>1, <2>3
<1>5. Received(i) = SumFunctionOnSet(f, S) /\ Linked(i) = S
  BY DEF Received, f, S
<1> QED
  BY <1>1, <1>2, <1>3, <1>4, <1>5

(* Transfers are made, and never unmade. *)
LEMMA ReceivedGrows ==
  ASSUME IInv, IInv', NEW i \in Intents,
         \A t \in Transfers : transfer[t] = NoTransfer \/ transfer'[t] = transfer[t]
  PROVE  Received(i) <= Received(i)' /\ Received(i)' \in Nat
<1> DEFINE f == [t \in Transfers |-> transfer[t].amount]
           g == [t \in Transfers |-> transfer'[t].amount]
           S == Linked(i)
           T == Linked(i)'
<1>1. \A t \in S : t \in Transfers /\ transfer'[t] = transfer[t]
  BY DEF Linked, NoTransfer, None
<1>2. S \in SUBSET T /\ T \in SUBSET Transfers
  BY <1>1 DEF Linked
<1>3. IsFiniteSet(S) /\ IsFiniteSet(T)
  BY <1>2, FiniteAssumption, FS_Subset
<1>4. (\A t \in S : f[t] = g[t]) /\ (\A t \in T : g[t] \in Nat)
  <2>1. \A t \in Transfers : transfer'[t].amount \in Nat
    BY AmountsAssumption DEF IInv, Shapes, Transfer, NoTransfer
  <2> QED
    BY <1>1, <1>2, <2>1
<1>5. Received(i) = SumFunctionOnSet(f, S) /\ Received(i)' = SumFunctionOnSet(g, T)
  BY DEF Received
<1> HIDE DEF f, g, S, T
<1>6. SumFunctionOnSet(f, S) = SumFunctionOnSet(g, S)
  BY <1>3, <1>4, SumEqual
<1>7. SumFunctionOnSet(g, S) <= SumFunctionOnSet(g, T)
  BY <1>2, <1>3, <1>4, SumGrows
<1>8. SumFunctionOnSet(g, T) \in Nat
  BY <1>3, <1>4, SumNat
<1> QED
  BY <1>5, <1>6, <1>7, <1>8

LEMMA LinkedIntent ==
  ASSUME IInv, NEW i \in Intents, NEW t \in Transfers, transfer[t].code = <<"link", i>>
  PROVE  intent[i].provider = "payos" /\ t \in Linked(i)
  BY DEF IInv, OutsideInv, Linked

LEMMA CodeIntent ==
  ASSUME IInv, NEW t \in Transfers, transfer[t].code[1] \in {"intent", "link"}
  PROVE  /\ transfer[t].code[2] \in Intents
         /\ transfer[t].code = <<transfer[t].code[1], transfer[t].code[2]>>
<1>1. transfer[t].code \in Codes \cup {<<None, None>>}
  BY DEF IInv, Shapes, Transfer, NoTransfer
<1> QED
  BY <1>1 DEF Codes, Nothing, None

(* A row that is written moves its intent; the others stay. *)
LEMMA WriteMoves ==
  ASSUME IInv, NEW j \in Intents, NEW row, Moves(j, row), intent' = [intent EXCEPT ![j] = row],
         NEW i \in Intents
  PROVE  Moves(i, intent'[i])
<1>1. intent'[j] = row /\ (i # j => intent'[i] = intent[i])
  BY DEF IInv, Shapes
<1>2. CASE i = j
  BY <1>1, <1>2
<1>3. CASE i # j
  BY <1>1, <1>3 DEF Moves
<1> QED
  BY <1>2, <1>3

LEMMA PaysMoves ==
  ASSUME IInv, NEW j \in Intents, NEW t \in Transfers, NEW x \in Ids, Pays(j, t, x),
         Matches(t, j), intent[j].status \in Unpaid, NEW i \in Intents
  PROVE  Moves(i, intent'[i])
<1> DEFINE row == [apply_deposit_paid(intent[j], intent[j].amount, t) EXCEPT !.id = x]
<1>1. intent[j].provider = "sepay"
  BY DEF Matches, IInv, OutsideInv
<1>2. PaidByBank(j, row)
  BY <1>1 DEF PaidByBank
<1> QED
  BY <1>2, WriteMoves DEF Pays, Write, Moves

LEMMA IdType ==
  ASSUME NEW t \in Transfers, NEW channel \in {"webhook", "api"}
  PROVE  Id(t, channel) \in Ids
  BY DEF Id, Ids

(* A row that is not paid, and not empty, can be.                          *)
LEMMA UnpaidRow ==
  ASSUME TypeOK, NEW i \in Intents
  PROVE  /\ intent[i].provider # None /\ intent[i].status # "paid" => intent[i].status \in Unpaid
         /\ intent[i].status \in Unpaid \cup {"paid"} => intent[i] \in Intent
  BY DEF TypeOK, Intent, NoIntent, Row, Unpaid, None

LEMMA IntentMoves ==
  ASSUME IInv, TypeOK, Backing, [Next]_vars, NEW i \in Intents
  PROVE  Moves(i, intent'[i])
<1>1. CASE UNCHANGED intent
  BY <1>1 DEF Moves
<1>2. ASSUME NEW j \in Intents, NEW a \in Accounts, NEW p \in {"sepay", "nowpayments"},
             NEW amount \in Amounts, create_deposit(j, a, p, amount)
      PROVE  Moves(i, intent'[i])
  <2>1. Opened(j, Row(p, a, amount, rail.current))
    BY <1>2 DEF create_deposit, Opened
  <2> QED
    BY <1>2, <2>1, WriteMoves DEF create_deposit, Write, Moves
<1>3. ASSUME NEW j \in Intents, cancel_deposit(j) PROVE Moves(i, intent'[i])
  <2>1. Touched(j, [intent[j] EXCEPT !.status = "cancelled"])
    BY <1>3 DEF cancel_deposit, Touched, Unpaid
  <2> QED
    BY <1>3, <2>1, WriteMoves DEF cancel_deposit, Write, Moves
<1>4. ASSUME NEW j \in Intents, age(j) PROVE Moves(i, intent'[i])
  <2>1. Touched(j, [intent[j] EXCEPT !.aged = TRUE])
    BY <1>4 DEF age, Touched, Unpaid
  <2> QED
    BY <1>4, <2>1, WriteMoves DEF age, Write, Moves
<1>5. CASE deposit_expire_job
  <2>1. PICK due \in SUBSET {j \in Intents : intent[j].status = "pending"} :
          intent' = [j \in Intents |->
                       IF j \in due THEN [intent[j] EXCEPT !.status = "expired"] ELSE intent[j]]
    BY <1>5 DEF deposit_expire_job
  <2>2. CASE i \in due
    <3>1. intent'[i] = [intent[i] EXCEPT !.status = "expired"] /\ intent[i].status = "pending"
      BY <2>1, <2>2
    <3>2. Touched(i, intent'[i])
      BY <3>1 DEF Touched, Unpaid
    <3> QED
      BY <3>2 DEF Moves
  <2>3. CASE i \notin due
    BY <2>1, <2>3 DEF Moves
  <2> QED
    BY <2>2, <2>3
<1>6. ASSUME NEW t \in Transfers, handle_sepay_webhook(t) PROVE Moves(i, intent'[i])
  <2> DEFINE j == transfer[t].code[2]
             x == Id(t, "webhook")
  <2>1. CASE transfer[t].code[1] = "intent" /\ Payable(j, t) /\ Pays(j, t, x)
    <3>1. j \in Intents /\ transfer[t].code = <<"intent", j>> /\ x \in Ids
      BY <2>1, CodeIntent, IdType
    <3> HIDE DEF j, x
    <3>2. Matches(t, j) /\ intent[j].status \in Unpaid
      BY <2>1, <3>1 DEF Payable, Matches
    <3> QED
      BY <2>1, <3>1, <3>2, PaysMoves
  <2>2. CASE UNCHANGED intent
    BY <1>1, <2>2
  <2> QED
    BY <1>6, <2>1, <2>2 DEF handle_sepay_webhook, _credit_standing_code
<1>7. ASSUME NEW t \in Transfers, handle_webhook(t) PROVE Moves(i, intent'[i])
  <2> DEFINE j == transfer[t].code[2]
             row == apply_deposit_paid(intent[j], transfer[t].amount, t)
  <2>1. j \in Intents /\ transfer[t].code = <<"link", j>>
    BY <1>7, CodeIntent DEF handle_webhook
  <2>2. CASE intent[j].status = "paid"
    BY <1>1, <1>7, <2>2 DEF handle_webhook
  <2>3. CASE intent[j].status # "paid"
    <3>1. intent' = [intent EXCEPT ![j] = row]
      BY <1>7, <2>3 DEF handle_webhook
    <3>2. intent[j].provider = "payos" /\ t \in Linked(j)
      BY <2>1, LinkedIntent
    <3>3. transfer[t].amount \in Nat /\ transfer[t].amount <= Received(j)
      BY <2>1, <3>2, AmountsType, ReceivedType
    <3>4. intent[j].status \in Unpaid
      BY <2>1, <2>3, <3>2, UnpaidRow DEF None
    <3>5. PaidByLink(j, row)
      BY <3>2, <3>3, <3>4 DEF PaidByLink
    <3> HIDE DEF j, row
    <3> QED
      BY <2>1, <3>1, <3>5, WriteMoves DEF Moves
  <2> QED
    BY <2>2, <2>3
<1>8. ASSUME NEW p \in Payments, handle_nowpayments_ipn(p) PROVE Moves(i, intent'[i])
  <2> DEFINE j == payment[p].invoice
             row == _try_credit_nowpayments_finished(intent[j], p)
  <2>1. j \in Intents /\ intent[j].provider = "nowpayments"
    BY <1>8 DEF handle_nowpayments_ipn, IInv, Shapes, OutsideInv, Payment
  <2>2. PaidByCoin(j, row)
    BY <2>1 DEF PaidByCoin
  <2>3. intent' = [intent EXCEPT ![j] = row]
    BY <1>8 DEF handle_nowpayments_ipn, Write
  <2> HIDE DEF j, row
  <2> QED
    BY <2>1, <2>2, <2>3, WriteMoves DEF Moves
<1>9. ASSUME NEW j \in Intents, reconcile_intent(j) PROVE Moves(i, intent'[i])
  <2>1. CASE \E p \in Payments : _reconcile_nowpayments(j, p)
    BY <1>1, <2>1 DEF _reconcile_nowpayments
  <2>2. CASE _reconcile_sepay(j)
    <3>1. PICK t \in Transfers : Matches(t, j) /\ Pays(j, t, Id(t, "api"))
      BY <2>2 DEF _reconcile_sepay
    <3>2. intent[j].status \in Unpaid /\ Id(t, "api") \in Ids
      BY <1>9, IdType DEF reconcile_intent
    <3> QED
      BY <3>1, <3>2, PaysMoves
  <2>3. CASE intent[j].provider = "payos" /\ _reconcile_payos(j)
    <3>1. intent[j].status \in Unpaid
      BY <1>9 DEF reconcile_intent
    <3>2. CASE \E t \in Linked(j) : Write(j, apply_deposit_paid(intent[j], Received(j), t))
      <4>1. PICK t \in Linked(j) : Write(j, apply_deposit_paid(intent[j], Received(j), t))
        BY <3>2
      <4>2. Received(j) \in Nat /\ Received(j) <= Received(j) /\ t \in Transfers
        BY ReceivedType
      <4>3. PaidByLink(j, apply_deposit_paid(intent[j], Received(j), t))
        BY <2>3, <3>1, <4>2 DEF PaidByLink
      <4> QED
        BY <4>1, <4>3, WriteMoves DEF Write, Moves
    <3>3. CASE \E status \in {"cancelled", "expired"} :
                 Write(j, [intent[j] EXCEPT !.status = status])
      <4>1. PICK status \in {"cancelled", "expired"} :
              Write(j, [intent[j] EXCEPT !.status = status])
        BY <3>3
      <4>2. Touched(j, [intent[j] EXCEPT !.status = status])
        BY <3>1 DEF Touched, Unpaid
      <4> QED
        BY <4>1, <4>2, WriteMoves DEF Write, Moves
    <3> QED
      BY <2>3, <3>2, <3>3 DEF _reconcile_payos
  <2> QED
    BY <1>9, <2>1, <2>2, <2>3 DEF reconcile_intent
<1>10. ASSUME NEW j \in Intents, NEW p \in Payments, apply_reconciled(j, p)
       PROVE  Moves(i, intent'[i])
  <2> DEFINE row == IF intent[j].status = "paid" THEN intent[j]
                    ELSE _try_credit_nowpayments_finished(intent[j], p)
  <2>1. intent' = [intent EXCEPT ![j] = row] /\ p \in asked[j]
    BY <1>10 DEF apply_reconciled
  <2>2. intent[j].provider = "nowpayments" /\ payment[p].invoice = j
    BY <2>1, AskedTyped DEF Backing, Asked
  <2>3. Moves(j, row)
    BY <2>2 DEF Moves, PaidByCoin
  <2> HIDE DEF row
  <2> QED
    BY <2>1, <2>3, WriteMoves
<1>11. \/ UNCHANGED intent \/ deposit_expire_job
       \/ \E j \in Intents, a \in Accounts, p \in {"sepay", "nowpayments"}, amount \in Amounts :
            create_deposit(j, a, p, amount)
       \/ \E j \in Intents : cancel_deposit(j) \/ age(j) \/ reconcile_intent(j)
       \/ \E t \in Transfers : handle_sepay_webhook(t) \/ handle_webhook(t)
       \/ \E p \in Payments : handle_nowpayments_ipn(p)
       \/ \E j \in Intents, p \in Payments : apply_reconciled(j, p)
  BY DEF Next, vars, update_config, bank_transfer, crypto_payment, assign_unmatched_transfer,
         dismiss_unmatched_transfer, _credit_standing_code, reconcile_lost
<1> QED
  BY <1>1, <1>2, <1>3, <1>4, <1>5, <1>6, <1>7, <1>8, <1>9, <1>10, <1>11

-----------------------------------------------------------------------------
(* Types *)
LEMMA IntentFields ==
  ASSUME NEW row \in Intent
  PROVE  /\ \A x \in Unpaid \cup {"paid"} : [row EXCEPT !.status = x] \in Intent
         /\ [row EXCEPT !.aged = TRUE] \in Intent
         /\ \A x \in Nat : [row EXCEPT !.paid = x] \in Intent
         /\ \A x \in Transfers \cup {None} : [row EXCEPT !.by = x] \in Intent
         /\ \A x \in Ids : [row EXCEPT !.id = x] \in Intent
         /\ \A x \in Payments : [row EXCEPT !.bound = x] \in Intent
<1>1. \A x \in Unpaid \cup {"paid"} : [row EXCEPT !.status = x] \in Intent
  BY DEF Intent
<1>2. [row EXCEPT !.aged = TRUE] \in Intent
  BY DEF Intent
<1>3. \A x \in Nat : [row EXCEPT !.paid = x] \in Intent
  BY DEF Intent
<1>4. \A x \in Transfers \cup {None} : [row EXCEPT !.by = x] \in Intent
  BY DEF Intent
<1>5. \A x \in Ids : [row EXCEPT !.id = x] \in Intent
  BY DEF Intent
<1>6. \A x \in Payments : [row EXCEPT !.bound = x] \in Intent
  BY DEF Intent
<1> QED
  BY <1>1, <1>2, <1>3, <1>4, <1>5, <1>6

LEMMA PaidType ==
  ASSUME NEW row \in Intent, NEW amount \in Nat, NEW t \in Transfers \cup {None}
  PROVE  apply_deposit_paid(row, amount, t) \in Intent
<1>1. "paid" \in Unpaid \cup {"paid"}
  OBVIOUS
<1>2. [[[row EXCEPT !.status = "paid"] EXCEPT !.paid = amount] EXCEPT !.by = t] \in Intent
  BY <1>1, IntentFields
<1> QED
  BY <1>2 DEF apply_deposit_paid

LEMMA RowType ==
  ASSUME NEW p \in {"sepay", "nowpayments", "payos"}, NEW a \in Accounts, NEW amount \in Amounts,
         NEW d \in Destinations
  PROVE  Row(p, a, amount, d) \in Intent
<1>1. /\ "pending" \in Unpaid \cup {"paid"} /\ FALSE \in BOOLEAN /\ 0 \in Nat
      /\ None \in Transfers \cup {None} /\ Unnamed \in Ids \cup {Unnamed}
      /\ None \in Payments \cup {None}
  BY DEF Unpaid
<1> QED
  BY <1>1 DEF Row, Intent

LEMMA MovesType ==
  ASSUME IInv, TypeOK, NEW i \in Intents, NEW new, Moves(i, new)
  PROVE  new \in Intent \cup {NoIntent}
<1>1. CASE new = intent[i]
  BY <1>1 DEF TypeOK
<1>2. CASE Opened(i, new)
  <2>1. PICK a \in Accounts, p \in {"sepay", "nowpayments"}, amount \in Amounts :
          new = Row(p, a, amount, rail.current)
    BY <1>2 DEF Opened
  <2>2. rail.current \in Destinations
    BY DEF TypeOK, Rail
  <2> QED
    BY <2>1, <2>2, RowType
<1>3. CASE Touched(i, new)
  <2>1. intent[i] \in Intent
    BY <1>3, UnpaidRow DEF Touched
  <2>2. ASSUME NEW status \in Unpaid PROVE [intent[i] EXCEPT !.status = status] \in Intent
    <3>1. status \in Unpaid \cup {"paid"}
      OBVIOUS
    <3> QED
      BY <2>1, <3>1, IntentFields
  <2>3. [intent[i] EXCEPT !.aged = TRUE] \in Intent
    BY <2>1, IntentFields
  <2> QED
    BY <1>3, <2>2, <2>3 DEF Touched
<1>4. CASE PaidByBank(i, new)
  <2>1. PICK t \in Transfers, x \in Ids :
          new = [apply_deposit_paid(intent[i], intent[i].amount, t) EXCEPT !.id = x]
    BY <1>4 DEF PaidByBank
  <2>2. intent[i] \in Intent /\ intent[i].amount \in Nat
    BY <1>4, UnpaidRow, AmountsAssumption DEF PaidByBank, Intent
  <2>3. apply_deposit_paid(intent[i], intent[i].amount, t) \in Intent
    BY <2>2, PaidType
  <2> QED
    BY <2>1, <2>3, IntentFields
<1>5. CASE PaidByLink(i, new)
  <2>1. intent[i] \in Intent
    BY <1>5, UnpaidRow DEF PaidByLink
  <2> QED
    BY <1>5, <2>1, PaidType DEF PaidByLink
<1>6. CASE PaidByCoin(i, new)
  <2>1. PICK p \in Payments : new = _try_credit_nowpayments_finished(intent[i], p)
    BY <1>6 DEF PaidByCoin
  <2>2. intent[i] \in Intent /\ intent[i].amount \in Nat
    BY <1>6, AmountsAssumption DEF PaidByCoin, TypeOK, Intent, NoIntent, Row, None
  <2> DEFINE bound == [intent[i] EXCEPT !.bound = p]
             paid == apply_deposit_paid(bound, intent[i].amount, None)
  <2>3. bound \in Intent
    BY <2>2, IntentFields
  <2> HIDE DEF bound
  <2>4. paid \in Intent
    BY <2>2, <2>3, PaidType
  <2> HIDE DEF paid
  <2> QED
    BY <2>1, <2>2, <2>3, <2>4 DEF _try_credit_nowpayments_finished, bound, paid
<1> QED
  BY <1>1, <1>2, <1>3, <1>4, <1>5, <1>6 DEF Moves

LEMMA RailType == ASSUME TypeOK, [Next]_vars PROVE rail' \in Rail
<1>1. rail \in Rail
  BY DEF TypeOK
<1>2. CASE update_config
  <2>1. rail.changes + 1 \in 0..MaxRailChanges
    <3>1. rail.changes < MaxRailChanges
      BY <1>2 DEF update_config
    <3>2. rail.changes \in 0..MaxRailChanges
      BY <1>1 DEF Rail
    <3> QED
      BY <3>1, <3>2, BoundsAssumption
  <2>2. ASSUME NEW p \in {"sepay", "nowpayments"},
               rail' = [rail EXCEPT !.on = IF p \in @ THEN @ \ {p} ELSE @ \cup {p},
                                    !.changes = @ + 1]
        PROVE  rail' \in Rail
    BY <1>1, <2>1, <2>2 DEF Rail
  <2>3. ASSUME NEW d \in Destinations,
               rail' = [rail EXCEPT !.current = d, !.changes = @ + 1,
                                    !.previous = (@ \cup {rail.current}) \ {d}]
        PROVE  rail' \in Rail
    BY <1>1, <2>1, <2>3 DEF Rail
  <2>4. ASSUME NEW d,
               rail' = [rail EXCEPT !.previous = @ \ {d}, !.changes = @ + 1]
        PROVE  rail' \in Rail
    BY <1>1, <2>1, <2>4 DEF Rail
  <2> QED
    BY <1>2, <2>2, <2>3, <2>4 DEF update_config
<1>3. CASE UNCHANGED rail
  BY <1>1, <1>3
<1> QED
  BY <1>2, <1>3 DEF Next, vars, create_deposit, cancel_deposit, age, deposit_expire_job, Write,
     bank_transfer, crypto_payment, handle_sepay_webhook, handle_webhook, Pays,
     assign_unmatched_transfer, dismiss_unmatched_transfer, _credit_standing_code,
     handle_nowpayments_ipn, reconcile_intent, reconcile_lost, apply_reconciled,
     _reconcile_nowpayments, _reconcile_sepay, _reconcile_payos

Resolutions == {None, "open", "credited", "dismissed"}

LEMMA JournalType == ASSUME TypeOK, [Next]_vars PROVE journal' \in [Ids -> Resolutions]
<1>1. journal \in [Ids -> Resolutions]
  BY DEF TypeOK, Resolutions
<1>2. ASSUME NEW x, NEW v \in Resolutions, journal' = [journal EXCEPT ![x] = v]
      PROVE  journal' \in [Ids -> Resolutions]
  BY <1>1, <1>2
<1>3. ASSUME NEW t \in Transfers, handle_sepay_webhook(t) PROVE journal' \in [Ids -> Resolutions]
  BY <1>2, <1>3 DEF handle_sepay_webhook, Resolutions
<1>4. ASSUME NEW x \in Ids, NEW a \in Accounts, assign_unmatched_transfer(x, a)
      PROVE  journal' \in [Ids -> Resolutions]
  BY <1>2, <1>4 DEF assign_unmatched_transfer, Resolutions
<1>5. ASSUME NEW x \in Ids, dismiss_unmatched_transfer(x) PROVE journal' \in [Ids -> Resolutions]
  BY <1>2, <1>5 DEF dismiss_unmatched_transfer, Resolutions
<1>6. ASSUME NEW i \in Intents, _reconcile_sepay(i) PROVE journal' \in [Ids -> Resolutions]
  <2>1. PICK t \in Transfers :
          journal' = [journal EXCEPT ![Id(t, "api")] =
                        IF journal[Id(t, "api")] = None THEN "open" ELSE journal[Id(t, "api")]]
    BY <1>6 DEF _reconcile_sepay
  <2>2. Id(t, "api") \in Ids
    BY IdType
  <2>3. (IF journal[Id(t, "api")] = None THEN "open" ELSE journal[Id(t, "api")]) \in Resolutions
    BY <1>1, <2>2 DEF Resolutions
  <2> QED
    BY <1>2, <2>1, <2>3
<1>7. CASE UNCHANGED journal
  BY <1>1, <1>7
<1>8. \/ UNCHANGED journal
      \/ \E t \in Transfers : handle_sepay_webhook(t)
      \/ \E x \in Ids, a \in Accounts : assign_unmatched_transfer(x, a)
      \/ \E x \in Ids : dismiss_unmatched_transfer(x)
      \/ \E i \in Intents : _reconcile_sepay(i)
  BY DEF Next, vars, create_deposit, cancel_deposit, age, deposit_expire_job, update_config,
     bank_transfer, crypto_payment, handle_webhook, handle_nowpayments_ipn, reconcile_intent,
     reconcile_lost, apply_reconciled, _reconcile_nowpayments, _reconcile_payos
<1> QED
  BY <1>3, <1>4, <1>5, <1>6, <1>7, <1>8

LEMMA PayosType == ASSUME TypeOK, [Next]_vars PROVE payos' \subseteq Transfers
<1>1. ASSUME NEW t \in Transfers, handle_webhook(t) PROVE payos' \subseteq Transfers
  BY <1>1 DEF handle_webhook, TypeOK
<1>2. CASE UNCHANGED payos
  BY <1>2 DEF TypeOK
<1>3. UNCHANGED payos \/ \E t \in Transfers : handle_webhook(t)
  BY DEF Next, vars, create_deposit, cancel_deposit, age, deposit_expire_job, Write,
     bank_transfer, crypto_payment, handle_sepay_webhook, Pays, update_config,
     assign_unmatched_transfer, dismiss_unmatched_transfer, _credit_standing_code,
     handle_nowpayments_ipn, reconcile_intent, reconcile_lost, apply_reconciled,
     _reconcile_nowpayments, _reconcile_sepay, _reconcile_payos
<1> QED
  BY <1>1, <1>2, <1>3

LEMMA NextTypes == IInv /\ TypeOK /\ Backing /\ [Next]_vars => TypeOK'
<1> SUFFICES ASSUME IInv, TypeOK, Backing, [Next]_vars PROVE TypeOK'
  OBVIOUS
<1>1. Shapes'
  BY NextStep DEF IInv
<1>2. ASSUME NEW i \in Intents PROVE intent'[i] \in Intent \cup {NoIntent}
  BY IntentMoves, MovesType
<1>3. intent' \in [Intents -> Intent \cup {NoIntent}]
  BY <1>1, <1>2 DEF Shapes
<1> QED
  BY <1>1, <1>3, RailType, JournalType, PayosType DEF TypeOK, Shapes, Resolutions

LEMMA InitTypes == Init => TypeOK /\ Backing
<1> SUFFICES ASSUME Init PROVE TypeOK /\ Backing
  OBVIOUS
<1>1. rail \in Rail
  BY SharingAssumption, BoundsAssumption DEF Init, Rail
<1>2. rail.current \in Destinations
  BY <1>1 DEF Rail
<1>3. Retired \subseteq Intent
  BY <1>2, RowType DEF Retired
<1>4. intent \in [Intents -> Intent \cup {NoIntent}]
  BY <1>3 DEF Init
<1>5. \A i \in Intents : intent[i].status # "paid"
  BY DEF Init, Retired, Row, NoIntent, None
<1>6. TypeOK
  BY <1>1, <1>4 DEF Init, TypeOK
<1>7. Backing
  BY <1>5 DEF Init, Backing, Backed, Asked
<1> QED
  BY <1>6, <1>7

-----------------------------------------------------------------------------
(* A transfer or a payment that was made stays what it is. *)
LEMMA OutsideStays ==
  ASSUME IInv, [Next]_vars
  PROVE  /\ \A t \in Transfers : transfer[t] = NoTransfer \/ transfer'[t] = transfer[t]
         /\ \A p \in Payments : payment[p] = NoPayment \/ payment'[p] = payment[p]
<1>1. CASE \E t \in Transfers, code \in Codes, amount \in Amounts, d \in Destinations :
             bank_transfer(t, code, amount, d)
  BY <1>1 DEF bank_transfer, IInv, Shapes
<1>2. CASE \E p \in Payments, i \in Intents, kind \in {"full", "underpaid", "foreign"} :
             crypto_payment(p, i, kind)
  BY <1>2 DEF crypto_payment, IInv, Shapes
<1>3. CASE UNCHANGED <<transfer, payment>>
  BY <1>3
<1>4. \/ UNCHANGED <<transfer, payment>>
      \/ \E t \in Transfers, code \in Codes, amount \in Amounts, d \in Destinations :
           bank_transfer(t, code, amount, d)
      \/ \E p \in Payments, i \in Intents, kind \in {"full", "underpaid", "foreign"} :
           crypto_payment(p, i, kind)
  BY DEF Next, vars, create_deposit, cancel_deposit, age, deposit_expire_job, Write, Pays,
     handle_sepay_webhook, handle_webhook, update_config, assign_unmatched_transfer,
     dismiss_unmatched_transfer, _credit_standing_code, handle_nowpayments_ipn,
     reconcile_intent, reconcile_lost, apply_reconciled, _reconcile_nowpayments,
     _reconcile_sepay, _reconcile_payos
<1> QED
  BY <1>1, <1>2, <1>3, <1>4

LEMMA PaymentMade ==
  ASSUME IInv, NEW p \in Payments, NEW i \in Intents, payment[p].invoice = i
  PROVE  payment[p] \in Payment /\ payment[p] # NoPayment
  BY NoneAssumption DEF IInv, Shapes, NoPayment

LEMMA AskedNext ==
  ASSUME IInv, Backing, [Next]_vars, NEW i \in Intents
  PROVE  Asked(i)'
<1>1. \A p \in asked'[i] : p \in asked[i] \/ payment[p].invoice = i
  <2>1. asked \in [Intents -> SUBSET Payments]
    BY AskedTyped
  <2>2. ASSUME NEW j \in Intents, NEW p \in Payments, _reconcile_nowpayments(j, p)
        PROVE  \A q \in asked'[i] : q \in asked[i] \/ payment[q].invoice = i
    BY <2>1, <2>2 DEF _reconcile_nowpayments
  <2>3. ASSUME NEW j \in Intents, NEW S, asked' = [asked EXCEPT ![j] = S], S \subseteq asked[j]
        PROVE  \A q \in asked'[i] : q \in asked[i]
    BY <2>1, <2>3
  <2>4. ASSUME NEW j \in Intents, NEW p \in Payments, apply_reconciled(j, p)
        PROVE  \A q \in asked'[i] : q \in asked[i]
    BY <2>1, <2>4 DEF apply_reconciled
  <2>5. ASSUME NEW j \in Intents, reconcile_lost(j) PROVE \A q \in asked'[i] : q \in asked[i]
    BY <2>1, <2>5 DEF reconcile_lost
  <2>6. CASE UNCHANGED asked
    BY <2>6
  <2>7. \/ UNCHANGED asked
        \/ \E j \in Intents, p \in Payments : _reconcile_nowpayments(j, p)
        \/ \E j \in Intents, p \in Payments : apply_reconciled(j, p)
        \/ \E j \in Intents : reconcile_lost(j)
    BY DEF Next, vars, create_deposit, cancel_deposit, age, deposit_expire_job, Write, Pays,
       bank_transfer, crypto_payment, handle_sepay_webhook, handle_webhook, update_config,
       assign_unmatched_transfer, dismiss_unmatched_transfer, _credit_standing_code,
       handle_nowpayments_ipn, reconcile_intent, _reconcile_sepay, _reconcile_payos
  <2> QED
    BY <2>2, <2>4, <2>5, <2>6, <2>7
<1>2. \A p \in asked[i] : payment[p].invoice = i
  BY DEF Backing, Asked
<1>3. \A p \in asked'[i] : p \in Payments
  BY NextStep DEF IInv, Shapes
<1> QED
  BY <1>1, <1>2, <1>3, PaymentMade, OutsideStays DEF Asked

(* A paid intent stays as it is, and what came in for it too. *)
LEMMA BackedStays ==
  ASSUME IInv, TypeOK, Backing, [Next]_vars, NEW i \in Intents, intent[i].status = "paid"
  PROVE  Backed(i)'
<1>1. intent'[i] = intent[i] /\ Backed(i)
  BY PaidStays DEF Backing
<1>2. ASSUME intent[i].provider = "sepay"
      PROVE  (Matches(intent[i].by, i) /\ intent[i].paid = intent[i].amount)'
  <2>1. intent[i].by \in Transfers
    BY <1>2 DEF IInv, IntentInv
  <2>2. transfer[intent[i].by] # NoTransfer
    BY <1>1, <1>2 DEF Backed, Matches, NoTransfer, None
  <2>3. transfer'[intent[i].by] = transfer[intent[i].by]
    BY <2>1, <2>2, OutsideStays
  <2> QED
    BY <1>1, <1>2, <2>3 DEF Backed, Matches
<1>3. ASSUME intent[i].provider = "nowpayments"
      PROVE  /\ payment'[intent[i].bound] = [invoice |-> i, kind |-> "full"]
             /\ intent'[i].paid = intent'[i].amount
  <2>1. intent[i].bound \in Payments
    BY <1>3 DEF IInv, IntentInv
  <2>2. payment[intent[i].bound] = [invoice |-> i, kind |-> "full"]
    BY <1>1, <1>3 DEF Backed
  <2>3. payment[intent[i].bound] # NoPayment
    BY <2>2 DEF NoPayment, None
  <2> QED
    BY <1>1, <1>3, <2>1, <2>2, <2>3, OutsideStays DEF Backed
<1>4. ASSUME intent[i].provider = "payos", intent[i].paid \in Nat
      PROVE  intent'[i].paid <= Received(i)'
  <2>1. IInv'
    BY NextStep
  <2>2. Received(i) <= Received(i)' /\ Received(i)' \in Nat
    BY <2>1, ReceivedGrows, OutsideStays
  <2>3. Received(i) \in Nat
    BY ReceivedType
  <2> QED
    BY <1>1, <1>4, <2>2, <2>3 DEF Backed
<1>5. intent[i].paid \in Nat
  BY UnpaidRow DEF Intent
<1> QED
  BY <1>1, <1>2, <1>3, <1>4, <1>5 DEF Backed

(* An intent is paid by what has come in for it. *)
LEMMA PaidFields ==
  ASSUME NEW row \in Intent, NEW amount, NEW t, NEW x
  PROVE  /\ apply_deposit_paid(row, amount, t).paid = amount
         /\ apply_deposit_paid(row, amount, t).by = t
         /\ apply_deposit_paid(row, amount, t).amount = row.amount
         /\ apply_deposit_paid(row, amount, t).dest = row.dest
         /\ apply_deposit_paid(row, amount, t).bound = row.bound
         /\ apply_deposit_paid(row, amount, t).provider = row.provider
         /\ [apply_deposit_paid(row, amount, t) EXCEPT !.id = x].paid = amount
         /\ [apply_deposit_paid(row, amount, t) EXCEPT !.id = x].by = t
         /\ [apply_deposit_paid(row, amount, t) EXCEPT !.id = x].amount = row.amount
         /\ [apply_deposit_paid(row, amount, t) EXCEPT !.id = x].dest = row.dest
         /\ [apply_deposit_paid(row, amount, t) EXCEPT !.id = x].provider = row.provider
  BY DEF apply_deposit_paid, Intent

LEMMA BackedNew ==
  ASSUME IInv, TypeOK, Backing, [Next]_vars, NEW i \in Intents,
         intent[i].status # "paid", intent'[i].status = "paid"
  PROVE  Backed(i)'
<1> DEFINE new == intent'[i]
<1>1. Moves(i, new)
  BY IntentMoves
<1>2. new # intent[i]
  OBVIOUS
<1>3. ~Opened(i, new)
  <2>1. \A a, p, amount : Row(p, a, amount, rail.current).status = "pending"
    BY DEF Row
  <2> QED
    BY <2>1 DEF Opened
<1>4. ~Touched(i, new)
  <2>1. intent[i] \in Intent \/ intent[i].status \notin Unpaid
    BY UnpaidRow
  <2>2. ASSUME intent[i] \in Intent, NEW status \in Unpaid,
               new = [intent[i] EXCEPT !.status = status]
        PROVE  FALSE
    BY <2>2 DEF Intent, Unpaid
  <2>3. ASSUME intent[i] \in Intent, new = [intent[i] EXCEPT !.aged = TRUE]
        PROVE  FALSE
    BY <2>3 DEF Intent
  <2> QED
    BY <2>1, <2>2, <2>3 DEF Touched
<1>5. CASE PaidByBank(i, new)
  <2>1. PICK t \in Transfers, x \in Ids :
          /\ Matches(t, i)
          /\ new = [apply_deposit_paid(intent[i], intent[i].amount, t) EXCEPT !.id = x]
    BY <1>5 DEF PaidByBank
  <2>2. intent[i] \in Intent /\ intent[i].provider = "sepay"
    BY <1>5, UnpaidRow DEF PaidByBank
  <2>3. /\ new.paid = intent[i].amount /\ new.by = t /\ new.amount = intent[i].amount
        /\ new.dest = intent[i].dest /\ new.provider = "sepay"
    BY <2>1, <2>2, PaidFields
  <2>4. transfer'[t] = transfer[t]
    BY <2>1, OutsideStays DEF Matches, NoTransfer, None
  <2> QED
    BY <2>1, <2>3, <2>4 DEF Backed, Matches
<1>6. CASE PaidByLink(i, new)
  <2>1. PICK t \in Transfers, amount \in Nat :
          amount <= Received(i) /\ new = apply_deposit_paid(intent[i], amount, t)
    BY <1>6 DEF PaidByLink
  <2>2. intent[i] \in Intent /\ intent[i].provider = "payos"
    BY <1>6, UnpaidRow DEF PaidByLink
  <2>3. new.paid = amount /\ new.provider = "payos"
    BY <2>1, <2>2, PaidFields
  <2>4. IInv'
    BY NextStep
  <2>5. Received(i) <= Received(i)' /\ Received(i)' \in Nat
    BY <2>4, ReceivedGrows, OutsideStays
  <2>6. Received(i) \in Nat
    BY ReceivedType
  <2>7. new.paid <= Received(i)'
    BY <2>1, <2>3, <2>5, <2>6
  <2> QED
    BY <2>3, <2>7 DEF Backed
<1>7. CASE PaidByCoin(i, new)
  <2>1. PICK p \in Payments :
          payment[p].invoice = i /\ new = _try_credit_nowpayments_finished(intent[i], p)
    BY <1>7 DEF PaidByCoin
  <2> DEFINE bound == [intent[i] EXCEPT !.bound = p]
  <2>2. intent[i] \in Intent /\ intent[i].provider = "nowpayments"
    BY <1>7 DEF PaidByCoin, TypeOK, NoIntent, Row, None
  <2>3. /\ bound.bound = p /\ bound.amount = intent[i].amount
        /\ bound.provider = "nowpayments" /\ bound.status = intent[i].status
    BY <2>2 DEF Intent
  <2>4. bound \in Intent
    BY <2>2, IntentFields
  <2> HIDE DEF bound
  <2>5. /\ payment[p].kind = "full"
        /\ new = apply_deposit_paid(bound, intent[i].amount, None)
    BY <2>1, <2>3 DEF _try_credit_nowpayments_finished, bound
  <2>6. /\ new.bound = p /\ new.paid = intent[i].amount /\ new.amount = intent[i].amount
        /\ new.provider = "nowpayments"
    BY <2>3, <2>4, <2>5, PaidFields
  <2>7. payment[p] = [invoice |-> i, kind |-> "full"] /\ payment'[p] = payment[p]
    BY <2>1, <2>5, PaymentMade, OutsideStays DEF Payment
  <2> QED
    BY <2>6, <2>7 DEF Backed
<1> QED
  BY <1>1, <1>2, <1>3, <1>4, <1>5, <1>6, <1>7 DEF Moves

LEMMA NextBacking == IInv /\ TypeOK /\ Backing /\ [Next]_vars => Backing'
<1> SUFFICES ASSUME IInv, TypeOK, Backing, [Next]_vars, NEW i \in Intents
             PROVE  Backed(i)' /\ Asked(i)'
  BY DEF Backing
<1>1. Backed(i)'
  <2>1. intent'[i].status # "paid" => Backed(i)'
    BY DEF Backed
  <2> QED
    BY <2>1, BackedStays, BackedNew
<1> QED
  BY <1>1, AskedNext

LEMMA TypesInvariant == Spec => [](TypeOK /\ Backing)
<1> QED
  BY InitTypes, NextTypes, NextBacking, Invariant, PTL DEF Spec

(* Every handler leaves the rows of the intents, the journal, the standing *)
(* credits and the rail configuration well formed.                         *)
THEOREM DepositTypes == Spec => []TypeOK
<1> QED
  BY TypesInvariant, PTL

(* Whatever a webhook, a reconciliation or an admin's call credits for an  *)
(* intent has come in for it: a transfer with its code, its amount and its *)
(* beneficiary, a finished payment in full, or money through its link.     *)
THEOREM PaidIsBacked == Spec => []IntentBacked
<1>1. TypeOK /\ Backing => IntentBacked
  <2> SUFFICES ASSUME TypeOK, Backing, NEW i \in Intents, intent[i].status = "paid"
               PROVE  CASE intent[i].provider = "sepay" ->
                             Matches(intent[i].by, i) /\ intent[i].paid = intent[i].amount
                        [] intent[i].provider = "nowpayments" ->
                             /\ payment[intent[i].bound] = [invoice |-> i, kind |-> "full"]
                             /\ intent[i].paid = intent[i].amount
                        [] intent[i].provider = "payos" -> intent[i].paid <= Received(i)
    BY DEF IntentBacked
  <2>1. intent[i].provider \in {"sepay", "nowpayments", "payos"}
    BY UnpaidRow DEF Intent
  <2> QED
    BY <2>1 DEF Backing, Backed
<1> QED
  BY <1>1, TypesInvariant, PTL
=============================================================================
