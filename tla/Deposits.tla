------------------------------- MODULE Deposits -------------------------------
(***************************************************************************)
(* Money in: deposit requests (intents), the bank transfers and crypto     *)
(* payments that pay them, and the two channels by which the service       *)
(* learns of a payment (payments/service.py): a webhook, which may be      *)
(* late, repeated or lost, and a reconciliation that asks the provider.    *)
(*                                                                         *)
(* A handler locks the intent (or the journal row), decides and commits    *)
(* once: one action.  Only the reconciliation of a crypto deposit is split:*)
(* it lets go of the lock while it asks the provider.                      *)
(*                                                                         *)
(* The bank's provider (SePay) names a transfer twice: webhooks carry an   *)
(* integer, the API lists UUIDs.  Everything unique in the code is unique  *)
(* by that name.  "shared" tells whether both channels use one name.       *)
(***************************************************************************)
EXTENDS Integers, FiniteSets, Functions

CONSTANTS
  Accounts,
  Intents,        \* deposit requests that may be made
  Legacy,         \* the intents of the retired provider PayOS
  Transfers,      \* bank transfers that may be made
  Payments,       \* crypto payments that may be made
  Destinations,   \* bank account numbers of the platform
  Amounts,
  Sharing,        \* whether webhook and API name a transfer alike
  CreatedAt,      \* the order in which requests are made
  PendingBatch,   \* how many pending requests a pass of the job lists per query,
  RetainedBatch,  \* and how many expired or cancelled ones
  MaxRailChanges  \* bound: changes of the rail configuration

ASSUME LegacyAssumption == Legacy \subseteq Intents
ASSUME AmountsAssumption == Amounts \subseteq Nat \ {0}
ASSUME FiniteAssumption == IsFiniteSet(Transfers)
ASSUME SharingAssumption == Sharing \subseteq BOOLEAN
ASSUME BoundsAssumption == MaxRailChanges \in Nat
ASSUME BatchesAssumption ==
  CreatedAt \in [Intents -> Nat] /\ {PendingBatch, RetainedBatch} \subseteq Nat \ {0}

VARIABLES
  rail,      \* deposit_rail_config
  intent,    \* deposit_intents made by a request
  standing,  \* deposit_intents made by _credit_standing_code, by their sepay_transaction_id
  journal,   \* sepay_webhook_events, by transaction_id: the resolution of each row
  payos,     \* payos_webhook_events: the transfers whose webhook has arrived
  transfer,  \* what the bank knows of each transfer
  payment,   \* what the crypto provider knows of each payment
  asked      \* the finished payments a running reconciliation has fetched

vars == <<rail, intent, standing, journal, payos, transfer, payment, asked>>

-----------------------------------------------------------------------------
None == "none"

ASSUME NoneAssumption == None \notin Transfers \cup Payments \cup Intents

(* Names of transfers: one per channel, or the same for both.              *)
Ids == Transfers \X {"webhook", "api"}
Id(t, channel) == IF rail.shared THEN <<t, "webhook">> ELSE <<t, channel>>
Unnamed == <<None, None>>

(* What the sender wrote: the code of an intent, the standing code of an   *)
(* account, nothing of use; or the transfer was made through a PayOS link. *)
Nothing == <<"nothing", None>>
Codes == ({"intent", "link"} \X Intents) \cup ({"account"} \X Accounts) \cup {Nothing}

Unpaid == {"pending", "expired", "cancelled"}

(* paid: what was credited.  by: the transfer it was credited for, and id  *)
(* the name it came under (sepay_reference, sepay_transaction_id).  bound: *)
(* now_payment_id.  aged: past the retention of the reconciliation job.    *)
Intent == [ provider : {"sepay", "nowpayments", "payos"}, account : Accounts, amount : Amounts,
            dest : Destinations, status : Unpaid \cup {"paid"}, aged : BOOLEAN,
            paid : Nat, by : Transfers \cup {None}, id : Ids \cup {Unnamed},
            bound : Payments \cup {None} ]

Row(p, a, amount, dest) ==
  [ provider |-> p, account |-> a, amount |-> amount, dest |-> dest, status |-> "pending",
    aged |-> FALSE, paid |-> 0, by |-> None, id |-> Unnamed, bound |-> None ]
NoIntent == [Row(None, None, 0, None) EXCEPT !.status = None]

Transfer == [code : Codes, amount : Amounts, dest : Destinations]
NoTransfer == [code |-> <<None, None>>, amount |-> 0, dest |-> None]
Payment == [invoice : Intents, kind : {"full", "underpaid", "foreign"}]
NoPayment == [invoice |-> None, kind |-> None]
Credit == [account : Accounts, by : {"code", "admin"}]
NoCredit == [account |-> None, by |-> None]
Rail == [ on : SUBSET {"sepay", "nowpayments"}, current : Destinations,
          previous : SUBSET Destinations, shared : BOOLEAN, changes : 0..MaxRailChanges ]

TypeOK ==
  /\ rail \in Rail
  /\ intent \in [Intents -> Intent \cup {NoIntent}]
  /\ standing \in [Ids -> Credit \cup {NoCredit}]
  /\ journal \in [Ids -> {None, "open", "credited", "dismissed"}]
  /\ payos \subseteq Transfers
  /\ transfer \in [Transfers -> Transfer \cup {NoTransfer}]
  /\ payment \in [Payments -> Payment \cup {NoPayment}]
  /\ asked \in [Intents -> SUBSET Payments]

-----------------------------------------------------------------------------
(* Intents made before PayOS was retired.                                  *)
Retired == {Row("payos", a, n, rail.current) : a \in Accounts, n \in Amounts}

Init ==
  /\ \E on \in SUBSET {"sepay", "nowpayments"}, d \in Destinations, shared \in Sharing :
       rail = [on |-> on, current |-> d, previous |-> {}, shared |-> shared, changes |-> 0]
  /\ \E old \in SUBSET Legacy :
       intent \in [Intents -> {NoIntent} \cup Retired]
       /\ \A i \in Intents : intent[i] # NoIntent <=> i \in old
  /\ standing = [x \in Ids |-> NoCredit]
  /\ journal = [x \in Ids |-> None]
  /\ payos = {}
  /\ transfer = [t \in Transfers |-> NoTransfer]
  /\ payment = [p \in Payments |-> NoPayment]
  /\ asked = [i \in Intents |-> {}]

Write(i, row) ==
  /\ intent' = [intent EXCEPT ![i] = row]
  /\ UNCHANGED <<rail, standing, payos, transfer, payment, asked>>

(* apply_deposit_paid: the wallet grows by the amount, the ledger gets its *)
(* row and the intent is paid, in the caller's transaction.                *)
(* Mutant: books the difference to what was asked for. *)
PaidDifference(row, amount, t) ==
  [row EXCEPT !.status = "paid", !.paid = amount - row.amount, !.by = t]

apply_deposit_paid(row, amount, t) ==
  [row EXCEPT !.status = "paid", !.paid = amount, !.by = t]

-----------------------------------------------------------------------------
(* Requests.  An intent is committed when the provider has answered.       *)
create_deposit(i, a, p, amount) ==
  /\ intent[i] = NoIntent
  /\ \A j \in Intents : intent[j] # NoIntent => CreatedAt[j] < CreatedAt[i]
  /\ p \in rail.on
  /\ Write(i, Row(p, a, amount, rail.current))
  /\ UNCHANGED journal

(* Mutant: does not look at the status. *)
CancelAny(i) ==
  /\ intent[i].status \notin {None, "cancelled"}
  /\ Write(i, [intent[i] EXCEPT !.status = "cancelled"])
  /\ UNCHANGED journal

cancel_deposit(i) ==
  /\ intent[i].status = "pending"
  /\ Write(i, [intent[i] EXCEPT !.status = "cancelled"])
  /\ UNCHANGED journal

deposit_expire_job ==
  /\ \E due \in SUBSET {i \in Intents : intent[i].status = "pending"} :
       /\ due # {}
       /\ intent' = [i \in Intents |->
                       IF i \in due THEN [intent[i] EXCEPT !.status = "expired"] ELSE intent[i]]
  /\ UNCHANGED <<rail, standing, journal, payos, transfer, payment, asked>>

(* The retention of the reconciliation job ends for an intent.             *)
age(i) ==
  /\ intent[i].status \in {"expired", "cancelled"} /\ ~intent[i].aged
  /\ Write(i, [intent[i] EXCEPT !.aged = TRUE])
  /\ UNCHANGED journal

-----------------------------------------------------------------------------
(* update_config: a rail on or off, another beneficiary (the old one stays *)
(* accepted), or old beneficiaries dropped from the list.                  *)
Accepted(d) == d = rail.current \/ d \in rail.previous

update_config ==
  /\ rail.changes < MaxRailChanges
  /\ \/ \E p \in {"sepay", "nowpayments"} :
          rail' = [rail EXCEPT !.on = IF p \in @ THEN @ \ {p} ELSE @ \cup {p}, !.changes = @ + 1]
     \/ \E d \in Destinations \ {rail.current} :
          rail' = [rail EXCEPT !.current = d, !.changes = @ + 1,
                               !.previous = (@ \cup {rail.current}) \ {d}]
     \/ \E d \in rail.previous : rail' = [rail EXCEPT !.previous = @ \ {d}, !.changes = @ + 1]
  /\ UNCHANGED <<intent, standing, journal, payos, transfer, payment, asked>>

-----------------------------------------------------------------------------
(* The outside: people send money, with the code they were given, another  *)
(* one or none, to the number they were shown or an older one.             *)
bank_transfer(t, code, amount, d) ==
  /\ transfer[t] = NoTransfer
  /\ code[1] = "intent" => intent[code[2]].provider = "sepay"
  /\ code[1] = "link" => intent[code[2]].provider = "payos" /\ d = rail.current
  /\ transfer' = [transfer EXCEPT ![t] = [code |-> code, amount |-> amount, dest |-> d]]
  /\ UNCHANGED <<rail, intent, standing, journal, payos, payment, asked>>

(* A payment of an invoice has finished: in full, short, or in a currency  *)
(* that is none of ours.                                                   *)
crypto_payment(p, i, kind) ==
  /\ payment[p] = NoPayment
  /\ intent[i].provider = "nowpayments"
  /\ payment' = [payment EXCEPT ![p] = [invoice |-> i, kind |-> kind]]
  /\ UNCHANGED <<rail, intent, standing, journal, payos, transfer, asked>>

-----------------------------------------------------------------------------
(* The bank's webhook.  Its row in the journal is inserted first, in the   *)
(* same transaction: a repeated delivery finds it and stops.  What credits *)
(* nobody stays in the journal with a null resolution.                     *)
Named(x) == {i \in Intents : intent[i].id = x}

(* Mutant: any amount will do. *)
PayableAnyAmount(i, t) ==
  transfer[t].dest = intent[i].dest /\ intent[i].status \in Unpaid

Payable(i, t) ==
  /\ transfer[t].dest = intent[i].dest
  /\ intent[i].status \in Unpaid
  /\ transfer[t].amount = intent[i].amount

(* sepay_transaction_id is a unique column.                                *)
Free(x) == Named(x) = {} /\ standing[x] = NoCredit

(* Mutant: sepay_transaction_id stays empty. *)
PaysUnnamed(i, t, x) ==
  Free(x) /\ Write(i, apply_deposit_paid(intent[i], intent[i].amount, t))

Pays(i, t, x) ==
  /\ Free(x)
  /\ Write(i, [apply_deposit_paid(intent[i], intent[i].amount, t) EXCEPT !.id = x])

(* A transfer with a standing code becomes a paid intent of its own.       *)
_credit_standing_code(x, a, by) ==
  /\ Free(x)
  /\ standing' = [standing EXCEPT ![x] = [account |-> a, by |-> by]]
  /\ UNCHANGED <<rail, intent, payos, transfer, payment, asked>>

handle_sepay_webhook(t) ==
  LET x == Id(t, "webhook")
      code == transfer[t].code
      mine == Accepted(transfer[t].dest)
  IN  /\ code[1] \in {"intent", "account", "nothing"}
      /\ journal[x] = None
      /\ journal' = [journal EXCEPT ![x] = "open"]
      /\ \/ mine /\ code[1] = "account" /\ _credit_standing_code(x, code[2], "code")
         \/ mine /\ code[1] = "intent" /\ Payable(code[2], t) /\ Pays(code[2], t, x)
         \/ /\ ~mine \/ code = Nothing \/ (code[1] = "intent" /\ ~Payable(code[2], t))
            /\ UNCHANGED <<rail, intent, standing, payos, transfer, payment, asked>>

(* The admin's queue of incoming transfers that nothing has credited.      *)
(* Mutant: only the resolution counts. *)
FilterByResolution(x) == journal[x] = "open"

_unmatched_filter(x) == journal[x] = "open" /\ Free(x)

assign_unmatched_transfer(x, a) ==
  /\ _unmatched_filter(x)
  /\ Accepted(transfer[x[1]].dest)
  /\ journal' = [journal EXCEPT ![x] = "credited"]
  /\ _credit_standing_code(x, a, "admin")

dismiss_unmatched_transfer(x) ==
  /\ _unmatched_filter(x)
  /\ journal' = [journal EXCEPT ![x] = "dismissed"]
  /\ UNCHANGED <<rail, intent, standing, payos, transfer, payment, asked>>

(* Reconciliation with the bank's list, under the lock of the intent.  Two *)
(* transfers may match; which one is listed first is up to the bank.       *)
Matches(t, i) ==
  /\ transfer[t].code = <<"intent", i>>
  /\ transfer[t].amount = intent[i].amount /\ transfer[t].dest = intent[i].dest

_reconcile_sepay(i) ==
  \E t \in Transfers :
    LET x == Id(t, "api")
    IN  /\ Matches(t, i)
        /\ journal' = [journal EXCEPT ![x] = IF @ = None THEN "open" ELSE @]
        /\ Pays(i, t, x)

-----------------------------------------------------------------------------
(* The retired provider PayOS: a link per intent, one webhook per transfer.*)
Linked(i) == {t \in Transfers : transfer[t].code = <<"link", i>>}
Received(i) == SumFunctionOnSet([t \in Transfers |-> transfer[t].amount], Linked(i))

handle_webhook(t) ==
  LET i == transfer[t].code[2]
  IN  /\ transfer[t].code[1] = "link"
      /\ t \notin payos
      /\ payos' = payos \cup {t}
      /\ intent' = IF intent[i].status = "paid" THEN intent
                   ELSE [intent EXCEPT ![i] = apply_deposit_paid(@, transfer[t].amount, t)]
      /\ UNCHANGED <<rail, standing, journal, transfer, payment, asked>>

(* The provider reports a link as paid once what came in covers it; until  *)
(* then it may report that the link was cancelled or has expired.          *)
_reconcile_payos(i) ==
  /\ \/ /\ Received(i) >= intent[i].amount
        /\ \E t \in Linked(i) : Write(i, apply_deposit_paid(intent[i], Received(i), t))
     \/ /\ Received(i) < intent[i].amount
        /\ \E status \in {"cancelled", "expired"} :
             /\ intent[i].status # status
             /\ Write(i, [intent[i] EXCEPT !.status = status])
  /\ UNCHANGED journal

-----------------------------------------------------------------------------
(* Crypto.  The first finished payment of an invoice binds it, whether it  *)
(* is enough or not; only the bound payment can be credited.               *)
_try_credit_nowpayments_finished(row, p) ==
  IF payment[p].kind = "foreign" \/ row.bound \notin {None, p} THEN row
  ELSE LET bound == [row EXCEPT !.bound = p]
       IN  IF payment[p].kind = "full" /\ row.status # "paid"
           THEN apply_deposit_paid(bound, row.amount, None) ELSE bound

handle_nowpayments_ipn(p) ==
  LET i == payment[p].invoice
  IN  /\ payment[p] # NoPayment
      /\ _try_credit_nowpayments_finished(intent[i], p) # intent[i]
      /\ Write(i, _try_credit_nowpayments_finished(intent[i], p))
      /\ UNCHANGED journal

(* The reconciliation asks for the payments of the invoice, or for the one *)
(* that is bound, without the lock, and applies each under a fresh one.    *)
_reconcile_nowpayments(i, p) ==
  /\ p \notin asked[i]
  /\ payment[p].invoice = i /\ intent[i].bound \in {None, p}
  /\ asked' = [asked EXCEPT ![i] = @ \cup {p}]
  /\ UNCHANGED <<rail, intent, standing, journal, payos, transfer, payment>>

apply_reconciled(i, p) ==
  /\ p \in asked[i]
  /\ asked' = [asked EXCEPT ![i] = @ \ {p}]
  /\ intent' = [intent EXCEPT ![i] = IF @.status = "paid" THEN @
                                     ELSE _try_credit_nowpayments_finished(@, p)]
  /\ UNCHANGED <<rail, standing, journal, payos, transfer, payment>>

(* The process dies between its question and its write.                    *)
reconcile_lost(i) ==
  /\ asked[i] # {}
  /\ asked' = [asked EXCEPT ![i] = {}]
  /\ UNCHANGED <<rail, intent, standing, journal, payos, transfer, payment>>

-----------------------------------------------------------------------------
(* Mutant: asks for pending intents only. *)
ReconcilePending(i) ==
  /\ intent[i].status = "pending"
  /\ \/ intent[i].provider = "nowpayments" /\ \E p \in Payments : _reconcile_nowpayments(i, p)
     \/ intent[i].provider = "sepay" /\ _reconcile_sepay(i)
     \/ intent[i].provider = "payos" /\ _reconcile_payos(i)

reconcile_intent(i) ==
  /\ intent[i].status \in Unpaid
  /\ \/ intent[i].provider = "nowpayments" /\ \E p \in Payments : _reconcile_nowpayments(i, p)
     \/ intent[i].provider = "sepay" /\ _reconcile_sepay(i)
     \/ intent[i].provider = "payos" /\ _reconcile_payos(i)

(* An admin may ask for any intent.  The job has a query for what is       *)
(* pending, oldest first, and one for what has expired or been cancelled   *)
(* within the retention, newest first; each lists so many.  Crypto has     *)
(* queries of its own.  A rail that is off is left out of them.            *)
Retained(i) ==
  /\ intent[i].status \in Unpaid /\ ~intent[i].aged
  /\ intent[i].provider = "payos" \/ intent[i].provider \in rail.on

SameQuery(i, j) ==
  /\ Retained(j)
  /\ intent[i].provider = "nowpayments" <=> intent[j].provider = "nowpayments"
  /\ intent[i].status = "pending" <=> intent[j].status = "pending"

(* Mutant: both queries list the oldest first. *)
AheadOldestFirst(i) == {j \in Intents : SameQuery(i, j) /\ CreatedAt[j] < CreatedAt[i]}

Ahead(i) ==
  {j \in Intents : /\ SameQuery(i, j)
                   /\ IF intent[i].status = "pending" THEN CreatedAt[j] < CreatedAt[i]
                                                     ELSE CreatedAt[j] > CreatedAt[i]}

Watched(i) ==
  /\ Retained(i)
  /\ Cardinality(Ahead(i)) < IF intent[i].status = "pending" THEN PendingBatch ELSE RetainedBatch

deposit_reconcile_job(i) == Watched(i) /\ reconcile_intent(i)

(* A pass of the job asks for each payment of an invoice.                  *)
deposit_reconcile_job_asks(i, p) ==
  Watched(i) /\ intent[i].provider = "nowpayments" /\ _reconcile_nowpayments(i, p)

Next ==
  \/ \E i \in Intents, a \in Accounts, p \in {"sepay", "nowpayments"}, amount \in Amounts :
       create_deposit(i, a, p, amount)
  \/ \E i \in Intents : cancel_deposit(i) \/ age(i)
  \/ deposit_expire_job \/ update_config
  \/ \E t \in Transfers, code \in Codes, amount \in Amounts, d \in Destinations :
       bank_transfer(t, code, amount, d)
  \/ \E p \in Payments, i \in Intents, kind \in {"full", "underpaid", "foreign"} :
       crypto_payment(p, i, kind)
  \/ \E t \in Transfers : handle_sepay_webhook(t) \/ handle_webhook(t)
  \/ \E x \in Ids, a \in Accounts : assign_unmatched_transfer(x, a)
  \/ \E x \in Ids : dismiss_unmatched_transfer(x)
  \/ \E p \in Payments : handle_nowpayments_ipn(p)
  \/ \E i \in Intents : reconcile_intent(i) \/ reconcile_lost(i)
  \/ \E i \in Intents, p \in Payments : apply_reconciled(i, p)

Spec == Init /\ [][Next]_vars

(* The job runs every five minutes and asks for all it has listed.  It may *)
(* die between its question and its write, but not each time it gets there.*)
(* A request that stays pending is expired.                                *)
Fairness ==
  /\ \A i \in Intents :
       /\ WF_vars(deposit_reconcile_job(i))
       /\ WF_vars(deposit_expire_job /\ intent'[i].status = "expired")
  /\ \A i \in Intents, p \in Payments :
       WF_vars(deposit_reconcile_job_asks(i, p)) /\ SF_vars(apply_reconciled(i, p))

FairSpec == Spec /\ Fairness

-----------------------------------------------------------------------------
(* Everything a transfer has been credited for: an intent of the bank's    *)
(* rail, or a standing credit under one of its names.                      *)
Credits(t) ==
  {<<"intent", i>> : i \in {i \in Intents : intent[i].provider = "sepay" /\ intent[i].by = t}}
  \cup {<<"standing", x>> : x \in {x \in Ids : x[1] = t /\ standing[x] # NoCredit}}

(* An admin has assigned the transfer by its webhook row, and the          *)
(* reconciliation has booked it for an intent under its other name.        *)
TwoNames(t, c, d) ==
  /\ ~rail.shared
  /\ c = <<"standing", <<t, "webhook">>>> /\ standing[<<t, "webhook">>].by = "admin"
  /\ d[1] = "intent" /\ intent[d[2]].id = <<t, "api">>

(* A bank transfer is credited once, however often and in whatever order   *)
(* its webhook, the reconciliation and the admins come to it; a second     *)
(* time only where the provider has two names for it, and by hand.         *)
TransferCreditedOnce ==
  \A t \in Transfers : \A c, d \in Credits(t) : c = d \/ TwoNames(t, c, d) \/ TwoNames(t, d, c)

(* The admin's queue offers no transfer that has been credited, unless the *)
(* reconciliation credited it under its other name.                        *)
QueueIsUncredited ==
  \A x \in Ids : _unmatched_filter(x) =>
    \A c \in Credits(x[1]) : ~rail.shared /\ c[1] = "intent" /\ intent[c[2]].id = <<x[1], "api">>

(* What an intent has credited has come in for it: a transfer with its     *)
(* code, its amount and its beneficiary, a finished payment in full, or    *)
(* transfers through its link.                                             *)
IntentBacked ==
  \A i \in Intents : intent[i].status = "paid" =>
    CASE intent[i].provider = "sepay" -> Matches(intent[i].by, i) /\ intent[i].paid = intent[i].amount
      [] intent[i].provider = "nowpayments" ->
           /\ payment[intent[i].bound] = [invoice |-> i, kind |-> "full"]
           /\ intent[i].paid = intent[i].amount
      [] intent[i].provider = "payos" ->
           intent[i].paid <= Received(i)

(* A paid intent is never touched again: not by a late webhook, a stale    *)
(* reconciliation, the expiry or its owner.                                *)
PaidIsFinal == [][\A i \in Intents : intent[i].status = "paid" => intent'[i] = intent[i]]_vars

(* So many newer requests of its query have closed unpaid and are retained *)
(* that the job lists none older.                                          *)
CrowdedOut(i) ==
  /\ intent[i].status \in {"expired", "cancelled"}
  /\ Cardinality({j \in Intents : SameQuery(i, j) /\ CreatedAt[j] > CreatedAt[i]}) >= RetainedBatch

(* Money that was sent for an unpaid intent pays it though no webhook ever *)
(* arrives: a matching transfer, unless another payment was first, the     *)
(* retention ended or the rail was switched off; a crypto payment in full, *)
(* unless another payment of the invoice has bound the intent first, even  *)
(* one that was short.  Older requests that wait in the same query delay   *)
(* it, however many they are.  Newer ones can keep it from being found, but*)
(* only if the intent is crowded out again and again until its retention   *)
(* ends: if that ceases, the money is found.                               *)
MoneyIsFound ==
  \A i \in Intents :
    /\ \A t \in Transfers :
         (intent[i].status \in Unpaid /\ Matches(t, i))
           ~> (~Retained(i) \/ Credits(t) # {} \/ CrowdedOut(i))
    /\ \A p \in Payments :
         (intent[i].status \in Unpaid /\ payment[p] = [invoice |-> i, kind |-> "full"])
           ~> (~Retained(i) \/ intent[i].bound \notin {None, p} \/ CrowdedOut(i))
=============================================================================
