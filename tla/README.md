# A verification development of the marketplace

The repository is a marketplace for digital goods: a FastAPI service
(`src/marketplace-svc`) over PostgreSQL, a Next.js frontend that talks to it
through a signing proxy (`src/frontend`), and a scheduler that runs in one of
the service's processes.  A buyer pays from a wallet; the money of an order is
held in escrow until the order is settled; disputes divide it; sellers and
referrers withdraw what they earned.  Money comes in by bank transfer and
crypto payment; goods are bought from suppliers at the moment of sale; link
takedowns are carried out by a partner whom the service calls and who calls
back.  The modules here model that money path.

## 1. Inventory

| Part (under `src/marketplace-svc/src`) | State | Operations | Why it is hard |
|---|---|---|---|
| orders (`orders/service.py`, `admin_case.py`) | status, total, refunded amount, escrow deadline | six checkouts, provisioning, accept, deliver, confirm, admin release / refund / extend / retry | background provisioning against sweeps and admins; accept and deliver take no lock |
| stock of made-to-order packages (`orders/manual_stock.py`) | `manual_stock`, `stock_held` | take, use, put back | once and only once over cancellation and refund |
| wallets (`wallet/service.py`) | available and locked balance, ledger rows unique by type and reference | deduct, refund, release, top-up, debit, withdraw request / approve / reject / paid | a release and a refund do not collide in the index; a refund reference may be reused |
| tasks (`tasks/service.py`) | a status per task | update, pro-rata refund, delivery | rounding, concurrent webhooks |
| disputes (`disputes/service.py`) | case status, claims, remedies, offer and answer deadlines, review flag | some twenty operations of buyer, seller, marketplace and clock | four clocks that exclude each other; remedies by line; jobs that settle what they read earlier |
| settlement jobs (`scheduler.py`) | none of their own | escrow release, SLA, provision sweep, offer timeout, seller timeout, abandonment | run beside everything above |
| rewards (`affiliate/service.py`, `buyer_tiers/cashback.py`) | commissions, the affiliate fund | pay on settlement, take back on full refund, cap of a non-seller's withdrawals | five paths that pay, three that take back |
| books (`ledger/service.py`) | none | nightly equations | they are the code's own statement of correctness |
| deposits (`payments/service.py`) | intents, journals of webhooks, the rail configuration | request, cancel, expire, the webhooks of three providers, reconciliation of each rail, the admin's queue of unmatched transfers | two channels tell of one payment, each may be late, repeated or silent; the bank names a transfer differently in each |
| takedowns (`takedown/service.py`, `lifecycle.py`) | our status, the partner's status, the partner's order, the marketplace order that holds the money | create, price, accept, refuse, cancel, claim warranty, webhook, sync job | no lock across a call: answers overtake each other, get lost after the partner has acted, and meet webhooks |
| purchases from suppliers (`adapters/supplier.py`, `adapters/call_log.py`, `orders/service.py`) | a pending order, its lock, the dispatch marker, the account we keep with the supplier | provision, retry, expire, refund by hand | the purchase takes no idempotency key; task, sweep and admin collide on an order; processes die around the purchase |
| stock rows, scheduler leader, mail outbox, config approval, tickets, sessions, promotions | — | — | not modelled, see sections 6 and 7 |
| catalogue, storefront, content, search, notifications, analytics, frontend | — | — | single-row edits, reads and I/O; not planned |

Interaction is by shared rows.  A handler opens one session, usually locks the
order row (`SELECT … FOR UPDATE`), then the dispute, then wallets, and commits
once.  A crash before the commit leaves nothing; a retried call that was
already done returns its old result.  Eight places differ, and they are the
interesting ones:

1. provisioning holds the order's lock across the provider call, and those who
   find it locked skip it (`provision_pending_order`);
2. `accept_order` and `deliver_order` read without a lock and write later;
3. a pending order is committed before its provisioning is spawned, so the
   process may die in between;
4. a dispute job locks all its due orders in one query but commits after each,
   which releases all locks, and keeps the order objects it has read
   (`expire_on_commit=False`; a locking `db.get` does not repopulate a row that
   the session has already loaded);
5. the withdrawal decisions share the single `locked_balance` of a wallet;
6. the crypto reconciliation releases the intent's lock while it asks the
   provider, and validates again under a new one;
7. every takedown handler reads, calls the partner without a lock, and applies
   the answer under a lock taken afresh;
8. the marker of a purchase is committed on a session of its own, and the alert
   on a lost purchase is raised after the commit.

The properties that make each part correct are the invariants and temporal
formulas named below; `PROJECT.json` lists the hazards each is meant for.

## 2. Modules

| Module | What it is |
|---|---|
| `Escrow` | the money of an order through checkout, fulfilment, dispute and settlement, with wallets, fund, stock and the ledger rows of each order |
| `EscrowBooks` | the reconciliation job's equations as invariants, the stock account, and the mapping to the contract |
| `EscrowContract` | the abstract promise: pay, give part back, divide the rest once |
| `DisputeCase` | the clocks of a dispute, claims and remedies by line, and the dispute jobs as processes with stale snapshots |
| `Withdrawals` | requests, decisions and payouts over the layers of a wallet, and the cap on non-sellers |
| `Deposits` | money in: intents, transfers, crypto payments, the channels that tell of them, the admin's queue |
| `Takedown` | a request, the partner's orders with all statuses they have had, calls under way, webhooks, and the escrowed order; implements `EscrowContract` |
| `Provisioning` | a purchase from a supplier that takes no idempotency key: workers, slots, two sweeps, the marker, the alerts |
| `EscrowProofs`, `EscrowBooksProofs`, `DisputeProofs`, `WithdrawalProofs`, `DepositProofs`, `TakedownProofs`, `ProvisioningProofs` | the theorems about the module of that name |
| `SumLemmas` | sums over finite sets: what one changed term does to a sum, sums of non-negative terms, sums and subsets |
| `MCEscrow`, `MCDisputeCase`, `MCWithdrawals`, `MCDeposits`, `MCTakedown`, `MCProvisioning` | instances for TLC |

**Escrow.**  `order[o]` is the row of an order together with its ledger rows
(`hold`, `release`, `fee`, `subsidy`, `refunds[key]`, `cashback`, `commission`)
and its latest dispute (`open`, `case`, `answered`, `remedy`).  Because the
index makes (type, reference) unique, a ledger row is its amount, and 0 is "no
row"; the key of a refund is the suffix of its reference and, for a dispute's,
the number of the case.  `wallet`, `fund`, `stock` are balances;
`provisioning` are the orders whose row is locked by a provider call;
`inflight` the seller calls between read and write.  A handler is one action: a
guard, then `Commit(o, s)` of a pipeline of the primitives named as in the code
(`refund_escrow`, `release_escrow`, `Settle`, `finalize_dispute`, ...), each
mapping a transaction in progress to the next.  `clock` abstracts
`escrow_expires_at` to none / ahead / passed; `late` stands for both
`sla_hours` and the 15-minute provision deadline.  `LineKeys` are the
idempotency keys of remedies by line.

**DisputeCase.**  `case[o]` has the escrow clock in three stages (ahead,
passed, passed by the abandonment grace), the two deadlines, the flags the jobs
look at, the claimed and remedied items (a line with its replacement
generation), the lines given back (`gone`) and what each may refund (`cap`).
`refunded` is the column, `credited` the sum of the refund rows: they differ
only if a stale write loses an update.  `job[j]` is the batch of a job: whether
it still holds its locks, the orders to do and what it saw of them.
`job_aborts` is the rollback on an ineligible case: it expires the objects and
reading the next id then ends the run.

**Withdrawals.**  `request[r]` carries its ledger rows; `old` is the row
without a reference that the flow before balance layers booked at approval.
`Legacy` are the requests of that flow.  `moneyIn` and `moneyOut` sum the rows
that enter and leave the platform.

**Deposits.**  `intent[i]` is a row of `deposit_intents` made by a request,
`standing[x]` the paid intent that a transfer with an account's standing code
(or an admin's assignment) creates, and `journal[x]` the row of
`sepay_webhook_events` with its resolution.  The last two are indexed by the
*name* of a transfer, since everything unique in the code is unique by name:
`Ids` has one per transfer and channel, and `rail.shared` says whether the two
are the same.  `transfer` and `payment` are the outside: what people have sent,
to which beneficiary, with which code.  `intent[i].by` is a history variable,
the transfer an intent was credited for; properties use it, no guard does.
`CreatedAt` is the order in which requests are made.  The job asks for what its
queries list (`Watched`): the bank's and the crypto rail's have a list each of
pending requests, oldest first, and of closed ones within the retention, newest
first, with room for `PendingBatch` and `RetainedBatch` (30 and 20 in the code);
`Ahead(i)` are the requests listed before i.
`Payable` is the check of code, amount and beneficiary, `Pays` and
`_credit_standing_code` the two ways to credit, `_unmatched_filter` the admin's
queue.  `asked[i]` are the payments that a crypto reconciliation has fetched
and not yet applied: the code asks (`_reconcile_nowpayments`) without the lock.
The ledger row and the wallet of a credit are `paid`.

**Takedown.**  `request[r]` is the row with our status and the partner's;
`partner[o]` is the partner's order, external, as the repository's
`scripts/mock_takedown.py` plays it: the request whose code it carries and the
list of its statuses.  Webhook k of an order tells step k of that list, so
`heard` is the set of webhooks that have been handled, in any order; the rest
are late or lost.  `call[h]` is a handler between its read and its write:
`list`, `post` and `read` are the calls that can be made next, `apply` the
write.  `Lost` and `unreachable` are the answer that does not come, after or
before the partner has acted; `dies` ends a handler anywhere.  `order[r].by`
records who ended the holding of the money, for the properties only.

**Provisioning.**  `order[o]` is the row, with the background tasks spawned
for it (`tasks`), whether a purchase has been dispatched (`marked`, a row of
`provider_call_logs`) and whether staff has been told (`told`).  `slot[s]` is
what `_provision_slots` hands out: idle, or a worker with the step it is about
to take, `balance`, `mark`, `buy`, `compare`, `apply` and, after the commit,
`alert`.  The row lock is not a variable: a worker `Locks` its order from the
first step to `apply`.  `sweep[j]` is a run of `provision_sweep_job` in a
process: it expires orders one by one, then lists what to retry and works
through the list, one worker at a time (`by` is the run a worker belongs to).
`bought` and `account` are the supplier's.  `slips` is a history of what may
keep a loss from being told; no guard reads it.  Crashes are `task_lost`,
`task_dies` and `sweep_dies`, rollbacks `provision_error`.  In `Escrow` the
same handlers are one action with the outcome of the call, beside everything
else that happens to an order; here they are split where a process can die.

What is abstracted: amounts are small numbers, and a percentage is one of a
set, chosen anew at each settlement (the code reads it then).  Promo rules,
eligibility for rewards, tiers, limits per day, mails, notifications, log rows
and chat messages are left out; an empty fund gives the case in which no
commission is paid.  A call repeated with its idempotency key changes nothing
and is a stuttering step.  In `DisputeCase` replacement stock never runs out
and lines do not expire; a crash of a job has the same effect as `job_aborts`.

## 3. Runs

| Run | Instance | Shows |
|---|---|---|
| `escrow` | one order of any of the six kinds, a task order with three tasks, price 4, discount 0 or 1, fee 0 or 50 %, two disputes, one extension, no concurrent seller call | `TypeOK`, `EscrowNotOverspent`, `RewardsOnlyOnSettledSales`, `CaseFreezesEscrow`, `ClosedStaysClosed`, `UnattendedOrderSettles` |
| `escrow_shared` | two orders of any kind but tasks, sharing wallets and one unit of stock, one seller call in flight, one dispute each | `OrderBooks`, `PlatformBooks`, `StockConservation`, `KeepsContract` (implementation of `EscrowContract`) |
| `escrow_task_books` | task orders | finding: `OrderBooks` is violated |
| `escrow_seller_race` | two seller calls in flight | finding: `EscrowNotOverspent` is violated |
| `dispute_case` | one order, two lines, two disputes, one extension | `TypeOK`, `SellerGetsTheRest`, `LinesFitEscrow`, `OfferCoversClaims`, `CasesEnd` |
| `dispute_batches` | two orders of two proxy lines, one dispute each, one extension | `JobsRespectPeople`, `OnlyOldViewsMisjudge` |
| `dispute_stale_batch` | two orders of two proxy lines | finding: `SellerGetsTheRest` is violated |
| `deposits` | an intent of any rail or of the retired one, two transfers, two crypto payments, two beneficiaries, one name or two, two changes of the rails; or two intents and one payment, with one place in each list of the job | `TypeOK`, `TransferCreditedOnce`, `QueueIsUncredited`, `IntentBacked`, `PaidIsFinal`, `MoneyIsFound` |
| `takedown` | one request, one call at a time, two orders at the partner, seven statuses each | `TypeOK`, `AcceptedOnce`, `PartnerEndsRequest`, `AcceptReachesPartner` |
| `takedown_overlap` | one request, two calls at a time, staff acting by hand, six statuses | `MoneyFollowsPartner`, `HeldMoneyIsWatched`, `KeepsContract` |
| `provisioning` | one order, two slots, two sweeps, one retry by an admin, price 3 for 2 units, charges 1 or 2, one top-up of the account | `GoodsOrMoney`, `BoughtOnce`, `LossIsReported`, `ChargedOrderEnds` |
| `withdrawals` | two accounts, two requests and one legacy request, two commissions, three fee policies | `TypeOK`, `LockedForOpenRequests`, `LockedMoneyGoesOneWay`, `NonSellersTakeOnlyCommission`, `PlatformBooks`, `DecisionsStand` |

**Bounds.**  Price 4 with a 50 % fee, 50 % cashback and a 60 % commission makes
most roundings differ from its exact value, admits two different partial
refunds and a rest, and gives the referrer less than the fee.  The fund starts
with 1, so a commission can fail to be paid.  Two disputes suffice for a refund
of one case to meet that of another; three tasks give a share that is rounded.
Orders interact only through wallets, fund and stock, so two of them show the
interference; two lines show a partial remedy.  In `DisputeCase` two orders are
the least batch with a "first commit" and a "later order", and two lines let one
of them be refunded while the other keeps its case open.  In `dispute_batches`
`BatchMatters` does not extend states in which an order has no more case to come
and no batch is running: nothing but a batch links two orders, and `dispute_case`
explores a single one.  `ExtensionMatters` keeps an extension only while a batch
has the order, and `WholeClaims` leaves claims of some lines to `dispute_case`.
In `Withdrawals`
amounts 1 and 2 let a gross amount of one request equal the net amount of
another, which is the case `_payout_booked` must tell apart.  `MaxCases`,
`MaxExtensions` and `MaxMoney` bound the length of a behaviour.  In `Deposits`
one intent and two transfers are enough for a second transfer with a code that
is used up, and for one transfer to come by two channels; two beneficiaries and
two changes let one be replaced and dropped while money is on its way.  The
constraint `OneRail` gives each behaviour money on one rail only (rails share
nothing but the count of pending intents and, SePay and PayOS, the queries of
the job) and keeps the other one's switch on; `PlainAmounts` leaves out amounts
that nothing compares, and `NamesAgree` one of two equal choices of names.  A
second intent matters for its place in the queries: with lists of one place, two
requests fill them, and `OnePayment` lets one of the two be paid.  In `Takedown` six
statuses are the longest path without a warranty claim and one more admits the
claim.  `OneMoves` lets the partner work on one of the orders it was made to
create; a second one that it prices as well is not explored there;
`Unattended` and `Plain` divide the rest between the two runs: staff acts by
hand in `takedown_overlap`, warranty claims happen in `takedown`.  `HeardMatters`
drops webhooks that change nothing: the state where it is still to come
can do all that the other can.  In `Provisioning` orders meet only in the slots
and on the account; one order with a top-up and a charge below the known cost
shows every disturbance of the comparison, and two sweeps are two processes
that both believe they lead.  Price 3 for 2 units makes a short delivery round;
the account is enough for a second purchase.  Symmetry is
used only where no liveness is checked in the run.  Deadlock checking is off:
a behaviour ends when every order is closed and the bounds are reached.

**Hypotheses of runs.**  `escrow_shared` has the constraint
`NoSellerOvertaken`: no order has left the status that a seller's call in flight
read.  The code does not guarantee it: finding 2 shows what follows where it
fails, and this run that nothing else is needed.  States past a violation of it
are not explored.  No other run has a hypothesis: in
`dispute_batches` the views of a job grow old as they do in the code, and
`OnlyOldViewsMisjudge` says which orders that leaves safe.

**Fairness.**  Time passes and the scheduler repeats its jobs, so clock ticks
and jobs are weakly fair, and a provider call ends (answer, rejection or error:
the HTTP client has a timeout).  `provision_sweep_job` is strongly fair because
it skips a row that retries may lock over and over: it runs every few minutes,
and a lock is held only for the length of a call.  Nothing is assumed of
buyers, sellers and admins, and no order of jobs.  `CasesEnd` excepts
cases under review and cases remedied in part: `docs/dispute-flow.md` hands
them to people.  Each case of a job is fair as part of `JobSteps(j)`, not on
its own: an order that makes a job fail in every run is outside the model.

In `Deposits` the reconciliation job runs every five minutes (`main.py`), so it
is weakly fair for each intent it selects; it may die between its question and
its write, but not each time, so `apply_reconciled` is strongly fair.  It is
fair only to what its lists hold at the time: to stand first once in a while is
not enough for the fairness to apply.  A request that stays pending is expired
(every ten minutes, its row being locked for the length of a call at most), which
is what empties the list of the pending ones.  No webhook, no customer and no admin is fair: `MoneyIsFound` rests on the job
alone.  In `Takedown` the sync job is strongly
fair (every two minutes, but a handler may be in its way), every call ends
because the HTTP client has a timeout, and a call may fail and a handler die,
but neither at every attempt.  The partner and its webhooks are not fair: what
is shown is that what the partner has done is learned, not that it acts.

In `Provisioning` time passes, a call ends by its timeout, and the job runs
every two minutes (`main.py`).  A retry gets a slot in its turn, since
`asyncio.Semaphore` is first come, first served (strongly fair).  The process
of the job may die, but not each time it is about to refund the same expired
order (strongly fair).  Background tasks are not fair: that a charged order
ends rests on the sweep's deadline.

## 4. Findings

1. `escrow_task_books`: `_sync_order_status` refunds the failed share of a task
   order under the bare reference `order-<id>`.  A later full refund by an admin
   uses the same reference, is taken for a repeat, and pays nothing, while the
   order is closed as refunded.
2. `escrow_seller_race`: overlapping `accept_order` / `deliver_order` calls
   overwrite the status of an order that has been settled meanwhile; the order
   is then refunded as well.
3. `dispute_stale_batch`: a dispute job settles a later order of its batch on
   the `refunded_amount` it selected, after an admin has refunded a line; the
   buyer is credited more than the order was worth.

The quotes they contradict are in `PROJECT.json`.

Nine more were met while modelling the other parts.
No run is spent on them; the properties name the exception where they have one,
and fail if it is taken out of them.

* *Two names of a transfer* (`TwoNames` in `TransferCreditedOnce`).  The bank's
  webhook has an integer id, its list has UUIDs.  A transfer that the
  reconciliation has booked for an intent stays in the admin's queue under its
  webhook id, and assigning it credits it again.  `marketplace-svc/ARCHITECTURE.md:120` and
  the docstring of `assign_unmatched_transfer` promise one credit.  Where the names
  are the same (`rail.shared`), the promise holds without exception.
* *A refusal and an acceptance of one quote* (`HeldMoneyIsWatched`).  The
  partner carries out a refusal; its answer is lost or still on its way; the
  buyer accepts.  The acceptance is refused, reading the order gives
  "rejected", which is final and not in `REFUND_ON`: the buyer's order stays
  processing and no job looks at it.  The comment in `forward_accept`
  (`takedown/service.py:289`) expects a refund there.
* *Two orders at the partner.*  The sync job may create a request a second time
  while the first creation is under way, or after a crash before `sync_error`
  was written.  `AcceptedOnce` shows that only one of them is ever carried out.
* *A request behind twenty newer ones* (`CrowdedOut` in `MoneyIsFound`).  The job
  lists the 20 newest closed requests of the bank, and of the crypto rail
  (`scheduler.py:1150`, `:1171`).  With more of them unpaid within the
  retention, an older one is never asked about, though
  `marketplace-svc/ARCHITECTURE.md:120` says that a closed crypto request is
  checked again "until `deposit_usdt_reconcile_retention_hours`"; its money is
  found by the webhook or by an admin only.  Pending requests are only delayed:
  their list is oldest first, and they expire.
* *An extension that comes too late* (`OnlyOldViewsMisjudge`).  An admin extends
  the escrow of an order that a running `dispute_abandonment_job` has selected,
  after its first commit; the job still sees the old deadline and abandons the
  case.
* *A short payment binds a crypto invoice*, and a full one that follows is not
  credited (exception in `MoneyIsFound`).
* *A transfer with a standing code whose webhook is lost* is found by no
  reconciliation, which asks for intents only (`MoneyIsFound` is about
  intents).
* *A second purchase of a marked order* (`BoughtOnce`).  Only the sweep's query
  looks at the marker.  An admin's retry, a task that has waited for a slot
  while a sweep's attempt failed, and an entry of the list that a sweep has read
  up front all buy an order again whose first purchase was sent and then rolled
  back or cut off.  `adapters/supplier.py:292` ("must never lead to a second
  purchase"), `scheduler.py:388` ("one with a marker is never bought again") and
  the comment on `PURCHASE_DISPATCHED_OPERATION` say otherwise.
* *A paid purchase refunded without a word* (`LossIsReported`).  The alert is
  raised after the commit and is lost with the process; a top-up, or a charge
  below the cost we know, between the two readings of the balance makes a
  purchase look as if it had not happened; an admin's refund, and the SLA job
  where it comes first, do not look at the marker.

## 5. Proofs

Proved by TLAPS for every value of the constants that satisfies the named
assumptions of the modules (amounts and bounds are natural numbers, rates are
percentages, `None` is no identifier, and orders, lines, accounts, requests and
commissions that are summed over are finite sets):

| Theorem | States | Hypotheses |
|---|---|---|
| `EscrowProofs!TypeCorrect` | `[]TypeOK` of `Escrow`: no wallet, fund, stock or amount becomes negative | `[]NoSellerOvertaken` |
| `EscrowProofs!NotOverspent` | `[]EscrowNotOverspent` | same |
| `EscrowBooksProofs!RewardsStand` | `[]RewardsOnlyOnSettledSales` | same |
| `EscrowBooksProofs!ClosedIsFinal` | `ClosedStaysClosed` | same |
| `EscrowBooksProofs!CaseFreezes` | `CaseFreezesEscrow` | same |
| `EscrowBooksProofs!StockConserved` | `[]StockConservation` | same |
| `EscrowBooksProofs!OnlyTasksFallShort` | the equations of `OrderBooks` for every kind of order, but that a task order may be closed as refunded with less than its price | same |
| `EscrowBooksProofs!MoneyConserved` | `[]Balance`: wallets and what the orders have left are what came in, for every kind of order | same |
| `EscrowBooksProofs!OrdersReconcile` | `[]OrderBooks` | same, no task orders |
| `EscrowBooksProofs!PlatformReconciles` | `[]PlatformBooks` of `EscrowBooks` | same, no task orders |
| `EscrowBooksProofs!ImplementsContract` | `KeepsContract`: `Escrow` implements `EscrowContract` | same, no task orders |
| `DisputeProofs!DisputeTypes` | `[]TypeOK` of `DisputeCase` | none |
| `DisputeProofs!OffersCover` | `[]OfferCoversClaims` | none |
| `DisputeProofs!LinesFit` | `[]LinesFitEscrow` | none |
| `DisputeProofs!FirstViewIsFresh` | `[]LockedViewsFresh`: as long as a job holds its locks, the refund it saw is the row's, and a clock it saw run out has not been set again | none |
| `DisputeProofs!OldViewsOnly` | `OnlyOldViewsMisjudge` | none |
| `DisputeProofs!SellerPaid` | `[]SellerGetsTheRest` | `[]LaterViewsFresh` |
| `DisputeProofs!TimersRespectPeople` | `JobsRespectPeople` | none |
| `WithdrawalProofs!WalletsStayTyped`, `!OneWay`, `!Decided` | `[]TypeOK`, `[]LockedMoneyGoesOneWay`, `DecisionsStand` | none |
| `WithdrawalProofs!LockedIsAskedFor` | `[]LockedForOpenRequests` | none |
| `WithdrawalProofs!CommissionCap` | `[]NonSellersTakeOnlyCommission` | none |
| `WithdrawalProofs!BooksBalance` | `[]PlatformBooks` of `Withdrawals` | none |
| `DepositProofs!DepositTypes` | `[]TypeOK` of `Deposits` | none |
| `DepositProofs!CreditedOnce`, `!QueueOffersUncredited`, `!PaidStaysPaid` | `[]TransferCreditedOnce` (with the exception it names), `[]QueueIsUncredited`, `PaidIsFinal` | none |
| `DepositProofs!PaidIsBacked` | `[]IntentBacked` | none |
| `TakedownProofs!TypeCorrect`, `!PartnerDecides`, `!MoneyIsWatched`, `!OneAcceptance` | `[]TypeOK`, `[]MoneyFollowsPartner`, `[]HeldMoneyIsWatched`, `[]AcceptedOnce` | none |
| `TakedownProofs!Contract` | `KeepsContract`: `Takedown` implements `EscrowContract` | none |
| `ProvisioningProofs!TypeCorrect`, `!NeverBoth`, `!OnePurchase`, `!LossTold` | `[]TypeOK`, `[]GoodsOrMoney`, `[]BoughtOnce`, `[]LossIsReported` | none |

With these, every invariant and every action property that a passing run checks
is a theorem too. The constraints of the runs that are no hypotheses (`OneRail`,
`OneMoves`, `Plain`, `HeardMatters`, `BatchMatters` ...) play no part in them.

The three hypotheses are not established by the code; each is the negation of
what a finding shows.  `NoSellerOvertaken`: no order has left the status that a
seller's call in flight read (finding 2).  It is used for the seller's two
writes only, which would otherwise put back any status; where no such calls are
made (`Hands = {}`) it holds in every behaviour, which is the lemma
`NobodyOvertakes` of `EscrowProofs`.  `LaterViewsFresh`: the orders that a
dispute job has still to do after its first commit have not been refunded since
it selected them (finding 3).  It asks nothing of the time under the job's
locks, since that part is the theorem `FirstViewIsFresh`, and only `SellerPaid`
needs it: what holds of a single settlement without it is `OldViewsOnly`.
`"task" \notin Kinds`: finding 1 is the violation of `OrderBooks` by a task
order, and such an order is closed with a part of its price still in escrow, so
that the platform's equation and the contract do not hold of it either.  That
money is unpaid but not lost: `MoneyConserved` and `OnlyTasksFallShort` need no
such hypothesis.

*Escrow.*  The money invariants are not inductive: that a release fits beside
the refunds follows only from the order having released nothing as long as it
is not closed.  `IInv` adds to `TypeOK`, for each row (`RowInv`), that refunds,
release and fee are within the total, that an order that is not closed has no
release and no fee, and that an open case is a numbered case of a delivered
order; and that an order whose row a provider call holds locked is pending.
The last part is why the provider's answer may refund the whole order.  The
wallet primitives have a lemma each (what they preserve, and that a fee or a
share lies between 0 and what it is taken from), composed into one on `Settle`
and one on `finalize_dispute`; then there is one step per action.

*The books of the escrow.*  A second invariant, `BooksInv`, says of each row
(`Books`) what its ledger rows add up to.  An order that is not closed is
`Standing`: no reward, no subsidy, its whole-order refund references unused
(`Free`, without which a refund could be taken for a repeat and pay nothing),
its unit of stock held until the delivery.  A closed one is `Divided`: nothing
left, and rewards only beside a completed sale.  The step is reduced once
(`StepBooks`): every action is a transaction on one order that keeps `Books`
(`Transacts`), or leaves the money alone.  Three things are proved of a
transaction with it: `Money`, the wallets with what the order has left less
what the platform paid in, is the same before and after; so are the units of
stock; and `Follows` bounds how the row changes (a closed one in its tasks only,
one with an open case by refunds of that case only).  The theorems about steps
are read off `Follows`, those about sums compare them before and after with
`SumMoves`, and the contract's step is the one from `Phased` row to `Phased`
row.  `Unclawed` says that no reward is ever taken back: the paths that do so
find one only on an order that was settled before, which the hypothesis
excludes.  The theorems therefore say nothing of the clawbacks; they matter
where a seller's call has been overtaken.

*Disputes.*  `CaseInv` has three parts.  `Shape`: an open case is of a
delivered order, what is claimed can still be replaced, and a line that was
given back is not an open claim.  `Covered`, which is `OfferCoversClaims` with
`~c.review`: an offer ends as soon as a person takes the case up.  `Fits`: what
was refunded and the caps of the lines that remain make up the total.  All
handlers keep them, and so do the jobs: however old its view, a job closes the
order it writes, and the refunded amount it saw was never more than the total
(`Seen`).  `Paid` - the column and the
refund rows agree, and the seller has the rest - is kept by each handler, and
by a job whose view is the row.  `LockedViewsFresh` is inductive, since whoever
else writes an order of the batch waits for the lock and time only lets clocks
run out.  For `OldViewsOnly` `Paid` is needed of the order at hand although a
stale view may have spoiled others: `DeliveredPaid` says it of every order that
is not closed, which is inductive because handlers write open orders and a job
closes what it writes, however wrongly.

*Withdrawals.*  The argument is local to a request.  `Rows(q)` says which
ledger rows a request has in each status, and that a request either has a lock
row of its amount (made now) or is a booked one of the old flow.  The first kind
is never taken for booked by amount, the second always is; so a decision moves
the money of its own request only.  The sums follow from that: `Books` joins the
three equations, and each step changes one request, one wallet or one
commission, so both sides of an equation change by the same term (`SumMoves`).
The cap compares with the commission an account was ever credited with: the
check at the request bounds the sum by what stands of it, a clawback changes the
status of a commission and not its amount, and a rejection only lowers what was
taken.

*Deposits.*  A transfer carries one code, so what it pays is one intent or one
account.  `IntentInv` says that a paid bank intent names its transfer, under the
name of the channel that told of it; `NameInv`, that an account is credited
under the webhook's name only, and that a name the reconciliation has entered
into the journal is in use by a paid intent for ever.  A name is used once, so a
second credit needs a second name: that is the exception of
`TransferCreditedOnce`.  `Backing` says of each rail what a paid intent rests
on: a transfer that matches it, the full crypto payment it is bound to, or, on
the retired rail, transfers that add up to at least what was paid (`Received`);
transfers and payments are only added, so the sum only grows.  `Moves` lists what
a step may do to an intent, and both `Backing` and `TypeOK` follow from it.

*Takedown.*  An answer may be old, but whatever reaches us is a status that the
partner's order has had (`CallInv`, `RequestInv`), its final statuses are had
last, and an order that was priced is never rejected on review (`LogInv`); so
what is old moves no money.  `CallInv` is what makes the argument hold for
handlers that overlap: each conjunct speaks only of things that grow (`Grows`),
so a step of one handler keeps what another carries.  TLC confirmed `IInv` with
two partner orders and two handlers before it was proved.  For the contract,
accepting is `Pay`, a delivery is a stutter, and the end is
`Divide` with the whole price back or none of it.

*Provisioning.*  `OneLock` says that a worker before its commit is the only one
on its order; everybody else asks for `~Locked`.  So what a worker relies on
(`SlotInv`: its order is pending, its purchase is marked before it is sent, and
has not been carried out before) is disturbed by no other actor, and a step of a
worker need only keep what it says of itself (`WorkerFrame`).  `Purchases` adds
that a marker is never taken back and stands before any purchase; `Money` that an
order that has not ended has given nothing back; `Reported` that an order ends
with a purchase behind it only when it is told, about to be told, or has a slip.
TLC confirmed `IInv` before it was proved.

*Sums.*  The community modules define a sum by a recursive function over the
subsets of a set.  The library's induction theorems for finite sets take an
operator as parameter, which the provers cannot instantiate; `SumLemmas` goes
around that with `WFMin` (a non-empty set of finite sets has a member none of
whose strict subsets is in it), which is about sets.  From it follow that the
recursive function exists and what it does (`Adds`), and then `SumMoves`
(changing one term changes the sum by the difference), sums of zeros, of
non-negative and of smaller terms, and sums over a set with an element taken out.

Model-checked only: the liveness properties (`UnattendedOrderSettles`,
`CasesEnd`, `MoneyIsFound`, `PartnerEndsRequest`, `AcceptReachesPartner`,
`ChargedOrderEnds`) with the fairness they rest on, which is out of the prover's
reach.

## 6. Not modelled

A package of prepaid credit is delivered like any other and its balance is
created with the delivery (`create_balance_for_order`); how the gateway uses the
balance up is not modelled.  The seller's edits of `manual_stock` are left out of
the stock account, as are lock waits and database deadlocks (one transaction is
aborted and changes nothing) and the wallet-by-wallet equation of the
reconciliation.  Suppliers that take an idempotency key appear in `Escrow` with
the outcome of their calls only.  `PROJECT.json` lists every package with its
status.

## 7. Plan

Done, in the order of what a wrong step costs: `Escrow` with `EscrowContract`,
`EscrowBooks`, `EscrowProofs` and `EscrowBooksProofs` (the money of an order);
`Withdrawals` and `WithdrawalProofs` (the money that leaves); `DisputeCase` and
`DisputeProofs` (clocks and stale batches); `Deposits` and `DepositProofs` (the
money that comes in); `Takedown` and `TakedownProofs` (a partner's reports
against the states of an order); `Provisioning` and `ProvisioningProofs`
(purchases that cannot be repeated).

Next:

1. Proofs.  A contract for task orders that names the amount finding 1 leaves
   in escrow, and its implementation; the step relations behind the liveness
   properties (what a fair job's step lowers), as far as they need no fairness.
2. `Inventory` (`resources`, `proxies`): concurrent claims of stock rows.
3. `SchedulerLeader`: the advisory lock and the overlap of two leaders, which
   `Provisioning` assumes.
4. `MailOutbox`, `ConfigApproval`, tickets, promotions, usage credit.
