----------------------------- MODULE DisputeCase -----------------------------
(***************************************************************************)
(* The timers of a dispute: who may end an open case, when, and on what    *)
(* view of the order (disputes/service.py and the three dispute jobs of    *)
(* scheduler.py).  Escrow has the money of a whole order and treats timers *)
(* as events that may come; here they are what the code computes, and a    *)
(* job is a process of its own.                                            *)
(*                                                                         *)
(* A handler locks order and dispute and commits once: one action.  A job  *)
(* selects and locks all due orders in one query, then settles them one by *)
(* one, committing each.  Its first commit releases all its locks, and the *)
(* orders it still has to settle stay in its session as they were selected *)
(* (the session does not expire on commit); the dispute is read again,     *)
(* under a lock, for each order.                                           *)
(*                                                                         *)
(* An order has lines (stock accounts or proxies) that its buyer may claim *)
(* and that may be refunded or, from stock, replaced.  A line's generation *)
(* counts its replacements within the case.                                *)
(***************************************************************************)
EXTENDS Integers, FiniteSets, Functions

CONSTANTS
  Orders,
  Goods,         \* what orders deliver: accounts from the seller's stock, proxies
  Windows,       \* whether a new case gives the seller a deadline (an admin setting)
  Lines,         \* lines of an order
  Total,         \* total_amount of an order
  MaxCases,      \* bound: disputes per order
  MaxExtensions  \* bound: admin escrow extensions per order

ASSUME ChoicesAssumption == Goods \subseteq {"stock", "proxy"} /\ Windows \subseteq BOOLEAN
ASSUME LinesAssumption == IsFiniteSet(Lines) /\ Lines # {}
ASSUME NumbersAssumption == Total \in Nat \ {0} /\ MaxCases \in Nat /\ MaxExtensions \in Nat

VARIABLES
  case,  \* each order with its escrow and its latest dispute
  job    \* the orders each job has selected and not yet settled, as it saw them

vars == <<case, job>>

-----------------------------------------------------------------------------
Jobs == {"resolution_timeout", "seller_timeout", "abandonment"}

DisputeStatus ==
  {"open", "resolved_refund", "resolved_reject", "resolved_partial_refund", "resolved_replace",
   "resolved_extend_warranty", "resolved_timeout", "withdrawn_by_buyer", "resolved_abandoned"}

MAX_WARRANTY_CLAIM_GENERATION == 1
Generations == 0..MAX_WARRANTY_CLAIM_GENERATION + 1
Items == Lines \X Generations

(* deadline, offer: seller_deadline_at and resolution_deadline_at.         *)
(* escrow: escrow_expires_at is ahead, passed, or passed by the grace too. *)
(* quiet: the grace has passed since the buyer's last claim.               *)
(* credited: the refund rows of the ledger; refunded: refunded_amount.     *)
Case == [ goods : Goods, status : {"delivered", "completed", "refunded"},
          dispute : DisputeStatus \cup {"none"}, cases : 0..MaxCases,
          credited : Nat, refunded : Nat, released : Nat,
          escrow : {"running", "lapsed", "overdue"}, extensions : 0..MaxExtensions,
          quiet : BOOLEAN,
          deadline : {"none", "running", "due"}, offer : {"none", "running", "due"},
          review : BOOLEAN, answered : BOOLEAN, noted : BOOLEAN,
          claimed : SUBSET Items, remedied : SUBSET Items,
          generation : [Lines -> Generations], gone : SUBSET Lines, cap : [Lines -> Nat] ]

(* What a job keeps of an order it has selected. *)
Snapshot == [refunded : Nat, escrow : {"running", "lapsed", "overdue"}]

TypeOK ==
  /\ case \in [Orders -> Case]
  /\ job \in [Jobs -> [locks : BOOLEAN, batch : SUBSET Orders, seen : [Orders -> Snapshot]]]

-----------------------------------------------------------------------------
(* divmod of an amount over the lines: shares that differ by at most one.  *)
Splits(amount) ==
  LET base == amount \div Cardinality(Lines)
  IN  {f \in [Lines -> {base, base + 1}] : SumFunctionOnSet(f, Lines) = amount}

IsOpen(c) == c.dispute = "open"
Remaining(c) == Total - c.refunded
Item(c, l) == <<l, c.generation[l]>>
ItemsOf(c, S) == {Item(c, l) : l \in S}

LockedBy(j) == IF job[j].locks THEN job[j].batch ELSE {}
Unlocked(o) == \A j \in Jobs : o \notin LockedBy(j)

InCase(o) == Unlocked(o) /\ IsOpen(case[o])

Write(o, c) ==
  /\ case' = [case EXCEPT ![o] = c]
  /\ UNCHANGED job

(* refund_escrow, the reference being new. *)
CanRefund(c, amount) == amount <= Remaining(c)
refund_escrow(c, amount) == [c EXCEPT !.refunded = @ + amount, !.credited = @ + amount]

release_escrow(c, amount) == IF c.released > 0 THEN c ELSE [c EXCEPT !.released = amount]

Ends(c, outcome) == [c EXCEPT !.dispute = outcome, !.offer = "none"]

(* Mutant: settles the whole order whatever went back to the buyer. *)
SettlesWhole(c, refunded, outcome) ==
  IF refunded = Total
  THEN [Ends(c, "resolved_refund") EXCEPT !.status = "refunded"]
  ELSE release_escrow([Ends(c, outcome) EXCEPT !.status = "completed"], Total)

(* refunded is the amount the caller has in its session. *)
finalize_dispute(c, refunded, outcome) ==
  IF refunded = Total
  THEN [Ends(c, "resolved_refund") EXCEPT !.status = "refunded"]
  ELSE release_escrow([Ends(c, outcome) EXCEPT !.status = "completed"], Total - refunded)

offer_resolution_deadline(c) ==
  IF c.review \/ c.offer # "none" THEN c ELSE [c EXCEPT !.offer = "running"]

AllClaimedRemedied(c) == c.claimed # {} /\ c.claimed \subseteq c.remedied

(* After a remedy: a fully refunded order closes, and once every claim is  *)
(* remedied the buyer's response window starts.                            *)
AfterRemedy(c) ==
  IF c.refunded = Total THEN finalize_dispute(c, Total, "resolved_refund")
  ELSE IF AllClaimedRemedied(c) THEN offer_resolution_deadline(c) ELSE c

-----------------------------------------------------------------------------
(* Time *)

escrow_passes(o) ==
  /\ case[o].status = "delivered"
  /\ \/ case[o].escrow = "running" /\ Write(o, [case[o] EXCEPT !.escrow = "lapsed"])
     \/ case[o].escrow = "lapsed" /\ Write(o, [case[o] EXCEPT !.escrow = "overdue"])

claims_go_quiet(o) ==
  /\ IsOpen(case[o]) /\ ~case[o].quiet
  /\ Write(o, [case[o] EXCEPT !.quiet = TRUE])

seller_deadline_passes(o) ==
  /\ IsOpen(case[o]) /\ case[o].deadline = "running"
  /\ Write(o, [case[o] EXCEPT !.deadline = "due"])

resolution_deadline_passes(o) ==
  /\ IsOpen(case[o]) /\ case[o].offer = "running"
  /\ Write(o, [case[o] EXCEPT !.offer = "due"])

-----------------------------------------------------------------------------
(* The buyer *)

(* Mutant: a line that was refunded in an earlier case can be claimed. *)
ClaimableWhenGone(c, S) ==
  /\ ItemsOf(c, S) \cap c.claimed = {}
  /\ \A l \in S : c.generation[l] <= MAX_WARRANTY_CLAIM_GENERATION

(* Mutant: replacements of replacements can be claimed, without end. *)
ClaimableForever(c, S) ==
  /\ S \cap c.gone = {}
  /\ ItemsOf(c, S) \cap c.claimed = {}

Claimable(c, S) ==
  /\ S \cap c.gone = {}
  /\ ItemsOf(c, S) \cap c.claimed = {}
  /\ \A l \in S : c.generation[l] <= MAX_WARRANTY_CLAIM_GENERATION

(* timed: dispute_seller_response_hours is positive. *)
create_dispute(o, S, timed) ==
  LET c == [case[o] EXCEPT !.dispute = "open", !.cases = @ + 1, !.quiet = FALSE,
                           !.deadline = IF timed THEN "running" ELSE "none", !.offer = "none",
                           !.review = FALSE, !.answered = FALSE, !.noted = FALSE,
                           !.claimed = {}, !.remedied = {}, !.generation = [l \in Lines |-> 0]]
  IN  /\ Unlocked(o)
      /\ ~IsOpen(case[o])
      /\ case[o].status = "delivered" /\ case[o].escrow = "running"
      /\ case[o].cases < MaxCases
      /\ Claimable(c, S)
      /\ Write(o, [c EXCEPT !.claimed = ItemsOf(c, S)])

(* Mutant: a new claim leaves the seller's offer standing. *)
ClaimKeepsOffer(o, S) ==
  /\ InCase(o)
  /\ S # {} /\ Claimable(case[o], S)
  /\ Write(o, [case[o] EXCEPT !.claimed = @ \cup ItemsOf(case[o], S), !.quiet = FALSE])

append_claim_batch(o, S) ==
  /\ InCase(o)
  /\ S # {} /\ Claimable(case[o], S)
  /\ Write(o, [case[o] EXCEPT !.claimed = @ \cup ItemsOf(case[o], S),
                              !.quiet = FALSE, !.offer = "none"])

accept_dispute_resolution(o) ==
  LET c == case[o]
      outcome == IF \E i \in c.remedied : i[1] \in c.gone THEN "resolved_partial_refund"
                 ELSE IF c.remedied # {} THEN "resolved_replace" ELSE "resolved_reject"
  IN  /\ InCase(o)
      /\ c.claimed \subseteq c.remedied
      /\ c.claimed # {} \/ c.noted
      /\ Write(o, finalize_dispute(c, c.refunded, outcome))

withdraw_dispute(o) ==
  LET c == Ends(case[o], "withdrawn_by_buyer")
  IN  /\ InCase(o)
      /\ case[o].remedied = {}
      /\ Write(o, IF c.escrow = "running" THEN c
                  ELSE LET s == [c EXCEPT !.status = "completed"]
                       IN  IF Remaining(c) > 0 THEN release_escrow(s, Remaining(c)) ELSE s)

(* Buyer's or seller's; the seller's counts as an answer. *)
request_marketplace_review(o, role) ==
  /\ InCase(o)
  /\ ~case[o].review
  /\ Write(o, [case[o] EXCEPT !.review = TRUE, !.offer = "none",
                              !.answered = @ \/ role = "seller"])

-----------------------------------------------------------------------------
(* The seller *)

seller_respond_dispute(o) ==
  LET c == [case[o] EXCEPT !.noted = TRUE, !.answered = TRUE]
  IN  /\ InCase(o)
      /\ Write(o, IF c.claimed \subseteq c.remedied THEN offer_resolution_deadline(c) ELSE c)

RefundLines(c, S) ==
  refund_escrow([c EXCEPT !.remedied = @ \cup ItemsOf(c, S), !.gone = @ \cup S], SumFunctionOnSet(c.cap, S))

(* A note sent along a remedy is left out: noted matters only to a case    *)
(* without claims, and the seller remedies only what was claimed.          *)
seller_resolve_resources(o, S, action) ==
  LET c == [case[o] EXCEPT !.answered = TRUE]
      items == ItemsOf(c, S)
  IN  /\ InCase(o) /\ case[o].goods = "stock"
      /\ S # {} /\ items \subseteq c.claimed \ c.remedied
      /\ \/ /\ action = "refund"
            /\ CanRefund(c, SumFunctionOnSet(c.cap, S))
            /\ Write(o, AfterRemedy(RefundLines(c, S)))
         \/ /\ action = "replace"
            /\ Write(o, AfterRemedy(
                 [c EXCEPT !.remedied = @ \cup items,
                           !.generation = [l \in Lines |-> @[l] + IF l \in S THEN 1 ELSE 0]]))

(* The lines the caller may refund are neither refunded nor remedied.      *)
refund_proxy_lines(o, c, S) ==
  /\ InCase(o) /\ case[o].goods = "proxy"
  /\ S # {} /\ S \cap c.gone = {} /\ ItemsOf(c, S) \cap c.remedied = {}
  /\ CanRefund(c, SumFunctionOnSet(c.cap, S))
  /\ Write(o, AfterRemedy(RefundLines(c, S)))

seller_resolve_proxies(o, S) ==
  /\ ItemsOf(case[o], S) \subseteq case[o].claimed
  /\ refund_proxy_lines(o, [case[o] EXCEPT !.answered = TRUE], S)

-----------------------------------------------------------------------------
(* The marketplace *)

admin_refund_proxies(o, S) == refund_proxy_lines(o, case[o], S)

refund_dispute(o) ==
  /\ InCase(o)
  /\ Write(o, [refund_escrow(Ends(case[o], "resolved_refund"), Remaining(case[o]))
                 EXCEPT !.status = "refunded"])

Settled(c, outcome) ==
  LET s == [Ends(c, outcome) EXCEPT !.status = "completed"]
  IN  IF Remaining(c) > 0 THEN release_escrow(s, Remaining(c)) ELSE s

reject_dispute(o) == InCase(o) /\ Write(o, Settled(case[o], "resolved_reject"))

partial_refund_dispute(o, amount) ==
  /\ InCase(o)
  /\ amount > 0 /\ amount < Remaining(case[o])
  /\ Write(o, Settled(refund_escrow(case[o], amount), "resolved_partial_refund"))

(* The whole order is delivered anew and the escrow starts again. *)
replace_dispute(o) ==
  /\ InCase(o) /\ case[o].goods = "stock"
  /\ case[o].remedied = {}
  /\ \E caps \in Splits(Remaining(case[o])) :
       Write(o, [Ends(case[o], "resolved_replace") EXCEPT
                   !.escrow = "running", !.cap = caps, !.gone = {}])

(* The days are added to the old deadline, which may still be in the past. *)
extend_warranty_dispute(o) ==
  /\ InCase(o)
  /\ \E escrow \in IF case[o].escrow = "overdue" THEN {"running", "lapsed", "overdue"}
                  ELSE {"running", case[o].escrow} :
       Write(o, [Ends(case[o], "resolved_extend_warranty") EXCEPT !.escrow = escrow])

extend_escrow(o) ==
  /\ Unlocked(o)
  /\ case[o].status = "delivered" /\ case[o].extensions < MaxExtensions
  /\ Write(o, [case[o] EXCEPT !.escrow = "running", !.extensions = @ + 1])

-----------------------------------------------------------------------------
(* Without an open case: the buyer confirms, or the escrow runs out. *)

Undisputed(o) == Unlocked(o) /\ case[o].status = "delivered" /\ ~IsOpen(case[o])

settled_order(c) ==
  LET s == [c EXCEPT !.status = "completed"]
  IN  IF Remaining(c) > 0 THEN release_escrow(s, Remaining(c)) ELSE s

confirm_order(o) == Undisputed(o) /\ Write(o, settled_order(case[o]))

escrow_release_job(o) ==
  /\ Undisputed(o)
  /\ case[o].escrow # "running"
  /\ Write(o, settled_order(case[o]))

-----------------------------------------------------------------------------
(* The jobs *)

Selects(j, c) ==
  /\ IsOpen(c) /\ ~c.review
  /\ CASE j = "resolution_timeout" -> c.offer = "due"
       [] j = "seller_timeout" -> ~c.answered /\ c.deadline = "due"
       [] j = "abandonment" -> c.offer = "none" /\ c.remedied = {} /\ c.escrow # "running"

ViewOf(c) == [refunded |-> c.refunded, escrow |-> c.escrow]
NotSeen == [refunded |-> 0, escrow |-> "running"]
Idle == [locks |-> FALSE, batch |-> {}, seen |-> [o \in Orders |-> NotSeen]]

(* The query of a job; it passes over locked rows. *)
job_selects(j) ==
  LET due == {o \in Orders : Unlocked(o) /\ Selects(j, case[o])}
  IN  /\ job[j].batch = {}
      /\ due # {}
      /\ job' = [job EXCEPT ![j] =
                   [locks |-> TRUE, batch |-> due,
                    seen |-> [o \in Orders |-> IF o \in due THEN ViewOf(case[o]) ELSE NotSeen]]]
      /\ UNCHANGED case

(* Mutant: what the query found is not looked at again. *)
EligibleAsSelected(j, c, seen) == TRUE

(* Mutant: a seller who answers stops every timer. *)
EligibleUnlessAnswered(j, c, seen) ==
  /\ ~c.review /\ ~c.answered
  /\ CASE j = "resolution_timeout" -> c.offer = "due"
       [] j = "seller_timeout" -> c.deadline = "due"
       [] j = "abandonment" -> /\ c.offer = "none" /\ c.remedied = {}
                               /\ seen.escrow = "overdue" /\ c.quiet

(* c is the dispute as it is now, seen the order as it was selected. *)
Eligible(j, c, seen) ==
  /\ ~c.review
  /\ CASE j = "resolution_timeout" -> c.offer = "due"
       [] j = "seller_timeout" -> ~c.answered /\ c.deadline = "due"
       [] j = "abandonment" -> /\ c.offer = "none" /\ c.remedied = {}
                               /\ seen.escrow = "overdue" /\ c.quiet

Resolve(j, c, seen) ==
  CASE j = "resolution_timeout" -> finalize_dispute(c, seen.refunded, "resolved_timeout")
    [] j = "abandonment" -> finalize_dispute(c, seen.refunded, "resolved_abandoned")
    [] j = "seller_timeout" ->
         LET left == Total - seen.refunded
             paid == [c EXCEPT !.refunded = seen.refunded + left, !.credited = @ + left]
         IN  finalize_dispute(paid, seen.refunded + left, "resolved_refund")

Without(j, o) == [job[j] EXCEPT !.batch = @ \ {o}, !.seen[o] = NotSeen]

Mine(j, o) == o \in job[j].batch /\ \A k \in Jobs \ {j} : o \notin LockedBy(k)

(* The case was closed meanwhile: the next order, without a commit. *)
job_passes(j, o) ==
  /\ Mine(j, o)
  /\ ~IsOpen(case[o])
  /\ job' = [job EXCEPT ![j] = IF Without(j, o).batch = {} THEN Idle ELSE Without(j, o)]
  /\ UNCHANGED case

(* Mutant: settles an order on what it saw of another one of its batch. *)
SettlesOnAnotherView(j, o) ==
  /\ Mine(j, o)
  /\ IsOpen(case[o]) /\ Eligible(j, case[o], job[j].seen[o])
  /\ \E p \in job[j].batch : case' = [case EXCEPT ![o] = Resolve(j, case[o], job[j].seen[p])]
  /\ job' = [job EXCEPT ![j] = [Without(j, o) EXCEPT !.locks = FALSE]]

job_settles(j, o) ==
  /\ Mine(j, o)
  /\ IsOpen(case[o]) /\ Eligible(j, case[o], job[j].seen[o])
  /\ case' = [case EXCEPT ![o] = Resolve(j, case[o], job[j].seen[o])]
  /\ job' = [job EXCEPT ![j] = [Without(j, o) EXCEPT !.locks = FALSE]]

(* ValueError: the rollback releases the locks and expires the orders, so  *)
(* reading the next one's id raises outside the try and the run ends.      *)
job_aborts(j, o) ==
  /\ Mine(j, o)
  /\ IsOpen(case[o]) /\ ~Eligible(j, case[o], job[j].seen[o])
  /\ job' = [job EXCEPT ![j] = Idle]
  /\ UNCHANGED case

-----------------------------------------------------------------------------
NewCase(goods, caps) ==
  [ goods |-> goods, status |-> "delivered", dispute |-> "none", cases |-> 0,
    credited |-> 0, refunded |-> 0, released |-> 0,
    escrow |-> "running", extensions |-> 0, quiet |-> FALSE,
    deadline |-> "none", offer |-> "none", review |-> FALSE, answered |-> FALSE, noted |-> FALSE,
    claimed |-> {}, remedied |-> {}, generation |-> [l \in Lines |-> 0],
    gone |-> {}, cap |-> caps ]

Init ==
  /\ case \in [Orders -> {NewCase(goods, caps) : goods \in Goods, caps \in Splits(Total)}]
  /\ job = [j \in Jobs |-> Idle]

Time(o) ==
  \/ escrow_passes(o)
  \/ claims_go_quiet(o)
  \/ seller_deadline_passes(o)
  \/ resolution_deadline_passes(o)

People(o) ==
  \/ \E S \in SUBSET Lines :
       \/ \E timed \in Windows : create_dispute(o, S, timed)
       \/ append_claim_batch(o, S)
       \/ \E action \in {"refund", "replace"} : seller_resolve_resources(o, S, action)
       \/ seller_resolve_proxies(o, S)
       \/ admin_refund_proxies(o, S)
  \/ accept_dispute_resolution(o)
  \/ withdraw_dispute(o)
  \/ \E role \in {"buyer", "seller"} : request_marketplace_review(o, role)
  \/ seller_respond_dispute(o)
  \/ refund_dispute(o)
  \/ reject_dispute(o)
  \/ \E amount \in 1..Total : partial_refund_dispute(o, amount)
  \/ replace_dispute(o)
  \/ extend_warranty_dispute(o)
  \/ extend_escrow(o)
  \/ confirm_order(o)

JobSteps(j) ==
  \/ job_selects(j)
  \/ \E o \in Orders : job_passes(j, o) \/ job_settles(j, o) \/ job_aborts(j, o)

Next ==
  \/ \E o \in Orders : Time(o) \/ People(o) \/ escrow_release_job(o)
  \/ \E j \in Jobs : JobSteps(j)

Spec == Init /\ [][Next]_vars

(* Time passes and the scheduler runs the jobs again and again; nothing is *)
(* assumed of people.                                                      *)
Fairness ==
  /\ \A o \in Orders :
       /\ WF_vars(escrow_passes(o)) /\ WF_vars(claims_go_quiet(o))
       /\ WF_vars(seller_deadline_passes(o)) /\ WF_vars(resolution_deadline_passes(o))
       /\ WF_vars(escrow_release_job(o))
  /\ \A j \in Jobs : WF_vars(JobSteps(j))

FairSpec == Spec /\ Fairness

-----------------------------------------------------------------------------
(* Properties *)

(* The money at the end of a case: the seller gets the total less what     *)
(* went back to the buyer, whoever ended the case, on whatever view of the *)
(* order; until then nothing is released.                                  *)
SellerGetsTheRest ==
  \A o \in Orders :
    /\ case[o].refunded = case[o].credited
    /\ case[o].released = IF case[o].status = "delivered" THEN 0 ELSE Total - case[o].credited

(* The lines a buyer still holds carry exactly the money still in escrow:  *)
(* over repeated cases, replacements and whole-order replacements, every   *)
(* line can still be refunded at its cap and none is refunded twice.       *)
LinesFitEscrow ==
  \A o \in Orders : case[o].status = "delivered" =>
    case[o].refunded + SumFunctionOnSet(case[o].cap, Lines \ case[o].gone) = Total

(* The buyer's silence is held against them only over an offer that covers *)
(* every claim they made, and never while the marketplace reviews.         *)
OfferCoversClaims ==
  \A o \in Orders : IsOpen(case[o]) /\ case[o].offer # "none" =>
    /\ case[o].claimed \subseteq case[o].remedied
    /\ case[o].claimed # {} \/ case[o].noted
    /\ ~case[o].review

(* A job ends a case only if nobody has stopped its timer by then, even if *)
(* they did so after the job selected the case: no job under review, no    *)
(* refund for silence once the seller answered, no settlement over an      *)
(* unremedied claim, no abandonment of a case somebody remedied.           *)
JobsRespectPeople ==
  [][\A o \in Orders : case[o] # case'[o] /\ job # job' =>
       /\ ~case[o].review
       /\ case'[o].dispute = "resolved_timeout" => case[o].claimed \subseteq case[o].remedied
       /\ case'[o].dispute = "resolved_abandoned" => case[o].remedied = {}
       /\ case'[o].credited > case[o].credited => ~case[o].answered]_vars

(* What the session of a job keeps is harmless under the locks of its      *)
(* query, and of an order that nobody has changed since: the order of a    *)
(* batch that is settled first, and every later one left alone meanwhile,  *)
(* gets its money divided exactly, and none is abandoned before the grace  *)
(* of its escrow, extended or not, is over.  Only an order that somebody   *)
(* got to after the first commit may be misjudged.                         *)
OnlyOldViewsMisjudge ==
  [][\A j \in Jobs, o \in Orders :
       /\ job'[j] # job[j] /\ case'[o] # case[o]
       /\ job[j].locks \/ job[j].seen[o] = ViewOf(case[o])
       => /\ case'[o].refunded = case'[o].credited
          /\ case'[o].released = Total - case'[o].credited
          /\ case'[o].dispute = "resolved_abandoned" => case[o].escrow = "overdue"]_vars

(* Nothing rests by inaction.  A case nobody remedies and nobody brings to *)
(* the marketplace ends by itself, whatever is said in it (clock B).  An   *)
(* offer that covers every claim is taken up, withdrawn by a new claim or  *)
(* a review, or applied by the job (clock A).                              *)
CasesEnd ==
  \A o \in Orders :
    /\ IsOpen(case[o]) ~> ~IsOpen(case[o]) \/ case[o].review \/ case[o].remedied # {}
    /\ case[o].offer # "none" ~> case[o].offer = "none"
=============================================================================
