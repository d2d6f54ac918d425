------------------------------- MODULE Takedown -------------------------------
(***************************************************************************)
(* Link takedown (takedown/service.py, takedown/lifecycle.py).  A request  *)
(* of a buyer becomes an order at a partner; an accepted quote becomes an  *)
(* order of the marketplace, whose escrow holds the buyer's money until    *)
(* the partner reports how it ended.                                       *)
(*                                                                         *)
(* No lock is held during a call to the partner: a handler reads the       *)
(* request, calls, and applies the answer under a lock taken afresh, to a  *)
(* request that others have changed meanwhile.  A call may fail before or  *)
(* after the partner has acted, and a handler may die between its steps.   *)
(*                                                                         *)
(* needs_sync and last_synced_at are left out: they bring the next reading *)
(* forward, and every open request is read every five minutes.             *)
(***************************************************************************)
EXTENDS Integers, SequencesExt

CONSTANTS
  Requests,
  PartnerOrders,  \* bound: the orders the partner can be made to create
  Handlers,       \* bound: calls to the partner under way at a time
  Price,          \* what a buyer pays
  MaxMoves        \* bound: the statuses a partner order goes through

ASSUME PriceAssumption == Price \in Nat \ {0}
ASSUME BoundsAssumption == MaxMoves \in Nat \ {0}

VARIABLES
  request,  \* takedown_requests
  order,    \* the order of the marketplace each request has led to
  partner,  \* the partner's orders: whose code they carry, every status they have had
  heard,    \* takedown_events of the partner: which of its webhooks have been handled
  call      \* the handlers that are talking to the partner

vars == <<request, order, partner, heard, call>>

-----------------------------------------------------------------------------
None == "none"

ASSUME NoneAssumption == None \notin Requests \cup PartnerOrders

TERMINAL == {"done", "failed", "declined", "rejected", "cancelled"}
REFUND_ON == {"failed", "cancelled"}
Status == {"review", "quoted", "started", "processing", "warranty", "warranty_claim"} \cup TERMINAL

PartnerStatus ==
  {"pending_review", "quoted", "awaiting_payment", "processing", "in_warranty",
   "warranty_pending", "success", "failed", "rejected", "quote_rejected", "cancelled"}

(* priced: price IS NOT NULL.  failed: sync_error of a creation is set.    *)
Request == [ status : Status, partner_status : PartnerStatus \cup {None},
             partner_order : PartnerOrders \cup {None}, priced : BOOLEAN, failed : BOOLEAN ]
NoRequest == [ status |-> None, partner_status |-> None, partner_order |-> None,
               priced |-> FALSE, failed |-> FALSE ]

(* by: who ended the holding of the money, the partner's report or staff.  *)
Order == [ status : {None, "processing", "delivered", "completed", "cancelled", "refunded"},
           refunded : 0..Price, paid : 0..Price, by : {None, "partner", "staff"} ]
NoOrder == [status |-> None, refunded |-> 0, paid |-> 0, by |-> None]

Unused == [code |-> None, log |-> << >>]
Now(o) == Last(partner[o].log)

(* order and held (of a sync) are what the handler has read, reply is the  *)
(* status in the answer; an apply step without one follows a failed call.  *)
Call == [ op : {"create", "accept", "decline", "cancel", "warranty", "sync"}, req : Requests,
          step : {"list", "post", "read", "apply"}, order : PartnerOrders \cup {None},
          reply : PartnerStatus \cup {None}, held : BOOLEAN ]
Idle == [op |-> None, req |-> None, step |-> None, order |-> None, reply |-> None, held |-> FALSE]

TypeOK ==
  /\ request \in [Requests -> Request \cup {NoRequest}]
  /\ order \in [Requests -> Order]
  /\ \A o \in PartnerOrders :
       partner[o] = Unused \/ /\ partner[o].code \in Requests
                              /\ partner[o].log \in Seq(PartnerStatus)
                              /\ Len(partner[o].log) \in 1..MaxMoves
  /\ heard \subseteq PartnerOrders \X (0..MaxMoves - 1)
  /\ call \in [Handlers -> Call \cup {Idle}]

Init ==
  /\ request = [r \in Requests |-> NoRequest]
  /\ order = [r \in Requests |-> NoOrder]
  /\ partner = [o \in PartnerOrders |-> Unused]
  /\ heard = {}
  /\ call = [h \in Handlers |-> Idle]

Held(r) == order[r].status # None
Open(r) == request[r].status \notin TERMINAL \cup {None}

-----------------------------------------------------------------------------
(* The rules of lifecycle.py.                                              *)
(* Mutant: one status is taken over untranslated. *)
DirectIncomplete ==
  [ pending_review |-> "review", awaiting_payment |-> "started", processing |-> "processing",
    in_warranty |-> "warranty", warranty_pending |-> "warranty_claim", success |-> "done",
    failed |-> "failed", rejected |-> "declined", quote_rejected |-> "quote_rejected",
    cancelled |-> "cancelled" ]

Direct == [ pending_review |-> "review", awaiting_payment |-> "started", processing |-> "processing",
            in_warranty |-> "warranty", warranty_pending |-> "warranty_claim", success |-> "done",
            failed |-> "failed", rejected |-> "declined", quote_rejected |-> "rejected",
            cancelled |-> "cancelled" ]

status_for(partner_status, price_set, order_held) ==
  IF partner_status \in {"quoted", "pending_review"} /\ order_held THEN "started"
  ELSE IF partner_status = "quoted" THEN (IF price_set THEN "quoted" ELSE "review")
  ELSE Direct[partner_status]

webhook_applies(current, from) ==
  IF current = None THEN from \in {None, "pending_review"} ELSE from = current

(* Mutants: pays an order back that is no longer held; forgets one of the  *)
(* two outcomes that pay it back; delivers before the warranty has ended.  *)
SettleAlways(m, new) ==
  IF new \in REFUND_ON /\ m.status # None
  THEN [m EXCEPT !.status = "cancelled", !.refunded = @ + Price, !.by = "partner"]
  ELSE IF new = "done" /\ m.status = "processing"
  THEN [m EXCEPT !.status = "delivered", !.by = "partner"]
  ELSE m
SettleFailedOnly(m, new) ==
  IF new = "failed" /\ m.status = "processing"
  THEN [m EXCEPT !.status = "cancelled", !.refunded = @ + Price, !.by = "partner"]
  ELSE IF new = "done" /\ m.status = "processing"
  THEN [m EXCEPT !.status = "delivered", !.by = "partner"]
  ELSE m

SettleAtWarranty(m, new) ==
  IF new \in REFUND_ON /\ m.status = "processing"
  THEN [m EXCEPT !.status = "cancelled", !.refunded = Price, !.by = "partner"]
  ELSE IF new \in {"warranty", "done"} /\ m.status = "processing"
  THEN [m EXCEPT !.status = "delivered", !.by = "partner"]
  ELSE m

_settle_money(m, new) ==
  IF new \in REFUND_ON /\ m.status = "processing"
  THEN [m EXCEPT !.status = "cancelled", !.refunded = Price, !.by = "partner"]
  ELSE IF new = "done" /\ m.status = "processing"
  THEN [m EXCEPT !.status = "delivered", !.by = "partner"]
  ELSE m

(* _apply: the partner's status is taken over as it is, also when it is    *)
(* older than the one we have; ours follows until it is terminal.          *)
_apply(q, r, s) ==
  LET new == IF q.status \in TERMINAL THEN q.status ELSE status_for(s, q.priced, Held(r))
  IN  /\ request' = [request EXCEPT ![r] = [q EXCEPT !.partner_status = s, !.status = new]]
      /\ order' = IF new = q.status THEN order ELSE [order EXCEPT ![r] = _settle_money(@, new)]

_apply_order_dict(q, r, o, s) ==
  _apply([q EXCEPT !.partner_order = IF @ = None THEN o ELSE @], r, s)

-----------------------------------------------------------------------------
(* Where handlers begin.                                                   *)
Begin(h, c) == call' = [call EXCEPT ![h] = c]
Done(h) == call' = [call EXCEPT ![h] = Idle]

(* A creation that follows a failed one looks for our code first.          *)
Creation(r, retried) ==
  [Idle EXCEPT !.op = "create", !.req = r, !.step = IF retried THEN "list" ELSE "post"]

create_request(h, r) ==
  /\ request[r] = NoRequest /\ call[h] = Idle
  /\ request' = [request EXCEPT ![r].status = "review"]
  /\ Begin(h, Creation(r, FALSE))
  /\ UNCHANGED <<order, partner, heard>>

push_create(h, r) ==
  /\ Open(r) /\ request[r].partner_order = None
  /\ Begin(h, Creation(r, request[r].failed))

(* Asked by the job, by an admin, after a webhook and after a refusal.     *)
sync_request(h, r) ==
  /\ request[r] # NoRequest /\ call[h] = Idle
  /\ \/ push_create(h, r)
     \/ /\ request[r].partner_order # None
        /\ Begin(h, [Idle EXCEPT !.op = "sync", !.req = r, !.step = "read",
                                 !.order = request[r].partner_order, !.held = Held(r)])
  /\ UNCHANGED <<request, order, partner, heard>>

(* Mutant: reads the requests that nobody has paid for. *)
SyncUnpaid(h, r) == Open(r) /\ ~Held(r) /\ sync_request(h, r)

takedown_sync_job(h, r) == Open(r) /\ sync_request(h, r)

set_price(r) ==
  /\ request[r].status = "review" /\ request[r].partner_status = "quoted"
  /\ request' = [request EXCEPT ![r].priced = TRUE, ![r].status = "quoted"]
  /\ UNCHANGED <<order, partner, heard, call>>

(* The buyer's money goes into an order, then the partner is told.         *)
Acceptance(r, o) ==
  [Idle EXCEPT !.op = "accept", !.req = r, !.step = "post", !.order = o]

accept_quote(h, r) ==
  /\ request[r].status = "quoted" /\ call[h] = Idle
  /\ order' = [order EXCEPT ![r].status = "processing"]
  /\ request' = [request EXCEPT ![r].status = "started"]
  /\ Begin(h, Acceptance(r, request[r].partner_order))
  /\ UNCHANGED <<partner, heard>>

(* decline_quote, cancel_request, claim_warranty: the status is read       *)
(* without a lock and not looked at again.                                 *)
Allowed == [ decline |-> {"quoted"}, cancel |-> {"review", "quoted", "started"},
             warranty |-> {"warranty"} ]

_member_action(h, r, action) ==
  /\ call[h] = Idle
  /\ request[r].status \in Allowed[action] /\ request[r].partner_order # None
  /\ Begin(h, [Idle EXCEPT !.op = action, !.req = r, !.step = "post",
                           !.order = request[r].partner_order])
  /\ UNCHANGED <<request, order, partner, heard>>

-----------------------------------------------------------------------------
(* The partner (external, as scripts/mock_takedown.py plays it).           *)
Moves == [ pending_review |-> {"quoted", "rejected"}, awaiting_payment |-> {"processing"},
           processing |-> {"in_warranty", "failed"},
           in_warranty |-> {"success", "failed"}, warranty_pending |-> {"processing", "in_warranty"} ]
From == [ accept |-> {"quoted"}, decline |-> {"quoted"},
          cancel |-> {"pending_review", "quoted", "awaiting_payment"}, warranty |-> {"in_warranty"} ]
To == [ accept |-> "awaiting_payment", decline |-> "quote_rejected", cancel |-> "cancelled",
        warranty |-> "warranty_pending" ]

Enter(o, s) ==
  /\ Len(partner[o].log) < MaxMoves
  /\ partner' = [partner EXCEPT ![o].log = Append(@, s)]

partner_moves(o) ==
  /\ partner[o] # Unused
  /\ Now(o) \in DOMAIN Moves
  /\ \E s \in Moves[Now(o)] : Enter(o, s)
  /\ UNCHANGED <<request, order, heard, call>>

(* What comes back from a call: an answer, nothing, or a refusal.          *)
Answer(h, o, s) ==
  call' = [call EXCEPT ![h].step = "apply", ![h].order = o, ![h].reply = s]

(* A lost answer: the buyer of a member action is told to try again.       *)
Lost(h) ==
  IF call[h].op \in DOMAIN Allowed THEN Done(h)
  ELSE call' = [call EXCEPT ![h].step = "apply", ![h].reply = None]

(* After a refusal the partner's order is read: by the acceptance itself,  *)
(* or by sync_request.                                                     *)
Refused(h) ==
  IF call[h].op = "accept" THEN call' = [call EXCEPT ![h].step = "read"]
  ELSE call' = [call EXCEPT ![h].step = "read", ![h].op = "sync", ![h].held = Held(call[h].req)]

create_order(h) ==
  /\ call[h].op = "create" /\ call[h].step = "post"
  /\ \E o \in PartnerOrders :
       /\ partner[o] = Unused
       /\ partner' = [partner EXCEPT ![o] = [code |-> call[h].req, log |-> <<"pending_review">>]]
       /\ Answer(h, o, "pending_review") \/ Lost(h)
  /\ UNCHANGED <<request, order, heard>>

(* list_orders: found by our code, or nothing and then it is created.      *)
list_orders(h) ==
  LET ours == {o \in PartnerOrders : partner[o].code = call[h].req}
  IN  /\ call[h].step = "list"
      /\ \/ \E o \in ours : Answer(h, o, Now(o))
         \/ ours = {} /\ call' = [call EXCEPT ![h].step = "post"]
      /\ UNCHANGED <<request, order, partner, heard>>

action(h) ==
  /\ call[h].op \in DOMAIN From /\ call[h].step = "post"
  /\ IF Now(call[h].order) \in From[call[h].op]
     THEN /\ Enter(call[h].order, To[call[h].op])
          /\ Answer(h, call[h].order, To[call[h].op]) \/ Lost(h)
     ELSE Refused(h) /\ UNCHANGED partner
  /\ UNCHANGED <<request, order, heard>>

get_order(h) ==
  /\ call[h].step = "read"
  /\ Answer(h, call[h].order, Now(call[h].order))
  /\ UNCHANGED <<request, order, partner, heard>>

(* The call fails before it reaches the partner, or the answer to a        *)
(* question does not come back.                                            *)
unreachable(h) ==
  /\ call[h].step \in {"list", "post", "read"}
  /\ Lost(h)
  /\ UNCHANGED <<request, order, partner, heard>>

(* The process dies, or the request of the buyer is cut off.               *)
dies(h) ==
  /\ call[h] # Idle
  /\ Done(h)
  /\ UNCHANGED <<request, order, partner, heard>>

-----------------------------------------------------------------------------
(* Where handlers end: the answer is applied under the lock of the request.*)
push_create_apply(h) ==
  LET r == call[h].req
      q == request[r]
  IN  /\ call[h].op = "create" /\ call[h].step = "apply"
      /\ \/ q.partner_order # None /\ UNCHANGED <<request, order>>
         \/ /\ q.partner_order = None /\ call[h].reply # None
            /\ _apply_order_dict([q EXCEPT !.failed = FALSE], r, call[h].order, call[h].reply)
         \/ /\ q.partner_order = None /\ call[h].reply = None
            /\ request' = [request EXCEPT ![r].failed = TRUE]
            /\ UNCHANGED order
      /\ Done(h)
      /\ UNCHANGED <<partner, heard>>

forward_accept(h) ==
  /\ call[h].op = "accept" /\ call[h].step = "apply"
  /\ IF call[h].reply = None THEN UNCHANGED <<request, order>>
     ELSE _apply_order_dict(request[call[h].req], call[h].req, call[h].order, call[h].reply)
  /\ Done(h)
  /\ UNCHANGED <<partner, heard>>

_member_action_apply(h) ==
  /\ call[h].op \in DOMAIN Allowed /\ call[h].step = "apply"
  /\ _apply_order_dict(request[call[h].req], call[h].req, call[h].order, call[h].reply)
  /\ Done(h)
  /\ UNCHANGED <<partner, heard>>

(* A paid request that the partner still has as quoted: accept once more.  *)
(* Mutants: leaves it at that; does not ask whether it is paid. *)
SyncOnly(h) ==
  /\ call[h].op = "sync" /\ call[h].step = "apply"
  /\ IF call[h].reply = None THEN UNCHANGED <<request, order>>
     ELSE _apply_order_dict(request[call[h].req], call[h].req, call[h].order, call[h].reply)
  /\ Done(h)
  /\ UNCHANGED <<partner, heard>>

SyncAccepts(h) ==
  LET r == call[h].req
  IN  /\ call[h].op = "sync" /\ call[h].step = "apply"
      /\ \/ call[h].reply = None /\ UNCHANGED <<request, order>> /\ Done(h)
         \/ /\ call[h].reply # None
            /\ _apply_order_dict(request[r], r, call[h].order, call[h].reply)
            /\ IF call[h].reply = "quoted" /\ Open(r)
               THEN Begin(h, Acceptance(r, call[h].order)) ELSE Done(h)
      /\ UNCHANGED <<partner, heard>>

sync_request_apply(h) ==
  LET r == call[h].req
  IN  /\ call[h].op = "sync" /\ call[h].step = "apply"
      /\ \/ call[h].reply = None /\ UNCHANGED <<request, order>> /\ Done(h)
         \/ /\ call[h].reply # None
            /\ _apply_order_dict(request[r], r, call[h].order, call[h].reply)
            /\ IF call[h].held /\ call[h].reply = "quoted" /\ Open(r)
               THEN Begin(h, Acceptance(r, call[h].order)) ELSE Done(h)
      /\ UNCHANGED <<partner, heard>>

(* Webhook k of a partner order tells its k-th step; it is handled once,   *)
(* and it comes early, late or never.  The one of the creation may find    *)
(* the request by our code.                                                *)
handle_webhook(o, k) ==
  LET from == IF k = 0 THEN None ELSE partner[o].log[k]
      to == partner[o].log[k + 1]
      bound == {r \in Requests : request[r].partner_order = o}
      mine == IF bound = {} /\ k = 0 THEN {partner[o].code} ELSE bound
  IN  /\ k < Len(partner[o].log) /\ <<o, k>> \notin heard
      /\ heard' = heard \cup {<<o, k>>}
      /\ IF \E r \in mine : webhook_applies(request[r].partner_status, from)
         THEN \E r \in mine : _apply_order_dict(request[r], r, o, to)
         ELSE UNCHANGED <<request, order>>
      /\ UNCHANGED <<partner, call>>

-----------------------------------------------------------------------------
(* The order of the marketplace: staff may deliver it by hand or refund it,*)
(* and its escrow is released when it has been delivered.                  *)
deliver_order(r) ==
  /\ order[r].status = "processing"
  /\ order' = [order EXCEPT ![r].status = "delivered", ![r].by = "staff"]
  /\ UNCHANGED <<request, partner, heard, call>>

refund_order(r) ==
  /\ order[r].status \in {"processing", "delivered"}
  /\ order' = [order EXCEPT ![r].status = IF @ = "delivered" THEN "refunded" ELSE "cancelled",
                            ![r].refunded = Price, ![r].by = "staff"]
  /\ UNCHANGED <<request, partner, heard, call>>

release_escrow(r) ==
  /\ order[r].status = "delivered"
  /\ order' = [order EXCEPT ![r].status = "completed", ![r].paid = Price]
  /\ UNCHANGED <<request, partner, heard, call>>

Buyer(r) ==
  \E h \in Handlers :
    create_request(h, r) \/ accept_quote(h, r) \/ \E a \in DOMAIN Allowed : _member_action(h, r, a)
Staff(r) == set_price(r) \/ deliver_order(r) \/ refund_order(r) \/ release_escrow(r)
Partner(o) == partner_moves(o) \/ \E k \in 0..MaxMoves - 1 : handle_webhook(o, k)
Reached(h) == create_order(h) \/ list_orders(h) \/ action(h) \/ get_order(h)
Applied(h) ==
  push_create_apply(h) \/ forward_accept(h) \/ _member_action_apply(h) \/ sync_request_apply(h)

Next ==
  \/ \E r \in Requests : Buyer(r) \/ Staff(r) \/ \E h \in Handlers : sync_request(h, r)
  \/ \E o \in PartnerOrders : Partner(o)
  \/ \E h \in Handlers : Reached(h) \/ unreachable(h) \/ dies(h) \/ Applied(h)

Spec == Init /\ [][Next]_vars

(* Calls time out and the job runs every two minutes.  A call may fail and *)
(* a handler may die, but neither each time it gets there.                 *)
Runs(h) == Reached(h) \/ unreachable(h) \/ Applied(h) \/ dies(h)
Doing(h, r, op) == call[h].req = r /\ call[h].op = op
Answered(h) == Reached(h) /\ (call'[h].reply # None \/ call'[h].step \in {"post", "read"})

Fairness ==
  /\ \A h \in Handlers : WF_vars(Runs(h))
  /\ \A r \in Requests :
       /\ SF_vars(\E h \in Handlers : takedown_sync_job(h, r))
       /\ \A op \in {"accept", "sync"} :
            /\ SF_vars(\E h \in Handlers : Doing(h, r, op) /\ Answered(h))
            /\ SF_vars(\E h \in Handlers : Doing(h, r, op) /\ call[h].reply # None /\ Applied(h))

FairSpec == Spec /\ Fairness

-----------------------------------------------------------------------------
(* The partner's reports decide over the money, and only the final one:    *)
(* no answer that was overtaken, no webhook out of order and no report     *)
(* after the end delivers or pays back what the partner has not.           *)
MoneyFollowsPartner ==
  \A r \in Requests : order[r].by = "partner" =>
    Now(request[r].partner_order) \in
      IF order[r].status = "cancelled" THEN {"failed", "cancelled"} ELSE {"success"}

(* The job reads a request again until it has ended; money is not left     *)
(* behind in an order that nothing looks at any more.  The one exception:  *)
(* the partner has carried out a refusal of the quote, and the buyer has   *)
(* accepted it before we knew.                                             *)
HeldMoneyIsWatched ==
  \A r \in Requests : order[r].status = "processing" =>
    \/ Open(r)
    \/ request[r].status = "rejected" /\ Now(request[r].partner_order) = "quote_rejected"

(* Overlapping creations may make several orders at the partner.  We have  *)
(* only one of them carried out, and only with the buyer's money in hand.  *)
AcceptedOnce ==
  \A o \in PartnerOrders : "awaiting_payment" \in ToSet(partner[o].log) =>
    request[partner[o].code].partner_order = o /\ Held(partner[o].code)

(* The money of a takedown keeps the contract of every other order.        *)
MoneyView ==
  [ r \in Requests |->
    [ phase |-> IF ~Held(r) THEN "none"
                ELSE IF order[r].status \in {"processing", "delivered"} THEN "held" ELSE "closed",
      total |-> IF Held(r) THEN Price ELSE 0,
      toBuyer |-> order[r].refunded, toSeller |-> order[r].paid ] ]
Escrow == INSTANCE EscrowContract WITH Orders <- Requests, Totals <- {Price}, escrow <- MoneyView
KeepsContract == Escrow!Spec

(* When the partner is done, the request ends, though every webhook is     *)
(* lost, also when the partner's order has been read too early.            *)
PartnerEndsRequest ==
  \A r \in Requests :
    []<>~( /\ Open(r) /\ request[r].partner_order # None
           /\ Now(request[r].partner_order) \in
                {"success", "failed", "rejected", "quote_rejected", "cancelled"} )

(* A buyer who has paid is not forgotten: again and again there is a time  *)
(* at which the partner's order is not the quote that was accepted.        *)
AcceptReachesPartner ==
  \A r \in Requests :
    []<>~(Held(r) /\ Now(request[r].partner_order) = "quoted")
=============================================================================
