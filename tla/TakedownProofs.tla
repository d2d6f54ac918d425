--------------------------- MODULE TakedownProofs ---------------------------
(***************************************************************************)
(* The money of a takedown follows the partner, for any number of requests,*)
(* partner orders and overlapping calls.  The argument: whatever reaches   *)
(* us is a status that the partner's order has had; its final statuses are *)
(* had last; and an order that was priced is never rejected on review.  So *)
(* an answer may be old, but one that moves money is not.                  *)
(***************************************************************************)
EXTENDS Takedown, TLAPS

USE PriceAssumption, BoundsAssumption

Final == {"success", "failed", "rejected", "quote_rejected", "cancelled"}
Seen(o) == ToSet(partner[o].log)

PartnerRow == [code : Requests \cup {None}, log : Seq(PartnerStatus)]

(* What a partner's order has been through.                                *)
LogInv(o) ==
  partner[o] # Unused =>
    /\ Now(o) \in Seen(o)
    /\ Seen(o) \cap Final \subseteq {Now(o)}
    /\ Now(o) = "pending_review" => Seen(o) = {"pending_review"}
    /\ "rejected" \in Seen(o) => "quoted" \notin Seen(o)
    /\ request[partner[o].code].status # None

(* What a request knows is what its partner's order has been.              *)
RequestInv(r) ==
  LET q == request[r]
      o == request[r].partner_order
  IN  /\ o # None <=> q.partner_status # None
      /\ o # None => /\ partner[o] # Unused /\ partner[o].code = r
                     /\ q.partner_status \in Seen(o)
                     /\ q.status # None
      /\ q.status = "quoted" \/ Held(r) => o # None /\ "quoted" \in Seen(o)
      /\ Held(r) => q.status \notin {"review", "quoted"}

(* Where the money of a request is.                                        *)
MoneyInv(r) ==
  LET o == request[r].partner_order
      m == order[r]
  IN  /\ m.status = None => m = NoOrder
      /\ m.status \in {"processing", "delivered"} => m.refunded = 0 /\ m.paid = 0
      /\ m.status = "processing" => m.by = None
      /\ m.by = "partner" => Now(o) \in IF m.status = "cancelled" THEN {"failed", "cancelled"}
                                        ELSE {"success"}
      /\ m.status = "processing" =>
           Open(r) \/ (request[r].status = "rejected" /\ Now(o) = "quote_rejected")

(* What a handler carries.                                                 *)
CallInv(c) ==
  c # Idle =>
    /\ request[c.req].status # None
    /\ c.op # "create" => c.order # None /\ request[c.req].partner_order = c.order
    /\ c.op = "accept" \/ c.held => Held(c.req)
    /\ c.step = "list" => c.op = "create"
    /\ c.step = "read" => c.op \in {"accept", "sync"}
    /\ c.op = "sync" => c.step \in {"read", "apply"}
    /\ c.step = "apply" /\ c.op \in DOMAIN Allowed => c.reply # None
    /\ c.step = "apply" /\ c.reply # None =>
         /\ c.order # None
         /\ partner[c.order] # Unused /\ partner[c.order].code = c.req
         /\ c.reply \in Seen(c.order)

(* An order that was accepted is the one we know, and it is paid for.      *)
AcceptedInv(o) ==
  "awaiting_payment" \in Seen(o) =>
    request[partner[o].code].partner_order = o /\ Held(partner[o].code)

Types ==
  /\ request \in [Requests -> Request \cup {NoRequest}]
  /\ order \in [Requests -> Order]
  /\ partner \in [PartnerOrders -> PartnerRow]
  /\ \A o \in PartnerOrders :
       partner[o] = Unused \/ (partner[o].code \in Requests /\ Len(partner[o].log) \in 1..MaxMoves)
  /\ heard \subseteq PartnerOrders \X (0..MaxMoves - 1)

Core ==
  /\ Types
  /\ \A o \in PartnerOrders : LogInv(o) /\ AcceptedInv(o)
  /\ \A r \in Requests : RequestInv(r) /\ MoneyInv(r)

Calls == call \in [Handlers -> Call \cup {Idle}] /\ \A h \in Handlers : CallInv(call[h])

IInv == Core /\ Calls

-----------------------------------------------------------------------------
(* Sequences: their elements, and the last one.                            *)
LEMMA SeqEnter ==
  ASSUME NEW S, NEW log \in Seq(S), NEW s \in S
  PROVE  /\ Append(log, s) \in Seq(S) /\ Len(Append(log, s)) = Len(log) + 1
         /\ ToSet(Append(log, s)) = ToSet(log) \cup {s}
         /\ Last(Append(log, s)) = s
<1>1. /\ Append(log, s) \in Seq(S) /\ Len(Append(log, s)) = Len(log) + 1
      /\ Append(log, s)[Len(log) + 1] = s
      /\ \A k \in 1..Len(log) : Append(log, s)[k] = log[k]
      /\ DOMAIN log = 1..Len(log) /\ DOMAIN Append(log, s) = 1..Len(log) + 1
  OBVIOUS
<1> QED
  BY <1>1 DEF ToSet, Last

LEMMA SeqOne == ASSUME NEW s PROVE ToSet(<<s>>) = {s} /\ Last(<<s>>) = s
  BY DEF ToSet, Last

LEMMA SeqAt ==
  ASSUME NEW S, NEW log \in Seq(S), NEW k \in Nat, k < Len(log)
  PROVE  log[k + 1] \in ToSet(log)
<1>1. Len(log) \in Nat /\ DOMAIN log = 1..Len(log)
  OBVIOUS
<1>2. k + 1 \in 1..Len(log)
  BY <1>1
<1> QED
  BY <1>1, <1>2 DEF ToSet

(* The invariant says what the properties say.                             *)
LEMMA Consequences == IInv => MoneyFollowsPartner /\ HeldMoneyIsWatched /\ AcceptedOnce
  BY DEF IInv, Core, MoneyInv, AcceptedInv, Seen, MoneyFollowsPartner, HeldMoneyIsWatched, AcceptedOnce

LEMMA Typed == IInv => TypeOK
  BY DEF IInv, Core, Types, Calls, PartnerRow, TypeOK

-----------------------------------------------------------------------------
(* What no step takes back.                                                *)
Grows ==
  /\ \A r \in Requests :
       /\ request[r].status # None => request'[r].status # None
       /\ request[r].partner_order # None => request'[r].partner_order = request[r].partner_order
       /\ Held(r) => Held(r)'
  /\ \A o \in PartnerOrders : partner[o] # Unused =>
       partner'[o] # Unused /\ partner'[o].code = partner[o].code /\ Seen(o) \subseteq Seen(o)'

LEMMA CallGrows ==
  ASSUME NEW c \in Call \cup {Idle}, CallInv(c), Grows
  PROVE  CallInv(c)'
<1>1. CASE c = Idle
  BY <1>1 DEF CallInv
<1>2. CASE c # Idle
  <2>1. c.req \in Requests /\ c.order \in PartnerOrders \cup {None}
    BY <1>2 DEF Call
  <2> QED
    BY <1>2, <2>1 DEF CallInv, Grows
<1> QED
  BY <1>1, <1>2

(* Handlers that are not involved.                                         *)
LEMMA CallsSame == ASSUME Calls, Grows, UNCHANGED call PROVE Calls'
  BY CallGrows DEF Calls

LEMMA CallsStep ==
  ASSUME Calls, Grows, NEW h \in Handlers, NEW c \in Call \cup {Idle}, CallInv(c)',
         call' = [call EXCEPT ![h] = c]
  PROVE  Calls'
<1>1. call' \in [Handlers -> Call \cup {Idle}]
  BY DEF Calls
<1>2. ASSUME NEW g \in Handlers PROVE CallInv(call[g])'
  <2>1. CASE g = h
    BY <2>1 DEF Calls
  <2>2. CASE g # h
    <3>1. call'[g] = call[g] /\ call[g] \in Call \cup {Idle} /\ CallInv(call[g])
      BY <2>2 DEF Calls
    <3>2. \A c2 \in Call \cup {Idle} : CallInv(c2) => CallInv(c2)'
      BY CallGrows
    <3> QED
      BY <3>1, <3>2
  <2> QED
    BY <2>1, <2>2
<1> QED
  BY <1>1, <1>2 DEF Calls

(* A handler whose step changes nothing else.                              *)
LEMMA Quiet ==
  ASSUME IInv, NEW h \in Handlers, NEW c \in Call \cup {Idle}, CallInv(c),
         call' = [call EXCEPT ![h] = c], UNCHANGED <<request, order, partner, heard>>
  PROVE  IInv'
<1>1. Grows
  BY DEF Grows, Held, Seen
<1>2. Calls'
  BY <1>1, CallGrows, CallsStep DEF IInv
<1>3. Core'
  BY DEF IInv, Core, Types, LogInv, AcceptedInv, RequestInv, MoneyInv, Held, Open, Seen, Now
<1> QED
  BY <1>2, <1>3 DEF IInv

LEMMA IdleCall == Idle \in Call \cup {Idle} /\ CallInv(Idle)
  BY DEF CallInv

-----------------------------------------------------------------------------
(* The partner's order enters another status.                              *)
LEMMA EnterStep ==
  ASSUME IInv, NEW o \in PartnerOrders, NEW s \in PartnerStatus \ {"pending_review"},
         partner[o] # Unused, Now(o) \notin Final, s = "rejected" => Now(o) = "pending_review",
         s = "awaiting_payment" =>
           request[partner[o].code].partner_order = o /\ Held(partner[o].code),
         Enter(o, s), UNCHANGED <<request, order, heard>>
  PROVE  Core' /\ Grows /\ s \in Seen(o)'
<1> DEFINE log == partner[o].log
<1>1. log \in Seq(PartnerStatus) /\ Len(log) < MaxMoves /\ Len(log) \in 1..MaxMoves
  BY DEF Enter, IInv, Core, Types, PartnerRow
<1>2. /\ Append(log, s) \in Seq(PartnerStatus) /\ Len(Append(log, s)) = Len(log) + 1
      /\ ToSet(Append(log, s)) = ToSet(log) \cup {s} /\ Last(Append(log, s)) = s
  BY <1>1, SeqEnter
<1>3. /\ partner' \in [PartnerOrders -> PartnerRow]
      /\ partner'[o].code = partner[o].code /\ partner'[o].log = Append(log, s)
      /\ \A p \in PartnerOrders : p # o => partner'[p] = partner[p]
  BY <1>2 DEF Enter, IInv, Core, Types, PartnerRow
<1>4. Seen(o)' = Seen(o) \cup {s} /\ Now(o)' = s
  BY <1>2, <1>3 DEF Seen, Now
<1>5. \A p \in PartnerOrders : p # o => Seen(p)' = Seen(p) /\ Now(p)' = Now(p)
  BY <1>3 DEF Seen, Now
<1>6. partner'[o] # Unused
  BY <1>2, <1>3, <1>1 DEF Unused
<1>7. \A r \in Requests : Held(r)' = Held(r) /\ Open(r)' = Open(r)
  BY DEF Held, Open
<1>8. Grows
  BY <1>3, <1>4, <1>5, <1>6, <1>7 DEF Grows
<1>9. Types'
  <2>1. partner[o].code \in Requests
    BY DEF IInv, Core, Types
  <2>2. Len(partner'[o].log) \in 1..MaxMoves
    BY <1>1, <1>2, <1>3
  <2> QED
    BY <1>3, <2>1, <2>2 DEF IInv, Core, Types
<1>10. ASSUME NEW p \in PartnerOrders PROVE LogInv(p)' /\ AcceptedInv(p)'
  <2>1. LogInv(p) /\ AcceptedInv(p)
    BY DEF IInv, Core
  <2>2. CASE p = o
    <3>1. /\ Now(o) \in Seen(o) /\ Seen(o) \cap Final \subseteq {Now(o)}
          /\ Now(o) = "pending_review" => Seen(o) = {"pending_review"}
          /\ "rejected" \in Seen(o) => "quoted" \notin Seen(o)
          /\ request[partner[o].code].status # None
      BY <2>1, <2>2 DEF LogInv
    <3>2. Seen(o) \cap Final = {}
      BY <3>1
    <3>3. LogInv(o)'
      BY <1>3, <1>4, <3>1, <3>2 DEF LogInv, Final
    <3>4. AcceptedInv(o)'
      BY <1>3, <1>4, <1>7, <2>1, <2>2 DEF AcceptedInv, Held
    <3> QED
      BY <2>2, <3>3, <3>4
  <2>3. CASE p # o
    BY <1>3, <1>5, <2>1, <2>3 DEF LogInv, AcceptedInv, Held
  <2> QED
    BY <2>2, <2>3
<1>11. ASSUME NEW r \in Requests PROVE RequestInv(r)' /\ MoneyInv(r)'
  <2>1. RequestInv(r) /\ MoneyInv(r)
    BY DEF IInv, Core
  <2>2. request[r].partner_order \in PartnerOrders \cup {None}
    BY DEF IInv, Core, Types, Request, NoRequest
  <2>3. RequestInv(r)'
    BY <1>7, <1>8, <2>1, <2>2 DEF RequestInv, Grows
  <2>4. MoneyInv(r)'
    <3>1. request[r].partner_order = o => Now(o) \notin Final
      OBVIOUS
    <3>2. order[r].by = "partner" => request[r].partner_order \in PartnerOrders \ {o}
      <4>1. order[r].by = "partner" => Held(r)
        BY <2>1 DEF MoneyInv, Held, NoOrder, None
      <4> QED
        BY <2>1, <2>2, <4>1 DEF RequestInv, MoneyInv, Final
    <3>3. order[r].status = "processing" /\ ~Open(r) =>
            request[r].partner_order \in PartnerOrders \ {o}
      BY <2>1, <2>2 DEF RequestInv, MoneyInv, Final, Held, None
    <3> QED
      BY <1>5, <1>7, <2>1, <3>2, <3>3 DEF MoneyInv
  <2> QED
    BY <2>3, <2>4
<1> QED
  BY <1>4, <1>8, <1>9, <1>10, <1>11 DEF Core

-----------------------------------------------------------------------------
(* The rules of lifecycle.py: what becomes of a partner's status.          *)
LEMMA StatusFor ==
  ASSUME NEW s \in PartnerStatus, NEW priced \in BOOLEAN, NEW held \in BOOLEAN
  PROVE  /\ status_for(s, priced, held) \in Status
         /\ status_for(s, priced, held) = "done" => s = "success"
         /\ status_for(s, priced, held) = "failed" => s = "failed"
         /\ status_for(s, priced, held) = "cancelled" => s = "cancelled"
         /\ status_for(s, priced, held) = "declined" => s = "rejected"
         /\ status_for(s, priced, held) = "rejected" => s = "quote_rejected"
         /\ status_for(s, priced, held) = "quoted" => s = "quoted"
         /\ held => status_for(s, priced, held) \notin {"review", "quoted"}
<1> DEFINE new == status_for(s, priced, held)
<1>1. CASE s \in {"quoted", "pending_review"}
  BY <1>1 DEF status_for, Status, TERMINAL, Direct
<1>2. CASE s \notin {"quoted", "pending_review"}
  <2>1. new = Direct[s]
    BY <1>2 DEF status_for
  <2>2. s \in {"awaiting_payment", "processing", "in_warranty", "warranty_pending", "success",
               "failed", "rejected", "quote_rejected", "cancelled"}
    BY <1>2 DEF PartnerStatus
  <2> QED
    BY <2>1, <2>2 DEF Direct, Status, TERMINAL
<1> QED
  BY <1>1, <1>2

(* What the order becomes with a new status of the request.                *)
LEMMA SettleMoney ==
  ASSUME NEW m \in Order, NEW new \in Status
  PROVE  LET n == _settle_money(m, new)
         IN  /\ n \in Order
             /\ n = m \/ ( /\ m.status = "processing" /\ n.by = "partner" /\ n.paid = m.paid
                          /\ \/ /\ new \in {"failed", "cancelled"} /\ n.status = "cancelled"
                                /\ n.refunded = Price
                             \/ new = "done" /\ n.status = "delivered" /\ n.refunded = m.refunded )
             /\ n = m => m.status # "processing" \/ new \notin {"failed", "cancelled", "done"}
<1>1. Price \in 0..Price
  OBVIOUS
<1> QED
  BY <1>1 DEF _settle_money, REFUND_ON, Order, None

(* Partner orders, and requests, that are not involved.                    *)
LEMMA LogsStep ==
  ASSUME IInv, Grows, UNCHANGED partner
  PROVE  \A p \in PartnerOrders : LogInv(p)' /\ AcceptedInv(p)'
<1> SUFFICES ASSUME NEW p \in PartnerOrders PROVE LogInv(p)' /\ AcceptedInv(p)'
  OBVIOUS
<1>1. LogInv(p) /\ AcceptedInv(p) /\ (partner[p] # Unused => partner[p].code \in Requests)
  BY DEF IInv, Core, Types
<1>2. Seen(p)' = Seen(p) /\ Now(p)' = Now(p)
  BY DEF Seen, Now
<1>3. partner[p] = Unused => Seen(p) = {}
  BY DEF Seen, Unused, ToSet
<1>4. p # None
  BY NoneAssumption
<1>5. LogInv(p)'
  BY <1>1, <1>2 DEF LogInv, Grows
<1>6. AcceptedInv(p)'
  BY <1>1, <1>2, <1>3, <1>4 DEF AcceptedInv, Grows
<1> QED
  BY <1>5, <1>6

LEMMA OtherRequest ==
  ASSUME IInv, NEW u \in Requests, request'[u] = request[u], order'[u] = order[u],
         UNCHANGED partner
  PROVE  RequestInv(u)' /\ MoneyInv(u)'
<1>1. RequestInv(u) /\ MoneyInv(u)
  BY DEF IInv, Core
<1>2. Held(u)' = Held(u) /\ Open(u)' = Open(u)
  BY DEF Held, Open
<1>3. RequestInv(u)'
  BY <1>1, <1>2 DEF RequestInv, Seen
<1>4. MoneyInv(u)'
  BY <1>1, <1>2 DEF MoneyInv, Now
<1> QED
  BY <1>3, <1>4

(* An answer or a webhook tells request r the status s, which the partner's*)
(* order o has had.                                                        *)
Tells(r, o, s) ==
  /\ request[r].status # None /\ request[r].partner_order \in {None, o}
  /\ partner[o] # Unused /\ partner[o].code = r /\ s \in Seen(o)

LEMMA Untold ==
  ASSUME IInv, NEW r \in Requests, NEW o \in PartnerOrders, NEW s, Tells(r, o, s)
  PROVE  /\ request[r] \in Request /\ order[r] \in Order /\ s \in PartnerStatus
         /\ RequestInv(r) /\ MoneyInv(r) /\ LogInv(o)
         /\ s \in Final => Now(o) = s
<1>1. partner[o].log \in Seq(PartnerStatus)
  BY DEF IInv, Core, Types, PartnerRow
<1>2. s \in PartnerStatus
  BY <1>1 DEF Tells, Seen, ToSet
<1>3. request[r] \in Request
  BY DEF Tells, IInv, Core, Types, NoRequest
<1>4. LogInv(o) /\ RequestInv(r) /\ MoneyInv(r) /\ order[r] \in Order
  BY DEF IInv, Core, Types
<1> QED
  BY <1>2, <1>3, <1>4 DEF Tells, LogInv

LEMMA ApplyStep ==
  ASSUME IInv, NEW r \in Requests, NEW o \in PartnerOrders, NEW s, Tells(r, o, s), NEW q,
         q \in {request[r], [request[r] EXCEPT !.failed = FALSE]},
         _apply_order_dict(q, r, o, s), UNCHANGED partner,
         heard' \subseteq PartnerOrders \X (0..MaxMoves - 1)
  PROVE  Core' /\ Grows
<1> DEFINE bound == [q EXCEPT !.partner_order = IF @ = None THEN o ELSE @]
           new == IF bound.status \in TERMINAL THEN bound.status
                  ELSE status_for(s, bound.priced, Held(r))
           row == [bound EXCEPT !.partner_status = s, !.status = new]
           m == order[r]
<1>1. /\ request[r] \in Request /\ m \in Order /\ s \in PartnerStatus
      /\ RequestInv(r) /\ MoneyInv(r) /\ LogInv(o)
      /\ s \in Final => Now(o) = s
  BY Untold
<1>2. /\ q \in Request /\ q.status = request[r].status
      /\ q.partner_order = request[r].partner_order
  BY <1>1 DEF Request
<1>3. bound \in Request /\ bound.partner_order = o /\ bound.status = request[r].status
  BY <1>2 DEF Request, Tells
<1>4. /\ request' = [request EXCEPT ![r] = row]
      /\ order' = IF new = bound.status THEN order ELSE [order EXCEPT ![r] = _settle_money(@, new)]
  BY DEF _apply_order_dict, _apply
<1>5. /\ new \in Status
      /\ new # bound.status =>
           /\ bound.status \notin TERMINAL
           /\ new = "done" => s = "success"
           /\ new = "failed" => s = "failed"
           /\ new = "cancelled" => s = "cancelled"
           /\ new = "declined" => s = "rejected"
           /\ new = "rejected" => s = "quote_rejected"
           /\ new = "quoted" => s = "quoted"
           /\ Held(r) => new \notin {"review", "quoted"}
  <2>1. bound.priced \in BOOLEAN /\ bound.status \in Status /\ Held(r) \in BOOLEAN
    BY <1>3 DEF Request, Held
  <2> HIDE DEF bound
  <2> QED
    BY <1>1, <2>1, StatusFor
<1> HIDE DEF new
<1>6. row \in Request /\ row.partner_order = o /\ row.partner_status = s /\ row.status = new
  BY <1>1, <1>3, <1>5 DEF Request
<1> HIDE DEF row
<1>7. /\ request'[r] = row
      /\ \A u \in Requests : u # r => request'[u] = request[u] /\ order'[u] = order[u]
      /\ request' \in [Requests -> Request \cup {NoRequest}]
  BY <1>4, <1>6 DEF IInv, Core, Types
<1>8. /\ order' \in [Requests -> Order]
      /\ \/ order'[r] = m /\ (new = bound.status \/ m.status # "processing"
                                                 \/ new \notin {"failed", "cancelled", "done"})
         \/ /\ new # bound.status /\ m.status = "processing" /\ order'[r].by = "partner"
            /\ order'[r].paid = m.paid
            /\ \/ /\ new \in {"failed", "cancelled"} /\ order'[r].status = "cancelled"
                  /\ order'[r].refunded = Price
               \/ new = "done" /\ order'[r].status = "delivered" /\ order'[r].refunded = m.refunded
  <2>1. CASE new = bound.status
    BY <1>4, <2>1 DEF IInv, Core, Types
  <2>2. CASE new # bound.status
    <3>1. order' = [order EXCEPT ![r] = _settle_money(m, new)]
      BY <1>4, <2>2
    <3>2. order'[r] = _settle_money(m, new)
      BY <3>1 DEF IInv, Core, Types
    <3> HIDE DEF m, bound
    <3>3. _settle_money(m, new) \in Order
      BY <1>1, <1>5, SettleMoney
    <3>4. order' \in [Requests -> Order]
      BY <3>1, <3>3 DEF IInv, Core, Types
    <3> QED
      BY <1>1, <1>5, <2>2, <3>2, <3>4, SettleMoney
  <2> QED
    BY <2>1, <2>2
<1> HIDE DEF bound
<1>9. \A p \in PartnerOrders : Seen(p)' = Seen(p) /\ Now(p)' = Now(p)
  BY DEF Seen, Now
<1>10. \A u \in Requests : Held(u)' = Held(u)
  BY <1>7, <1>8 DEF Held, None
<1>11. request[r].status # None /\ new # None /\ partner[o] # Unused /\ partner[o].code = r /\ s \in Seen(o)
  BY <1>5 DEF Tells, Status, TERMINAL, None
<1>12. Grows
  BY <1>6, <1>7, <1>9, <1>10, <1>11 DEF Grows, Tells
<1>13. Types'
  BY <1>7, <1>8 DEF IInv, Core, Types
<1>14. \A p \in PartnerOrders : LogInv(p)' /\ AcceptedInv(p)'
  BY <1>12, LogsStep
<1>15. ASSUME NEW u \in Requests PROVE RequestInv(u)' /\ MoneyInv(u)'
  <2>1. CASE u = r
    <3>1. "rejected" \in Seen(o) => "quoted" \notin Seen(o)
      BY <1>1, <1>11 DEF LogInv
    <3>2. s # None /\ o # None
      BY <1>1, NoneAssumption DEF PartnerStatus, None
    <3>3. RequestInv(r)'
      BY <1>1, <1>3, <1>5, <1>6, <1>7, <1>9, <1>10, <1>11, <3>2 DEF RequestInv, Tells
    <3>4. MoneyInv(r)'
      <4>1. m.by = "partner" \/ m.status = "processing" => request[r].partner_order = o /\ Held(r)
        BY <1>1, <1>11, <3>2 DEF MoneyInv, RequestInv, Held, NoOrder, None, Tells
      <4>2. CASE order'[r] = m
        <5>1. m.status = "processing" =>
                Open(r)' \/ (new = "rejected" /\ Now(o) = "quote_rejected")
          <6>1. CASE new = bound.status
            BY <1>1, <1>3, <1>6, <1>7, <4>1, <6>1 DEF MoneyInv, Open
          <6>2. CASE new # bound.status
            <7>1. Held(r) => new # "declined"
              BY <1>1, <1>5, <1>11, <3>1, <6>2 DEF RequestInv, Tells
            <7> QED
              BY <1>1, <1>5, <1>6, <1>7, <1>8, <1>11, <4>1, <4>2, <6>2, <7>1
                 DEF Open, TERMINAL, Final, None
          <6> QED
            BY <6>1, <6>2
        <5> QED
          BY <1>1, <1>6, <1>7, <1>9, <4>1, <4>2, <5>1 DEF MoneyInv
      <4>3. CASE order'[r] # m
        <5>1. m.paid = 0 /\ m.refunded = 0
          BY <1>1, <1>8, <4>3 DEF MoneyInv
        <5>2. new # bound.status /\ (s \in {"failed", "cancelled"} \/ s = "success")
          BY <1>5, <1>8, <4>3
        <5> QED
          BY <1>1, <1>5, <1>6, <1>7, <1>8, <1>9, <4>3, <5>1, <5>2 DEF MoneyInv, Final, None
      <4> QED
        BY <4>2, <4>3
    <3> QED
      BY <2>1, <3>3, <3>4
  <2>2. CASE u # r
    BY <1>7, <2>2, OtherRequest
  <2> QED
    BY <2>1, <2>2
<1> QED
  BY <1>12, <1>13, <1>14, <1>15 DEF Core

-----------------------------------------------------------------------------
(* Requests that only the buyer or an admin changes, and their orders.     *)
LEMMA CreateRequestStep ==
  ASSUME IInv, NEW h \in Handlers, NEW r \in Requests, create_request(h, r) PROVE IInv'
<1> DEFINE row == [NoRequest EXCEPT !.status = "review"]
<1>1. /\ request[r] = NoRequest /\ request' = [request EXCEPT ![r] = row]
      /\ call' = [call EXCEPT ![h] = Creation(r, FALSE)]
      /\ UNCHANGED <<order, partner, heard>>
  BY DEF create_request, Begin
<1>2. row \in Request /\ row.status = "review" /\ row.partner_status = None /\ row.partner_order = None
  BY DEF NoRequest, Request, Status
<1> HIDE DEF row
<1>3. /\ request'[r] = row /\ \A u \in Requests : u # r => request'[u] = request[u]
      /\ request' \in [Requests -> Request \cup {NoRequest}]
  BY <1>1, <1>2 DEF IInv, Core, Types
<1>4. /\ request[r].status = None /\ request[r].partner_order = None
      /\ request[r].partner_status = None /\ RequestInv(r) /\ MoneyInv(r)
  BY <1>1 DEF NoRequest, IInv, Core
<1>5. ~Held(r) /\ order[r] = NoOrder
  BY <1>4 DEF RequestInv, MoneyInv, Held
<1>6. \A p \in PartnerOrders : Seen(p)' = Seen(p) /\ Now(p)' = Now(p)
  BY <1>1 DEF Seen, Now
<1>7. \A u \in Requests : Held(u)' = Held(u)
  BY <1>1 DEF Held
<1>8. Grows
  BY <1>1, <1>2, <1>3, <1>4, <1>6, <1>7 DEF Grows, None
<1>9. Core'
  <2>1. Types'
    BY <1>1, <1>3 DEF IInv, Core, Types
  <2>2. \A p \in PartnerOrders : LogInv(p)' /\ AcceptedInv(p)'
    BY <1>1, <1>8, LogsStep
  <2>3. ASSUME NEW u \in Requests PROVE RequestInv(u)' /\ MoneyInv(u)'
    <3>1. CASE u = r
      BY <1>1, <1>2, <1>3, <1>5, <3>1 DEF RequestInv, MoneyInv, Held, NoOrder, None
    <3>2. CASE u # r
      BY <1>1, <1>3, <3>2, OtherRequest
    <3> QED
      BY <3>1, <3>2
  <2> QED
    BY <2>1, <2>2, <2>3 DEF Core
<1>10. Creation(r, FALSE) \in Call /\ CallInv(Creation(r, FALSE))'
  BY <1>2, <1>3 DEF Creation, Idle, Call, CallInv, Allowed, None
<1>11. Calls'
  BY <1>1, <1>8, <1>10, CallsStep DEF IInv
<1> QED
  BY <1>9, <1>11 DEF IInv

LEMMA SetPriceStep == ASSUME IInv, NEW r \in Requests, set_price(r) PROVE IInv'
<1> DEFINE row == [request[r] EXCEPT !.priced = TRUE, !.status = "quoted"]
<1>1. /\ request[r].status = "review" /\ request[r].partner_status = "quoted"
      /\ request' = [request EXCEPT ![r] = row]
      /\ UNCHANGED <<order, partner, heard, call>>
  BY DEF set_price
<1>2. request[r] \in Request /\ RequestInv(r) /\ MoneyInv(r)
  BY <1>1 DEF IInv, Core, Types, NoRequest, None
<1>3. /\ row \in Request /\ row.status = "quoted" /\ row.partner_status = "quoted"
      /\ row.partner_order = request[r].partner_order
  BY <1>1, <1>2 DEF Request, Status
<1> HIDE DEF row
<1>4. /\ request'[r] = row /\ \A u \in Requests : u # r => request'[u] = request[u]
      /\ request' \in [Requests -> Request \cup {NoRequest}]
  BY <1>1, <1>3 DEF IInv, Core, Types
<1>5. ~Held(r)
  BY <1>1, <1>2 DEF RequestInv
<1>6. \A p \in PartnerOrders : Seen(p)' = Seen(p) /\ Now(p)' = Now(p)
  BY <1>1 DEF Seen, Now
<1>7. \A u \in Requests : Held(u)' = Held(u)
  BY <1>1 DEF Held
<1>8. Grows
  BY <1>1, <1>3, <1>4, <1>6, <1>7 DEF Grows, None
<1>9. Core'
  <2>1. Types'
    BY <1>1, <1>4 DEF IInv, Core, Types
  <2>2. \A p \in PartnerOrders : LogInv(p)' /\ AcceptedInv(p)'
    BY <1>1, <1>8, LogsStep
  <2>3. ASSUME NEW u \in Requests PROVE RequestInv(u)' /\ MoneyInv(u)'
    <3>1. CASE u = r
      <4>1. order[r] = NoOrder /\ order'[r] = NoOrder /\ request[r].partner_order # None /\ "quoted" \in Seen(request[r].partner_order)
        BY <1>1, <1>2, <1>5 DEF RequestInv, MoneyInv, Held, None
      <4> QED
        BY <1>1, <1>2, <1>3, <1>4, <1>5, <1>7, <3>1, <4>1 DEF RequestInv, MoneyInv, NoOrder, Seen, None
    <3>2. CASE u # r
      BY <1>1, <1>4, <3>2, OtherRequest
    <3> QED
      BY <3>1, <3>2
  <2> QED
    BY <2>1, <2>2, <2>3 DEF Core
<1>10. Calls'
  BY <1>1, <1>8, CallsSame DEF IInv
<1> QED
  BY <1>9, <1>10 DEF IInv

LEMMA AcceptQuoteStep ==
  ASSUME IInv, NEW h \in Handlers, NEW r \in Requests, accept_quote(h, r) PROVE IInv'
<1> DEFINE row == [request[r] EXCEPT !.status = "started"]
           m == [order[r] EXCEPT !.status = "processing"]
<1>0. PICK o : o = request[r].partner_order
  OBVIOUS
<1>1. /\ request[r].status = "quoted"
      /\ request' = [request EXCEPT ![r] = row] /\ order' = [order EXCEPT ![r] = m]
      /\ call' = [call EXCEPT ![h] = Acceptance(r, o)]
      /\ UNCHANGED <<partner, heard>>
  BY <1>0 DEF accept_quote, Begin
<1>2. request[r] \in Request /\ RequestInv(r) /\ MoneyInv(r)
  BY <1>1 DEF IInv, Core, Types, NoRequest, None
<1>3. /\ row \in Request /\ row.status = "started"
      /\ row.partner_status = request[r].partner_status /\ row.partner_order = o
  BY <1>0, <1>2 DEF Request, Status
<1> HIDE DEF row
<1>4. order[r] = NoOrder /\ ~Held(r)
  BY <1>1, <1>2 DEF RequestInv, MoneyInv, Held
<1>5. m \in Order /\ m.status = "processing" /\ m.refunded = 0 /\ m.paid = 0 /\ m.by = None
  BY <1>4 DEF NoOrder, Order
<1> HIDE DEF m
<1>6. /\ request'[r] = row /\ order'[r] = m
      /\ \A u \in Requests : u # r => request'[u] = request[u] /\ order'[u] = order[u]
      /\ request' \in [Requests -> Request \cup {NoRequest}] /\ order' \in [Requests -> Order]
  BY <1>1, <1>3, <1>5 DEF IInv, Core, Types
<1>7. Held(r)' /\ Open(r)'
  BY <1>3, <1>5, <1>6 DEF Held, Open, TERMINAL, None
<1>8. o # None /\ o \in PartnerOrders /\ "quoted" \in Seen(o)
  BY <1>0, <1>1, <1>2 DEF RequestInv, Request
<1>9. Grows
  <2>1. \A u \in Requests : Held(u) => Held(u)'
    BY <1>6, <1>7 DEF Held
  <2>2. \A u \in Requests : request[u].partner_order # None =>
          request'[u].partner_order = request[u].partner_order
    BY <1>0, <1>3, <1>6
  <2>3. \A u \in Requests : request[u].status # None => request'[u].status # None
    BY <1>3, <1>6 DEF None
  <2>4. \A p \in PartnerOrders : Seen(p)' = Seen(p)
    BY <1>1 DEF Seen
  <2> QED
    BY <1>1, <2>1, <2>2, <2>3, <2>4 DEF Grows
<1>10. Types'
  BY <1>1, <1>6 DEF IInv, Core, Types
<1>11. \A p \in PartnerOrders : LogInv(p)' /\ AcceptedInv(p)'
  BY <1>1, <1>9, LogsStep
<1>12. ASSUME NEW u \in Requests PROVE RequestInv(u)' /\ MoneyInv(u)'
  <2>1. CASE u = r
    <3>1. RequestInv(r)'
      BY <1>0, <1>1, <1>2, <1>3, <1>6, <1>7, <1>8 DEF RequestInv, Seen, None
    <3>2. MoneyInv(r)'
      BY <1>5, <1>6, <1>7 DEF MoneyInv, None
    <3> QED
      BY <2>1, <3>1, <3>2
  <2>2. CASE u # r
    BY <1>1, <1>6, <2>2, OtherRequest
  <2> QED
    BY <2>1, <2>2
<1>13. Acceptance(r, o) \in Call
  BY <1>8 DEF Acceptance, Idle, Call
<1>14. CallInv(Acceptance(r, o))'
  BY <1>3, <1>6, <1>7, <1>8 DEF Acceptance, Idle, CallInv, Allowed, None
<1>15. Calls'
  BY <1>1, <1>9, <1>13, <1>14, CallsStep DEF IInv
<1> QED
  BY <1>10, <1>11, <1>12, <1>15 DEF IInv, Core

(* Staff, and the release of the escrow, change an order only.             *)
LEMMA StaffStep ==
  ASSUME IInv, NEW r \in Requests, deliver_order(r) \/ refund_order(r) \/ release_escrow(r)
  PROVE  IInv'
<1>1. order[r] \in Order /\ RequestInv(r) /\ MoneyInv(r) /\ Price \in 0..Price
  BY DEF IInv, Core, Types
<1>2. PICK m \in Order :
        /\ order' = [order EXCEPT ![r] = m] /\ order[r].status \in {"processing", "delivered"}
        /\ m.status \notin {None, "processing"}
        /\ m.status = "delivered" => m.refunded = 0 /\ m.paid = 0
        /\ m.by = "partner" => m.status = "completed" /\ order[r].by = "partner"
                              /\ order[r].status = "delivered"
  <2>1. CASE deliver_order(r)
    <3> DEFINE m == [order[r] EXCEPT !.status = "delivered", !.by = "staff"]
    <3>1. m \in Order
      BY <1>1 DEF Order, None
    <3>2. /\ m.status = "delivered" /\ m.by = "staff"
          /\ m.refunded = order[r].refunded /\ m.paid = order[r].paid
      BY <1>1 DEF Order
    <3>3. order' = [order EXCEPT ![r] = m] /\ order[r].status = "processing"
      BY <2>1 DEF deliver_order
    <3> HIDE DEF m
    <3> QED
      BY <1>1, <3>1, <3>2, <3>3 DEF MoneyInv, None
  <2>2. CASE refund_order(r)
    <3> DEFINE m == [order[r] EXCEPT !.status = IF @ = "delivered" THEN "refunded" ELSE "cancelled",
                                     !.refunded = Price, !.by = "staff"]
    <3>1. m \in Order
      BY <1>1 DEF Order, None
    <3>2. m.status \in {"refunded", "cancelled"} /\ m.by = "staff"
      BY <1>1 DEF Order
    <3>3. order' = [order EXCEPT ![r] = m] /\ order[r].status \in {"processing", "delivered"}
      BY <2>2 DEF refund_order
    <3> HIDE DEF m
    <3> QED
      BY <3>1, <3>2, <3>3 DEF None
  <2>3. CASE release_escrow(r)
    <3> DEFINE m == [order[r] EXCEPT !.status = "completed", !.paid = Price]
    <3>1. m \in Order
      BY <1>1 DEF Order, None
    <3>2. m.status = "completed" /\ m.by = order[r].by
      BY <1>1 DEF Order
    <3>3. order' = [order EXCEPT ![r] = m] /\ order[r].status = "delivered"
      BY <2>3 DEF release_escrow
    <3> HIDE DEF m
    <3> QED
      BY <3>1, <3>2, <3>3 DEF None
  <2> QED
    BY <2>1, <2>2, <2>3
<1>3. UNCHANGED <<request, partner, heard, call>>
  BY DEF deliver_order, refund_order, release_escrow
<1>4. /\ order'[r] = m /\ \A u \in Requests : u # r => order'[u] = order[u]
      /\ order' \in [Requests -> Order]
  BY <1>2 DEF IInv, Core, Types
<1>5. Held(r) /\ \A u \in Requests : Held(u)' = Held(u)
  BY <1>2, <1>4 DEF Held, None
<1>6. Grows
  BY <1>3, <1>5 DEF Grows, Seen
<1>7. Types'
  BY <1>3, <1>4 DEF IInv, Core, Types
<1>8. \A p \in PartnerOrders : LogInv(p)' /\ AcceptedInv(p)'
  BY <1>3, <1>6, LogsStep
<1>9. ASSUME NEW u \in Requests PROVE RequestInv(u)' /\ MoneyInv(u)'
  <2>1. CASE u = r
    <3>1. RequestInv(r)'
      BY <1>1, <1>3, <1>5 DEF RequestInv, Seen
    <3>2. MoneyInv(r)'
      BY <1>1, <1>2, <1>3, <1>4 DEF MoneyInv, Now, None
    <3> QED
      BY <2>1, <3>1, <3>2
  <2>2. CASE u # r
    BY <1>3, <1>4, <2>2, OtherRequest
  <2> QED
    BY <2>1, <2>2
<1>10. Calls'
  BY <1>3, <1>6, CallsSame DEF IInv
<1> QED
  BY <1>7, <1>8, <1>9, <1>10 DEF IInv, Core

-----------------------------------------------------------------------------
(* Handlers begin.                                                         *)
LEMMA SyncRequestStep ==
  ASSUME IInv, NEW h \in Handlers, NEW r \in Requests, sync_request(h, r) PROVE IInv'
<1>1. request[r] \in Request /\ RequestInv(r) /\ request[r].status # None
  BY DEF sync_request, IInv, Core, Types, Request, Status, TERMINAL, None
<1>2. UNCHANGED <<request, order, partner, heard>>
  BY DEF sync_request
<1>3. CASE push_create(h, r)
  <2>1. PICK c : c = Creation(r, request[r].failed)
    OBVIOUS
  <2>2. c \in Call /\ CallInv(c)
    BY <1>1, <2>1 DEF Creation, Idle, Call, CallInv, Allowed, None
  <2>3. call' = [call EXCEPT ![h] = c]
    BY <1>3, <2>1 DEF push_create, Begin
  <2> QED
    BY <1>2, <2>2, <2>3, Quiet
<1>4. CASE ~push_create(h, r)
  <2>1. PICK c : c = [Idle EXCEPT !.op = "sync", !.req = r, !.step = "read",
                                  !.order = request[r].partner_order, !.held = Held(r)]
    OBVIOUS
  <2>2. /\ request[r].partner_order # None
        /\ call' = [call EXCEPT ![h] = c]
    BY <1>4, <2>1 DEF sync_request, Begin
  <2>3. Held(r) \in BOOLEAN /\ request[r].partner_order \in PartnerOrders
    BY <1>1, <2>2 DEF Held, Request
  <2>4. c \in Call
    BY <2>1, <2>3 DEF Idle, Call, None
  <2>5. CallInv(c)
    BY <1>1, <2>1, <2>2 DEF Idle, CallInv, Allowed, None
  <2> QED
    BY <1>2, <2>2, <2>4, <2>5, Quiet
<1> QED
  BY <1>3, <1>4

LEMMA MemberActionStep ==
  ASSUME IInv, NEW h \in Handlers, NEW r \in Requests, NEW a \in DOMAIN Allowed,
         _member_action(h, r, a)
  PROVE  IInv'
<1>1. PICK c : c = [Idle EXCEPT !.op = a, !.req = r, !.step = "post",
                                !.order = request[r].partner_order]
  OBVIOUS
<1>2. /\ request[r].partner_order # None /\ call' = [call EXCEPT ![h] = c]
      /\ UNCHANGED <<request, order, partner, heard>>
  BY <1>1 DEF _member_action, Begin
<1>3. a \in {"decline", "cancel", "warranty"}
  BY DEF Allowed
<1>4. RequestInv(r) /\ request[r].partner_order \in PartnerOrders
  BY <1>2 DEF IInv, Core, Types, Request, NoRequest
<1>5. c \in Call
  BY <1>1, <1>3, <1>4 DEF Idle, Call, None
<1>6. CallInv(c)
  BY <1>1, <1>2, <1>3, <1>4 DEF Idle, CallInv, RequestInv, None
<1> QED
  BY <1>2, <1>5, <1>6, Quiet

-----------------------------------------------------------------------------
(* The partner moves by itself.                                            *)
LEMMA PartnerMovesStep ==
  ASSUME IInv, NEW o \in PartnerOrders, partner_moves(o) PROVE IInv'
<1>1. PICK s \in Moves[Now(o)] : Enter(o, s)
  BY DEF partner_moves
<1>2. /\ partner[o] # Unused /\ Now(o) \in DOMAIN Moves
      /\ UNCHANGED <<request, order, heard, call>>
  BY DEF partner_moves
<1>3. /\ s \in PartnerStatus \ {"pending_review", "awaiting_payment"} /\ Now(o) \notin Final
      /\ s = "rejected" => Now(o) = "pending_review"
  BY <1>1, <1>2 DEF Moves, PartnerStatus, Final
<1>4. Core' /\ Grows
  BY <1>1, <1>2, <1>3, EnterStep
<1>5. Calls'
  BY <1>2, <1>4, CallsSame DEF IInv
<1> QED
  BY <1>4, <1>5 DEF IInv

(* A handler that is talking to the partner.                               *)
LEMMA CallTyped ==
  ASSUME IInv, NEW h \in Handlers, call[h].step # None
  PROVE  call[h] \in Call /\ CallInv(call[h]) /\ call[h] # Idle /\ RequestInv(call[h].req)
<1>1. call[h] # Idle
  BY DEF Idle
<1>2. call[h] \in Call /\ CallInv(call[h])
  BY <1>1 DEF IInv, Calls
<1> QED
  BY <1>1, <1>2 DEF IInv, Core, Call

(* A lost answer, a refusal and an answer, for any call.                   *)
LostCall(c) ==
  IF c.op \in DOMAIN Allowed THEN Idle ELSE [c EXCEPT !.step = "apply", !.reply = None]

LEMMA LostOk ==
  ASSUME NEW c \in Call, CallInv(c), c # Idle
  PROVE  LostCall(c) \in Call \cup {Idle} /\ CallInv(LostCall(c))
<1>1. CASE c.op \in DOMAIN Allowed
  BY <1>1, IdleCall DEF LostCall
<1>2. CASE c.op \notin DOMAIN Allowed
  <2> DEFINE d == [c EXCEPT !.step = "apply", !.reply = None]
  <2>1. /\ d \in Call /\ d.op = c.op /\ d.req = c.req /\ d.order = c.order /\ d.held = c.held
        /\ d.step = "apply" /\ d.reply = None
    BY DEF Call
  <2>2. LostCall(c) = d
    BY <1>2 DEF LostCall
  <2> HIDE DEF d
  <2>3. CallInv(d)
    BY <1>2, <2>1 DEF CallInv
  <2> QED
    BY <2>1, <2>2, <2>3
<1> QED
  BY <1>1, <1>2

LEMMA LostCalls ==
  ASSUME NEW h \in Handlers, Lost(h)
  PROVE  call' = [call EXCEPT ![h] = LostCall(call[h])]
  BY DEF Lost, Done, LostCall

LEMMA AnswerOk ==
  ASSUME NEW c \in Call, CallInv(c), c # Idle, NEW o \in PartnerOrders, NEW s \in PartnerStatus,
         c.op # "create" => c.order = o,
         partner[o] # Unused, partner[o].code = c.req, s \in Seen(o)
  PROVE  LET d == [c EXCEPT !.step = "apply", !.order = o, !.reply = s]
         IN  d \in Call /\ CallInv(d)
<1> DEFINE d == [c EXCEPT !.step = "apply", !.order = o, !.reply = s]
<1>1. /\ d \in Call /\ d.op = c.op /\ d.req = c.req /\ d.order = o /\ d.held = c.held
      /\ d.step = "apply" /\ d.reply = s
  BY DEF Call
<1>2. o # None /\ s # None
  BY NoneAssumption DEF PartnerStatus, None
<1> HIDE DEF d
<1>3. CallInv(d)
  BY <1>1, <1>2 DEF CallInv
<1> QED
  BY <1>1, <1>3 DEF d

(* A new order of the partner: no request knows it yet.                    *)
LEMMA NewOrder ==
  ASSUME IInv, NEW o \in PartnerOrders, NEW r \in Requests, partner[o] = Unused,
         request[r].status # None,
         partner' = [partner EXCEPT ![o] = [code |-> r, log |-> <<"pending_review">>]],
         UNCHANGED <<request, order, heard>>
  PROVE  Core' /\ Grows /\ "pending_review" \in Seen(o)' /\ partner'[o] # Unused /\ partner'[o].code = r
<1> DEFINE row == [code |-> r, log |-> <<"pending_review">>]
<1>1. /\ row \in PartnerRow /\ row.code = r /\ row # Unused /\ Len(row.log) \in 1..MaxMoves
      /\ ToSet(row.log) = {"pending_review"} /\ Last(row.log) = "pending_review"
  <2>1. "pending_review" \in PartnerStatus
    BY DEF PartnerStatus
  <2>2. <<"pending_review">> \in Seq(PartnerStatus) /\ Len(<<"pending_review">>) = 1
    BY <2>1
  <2>3. ToSet(<<"pending_review">>) = {"pending_review"} /\ Last(<<"pending_review">>) = "pending_review"
    BY SeqOne
  <2>4. r # None
    BY NoneAssumption
  <2> QED
    BY <2>2, <2>3, <2>4 DEF PartnerRow, Unused
<1> HIDE DEF row
<1>2. /\ partner' = [partner EXCEPT ![o] = row]
      /\ partner' \in [PartnerOrders -> PartnerRow] /\ partner'[o] = row
      /\ \A p \in PartnerOrders : p # o => partner'[p] = partner[p]
  <2>1. partner' = [partner EXCEPT ![o] = row]
    BY DEF row
  <2> QED
    BY <1>1, <2>1 DEF IInv, Core, Types
<1>3. Seen(o)' = {"pending_review"} /\ Now(o)' = "pending_review"
  BY <1>1, <1>2 DEF Seen, Now
<1>4. \A p \in PartnerOrders : p # o => Seen(p)' = Seen(p) /\ Now(p)' = Now(p)
  BY <1>2 DEF Seen, Now
<1>5. \A u \in Requests : Held(u)' = Held(u) /\ Open(u)' = Open(u)
  BY DEF Held, Open
<1>6. Grows
  BY <1>2, <1>4, <1>5 DEF Grows
<1>7. Types'
  BY <1>1, <1>2 DEF IInv, Core, Types
<1>8. ASSUME NEW p \in PartnerOrders PROVE LogInv(p)' /\ AcceptedInv(p)'
  <2>1. CASE p = o
    BY <1>1, <1>2, <1>3, <2>1 DEF LogInv, AcceptedInv
  <2>2. CASE p # o
    <3>1. LogInv(p) /\ AcceptedInv(p)
      BY DEF IInv, Core
    <3> QED
      BY <1>2, <1>4, <2>2, <3>1 DEF LogInv, AcceptedInv, Held
  <2> QED
    BY <2>1, <2>2
<1>9. ASSUME NEW u \in Requests PROVE RequestInv(u)' /\ MoneyInv(u)'
  <2>1. RequestInv(u) /\ MoneyInv(u) /\ request[u].partner_order \in PartnerOrders \cup {None}
    BY DEF IInv, Core, Types, Request, NoRequest
  <2>2. request[u].partner_order # o
    BY <2>1, NoneAssumption DEF RequestInv
  <2>3. RequestInv(u)'
    BY <1>2, <1>4, <1>5, <2>1, <2>2 DEF RequestInv
  <2>4. MoneyInv(u)'
    <3>1. order[u].by = "partner" \/ order[u].status = "processing" => Held(u)
      BY <2>1 DEF MoneyInv, Held, NoOrder, None
    <3>2. Held(u) => request[u].partner_order \in PartnerOrders \ {o}
      BY <2>1, <2>2 DEF RequestInv
    <3> QED
      BY <1>4, <1>5, <2>1, <3>1, <3>2 DEF MoneyInv
  <2> QED
    BY <2>3, <2>4
<1> QED
  BY <1>1, <1>2, <1>3, <1>6, <1>7, <1>8, <1>9 DEF Core

(* What follows a step of the partner: its answer arrives or is lost.      *)
LEMMA Replied ==
  ASSUME IInv, NEW h \in Handlers, NEW c \in Call, c = call[h], CallInv(c), c # Idle,
         NEW o \in PartnerOrders, NEW s \in PartnerStatus, c.op # "create" => c.order = o,
         Core', Grows, partner'[o] # Unused, partner'[o].code = c.req, s \in Seen(o)',
         Answer(h, o, s) \/ Lost(h)
  PROVE  IInv'
<1>1. CallInv(c)'
  BY CallGrows
<1>2. CASE Answer(h, o, s)
  <2>1. PICK d : d = [c EXCEPT !.step = "apply", !.order = o, !.reply = s]
    OBVIOUS
  <2>2. /\ d \in Call /\ d.op = c.op /\ d.req = c.req /\ d.order = o /\ d.held = c.held
        /\ d.step = "apply" /\ d.reply = s
    BY <2>1 DEF Call
  <2>3. o # None /\ s # None
    BY NoneAssumption DEF PartnerStatus, None
  <2>4. CallInv(d)'
    BY <1>1, <2>2, <2>3 DEF CallInv
  <2>5. call' = [call EXCEPT ![h] = d]
    BY <1>2, <2>1 DEF Answer, IInv, Calls
  <2>6. Calls'
    BY <2>2, <2>4, <2>5, CallsStep DEF IInv
  <2> QED
    BY <2>6 DEF IInv
<1>3. CASE Lost(h)
  <2>1. PICK d : d = LostCall(c)
    OBVIOUS
  <2>2. call' = [call EXCEPT ![h] = d]
    BY <1>3, <2>1, LostCalls
  <2>3. d \in Call \cup {Idle} /\ CallInv(d)
    BY <2>1, LostOk
  <2>4. Calls'
    BY <2>2, <2>3, CallGrows, CallsStep DEF IInv
  <2> QED
    BY <2>4 DEF IInv
<1> QED
  BY <1>2, <1>3

LEMMA CreateOrderStep == ASSUME IInv, NEW h \in Handlers, create_order(h) PROVE IInv'
<1>1. PICK o \in PartnerOrders :
        /\ partner[o] = Unused
        /\ partner' = [partner EXCEPT ![o] = [code |-> call[h].req, log |-> <<"pending_review">>]]
        /\ Answer(h, o, "pending_review") \/ Lost(h)
  BY DEF create_order
<1>2. PICK c : c = call[h]
  OBVIOUS
<1>3. c.op = "create" /\ c.step = "post" /\ UNCHANGED <<request, order, heard>>
  BY <1>2 DEF create_order
<1>4. c \in Call /\ CallInv(c) /\ c # Idle
  BY <1>2, <1>3, CallTyped DEF None
<1>5. c.req \in Requests /\ request[c.req].status # None
  BY <1>4 DEF Call, CallInv
<1>6. /\ Core' /\ Grows /\ "pending_review" \in Seen(o)'
      /\ partner'[o] # Unused /\ partner'[o].code = c.req
  BY <1>1, <1>2, <1>3, <1>5, NewOrder
<1>7. "pending_review" \in PartnerStatus
  BY DEF PartnerStatus
<1> QED
  BY <1>1, <1>2, <1>3, <1>4, <1>6, <1>7, Replied

(* The order a handler has read is the one of its request.                 *)
LEMMA CallOrder ==
  ASSUME IInv, NEW c \in Call, CallInv(c), c # Idle, c.op # "create"
  PROVE  /\ c.order \in PartnerOrders /\ c.order # None
         /\ partner[c.order] # Unused /\ partner[c.order].code = c.req
         /\ request[c.req].partner_order = c.order
         /\ partner[c.order].log \in Seq(PartnerStatus)
         /\ Now(c.order) \in Seen(c.order) /\ Now(c.order) \in PartnerStatus
<1>1. /\ c.order \in PartnerOrders /\ c.order # None /\ request[c.req].partner_order = c.order
      /\ c.req \in Requests
  BY DEF CallInv, Call
<1>2. RequestInv(c.req) /\ LogInv(c.order) /\ partner[c.order].log \in Seq(PartnerStatus)
  BY <1>1 DEF IInv, Core, Types, PartnerRow
<1>3. partner[c.order] # Unused /\ partner[c.order].code = c.req
  BY <1>1, <1>2 DEF RequestInv
<1>4. Now(c.order) \in Seen(c.order)
  BY <1>2, <1>3 DEF LogInv
<1>5. Now(c.order) \in PartnerStatus
  BY <1>2, <1>4 DEF Seen, ToSet
<1> QED
  BY <1>1, <1>2, <1>3, <1>4, <1>5

LEMMA ListOrdersStep == ASSUME IInv, NEW h \in Handlers, list_orders(h) PROVE IInv'
<1>1. PICK c : c = call[h]
  OBVIOUS
<1>2. c.step = "list" /\ UNCHANGED <<request, order, partner, heard>>
  BY <1>1 DEF list_orders
<1>3. c \in Call /\ CallInv(c) /\ c # Idle /\ c.op = "create" /\ c.req \in Requests
  <2>1. c \in Call /\ CallInv(c) /\ c # Idle
    BY <1>1, <1>2, CallTyped DEF None
  <2> QED
    BY <1>2, <2>1 DEF CallInv, Call
<1>4. ASSUME NEW o \in PartnerOrders, partner[o].code = c.req, Answer(h, o, Now(o)) PROVE IInv'
  <2>1. partner[o] # Unused
    BY <1>3, <1>4, NoneAssumption DEF Unused
  <2>2. LogInv(o) /\ partner[o].log \in Seq(PartnerStatus)
    BY DEF IInv, Core, Types, PartnerRow
  <2>3. Now(o) \in Seen(o)
    BY <2>1, <2>2 DEF LogInv
  <2>4. Now(o) \in PartnerStatus
    BY <2>2, <2>3 DEF Seen, ToSet
  <2>5. PICK d : d = [c EXCEPT !.step = "apply", !.order = o, !.reply = Now(o)]
    OBVIOUS
  <2>6. d \in Call /\ CallInv(d)
    BY <1>3, <1>4, <2>1, <2>3, <2>4, <2>5, AnswerOk
  <2>7. call' = [call EXCEPT ![h] = d]
    BY <1>1, <1>4, <2>5 DEF Answer, IInv, Calls
  <2> QED
    BY <1>2, <2>6, <2>7, Quiet
<1>5. ASSUME call' = [call EXCEPT ![h].step = "post"] PROVE IInv'
  <2>1. PICK d : d = [c EXCEPT !.step = "post"]
    OBVIOUS
  <2>2. /\ d \in Call /\ d.op = "create" /\ d.req = c.req /\ d.step = "post"
        /\ d.held = c.held
    BY <1>3, <2>1 DEF Call
  <2>3. CallInv(d)
    BY <1>3, <2>2 DEF CallInv
  <2>4. call' = [call EXCEPT ![h] = d]
    BY <1>1, <1>5, <2>1 DEF IInv, Calls
  <2> QED
    BY <1>2, <2>2, <2>3, <2>4, Quiet
<1> QED
  BY <1>1, <1>4, <1>5 DEF list_orders

LEMMA GetOrderStep == ASSUME IInv, NEW h \in Handlers, get_order(h) PROVE IInv'
<1>1. PICK c : c = call[h]
  OBVIOUS
<1>2. c.step = "read" /\ UNCHANGED <<request, order, partner, heard>>
  BY <1>1 DEF get_order
<1>3. c \in Call /\ CallInv(c) /\ c # Idle
  BY <1>1, <1>2, CallTyped DEF None
<1>4. c.op # "create"
  BY <1>2, <1>3 DEF CallInv
<1>5. PICK d : d = [c EXCEPT !.step = "apply", !.order = c.order, !.reply = Now(c.order)]
  OBVIOUS
<1>6. d \in Call /\ CallInv(d)
  BY <1>3, <1>4, <1>5, CallOrder, AnswerOk
<1>7. call' = [call EXCEPT ![h] = d]
  BY <1>1, <1>5 DEF get_order, Answer, IInv, Calls
<1> QED
  BY <1>2, <1>6, <1>7, Quiet

LEMMA UnreachableStep == ASSUME IInv, NEW h \in Handlers, unreachable(h) PROVE IInv'
<1>1. call[h] \in Call /\ CallInv(call[h]) /\ call[h] # Idle
  BY CallTyped DEF unreachable, None
<1>2. PICK d : d = LostCall(call[h])
  OBVIOUS
<1>3. d \in Call \cup {Idle} /\ CallInv(d)
  BY <1>1, <1>2, LostOk
<1>4. call' = [call EXCEPT ![h] = d] /\ UNCHANGED <<request, order, partner, heard>>
  BY <1>2, LostCalls DEF unreachable
<1> QED
  BY <1>3, <1>4, Quiet

LEMMA DiesStep == ASSUME IInv, NEW h \in Handlers, dies(h) PROVE IInv'
  BY IdleCall, Quiet DEF dies, Done

(* The partner carries an action out, or refuses it.                       *)
LEMMA ActionStep == ASSUME IInv, NEW h \in Handlers, action(h) PROVE IInv'
<1>1. PICK c : c = call[h]
  OBVIOUS
<1>2. c.op \in {"accept", "decline", "cancel", "warranty"} /\ c.step = "post"
      /\ UNCHANGED <<request, order, heard>>
  BY <1>1 DEF action, From
<1>3. c \in Call /\ CallInv(c) /\ c # Idle
  BY <1>1, <1>2, CallTyped DEF None
<1>4. /\ c.order \in PartnerOrders /\ c.order # None
      /\ partner[c.order] # Unused /\ partner[c.order].code = c.req
      /\ request[c.req].partner_order = c.order
  BY <1>2, <1>3, CallOrder
<1>5. CASE Now(c.order) \in From[c.op]
  <2>1. PICK s : s = To[c.op]
    OBVIOUS
  <2>2. Enter(c.order, s) /\ (Answer(h, c.order, s) \/ Lost(h))
    BY <1>1, <1>5, <2>1 DEF action
  <2>3. /\ s \in PartnerStatus \ {"pending_review", "rejected"}
        /\ Now(c.order) \notin Final
        /\ s = "awaiting_payment" => c.op = "accept"
    BY <1>2, <1>5, <2>1 DEF From, To, PartnerStatus, Final
  <2>4. c.op = "accept" => Held(c.req)
    BY <1>3 DEF CallInv
  <2>5. Core' /\ Grows /\ s \in Seen(c.order)'
    BY <1>2, <1>4, <2>2, <2>3, <2>4, EnterStep
  <2>6. partner'[c.order] # Unused /\ partner'[c.order].code = c.req
    BY <1>4, <2>5 DEF Grows
  <2>7. PICK o : o = c.order
    OBVIOUS
  <2> QED
    BY <1>1, <1>3, <1>4, <2>2, <2>3, <2>5, <2>6, <2>7, Replied
<1>6. CASE Now(c.order) \notin From[c.op]
  <2>1. Refused(h) /\ UNCHANGED <<request, order, partner, heard>>
    BY <1>1, <1>2, <1>6 DEF action
  <2>2. CASE c.op = "accept"
    <3>1. PICK d : d = [c EXCEPT !.step = "read"]
      OBVIOUS
    <3>2. /\ d \in Call /\ d.op = "accept" /\ d.req = c.req /\ d.step = "read"
          /\ d.order = c.order /\ d.held = c.held
      BY <1>3, <2>2, <3>1 DEF Call
    <3>3. CallInv(d)
      BY <1>3, <2>2, <3>2 DEF CallInv
    <3>4. call' = [call EXCEPT ![h] = d]
      BY <1>1, <2>1, <2>2, <3>1 DEF Refused, IInv, Calls
    <3> QED
      BY <2>1, <3>2, <3>3, <3>4, Quiet
  <2>3. CASE c.op # "accept"
    <3>1. PICK d : d = [c EXCEPT !.step = "read", !.op = "sync", !.held = Held(c.req)]
      OBVIOUS
    <3>2. /\ d \in Call /\ d.op = "sync" /\ d.req = c.req /\ d.step = "read"
          /\ d.order = c.order /\ d.held = Held(c.req)
      BY <1>3, <3>1 DEF Call, Held
    <3>3. CallInv(d)
      BY <1>3, <1>4, <3>2 DEF CallInv, Allowed
    <3>4. call' = [call EXCEPT ![h] = d]
      BY <1>1, <2>1, <2>3, <3>1 DEF Refused, IInv, Calls
    <3> QED
      BY <2>1, <3>2, <3>3, <3>4, Quiet
  <2> QED
    BY <2>2, <2>3
<1> QED
  BY <1>5, <1>6

-----------------------------------------------------------------------------
(* Handlers end.                                                           *)
LEMMA CallTells ==
  ASSUME IInv, NEW c \in Call, CallInv(c), c.step = "apply", c.reply # None,
         request[c.req].partner_order \in {None, c.order}
  PROVE  c.req \in Requests /\ c.order \in PartnerOrders /\ Tells(c.req, c.order, c.reply)
<1>1. c # Idle /\ c.req \in Requests /\ c.order \in PartnerOrders \cup {None}
  BY DEF Idle, Call, None
<1> QED
  BY <1>1 DEF CallInv, Tells

LEMMA PushCreateApplyStep == ASSUME IInv, NEW h \in Handlers, push_create_apply(h) PROVE IInv'
<1>1. PICK c : c = call[h]
  OBVIOUS
<1>2. PICK r : r = c.req
  OBVIOUS
<1>3. c.step = "apply" /\ call' = [call EXCEPT ![h] = Idle] /\ UNCHANGED <<partner, heard>>
  BY <1>1 DEF push_create_apply, Done
<1>4. c \in Call /\ CallInv(c) /\ c # Idle /\ r \in Requests /\ request[r].status # None
  <2>1. c \in Call /\ CallInv(c) /\ c # Idle
    BY <1>1, <1>3, CallTyped DEF None
  <2> QED
    BY <1>2, <2>1 DEF CallInv, Call
<1>5. CASE UNCHANGED <<request, order>>
  BY <1>3, <1>5, IdleCall, Quiet
<1>6. CASE /\ request[r].partner_order = None /\ c.reply # None
           /\ _apply_order_dict([request[r] EXCEPT !.failed = FALSE], r, c.order, c.reply)
  <2>1. c.order \in PartnerOrders /\ Tells(r, c.order, c.reply)
    BY <1>2, <1>3, <1>4, <1>6, CallTells
  <2>2. heard' \subseteq PartnerOrders \X (0..MaxMoves - 1)
    BY <1>3 DEF IInv, Core, Types
  <2>3. PICK o, s : o = c.order /\ s = c.reply
    OBVIOUS
  <2>4. Core' /\ Grows
    BY <1>3, <1>4, <1>6, <2>1, <2>2, <2>3, ApplyStep
  <2>5. Calls'
    BY <1>3, <2>4, IdleCall, CallGrows, CallsStep DEF IInv
  <2> QED
    BY <2>4, <2>5 DEF IInv
<1>7. CASE /\ request' = [request EXCEPT ![r].failed = TRUE] /\ UNCHANGED order
  <2> DEFINE row == [request[r] EXCEPT !.failed = TRUE]
  <2>1. request[r] \in Request
    BY <1>4 DEF IInv, Core, Types, NoRequest
  <2>2. /\ row \in Request /\ row.status = request[r].status
        /\ row.partner_status = request[r].partner_status
        /\ row.partner_order = request[r].partner_order
    BY <2>1 DEF Request
  <2>3. request' = [request EXCEPT ![r] = row]
    BY <1>7
  <2> HIDE DEF row
  <2>4. /\ request'[r] = row /\ \A u \in Requests : u # r => request'[u] = request[u]
        /\ request' \in [Requests -> Request \cup {NoRequest}]
    BY <1>4, <2>2, <2>3 DEF IInv, Core, Types
  <2>5. /\ \A u \in Requests : Held(u)' = Held(u) /\ Open(u)' = Open(u)
        /\ \A p \in PartnerOrders : Seen(p)' = Seen(p) /\ Now(p)' = Now(p)
    BY <1>3, <1>7, <2>2, <2>4 DEF Held, Open, Seen, Now
  <2>6. Grows
    BY <1>3, <1>7, <2>2, <2>4, <2>5 DEF Grows
  <2>7. Types'
    BY <1>3, <1>7, <2>4 DEF IInv, Core, Types
  <2>8. \A p \in PartnerOrders : LogInv(p)' /\ AcceptedInv(p)'
    BY <1>3, <2>6, LogsStep
  <2>9. ASSUME NEW u \in Requests PROVE RequestInv(u)' /\ MoneyInv(u)'
    <3>1. CASE u = r
      <4>1. RequestInv(r) /\ MoneyInv(r)
        BY <1>4 DEF IInv, Core
      <4>2. RequestInv(r)'
        BY <1>3, <1>4, <2>2, <2>4, <2>5, <4>1 DEF RequestInv, Seen
      <4>3. MoneyInv(r)'
        BY <1>3, <1>4, <1>7, <2>2, <2>4, <2>5, <4>1 DEF MoneyInv, Now
      <4> QED
        BY <3>1, <4>2, <4>3
    <3>2. CASE u # r
      BY <1>3, <1>7, <2>4, <3>2, OtherRequest
    <3> QED
      BY <3>1, <3>2
  <2>10. Calls'
    BY <1>3, <2>6, IdleCall, CallGrows, CallsStep DEF IInv
  <2> QED
    BY <2>7, <2>8, <2>9, <2>10 DEF IInv, Core
<1> QED
  BY <1>1, <1>2, <1>5, <1>6, <1>7 DEF push_create_apply

(* The answer of any other call, and what the handler does after it.       *)
LEMMA Applies ==
  ASSUME IInv, NEW h \in Handlers, NEW c \in Call, c = call[h], CallInv(c), c # Idle,
         c.op # "create", c.step = "apply", c.reply # None,
         _apply_order_dict(request[c.req], c.req, c.order, c.reply),
         NEW d \in Call \cup {Idle}, call' = [call EXCEPT ![h] = d],
         d = Idle \/ (c.held /\ d = Acceptance(c.req, c.order)),
         UNCHANGED <<partner, heard>>
  PROVE  IInv'
<1>1. /\ c.order \in PartnerOrders /\ c.order # None /\ c.req \in Requests
      /\ request[c.req].partner_order = c.order /\ request[c.req].status # None
  BY CallOrder DEF CallInv, Call
<1>2. Tells(c.req, c.order, c.reply)
  BY <1>1, CallTells
<1>3. heard' \subseteq PartnerOrders \X (0..MaxMoves - 1)
  BY DEF IInv, Core, Types
<1>4. PICK r, o, s : r = c.req /\ o = c.order /\ s = c.reply
  OBVIOUS
<1>5. Core' /\ Grows
  BY <1>1, <1>2, <1>3, <1>4, ApplyStep
<1>6. CallInv(d)'
  <2>1. CASE d = Idle
    BY <2>1 DEF CallInv
  <2>2. CASE c.held /\ d = Acceptance(c.req, c.order)
    <3>1. Held(r)
      BY <1>4, <2>2 DEF CallInv
    <3>2. Held(r)' /\ request'[r].partner_order = o /\ request'[r].status # None
      BY <1>1, <1>4, <1>5, <3>1 DEF Grows
    <3>3. /\ d.op = "accept" /\ d.req = r /\ d.step = "post" /\ d.order = o
          /\ d.held = FALSE
      BY <1>4, <2>2 DEF Acceptance, Idle
    <3> QED
      BY <1>1, <1>4, <3>2, <3>3 DEF CallInv
  <2> QED
    BY <2>1, <2>2
<1>7. Calls'
  BY <1>5, <1>6, CallsStep DEF IInv
<1> QED
  BY <1>5, <1>7 DEF IInv

LEMMA ForwardAcceptStep == ASSUME IInv, NEW h \in Handlers, forward_accept(h) PROVE IInv'
<1>1. PICK c : c = call[h]
  OBVIOUS
<1>2. c.op = "accept" /\ c.step = "apply" /\ call' = [call EXCEPT ![h] = Idle]
      /\ UNCHANGED <<partner, heard>>
  BY <1>1 DEF forward_accept, Done
<1>3. c \in Call /\ CallInv(c) /\ c # Idle
  BY <1>1, <1>2, CallTyped DEF None
<1>4. CASE c.reply = None
  <2>1. UNCHANGED <<request, order>>
    BY <1>1, <1>4 DEF forward_accept
  <2> QED
    BY <1>2, <2>1, IdleCall, Quiet
<1>5. CASE c.reply # None
  <2>1. _apply_order_dict(request[c.req], c.req, c.order, c.reply)
    BY <1>1, <1>5 DEF forward_accept
  <2> QED
    BY <1>1, <1>2, <1>3, <1>5, <2>1, IdleCall, Applies
<1> QED
  BY <1>4, <1>5

LEMMA MemberActionApplyStep ==
  ASSUME IInv, NEW h \in Handlers, _member_action_apply(h) PROVE IInv'
<1>1. PICK c : c = call[h]
  OBVIOUS
<1>2. /\ c.op \in DOMAIN Allowed /\ c.step = "apply" /\ call' = [call EXCEPT ![h] = Idle]
      /\ _apply_order_dict(request[c.req], c.req, c.order, c.reply)
      /\ UNCHANGED <<partner, heard>>
  BY <1>1 DEF _member_action_apply, Done
<1>3. c \in Call /\ CallInv(c) /\ c # Idle
  BY <1>1, <1>2, CallTyped DEF None
<1>4. c.op # "create"
  BY <1>2 DEF Allowed
<1>5. c.reply # None
  BY <1>2, <1>3 DEF CallInv
<1> QED
  BY <1>1, <1>2, <1>3, <1>4, <1>5, IdleCall, Applies

LEMMA SyncRequestApplyStep ==
  ASSUME IInv, NEW h \in Handlers, sync_request_apply(h) PROVE IInv'
<1>1. PICK c : c = call[h]
  OBVIOUS
<1>2. c.op = "sync" /\ c.step = "apply" /\ UNCHANGED <<partner, heard>>
  BY <1>1 DEF sync_request_apply
<1>3. c \in Call /\ CallInv(c) /\ c # Idle
  BY <1>1, <1>2, CallTyped DEF None
<1>4. CASE UNCHANGED <<request, order>> /\ Done(h)
  BY <1>2, <1>4, IdleCall, Quiet DEF Done
<1>5. CASE /\ c.reply # None
           /\ _apply_order_dict(request[c.req], c.req, c.order, c.reply)
           /\ IF c.held /\ c.reply = "quoted" /\ Open(c.req)
              THEN Begin(h, Acceptance(c.req, c.order)) ELSE Done(h)
  <2>1. c.req \in Requests /\ c.order \in PartnerOrders
    BY <1>2, <1>3, CallOrder DEF Call
  <2>2. PICK d : d = IF c.held /\ c.reply = "quoted" /\ Open(c.req)
                     THEN Acceptance(c.req, c.order) ELSE Idle
    OBVIOUS
  <2>3. d \in Call \cup {Idle}
    BY <2>1, <2>2 DEF Acceptance, Idle, Call, None
  <2>4. call' = [call EXCEPT ![h] = d]
    BY <1>5, <2>2 DEF Begin, Done
  <2>5. d = Idle \/ (c.held /\ d = Acceptance(c.req, c.order))
    BY <2>2
  <2> QED
    BY <1>1, <1>2, <1>3, <1>5, <2>3, <2>4, <2>5, Applies
<1> QED
  BY <1>1, <1>4, <1>5 DEF sync_request_apply

(* A webhook tells the request of the order, or, the one of the creation,  *)
(* the request whose code the order carries.                               *)
LEMMA HandleWebhookStep ==
  ASSUME IInv, NEW o \in PartnerOrders, NEW k \in 0..MaxMoves - 1, handle_webhook(o, k)
  PROVE  IInv'
<1> DEFINE bound == {r \in Requests : request[r].partner_order = o}
           mine == IF bound = {} /\ k = 0 THEN {partner[o].code} ELSE bound
<1>1. /\ k < Len(partner[o].log) /\ heard' = heard \cup {<<o, k>>} /\ UNCHANGED <<partner, call>>
      /\ \/ UNCHANGED <<request, order>>
         \/ /\ \E r \in mine : _apply_order_dict(request[r], r, o, partner[o].log[k + 1])
            /\ bound = {} => request[partner[o].code].partner_status = None
  BY DEF handle_webhook, webhook_applies
<1>2. heard' \subseteq PartnerOrders \X (0..MaxMoves - 1)
  BY <1>1 DEF IInv, Core, Types
<1>3. CASE UNCHANGED <<request, order>>
  <2>1. Core'
    BY <1>1, <1>2, <1>3
       DEF IInv, Core, Types, LogInv, AcceptedInv, RequestInv, MoneyInv, Held, Open, Seen, Now
  <2>2. Calls'
    BY <1>1, <1>3, CallsSame DEF IInv, Grows, Held, Seen
  <2> QED
    BY <2>1, <2>2 DEF IInv
<1>4. ASSUME NEW r \in mine, _apply_order_dict(request[r], r, o, partner[o].log[k + 1]),
             bound = {} => request[partner[o].code].partner_status = None
      PROVE  IInv'
  <2>1. PICK s : s = partner[o].log[k + 1]
    OBVIOUS
  <2>2. partner[o] # Unused
    BY <1>1 DEF Unused
  <2>3. partner[o].code \in Requests /\ partner[o].log \in Seq(PartnerStatus) /\ LogInv(o)
    BY <2>2 DEF IInv, Core, Types, PartnerRow
  <2>4. s \in Seen(o)
    BY <1>1, <2>1, <2>3, SeqAt DEF Seen
  <2>5. r \in Requests /\ RequestInv(r)
    BY <2>3 DEF IInv, Core
  <2>6. Tells(r, o, s)
    <3>1. CASE r \in bound
      BY <2>2, <2>4, <2>5, <3>1, NoneAssumption DEF Tells, RequestInv
    <3>2. CASE r \notin bound
      <4>1. r = partner[o].code /\ k = 0 /\ bound = {}
        BY <3>2
      <4>2. request[r].status # None
        BY <2>2, <2>3, <4>1 DEF LogInv
      <4>3. request[r].partner_order = None
        BY <1>4, <2>5, <4>1 DEF RequestInv
      <4> QED
        BY <2>2, <2>4, <4>1, <4>2, <4>3 DEF Tells
    <3> QED
      BY <3>1, <3>2
  <2>7. Core' /\ Grows
    BY <1>1, <1>2, <1>4, <2>1, <2>5, <2>6, ApplyStep
  <2>8. Calls'
    BY <1>1, <2>7, CallsSame DEF IInv
  <2> QED
    BY <2>7, <2>8 DEF IInv
<1> QED
  BY <1>1, <1>3, <1>4

-----------------------------------------------------------------------------
LEMMA InitInv == Init => IInv
<1> SUFFICES ASSUME Init PROVE IInv
  OBVIOUS
<1>1. /\ \A r \in Requests : request[r] = NoRequest /\ order[r] = NoOrder
      /\ \A o \in PartnerOrders : partner[o] = Unused
      /\ \A h \in Handlers : call[h] = Idle
  BY DEF Init
<1>2. Types
  <2>1. NoOrder \in Order
    BY DEF NoOrder, Order, None
  <2>2. Unused \in PartnerRow
    BY DEF Unused, PartnerRow
  <2>3. partner \in [PartnerOrders -> PartnerRow]
    BY <2>2 DEF Init
  <2>4. order \in [Requests -> Order] /\ request \in [Requests -> Request \cup {NoRequest}] /\ heard = {}
    BY <2>1 DEF Init
  <2> QED
    BY <1>1, <2>3, <2>4 DEF Types
<1>3. \A o \in PartnerOrders : LogInv(o) /\ AcceptedInv(o)
  BY <1>1 DEF LogInv, AcceptedInv, Seen, Unused, ToSet
<1>4. \A r \in Requests : RequestInv(r) /\ MoneyInv(r)
  BY <1>1 DEF RequestInv, MoneyInv, Held, NoRequest, NoOrder, None
<1>5. Calls
  BY <1>1 DEF Init, Calls, CallInv
<1> QED
  BY <1>2, <1>3, <1>4, <1>5 DEF IInv, Core

(* A step that changes nothing, conjunct by conjunct. *)
LEMMA StutterStep == ASSUME IInv, UNCHANGED vars PROVE IInv'
<1>1. /\ request' = request /\ order' = order /\ partner' = partner
      /\ heard' = heard /\ call' = call
  BY DEF vars
<1>2. Types'
  BY <1>1 DEF IInv, Core, Types
<1>3. ASSUME NEW o \in PartnerOrders PROVE LogInv(o)' /\ AcceptedInv(o)'
  <2>1. LogInv(o) /\ AcceptedInv(o)
    BY DEF IInv, Core
  <2>2. LogInv(o)'
    BY <1>1, <2>1 DEF LogInv, Seen, Now
  <2>3. AcceptedInv(o)'
    BY <1>1, <2>1 DEF AcceptedInv, Seen, Held
  <2> QED
    BY <2>2, <2>3
<1>4. ASSUME NEW r \in Requests PROVE RequestInv(r)' /\ MoneyInv(r)'
  <2>1. RequestInv(r) /\ MoneyInv(r)
    BY DEF IInv, Core
  <2>2. RequestInv(r)'
    BY <1>1, <2>1 DEF RequestInv, Seen, Held
  <2>3. MoneyInv(r)'
    BY <1>1, <2>1 DEF MoneyInv, Open, Now
  <2> QED
    BY <2>2, <2>3
<1>5. Calls'
  BY <1>1 DEF IInv, Calls, CallInv, Held, Seen
<1> QED
  BY <1>2, <1>3, <1>4, <1>5 DEF IInv, Core

LEMMA NextInv == IInv /\ [Next]_vars => IInv'
<1> SUFFICES ASSUME IInv, [Next]_vars PROVE IInv'
  OBVIOUS
<1>1. CASE UNCHANGED vars
  BY <1>1, StutterStep
<1>2. ASSUME NEW r \in Requests, Buyer(r) PROVE IInv'
  BY <1>2, CreateRequestStep, AcceptQuoteStep, MemberActionStep DEF Buyer
<1>3. ASSUME NEW r \in Requests, Staff(r) PROVE IInv'
  BY <1>3, SetPriceStep, StaffStep DEF Staff
<1>4. ASSUME NEW r \in Requests, NEW h \in Handlers, sync_request(h, r) PROVE IInv'
  BY <1>4, SyncRequestStep
<1>5. ASSUME NEW o \in PartnerOrders, Partner(o) PROVE IInv'
  BY <1>5, PartnerMovesStep, HandleWebhookStep DEF Partner
<1>6. ASSUME NEW h \in Handlers, Reached(h) PROVE IInv'
  BY <1>6, CreateOrderStep, ListOrdersStep, ActionStep, GetOrderStep DEF Reached
<1>7. ASSUME NEW h \in Handlers, unreachable(h) \/ dies(h) PROVE IInv'
  BY <1>7, UnreachableStep, DiesStep
<1>8. ASSUME NEW h \in Handlers, Applied(h) PROVE IInv'
  BY <1>8, PushCreateApplyStep, ForwardAcceptStep, MemberActionApplyStep, SyncRequestApplyStep
     DEF Applied
<1> QED
  BY <1>1, <1>2, <1>3, <1>4, <1>5, <1>6, <1>7, <1>8 DEF Next

(* The strengthening holds in every state, for any number of requests,     *)
(* partner orders and handlers.                                            *)
THEOREM Invariant == Spec => []IInv
  BY InitInv, NextInv, PTL DEF Spec

(* Requests, orders, the partner's logs and the handlers stay in the       *)
(* values that takedown/service.py and its tables have.                    *)
THEOREM TypeCorrect == Spec => []TypeOK
  BY Invariant, Typed, PTL

(* No old answer, no webhook out of order and no report after the end      *)
(* delivers or pays back an order (_settle_money) unless the partner's     *)
(* order has ended that way.                                               *)
THEOREM PartnerDecides == Spec => []MoneyFollowsPartner
  BY Invariant, Consequences, PTL

(* A request whose order holds money is one that takedown_sync_job still   *)
(* reads, or the partner has carried out a refusal of the quote.           *)
THEOREM MoneyIsWatched == Spec => []HeldMoneyIsWatched
  BY Invariant, Consequences, PTL

(* forward_accept, repeated by sync_request, has one order of the partner  *)
(* carried out for a request, and only when the buyer's money is held.     *)
THEOREM OneAcceptance == Spec => []AcceptedOnce
  BY Invariant, Consequences, PTL

-----------------------------------------------------------------------------
(* The contract.  What a step may do to the money of one order.            *)
Untouched(m) == m.refunded = 0 /\ m.paid = 0
Ends(m) ==
  \/ m.status \in {"cancelled", "refunded"} /\ m.refunded = Price /\ m.paid = 0
  \/ m.status = "completed" /\ m.refunded = 0 /\ m.paid = Price

MoneyStep(r, m) ==
  /\ order' = [order EXCEPT ![r] = m]
  /\ \/ order[r] = NoOrder /\ m.status = "processing" /\ Untouched(m)
     \/ /\ order[r].status \in {"processing", "delivered"} /\ Untouched(order[r])
        /\ (m.status = "delivered" /\ Untouched(m)) \/ Ends(m)

LEMMA ApplyMoney ==
  ASSUME IInv, NEW r \in Requests, NEW q, NEW o, NEW s, _apply_order_dict(q, r, o, s)
  PROVE  UNCHANGED order \/ \E m \in Order : MoneyStep(r, m)
<1>1. order \in [Requests -> Order] /\ order[r] \in Order /\ MoneyInv(r) /\ Price \in 0..Price
  BY DEF IInv, Core, Types
<1>2. PICK new : UNCHANGED order \/ order' = [order EXCEPT ![r] = _settle_money(order[r], new)]
  BY DEF _apply_order_dict, _apply
<1> DEFINE m == _settle_money(order[r], new)
<1>3. CASE order[r].status = "processing"
  <2>1. Untouched(order[r])
    BY <1>1, <1>3 DEF MoneyInv, Untouched
  <2>2. m = order[r] \/ (m \in Order /\ ((m.status = "delivered" /\ Untouched(m)) \/ Ends(m)))
    BY <1>1, <1>3, <2>1 DEF _settle_money, Order, Untouched, Ends, None
  <2> HIDE DEF m
  <2>3. m = order[r] => [order EXCEPT ![r] = m] = order
    BY <1>1
  <2> QED
    BY <1>2, <1>3, <2>1, <2>2, <2>3 DEF MoneyStep, m
<1>4. CASE order[r].status # "processing"
  <2>1. m = order[r] \/ (new \in REFUND_ON /\ order[r].status = "processing")
    BY <1>4 DEF _settle_money
  <2> HIDE DEF m
  <2>2. m = order[r] => [order EXCEPT ![r] = m] = order
    BY <1>1
  <2> QED
    BY <1>2, <1>4, <2>1, <2>2 DEF m
<1> QED
  BY <1>3, <1>4

LEMMA StaffMoney ==
  ASSUME IInv, NEW r \in Requests, deliver_order(r) \/ refund_order(r) \/ release_escrow(r)
  PROVE  \E m \in Order : MoneyStep(r, m)
<1>1. order[r] \in Order /\ MoneyInv(r) /\ Price \in 0..Price
  BY DEF IInv, Core, Types
<1>2. order[r].status \in {"processing", "delivered"} /\ Untouched(order[r])
  BY <1>1 DEF deliver_order, refund_order, release_escrow, MoneyInv, Untouched
<1>3. CASE deliver_order(r)
  <2> DEFINE m == [order[r] EXCEPT !.status = "delivered", !.by = "staff"]
  <2>1. m \in Order /\ m.status = "delivered" /\ Untouched(m)
    BY <1>1, <1>2 DEF Order, Untouched, None
  <2>2. order' = [order EXCEPT ![r] = m]
    BY <1>3 DEF deliver_order
  <2> HIDE DEF m
  <2> QED
    BY <1>2, <2>1, <2>2 DEF MoneyStep
<1>4. CASE refund_order(r)
  <2> DEFINE m == [order[r] EXCEPT !.status = IF @ = "delivered" THEN "refunded" ELSE "cancelled",
                                   !.refunded = Price, !.by = "staff"]
  <2>1. m \in Order /\ Ends(m)
    BY <1>1, <1>2 DEF Order, Untouched, Ends, None
  <2>2. order' = [order EXCEPT ![r] = m]
    BY <1>4 DEF refund_order
  <2> HIDE DEF m
  <2> QED
    BY <1>2, <2>1, <2>2 DEF MoneyStep
<1>5. CASE release_escrow(r)
  <2> DEFINE m == [order[r] EXCEPT !.status = "completed", !.paid = Price]
  <2>1. m \in Order /\ Ends(m)
    BY <1>1, <1>2 DEF Order, Untouched, Ends, None
  <2>2. order' = [order EXCEPT ![r] = m]
    BY <1>5 DEF release_escrow
  <2> HIDE DEF m
  <2> QED
    BY <1>2, <2>1, <2>2 DEF MoneyStep
<1> QED
  BY <1>3, <1>4, <1>5

LEMMA AcceptMoney ==
  ASSUME IInv, NEW h \in Handlers, NEW r \in Requests, accept_quote(h, r)
  PROVE  \E m \in Order : MoneyStep(r, m)
<1> DEFINE m == [order[r] EXCEPT !.status = "processing"]
<1>1. request[r].status = "quoted" /\ order' = [order EXCEPT ![r] = m]
  BY DEF accept_quote
<1>2. order[r] = NoOrder
  BY <1>1 DEF IInv, Core, RequestInv, MoneyInv, Held
<1>3. m \in Order /\ m.status = "processing" /\ Untouched(m)
  BY <1>2 DEF NoOrder, Order, Untouched, None
<1> HIDE DEF m
<1> QED
  BY <1>1, <1>2, <1>3 DEF MoneyStep

LEMMA NextMoney ==
  ASSUME IInv, [Next]_vars
  PROVE  UNCHANGED order \/ \E r \in Requests, m \in Order : MoneyStep(r, m)
<1>1. CASE UNCHANGED vars
  BY <1>1 DEF vars
<1>2. ASSUME NEW r \in Requests, Buyer(r)
      PROVE  UNCHANGED order \/ \E m \in Order : MoneyStep(r, m)
  BY <1>2, AcceptMoney DEF Buyer, create_request, _member_action
<1>3. ASSUME NEW r \in Requests, Staff(r)
      PROVE  UNCHANGED order \/ \E m \in Order : MoneyStep(r, m)
  BY <1>3, StaffMoney DEF Staff, set_price
<1>4. ASSUME NEW r \in Requests, NEW h \in Handlers, sync_request(h, r) PROVE UNCHANGED order
  BY <1>4 DEF sync_request
<1>5. ASSUME NEW o \in PartnerOrders, Partner(o)
      PROVE  UNCHANGED order \/ \E r \in Requests, m \in Order : MoneyStep(r, m)
  <2>1. CASE partner_moves(o)
    BY <2>1 DEF partner_moves
  <2>2. CASE \E k \in 0..MaxMoves - 1 : handle_webhook(o, k)
    <3>1. PICK k \in 0..MaxMoves - 1 : handle_webhook(o, k)
      BY <2>2
    <3>2. k < Len(partner[o].log)
      BY <3>1 DEF handle_webhook
    <3>3. partner[o].code \in Requests
      BY <3>2 DEF Unused, IInv, Core, Types
    <3>4. UNCHANGED order \/ \E r \in Requests : \E s : _apply_order_dict(request[r], r, o, s)
      BY <3>1, <3>3 DEF handle_webhook
    <3> QED
      BY <3>4, ApplyMoney
  <2> QED
    BY <1>5, <2>1, <2>2 DEF Partner
<1>6. ASSUME NEW h \in Handlers, Reached(h) \/ unreachable(h) \/ dies(h) PROVE UNCHANGED order
  BY <1>6 DEF Reached, create_order, list_orders, action, get_order, unreachable, dies
<1>7. ASSUME NEW h \in Handlers, Applied(h)
      PROVE  UNCHANGED order \/ \E r \in Requests, m \in Order : MoneyStep(r, m)
  <2>1. call[h].step = "apply"
    BY <1>7 DEF Applied, push_create_apply, forward_accept, _member_action_apply, sync_request_apply
  <2>2. call[h].req \in Requests
    BY <2>1, CallTyped DEF Call, None
  <2>3. UNCHANGED order \/ \E q, s : _apply_order_dict(q, call[h].req, call[h].order, s)
    BY <1>7 DEF Applied, push_create_apply, forward_accept, _member_action_apply, sync_request_apply
  <2> QED
    BY <2>2, <2>3, ApplyMoney
<1> QED
  BY <1>1, <1>2, <1>3, <1>4, <1>5, <1>6, <1>7 DEF Next

(* Records of the contract are equal when their fields are.                *)
LEMMA SameEscrow ==
  ASSUME NEW x \in Escrow!Held, NEW y \in Escrow!Held, x.phase = y.phase, x.total = y.total,
         x.toBuyer = y.toBuyer, x.toSeller = y.toSeller
  PROVE  x = y
  BY DEF Escrow!Held

(* Under the view, such a step is one of the contract, or none.            *)
LEMMA MoneyContract ==
  ASSUME IInv, NEW r \in Requests, NEW m \in Order, MoneyStep(r, m)
  PROVE  [Escrow!Next]_MoneyView
<1>1. order \in [Requests -> Order] /\ order' = [order EXCEPT ![r] = m]
  BY DEF MoneyStep, IInv, Core, Types
<1>2. order'[r] = m /\ \A u \in Requests : u # r => order'[u] = order[u]
  BY <1>1
<1> DEFINE old == MoneyView[r]
           new == MoneyView'[r]
<1>3. MoneyView' = [MoneyView EXCEPT ![r] = new]
  BY <1>2 DEF MoneyView, Held
<1>4. /\ old.phase = IF ~Held(r) THEN "none"
                     ELSE IF order[r].status \in {"processing", "delivered"} THEN "held" ELSE "closed"
      /\ old.total = IF Held(r) THEN Price ELSE 0
      /\ old.toBuyer = order[r].refunded /\ old.toSeller = order[r].paid
      /\ old = [phase |-> old.phase, total |-> old.total,
                toBuyer |-> old.toBuyer, toSeller |-> old.toSeller]
  BY DEF MoneyView
<1>5. new = [ phase |-> IF m.status = None THEN "none"
                        ELSE IF m.status \in {"processing", "delivered"} THEN "held" ELSE "closed",
              total |-> IF m.status # None THEN Price ELSE 0,
              toBuyer |-> m.refunded, toSeller |-> m.paid ]
  BY <1>2 DEF MoneyView, Held
<1> HIDE DEF old
<1>6. CASE order[r] = NoOrder /\ m.status = "processing" /\ Untouched(m)
  <2>1. old.phase = "none"
    BY <1>4, <1>6 DEF Held, NoOrder
  <2>2. new = [phase |-> "held", total |-> Price, toBuyer |-> 0, toSeller |-> 0]
    BY <1>5, <1>6 DEF Untouched, None
  <2> HIDE DEF new
  <2>3. new = [Escrow!Empty EXCEPT !.phase = "held", !.total = Price]
    <3> DEFINE e == [Escrow!Empty EXCEPT !.phase = "held", !.total = Price]
    <3>1. /\ e \in Escrow!Held /\ e.phase = "held" /\ e.total = Price
          /\ e.toBuyer = 0 /\ e.toSeller = 0
      BY DEF Escrow!Empty, Escrow!Held
    <3>2. new \in Escrow!Held
      BY <2>2 DEF Escrow!Held
    <3> HIDE DEF e
    <3>3. new = e
      BY <2>2, <3>1, <3>2, SameEscrow
    <3> QED
      BY <3>3 DEF e
  <2>4. Escrow!Pay(r, Price)
    BY <1>3, <2>1, <2>3 DEF Escrow!Pay, Escrow!Put, old
  <2> QED
    BY <2>4 DEF Escrow!Next
<1>7. CASE /\ order[r].status \in {"processing", "delivered"} /\ Untouched(order[r])
           /\ m.status = "delivered" /\ Untouched(m)
  <2>1. new = old
    BY <1>4, <1>5, <1>7 DEF Held, Untouched, None
  <2> HIDE DEF new
  <2>2. [MoneyView EXCEPT ![r] = old] = MoneyView
    BY DEF MoneyView, old
  <2> QED
    BY <1>3, <2>1, <2>2
<1>8. CASE order[r].status \in {"processing", "delivered"} /\ Untouched(order[r]) /\ Ends(m)
  <2>1. /\ old.phase = "held" /\ old.total = Price /\ old.toBuyer = 0
        /\ old = [phase |-> "held", total |-> Price, toBuyer |-> 0, toSeller |-> 0]
    BY <1>4, <1>8 DEF Held, Untouched, None
  <2>2. new = [phase |-> "closed", total |-> Price, toBuyer |-> m.refunded, toSeller |-> m.paid]
    BY <1>5, <1>8 DEF Ends, None
  <2>3. PICK amount \in 0..Price : m.refunded = amount /\ m.paid = Price - amount
    BY <1>8 DEF Ends
  <2> HIDE DEF new
  <2>4. new = [old EXCEPT !.phase = "closed", !.toBuyer = @ + amount,
                          !.toSeller = old.total - (old.toBuyer + amount)]
    <3> DEFINE e == [old EXCEPT !.phase = "closed", !.toBuyer = @ + amount,
                                !.toSeller = old.total - (old.toBuyer + amount)]
    <3>1. old \in Escrow!Held
      BY <2>1 DEF Escrow!Held
    <3> HIDE DEF old
    <3>2. /\ e \in Escrow!Held /\ e.phase = "closed" /\ e.total = Price
          /\ e.toBuyer = amount /\ e.toSeller = Price - amount
      <4>1. amount \in Nat /\ Price - amount \in Nat /\ 0 + amount = amount
        BY <2>3
      <4> QED
        BY <2>1, <3>1, <4>1 DEF Escrow!Held
    <3>3. new \in Escrow!Held
      BY <2>2, <2>3 DEF Escrow!Held
    <3> HIDE DEF e
    <3>4. new = e
      BY <2>2, <2>3, <3>2, <3>3, SameEscrow
    <3> QED
      BY <3>4 DEF e
  <2>5. Escrow!Divide(r, amount)
    BY <1>3, <2>1, <2>3, <2>4 DEF Escrow!Divide, Escrow!Put, old
  <2>6. amount \in 0..MoneyView[r].total
    BY <2>1 DEF old
  <2> QED
    BY <2>5, <2>6 DEF Escrow!Next
<1> QED
  BY <1>6, <1>7, <1>8 DEF MoneyStep

(* The order of a takedown (accept_quote, _settle_money, staff and the     *)
(* release) pays in once and divides what it holds once, to the last dong, *)
(* as every other order of the marketplace does.                           *)
THEOREM Contract == Spec => KeepsContract
<1>1. Init => Escrow!Init
  BY DEF Init, Escrow!Init, Escrow!Empty, MoneyView, Held, NoOrder
<1>2. IInv /\ [Next]_vars => [Escrow!Next]_MoneyView
  BY NextMoney, MoneyContract DEF MoneyView, Held
<1> QED
  BY <1>1, <1>2, Invariant, PTL DEF Spec, KeepsContract, Escrow!Spec
=============================================================================
