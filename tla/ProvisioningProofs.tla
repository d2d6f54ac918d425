------------------------- MODULE ProvisioningProofs -------------------------
(***************************************************************************)
(* Purchases from a catalog supplier, for any number of orders, slots,     *)
(* sweeps and retries.  The argument: the row lock makes a worker the only *)
(* one that touches its order, so what it has found stays true until its   *)
(* commit; the marker is written before the purchase and is never taken    *)
(* back, so an order that has none has not been bought.                    *)
(***************************************************************************)
EXTENDS Provisioning, TLAPS

USE PriceAssumption, ChargesAssumption, PartialAssumption, BoundsAssumption, NoneAssumption

(* What a worker that holds an order may rely on.                          *)
SlotInv(s) ==
  LET w == slot[s]
      o == slot[s].order
  IN  w # Idle =>
        /\ w.step # "alert" => Pending(o)
        /\ w.step \in {"balance", "mark"} => "again" \in slips[o] \/ ~order[o].marked
        /\ w.step \in {"buy", "compare"} => order[o].marked
        /\ w.step = "buy" => "again" \in slips[o] \/ bought[o] = 0
        /\ w.step = "apply" /\ w.lines = 0 /\ ~w.tell => slips[o] # {} \/ bought[o] = 0

OneLock == \A s, t \in Slots : \A o \in Orders : Locks(s, o) /\ Locks(t, o) => s = t

Back(lines) == Price - (Price * lines) \div Quantity

Money(o) ==
  /\ order[o].status \notin {"delivered", "cancelled"} => order[o].lines = 0 /\ order[o].refunded = 0
  /\ order[o].status = "cancelled" => order[o].lines = 0 /\ order[o].refunded = Price
  /\ order[o].status = "delivered" => order[o].refunded = Back(order[o].lines)

Purchases(o) ==
  /\ bought[o] > 0 => order[o].marked
  /\ bought[o] > 1 => "again" \in slips[o]

Reported(o) ==
  order[o].status = "cancelled" /\ bought[o] > 0 =>
    \/ order[o].told
    \/ \E s \in Slots : slot[s].order = o /\ slot[s].step = "alert"
    \/ slips[o] # {}

IInv ==
  /\ TypeOK
  /\ OneLock
  /\ \A s \in Slots : SlotInv(s)
  /\ \A o \in Orders : Money(o) /\ Purchases(o) /\ Reported(o)

-----------------------------------------------------------------------------
(* The invariant says what the properties say.                             *)
LEMMA BackOfNothing == Back(0) = Price
  BY DEF Back

LEMMA BackFits ==
  ASSUME NEW n \in 0..Quantity
  PROVE  Back(n) \in 0..Price
<1>1. Price * n \in Nat /\ Price * n <= Price * Quantity
  OBVIOUS
<1>2. /\ (Price * n) \div Quantity \in Int
      /\ Quantity * ((Price * n) \div Quantity) <= Price * n
      /\ Price * n < Quantity * ((Price * n) \div Quantity + 1)
  BY <1>1
<1> DEFINE d == (Price * n) \div Quantity
<1>3. d >= 0
  <2> HIDE DEF d
  <2>1. d < 0 => Quantity * (d + 1) <= 0
    BY <1>2 DEF d
  <2> QED
    BY <2>1, <1>1, <1>2 DEF d
<1>4. d <= Price
  <2>1. Quantity * d <= Price * Quantity
    BY <1>1, <1>2
  <2> HIDE DEF d
  <2>2. d \in Int
    BY <1>2 DEF d
  <2>3. d > Price => Quantity * d > Price * Quantity
    BY <2>2
  <2> QED
    BY <2>1, <2>2, <2>3
<1> QED
  BY <1>2, <1>3, <1>4 DEF Back

LEMMA Consequences == IInv => TypeOK /\ GoodsOrMoney /\ BoughtOnce /\ LossIsReported
<1> SUFFICES ASSUME IInv
             PROVE  TypeOK /\ GoodsOrMoney /\ BoughtOnce /\ LossIsReported
  OBVIOUS
<1>1. GoodsOrMoney
  BY BackOfNothing DEF IInv, Money, GoodsOrMoney, Back
<1>2. BoughtOnce
  BY DEF IInv, Purchases, BoughtOnce
<1>3. LossIsReported
  BY DEF IInv, Reported, LossIsReported
<1> QED
  BY <1>1, <1>2, <1>3 DEF IInv

LEMMA InitInv == Init => IInv
<1> SUFFICES ASSUME Init
             PROVE  IInv
  OBVIOUS
<1>1. TypeOK
  <2>1. NoOrder \in Order
    BY DEF NoOrder, Order
  <2>2. Rest \in Run
    BY DEF Rest, Run
  <2>3. [balance |-> Funds, topUps |-> 0] \in [balance : Nat, topUps : 0..MaxTopUps]
    OBVIOUS
  <2> QED
    BY <2>1, <2>2, <2>3 DEF Init, TypeOK
<1>2. OneLock
  BY DEF Init, OneLock, Locks, Idle
<1>3. \A s \in Slots : SlotInv(s)
  BY DEF Init, SlotInv
<1>4. \A o \in Orders : Money(o) /\ Purchases(o) /\ Reported(o)
  BY DEF Init, NoOrder, Money, Purchases, Reported, None
<1> QED
  BY <1>1, <1>2, <1>3, <1>4 DEF IInv

-----------------------------------------------------------------------------
(* Three kinds of steps, by what they leave alone.  A step of the worker   *)
(* that locks an order: all else about other orders stays.                 *)
LEMMA WorkerFrame ==
  ASSUME IInv, TypeOK', NEW s \in Slots, NEW o \in Orders,
         slot[s].order = o, slot[s].step # "alert",
         slot' = [slot EXCEPT ![s] = slot'[s]],
         slot'[s] = Idle \/ slot'[s].order = o,
         \A p \in Orders : p # o =>
           order'[p] = order[p] /\ bought'[p] = bought[p] /\ slips'[p] = slips[p],
         SlotInv(s)', Money(o)', Purchases(o)', Reported(o)'
  PROVE  IInv'
<1>1. Locks(s, o)
  BY DEF Locks
<1>2. ASSUME NEW t \in Slots, t # s, slot[t].order = o
      PROVE  slot[t].step = "alert"
  BY <1>1, <1>2 DEF IInv, OneLock, Locks
<1>3. \A t \in Slots : t # s => slot'[t] = slot[t]
  BY DEF IInv, TypeOK
<1>4. ASSUME NEW t \in Slots
      PROVE  SlotInv(t)'
  <2>1. CASE t = s
    BY <2>1
  <2>2. CASE t # s /\ slot[t].order = o
    BY <2>2, <1>2, <1>3 DEF SlotInv
  <2>3. CASE t # s /\ slot[t].order # o
    <3>1. SlotInv(t) /\ slot'[t] = slot[t]
      BY <2>3, <1>3 DEF IInv
    <3>2. slot[t] # Idle => slot[t].order \in Orders
      BY DEF IInv, TypeOK, Worker
    <3> QED
      BY <3>1, <3>2, <2>3 DEF SlotInv, Pending
  <2> QED
    BY <2>1, <2>2, <2>3
<1>5. OneLock'
  <2> SUFFICES ASSUME NEW t \in Slots, NEW u \in Slots, NEW p \in Orders, Locks(t, p)', Locks(u, p)'
               PROVE  t = u
    BY DEF OneLock
  <2>1. ASSUME NEW v \in Slots, Locks(v, p)'
        PROVE  Locks(v, p)
    <3>1. CASE v = s
      <4>1. slot'[s].order = p /\ p # None
        BY <2>1, <3>1 DEF Locks
      <4>2. slot'[s] # Idle
        BY <4>1 DEF Idle
      <4> QED
        BY <3>1, <4>1, <4>2, <1>1 DEF Locks
    <3> QED
      BY <3>1, <2>1, <1>3 DEF Locks
  <2> QED
    BY <2>1 DEF IInv, OneLock
<1>6. ASSUME NEW p \in Orders
      PROVE  (Money(p) /\ Purchases(p) /\ Reported(p))'
  <2>1. CASE p = o
    BY <2>1
  <2>2. CASE p # o
    <3>1. order'[p] = order[p] /\ bought'[p] = bought[p] /\ slips'[p] = slips[p]
      BY <2>2
    <3>2. Money(p) /\ Purchases(p) /\ Reported(p)
      BY DEF IInv
    <3>3. ASSUME NEW t \in Slots, slot[t].order = p /\ slot[t].step = "alert"
          PROVE  slot'[t].order = p /\ slot'[t].step = "alert"
      BY <3>3, <2>2, <1>3
    <3>4. Money(p)' /\ Purchases(p)'
      BY <3>1, <3>2 DEF Money, Purchases
    <3>5. Reported(p)'
      BY <3>1, <3>2, <3>3 DEF Reported
    <3> QED
      BY <3>4, <3>5
  <2> QED
    BY <2>1, <2>2
<1> QED
  BY <1>4, <1>5, <1>6 DEF IInv

(* A step on a row that no worker relies on, or on parts of it none does.  *)
LEMMA RowFrame ==
  ASSUME IInv, TypeOK', NEW o \in Orders, slot' = slot, bought' = bought,
         \A p \in Orders : p # o => order'[p] = order[p] /\ slips'[p] = slips[p],
         slips[o] \subseteq slips'[o],
         order'[o].marked = order[o].marked,
         Locked(o) => order'[o].status = order[o].status,
         Money(o)', Reported(o)'
  PROVE  IInv'
<1>1. ASSUME NEW t \in Slots
      PROVE  SlotInv(t)'
  <2>1. SlotInv(t)
    BY DEF IInv
  <2>2. slot[t] # Idle => slot[t].order \in Orders
    BY DEF IInv, TypeOK, Worker
  <2>3. CASE slot[t].order # o
    BY <2>1, <2>2, <2>3 DEF SlotInv, Pending
  <2>4. CASE slot[t].order = o /\ slot[t].step = "alert"
    BY <2>4 DEF SlotInv
  <2>5. CASE slot[t].order = o /\ slot[t].step # "alert"
    <3>1. Locked(o)
      BY <2>5 DEF Locked, Locks
    <3> QED
      BY <3>1, <2>5, <2>1 DEF SlotInv, Pending
  <2> QED
    BY <2>3, <2>4, <2>5
<1>2. OneLock'
  BY DEF IInv, OneLock, Locks
<1>3. ASSUME NEW p \in Orders
      PROVE  (Money(p) /\ Purchases(p) /\ Reported(p))'
  <2>1. Money(p) /\ Purchases(p) /\ Reported(p)
    BY DEF IInv
  <2>2. Purchases(p)'
    BY <2>1 DEF Purchases
  <2>3. Money(p)' /\ Reported(p)'
    BY <2>1 DEF Money, Reported
  <2> QED
    BY <2>2, <2>3
<1> QED
  BY <1>1, <1>2, <1>3 DEF IInv

(* Workers that end without having changed anything but an alert.          *)
LEMMA EndFrame ==
  ASSUME IInv, TypeOK', bought' = bought,
         \A t \in Slots : slot'[t] = slot[t] \/ slot'[t] = Idle,
         \A p \in Orders : slips[p] \subseteq slips'[p] /\
           (order'[p] = order[p] \/ order'[p] = [order[p] EXCEPT !.told = TRUE]),
         \A t \in Slots : slot[t].step = "alert" /\ slot'[t] # slot[t] =>
           slips'[slot[t].order] # {} \/ order'[slot[t].order].told
  PROVE  IInv'
<1>0. \A p \in Orders :
        /\ order'[p].status = order[p].status /\ order'[p].marked = order[p].marked
        /\ order'[p].lines = order[p].lines /\ order'[p].refunded = order[p].refunded
        /\ order[p].told => order'[p].told
  BY DEF IInv, TypeOK, Order
<1>1. ASSUME NEW t \in Slots
      PROVE  SlotInv(t)'
  <2>1. CASE slot'[t] = Idle
    BY <2>1 DEF SlotInv
  <2>2. CASE slot'[t] = slot[t] /\ slot[t] # Idle
    <3>1. slot[t].order \in Orders
      BY <2>2 DEF IInv, TypeOK, Worker
    <3>2. SlotInv(t)
      BY DEF IInv
    <3> QED
      BY <3>1, <3>2, <2>2, <1>0 DEF SlotInv, Pending
  <2> QED
    BY <2>1, <2>2
<1>2. OneLock'
  <2>1. ASSUME NEW v \in Slots, NEW p \in Orders, Locks(v, p)'
        PROVE  Locks(v, p)
    BY <2>1 DEF Locks, Idle
  <2> QED
    BY <2>1 DEF IInv, OneLock
<1>3. ASSUME NEW p \in Orders
      PROVE  (Money(p) /\ Purchases(p) /\ Reported(p))'
  <2>1. Money(p) /\ Purchases(p) /\ Reported(p)
    BY DEF IInv
  <2>2. Money(p)' /\ Purchases(p)'
    BY <2>1, <1>0 DEF Money, Purchases
  <2>3. Reported(p)'
    <3> SUFFICES ASSUME order'[p].status = "cancelled", bought'[p] > 0, ~order'[p].told, slips'[p] = {}
                 PROVE  \E s \in Slots : slot'[s].order = p /\ slot'[s].step = "alert"
      BY DEF Reported
    <3>1. slips[p] = {} /\ ~order[p].told
      BY <1>0
    <3>2. PICK t \in Slots : slot[t].order = p /\ slot[t].step = "alert"
      BY <2>1, <3>1, <1>0 DEF Reported
    <3>3. slot'[t] = slot[t]
      BY <3>2
    <3> QED
      BY <3>2, <3>3
  <2> QED
    BY <2>2, <2>3
<1> QED
  BY <1>1, <1>2, <1>3 DEF IInv

-----------------------------------------------------------------------------
(* Typing, for each action.                                                *)
LEMMA RowTyped ==
  ASSUME TypeOK, NEW o \in Orders, NEW row \in Order, order' = [order EXCEPT ![o] = row]
  PROVE  order' \in [Orders -> Order]
  BY DEF TypeOK

LEMMA SlotTyped ==
  ASSUME TypeOK, NEW s \in Slots, NEW w \in Worker \cup {Idle}, slot' = [slot EXCEPT ![s] = w]
  PROVE  slot' \in [Slots -> Worker \cup {Idle}]
  BY DEF TypeOK

LEMMA SlipTyped ==
  ASSUME TypeOK, NEW o, NEW why \in Slips, Slip(o, why) \/ slips' = slips
  PROVE  slips' \in [Orders -> SUBSET Slips]
  BY DEF TypeOK, Slip

LEMMA RunTyped ==
  ASSUME TypeOK, NEW j, NEW at \in {"rest", "expire", "retry"}, NEW todo \in SUBSET Orders,
         Goes(j, at, todo)
  PROVE  sweep' \in [Sweeps -> Run]
  BY DEF TypeOK, Goes, Run

(* Rows, field by field.                                                   *)
LEMMA RowChanges ==
  ASSUME NEW row \in Order,
         NEW status \in {None, "pending", "delivered", "cancelled"}, NEW lines \in 0..Quantity,
         NEW refunded \in 0..Price, NEW told \in BOOLEAN, NEW tasks \in Nat, NEW retries \in 0..MaxRetries
  PROVE  /\ [row EXCEPT !.status = status, !.tasks = tasks] \in Order
         /\ [row EXCEPT !.tasks = tasks, !.retries = retries] \in Order
         /\ [row EXCEPT !.status = status, !.refunded = refunded, !.told = told] \in Order
         /\ [row EXCEPT !.status = status, !.lines = lines, !.refunded = refunded] \in Order
<1> DEFINE a == [row EXCEPT !.status = status]
           b == [a EXCEPT !.refunded = refunded]
           c == [row EXCEPT !.tasks = tasks]
           d == [a EXCEPT !.lines = lines]
<1>1. a \in Order /\ c \in Order
  BY DEF Order
<1>2. b \in Order /\ d \in Order /\ [c EXCEPT !.retries = retries] \in Order /\ [a EXCEPT !.tasks = tasks] \in Order
  <2> HIDE DEF a, c
  <2> QED
    BY <1>1 DEF Order
<1>3. [b EXCEPT !.told = told] \in Order /\ [d EXCEPT !.refunded = refunded] \in Order
  <2> HIDE DEF b, d
  <2> QED
    BY <1>2 DEF Order
<1> QED
  BY <1>2, <1>3

(* Who works in a slot, and on what.                                       *)
LEMMA AtWork ==
  ASSUME TypeOK, NEW s \in Slots, slot[s] # Idle
  PROVE  slot[s] \in Worker /\ slot[s].order \in Orders
  BY DEF TypeOK, Worker

LEMMA StepIsWork ==
  ASSUME NEW s, slot[s].step \in {"balance", "mark", "buy", "compare", "apply", "alert"}
  PROVE  slot[s] # Idle
  BY DEF Idle, None

LEMMA CancelTyped ==
  ASSUME TypeOK, NEW o \in Orders, NEW told \in BOOLEAN, Cancel(o, told)
  PROVE  order' \in [Orders -> Order]
<1>1. order[o] \in Order
  BY DEF TypeOK
<1>2. [order[o] EXCEPT !.status = "cancelled", !.refunded = Price, !.told = told] \in Order
  <2>1. "cancelled" \in {None, "pending", "delivered", "cancelled"} /\ Price \in 0..Price
        /\ 0 \in 0..Quantity /\ 0 \in Nat /\ 0 \in 0..MaxRetries
    OBVIOUS
  <2> QED
    BY <1>1, <2>1, RowChanges, Zenon
<1>3. order' = [order EXCEPT ![o] = [order[o] EXCEPT !.status = "cancelled", !.refunded = Price, !.told = told]]
  BY <1>1 DEF Cancel, TypeOK
<1> QED
  BY <1>2, <1>3, RowTyped

-----------------------------------------------------------------------------
(* Orders as they are placed, grow old, and are asked for again.           *)
LEMMA create_order_with_adapter_Inv ==
  ASSUME IInv, NEW o \in Orders, create_order_with_adapter(o)
  PROVE  IInv'
<1>0. TypeOK /\ order[o] \in Order
  BY DEF IInv, TypeOK
<1> USE DEF create_order_with_adapter
<1>1. PICK n \in {0, 1} : order' = [order EXCEPT ![o].status = "pending", ![o].tasks = n]
  OBVIOUS
<1>2. order' = [order EXCEPT ![o] = [order[o] EXCEPT !.status = "pending", !.tasks = n]]
  BY <1>0, <1>1 DEF TypeOK
<1>3. [order[o] EXCEPT !.status = "pending", !.tasks = n] \in Order
  <2>1. "pending" \in {None, "pending", "delivered", "cancelled"} /\ n \in Nat /\ TRUE \in BOOLEAN
        /\ 0 \in 0..Quantity /\ 0 \in 0..Price /\ 0 \in 0..MaxRetries
    OBVIOUS
  <2> QED
    BY <1>0, <2>1, RowChanges, Zenon
<1>4. TypeOK'
  BY <1>0, <1>2, <1>3, RowTyped DEF TypeOK
<1>5. order'[o] = [order[o] EXCEPT !.status = "pending", !.tasks = n]
  BY <1>2, <1>0 DEF TypeOK
<1>6. \A p \in Orders : p # o => order'[p] = order[p]
  BY <1>2, <1>0 DEF TypeOK
<1>7. /\ order'[o].status = "pending" /\ order'[o].marked = order[o].marked
      /\ order'[o].lines = order[o].lines /\ order'[o].refunded = order[o].refunded
  BY <1>0, <1>5 DEF Order
<1>8. Money(o)' /\ Reported(o)'
  BY <1>7 DEF IInv, Money, Reported, None
<1>9. ~Locked(o)
  <2> SUFFICES ASSUME NEW s \in Slots, Locks(s, o)
               PROVE  FALSE
    BY DEF Locked
  <2>1. slot[s] # Idle
    BY DEF Locks, Idle
  <2>2. Pending(o)
    BY <2>1 DEF IInv, SlotInv, Locks
  <2> QED
    BY <2>2 DEF Pending, None
<1> QED
  BY <1>4, <1>6, <1>7, <1>8, <1>9, RowFrame

(* A row whose tasks, age or retries change.                               *)
LEMMA Touched ==
  ASSUME IInv, NEW o \in Orders, NEW row \in Order, order' = [order EXCEPT ![o] = row],
         row.status = order[o].status, row.marked = order[o].marked, row.lines = order[o].lines,
         row.refunded = order[o].refunded, row.told = order[o].told,
         UNCHANGED <<slot, sweep, bought, account, slips>>
  PROVE  IInv'
<1>1. TypeOK'
  BY RowTyped DEF IInv, TypeOK
<1>2. order'[o] = row /\ \A p \in Orders : p # o => order'[p] = order[p]
  BY DEF IInv, TypeOK
<1>3. Money(o)' /\ Reported(o)'
  BY <1>2 DEF IInv, Money, Reported
<1> QED
  BY <1>1, <1>2, <1>3, RowFrame

LEMMA Touches_Inv ==
  ASSUME IInv, NEW o \in Orders, task_lost(o) \/ time_passes(o) \/ retry_provision(o)
  PROVE  IInv'
<1>0. TypeOK /\ order[o] \in Order
  BY DEF IInv, TypeOK
<1>1. CASE task_lost(o)
  <2> DEFINE row == [order[o] EXCEPT !.tasks = @ - 1]
  <2>1. row \in Order
    BY <1>0, <1>1 DEF task_lost, Order
  <2>2. order' = [order EXCEPT ![o] = row]
    BY <1>0, <1>1 DEF task_lost, TypeOK
  <2>3. /\ row.status = order[o].status /\ row.marked = order[o].marked /\ row.lines = order[o].lines
        /\ row.refunded = order[o].refunded /\ row.told = order[o].told
    BY <1>0 DEF Order
  <2> HIDE DEF row
  <2> QED
    BY <1>1, <2>1, <2>2, <2>3, Touched DEF task_lost
<1>2. CASE time_passes(o)
  <2>1. PICK age \in {"due", "expired", "breached"} :
          order' = [order EXCEPT ![o] = [order[o] EXCEPT !.age = age]]
    <3> DEFINE older == CASE order[o].age = "fresh" -> "due" [] order[o].age = "due" -> "expired"
                          [] OTHER -> "breached"
    <3>1. older \in {"due", "expired", "breached"}
      OBVIOUS
    <3>2. order' = [order EXCEPT ![o] = [order[o] EXCEPT !.age = older]]
      BY <1>0, <1>2 DEF time_passes, TypeOK
    <3> QED
      BY <3>1, <3>2
  <2> DEFINE row == [order[o] EXCEPT !.age = age]
  <2>2. row \in Order
    BY <1>0 DEF Order
  <2>3. /\ row.status = order[o].status /\ row.marked = order[o].marked /\ row.lines = order[o].lines
        /\ row.refunded = order[o].refunded /\ row.told = order[o].told
    BY <1>0 DEF Order
  <2>4. order' = [order EXCEPT ![o] = row]
    BY <2>1
  <2> HIDE DEF row
  <2> QED
    BY <1>2, <2>2, <2>3, <2>4, Touched DEF time_passes
<1>3. CASE retry_provision(o)
  <2> DEFINE row == [order[o] EXCEPT !.tasks = @ + 1, !.retries = @ + 1]
  <2>1. row \in Order
    <3>1. order[o].tasks + 1 \in Nat /\ order[o].retries + 1 \in 0..MaxRetries
      BY <1>0, <1>3 DEF retry_provision, Order
    <3>2. None \in {None, "pending", "delivered", "cancelled"} /\ TRUE \in BOOLEAN
          /\ 0 \in 0..Quantity /\ 0 \in 0..Price
      OBVIOUS
    <3> QED
      BY <1>0, <3>1, <3>2, RowChanges, Zenon
  <2>2. order' = [order EXCEPT ![o] = row]
    BY <1>0, <1>3 DEF retry_provision, TypeOK
  <2>3. /\ row.status = order[o].status /\ row.marked = order[o].marked /\ row.lines = order[o].lines
        /\ row.refunded = order[o].refunded /\ row.told = order[o].told
    BY <1>0 DEF Order
  <2> HIDE DEF row
  <2> QED
    BY <1>3, <2>1, <2>2, <2>3, Touched DEF retry_provision
<1> QED
  BY <1>1, <1>2, <1>3

(* Refunds of a pending order that nobody holds.                           *)
LEMMA Cancelled ==
  ASSUME IInv, TypeOK', NEW o \in Orders, NEW told \in BOOLEAN, Pending(o), ~Locked(o),
         Cancel(o, told), slot' = slot, bought' = bought, slips[o] \subseteq slips'[o],
         \A p \in Orders : p # o => slips'[p] = slips[p],
         bought[o] = 0 \/ told \/ slips'[o] # {}
  PROVE  IInv'
<1>0. order[o] \in Order
  BY DEF IInv, TypeOK
<1>1. order'[o] = [order[o] EXCEPT !.status = "cancelled", !.refunded = Price, !.told = told]
  BY DEF IInv, TypeOK, Cancel
<1>2. \A p \in Orders : p # o => order'[p] = order[p]
  BY DEF IInv, TypeOK, Cancel
<1>3. /\ order'[o].status = "cancelled" /\ order'[o].refunded = Price /\ order'[o].told = told
      /\ order'[o].lines = order[o].lines /\ order'[o].marked = order[o].marked
  BY <1>0, <1>1 DEF Order
<1>4. order[o].lines = 0
  BY DEF IInv, Money, Pending
<1>5. Money(o)'
  BY <1>3, <1>4 DEF Money
<1>6. bought[o] \in Nat
  BY DEF IInv, TypeOK
<1>7. Reported(o)'
  BY <1>3, <1>6 DEF Reported
<1> QED
  BY <1>2, <1>3, <1>5, <1>7, RowFrame

LEMMA sla_refund_Inv ==
  ASSUME IInv, NEW o \in Orders, sla_check_job(o) \/ refund_order(o)
  PROVE  IInv'
<1>0. TypeOK /\ order[o] \in Order
  BY DEF IInv, TypeOK
<1>1. PICK why \in {"sla", "admin"} : Slip(o, why)
  BY DEF sla_check_job, refund_order
<1>2. /\ Pending(o) /\ ~Locked(o) /\ Cancel(o, order[o].told)
      /\ UNCHANGED <<slot, sweep, bought, account>>
  BY DEF sla_check_job, refund_order
<1>3. order[o].told \in BOOLEAN
  BY <1>0 DEF Order
<1>4. TypeOK'
  <2>1. order' \in [Orders -> Order]
    BY <1>0, <1>2, <1>3, CancelTyped
  <2>2. slips' \in [Orders -> SUBSET Slips]
    BY <1>0, <1>1, SlipTyped DEF Slips
  <2> QED
    BY <1>0, <1>2, <2>1, <2>2 DEF TypeOK
<1>5. slips'[o] = slips[o] \cup {why} /\ \A p \in Orders : p # o => slips'[p] = slips[p]
  BY <1>0, <1>1 DEF Slip, TypeOK
<1> QED
  BY <1>2, <1>3, <1>4, <1>5, Cancelled

-----------------------------------------------------------------------------
(* A worker takes up an order: nobody else has it.                         *)
LEMMA Taken ==
  ASSUME IInv, NEW s \in Slots, NEW o \in Orders, NEW by \in Sweeps \cup {None},
         slot[s] = Idle, provision_pending_order(s, o, by),
         order' \in [Orders -> Order], sweep' \in [Sweeps -> Run], UNCHANGED <<bought, account>>,
         \A p \in Orders : p # o => order'[p] = order[p],
         order'[o].status = order[o].status, order'[o].marked = order[o].marked,
         order'[o].lines = order[o].lines, order'[o].refunded = order[o].refunded,
         order'[o].told = order[o].told
  PROVE  IInv'
<1> DEFINE w == Started(o, by)
<1>0. TypeOK /\ order[o] \in Order
  BY DEF IInv, TypeOK
<1>1. w \in Worker /\ w.order = o /\ w.step = "balance" /\ w # Idle
  <2>1. w.order = o /\ w.step = "balance"
    BY DEF Started
  <2>2. w \in Worker
    BY DEF Started, Worker
  <2>3. w # Idle
    BY <2>1 DEF Idle, None
  <2> QED
    BY <2>1, <2>2, <2>3
<1>2. slips' \in [Orders -> SUBSET Slips]
  BY <1>0, SlipTyped DEF provision_pending_order, Slips
<1>3. TypeOK'
  BY <1>0, <1>1, <1>2, SlotTyped DEF provision_pending_order, Continue, TypeOK
<1>4. /\ \A p \in Orders : slips[p] \subseteq slips'[p]
      /\ \A p \in Orders : p # o => slips'[p] = slips[p]
  BY <1>0 DEF provision_pending_order, Slip, TypeOK
<1>5. Money(o)'
  BY DEF IInv, Money
<1>6. CASE Pending(o) /\ ~Locked(o)
  <2>1. slot'[s] = w /\ \A t \in Slots : t # s => slot'[t] = slot[t]
    BY <1>0, <1>6 DEF provision_pending_order, Continue, TypeOK
  <2>2. "again" \in slips'[o] \/ ~order[o].marked
    BY <1>0, <1>6 DEF provision_pending_order, Slip, TypeOK
  <2>3. ASSUME NEW t \in Slots
        PROVE  SlotInv(t)'
    <3>1. CASE t = s
      BY <3>1, <2>1, <2>2, <1>1, <1>6 DEF SlotInv, Pending
    <3>2. CASE t # s /\ slot[t].order = o
      <4>1. slot[t].step = "alert"
        BY <3>2, <1>6 DEF Locked, Locks
      <4> QED
        BY <4>1, <3>2, <2>1 DEF SlotInv
    <3>3. CASE t # s /\ slot[t].order # o
      <4>1. SlotInv(t) /\ slot'[t] = slot[t]
        BY <3>3, <2>1 DEF IInv
      <4>2. slot[t] # Idle => slot[t].order \in Orders
        BY <1>0, AtWork
      <4> QED
        BY <4>1, <4>2, <3>3, <1>4 DEF SlotInv, Pending
    <3> QED
      BY <3>1, <3>2, <3>3
  <2>4. OneLock'
    <3> SUFFICES ASSUME NEW t \in Slots, NEW u \in Slots, NEW p \in Orders, Locks(t, p)', Locks(u, p)'
                 PROVE  t = u
      BY DEF OneLock
    <3>1. CASE p = o
      BY <3>1, <1>6, <2>1 DEF Locks, Locked
    <3>2. CASE p # o
      <4>1. t # s /\ u # s
        BY <3>2, <2>1, <1>1 DEF Locks
      <4>2. Locks(t, p) /\ Locks(u, p)
        BY <4>1, <2>1 DEF Locks
      <4> QED
        BY <4>2 DEF IInv, OneLock
    <3> QED
      BY <3>1, <3>2
  <2>5. ASSUME NEW p \in Orders
        PROVE  (Money(p) /\ Purchases(p) /\ Reported(p))'
    <3>1. Money(p) /\ Purchases(p) /\ Reported(p)
      BY DEF IInv
    <3>2. Money(p)'
      BY <3>1, <1>5 DEF Money
    <3>3. Purchases(p)'
      BY <3>1, <1>4 DEF Purchases
    <3>4. Reported(p)'
      <4>1. CASE p = o
        BY <4>1, <1>6 DEF Reported, Pending
      <4>2. CASE p # o
        <5>1. ASSUME NEW t \in Slots, slot[t].order = p /\ slot[t].step = "alert"
              PROVE  slot'[t].order = p /\ slot'[t].step = "alert"
          BY <5>1, <2>1 DEF Idle, None
        <5> QED
          BY <4>2, <5>1, <3>1, <1>4 DEF Reported
      <4> QED
        BY <4>1, <4>2
    <3> QED
      BY <3>2, <3>3, <3>4
  <2> QED
    BY <1>3, <2>3, <2>4, <2>5 DEF IInv
<1>7. CASE ~(Pending(o) /\ ~Locked(o))
  <2>1. slot' = slot /\ slips' = slips
    BY <1>7 DEF provision_pending_order
  <2>2. Reported(o)'
    BY <2>1 DEF IInv, Reported
  <2> QED
    BY <2>1, <2>2, <1>3, <1>5, RowFrame
<1> QED
  BY <1>6, <1>7

LEMMA task_runs_Inv ==
  ASSUME IInv, NEW s \in Slots, NEW o \in Orders, task_runs(s, o)
  PROVE  IInv'
<1>0. TypeOK /\ order[o] \in Order
  BY DEF IInv, TypeOK
<1> DEFINE row == [order[o] EXCEPT !.tasks = @ - 1]
<1>1. row \in Order
  BY <1>0 DEF task_runs, Order
<1>2. order' = [order EXCEPT ![o] = row]
  BY <1>0 DEF task_runs, TypeOK
<1>3. /\ row.status = order[o].status /\ row.marked = order[o].marked /\ row.lines = order[o].lines
      /\ row.refunded = order[o].refunded /\ row.told = order[o].told
  BY <1>0 DEF Order
<1> HIDE DEF row
<1>4. order' \in [Orders -> Order] /\ order'[o] = row /\ \A p \in Orders : p # o => order'[p] = order[p]
  BY <1>0, <1>1, <1>2 DEF TypeOK
<1>5. sweep' \in [Sweeps -> Run]
  BY <1>0 DEF task_runs, TypeOK
<1> QED
  BY <1>3, <1>4, <1>5, Taken DEF task_runs

LEMMA sweep_retries_Inv ==
  ASSUME IInv, NEW j \in Sweeps, NEW s \in Slots, NEW o \in Orders, sweep_retries(j, s, o)
  PROVE  IInv'
<1>0. TypeOK /\ order' \in [Orders -> Order]
  BY DEF IInv, TypeOK, sweep_retries
<1>1. sweep' \in [Sweeps -> Run]
  <2>1. sweep[j].todo \ {o} \in SUBSET Orders
    BY <1>0 DEF TypeOK, Run
  <2> QED
    BY <1>0, <2>1, RunTyped DEF sweep_retries
<1> QED
  BY <1>0, <1>1, Taken DEF sweep_retries

(* The other steps of the sweep, and the money on the account.             *)
LEMMA Elsewhere ==
  ASSUME IInv, TypeOK', UNCHANGED <<order, slot, bought, slips>>
  PROVE  IInv'
<1>1. \A s \in Slots : SlotInv(s)'
  BY DEF IInv, SlotInv, Pending
<1>2. OneLock'
  BY DEF IInv, OneLock, Locks
<1>3. \A o \in Orders : (Money(o) /\ Purchases(o) /\ Reported(o))'
  BY DEF IInv, Money, Purchases, Reported
<1> QED
  BY <1>1, <1>2, <1>3 DEF IInv

LEMMA sweep_goes_Inv ==
  ASSUME IInv, NEW j \in Sweeps, sweep_starts(j) \/ sweep_lists(j) \/ sweep_ends(j)
  PROVE  IInv'
<1>0. TypeOK
  BY DEF IInv
<1>1. sweep' \in [Sweeps -> Run]
  <2>1. {o \in Orders : Expired(o)} \in SUBSET Orders /\ {o \in Orders : Retryable(o)} \in SUBSET Orders
    OBVIOUS
  <2> QED
    BY <1>0, <2>1, RunTyped DEF sweep_starts, sweep_lists, sweep_ends
<1>2. UNCHANGED <<order, slot, bought, account, slips>>
  BY DEF sweep_starts, sweep_lists, sweep_ends
<1> QED
  BY <1>0, <1>1, <1>2, Elsewhere DEF TypeOK

LEMMA top_up_Inv == ASSUME IInv, top_up PROVE IInv'
<1>1. account' \in [balance : Nat, topUps : 0..MaxTopUps]
  BY DEF IInv, TypeOK, top_up
<1> QED
  BY <1>1, Elsewhere DEF IInv, TypeOK, top_up

LEMMA sweep_expires_Inv ==
  ASSUME IInv, NEW j \in Sweeps, NEW o \in Orders, sweep_expires(j, o)
  PROVE  IInv'
<1>0. TypeOK /\ order[o] \in Order
  BY DEF IInv, TypeOK
<1>1. sweep' \in [Sweeps -> Run]
  <2>1. sweep[j].todo \ {o} \in SUBSET Orders
    BY <1>0 DEF TypeOK, Run
  <2> QED
    BY <1>0, <2>1, RunTyped DEF sweep_expires
<1>2. UNCHANGED <<slot, bought, account, slips>>
  BY DEF sweep_expires
<1>3. CASE Expired(o) /\ ~Locked(o)
  <2>1. Cancel(o, order[o].marked) /\ Pending(o) /\ order[o].marked \in BOOLEAN
    BY <1>0, <1>3 DEF sweep_expires, Expired, Order
  <2>2. TypeOK'
    BY <1>0, <1>1, <1>2, <2>1, CancelTyped DEF TypeOK
  <2>3. bought[o] = 0 \/ order[o].marked
    BY <1>0 DEF IInv, Purchases, TypeOK
  <2> QED
    BY <1>2, <1>3, <2>1, <2>2, <2>3, Cancelled
<1>4. CASE ~(Expired(o) /\ ~Locked(o))
  BY <1>0, <1>1, <1>2, <1>4, Elsewhere DEF TypeOK, sweep_expires
<1> QED
  BY <1>3, <1>4

-----------------------------------------------------------------------------
(* Ends: an error, a death, an alert that was raised or lost.              *)
LEMMA Ended ==
  ASSUME IInv, NEW s \in Slots, provision_error(s) \/ task_dies(s)
  PROVE  IInv'
<1>0. TypeOK
  BY DEF IInv
<1>1. slot' \in [Slots -> Worker \cup {Idle}]
  BY <1>0, SlotTyped DEF provision_error, task_dies, Continue
<1>2. slips' \in [Orders -> SUBSET Slips]
  BY <1>0, SlipTyped DEF provision_error, task_dies, Slips
<1>3. TypeOK'
  BY <1>0, <1>1, <1>2 DEF TypeOK, provision_error, task_dies
<1>4. slot'[s] = Idle /\ \A t \in Slots : t # s => slot'[t] = slot[t]
  BY <1>0 DEF provision_error, task_dies, Continue, TypeOK
<1>5. \A p \in Orders : slips[p] \subseteq slips'[p]
  BY <1>0 DEF provision_error, task_dies, Slip, TypeOK
<1>6. slot[s].step = "alert" => slips'[slot[s].order] # {}
  <2>1. slot[s] # Idle
    BY DEF provision_error, task_dies
  <2>2. slot[s].order \in Orders
    BY <1>0, <2>1, AtWork
  <2> QED
    BY <1>0, <2>2 DEF provision_error, task_dies, Slip, TypeOK
<1>7. order' = order /\ bought' = bought
  BY DEF provision_error, task_dies
<1> QED
  BY <1>3, <1>4, <1>5, <1>6, <1>7, EndFrame

LEMMA _raise_operational_alert_Inv ==
  ASSUME IInv, NEW s \in Slots, _raise_operational_alert(s)
  PROVE  IInv'
<1> DEFINE o == slot[s].order
           row == [order[o] EXCEPT !.told = TRUE]
<1>0. TypeOK /\ slot[s] \in Worker /\ o \in Orders
  BY AtWork, StepIsWork DEF IInv, _raise_operational_alert
<1>1. slot' \in [Slots -> Worker \cup {Idle}]
  BY <1>0, SlotTyped DEF _raise_operational_alert, Continue
<1>2. slips' \in [Orders -> SUBSET Slips]
  BY <1>0, SlipTyped DEF _raise_operational_alert, Slips
<1>3. order[o] \in Order /\ row \in Order /\ row.told = TRUE
  <2>1. order[o] \in Order
    BY <1>0 DEF TypeOK
  <2> QED
    BY <2>1 DEF Order
<1>4. \/ order' = [order EXCEPT ![o] = row] /\ slips' = slips
      \/ order' = order /\ slips' = [slips EXCEPT ![o] = @ \cup {"alert"}]
  BY <1>0 DEF _raise_operational_alert, Slip, TypeOK
<1>5. order' \in [Orders -> Order]
  BY <1>0, <1>3, <1>4, RowTyped DEF TypeOK
<1>6. TypeOK'
  BY <1>0, <1>1, <1>2, <1>5 DEF TypeOK, _raise_operational_alert
<1>7. slot'[s] = Idle /\ \A t \in Slots : t # s => slot'[t] = slot[t]
  BY <1>0 DEF _raise_operational_alert, Continue, TypeOK
<1>8. \A p \in Orders : slips[p] \subseteq slips'[p] /\
        (order'[p] = order[p] \/ order'[p] = [order[p] EXCEPT !.told = TRUE])
  <2> SUFFICES ASSUME NEW p \in Orders
               PROVE  /\ slips[p] \subseteq slips'[p]
                      /\ order'[p] = order[p] \/ order'[p] = [order[p] EXCEPT !.told = TRUE]
    OBVIOUS
  <2>1. CASE order' = [order EXCEPT ![o] = row] /\ slips' = slips
    <3>1. slips[p] \subseteq slips'[p]
      BY <2>1
    <3>2. CASE p = o
      <4>1. order'[p] = row
        BY <1>0, <2>1, <3>2 DEF TypeOK
      <4> QED
        BY <3>1, <3>2, <4>1
    <3>3. CASE p # o
      <4>1. order'[p] = order[p]
        BY <1>0, <2>1, <3>3 DEF TypeOK
      <4> QED
        BY <3>1, <4>1
    <3> QED
      BY <3>2, <3>3
  <2>2. CASE order' = order /\ slips' = [slips EXCEPT ![o] = @ \cup {"alert"}]
    <3>1. slips[p] \subseteq slips'[p]
      BY <1>0, <2>2 DEF TypeOK
    <3> QED
      BY <2>2, <3>1
  <2> QED
    BY <1>4, <2>1, <2>2
<1>9. slips'[o] # {} \/ order'[o].told
  <2>1. CASE order' = [order EXCEPT ![o] = row]
    <3>1. order'[o] = row
      BY <1>0, <2>1 DEF TypeOK
    <3> QED
      BY <1>3, <3>1
  <2>2. CASE slips' = [slips EXCEPT ![o] = @ \cup {"alert"}]
    BY <1>0, <2>2 DEF TypeOK
  <2> QED
    BY <1>4, <2>1, <2>2
<1> QED
  BY <1>6, <1>7, <1>8, <1>9, EndFrame DEF _raise_operational_alert

LEMMA sweep_dies_Inv ==
  ASSUME IInv, NEW j \in Sweeps, sweep_dies(j)
  PROVE  IInv'
<1>0. TypeOK
  BY DEF IInv
<1>1. sweep' \in [Sweeps -> Run]
  BY <1>0, RunTyped DEF sweep_dies
<1>2. slot' \in [Slots -> Worker \cup {Idle}] /\ \A t \in Slots : slot'[t] = slot[t] \/ slot'[t] = Idle
  BY <1>0 DEF sweep_dies, TypeOK
<1>3. slips' \in [Orders -> SUBSET Slips] /\ \A p \in Orders : slips[p] \subseteq slips'[p]
  BY <1>0 DEF sweep_dies, TypeOK, Slips
<1>4. TypeOK'
  BY <1>0, <1>1, <1>2, <1>3 DEF sweep_dies, TypeOK
<1>5. ASSUME NEW t \in Slots, slot[t].step = "alert", slot'[t] # slot[t]
      PROVE  slips'[slot[t].order] # {}
  <2>1. slot[t].order \in Orders
    BY <1>0, <1>5, AtWork, StepIsWork
  <2>2. slot[t].by = j
    BY <1>5 DEF sweep_dies
  <2>3. slips'[slot[t].order] = slips[slot[t].order] \cup {why \in {"alert"} : \E s \in Slots :
          slot[s].by = j /\ slot[s].order = slot[t].order /\ slot[s].step = "alert"}
    BY <2>1 DEF sweep_dies
  <2> QED
    BY <1>5, <2>2, <2>3
<1>6. order' = order /\ bought' = bought
  BY DEF sweep_dies
<1> QED
  BY <1>2, <1>3, <1>4, <1>5, <1>6, EndFrame

-----------------------------------------------------------------------------
(* The adapter.  First, what each step writes into the slot.               *)
LEMMA Continued ==
  ASSUME TypeOK, NEW s \in Slots, NEW w \in Worker \cup {Idle}, Continue(s, w)
  PROVE  /\ slot' \in [Slots -> Worker \cup {Idle}]
         /\ slot'[s] = w /\ slot' = [slot EXCEPT ![s] = slot'[s]]
<1>1. slot' = [slot EXCEPT ![s] = w]
  BY DEF Continue
<1>2. slot'[s] = w
  BY <1>1 DEF TypeOK
<1> QED
  BY <1>1, <1>2, SlotTyped

LEMMA Answered ==
  ASSUME TypeOK, NEW s \in Slots, slot[s] \in Worker, NEW lines \in 0..Quantity, NEW tell \in BOOLEAN,
         Answer(s, lines, tell)
  PROVE  /\ slot' \in [Slots -> Worker \cup {Idle}]
         /\ slot' = [slot EXCEPT ![s] = slot'[s]]
         /\ slot'[s].order = slot[s].order /\ slot'[s].step = "apply"
         /\ slot'[s].lines = lines /\ slot'[s].tell = tell
<1> DEFINE a == [slot[s] EXCEPT !.step = "apply"]
           b == [a EXCEPT !.before = Unknown]
           c == [b EXCEPT !.lines = lines]
           d == [c EXCEPT !.tell = tell]
<1>1. a \in Worker /\ a.order = slot[s].order /\ a.step = "apply"
  BY DEF Worker
<1>2. b \in Worker /\ b.order = slot[s].order /\ b.step = "apply"
  <2> HIDE DEF a
  <2> QED
    BY <1>1 DEF Worker
<1>3. c \in Worker /\ c.order = slot[s].order /\ c.step = "apply" /\ c.lines = lines
  <2> HIDE DEF b
  <2> QED
    BY <1>2 DEF Worker
<1>4. d \in Worker /\ d.order = slot[s].order /\ d.step = "apply" /\ d.lines = lines /\ d.tell = tell
  <2> HIDE DEF c
  <2> QED
    BY <1>3 DEF Worker
<1>5. Continue(s, d)
  BY DEF Answer
<1> HIDE DEF d
<1> QED
  BY <1>4, <1>5, Continued

LEMMA Stepped ==
  ASSUME TypeOK, NEW s \in Slots, slot[s] \in Worker,
         NEW step \in {"mark", "buy", "compare", "alert"},
         Continue(s, [slot[s] EXCEPT !.step = step])
  PROVE  /\ slot' \in [Slots -> Worker \cup {Idle}]
         /\ slot' = [slot EXCEPT ![s] = slot'[s]]
         /\ slot'[s].order = slot[s].order /\ slot'[s].step = step
<1> DEFINE a == [slot[s] EXCEPT !.step = step]
<1>1. a \in Worker /\ a.order = slot[s].order /\ a.step = step
  BY DEF Worker
<1> HIDE DEF a
<1>2. Continue(s, a)
  BY DEF a
<1> QED
  BY <1>1, <1>2, Continued

LEMMA fetch_balance_Inv ==
  ASSUME IInv, NEW s \in Slots, fetch_balance(s)
  PROVE  IInv'
<1>w. TypeOK /\ slot[s] # Idle /\ slot[s] \in Worker /\ slot[s].order \in Orders /\ slot[s].step = "balance"
  BY AtWork, StepIsWork DEF IInv, fetch_balance
<1>o. PICK o \in Orders : o = slot[s].order
  BY <1>w
<1>0. TypeOK /\ slot[s] # Idle /\ slot[s] \in Worker /\ o = slot[s].order /\ slot[s].step = "balance"
  BY <1>w, <1>o
<1>1. PICK read \in {account.balance, Unknown} : Continue(s, [slot[s] EXCEPT !.step = "mark", !.before = read])
  BY DEF fetch_balance
<1> DEFINE a == [slot[s] EXCEPT !.step = "mark"]
           w == [a EXCEPT !.before = read]
<1>2. a \in Worker /\ a.order = o /\ a.step = "mark"
  BY <1>0 DEF Worker
<1>3. w \in Worker /\ w.order = o /\ w.step = "mark"
  <2>1. read \in Nat \cup {Unknown}
    BY <1>0 DEF TypeOK
  <2> HIDE DEF a
  <2> QED
    BY <1>2, <2>1 DEF Worker
<1>4. Continue(s, w)
  BY <1>1
<1> HIDE DEF a, w
<1>5. /\ slot' \in [Slots -> Worker \cup {Idle}]
      /\ slot'[s] = w /\ slot' = [slot EXCEPT ![s] = slot'[s]]
  BY <1>0, <1>3, <1>4, Continued
<1>6. UNCHANGED <<order, sweep, bought, account, slips>>
  BY DEF fetch_balance
<1>7. TypeOK'
  BY <1>0, <1>5, <1>6 DEF TypeOK
<1>8. SlotInv(s)'
  BY <1>0, <1>3, <1>5, <1>6 DEF IInv, SlotInv, Pending
<1>9. Money(o)' /\ Purchases(o)' /\ Pending(o)
  BY <1>0, <1>6 DEF IInv, Money, Purchases, SlotInv
<1>10. Reported(o)'
  BY <1>6, <1>9 DEF Reported, Pending
<1> QED
  BY <1>0, <1>3, <1>5, <1>6, <1>7, <1>8, <1>9, <1>10, WorkerFrame

LEMMA record_purchase_dispatch_Inv ==
  ASSUME IInv, NEW s \in Slots, record_purchase_dispatch(s)
  PROVE  IInv'
<1>w. TypeOK /\ slot[s] # Idle /\ slot[s] \in Worker /\ slot[s].order \in Orders /\ slot[s].step = "mark"
  BY AtWork, StepIsWork DEF IInv, record_purchase_dispatch
<1>o. PICK o \in Orders : o = slot[s].order
  BY <1>w
<1>0. TypeOK /\ slot[s] # Idle /\ slot[s] \in Worker /\ o = slot[s].order /\ slot[s].step = "mark"
  BY <1>w, <1>o
<1> DEFINE row == [order[o] EXCEPT !.marked = TRUE]
<1>1. /\ Pending(o) /\ ("again" \in slips[o] \/ ~order[o].marked)
      /\ Money(o) /\ Purchases(o) /\ bought[o] \in Nat /\ order[o] \in Order
  BY <1>0 DEF IInv, SlotInv, TypeOK
<1>2. "again" \in slips[o] \/ bought[o] = 0
  BY <1>1 DEF Purchases
<1>3. UNCHANGED <<sweep, bought, account, slips>>
  BY DEF record_purchase_dispatch
<1>4. CASE Answer(s, 0, FALSE) /\ UNCHANGED order
  <2>1. /\ slot' \in [Slots -> Worker \cup {Idle}]
        /\ slot' = [slot EXCEPT ![s] = slot'[s]]
        /\ slot'[s].order = o /\ slot'[s].step = "apply"
    <3>1. 0 \in 0..Quantity /\ FALSE \in BOOLEAN
      OBVIOUS
    <3>2. /\ slot' \in [Slots -> Worker \cup {Idle}]
          /\ slot' = [slot EXCEPT ![s] = slot'[s]]
          /\ slot'[s].order = slot[s].order /\ slot'[s].step = "apply"
      BY <1>0, <1>4, <3>1, Answered
    <3> QED
      BY <1>0, <3>2
  <2>2. TypeOK'
    BY <1>0, <1>3, <1>4, <2>1 DEF TypeOK
  <2>3. SlotInv(s)'
    BY <1>1, <1>2, <1>3, <1>4, <2>1 DEF SlotInv, Pending
  <2>4. Money(o)' /\ Purchases(o)' /\ Reported(o)'
    BY <1>1, <1>3, <1>4 DEF Money, Purchases, Reported, Pending
  <2> QED
    BY <1>0, <1>3, <1>4, <2>1, <2>2, <2>3, <2>4, WorkerFrame
<1>5. CASE order' = [order EXCEPT ![o].marked = TRUE] /\ Continue(s, [slot[s] EXCEPT !.step = "buy"])
  <2>1. /\ slot' \in [Slots -> Worker \cup {Idle}]
        /\ slot' = [slot EXCEPT ![s] = slot'[s]]
        /\ slot'[s].order = o /\ slot'[s].step = "buy"
    BY <1>0, <1>5, Stepped
  <2>2. row \in Order /\ order' = [order EXCEPT ![o] = row]
    BY <1>0, <1>1, <1>5 DEF Order, TypeOK
  <2>3. order'[o] = row /\ \A p \in Orders : p # o => order'[p] = order[p]
    BY <1>0, <2>2 DEF TypeOK
  <2>4. /\ row.marked /\ row.status = order[o].status /\ row.lines = order[o].lines
        /\ row.refunded = order[o].refunded
    BY <1>1 DEF Order
  <2>5. TypeOK'
    BY <1>0, <1>3, <2>1, <2>2, RowTyped DEF TypeOK
  <2> HIDE DEF row
  <2>6. SlotInv(s)'
    BY <1>1, <1>2, <1>3, <2>1, <2>3, <2>4 DEF SlotInv, Pending
  <2>7. Money(o)' /\ Purchases(o)' /\ Reported(o)'
    BY <1>1, <1>3, <2>3, <2>4 DEF Money, Purchases, Reported, Pending
  <2> QED
    BY <1>0, <1>3, <2>1, <2>3, <2>5, <2>6, <2>7, WorkerFrame
<1> QED
  BY <1>0, <1>4, <1>5 DEF record_purchase_dispatch

(* The one request.  That it leaves once is what its marker is for.        *)
LEMMA purchase_Inv ==
  ASSUME IInv, NEW s \in Slots, purchase(s)
  PROVE  IInv'
<1>w. TypeOK /\ slot[s] # Idle /\ slot[s] \in Worker /\ slot[s].order \in Orders /\ slot[s].step = "buy"
  BY AtWork, StepIsWork DEF IInv, purchase
<1>o. PICK o \in Orders : o = slot[s].order
  BY <1>w
<1>0. TypeOK /\ slot[s] # Idle /\ slot[s] \in Worker /\ o = slot[s].order /\ slot[s].step = "buy"
  BY <1>w, <1>o
<1>1. /\ Pending(o) /\ order[o].marked /\ ("again" \in slips[o] \/ bought[o] = 0)
      /\ Money(o) /\ Purchases(o) /\ bought[o] \in Nat
  BY <1>0 DEF IInv, SlotInv, TypeOK
<1>2. UNCHANGED <<order, sweep, slips>>
  BY DEF purchase
<1> DEFINE Bought == /\ bought' \in [Orders -> Nat]
                     /\ \A p \in Orders : p # o => bought'[p] = bought[p]
                     /\ bought'[o] \in {bought[o], bought[o] + 1}
                     /\ account' \in [balance : Nat, topUps : 0..MaxTopUps]
           Onward == /\ slot' \in [Slots -> Worker \cup {Idle}]
                        /\ slot' = [slot EXCEPT ![s] = slot'[s]]
                        /\ slot'[s].order = o
                        /\ \/ slot'[s].step = "compare"
                           \/ slot'[s].step = "apply" /\ (slot'[s].lines # 0 \/ slot'[s].tell \/ bought' = bought)
<1>3. Bought
  <2>1. CASE UNCHANGED <<account, bought>>
    BY <1>0, <2>1 DEF TypeOK
  <2>2. ASSUME NEW charge \in Charges, charge <= account.balance,
               account' = [account EXCEPT !.balance = @ - charge],
               bought' = [bought EXCEPT ![o] = @ + 1]
        PROVE  Bought
    <3>1. bought' \in [Orders -> Nat] /\ bought'[o] = bought[o] + 1
          /\ \A p \in Orders : p # o => bought'[p] = bought[p]
      BY <1>0, <2>2 DEF TypeOK
    <3>2. account' \in [balance : Nat, topUps : 0..MaxTopUps]
      <4>1. charge \in Nat
        OBVIOUS
      <4> QED
        BY <1>0, <2>2, <4>1 DEF TypeOK
    <3> QED
      BY <3>1, <3>2
  <2> QED
    BY <1>0, <2>1, <2>2 DEF purchase
<1>4. \/ Compare(s)
      \/ \E n \in 0..Quantity : Answer(s, n, FALSE) /\ (n > 0 \/ bought' = bought)
      \/ Answer(s, 0, TRUE)
  <2> DEFINE Out == \/ Compare(s)
                    \/ \E n \in 0..Quantity : Answer(s, n, FALSE) /\ (n > 0 \/ bought' = bought)
                    \/ Answer(s, 0, TRUE)
  <2>1. Compare(s) => Out
    OBVIOUS
  <2>2. ASSUME NEW n \in 0..Quantity, _settle_purchase(s, n)
        PROVE  Out
    <3>1. (Answer(s, n, FALSE) /\ n > 0) \/ Answer(s, 0, TRUE)
      <4>1. n = Quantity => n > 0
        OBVIOUS
      <4> QED
        BY <2>2, <4>1, Zenon DEF _settle_purchase
    <3> QED
      BY <3>1
  <2>3. ASSUME Answer(s, 0, FALSE), bought' = bought
        PROVE  Out
    <3>1. 0 \in 0..Quantity
      OBVIOUS
    <3> QED
      BY <2>3, <3>1
  <2> HIDE DEF Out
  <2>4. Out
    BY <2>1, <2>2, <2>3 DEF purchase
  <2> QED
    BY <2>4 DEF Out
<1>5. Onward
  <2>1. CASE Compare(s)
    BY <1>0, <2>1, Stepped DEF Compare
  <2>2. ASSUME NEW n \in 0..Quantity, Answer(s, n, FALSE), n > 0 \/ bought' = bought
        PROVE  Onward
    <3>1. FALSE \in BOOLEAN
      OBVIOUS
    <3>2. /\ slot' \in [Slots -> Worker \cup {Idle}]
          /\ slot' = [slot EXCEPT ![s] = slot'[s]]
          /\ slot'[s].order = slot[s].order /\ slot'[s].step = "apply"
          /\ slot'[s].lines = n
      BY <1>0, <2>2, <3>1, Answered
    <3> QED
      BY <1>0, <2>2, <3>2
  <2>3. CASE Answer(s, 0, TRUE)
    <3>1. 0 \in 0..Quantity /\ TRUE \in BOOLEAN
      OBVIOUS
    <3>2. /\ slot' \in [Slots -> Worker \cup {Idle}]
          /\ slot' = [slot EXCEPT ![s] = slot'[s]]
          /\ slot'[s].order = slot[s].order /\ slot'[s].step = "apply"
          /\ slot'[s].tell = TRUE
      BY <1>0, <2>3, <3>1, Answered
    <3> QED
      BY <1>0, <3>2
  <2> QED
    BY <1>4, <2>1, <2>2, <2>3
<1>6. TypeOK'
  BY <1>0, <1>2, <1>3, <1>5 DEF TypeOK
<1>7. "again" \in slips[o] => slips[o] # {}
  OBVIOUS
<1>8. SlotInv(s)'
  BY <1>1, <1>2, <1>5, <1>7 DEF SlotInv, Pending
<1>9. Money(o)'
  BY <1>1, <1>2 DEF Money
<1>10. Purchases(o)'
  BY <1>1, <1>2, <1>3 DEF Purchases
<1>11. Reported(o)'
  BY <1>1, <1>2 DEF Reported, Pending
<1> QED
  BY <1>0, <1>2, <1>3, <1>5, <1>6, <1>8, <1>9, <1>10, <1>11, WorkerFrame

LEMMA _reconcile_ambiguous_Inv ==
  ASSUME IInv, NEW s \in Slots, _reconcile_ambiguous(s)
  PROVE  IInv'
<1>w. TypeOK /\ slot[s] # Idle /\ slot[s] \in Worker /\ slot[s].order \in Orders /\ slot[s].step = "compare"
  BY AtWork, StepIsWork DEF IInv, _reconcile_ambiguous
<1>o. PICK o \in Orders : o = slot[s].order
  BY <1>w
<1>0. TypeOK /\ slot[s] # Idle /\ slot[s] \in Worker /\ o = slot[s].order /\ slot[s].step = "compare"
  BY <1>w, <1>o
<1>1. Pending(o) /\ Money(o) /\ Purchases(o)
  BY <1>0 DEF IInv, SlotInv
<1>2. UNCHANGED <<order, sweep, bought, account>>
  BY DEF _reconcile_ambiguous
<1>3. PICK tell \in BOOLEAN :
        /\ Answer(s, 0, tell)
        /\ IF tell \/ bought[o] = 0 THEN UNCHANGED slips ELSE Slip(o, "compared")
  <2>1. PICK after \in {account.balance, Unknown} :
          LET tell == \/ slot[s].before = Unknown
                      \/ after = Unknown
                      \/ slot[s].before - after >= Cost /\ Cost > 0
          IN  /\ Answer(s, 0, tell)
              /\ IF tell \/ bought[o] = 0 THEN UNCHANGED slips ELSE Slip(o, "compared")
    BY <1>0 DEF _reconcile_ambiguous
  <2> DEFINE t == \/ slot[s].before = Unknown
                  \/ after = Unknown
                  \/ slot[s].before - after >= Cost /\ Cost > 0
  <2>2. t \in BOOLEAN
    OBVIOUS
  <2>3. Answer(s, 0, t) /\ (IF t \/ bought[o] = 0 THEN UNCHANGED slips ELSE Slip(o, "compared"))
    BY <2>1
  <2> HIDE DEF t
  <2> QED
    BY <2>2, <2>3
<1>4. /\ slot' \in [Slots -> Worker \cup {Idle}]
      /\ slot' = [slot EXCEPT ![s] = slot'[s]]
      /\ slot'[s].order = o /\ slot'[s].step = "apply" /\ slot'[s].tell = tell
  BY <1>0, <1>3, Answered
<1>5. slips' \in [Orders -> SUBSET Slips]
  BY <1>0, <1>3, SlipTyped DEF Slips
<1>6. /\ slips[o] \subseteq slips'[o]
      /\ \A p \in Orders : p # o => slips'[p] = slips[p]
      /\ tell \/ bought[o] = 0 \/ slips'[o] # {}
  BY <1>0, <1>3 DEF Slip, TypeOK
<1>7. TypeOK'
  BY <1>0, <1>2, <1>4, <1>5 DEF TypeOK
<1>8. SlotInv(s)'
  BY <1>1, <1>2, <1>4, <1>6 DEF SlotInv, Pending
<1>9. Money(o)' /\ Purchases(o)' /\ Reported(o)'
  BY <1>1, <1>2, <1>6 DEF Money, Purchases, Reported, Pending
<1> QED
  BY <1>0, <1>2, <1>4, <1>6, <1>7, <1>8, <1>9, WorkerFrame

LEMMA _apply_provision_result_Inv ==
  ASSUME IInv, NEW s \in Slots, _apply_provision_result(s)
  PROVE  IInv'
<1>w. TypeOK /\ slot[s] # Idle /\ slot[s] \in Worker /\ slot[s].order \in Orders /\ slot[s].step = "apply"
  <2>1. TypeOK /\ slot[s].step = "apply"
    BY DEF IInv, _apply_provision_result
  <2>2. slot[s] # Idle
    BY <2>1, StepIsWork
  <2> QED
    BY <2>1, <2>2, AtWork
<1>o. PICK o \in Orders : o = slot[s].order
  BY <1>w
<1>l. PICK lines \in 0..Quantity : lines = slot[s].lines
  BY <1>w DEF Worker
<1>0. TypeOK /\ slot[s] # Idle /\ slot[s] \in Worker /\ o = slot[s].order /\ slot[s].step = "apply" /\ lines = slot[s].lines
  BY <1>w, <1>o, <1>l
<1> DEFINE status == IF lines > 0 THEN "delivered" ELSE "cancelled"
           row == [order[o] EXCEPT !.status = status, !.lines = lines, !.refunded = Back(lines)]
<1>1. Pending(o) /\ Money(o) /\ Purchases(o) /\ order[o] \in Order /\ bought[o] \in Nat
  BY <1>0 DEF IInv, SlotInv, TypeOK
<1>2. UNCHANGED <<sweep, bought, account, slips>>
  BY DEF _apply_provision_result
<1>3. /\ lines \in 0..Quantity /\ slot[s].tell \in BOOLEAN
      /\ lines = 0 /\ ~slot[s].tell => slips[o] # {} \/ bought[o] = 0
  BY <1>0 DEF Worker, IInv, SlotInv
<1>4. Back(lines) \in 0..Price
  BY <1>3, BackFits
<1>5. order[o].lines = 0 /\ order[o].refunded = 0
  BY <1>1 DEF Money, Pending
<1>6. order' = [order EXCEPT ![o].status = status, ![o].lines = @ + lines, ![o].refunded = @ + Back(lines)]
  BY <1>0 DEF _apply_provision_result, Back
<1>7. order' = [order EXCEPT ![o] = row]
  <2>1. 0 + lines = lines /\ 0 + Back(lines) = Back(lines)
    BY <1>3, <1>4
  <2>2. order' = [order EXCEPT ![o] = [order[o] EXCEPT !.status = status,
                     !.lines = order[o].lines + lines, !.refunded = order[o].refunded + Back(lines)]]
    BY <1>0, <1>6 DEF TypeOK
  <2> QED
    BY <1>5, <2>1, <2>2
<1>8. row \in Order
  <2>1. status \in {None, "pending", "delivered", "cancelled"} /\ TRUE \in BOOLEAN /\ 0 \in Nat
        /\ 0 \in 0..MaxRetries
    OBVIOUS
  <2> HIDE DEF status
  <2> QED
    BY <1>1, <1>3, <1>4, <2>1, RowChanges, Zenon
<1>9. /\ row.status = status /\ row.lines = lines /\ row.refunded = Back(lines)
      /\ row.marked = order[o].marked /\ row.told = order[o].told
  <2> HIDE DEF status
  <2> QED
    BY <1>1 DEF Order
<1> HIDE DEF row
<1>10. order' \in [Orders -> Order] /\ order'[o] = row /\ \A p \in Orders : p # o => order'[p] = order[p]
  BY <1>0, <1>7, <1>8 DEF TypeOK
<1>11. /\ slot' \in [Slots -> Worker \cup {Idle}]
       /\ slot' = [slot EXCEPT ![s] = slot'[s]]
       /\ \/ slot'[s] = Idle /\ ~slot[s].tell
          \/ slot'[s].order = o /\ slot'[s].step = "alert"
  <2>1. CASE slot[s].tell
    BY <1>0, <2>1, Stepped DEF _apply_provision_result
  <2>2. CASE ~slot[s].tell
    BY <1>0, <2>2, Continued DEF _apply_provision_result
  <2> QED
    BY <2>1, <2>2
<1>12. TypeOK'
  BY <1>0, <1>2, <1>10, <1>11 DEF TypeOK
<1>13. SlotInv(s)'
  BY <1>11 DEF SlotInv
<1>14. Money(o)'
  BY <1>3, <1>9, <1>10, BackOfNothing DEF Money
<1>15. Purchases(o)'
  BY <1>1, <1>2, <1>9, <1>10 DEF Purchases
<1>16. Reported(o)'
  <2>1. CASE slot'[s] = Idle /\ ~slot[s].tell
    BY <1>1, <1>2, <1>3, <1>9, <1>10, <2>1 DEF Reported
  <2>2. CASE slot'[s].order = o /\ slot'[s].step = "alert"
    BY <2>2 DEF Reported
  <2> QED
    BY <1>11, <2>1, <2>2
<1> QED
  BY <1>0, <1>2, <1>10, <1>11, <1>12, <1>13, <1>14, <1>15, <1>16, WorkerFrame

-----------------------------------------------------------------------------
LEMMA NextInv == IInv /\ [Next]_vars => IInv'
<1> SUFFICES ASSUME IInv, [Next]_vars
             PROVE  IInv'
  OBVIOUS
<1>1. CASE UNCHANGED vars
  BY <1>1, Elsewhere DEF vars, IInv, TypeOK
<1>2. ASSUME NEW o \in Orders, Placed(o)
      PROVE  IInv'
  BY <1>2, create_order_with_adapter_Inv, Touches_Inv, task_runs_Inv, sla_refund_Inv DEF Placed
<1>3. ASSUME NEW s \in Slots, Works(s) \/ task_dies(s)
      PROVE  IInv'
  BY <1>3, fetch_balance_Inv, record_purchase_dispatch_Inv, purchase_Inv, _reconcile_ambiguous_Inv,
     _apply_provision_result_Inv, _raise_operational_alert_Inv, Ended DEF Works
<1>4. ASSUME NEW j \in Sweeps, Sweep(j) \/ sweep_dies(j)
      PROVE  IInv'
  BY <1>4, sweep_goes_Inv, sweep_expires_Inv, sweep_retries_Inv, sweep_dies_Inv DEF Sweep
<1> QED
  BY <1>1, <1>2, <1>3, <1>4, top_up_Inv DEF Next

(* What the theorems below rest on.                                        *)
THEOREM Invariant == Spec => []IInv
  BY InitInv, NextInv, PTL DEF Spec

(* Rows, workers and runs stay well formed: no account with the supplier   *)
(* is overdrawn, and nobody gets back more than the price.                 *)
THEOREM TypeCorrect == Spec => []TypeOK
  BY Invariant, Consequences, PTL

(* provision_pending_order locks the row, and everybody passes a locked    *)
(* row over: no order gives its buyer goods and money.                     *)
THEOREM NeverBoth == Spec => []GoodsOrMoney
  BY Invariant, Consequences, PTL

(* record_purchase_dispatch commits before the request leaves: an order is *)
(* bought twice only if a worker takes it up with its marker there.        *)
THEOREM OnePurchase == Spec => []BoughtOnce
  BY Invariant, Consequences, PTL

(* The ways in which a purchase that was paid for is refunded to the buyer *)
(* without a word to staff are those that LossIsReported names.            *)
THEOREM LossTold == Spec => []LossIsReported
  BY Invariant, Consequences, PTL
=============================================================================
