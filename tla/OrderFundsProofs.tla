-------------------------- MODULE OrderFundsProofs --------------------------
(***************************************************************************)
(* Proofs about OrderFunds, for any number of orders, requests, top-ups    *)
(* and adjustments, whatever operations are allowed.                       *)
(***************************************************************************)
EXTENDS MCOrderFunds, WalletProofs

-----------------------------------------------------------------------------

LEMMA IdleShape == Idle \in Request /\ Absent \in Order /\ Idle.pc = "idle"
BY DEF Idle, Request, Absent, Order, Statuses, Blockers, PreShip, PostShip

LEMMA BlockerShape ==
    ASSUME NEW data \in Blockers, NEW charge, NEW own
    PROVE  Blocker(data, charge, own) \in Blockers
BY DEF Blocker, Blockers

LEMMA DataShape ==
    ASSUME NEW addr, NEW unmatched
    PROVE  DataBlocker(addr, unmatched) \in Blockers
BY DEF DataBlocker, Blockers

LEMMA OwnShape ==
    ASSUME NEW order \in Order
    PROVE  ReservedSelf(order) \in Charges \cup {0}
BY DEF ReservedSelf, Order

-----------------------------------------------------------------------------

\* Requests and rows keep their shape.
LEMMA ArriveShape ==
    ASSUME ShapeOK, NEW p \in Procs, NEW o \in Orders, Arrive(p, o)
    PROVE  ShapeOK'
<1>. USE IdleShape
<1>0. orders[o] \in Order
  BY DEF ShapeOK
<1>1. ASSUME NEW c \in Charges, Create(p, o, c)
      PROVE  ShapeOK'
  <2>1. PICK b \in Blockers : b = Blocker("none", c, 0)
    BY BlockerShape DEF Blockers
  <2>2. PICK row \in Order : orders' = [orders EXCEPT ![o] = row]
    <3>1. [Absent EXCEPT !.status = "ready_for_fulfillment", !.addr = TRUE,
                         !.charge = c, !.blocker = b] \in Order
      BY DEF Absent, Order, Statuses, PreShip, PostShip, Blockers
    <3>2. QED
      BY <1>1, <2>1, <3>1 DEF Create
  <2>3. QED
    BY <1>1, <2>2 DEF Create, ShapeOK
<1>2. ASSUME NEW addr \in BOOLEAN, NEW matched \in BOOLEAN,
             NEW unmatched \in BOOLEAN, NEW c \in Charges \cup {0},
             Import(p, o, addr, matched, unmatched, c)
      PROVE  ShapeOK'
  <2>1. PICK b \in Blockers :
           b = Blocker(DataBlocker(addr, unmatched \/ ~matched), c, 0)
    BY BlockerShape, DataShape
  <2>2. PICK row \in Order : orders' = [orders EXCEPT ![o] = row]
    <3>1. [status |-> "ready_for_fulfillment", blocker |-> b, charge |-> c,
           addr |-> addr, unmatched |-> unmatched,
           source |-> matched \/ unmatched] \in Order
      BY DEF Order, Statuses, PreShip
    <3>2. QED
      BY <1>2, <2>1, <3>1 DEF Import
  <2>3. QED
    BY <1>2, <2>2 DEF Import, ShapeOK
<1>3. ASSUME NEW r \in Request, r.order = o, procs' = [procs EXCEPT ![p] = r],
             UNCHANGED <<ledger, orders, lock>>
      PROVE  ShapeOK'
  BY <1>3 DEF ShapeOK
<1>4. ASSUME NEW c \in Charges, NEW addr \in BOOLEAN, EditRead(p, o, c, addr)
      PROVE  ShapeOK'
  <2>1. PICK b \in Blockers, own \in Charges \cup {0} :
           b = DataBlocker(addr, orders[o].unmatched) /\ own = ReservedSelf(orders[o])
    BY <1>0, DataShape, OwnShape
  <2>2. PICK r : r = [Idle EXCEPT !.pc = "edit", !.via = "edit", !.order = o,
                                  !.charge = c, !.own = own, !.addr = addr,
                                  !.blocker = b]
    OBVIOUS
  <2>3. r \in Request /\ r.order = o
    BY <2>2 DEF Idle, Request, Blockers
  <2>4. procs' = [procs EXCEPT ![p] = r]
    BY <1>4, <2>1, <2>2 DEF EditRead
  <2>5. QED
    BY <1>3, <1>4, <2>3, <2>4 DEF EditRead
<1>5. ASSUME NEW resolved \in BOOLEAN, NEW left \in BOOLEAN, NEW c \in Charges,
             RemapRead(p, o, resolved, left, c)
      PROVE  ShapeOK'
  <2>1. PICK b \in Blockers, own \in Charges \cup {0}, a \in BOOLEAN :
           /\ b = DataBlocker(orders[o].addr, orders[o].unmatched)
           /\ own = ReservedSelf(orders[o])
           /\ a = orders[o].addr
    BY <1>0, DataShape, OwnShape DEF Order
  <2>2. PICK r : r = IF resolved
                     THEN [Idle EXCEPT !.pc = "edit", !.via = "remap",
                                       !.order = o, !.charge = c, !.own = own,
                                       !.addr = a, !.left = left, !.blocker = b]
                     ELSE [Idle EXCEPT !.pc = "remapEnd", !.via = "remap",
                                       !.order = o, !.left = left]
    OBVIOUS
  <2>3. r \in Request /\ r.order = o
    BY <2>2, ZenonT(40) DEF Idle, Request, Blockers
  <2>4. procs' = [procs EXCEPT ![p] = r]
    BY <1>5, <2>1, <2>2 DEF RemapRead
  <2>5. QED
    BY <1>3, <1>5, <2>3, <2>4 DEF RemapRead
<1>6. CancelRead(p, o) \/ DeliverRead(p, o) => ShapeOK'
  <2>1. \A pc \in {"cancel", "deliver"} :
           LET r == [Idle EXCEPT !.pc = pc, !.via = pc, !.order = o]
           IN  r \in Request /\ r.order = o
    BY DEF Idle, Request
  <2>2. QED
    BY <1>3, <2>1 DEF CancelRead, DeliverRead, Read
<1>7. (\E via \in {"notify", "admin"} : ShipRead(p, o, via)) \/ HealRead(p, o)
        => ShapeOK'
  <2>1. PICK c \in Charges \cup {0}, own \in Charges \cup {0} :
           c = orders[o].charge /\ own = ReservedSelf(orders[o])
    BY <1>0, OwnShape DEF Order
  <2>2. \A via \in {"notify", "admin", "heal"}, pc \in {"ship", "heal"} :
           LET r == [Idle EXCEPT !.pc = pc, !.via = via, !.order = o,
                                 !.charge = c, !.own = own]
           IN  r \in Request /\ r.order = o
    BY DEF Idle, Request
  <2>3. QED
    BY <1>3, <2>1, <2>2 DEF ShipRead, HealRead, ReadCharge
<1>8. QED
  BY <1>1, <1>2, <1>4, <1>5, <1>6, <1>7 DEF Arrive

LEMMA ContinueShape ==
    ASSUME ShapeOK, NEW p \in Procs, Continue(p)
    PROVE  ShapeOK'
<1>. USE IdleShape
<1>. DEFINE o == procs[p].order
<1>0. procs[p] \in Request
  BY DEF ShapeOK
<1>1. procs[p].pc # "idle"
  BY DEF Continue, EditDecide, EditWrite, RemapDecide, RemapWrite, CancelCommit,
         ReadBalance, ReadHeld, ShipRefused, ShipGate, Decided, Capture,
         CaptureThrows, FlagCapture, DeliverCommit, HealCommit
<1>2. o \in Orders /\ orders[o] \in Order
  BY <1>1 DEF ShapeOK
<1>3. ASSUME NEW r \in Request, r.pc # "idle" => r.order \in Orders,
             procs' = [procs EXCEPT ![p] = r]
      PROVE  /\ procs' \in [Procs -> Request]
             /\ \A q \in Procs : procs'[q].pc # "idle" => procs'[q].order \in Orders
  BY <1>3 DEF ShapeOK
<1>4. ASSUME NEW row \in Order, orders' = [orders EXCEPT ![o] = row]
      PROVE  orders' \in [Orders -> Order]
  BY <1>4 DEF ShapeOK
<1>5. EditDecide(p) => ShapeOK'
  <2> SUFFICES ASSUME EditDecide(p) PROVE ShapeOK'
    OBVIOUS
  <2>1. PICK b \in Blockers : b = Blocker(procs[p].blocker, procs[p].charge, procs[p].own)
    BY <1>0, BlockerShape DEF Request
  <2>2. PICK r : r = [procs[p] EXCEPT !.pc = "editWrite", !.own = 0, !.blocker = b]
    OBVIOUS
  <2>3. r \in Request /\ r.order = o
    BY <1>0, <2>2 DEF Request
  <2>4. procs' = [procs EXCEPT ![p] = r]
    BY <2>1, <2>2, <1>0 DEF EditDecide, ShapeOK
  <2>5. QED
    BY <1>2, <1>3, <2>3, <2>4 DEF EditDecide, ShapeOK
<1>6. EditWrite(p) => ShapeOK'
  <2> SUFFICES ASSUME EditWrite(p) PROVE ShapeOK'
    OBVIOUS
  <2>1. PICK row : row = [orders[o] EXCEPT !.charge = procs[p].charge,
                                           !.addr = procs[p].addr,
                                           !.blocker = procs[p].blocker]
    OBVIOUS
  <2>2. row \in Order
    BY <1>0, <1>2, <2>1 DEF Order, Request
  <2>3. orders' = [orders EXCEPT ![o] = row]
    BY <1>2, <2>1 DEF EditWrite, ShapeOK
  <2>4. PICK r : r = [Idle EXCEPT !.pc = "remapEnd", !.via = "remap",
                                  !.order = o, !.left = procs[p].left]
    OBVIOUS
  <2>5. r \in Request /\ r.order = o
    BY <1>0, <1>2, <2>4 DEF Idle, Request
  <2>6. \/ procs' = [procs EXCEPT ![p] = r]
        \/ procs' = [procs EXCEPT ![p] = Idle]
    BY <2>4 DEF EditWrite, Done
  <2>7. QED
    BY <1>2, <1>3, <1>4, <2>2, <2>3, <2>5, <2>6 DEF EditWrite, ShapeOK
<1>7. RemapDecide(p) => ShapeOK'
  <2> SUFFICES ASSUME RemapDecide(p) PROVE ShapeOK'
    OBVIOUS
  <2>1. PICK b \in Blockers : b = IF procs[p].left THEN "needs_mapping"
                                  ELSE orders[o].blocker
    BY <1>2 DEF Order, Blockers
  <2>2. PICK r : r = [procs[p] EXCEPT !.pc = "remapWrite", !.blocker = b]
    OBVIOUS
  <2>3. r \in Request /\ r.order = o
    BY <1>0, <2>2 DEF Request
  <2>4. procs' = [procs EXCEPT ![p] = r]
    BY <2>1, <2>2, <1>0 DEF RemapDecide, ShapeOK
  <2>5. QED
    BY <1>2, <1>3, <2>3, <2>4 DEF RemapDecide, ShapeOK
<1>8. RemapWrite(p) => ShapeOK'
  <2> SUFFICES ASSUME RemapWrite(p) PROVE ShapeOK'
    OBVIOUS
  <2>1. PICK row : row = [orders[o] EXCEPT !.blocker = procs[p].blocker,
                                           !.unmatched = procs[p].left]
    OBVIOUS
  <2>2. row \in Order
    BY <1>0, <1>2, <2>1 DEF Order, Request
  <2>3. orders' = [orders EXCEPT ![o] = row]
    BY <1>2, <2>1 DEF RemapWrite, ShapeOK
  <2>4. QED
    BY <1>3, <1>4, <2>2, <2>3 DEF RemapWrite, Done, ShapeOK
<1>9. CancelCommit(p) \/ FlagCapture(p) \/ DeliverCommit(p) => ShapeOK'
  <2> SUFFICES ASSUME CancelCommit(p) \/ FlagCapture(p) \/ DeliverCommit(p)
               PROVE  ShapeOK'
    OBVIOUS
  <2>1. PICK row \in Order : orders' = [orders EXCEPT ![o] = row]
    <3>1. CASE CancelCommit(p)
      <4>1. [orders[o] EXCEPT !.status = "cancelled", !.blocker = "none"] \in Order
        BY <1>2 DEF Order, Statuses, Blockers
      <4>2. QED
        BY <1>2, <3>1, <4>1 DEF CancelCommit, ShapeOK
    <3>2. CASE FlagCapture(p)
      <4>1. \A b \in {"none", "awaiting_funds"} : [orders[o] EXCEPT !.blocker = b] \in Order
        BY <1>2 DEF Order, Blockers
      <4>2. QED
        BY <1>2, <3>2, <4>1 DEF FlagCapture, ShapeOK
    <3>3. CASE DeliverCommit(p)
      <4>1. [orders[o] EXCEPT !.status = "delivered"] \in Order
        BY <1>2 DEF Order, Statuses, PostShip
      <4>2. QED
        BY <1>2, <3>3, <4>1 DEF DeliverCommit, ShapeOK
    <3>4. QED
      BY <3>1, <3>2, <3>3
  <2>2. procs' = [procs EXCEPT ![p] = Idle] /\ UNCHANGED <<ledger, lock>>
    BY DEF CancelCommit, FlagCapture, DeliverCommit, Done
  <2>3. QED
    BY <1>3, <1>4, <2>1, <2>2 DEF ShapeOK
<1>10. ReadBalance(p) \/ ReadHeld(p) => ShapeOK'
  BY DEF ReadBalance, ReadHeld, ShapeOK
<1>11. ShipRefused(p) => ShapeOK'
  BY <1>3 DEF ShipRefused, Done, ShapeOK
<1>12. ShipGate(p) => ShapeOK'
  <2> SUFFICES ASSUME ShipGate(p) PROVE ShapeOK'
    OBVIOUS
  <2>1. CASE orders[o].status \in PreShip
    <3>1. PICK row : row = [orders[o] EXCEPT !.status = "shipped",
                                  !.blocker = IF procs[p].via = "admin" THEN "none" ELSE @]
      OBVIOUS
    <3>2. row \in Order
      BY <1>2, <3>1 DEF Order, Statuses, PostShip, Blockers
    <3>3. orders' = [orders EXCEPT ![o] = row]
      BY <1>2, <2>1, <3>1 DEF ShipGate, ShapeOK
    <3>4. PICK pc \in {"capture", "flag"} : pc = IF FundsOk(p) THEN "capture" ELSE "flag"
      OBVIOUS
    <3>5. PICK r : r = [procs[p] EXCEPT !.pc = pc, !.charge = orders[o].charge, !.own = 0]
      OBVIOUS
    <3>6. r \in Request /\ r.order = o
      BY <1>0, <1>2, <3>5 DEF Request, Order
    <3>7. procs' = [procs EXCEPT ![p] = r]
      BY <1>0, <2>1, <3>4, <3>5 DEF ShipGate, ShapeOK
    <3>8. QED
      BY <1>2, <1>3, <1>4, <3>2, <3>3, <3>6, <3>7 DEF ShipGate, ShapeOK
  <2>2. CASE orders[o].status \notin PreShip
    BY <1>3, <2>2 DEF ShipGate, Done, ShapeOK
  <2>3. QED
    BY <2>1, <2>2
<1>13. \A c \in Charges \cup {0} : -c \in Int
  BY ChargesAssumption
<1>14. procs[p].charge \in Charges \cup {0} /\ CaptureKey(o) \in Keys
  BY <1>0, <1>2 DEF Request, Keys
<1>15. Capture(p) \/ CaptureThrows(p) => ShapeOK'
  <2> SUFFICES ASSUME Capture(p) \/ CaptureThrows(p) PROVE ShapeOK'
    OBVIOUS
  <2>1. ledger' \in Seq(Entry(Keys))
    <3>1. CASE Capture(p)
      BY <1>13, <1>14, <3>1, AppendEffect DEF Capture, EntryTypes, ShapeOK
    <3>2. CASE CaptureThrows(p)
      BY <3>2 DEF CaptureThrows, ShapeOK
    <3>3. QED
      BY <3>1, <3>2
  <2>2. PICK c \in BOOLEAN : \/ procs' = [procs EXCEPT ![p] = Idle]
                             \/ procs' = [procs EXCEPT ![p].pc = "flag", ![p].captured = c]
    BY DEF Capture, CaptureThrows, Done
  <2>3. PICK r : r = [procs[p] EXCEPT !.pc = "flag", !.captured = c]
    OBVIOUS
  <2>4. r \in Request /\ r.order = o
    BY <1>0, <2>3 DEF Request
  <2>5. procs' = [procs EXCEPT ![p] = Idle] \/ procs' = [procs EXCEPT ![p] = r]
    BY <2>2, <2>3, <1>0 DEF ShapeOK
  <2>6. UNCHANGED <<orders, lock>>
    BY DEF Capture, CaptureThrows
  <2>7. QED
    BY <1>2, <1>3, <2>1, <2>4, <2>5, <2>6 DEF ShapeOK
<1>16. HealCommit(p) => ShapeOK'
  <2> SUFFICES ASSUME HealCommit(p) PROVE ShapeOK'
    OBVIOUS
  <2>1. ledger' \in Seq(Entry(Keys))
    BY <1>13, <1>14, AppendEffect DEF HealCommit, EntryTypes, ShapeOK
  <2>2. QED
    BY <1>3, <2>1 DEF HealCommit, Done, ShapeOK
<1>17. QED
  BY <1>5, <1>6, <1>7, <1>8, <1>9, <1>10, <1>11, <1>12, <1>15, <1>16 DEF Continue

LEMMA ShapeStep ==
    ASSUME ShapeOK, [Next]_vars
    PROVE  ShapeOK'
<1>1. ASSUME NEW p \in Procs, NEW t \in TopUps, Deposit(p, t) PROVE ShapeOK'
  <2>1. ledger' \in Seq(Entry(Keys))
    BY <1>1, AppendEffect, AmountsAssumption DEF Deposit, EntryTypes, Keys, ShapeOK
  <2>2. QED
    BY <1>1, <2>1 DEF Deposit, ShapeOK
<1>2. ASSUME NEW p \in Procs, NEW a \in Adjustments, Adjust(p, a) PROVE ShapeOK'
  <2>1. ledger' \in Seq(Entry(Keys))
    BY <1>2, AppendEffect, AmountsAssumption DEF Adjust, EntryTypes, Keys, ShapeOK
  <2>2. QED
    BY <1>2, <2>1 DEF Adjust, ShapeOK
<1>3. ASSUME NEW p \in Procs, Fail(p) PROVE ShapeOK'
  BY <1>3, IdleShape DEF Fail, Done, ShapeOK
<1>4. CASE UNCHANGED vars
  BY <1>4 DEF vars, ShapeOK
<1>5. QED
  BY <1>1, <1>2, <1>3, <1>4, ArriveShape, ContinueShape DEF Next

\* Whatever is allowed to happen, rows and requests keep their shape.
THEOREM Shape == Spec => []ShapeOK
<1>1. Init => ShapeOK
  BY IdleShape DEF Init, ShapeOK
<1>2. ShapeOK /\ [Next]_vars => ShapeOK'
  BY ShapeStep
<1>3. QED
  BY <1>1, <1>2, PTL DEF Spec

-----------------------------------------------------------------------------

\* How the status of an order can change in one step.
LEMMA StatusMoves ==
    ASSUME ShapeOK, StaysShipped, [Next]_vars, NEW o \in Orders
    PROVE  \/ orders'[o].status = orders[o].status
           \/ orders[o].status = "absent" /\ orders'[o].status = "ready_for_fulfillment"
           \/ orders[o].status \in PreShip /\ orders'[o].status \in {"shipped", "cancelled"}
           \/ orders[o].status = "shipped" /\ orders'[o].status = "delivered"
<1>. DEFINE Good == \/ orders'[o].status = orders[o].status
                    \/ /\ orders[o].status = "absent"
                       /\ orders'[o].status = "ready_for_fulfillment"
                    \/ /\ orders[o].status \in PreShip
                       /\ orders'[o].status \in {"shipped", "cancelled"}
                    \/ orders[o].status = "shipped" /\ orders'[o].status = "delivered"
<1>. orders \in [Orders -> Order]
  BY DEF ShapeOK
<1>1. UNCHANGED orders => Good
  OBVIOUS
<1>2. ASSUME NEW p \in Procs, NEW x \in Orders, NEW c, Create(p, x, c) PROVE Good
  BY <1>2 DEF Create, Absent, Order
<1>3. ASSUME NEW p \in Procs, NEW x \in Orders, NEW a, NEW m, NEW u, NEW c,
             Import(p, x, a, m, u, c)
      PROVE  Good
  BY <1>3 DEF Import, Order
<1>4. ASSUME NEW p \in Procs, NEW x \in Orders, Arrive(p, x) PROVE Good
  BY <1>1, <1>2, <1>3, <1>4
     DEF Arrive, EditRead, RemapRead, CancelRead, ShipRead, DeliverRead, HealRead
<1>5. ASSUME NEW p \in Procs, EditWrite(p) \/ RemapWrite(p) \/ FlagCapture(p) PROVE Good
  BY <1>5, SMTT(20) DEF EditWrite, RemapWrite, FlagCapture, Order
<1>6. ASSUME NEW p \in Procs, CancelCommit(p) PROVE Good
  BY <1>6 DEF CancelCommit, Order
<1>7. ASSUME NEW p \in Procs, ShipGate(p) PROVE Good
  BY <1>7 DEF ShipGate, Order
<1>8. ASSUME NEW p \in Procs, DeliverCommit(p) PROVE Good
  <2>1. orders[procs[p].order].status \in PostShip
    BY <1>8 DEF DeliverCommit, StaysShipped
  <2>2. QED
    BY <1>8, <2>1 DEF DeliverCommit, PostShip, Order
<1>9. ASSUME NEW p \in Procs, Continue(p) PROVE Good
  BY <1>1, <1>5, <1>6, <1>7, <1>8, <1>9
     DEF Continue, EditDecide, RemapDecide, ReadBalance, ReadHeld, ShipRefused,
         Capture, CaptureThrows, HealCommit
<1>10. QED
  BY <1>1, <1>4, <1>9 DEF Next, vars, Deposit, Adjust, Fail

LEMMA PostShipStays ==
    ASSUME ShapeOK, StaysShipped, [Next]_vars, NEW o \in Orders,
           orders[o].status \in PostShip
    PROVE  orders'[o].status \in PostShip
BY StatusMoves DEF PostShip, PreShip

\* Which request a step can take past the gate, and of which order.
LEMMA RequestMoves ==
    ASSUME ShapeOK, StaysShipped, [Next]_vars, NEW q \in Procs
    PROVE  \/ procs'[q] = procs[q]
           \/ procs'[q].pc \notin {"capture", "flag", "deliver", "heal"}
           \/ /\ procs'[q].order \in Orders
              /\ orders'[procs'[q].order].status \in PostShip
              /\ \/ procs'[q].pc \notin {"capture", "flag"}
                 \/ /\ procs[q].pc = "capture"
                    /\ procs'[q].order = procs[q].order
                 \/ /\ orders[procs'[q].order].status \in PreShip
                    /\ \A p \in Procs : p # q => procs'[p] = procs[p]
<1>. DEFINE Late == {"capture", "flag", "deliver", "heal"}
            Good == \/ procs'[q] = procs[q]
                    \/ procs'[q].pc \notin Late
                    \/ /\ procs'[q].order \in Orders
                       /\ orders'[procs'[q].order].status \in PostShip
                       /\ \/ procs'[q].pc \notin {"capture", "flag"}
                          \/ /\ procs[q].pc = "capture"
                             /\ procs'[q].order = procs[q].order
                          \/ /\ orders[procs'[q].order].status \in PreShip
                             /\ \A p \in Procs : p # q => procs'[p] = procs[p]
<1>. procs \in [Procs -> Request] /\ orders \in [Orders -> Order]
  BY DEF ShapeOK
<1>1. UNCHANGED procs => Good
  OBVIOUS
<1>2. ASSUME NEW p \in Procs, NEW r, procs' = [procs EXCEPT ![p] = r], r.pc \notin Late
      PROVE  Good
  BY <1>2
<1>3. Idle.pc \notin Late
  BY DEF Idle
<1>4. ASSUME NEW p \in Procs, Done(p) PROVE Good
  BY <1>2, <1>3, <1>4 DEF Done
<1>5. ASSUME NEW p \in Procs, NEW x \in Orders, Arrive(p, x) PROVE Good
  <2>1. ASSUME NEW c, NEW a, EditRead(p, x, c, a) PROVE Good
    BY <2>1, <1>2 DEF EditRead, Idle
  <2>2. ASSUME NEW r \in BOOLEAN, NEW l, NEW c, RemapRead(p, x, r, l, c) PROVE Good
    <3>1. CASE r
      BY <3>1, <2>2, <1>2 DEF RemapRead, Idle
    <3>2. CASE ~r
      BY <3>2, <2>2, <1>2 DEF RemapRead, Idle
    <3>3. QED
      BY <3>1, <3>2
  <2>3. CancelRead(p, x) => Good
    BY <1>2 DEF CancelRead, Read, Idle
  <2>4. ASSUME NEW via, ShipRead(p, x, via) PROVE Good
    BY <2>4, <1>2 DEF ShipRead, ReadCharge, Idle
  <2>5. ASSUME DeliverRead(p, x) \/ HealRead(p, x) PROVE Good
    <3>1. orders[x].status \in PostShip /\ UNCHANGED orders
      BY <2>5 DEF DeliverRead, HealRead, PostShip
    <3>2. PICK r : /\ procs' = [procs EXCEPT ![p] = r]
                   /\ r.pc \in {"deliver", "heal"} /\ r.order = x
      <4>1. CASE DeliverRead(p, x)
        <5>1. PICK r : r = [Idle EXCEPT !.pc = "deliver", !.via = "deliver", !.order = x]
          OBVIOUS
        <5>2. r.pc = "deliver" /\ r.order = x
          BY <5>1 DEF Idle
        <5>3. QED
          BY <4>1, <5>1, <5>2 DEF DeliverRead, Read
      <4>2. CASE HealRead(p, x)
        <5>1. PICK r : r = [Idle EXCEPT !.pc = "heal", !.via = "heal", !.order = x,
                                        !.charge = orders[x].charge,
                                        !.own = ReservedSelf(orders[x])]
          OBVIOUS
        <5>2. r.pc = "heal" /\ r.order = x
          BY <5>1 DEF Idle
        <5>3. QED
          BY <4>2, <5>1, <5>2 DEF HealRead, ReadCharge
      <4>3. QED
        BY <2>5, <4>1, <4>2
    <3>3. QED
      BY <3>1, <3>2
  <2>6. QED
    BY <1>1, <1>5, <2>1, <2>2, <2>3, <2>4, <2>5 DEF Arrive, Create, Import
<1>6. ASSUME NEW p \in Procs, EditDecide(p) \/ RemapDecide(p) PROVE Good
  <2>1. procs'[p].pc \in {"editWrite", "remapWrite"}
    BY <1>6 DEF EditDecide, RemapDecide, Request
  <2>2. \A x \in Procs : x # p => procs'[x] = procs[x]
    BY <1>6 DEF EditDecide, RemapDecide
  <2>3. QED
    BY <2>1, <2>2
<1>7. ASSUME NEW p \in Procs, EditWrite(p) PROVE Good
  <2>1. CASE procs[p].via = "remap"
    BY <1>2, <1>7, <2>1 DEF EditWrite, Idle
  <2>2. CASE procs[p].via # "remap"
    BY <1>4, <1>7, <2>2 DEF EditWrite
  <2>3. QED
    BY <2>1, <2>2
<1>8. ASSUME NEW p \in Procs, ShipGate(p) PROVE Good
  <2>. DEFINE x == procs[p].order
  <2>1. CASE x \in Orders /\ orders[x].status \in PreShip
    <3>1. procs' = [procs EXCEPT
             ![p].pc = IF FundsOk(p) THEN "capture" ELSE "flag",
             ![p].charge = orders[x].charge,
             ![p].own = 0]
      BY <1>8, <2>1 DEF ShipGate
    <3>2. procs'[p].order = x /\ \A y \in Procs : y # p => procs'[y] = procs[y]
      BY <3>1 DEF Request
    <3>3. orders'[x].status = "shipped"
      BY <1>8, <2>1 DEF ShipGate, Order
    <3>4. QED
      BY <2>1, <3>2, <3>3 DEF PostShip
  <2>2. CASE x \in Orders /\ orders[x].status \notin PreShip
    BY <1>4, <1>8, <2>2 DEF ShipGate
  <2>3. x \in Orders
    BY <1>8 DEF ShipGate, Decided, ShapeOK
  <2>4. QED
    BY <2>1, <2>2, <2>3
<1>9. ASSUME NEW p \in Procs, Capture(p) \/ CaptureThrows(p) PROVE Good
  <2>. DEFINE x == procs[p].order
  <2>1. /\ procs[p].pc = "capture"
        /\ x \in Orders /\ orders[x].status \in PostShip /\ UNCHANGED orders
    BY <1>9 DEF Capture, CaptureThrows, StaysShipped, ShapeOK
  <2>2. CASE procs[p].via = "notify"
    <3>1. procs'[p].order = x /\ \A y \in Procs : y # p => procs'[y] = procs[y]
      BY <1>9, <2>2 DEF Capture, CaptureThrows, Request
    <3>2. QED
      BY <2>1, <3>1
  <2>3. CASE procs[p].via # "notify"
    BY <1>4, <1>9, <2>3 DEF Capture, CaptureThrows
  <2>4. QED
    BY <2>2, <2>3
<1>10. ASSUME NEW p \in Procs, Continue(p) PROVE Good
  BY <1>1, <1>4, <1>6, <1>7, <1>8, <1>9, <1>10
     DEF Continue, RemapWrite, CancelCommit, ReadBalance, ReadHeld, ShipRefused,
         FlagCapture, DeliverCommit, HealCommit
<1>11. QED
  BY <1>1, <1>4, <1>5, <1>10 DEF Next, vars, Deposit, Adjust, Fail

\* Nothing takes an order back from a request that is past the gate.
LEMMA StaysShippedStep ==
    ASSUME ShapeOK, StaysShipped, [Next]_vars
    PROVE  StaysShipped'
<1> SUFFICES ASSUME NEW q \in Procs,
                    procs'[q].pc \in {"capture", "flag", "deliver", "heal"}
             PROVE  orders'[procs'[q].order].status \in PostShip
  BY DEF StaysShipped
<1>1. CASE procs'[q] = procs[q]
  <2>1. procs[q].order \in Orders /\ orders[procs[q].order].status \in PostShip
    BY <1>1 DEF StaysShipped, ShapeOK
  <2>2. QED
    BY <1>1, <2>1, PostShipStays
<1>2. CASE procs'[q] # procs[q]
  BY <1>2, RequestMoves
<1>3. QED
  BY <1>1, <1>2

LEMMA SingleShipperStep ==
    ASSUME ShapeOK, StaysShipped, SingleShipper, [Next]_vars
    PROVE  SingleShipper'
<1> SUFFICES ASSUME NEW p \in Procs, NEW q \in Procs, p # q,
                    procs'[p].pc \in {"capture", "flag"},
                    procs'[q].pc \in {"capture", "flag"},
                    procs'[p].order = procs'[q].order
             PROVE  FALSE
  BY DEF SingleShipper, PastGate
<1>1. ASSUME NEW x \in Procs, NEW y \in Procs, x # y,
             procs'[x].pc \in {"capture", "flag"},
             procs'[y].pc \in {"capture", "flag"},
             procs'[x].order = procs'[y].order,
             orders[procs'[x].order].status \in PreShip,
             \A z \in Procs : z # x => procs'[z] = procs[z]
      PROVE  FALSE
  <2>1. procs[y].order = procs'[x].order /\ procs[y].pc \in {"capture", "flag"}
    BY <1>1
  <2>2. orders[procs[y].order].status \in PostShip
    BY <2>1 DEF StaysShipped
  <2>3. QED
    BY <1>1, <2>1, <2>2 DEF PreShip, PostShip
<1>2. ASSUME NEW x \in Procs, procs'[x].pc \in {"capture", "flag"}
      PROVE  \/ PastGate(x) /\ procs'[x].order = procs[x].order
             \/ /\ orders[procs'[x].order].status \in PreShip
                /\ \A z \in Procs : z # x => procs'[z] = procs[z]
  BY <1>2, RequestMoves DEF PastGate
<1>3. CASE /\ PastGate(p) /\ procs'[p].order = procs[p].order
           /\ PastGate(q) /\ procs'[q].order = procs[q].order
  BY <1>3 DEF SingleShipper
<1>4. QED
  BY <1>1, <1>2, <1>3

-----------------------------------------------------------------------------

\* What a step adds to the ledger: nothing, or one row with a new key, and a
\* capture only for an order that has shipped.
LEMMA LedgerMoves ==
    ASSUME ShapeOK, StaysShipped, [Next]_vars
    PROVE  \/ ledger' = ledger
           \/ \E k \in Keys :
                /\ ~Duplicate(k)
                /\ Len(ledger') = Len(ledger) + 1
                /\ \A i \in 1..Len(ledger) : ledger'[i] = ledger[i]
                /\ ledger'[Len(ledger) + 1].key = k
                /\ \A o \in Orders : k = CaptureKey(o) => orders[o].status \in PostShip
<1>. DEFINE Good(k) == \A o \in Orders : k = CaptureKey(o) => orders[o].status \in PostShip
<1>0. ledger \in Seq(Entry(Keys))
  BY DEF ShapeOK
<1>1. ASSUME NEW type \in EntryTypes, NEW amount \in Int, NEW k \in Keys, Good(k),
             AppendEntry(type, amount, k)
      PROVE  \/ ledger' = ledger
             \/ /\ ~Duplicate(k)
                /\ Len(ledger') = Len(ledger) + 1
                /\ \A i \in 1..Len(ledger) : ledger'[i] = ledger[i]
                /\ ledger'[Len(ledger) + 1].key = k
                /\ Good(k)
  BY <1>0, <1>1, AppendEffect
<1>2. ASSUME NEW p \in Procs, procs[p].pc \in {"capture", "heal"}
      PROVE  /\ -procs[p].charge \in Int
             /\ CaptureKey(procs[p].order) \in Keys
             /\ Good(CaptureKey(procs[p].order))
  <2>1. procs[p] \in Request /\ procs[p].order \in Orders
    BY <1>2 DEF ShapeOK
  <2>2. procs[p].charge \in Int
    <3>1. PICK c \in Charges \cup {0} : c = procs[p].charge
      BY <2>1 DEF Request
    <3>2. c \in Int
      BY ChargesAssumption
    <3>3. QED
      BY <3>1, <3>2
  <2>3. orders[procs[p].order].status \in PostShip
    BY <1>2 DEF StaysShipped
  <2>4. QED
    BY <2>1, <2>2, <2>3 DEF Keys, CaptureKey
<1>3. \A k \in {NoKey} \cup {TopUpKey(t) : t \in TopUps} : k \in Keys /\ Good(k)
  <2>1. \A t \in TopUps, o \in Orders : TopUpKey(t) # CaptureKey(o)
    BY DEF TopUpKey, CaptureKey
  <2>2. QED
    BY <2>1, KeysAssumption DEF Keys
<1>4. {"capture", "deposit", "manual_adjustment"} \subseteq EntryTypes
  BY DEF EntryTypes
<1>5. ASSUME NEW p \in Procs, Capture(p) \/ HealCommit(p)
      PROVE  \/ ledger' = ledger
             \/ AppendEntry("capture", -procs[p].charge, CaptureKey(procs[p].order))
  BY <1>5 DEF Capture, HealCommit
<1>6. ASSUME NEW p \in Procs, Capture(p) \/ HealCommit(p)
      PROVE  procs[p].pc \in {"capture", "heal"}
  BY <1>6 DEF Capture, HealCommit
<1>7. CASE \E p \in Procs : Capture(p) \/ HealCommit(p)
  <2>1. PICK p \in Procs : Capture(p) \/ HealCommit(p)
    BY <1>7
  <2>2. QED
    BY <1>1, <1>2, <1>4, <1>5, <1>6, <2>1
<1>8. CASE \E p \in Procs : \/ \E t \in TopUps : Deposit(p, t)
                            \/ \E a \in Adjustments : Adjust(p, a)
  <2>1. \/ \E t \in TopUps : AppendEntry("deposit", TopUpAmount, TopUpKey(t))
        \/ \E a \in Adjustments : AppendEntry("manual_adjustment", a, NoKey)
    BY <1>8 DEF Deposit, Adjust
  <2>2. CASE \E t \in TopUps : AppendEntry("deposit", TopUpAmount, TopUpKey(t))
    <3>1. PICK t \in TopUps : AppendEntry("deposit", TopUpAmount, TopUpKey(t))
      BY <2>2
    <3>2. TopUpKey(t) \in Keys /\ Good(TopUpKey(t)) /\ TopUpAmount \in Int
      BY <1>3, AmountsAssumption
    <3>3. QED
      BY <1>1, <1>4, <3>1, <3>2
  <2>3. CASE \E a \in Adjustments : AppendEntry("manual_adjustment", a, NoKey)
    <3>1. PICK a \in Adjustments : AppendEntry("manual_adjustment", a, NoKey)
      BY <2>3
    <3>2. NoKey \in Keys /\ Good(NoKey) /\ a \in Int
      BY <1>3, AmountsAssumption
    <3>3. QED
      BY <1>1, <1>4, <3>1, <3>2
  <2>4. QED
    BY <2>1, <2>2, <2>3
<1>9. CASE UNCHANGED ledger
  BY <1>9
<1>10. ASSUME NEW p \in Procs, NEW o \in Orders, Arrive(p, o) PROVE UNCHANGED ledger
  BY <1>10 DEF Arrive, Create, Import, EditRead, RemapRead, CancelRead, ShipRead,
               DeliverRead, HealRead
<1>11. ASSUME NEW p \in Procs, Continue(p)
       PROVE  Capture(p) \/ HealCommit(p) \/ UNCHANGED ledger
  BY <1>11 DEF Continue, EditDecide, EditWrite, RemapDecide, RemapWrite,
               CancelCommit, ReadBalance, ReadHeld, ShipRefused, ShipGate,
               CaptureThrows, FlagCapture, DeliverCommit
<1>12. QED
  BY <1>7, <1>8, <1>9, <1>10, <1>11 DEF Next, vars, Fail

LEMMA CaptureStep ==
    ASSUME ShapeOK, StaysShipped, CaptureOnce, CaptureImpliesShipped, [Next]_vars
    PROVE  CaptureOnce' /\ CaptureImpliesShipped'
<1>0. Len(ledger) \in Nat
  BY DEF ShapeOK
<1>1. CASE ledger' = ledger
  <2>1. CaptureOnce'
    BY <1>1 DEF CaptureOnce
  <2>2. \A o \in Orders : Booked(CaptureKey(o))' => Booked(CaptureKey(o))
    BY <1>1 DEF Booked
  <2>3. CaptureImpliesShipped'
    BY <2>2, PostShipStays DEF CaptureImpliesShipped
  <2>4. QED
    BY <2>1, <2>3
<1>2. ASSUME NEW k \in Keys, ~Duplicate(k),
             Len(ledger') = Len(ledger) + 1,
             \A i \in 1..Len(ledger) : ledger'[i] = ledger[i],
             ledger'[Len(ledger) + 1].key = k,
             \A o \in Orders : k = CaptureKey(o) => orders[o].status \in PostShip
      PROVE  CaptureOnce' /\ CaptureImpliesShipped'
  <2>1. PICK n \in Nat : n = Len(ledger)
    BY <1>0
  <2>2. \A i \in 1..(n + 1) : i \in 1..n \/ i = n + 1
    OBVIOUS
  <2>3. \A o \in Orders : k = CaptureKey(o) => \A i \in 1..n : ledger[i].key # k
    BY <1>2, <2>1, KeysAssumption DEF Duplicate, Booked
  <2>4. CaptureOnce'
    <3> SUFFICES ASSUME NEW o \in Orders,
                        NEW i \in 1..(n + 1), NEW j \in 1..(n + 1),
                        ledger'[i].key = CaptureKey(o), ledger'[j].key = CaptureKey(o)
                 PROVE  i = j
      BY <1>2, <2>1 DEF CaptureOnce
    <3>1. CASE i \in 1..n /\ j \in 1..n
      BY <1>2, <2>1, <3>1 DEF CaptureOnce
    <3>2. CASE i = n + 1 /\ j \in 1..n
      BY <1>2, <2>1, <2>3, <3>2
    <3>3. CASE i \in 1..n /\ j = n + 1
      BY <1>2, <2>1, <2>3, <3>3
    <3>4. QED
      BY <2>2, <3>1, <3>2, <3>3
  <2>5. CaptureImpliesShipped'
    <3> SUFFICES ASSUME NEW o \in Orders, NEW i \in 1..(n + 1),
                        ledger'[i].key = CaptureKey(o)
                 PROVE  orders'[o].status \in PostShip
      BY <1>2, <2>1 DEF CaptureImpliesShipped, Booked
    <3>1. CASE i \in 1..n
      BY <1>2, <2>1, <3>1, PostShipStays DEF CaptureImpliesShipped, Booked
    <3>2. CASE i = n + 1
      BY <1>2, <2>1, <3>2, PostShipStays
    <3>3. QED
      BY <2>2, <3>1, <3>2
  <2>6. QED
    BY <2>4, <2>5
<1>3. QED
  BY <1>1, <1>2, LedgerMoves

-----------------------------------------------------------------------------

\* The inductive invariant of orders and captures.
THEOREM Invariance == Spec => []IInv
<1>1. Init => IInv
  <2> SUFFICES ASSUME Init PROVE IInv
    OBVIOUS
  <2>1. ShapeOK
    BY IdleShape DEF Init, ShapeOK
  <2>2. StaysShipped /\ SingleShipper
    BY DEF Init, Idle, StaysShipped, SingleShipper, PastGate
  <2>3. CaptureOnce /\ CaptureImpliesShipped
    BY DEF Init, CaptureOnce, CaptureImpliesShipped, Booked
  <2>4. QED
    BY <2>1, <2>2, <2>3 DEF IInv
<1>2. IInv /\ [Next]_vars => IInv'
  BY ShapeStep, StaysShippedStep, SingleShipperStep, CaptureStep DEF IInv
<1>3. QED
  BY <1>1, <1>2, PTL DEF Spec

\* A shipped order is debited at most once (captureOrder).
THEOREM CapturedAtMostOnce == Spec => []CaptureOnce
<1>1. IInv => CaptureOnce
  BY DEF IInv
<1>2. QED
  BY <1>1, Invariance, PTL

\* Only orders that have shipped are debited (the ship gate, the cancel gate
\* and the heal's guard).
THEOREM OnlyShippedIsCaptured == Spec => []CaptureImpliesShipped
<1>1. IInv => CaptureImpliesShipped
  BY DEF IInv
<1>2. QED
  BY <1>1, Invariance, PTL

\* However many shipnotifies, retries and administrators race for an order,
\* one ships it (the ship gate).
THEOREM OneShips == Spec => []SingleShipper
<1>1. IInv => SingleShipper
  BY DEF IInv
<1>2. QED
  BY <1>1, Invariance, PTL

\* No stale request moves an order back (the conditional transitions).
THEOREM NeverBack == Spec => StatusOnlyForward
<1>1. IInv /\ [Next]_vars =>
        [\A o \in Orders :
            orders'[o].status # orders[o].status
              => orders'[o].status \in Moves[orders[o].status]]_vars
  <2> SUFFICES ASSUME IInv, [Next]_vars, NEW o \in Orders,
                      orders'[o].status # orders[o].status
               PROVE  orders'[o].status \in Moves[orders[o].status]
    OBVIOUS
  <2>1. \/ orders[o].status = "absent" /\ orders'[o].status = "ready_for_fulfillment"
        \/ orders[o].status \in PreShip /\ orders'[o].status \in {"shipped", "cancelled"}
        \/ orders[o].status = "shipped" /\ orders'[o].status = "delivered"
    BY StatusMoves DEF IInv
  <2>2. QED
    BY <2>1 DEF Moves, PreShip
<1>2. QED
  BY <1>1, Invariance, PTL DEF Spec, StatusOnlyForward

-----------------------------------------------------------------------------

\* Only so many orders have been placed.
FewPlaced == IsFiniteSet({o \in Orders : orders[o].status # "absent"})

\* A request that is not about to ship has read nothing of the wallet.
ReadsToShip == \A p \in Procs : procs[p].pc # "ship" => funds[p] = NothingRead

FundsInv == TypeOK /\ NeverOverdrawn /\ FewPlaced /\ ReadsToShip

Alone == \A p, q \in Procs : procs[p] # Idle /\ procs[q] # Idle => p = q

\* Who ships what, without heals.
Ways ==
    \A p \in Procs :
        /\ procs[p].pc # "heal"
        /\ procs[p].pc \in {"ship", "capture"} => procs[p].via \in {"notify", "admin"}
        /\ procs[p].pc = "flag" => procs[p].via = "notify"
        /\ procs[p].pc = "ship" => ~procs[p].captured

\* Where ShipStation is alone there is nothing else.
NotifyWays ==
    \A p \in Procs :
        /\ procs[p].pc \in {"idle", "cancel", "ship", "capture", "flag"}
        /\ procs[p].via # "admin"

\* What a request relies on as long as it is alone.
Relies(p) ==
    LET r == procs[p]  row == orders[r.order] IN
    /\ r.pc \in {"edit", "editWrite", "remapEnd", "remapWrite", "cancel", "ship"}
         => row.status \in PreShip
    /\ r.pc = "edit" => r.own = ReservedSelf(row) /\ r.blocker # "awaiting_funds"
    /\ r.pc = "editWrite" =>
         /\ r.blocker = "none" => GetBalance - Held + ReservedSelf(row) >= r.charge
         /\ r.blocker = "awaiting_funds" => GetBalance - Held + ReservedSelf(row) < r.charge
    /\ r.pc = "remapWrite" => r.blocker \in {row.blocker, "needs_mapping"}
    /\ r.pc = "ship" =>
         /\ r.charge = row.charge
         /\ r.own = ReservedSelf(row)
         /\ funds[p].balance \in {Unread, GetBalance}
         /\ funds[p].held \in {Unread, Held}
    /\ r.pc = "capture" => Held + r.charge <= GetBalance

QueueInv ==
    scenario = "queue" => Alone /\ \A p \in Procs : Relies(p)

Backed ==
    scenario = "queue" /\ (\A p \in Procs : procs[p].pc # "capture") => Held <= GetBalance

WaysInv ==
    /\ scenario # "any" => Ways
    /\ scenario = "shipnotify" => NotifyWays

\* The blocker of a shipped order says whether it was paid.
Told(o) == orders[o].blocker = IF Booked(CaptureKey(o)) THEN "none" ELSE "awaiting_funds"

FlagInv ==
    scenario # "any" =>
        \A o \in Orders :
            /\ orders[o].status \in PostShip
                 => Told(o) \/ \E p \in Procs : PastGate(p) /\ procs[p].order = o
            /\ \A p \in Procs : procs[p].order = o =>
                 /\ procs[p].pc = "capture" =>
                      /\ ~Booked(CaptureKey(o))
                      /\ procs[p].via = "admin" => orders[o].blocker = "none"
                 /\ procs[p].pc = "flag" => (procs[p].captured <=> Booked(CaptureKey(o)))

-----------------------------------------------------------------------------

\* What an order takes out of the wallet as long as it is open.
Reserves(order) ==
    IF order.status \in PreShip /\ order.blocker = "none" THEN order.charge ELSE 0

Reserving(f) == {o \in Orders : /\ f[o].status \in PreShip
                                /\ f[o].blocker = "none"}

LEMMA HeldIs ==
    Held = ChargeSum(orders, Reserving(orders)) /\ Held' = ChargeSum(orders', Reserving(orders'))
BY Zenon DEF Held, ChargeSum, Reserving, MapThenSumSet, MapThenFoldSet

LEMMA ReservingFinite ==
    ASSUME NEW f, IsFiniteSet({o \in Orders : f[o].status # "absent"})
    PROVE  IsFiniteSet(Reserving(f))
<1>1. Reserving(f) \subseteq {o \in Orders : f[o].status # "absent"}
  BY DEF Reserving, PreShip
<1>2. QED
  BY <1>1, FS_Subset

LEMMA ChargeIsNat ==
    ASSUME NEW f \in [Orders -> Order], NEW o \in Orders
    PROVE  f[o].charge \in Nat
<1>1. PICK c \in Charges \cup {0} : c = f[o].charge
  BY DEF Order
<1>2. QED
  BY <1>1, ChargesAssumption

\* The held sum is a number of cents, and no less than what any one order reserves.
LEMMA HeldCovers ==
    ASSUME ShapeOK, FewPlaced
    PROVE  Held \in Nat /\ \A o \in Orders : Reserves(orders[o]) \in Nat /\ Reserves(orders[o]) <= Held
<1> DEFINE R == Reserving(orders)
<1>1. IsFiniteSet(R)
  BY ReservingFinite DEF FewPlaced
<1>2. \A o \in Orders : orders[o].charge \in Nat
  BY ChargeIsNat DEF ShapeOK
<1>3. R \subseteq Orders
  BY DEF Reserving
<1>4. Held \in Nat
  <2> HIDE DEF R
  <2>1. ChargeSum(orders, R) \in Nat
    BY <1>1, <1>2, <1>3, ChargeSumNat
  <2>2. QED
    BY <2>1, HeldIs DEF R
<1>5. ASSUME NEW o \in Orders PROVE Reserves(orders[o]) \in Nat /\ Reserves(orders[o]) <= Held
  <2>1. CASE o \in R
    <3>1. Reserves(orders[o]) = orders[o].charge
      BY <2>1 DEF Reserves, Reserving
    <3> HIDE DEF R
    <3>2. ChargeSum(orders, R) = orders[o].charge + ChargeSum(orders, R \ {o})
      BY <1>1, <1>2, <1>3, <2>1, ChargeSumSplit
    <3>3. IsFiniteSet(R \ {o})
      BY <1>1, FS_Subset
    <3>4. ChargeSum(orders, R \ {o}) \in Nat
      BY <1>2, <1>3, <3>3, ChargeSumNat
    <3>5. Held = ChargeSum(orders, R)
      BY HeldIs DEF R
    <3>6. QED
      BY <1>2, <3>1, <3>2, <3>4, <3>5
  <2>2. CASE o \notin R
    <3>1. Reserves(orders[o]) = 0
      BY <2>2 DEF Reserves, Reserving
    <3>2. QED
      BY <3>1, <1>4
  <2>3. QED
    BY <2>1, <2>2
<1>6. QED
  BY <1>4, <1>5

OnlyRow(o) == \A x \in Orders : x # o => orders'[x] = orders[x]
Only(p) == \A q \in Procs : q # p => procs'[q] = procs[q]

\* A step that writes one order moves the held sum by what that order reserves.
LEMMA HeldMoves ==
    ASSUME ShapeOK, ShapeOK', FewPlaced, NEW o \in Orders, OnlyRow(o)
    PROVE  /\ FewPlaced'
           /\ Held' = Held - Reserves(orders[o]) + Reserves(orders'[o])
           /\ Reserves(orders'[o]) \in Nat
<1> DEFINE R == Reserving(orders)
           S == Reserving(orders')
           P == {x \in Orders : orders[x].status # "absent"}
           Q == {x \in Orders : orders'[x].status # "absent"}
<1>1. IsFiniteSet(P) /\ IsFiniteSet(Q)
  <2>1. Q \subseteq P \cup {o}
    BY DEF OnlyRow
  <2>2. IsFiniteSet(P)
    BY DEF FewPlaced
  <2> HIDE DEF P, Q
  <2>3. IsFiniteSet(P \cup {o})
    BY <2>2, FS_AddElement
  <2>4. QED
    BY <2>1, <2>2, <2>3, FS_Subset
<1>2. IsFiniteSet(R) /\ IsFiniteSet(S)
  BY <1>1, ReservingFinite
<1>3. (\A x \in Orders : orders[x].charge \in Nat) /\ (\A x \in Orders : orders'[x].charge \in Nat)
  BY ChargeIsNat DEF ShapeOK
<1>4. R \subseteq Orders /\ S \subseteq Orders /\ R \ {o} = S \ {o}
  BY DEF Reserving, OnlyRow
<1>5. \A x \in R \ {o} : orders[x].charge = orders'[x].charge
  BY <1>4 DEF OnlyRow
<1>6. Reserves(orders[o]) = (IF o \in R THEN orders[o].charge ELSE 0)
  BY DEF Reserves, Reserving
<1>7. Reserves(orders'[o]) = (IF o \in S THEN orders'[o].charge ELSE 0)
  BY DEF Reserves, Reserving
<1>8. Held = ChargeSum(orders, R) /\ Held' = ChargeSum(orders', S)
  BY HeldIs
<1>9. FewPlaced'
  BY <1>1 DEF FewPlaced
<1> HIDE DEF R, S, P, Q
<1>10. PICK T : T = R \ {o} /\ T = S \ {o} /\ IsFiniteSet(T)
  BY <1>2, <1>4, FS_Subset
<1>11. ChargeSum(orders, T) = ChargeSum(orders', T) /\ ChargeSum(orders, T) \in Nat
  <2>1. \A x \in T : orders[x].charge \in Nat /\ orders[x].charge = orders'[x].charge
    BY <1>3, <1>4, <1>5, <1>10
  <2>2. QED
    BY <1>10, <2>1, ChargeSumAgree, ChargeSumNat
<1>12. ChargeSum(orders, R) = ChargeSum(orders, T) + Reserves(orders[o])
  <2>1. CASE o \in R
    <3>1. ChargeSum(orders, R) = orders[o].charge + ChargeSum(orders, R \ {o})
      BY <1>2, <1>3, <1>4, <2>1, ChargeSumSplit
    <3>2. QED
      BY <1>3, <1>6, <1>10, <1>11, <2>1, <3>1
  <2>2. CASE o \notin R
    <3>1. T = R
      BY <1>10, <2>2
    <3>2. QED
      BY <1>6, <1>11, <2>2, <3>1
  <2>3. QED
    BY <2>1, <2>2
<1>13. ChargeSum(orders', S) = ChargeSum(orders', T) + Reserves(orders'[o])
  <2>1. CASE o \in S
    <3>1. ChargeSum(orders', S) = orders'[o].charge + ChargeSum(orders', S \ {o})
      BY <1>2, <1>3, <1>4, <2>1, ChargeSumSplit
    <3>2. S \ {o} = T
      BY <1>10
    <3>3. ChargeSum(orders', S) = orders'[o].charge + ChargeSum(orders', T)
      BY <3>1, <3>2
    <3>4. ChargeSum(orders', T) \in Nat /\ orders'[o].charge \in Nat
      BY <1>3, <1>11
    <3>5. Reserves(orders'[o]) = orders'[o].charge
      BY <1>7, <2>1
    <3>6. QED
      BY <3>3, <3>4, <3>5
  <2>2. CASE o \notin S
    <3>1. T = S
      BY <1>10, <2>2
    <3>2. QED
      BY <1>7, <1>11, <2>2, <3>1
  <2>3. QED
    BY <2>1, <2>2
<1>14. Reserves(orders[o]) \in Nat /\ Reserves(orders'[o]) \in Nat
  BY <1>3, <1>6, <1>7
<1>15. QED
  BY <1>8, <1>9, <1>11, <1>12, <1>13, <1>14

-----------------------------------------------------------------------------

\* The decision about the money, in terms of what is held.
LEMMA BlockerSays ==
    ASSUME NEW data \in Blockers, data # "awaiting_funds", NEW charge, NEW own
    PROVE  /\ Blocker(data, charge, own) = "none" => GetBalance - Held + own >= charge
           /\ Blocker(data, charge, own) = "awaiting_funds" => ~(GetBalance - Held + own >= charge)
BY DEF Blocker

LEMMA DataSays ==
    ASSUME NEW addr, NEW unmatched
    PROVE  DataBlocker(addr, unmatched) \in Blockers /\ DataBlocker(addr, unmatched) # "awaiting_funds"
BY DEF DataBlocker, Blockers

\* The first step of a request on order o: it places the order, or it reads it and goes on.
Placed(o) ==
    /\ UNCHANGED procs
    /\ OnlyRow(o)
    /\ orders[o].status = "absent"
    /\ orders'[o].status = "ready_for_fulfillment"
    /\ orders'[o].blocker = "none" => GetBalance - Held >= orders'[o].charge

Begun(p, o) ==
    LET r == procs'[p] IN
    /\ UNCHANGED orders
    /\ Only(p)
    /\ r.order = o
    /\ r.via = "heal" \/ r.pc # "heal"
    /\ \/ /\ r.pc = "edit" /\ r.via \in {"edit", "remap"}
          /\ orders[o].status \in PreShip
          /\ r.own = ReservedSelf(orders[o]) /\ r.blocker # "awaiting_funds"
       \/ r.pc \in {"remapEnd"} /\ r.via = "remap" /\ orders[o].status \in PreShip
       \/ r.pc = "cancel" /\ r.via = "cancel" /\ orders[o].status \in PreShip
       \/ /\ r.pc = "ship" /\ r.via \in {"notify", "admin"} /\ ~r.captured
          /\ orders[o].status \in PreShip
          /\ r.charge = orders[o].charge /\ r.own = ReservedSelf(orders[o])
       \/ r.pc = "deliver" /\ r.via = "deliver" /\ orders[o].status = "shipped"
       \/ r.pc = "heal" /\ r.via = "heal"

LEMMA ArriveEffect ==
    ASSUME ShapeOK, FewPlaced, NEW p \in Procs, NEW o \in Orders, Arrive(p, o)
    PROVE  /\ procs[p] = Idle
           /\ UNCHANGED <<ledger, funds>>
           /\ Placed(o) \/ Begun(p, o)
<1>0. orders \in [Orders -> Order] /\ procs \in [Procs -> Request]
  BY DEF ShapeOK
<1> DEFINE Good == procs[p] = Idle /\ UNCHANGED <<ledger, funds>> /\ (Placed(o) \/ Begun(p, o))
<1>1. ASSUME NEW data \in Blockers, data # "awaiting_funds", NEW c \in Charges \cup {0}, NEW row,
             row.status = "ready_for_fulfillment", row.charge = c, row.blocker = Blocker(data, c, 0),
             orders' = [orders EXCEPT ![o] = row], UNCHANGED procs, orders[o].status = "absent"
      PROVE  Placed(o)
  <2>1. orders'[o] = row /\ OnlyRow(o)
    BY <1>0, <1>1 DEF OnlyRow
  <2>2. row.blocker = "none" => GetBalance - Held + 0 >= c
    BY <1>1, BlockerSays
  <2>3. GetBalance - Held + 0 >= c => GetBalance - Held >= c
    <3>1. GetBalance \in Int /\ Held \in Int
      BY HeldCovers, BalanceTyped DEF ShapeOK
    <3>2. QED
      BY <3>1
  <2>4. QED
    BY <1>1, <2>1, <2>2, <2>3 DEF Placed
<1>2. ASSUME NEW c \in Charges, Create(p, o, c) PROVE Good
  <2>1. PICK row : row = [Absent EXCEPT !.status = "ready_for_fulfillment", !.addr = TRUE,
                                        !.charge = c, !.blocker = Blocker("none", c, 0)]
    OBVIOUS
  <2>2. /\ row.status = "ready_for_fulfillment" /\ row.charge = c
        /\ row.blocker = Blocker("none", c, 0)
    BY <2>1 DEF Absent
  <2>3. orders' = [orders EXCEPT ![o] = row] /\ UNCHANGED procs /\ orders[o].status = "absent"
    BY <1>2, <2>1 DEF Create
  <2>4. "none" \in Blockers /\ c \in Charges \cup {0}
    BY DEF Blockers
  <2>5. Placed(o)
    BY <1>1, <2>2, <2>3, <2>4
  <2>6. QED
    BY <1>2, <2>5 DEF Create, OneTransaction
<1>3. ASSUME NEW addr \in BOOLEAN, NEW matched \in BOOLEAN, NEW unmatched \in BOOLEAN,
             NEW c \in Charges \cup {0}, Import(p, o, addr, matched, unmatched, c)
      PROVE  Good
  <2>1. PICK data : data = DataBlocker(addr, unmatched \/ ~matched)
    OBVIOUS
  <2>2. PICK row : row = [status |-> "ready_for_fulfillment", blocker |-> Blocker(data, c, 0),
                          charge |-> c, addr |-> addr, unmatched |-> unmatched,
                          source |-> matched \/ unmatched]
    OBVIOUS
  <2>3. /\ row.status = "ready_for_fulfillment" /\ row.charge = c
        /\ row.blocker = Blocker(data, c, 0)
    BY <2>2
  <2>4. orders' = [orders EXCEPT ![o] = row] /\ UNCHANGED procs /\ orders[o].status = "absent"
    BY <1>3, <2>1, <2>2 DEF Import
  <2>5. data \in Blockers /\ data # "awaiting_funds"
    BY <2>1, DataSays
  <2>6. Placed(o)
    BY <1>1, <2>3, <2>4, <2>5
  <2>7. QED
    BY <1>3, <2>6 DEF Import, OneTransaction
<1>4. ASSUME NEW r, procs' = [procs EXCEPT ![p] = r]
      PROVE  procs'[p] = r /\ Only(p)
  BY <1>0, <1>4 DEF Only
<1>5. ASSUME NEW c \in Charges, NEW addr \in BOOLEAN, EditRead(p, o, c, addr) PROVE Good
  <2>1. PICK data : data = DataBlocker(addr, orders[o].unmatched)
    OBVIOUS
  <2>2. PICK r : r = [Idle EXCEPT !.pc = "edit", !.via = "edit", !.order = o, !.charge = c,
                                  !.own = ReservedSelf(orders[o]), !.addr = addr, !.blocker = data]
    OBVIOUS
  <2>3. /\ r.pc = "edit" /\ r.via = "edit" /\ r.order = o /\ r.own = ReservedSelf(orders[o])
        /\ r.blocker = data
    BY <2>2 DEF Idle
  <2>4. procs'[p] = r /\ Only(p)
    BY <1>4, <1>5, <2>1, <2>2 DEF EditRead
  <2>5. data # "awaiting_funds"
    BY <2>1, DataSays
  <2>6. QED
    BY <1>5, <2>3, <2>4, <2>5 DEF EditRead, Begun
<1>6. ASSUME NEW resolved \in BOOLEAN, NEW left \in BOOLEAN, NEW c \in Charges,
             RemapRead(p, o, resolved, left, c)
      PROVE  Good
  <2>1. PICK data : data = DataBlocker(orders[o].addr, orders[o].unmatched)
    OBVIOUS
  <2>2. data # "awaiting_funds"
    BY <2>1, DataSays
  <2>3. CASE resolved
    <3>1. PICK r : r = [Idle EXCEPT !.pc = "edit", !.via = "remap", !.order = o,
                           !.charge = c, !.own = ReservedSelf(orders[o]),
                           !.addr = orders[o].addr, !.left = left, !.blocker = data]
      OBVIOUS
    <3>2. /\ r.pc = "edit" /\ r.via = "remap" /\ r.order = o /\ r.own = ReservedSelf(orders[o])
          /\ r.blocker = data
      BY <3>1 DEF Idle
    <3>3. procs'[p] = r /\ Only(p)
      BY <1>4, <1>6, <2>1, <2>3, <3>1 DEF RemapRead
    <3>4. QED
      BY <1>6, <2>2, <3>2, <3>3 DEF RemapRead, Begun
  <2>4. CASE ~resolved
    <3>1. PICK r : r = [Idle EXCEPT !.pc = "remapEnd", !.via = "remap", !.order = o, !.left = left]
      OBVIOUS
    <3>2. r.pc = "remapEnd" /\ r.via = "remap" /\ r.order = o
      BY <3>1 DEF Idle
    <3>3. procs'[p] = r /\ Only(p)
      BY <1>4, <1>6, <2>4, <3>1 DEF RemapRead
    <3>4. QED
      BY <1>6, <3>2, <3>3 DEF RemapRead, Begun
  <2>5. QED
    BY <2>3, <2>4
<1>7. ASSUME CancelRead(p, o) \/ DeliverRead(p, o) PROVE Good
  <2>1. PICK pc \in {"cancel", "deliver"} :
           /\ procs' = [procs EXCEPT ![p] = [Idle EXCEPT !.pc = pc, !.via = pc, !.order = o]]
           /\ pc = "cancel" => orders[o].status \in PreShip
           /\ pc = "deliver" => orders[o].status = "shipped"
    BY <1>7 DEF CancelRead, DeliverRead, Read
  <2>2. PICK r : r = [Idle EXCEPT !.pc = pc, !.via = pc, !.order = o]
    OBVIOUS
  <2>3. r.pc = pc /\ r.via = pc /\ r.order = o
    BY <2>2 DEF Idle
  <2>4. procs'[p] = r /\ Only(p)
    BY <1>4, <2>1, <2>2
  <2>5. procs[p] = Idle /\ UNCHANGED <<ledger, funds, orders>>
    BY <1>7 DEF CancelRead, DeliverRead
  <2>6. QED
    BY <2>1, <2>3, <2>4, <2>5 DEF Begun
<1>8. ASSUME (\E via \in {"notify", "admin"} : ShipRead(p, o, via)) \/ HealRead(p, o) PROVE Good
  <2>1. PICK pc \in {"ship", "heal"}, via \in {"notify", "admin", "heal"} :
           /\ procs' = [procs EXCEPT ![p] = [Idle EXCEPT !.pc = pc, !.via = via, !.order = o,
                                                  !.charge = orders[o].charge,
                                                  !.own = ReservedSelf(orders[o])]]
           /\ pc = "ship" => orders[o].status \in PreShip /\ via # "heal"
           /\ pc = "heal" => via = "heal"
    BY <1>8 DEF ShipRead, HealRead, ReadCharge
  <2>2. PICK r : r = [Idle EXCEPT !.pc = pc, !.via = via, !.order = o,
                                  !.charge = orders[o].charge, !.own = ReservedSelf(orders[o])]
    OBVIOUS
  <2>3. /\ r.pc = pc /\ r.via = via /\ r.order = o /\ r.charge = orders[o].charge
        /\ r.own = ReservedSelf(orders[o]) /\ ~r.captured
    BY <2>2 DEF Idle
  <2>4. procs'[p] = r /\ Only(p)
    BY <1>4, <2>1, <2>2
  <2>5. procs[p] = Idle /\ UNCHANGED <<ledger, funds, orders>>
    BY <1>8 DEF ShipRead, HealRead
  <2>6. QED
    BY <2>1, <2>3, <2>4, <2>5 DEF Begun
<1>9. QED
  BY <1>2, <1>3, <1>5, <1>6, <1>7, <1>8 DEF Arrive


\* What a request does to itself and to its order, handler by handler.
Leaves(p) == Only(p) /\ procs'[p] = Idle
Goes(p, pc) ==
    /\ Only(p)
    /\ procs'[p].pc = pc
    /\ procs'[p].order = procs[p].order
    /\ procs'[p].via = procs[p].via

LEMMA Working ==
    ASSUME ShapeOK, NEW p \in Procs, procs[p].pc # "idle"
    PROVE  /\ procs[p] \in Request /\ procs[p].order \in Orders
           /\ orders[procs[p].order] \in Order /\ procs[p].charge \in Nat
<1>1. procs[p] \in Request /\ procs[p].order \in Orders /\ orders[procs[p].order] \in Order
  BY DEF ShapeOK
<1>2. PICK c \in Charges \cup {0} : c = procs[p].charge
  BY <1>1 DEF Request
<1>3. c \in Nat
  BY ChargesAssumption
<1>4. QED
  BY <1>1, <1>2, <1>3

LEMMA DoneLeaves ==
    ASSUME ShapeOK, NEW p \in Procs, Done(p)
    PROVE  Leaves(p)
BY DEF ShapeOK, Done, Leaves, Only

LEMMA EditDecideEffect ==
    ASSUME ShapeOK, NEW p \in Procs, EditDecide(p)
    PROVE  /\ procs[p].pc = "edit" /\ Goes(p, "editWrite")
           /\ procs'[p].charge = procs[p].charge
           /\ procs[p].blocker # "awaiting_funds" =>
                /\ procs'[p].blocker = "none"
                     => GetBalance - Held + procs[p].own >= procs[p].charge
                /\ procs'[p].blocker = "awaiting_funds"
                     => ~(GetBalance - Held + procs[p].own >= procs[p].charge)
           /\ UNCHANGED <<ledger, orders, funds>>
<1>1. procs[p].pc = "edit" /\ UNCHANGED <<ledger, orders, funds>>
  BY DEF EditDecide
<1>2. procs[p] \in Request
  BY <1>1, Working
<1>3. PICK b : b = Blocker(procs[p].blocker, procs[p].charge, procs[p].own)
  OBVIOUS
<1>4. PICK r : r = [procs[p] EXCEPT !.pc = "editWrite", !.own = 0, !.blocker = b]
  OBVIOUS
<1>5. /\ r.pc = "editWrite" /\ r.order = procs[p].order /\ r.via = procs[p].via
      /\ r.charge = procs[p].charge /\ r.blocker = b
  BY <1>2, <1>4 DEF Request
<1>6. procs' = [procs EXCEPT ![p] = r]
  BY <1>2, <1>3, <1>4 DEF EditDecide, ShapeOK
<1>7. procs'[p] = r /\ Only(p)
  BY <1>6 DEF ShapeOK, Only
<1>8. procs[p].blocker \in Blockers
  BY <1>2 DEF Request
<1>9. QED
  BY <1>1, <1>3, <1>5, <1>7, <1>8, BlockerSays DEF Goes

LEMMA EditWriteEffect ==
    ASSUME ShapeOK, NEW p \in Procs, EditWrite(p)
    PROVE  LET o == procs[p].order IN
           /\ procs[p].pc = "editWrite"
           /\ OnlyRow(o) /\ orders'[o].status = orders[o].status
           /\ orders'[o].charge = procs[p].charge /\ orders'[o].blocker = procs[p].blocker
           /\ Leaves(p) \/ (Goes(p, "remapEnd") /\ procs[p].via = "remap")
           /\ UNCHANGED <<ledger, funds>>
<1> DEFINE o == procs[p].order
<1>1. procs[p].pc = "editWrite" /\ UNCHANGED <<ledger, funds>>
  BY DEF EditWrite
<1>2. procs[p] \in Request /\ o \in Orders /\ orders[o] \in Order
  BY <1>1, Working
<1>3. PICK row : row = [orders[o] EXCEPT !.charge = procs[p].charge,
                                         !.addr = procs[p].addr, !.blocker = procs[p].blocker]
  OBVIOUS
<1>4. /\ row.status = orders[o].status /\ row.charge = procs[p].charge
      /\ row.blocker = procs[p].blocker
  BY <1>2, <1>3 DEF Order
<1>5. orders' = [orders EXCEPT ![o] = row]
  BY <1>2, <1>3 DEF EditWrite, ShapeOK
<1>6. orders'[o] = row /\ OnlyRow(o)
  BY <1>2, <1>5 DEF ShapeOK, OnlyRow
<1>7. CASE procs[p].via = "remap"
  <2>1. PICK r : r = [Idle EXCEPT !.pc = "remapEnd", !.via = "remap",
                                  !.order = o, !.left = procs[p].left]
    OBVIOUS
  <2>2. r.pc = "remapEnd" /\ r.via = procs[p].via /\ r.order = o
    BY <1>7, <2>1 DEF Idle
  <2>3. procs' = [procs EXCEPT ![p] = r]
    BY <1>7, <2>1 DEF EditWrite
  <2>4. procs'[p] = r /\ Only(p)
    BY <2>3 DEF ShapeOK, Only
  <2>5. QED
    BY <1>1, <1>4, <1>6, <1>7, <2>2, <2>4 DEF Goes
<1>8. CASE procs[p].via # "remap"
  <2>1. Leaves(p)
    BY <1>8, DoneLeaves DEF EditWrite
  <2>2. QED
    BY <1>1, <1>4, <1>6, <2>1
<1>9. QED
  BY <1>7, <1>8

LEMMA RemapDecideEffect ==
    ASSUME ShapeOK, NEW p \in Procs, RemapDecide(p)
    PROVE  /\ procs[p].pc = "remapEnd" /\ Goes(p, "remapWrite")
           /\ procs'[p].blocker \in {orders[procs[p].order].blocker, "needs_mapping"}
           /\ UNCHANGED <<ledger, orders, funds>>
<1>1. procs[p].pc = "remapEnd" /\ UNCHANGED <<ledger, orders, funds>>
  BY DEF RemapDecide
<1>2. procs[p] \in Request
  BY <1>1, Working
<1>3. PICK b : b = IF procs[p].left THEN "needs_mapping" ELSE orders[procs[p].order].blocker
  OBVIOUS
<1>4. PICK r : r = [procs[p] EXCEPT !.pc = "remapWrite", !.blocker = b]
  OBVIOUS
<1>5. /\ r.pc = "remapWrite" /\ r.order = procs[p].order /\ r.via = procs[p].via
      /\ r.blocker = b
  BY <1>2, <1>4 DEF Request
<1>6. procs' = [procs EXCEPT ![p] = r]
  BY <1>2, <1>3, <1>4 DEF RemapDecide, ShapeOK
<1>7. procs'[p] = r /\ Only(p)
  BY <1>6 DEF ShapeOK, Only
<1>8. QED
  BY <1>1, <1>3, <1>5, <1>7 DEF Goes

LEMMA RemapWriteEffect ==
    ASSUME ShapeOK, NEW p \in Procs, RemapWrite(p)
    PROVE  LET o == procs[p].order IN
           /\ procs[p].pc = "remapWrite"
           /\ OnlyRow(o) /\ orders'[o].status = orders[o].status
           /\ orders'[o].charge = orders[o].charge /\ orders'[o].blocker = procs[p].blocker
           /\ Leaves(p)
           /\ UNCHANGED <<ledger, funds>>
<1> DEFINE o == procs[p].order
<1>1. procs[p].pc = "remapWrite" /\ UNCHANGED <<ledger, funds>>
  BY DEF RemapWrite
<1>2. o \in Orders /\ orders[o] \in Order
  BY <1>1, Working
<1>3. PICK row : row = [orders[o] EXCEPT !.blocker = procs[p].blocker, !.unmatched = procs[p].left]
  OBVIOUS
<1>4. /\ row.status = orders[o].status /\ row.charge = orders[o].charge
      /\ row.blocker = procs[p].blocker
  BY <1>2, <1>3 DEF Order
<1>5. orders' = [orders EXCEPT ![o] = row]
  BY <1>2, <1>3 DEF RemapWrite, ShapeOK
<1>6. orders'[o] = row /\ OnlyRow(o)
  BY <1>2, <1>5 DEF ShapeOK, OnlyRow
<1>7. Leaves(p)
  BY DoneLeaves DEF RemapWrite
<1>8. QED
  BY <1>1, <1>4, <1>6, <1>7

LEMMA CancelEffect ==
    ASSUME ShapeOK, NEW p \in Procs, CancelCommit(p)
    PROVE  LET o == procs[p].order IN
           /\ procs[p].pc = "cancel"
           /\ OnlyRow(o)
           /\ \/ UNCHANGED orders
              \/ /\ orders[o].status \in PreShip
                 /\ orders'[o].status = "cancelled" /\ orders'[o].blocker = "none"
           /\ Leaves(p)
           /\ UNCHANGED <<ledger, funds>>
<1> DEFINE o == procs[p].order
<1>1. procs[p].pc = "cancel" /\ UNCHANGED <<ledger, funds>>
  BY DEF CancelCommit
<1>2. o \in Orders /\ orders[o] \in Order
  BY <1>1, Working
<1>3. Leaves(p)
  BY DoneLeaves DEF CancelCommit
<1>4. CASE orders[o].status \in PreShip
  <2>1. PICK row : row = [orders[o] EXCEPT !.status = "cancelled", !.blocker = "none"]
    OBVIOUS
  <2>2. row.status = "cancelled" /\ row.blocker = "none"
    BY <1>2, <2>1 DEF Order
  <2>3. orders' = [orders EXCEPT ![o] = row]
    BY <1>2, <1>4, <2>1 DEF CancelCommit, ShapeOK
  <2>4. orders'[o] = row /\ OnlyRow(o)
    BY <1>2, <2>3 DEF ShapeOK, OnlyRow
  <2>5. QED
    BY <1>1, <1>3, <1>4, <2>2, <2>4
<1>5. CASE orders[o].status \notin PreShip
  BY <1>1, <1>3, <1>5 DEF CancelCommit, OnlyRow
<1>6. QED
  BY <1>4, <1>5

LEMMA ReadsEffect ==
    ASSUME ShapeOK, NEW p \in Procs, ReadBalance(p) \/ ReadHeld(p),
           funds \in [Procs -> [balance: Nat \cup {Unread}, held: Nat \cup {Unread}]]
    PROVE  /\ procs[p].pc = "ship"
           /\ UNCHANGED <<ledger, orders, procs>>
           /\ \A q \in Procs : q # p => funds'[q] = funds[q]
           /\ \/ /\ funds[p].balance = Unread /\ funds'[p].held = funds[p].held
                 /\ funds'[p] = [balance |-> GetBalance, held |-> funds[p].held]
              \/ /\ funds[p].held = Unread /\ funds'[p].balance = funds[p].balance
                 /\ funds'[p] = [balance |-> funds[p].balance, held |-> Held]
           /\ funds' = [funds EXCEPT ![p] = funds'[p]]
<1>1. funds[p] = [balance |-> funds[p].balance, held |-> funds[p].held]
  OBVIOUS
<1>2. CASE ReadBalance(p)
  <2>1. PICK b : b = GetBalance
    OBVIOUS
  <2>2. PICK r : r = [funds[p] EXCEPT !.balance = b]
    OBVIOUS
  <2>3. r = [balance |-> b, held |-> funds[p].held]
    BY <1>1, <2>2
  <2>4. funds' = [funds EXCEPT ![p] = r]
    BY <1>2, <2>1, <2>2 DEF ReadBalance
  <2>5. QED
    BY <1>2, <2>1, <2>3, <2>4 DEF ReadBalance
<1>3. CASE ReadHeld(p)
  <2>1. PICK b : b = Held
    OBVIOUS
  <2>2. PICK r : r = [funds[p] EXCEPT !.held = b]
    OBVIOUS
  <2>3. r = [balance |-> funds[p].balance, held |-> b]
    BY <1>1, <2>2
  <2>4. funds' = [funds EXCEPT ![p] = r]
    BY <1>3, <2>1, <2>2 DEF ReadHeld
  <2>5. QED
    BY <1>3, <2>1, <2>3, <2>4 DEF ReadHeld
<1>4. QED
  BY <1>2, <1>3

Forgets(p) ==
    /\ procs[p].pc = "ship" /\ funds[p].balance # Unread /\ funds[p].held # Unread
    /\ funds' = [funds EXCEPT ![p] = NothingRead]

LEMMA RefusedEffect ==
    ASSUME ShapeOK, NEW p \in Procs, ShipRefused(p)
    PROVE  Forgets(p) /\ Leaves(p) /\ UNCHANGED <<ledger, orders>>
BY DoneLeaves DEF ShipRefused, Decided, Forgets

LEMMA ShipGateEffect ==
    ASSUME ShapeOK, NEW p \in Procs, ShipGate(p)
    PROVE  LET o == procs[p].order IN
           /\ Forgets(p)
           /\ OnlyRow(o)
           /\ UNCHANGED ledger
           /\ \/ orders[o].status \notin PreShip /\ UNCHANGED orders /\ Leaves(p)
              \/ /\ orders[o].status \in PreShip
                 /\ orders'[o].status = "shipped" /\ orders'[o].charge = orders[o].charge
                 /\ orders'[o].blocker = (IF procs[p].via = "admin" THEN "none" ELSE orders[o].blocker)
                 /\ procs'[p].charge = orders[o].charge
                 /\ procs'[p].captured = procs[p].captured
                 /\ \/ FundsOk(p) /\ Goes(p, "capture")
                    \/ ~FundsOk(p) /\ procs[p].via # "admin" /\ Goes(p, "flag")
<1> DEFINE o == procs[p].order
<1>1. Forgets(p) /\ UNCHANGED ledger /\ procs[p].pc = "ship"
  BY DEF ShipGate, Decided, Forgets
<1>2. procs[p] \in Request /\ o \in Orders /\ orders[o] \in Order
  BY <1>1, Working
<1>3. CASE orders[o].status \notin PreShip
  <2>1. Leaves(p)
    BY <1>3, DoneLeaves DEF ShipGate
  <2>2. QED
    BY <1>1, <1>3, <2>1 DEF ShipGate, OnlyRow
<1>4. CASE orders[o].status \in PreShip
  <2>1. PICK row : row = [orders[o] EXCEPT !.status = "shipped",
                             !.blocker = IF procs[p].via = "admin" THEN "none" ELSE @]
    OBVIOUS
  <2>2. /\ row.status = "shipped" /\ row.charge = orders[o].charge
        /\ row.blocker = (IF procs[p].via = "admin" THEN "none" ELSE orders[o].blocker)
    BY <1>2, <2>1 DEF Order
  <2>3. orders' = [orders EXCEPT ![o] = row]
    BY <1>2, <1>4, <2>1 DEF ShipGate, ShapeOK
  <2>4. orders'[o] = row /\ OnlyRow(o)
    BY <1>2, <2>3 DEF ShapeOK, OnlyRow
  <2>5. PICK pc : pc = IF FundsOk(p) THEN "capture" ELSE "flag"
    OBVIOUS
  <2>6. PICK r : r = [procs[p] EXCEPT !.pc = pc, !.charge = orders[o].charge, !.own = 0]
    OBVIOUS
  <2>7. /\ r.pc = pc /\ r.order = o /\ r.via = procs[p].via /\ r.charge = orders[o].charge
        /\ r.captured = procs[p].captured
    BY <1>2, <2>6 DEF Request
  <2>8. procs' = [procs EXCEPT ![p] = r]
    BY <1>2, <1>4, <2>5, <2>6 DEF ShipGate, ShapeOK
  <2>9. procs'[p] = r /\ Only(p)
    BY <2>8 DEF ShapeOK, Only
  <2>10. procs[p].via = "admin" => FundsOk(p)
    BY DEF ShipGate
  <2>11. QED
    BY <1>1, <1>4, <2>2, <2>4, <2>5, <2>7, <2>9, <2>10 DEF Goes
<1>5. QED
  BY <1>3, <1>4

LEMMA CaptureEffect ==
    ASSUME ShapeOK, NEW p \in Procs, Capture(p) \/ CaptureThrows(p)
    PROVE  /\ procs[p].pc = "capture"
           /\ UNCHANGED <<orders, funds>>
           /\ \/ /\ Capture(p)
                 /\ AppendEntry("capture", -procs[p].charge, CaptureKey(procs[p].order))
              \/ CaptureThrows(p) /\ UNCHANGED ledger
           /\ \/ /\ procs[p].via = "notify" /\ Goes(p, "flag")
                 /\ (procs'[p].captured <=> Capture(p))
              \/ procs[p].via # "notify" /\ Leaves(p)
<1>1. procs[p].pc = "capture" /\ UNCHANGED <<orders, funds>>
  BY DEF Capture, CaptureThrows
<1>2. procs[p] \in Request
  BY <1>1, Working
<1>3. \A c \in BOOLEAN :
        LET r == [procs[p] EXCEPT !.pc = "flag", !.captured = c]
        IN  r.pc = "flag" /\ r.order = procs[p].order /\ r.via = procs[p].via /\ r.captured = c
  BY <1>2 DEF Request
<1>4. ASSUME NEW c \in BOOLEAN, procs' = [procs EXCEPT ![p].pc = "flag", ![p].captured = c]
      PROVE  Goes(p, "flag") /\ procs'[p].captured = c
  <2>1. PICK r : r = [procs[p] EXCEPT !.pc = "flag", !.captured = c]
    OBVIOUS
  <2>2. procs' = [procs EXCEPT ![p] = r]
    BY <1>2, <1>4, <2>1 DEF ShapeOK
  <2>3. procs'[p] = r /\ Only(p)
    BY <2>2 DEF ShapeOK, Only
  <2>4. QED
    BY <1>3, <2>1, <2>3 DEF Goes
<1>5. CASE procs[p].via # "notify"
  <2>1. Leaves(p)
    BY <1>5, DoneLeaves DEF Capture, CaptureThrows
  <2>2. QED
    BY <1>1, <1>5, <2>1 DEF Capture, CaptureThrows
<1>6. CASE procs[p].via = "notify"
  <2>1. ASSUME Capture(p) PROVE Goes(p, "flag") /\ procs'[p].captured = TRUE
    BY <1>4, <1>6, <2>1 DEF Capture
  <2>2. ASSUME CaptureThrows(p) PROVE Goes(p, "flag") /\ procs'[p].captured = FALSE
    BY <1>4, <1>6, <2>2 DEF CaptureThrows
  <2>3. QED
    BY <1>1, <1>6, <2>1, <2>2 DEF Capture, CaptureThrows
<1>7. QED
  BY <1>5, <1>6

LEMMA FlagEffect ==
    ASSUME ShapeOK, NEW p \in Procs, FlagCapture(p)
    PROVE  LET o == procs[p].order IN
           /\ procs[p].pc = "flag"
           /\ OnlyRow(o) /\ orders'[o].status = orders[o].status
           /\ orders'[o].charge = orders[o].charge
           /\ orders'[o].blocker = (IF procs[p].captured THEN "none" ELSE "awaiting_funds")
           /\ Leaves(p)
           /\ UNCHANGED <<ledger, funds>>
<1> DEFINE o == procs[p].order
<1>1. procs[p].pc = "flag" /\ UNCHANGED <<ledger, funds>>
  BY DEF FlagCapture
<1>2. o \in Orders /\ orders[o] \in Order
  BY <1>1, Working
<1>3. PICK b : b = IF procs[p].captured THEN "none" ELSE "awaiting_funds"
  OBVIOUS
<1>4. PICK row : row = [orders[o] EXCEPT !.blocker = b]
  OBVIOUS
<1>5. row.status = orders[o].status /\ row.charge = orders[o].charge /\ row.blocker = b
  BY <1>2, <1>4 DEF Order
<1>6. orders' = [orders EXCEPT ![o] = row]
  BY <1>2, <1>3, <1>4 DEF FlagCapture, ShapeOK
<1>7. orders'[o] = row /\ OnlyRow(o)
  BY <1>2, <1>6 DEF ShapeOK, OnlyRow
<1>8. Leaves(p)
  BY DoneLeaves DEF FlagCapture
<1>9. QED
  BY <1>1, <1>3, <1>5, <1>7, <1>8

LEMMA DeliverEffect ==
    ASSUME ShapeOK, NEW p \in Procs, DeliverCommit(p)
    PROVE  LET o == procs[p].order IN
           /\ procs[p].pc = "deliver"
           /\ OnlyRow(o) /\ orders'[o].status = "delivered"
           /\ orders'[o].charge = orders[o].charge /\ orders'[o].blocker = orders[o].blocker
           /\ Leaves(p)
           /\ UNCHANGED <<ledger, funds>>
<1> DEFINE o == procs[p].order
<1>1. procs[p].pc = "deliver" /\ UNCHANGED <<ledger, funds>>
  BY DEF DeliverCommit
<1>2. o \in Orders /\ orders[o] \in Order
  BY <1>1, Working
<1>3. PICK row : row = [orders[o] EXCEPT !.status = "delivered"]
  OBVIOUS
<1>4. row.status = "delivered" /\ row.charge = orders[o].charge /\ row.blocker = orders[o].blocker
  BY <1>2, <1>3 DEF Order
<1>5. orders' = [orders EXCEPT ![o] = row]
  BY <1>2, <1>3 DEF DeliverCommit, ShapeOK
<1>6. orders'[o] = row /\ OnlyRow(o)
  BY <1>2, <1>5 DEF ShapeOK, OnlyRow
<1>7. Leaves(p)
  BY DoneLeaves DEF DeliverCommit
<1>8. QED
  BY <1>1, <1>4, <1>6, <1>7

LEMMA HealEffect ==
    ASSUME ShapeOK, NEW p \in Procs, HealCommit(p)
    PROVE  /\ procs[p].pc = "heal"
           /\ Leaves(p)
           /\ \/ UNCHANGED ledger
              \/ AppendEntry("capture", -procs[p].charge, CaptureKey(procs[p].order))
           /\ UNCHANGED <<orders, funds>>
BY DoneLeaves DEF HealCommit

\* What the steps of a request have in common.
LEMMA ContinueEffect ==
    ASSUME ShapeOK, NEW p \in Procs, Continue(p),
           funds \in [Procs -> [balance: Nat \cup {Unread}, held: Nat \cup {Unread}]]
    PROVE  /\ procs[p].pc # "idle"
           /\ procs'[p].pc # procs[p].pc \/ ReadBalance(p) \/ ReadHeld(p)
           /\ OnlyRow(procs[p].order)
           /\ \/ UNCHANGED ledger
              \/ AppendEntry("capture", -procs[p].charge, CaptureKey(procs[p].order))
           /\ \/ Only(p) /\ procs[p].pc # "ship" /\ procs'[p].pc # "ship" /\ UNCHANGED funds
              \/ Only(p) /\ procs'[p].pc # "ship" /\ Forgets(p)
              \/ ReadBalance(p) \/ ReadHeld(p)
<1>1. Idle.pc = "idle"
  BY IdleShape
<1>2. UNCHANGED orders => OnlyRow(procs[p].order)
  BY DEF OnlyRow
<1>3. CASE EditDecide(p)
  BY <1>2, <1>3, EditDecideEffect DEF Goes
<1>4. CASE EditWrite(p)
  BY <1>1, <1>4, EditWriteEffect DEF Goes, Leaves
<1>5. CASE RemapDecide(p)
  BY <1>2, <1>5, RemapDecideEffect DEF Goes
<1>6. CASE RemapWrite(p)
  BY <1>1, <1>6, RemapWriteEffect DEF Leaves
<1>7. CASE CancelCommit(p)
  BY <1>1, <1>7, CancelEffect DEF Leaves
<1>8. CASE ReadBalance(p) \/ ReadHeld(p)
  BY <1>2, <1>8 DEF ReadBalance, ReadHeld
<1>9. CASE ShipRefused(p)
  BY <1>1, <1>2, <1>9, RefusedEffect DEF Leaves, Forgets
<1>10. CASE ShipGate(p)
  BY <1>1, <1>10, ShipGateEffect DEF Leaves, Goes, Forgets
<1>11. CASE Capture(p) \/ CaptureThrows(p)
  BY <1>1, <1>2, <1>11, CaptureEffect DEF Leaves, Goes
<1>12. CASE FlagCapture(p)
  BY <1>1, <1>12, FlagEffect DEF Leaves
<1>13. CASE DeliverCommit(p)
  BY <1>1, <1>13, DeliverEffect DEF Leaves
<1>14. CASE HealCommit(p)
  BY <1>1, <1>2, <1>14, HealEffect DEF Leaves
<1>15. QED
  BY <1>3, <1>4, <1>5, <1>6, <1>7, <1>8, <1>9, <1>10, <1>11, <1>12, <1>13, <1>14
     DEF Continue

-----------------------------------------------------------------------------

LEMMA FundsStep ==
    ASSUME FundsInv, StaysShipped, [Next]_vars
    PROVE  FundsInv'
<1>0. ShapeOK /\ ShapeOK'
  BY ShapeStep DEF FundsInv, TypeOK
<1> DEFINE Sum == [balance: Nat \cup {Unread}, held: Nat \cup {Unread}]
<1>1. funds \in [Procs -> Sum] /\ NeverOverdrawn /\ FewPlaced /\ ReadsToShip
  BY DEF FundsInv, TypeOK
<1>2. NothingRead \in Sum
  BY DEF NothingRead
<1>3. ledger \in Seq(Entry(Keys))
  BY <1>0 DEF ShapeOK
<1>4. {"capture", "deposit", "manual_adjustment"} \subseteq EntryTypes
  BY DEF EntryTypes
<1>5. GetBalance \in Nat /\ Held \in Nat
  BY <1>0, <1>1, <1>3, BalanceTyped, HeldCovers
<1>6. UNCHANGED ledger => NeverOverdrawn'
  BY <1>1 DEF NeverOverdrawn
<1>7. ASSUME NEW o \in Orders, OnlyRow(o) PROVE FewPlaced'
  BY <1>0, <1>1, <1>7, HeldMoves
<1>8. UNCHANGED orders => FewPlaced'
  BY <1>1 DEF FewPlaced
<1>9. ASSUME NEW p \in Procs, NEW o \in Orders, Arrive(p, o) PROVE FundsInv'
  <2>1. procs[p] = Idle /\ UNCHANGED <<ledger, funds>> /\ (Placed(o) \/ Begun(p, o))
    BY <1>0, <1>1, <1>9, ArriveEffect
  <2>2. FewPlaced'
    BY <1>7, <1>8, <2>1 DEF Placed, Begun
  <2>3. funds[p] = NothingRead
    BY <1>1, <2>1, IdleShape DEF ReadsToShip
  <2>4. ReadsToShip'
    BY <1>1, <2>1, <2>3 DEF ReadsToShip, Placed, Begun, Only
  <2>5. QED
    BY <1>0, <1>1, <1>6, <2>1, <2>2, <2>4 DEF FundsInv, TypeOK
<1>10. ASSUME NEW p \in Procs, Continue(p) PROVE FundsInv'
  <2>1. /\ procs[p].pc # "idle"
        /\ OnlyRow(procs[p].order)
        /\ \/ UNCHANGED ledger
           \/ AppendEntry("capture", -procs[p].charge, CaptureKey(procs[p].order))
        /\ \/ Only(p) /\ procs[p].pc # "ship" /\ procs'[p].pc # "ship" /\ UNCHANGED funds
           \/ Only(p) /\ procs'[p].pc # "ship" /\ Forgets(p)
           \/ ReadBalance(p) \/ ReadHeld(p)
    BY <1>0, <1>1, <1>10, ContinueEffect
  <2>2. procs[p].order \in Orders /\ procs[p].charge \in Nat
    BY <1>0, <2>1, Working
  <2>3. FewPlaced'
    BY <1>7, <2>1, <2>2
  <2>4. NeverOverdrawn'
    <3>1. CASE UNCHANGED ledger
      BY <1>6, <3>1
    <3>2. CASE AppendEntry("capture", -procs[p].charge, CaptureKey(procs[p].order))
      <4>1. CaptureKey(procs[p].order) \in Keys /\ -procs[p].charge \in Int
        BY <2>2 DEF Keys
      <4>2. QED
        BY <1>1, <1>3, <1>4, <3>2, <4>1, AppendBalance
    <3>3. QED
      BY <2>1, <3>1, <3>2
  <2>5. funds' \in [Procs -> Sum] /\ ReadsToShip'
    <3>1. CASE Only(p) /\ procs[p].pc # "ship" /\ procs'[p].pc # "ship" /\ UNCHANGED funds
      BY <1>1, <3>1 DEF ReadsToShip, Only
    <3>2. CASE Only(p) /\ procs'[p].pc # "ship" /\ Forgets(p)
      BY <1>1, <1>2, <3>2 DEF ReadsToShip, Only, Forgets
    <3>3. CASE ReadBalance(p) \/ ReadHeld(p)
      <4>1. /\ procs[p].pc = "ship" /\ UNCHANGED procs
            /\ \A q \in Procs : q # p => funds'[q] = funds[q]
            /\ \/ funds'[p] = [balance |-> GetBalance, held |-> funds[p].held]
               \/ funds'[p] = [balance |-> funds[p].balance, held |-> Held]
            /\ funds' = [funds EXCEPT ![p] = funds'[p]]
        BY <1>0, <1>1, <3>3, ReadsEffect
      <4>2. funds[p].balance \in Nat \cup {Unread} /\ funds[p].held \in Nat \cup {Unread}
        BY <1>1
      <4>3. funds'[p] \in Sum
        BY <1>5, <4>1, <4>2
      <4>4. QED
        BY <1>1, <4>1, <4>3 DEF ReadsToShip
    <3>4. QED
      BY <2>1, <3>1, <3>2, <3>3
  <2>6. QED
    BY <1>0, <2>3, <2>4, <2>5 DEF FundsInv, TypeOK
<1>11. ASSUME NEW p \in Procs, (\E t \in TopUps : Deposit(p, t)) \/ (\E a \in Adjustments : Adjust(p, a))
       PROVE  FundsInv'
  <2>1. UNCHANGED <<orders, procs, funds>>
    BY <1>11 DEF Deposit, Adjust
  <2>2. PICK type \in EntryTypes, amount \in Int, k \in Keys : AppendEntry(type, amount, k)
    BY <1>4, <1>11, AmountsAssumption DEF Deposit, Adjust, Keys
  <2>3. NeverOverdrawn'
    BY <1>1, <1>3, <2>2, AppendBalance
  <2>4. QED
    BY <1>0, <1>1, <1>8, <2>1, <2>3 DEF FundsInv, TypeOK, ReadsToShip
<1>12. ASSUME NEW p \in Procs, Fail(p) PROVE FundsInv'
  <2>1. /\ funds' = [funds EXCEPT ![p] = NothingRead] /\ UNCHANGED <<ledger, orders>>
        /\ Leaves(p)
    BY <1>0, <1>12, DoneLeaves DEF Fail
  <2>2. funds' \in [Procs -> Sum] /\ ReadsToShip'
    BY <1>1, <1>2, <2>1 DEF ReadsToShip, Leaves, Only
  <2>3. QED
    BY <1>0, <1>6, <1>8, <2>1, <2>2 DEF FundsInv, TypeOK
<1>13. CASE UNCHANGED vars
  BY <1>0, <1>1, <1>6, <1>8, <1>13 DEF vars, FundsInv, TypeOK, ReadsToShip
<1>14. QED
  BY <1>9, <1>10, <1>11, <1>12, <1>13 DEF Next

LEMMA FundsHold == Spec => []FundsInv
<1>1. Init => FundsInv
  <2> SUFFICES ASSUME Init PROVE FundsInv
    OBVIOUS
  <2>1. ShapeOK
    BY IdleShape DEF Init, ShapeOK
  <2>2. TypeOK /\ ReadsToShip /\ NeverOverdrawn
    BY <2>1 DEF Init, TypeOK, NothingRead, ReadsToShip, NeverOverdrawn
  <2>3. {o \in Orders : orders[o].status # "absent"} = {}
    BY DEF Init, Absent
  <2>4. QED
    BY <2>2, <2>3, FS_EmptySet DEF FundsInv, FewPlaced
<1>2. IInv /\ FundsInv /\ [Next]_vars => FundsInv'
  BY FundsStep DEF IInv
<1>3. QED
  BY <1>1, <1>2, Invariance, PTL DEF Spec

\* Rows, requests and what they have read of the wallet keep their types: the balance and the
\* held sum that a ship request decides on are never negative (wallet.ts:23-39).
THEOREM FundsTyped == Spec => []TypeOK
BY FundsHold, PTL DEF FundsInv

-----------------------------------------------------------------------------

mcVars == <<vars, scenario>>

LEMMA OrderlyIsNext == MCNext => Next
<1>1. OrderlyNext => Next
  BY DEF OrderlyNext, Next
<1>2. QED
  BY <1>1 DEF MCNext

\* A request that takes its next step is not where it was.
LEMMA ContinueMoves ==
    ASSUME FundsInv, NEW p \in Procs, Continue(p)
    PROVE  procs'[p] # procs[p] \/ funds'[p] # funds[p]
<1>0. ShapeOK /\ funds \in [Procs -> [balance: Nat \cup {Unread}, held: Nat \cup {Unread}]]
      /\ FewPlaced /\ NeverOverdrawn
  BY DEF FundsInv, TypeOK
<1>1. procs'[p].pc # procs[p].pc \/ ReadBalance(p) \/ ReadHeld(p)
  BY <1>0, ContinueEffect
<1>2. CASE ReadBalance(p) \/ ReadHeld(p)
  <2>1. GetBalance \in Nat /\ Held \in Nat
    BY <1>0, BalanceTyped, HeldCovers DEF ShapeOK
  <2>2. \/ funds[p].balance = Unread /\ funds'[p] = [balance |-> GetBalance, held |-> funds[p].held]
        \/ funds[p].held = Unread /\ funds'[p] = [balance |-> funds[p].balance, held |-> Held]
    BY <1>0, <1>2, ReadsEffect
  <2>3. QED
    BY <2>1, <2>2, UnreadAssumption
<1>3. QED
  BY <1>1, <1>2

\* What a step of the orderly scenarios is.
Turn(p) ==
    \/ \E o \in Orders : Arrive(p, o) /\ procs'[p].via # "heal"
    \/ /\ Continue(p)
       /\ CaptureThrows(p) => Capture(p) \/ AppendThrows(-procs[p].charge, CaptureKey(procs[p].order))
    \/ \E t \in TopUps : Deposit(p, t)

LEMMA OrderlyTurn ==
    ASSUME MCNext, scenario # "any"
    PROVE  /\ \E p \in Procs : Turn(p)
           /\ scenario = "queue" => Queue
           /\ scenario = "shipnotify" => Shipnotify
           /\ scenario \in {"queue", "shipnotify"} /\ scenario' = scenario
BY DEF MCNext, OrderlyNext, Turn

\* In the queue the step belongs to the one who is at work.
LEMMA QueueTurn ==
    ASSUME FundsInv, Alone, MCNext, scenario = "queue"
    PROVE  \E p \in Procs : Turn(p) /\ \A q \in Procs : q # p => procs[q] = Idle
<1>1. PICK p \in Procs : Turn(p)
  BY OrderlyTurn
<1>2. CASE Continue(p)
  <2>1. procs[p] # Idle
    <3>1. procs[p].pc # "idle"
      BY <1>2, ContinueEffect DEF FundsInv, TypeOK
    <3>2. QED
      BY <3>1, IdleShape
  <2>2. QED
    BY <1>1, <2>1 DEF Alone
<1>3. CASE ~Continue(p)
  <2>1. ASSUME NEW q \in Procs, q # p, procs[q] # Idle PROVE FALSE
    <3>1. Continue(q)
      BY <2>1, OrderlyTurn DEF Queue
    <3>2. procs'[q] # procs[q] \/ funds'[q] # funds[q]
      BY <3>1, ContinueMoves
    <3>3. CASE \E o \in Orders : Arrive(p, o)
      <4>1. PICK o \in Orders : Arrive(p, o)
        BY <3>3
      <4>2. UNCHANGED funds /\ (Placed(o) \/ Begun(p, o))
        BY <4>1, ArriveEffect DEF FundsInv, TypeOK
      <4>3. QED
        BY <2>1, <3>2, <4>2 DEF Placed, Begun, Only
    <3>4. CASE \E t \in TopUps : Deposit(p, t)
      BY <3>2, <3>4 DEF Deposit
    <3>5. QED
      BY <1>1, <1>3, <3>3, <3>4 DEF Turn
  <2>2. QED
    BY <1>1, <2>1
<1>4. QED
  BY <1>2, <1>3

LEMMA DepositEffect ==
    ASSUME ShapeOK, NEW p \in Procs, NEW t \in TopUps, Deposit(p, t)
    PROVE  /\ procs[p] = Idle
           /\ UNCHANGED <<orders, procs, funds>>
           /\ UNCHANGED GetBalance \/ GetBalance' = GetBalance + TopUpAmount
           /\ \A o : Booked(CaptureKey(o))' <=> Booked(CaptureKey(o))
<1>1. /\ procs[p] = Idle /\ UNCHANGED <<orders, procs, funds>>
      /\ AppendEntry("deposit", TopUpAmount, TopUpKey(t))
  BY DEF Deposit, OneTransaction
<1>2. /\ ledger \in Seq(Entry(Keys)) /\ "deposit" \in EntryTypes /\ TopUpAmount \in Int
      /\ TopUpKey(t) \in Keys
  BY AmountsAssumption DEF ShapeOK, EntryTypes, Keys
<1>3. UNCHANGED GetBalance \/ GetBalance' = GetBalance + TopUpAmount
  BY <1>1, <1>2, AppendBalance
<1>4. ASSUME NEW o PROVE Booked(CaptureKey(o))' <=> Booked(CaptureKey(o))
  <2>1. CaptureKey(o) # TopUpKey(t)
    BY DEF CaptureKey, TopUpKey
  <2>2. \A x : Booked(x)' <=> Booked(x) \/ (x = TopUpKey(t) /\ (Booked(TopUpKey(t)) \/ ~Duplicate(TopUpKey(t))))
    BY <1>1, <1>2, AppendBooks
  <2>3. QED
    BY <2>1, <2>2
<1>5. QED
  BY <1>1, <1>3, <1>4

\* Who ships, and how it is shipped.
LEMMA WaysStep ==
    ASSUME FundsInv, WaysInv, MCNext
    PROVE  WaysInv'
<1> SUFFICES ASSUME scenario # "any" PROVE Ways' /\ (scenario = "shipnotify" => NotifyWays')
  BY OrderlyTurn DEF WaysInv, MCNext
<1>0. ShapeOK /\ FewPlaced /\ Ways /\ (scenario = "shipnotify" => NotifyWays)
  BY DEF FundsInv, TypeOK, WaysInv
<1>1. PICK p \in Procs : Turn(p)
  BY OrderlyTurn
<1>2. scenario = "shipnotify" => \A q \in Procs : procs'[q].via \notin {"edit", "remap", "admin", "deliver"}
  BY OrderlyTurn DEF Shipnotify
<1> DEFINE Good(q) == /\ procs'[q].pc # "heal"
                      /\ procs'[q].pc \in {"ship", "capture"} => procs'[q].via \in {"notify", "admin"}
                      /\ procs'[q].pc = "flag" => procs'[q].via = "notify"
                      /\ procs'[q].pc = "ship" => ~procs'[q].captured
                      /\ scenario = "shipnotify" => procs'[q].pc \in {"idle", "cancel", "ship", "capture", "flag"}
<1>3. \A q \in Procs : procs'[q] = procs[q] => Good(q)
  BY <1>0 DEF Ways, NotifyWays
<1>4. Idle.pc = "idle"
  BY IdleShape
<1>5. CASE \E o \in Orders : Arrive(p, o) /\ procs'[p].via # "heal"
  <2>1. PICK o \in Orders : (Placed(o) \/ Begun(p, o)) /\ procs'[p].via # "heal"
    BY <1>0, <1>5, ArriveEffect
  <2>2. CASE Placed(o)
    BY <1>2, <1>3, <2>2 DEF Placed, Ways, NotifyWays
  <2>3. CASE Begun(p, o)
    <3>1. Good(p)
      BY <1>2, <2>1, <2>3 DEF Begun
    <3>2. \A q \in Procs : Good(q)
      BY <1>3, <2>3, <3>1 DEF Begun, Only
    <3>3. QED
      BY <1>2, <3>2 DEF Ways, NotifyWays
  <2>4. QED
    BY <2>1, <2>2, <2>3
<1>6. CASE Continue(p)
  <2>1. (Good(p) /\ Only(p)) \/ procs' = procs
    <3>1. CASE EditDecide(p)
      BY <1>0, <3>1, EditDecideEffect DEF Goes, NotifyWays
    <3>2. CASE EditWrite(p)
      BY <1>0, <1>4, <3>2, EditWriteEffect DEF Goes, Leaves, NotifyWays
    <3>3. CASE RemapDecide(p)
      BY <1>0, <3>3, RemapDecideEffect DEF Goes, NotifyWays
    <3>4. CASE RemapWrite(p)
      BY <1>0, <1>4, <3>4, RemapWriteEffect DEF Leaves
    <3>5. CASE CancelCommit(p)
      BY <1>0, <1>4, <3>5, CancelEffect DEF Leaves
    <3>6. CASE ReadBalance(p) \/ ReadHeld(p)
      BY <3>6 DEF ReadBalance, ReadHeld
    <3>7. CASE ShipRefused(p)
      BY <1>0, <1>4, <3>7, RefusedEffect DEF Leaves
    <3>8. CASE ShipGate(p)
      BY <1>0, <1>4, <3>8, ShipGateEffect DEF Leaves, Goes, Forgets, Ways
    <3>9. CASE Capture(p) \/ CaptureThrows(p)
      BY <1>0, <1>4, <3>9, CaptureEffect DEF Leaves, Goes
    <3>10. CASE FlagCapture(p)
      BY <1>0, <1>4, <3>10, FlagEffect DEF Leaves
    <3>11. CASE DeliverCommit(p)
      BY <1>0, <1>4, <3>11, DeliverEffect DEF Leaves
    <3>12. CASE HealCommit(p)
      BY <1>0, <3>12 DEF HealCommit, Ways
    <3>13. QED
      BY <1>6, <3>1, <3>2, <3>3, <3>4, <3>5, <3>6, <3>7, <3>8, <3>9, <3>10, <3>11, <3>12
         DEF Continue
  <2>2. \A q \in Procs : Good(q)
    BY <1>3, <2>1 DEF Only
  <2>3. QED
    BY <1>2, <2>2 DEF Ways, NotifyWays
<1>7. CASE \E t \in TopUps : Deposit(p, t)
  <2>1. \A q \in Procs : Good(q)
    BY <1>3, <1>7 DEF Deposit
  <2>2. QED
    BY <1>2, <2>1 DEF Ways, NotifyWays
<1>8. QED
  BY <1>1, <1>5, <1>6, <1>7 DEF Turn

-----------------------------------------------------------------------------

\* An order that is open reserves what reservedSelf says.
LEMMA OpenReserves ==
    ASSUME NEW order
    PROVE  /\ order.status \in PreShip => Reserves(order) = ReservedSelf(order)
           /\ order.status \notin PreShip => Reserves(order) = 0
BY DEF Reserves, ReservedSelf

LEMMA IdleRelies ==
    ASSUME NEW p \in Procs
    PROVE  (procs[p].pc \in {"idle", "flag", "deliver"} => Relies(p))
           /\ (procs'[p].pc \in {"idle", "flag", "deliver"} => Relies(p)')
BY DEF Relies

\* Alone, a request finds the wallet and its order as it left them.
LEMMA QueueStep ==
    ASSUME FundsInv, StaysShipped, WaysInv, WaysInv', QueueInv, scenario = "queue", MCNext
    PROVE  QueueInv' /\ (TopUpAmount \in Nat /\ Backed => Backed')
<1>0. /\ ShapeOK /\ ShapeOK' /\ FewPlaced /\ NeverOverdrawn /\ ReadsToShip
      /\ funds \in [Procs -> [balance: Nat \cup {Unread}, held: Nat \cup {Unread}]]
      /\ Ways /\ Ways'
      /\ Alone /\ \A p \in Procs : Relies(p)
  BY ShapeStep, OrderlyIsNext, OrderlyTurn DEF FundsInv, TypeOK, WaysInv, QueueInv
<1>1. PICK p \in Procs : Turn(p) /\ \A q \in Procs : q # p => procs[q] = Idle
  BY <1>0, QueueTurn
<1>2. GetBalance \in Nat /\ Held \in Nat
  BY <1>0, BalanceTyped, HeldCovers DEF ShapeOK
<1>3. Idle.pc = "idle"
  BY IdleShape
<1> DEFINE Fine == Relies(p)' /\ (TopUpAmount \in Nat /\ Backed => Backed')
<1>4. ASSUME Only(p) \/ UNCHANGED procs, Relies(p)' PROVE QueueInv'
  <2>1. \A q \in Procs : q # p => procs'[q] = Idle
    BY <1>1, <1>4 DEF Only
  <2>2. Alone'
    BY <2>1 DEF Alone
  <2>3. \A q \in Procs : Relies(q)'
    BY <1>3, <1>4, <2>1, IdleRelies
  <2>4. QED
    BY <2>2, <2>3 DEF QueueInv
<1>5. /\ UNCHANGED orders => UNCHANGED Held
      /\ UNCHANGED ledger => UNCHANGED GetBalance
  <2>1. UNCHANGED orders => UNCHANGED Held
    BY HeldIs DEF Reserving
  <2>2. UNCHANGED ledger => UNCHANGED GetBalance
    BY DEF GetBalance
  <2>3. QED
    BY <2>1, <2>2
<1>6. Backed /\ procs[p].pc # "capture" => Held <= GetBalance
  BY <1>1, <1>3 DEF Backed, Alone
<1>7. ASSUME NEW o \in Orders, OnlyRow(o)
      PROVE  /\ Held' = Held - Reserves(orders[o]) + Reserves(orders'[o])
             /\ Reserves(orders[o]) \in Nat /\ Reserves(orders'[o]) \in Nat
             /\ Reserves(orders[o]) <= Held
             /\ Held' \in Nat
  <2>1. /\ Held' = Held - Reserves(orders[o]) + Reserves(orders'[o])
        /\ Reserves(orders'[o]) \in Nat
    BY <1>0, <1>7, HeldMoves
  <2>2. Reserves(orders[o]) \in Nat /\ Reserves(orders[o]) <= Held
    BY <1>0, HeldCovers
  <2>3. QED
    BY <1>2, <2>1, <2>2
<1>8. CASE \E o \in Orders : Arrive(p, o) /\ procs'[p].via # "heal"
  <2>1. PICK o \in Orders : /\ procs[p] = Idle
                            /\ UNCHANGED <<ledger, funds>>
                            /\ Placed(o) \/ Begun(p, o)
                            /\ procs'[p].via # "heal"
    BY <1>0, <1>8, ArriveEffect
  <2>2. CASE Placed(o)
    <3>1. Relies(p)'
      BY <1>3, <2>1, <2>2, IdleRelies DEF Placed
    <3>2. Reserves(orders[o]) = 0
      BY <2>2 DEF Placed, Reserves, PreShip
    <3>3. Reserves(orders'[o]) <= GetBalance - Held \/ Reserves(orders'[o]) = 0
      BY <2>2 DEF Placed, Reserves
    <3>4. Held <= GetBalance => Held' <= GetBalance'
      BY <1>2, <1>5, <1>7, <2>1, <2>2, <3>2, <3>3 DEF Placed
    <3>5. Backed => Backed'
      BY <1>3, <1>6, <2>1, <3>4 DEF Backed
    <3>6. QED
      BY <1>4, <2>2, <3>1, <3>5 DEF Placed
  <2>3. CASE Begun(p, o)
    <3>1. funds[p] = NothingRead
      BY <1>0, <1>3, <2>1 DEF ReadsToShip
    <3>2. Relies(p)'
      BY <1>5, <2>1, <2>3, <3>1 DEF Relies, Begun, NothingRead, ReservedSelf
    <3>3. Backed => Backed'
      BY <1>3, <1>5, <1>6, <2>1, <2>3 DEF Backed, Begun
    <3>4. QED
      BY <1>4, <2>3, <3>2, <3>3 DEF Begun
  <2>4. QED
    BY <2>1, <2>2, <2>3
<1>9. CASE Continue(p) /\ (CaptureThrows(p) => Capture(p) \/ AppendThrows(-procs[p].charge, CaptureKey(procs[p].order)))
  <2> DEFINE r == procs[p]
             o == procs[p].order
  <2>0. /\ procs[p].pc # "idle" /\ o \in Orders /\ procs[p].charge \in Nat
        /\ Relies(p)
    BY <1>0, <1>9, ContinueEffect, Working
  <2>1. CASE EditDecide(p)
    <3>1. /\ procs[p].pc = "edit" /\ Goes(p, "editWrite")
          /\ procs'[p].charge = procs[p].charge
          /\ procs[p].blocker # "awaiting_funds" =>
               /\ procs'[p].blocker = "none"
                    => GetBalance - Held + procs[p].own >= procs[p].charge
               /\ procs'[p].blocker = "awaiting_funds"
                    => ~(GetBalance - Held + procs[p].own >= procs[p].charge)
          /\ UNCHANGED <<ledger, orders, funds>>
      BY <1>0, <2>1, EditDecideEffect
    <3>2. /\ procs[p].own = ReservedSelf(orders[o]) /\ procs[p].blocker # "awaiting_funds"
          /\ orders[o].status \in PreShip
      BY <2>0, <3>1 DEF Relies
    <3>3. ReservedSelf(orders[o]) \in Nat
      BY <1>0, <2>0, <3>2, HeldCovers, OpenReserves
    <3>4. Relies(p)'
      BY <1>2, <1>5, <2>0, <3>1, <3>2, <3>3 DEF Relies, Goes, ReservedSelf
    <3>5. Backed => Backed'
      BY <1>5, <1>6, <3>1 DEF Backed
    <3>6. QED
      BY <1>4, <3>1, <3>4, <3>5 DEF Goes
  <2>2. CASE EditWrite(p)
    <3>1. /\ procs[p].pc = "editWrite"
          /\ OnlyRow(o) /\ orders'[o].status = orders[o].status
          /\ orders'[o].charge = procs[p].charge /\ orders'[o].blocker = procs[p].blocker
          /\ Leaves(p) \/ (Goes(p, "remapEnd") /\ procs[p].via = "remap")
          /\ UNCHANGED <<ledger, funds>>
      BY <1>0, <2>2, EditWriteEffect
    <3>2. /\ orders[o].status \in PreShip
          /\ procs[p].blocker = "none" => GetBalance - Held + ReservedSelf(orders[o]) >= procs[p].charge
      BY <2>0, <3>1 DEF Relies
    <3>3. Relies(p)'
      BY <1>3, <3>1, <3>2 DEF Relies, Goes, Leaves
    <3>4. Reserves(orders[o]) = ReservedSelf(orders[o])
      BY <3>2, OpenReserves
    <3>5. Reserves(orders'[o]) = 0 \/ Reserves(orders'[o]) <= GetBalance - Held + Reserves(orders[o])
      BY <3>1, <3>2, <3>4 DEF Reserves
    <3>6. Held <= GetBalance => Held' <= GetBalance'
      BY <1>2, <1>5, <1>7, <2>0, <3>1, <3>5
    <3>7. Backed => Backed'
      BY <1>6, <3>1, <3>6 DEF Backed
    <3>8. QED
      BY <1>4, <3>1, <3>3, <3>7 DEF Goes, Leaves
  <2>3. CASE RemapDecide(p)
    <3>1. /\ procs[p].pc = "remapEnd" /\ Goes(p, "remapWrite")
          /\ procs'[p].blocker \in {orders[procs[p].order].blocker, "needs_mapping"}
          /\ UNCHANGED <<ledger, orders, funds>>
      BY <1>0, <2>3, RemapDecideEffect
    <3>2. orders[o].status \in PreShip
      BY <2>0, <3>1 DEF Relies
    <3>3. Relies(p)'
      BY <3>1, <3>2 DEF Relies, Goes
    <3>4. Backed => Backed'
      BY <1>5, <1>6, <3>1 DEF Backed
    <3>5. QED
      BY <1>4, <3>1, <3>3, <3>4 DEF Goes
  <2>4. CASE RemapWrite(p)
    <3>1. /\ procs[p].pc = "remapWrite"
          /\ OnlyRow(o) /\ orders'[o].status = orders[o].status
          /\ orders'[o].charge = orders[o].charge /\ orders'[o].blocker = procs[p].blocker
          /\ Leaves(p)
          /\ UNCHANGED <<ledger, funds>>
      BY <1>0, <2>4, RemapWriteEffect
    <3>2. procs[p].blocker \in {orders[o].blocker, "needs_mapping"}
      BY <2>0, <3>1 DEF Relies
    <3>3. Relies(p)'
      BY <1>3, <3>1, IdleRelies DEF Leaves
    <3>4. Reserves(orders'[o]) = 0 \/ Reserves(orders'[o]) = Reserves(orders[o])
      BY <3>1, <3>2 DEF Reserves
    <3>5. Held <= GetBalance => Held' <= GetBalance'
      BY <1>2, <1>5, <1>7, <2>0, <3>1, <3>4
    <3>6. Backed => Backed'
      BY <1>6, <3>1, <3>5 DEF Backed
    <3>7. QED
      BY <1>4, <3>1, <3>3, <3>6 DEF Leaves
  <2>5. CASE CancelCommit(p)
    <3>1. /\ procs[p].pc = "cancel"
          /\ OnlyRow(o)
          /\ \/ UNCHANGED orders
             \/ orders[o].status \in PreShip /\ orders'[o].status = "cancelled"
          /\ Leaves(p)
          /\ UNCHANGED <<ledger, funds>>
      BY <1>0, <2>5, CancelEffect
    <3>2. Relies(p)'
      BY <1>3, <3>1, IdleRelies DEF Leaves
    <3>3. Reserves(orders'[o]) = 0 \/ Reserves(orders'[o]) = Reserves(orders[o])
      BY <3>1 DEF Reserves, PreShip
    <3>4. Held <= GetBalance => Held' <= GetBalance'
      BY <1>2, <1>5, <1>7, <2>0, <3>1, <3>3
    <3>5. Backed => Backed'
      BY <1>6, <3>1, <3>4 DEF Backed
    <3>6. QED
      BY <1>4, <3>1, <3>2, <3>5 DEF Leaves
  <2>6. CASE ReadBalance(p) \/ ReadHeld(p)
    <3>1. /\ procs[p].pc = "ship"
          /\ UNCHANGED <<ledger, orders, procs>>
          /\ \/ /\ funds[p].balance = Unread /\ funds'[p].held = funds[p].held
                /\ funds'[p] = [balance |-> GetBalance, held |-> funds[p].held]
             \/ /\ funds[p].held = Unread /\ funds'[p].balance = funds[p].balance
                /\ funds'[p] = [balance |-> funds[p].balance, held |-> Held]
      BY <1>0, <2>6, ReadsEffect
    <3>2. funds'[p].balance \in {funds[p].balance, GetBalance} /\ funds'[p].held \in {funds[p].held, Held}
      BY <3>1
    <3>3. Relies(p)'
      BY <1>5, <2>0, <3>1, <3>2 DEF Relies, ReservedSelf
    <3>4. Backed => Backed'
      BY <1>5, <1>6, <3>1 DEF Backed
    <3>5. QED
      BY <1>4, <3>1, <3>3, <3>4
  <2>7. CASE ShipRefused(p)
    <3>1. Forgets(p) /\ Leaves(p) /\ UNCHANGED <<ledger, orders>>
      BY <1>0, <2>7, RefusedEffect
    <3>2. Relies(p)'
      BY <1>3, <3>1, IdleRelies DEF Leaves
    <3>3. Backed => Backed'
      BY <1>5, <1>6, <3>1 DEF Backed, Forgets
    <3>4. QED
      BY <1>4, <3>1, <3>2, <3>3 DEF Leaves
  <2>8. CASE ShipGate(p)
    <3>1. /\ Forgets(p)
          /\ OnlyRow(o)
          /\ UNCHANGED ledger
          /\ \/ orders[o].status \notin PreShip /\ UNCHANGED orders /\ Leaves(p)
             \/ /\ orders[o].status \in PreShip
                /\ orders'[o].status = "shipped" /\ orders'[o].charge = orders[o].charge
                /\ orders'[o].blocker = (IF procs[p].via = "admin" THEN "none" ELSE orders[o].blocker)
                /\ procs'[p].charge = orders[o].charge
                /\ procs'[p].captured = procs[p].captured
                /\ \/ FundsOk(p) /\ Goes(p, "capture")
                   \/ ~FundsOk(p) /\ procs[p].via # "admin" /\ Goes(p, "flag")
      BY <1>0, <2>8, ShipGateEffect
    <3>2. /\ orders[o].status \in PreShip
          /\ procs[p].charge = orders[o].charge /\ procs[p].own = ReservedSelf(orders[o])
          /\ funds[p].balance = GetBalance /\ funds[p].held = Held
      BY <2>0, <3>1 DEF Relies, Forgets
    <3>3. Reserves(orders[o]) = procs[p].own /\ Reserves(orders'[o]) = 0
      BY <3>1, <3>2, OpenReserves DEF PreShip
    <3>4. Held' = Held - procs[p].own /\ procs[p].own \in Nat
      BY <1>2, <1>7, <2>0, <3>1, <3>3
    <3>5. GetBalance' = GetBalance
      BY <1>5, <3>1
    <3>6. FundsOk(p) => Held' + procs[p].charge <= GetBalance'
      BY <1>2, <2>0, <3>2, <3>4, <3>5 DEF FundsOk
    <3>7. Relies(p)'
      BY <3>1, <3>2, <3>6 DEF Relies, Goes
    <3>8. Held <= GetBalance => Held' <= GetBalance'
      BY <1>2, <3>4, <3>5
    <3>9. procs[p].pc # "capture"
      BY <3>1 DEF Forgets
    <3>10. Backed => Backed'
      BY <1>6, <3>8, <3>9 DEF Backed
    <3>11. QED
      BY <1>4, <3>1, <3>2, <3>7, <3>10 DEF Goes
  <2>9. CASE Capture(p) \/ CaptureThrows(p)
    <3>1. /\ procs[p].pc = "capture"
          /\ UNCHANGED <<orders, funds>>
          /\ \/ /\ Capture(p)
                /\ AppendEntry("capture", -procs[p].charge, CaptureKey(procs[p].order))
             \/ CaptureThrows(p) /\ UNCHANGED ledger
          /\ \/ /\ procs[p].via = "notify" /\ Goes(p, "flag")
                /\ (procs'[p].captured <=> Capture(p))
             \/ procs[p].via # "notify" /\ Leaves(p)
      BY <1>0, <2>9, CaptureEffect
    <3>2. Held + procs[p].charge <= GetBalance
      BY <2>0, <3>1 DEF Relies
    <3>3. Relies(p)'
      BY <1>3, <3>1, IdleRelies DEF Goes, Leaves
    <3>4. Held' <= GetBalance'
      <4>1. CASE UNCHANGED ledger
        BY <1>2, <1>5, <2>0, <3>1, <3>2, <4>1
      <4>2. CASE AppendEntry("capture", -procs[p].charge, CaptureKey(procs[p].order))
        <5>1. /\ ledger \in Seq(Entry(Keys)) /\ "capture" \in EntryTypes
              /\ -procs[p].charge \in Int /\ CaptureKey(o) \in Keys
          BY <1>0, <2>0 DEF ShapeOK, EntryTypes, Keys
        <5>2. GetBalance' = GetBalance \/ GetBalance' = GetBalance + (-procs[p].charge)
          BY <4>2, <5>1, AppendBalance
        <5>3. QED
          BY <1>2, <1>5, <2>0, <3>1, <3>2, <5>2
      <4>3. QED
        BY <3>1, <4>1, <4>2
    <3>5. Backed'
      BY <3>4 DEF Backed
    <3>6. QED
      BY <1>4, <3>1, <3>3, <3>5 DEF Goes, Leaves
  <2>10. CASE FlagCapture(p)
    <3>1. /\ procs[p].pc = "flag"
          /\ OnlyRow(o) /\ orders'[o].status = orders[o].status
          /\ Leaves(p)
          /\ UNCHANGED <<ledger, funds>>
      BY <1>0, <2>10, FlagEffect
    <3>2. Relies(p)'
      BY <1>3, <3>1, IdleRelies DEF Leaves
    <3>3. orders[o].status \in PostShip
      BY <3>1 DEF StaysShipped
    <3>4. Reserves(orders'[o]) = 0 /\ Reserves(orders[o]) = 0
      BY <3>1, <3>3 DEF Reserves, PreShip, PostShip
    <3>5. Held <= GetBalance => Held' <= GetBalance'
      BY <1>2, <1>5, <1>7, <2>0, <3>1, <3>4
    <3>6. Backed => Backed'
      BY <1>6, <3>1, <3>5 DEF Backed
    <3>7. QED
      BY <1>4, <3>1, <3>2, <3>6 DEF Leaves
  <2>11. CASE DeliverCommit(p)
    <3>1. /\ procs[p].pc = "deliver"
          /\ OnlyRow(o) /\ orders'[o].status = "delivered"
          /\ Leaves(p)
          /\ UNCHANGED <<ledger, funds>>
      BY <1>0, <2>11, DeliverEffect
    <3>2. Relies(p)'
      BY <1>3, <3>1, IdleRelies DEF Leaves
    <3>3. Reserves(orders'[o]) = 0
      BY <3>1 DEF Reserves, PreShip
    <3>4. Held <= GetBalance => Held' <= GetBalance'
      BY <1>2, <1>5, <1>7, <2>0, <3>1, <3>3
    <3>5. Backed => Backed'
      BY <1>6, <3>1, <3>4 DEF Backed
    <3>6. QED
      BY <1>4, <3>1, <3>2, <3>5 DEF Leaves
  <2>12. CASE HealCommit(p)
    BY <1>0, <2>12 DEF HealCommit, Ways
  <2>13. QED
    BY <1>9, <2>1, <2>2, <2>3, <2>4, <2>5, <2>6, <2>7, <2>8, <2>9, <2>10, <2>11, <2>12
       DEF Continue
<1>10. CASE \E t \in TopUps : Deposit(p, t)
  <2>1. /\ procs[p] = Idle
        /\ UNCHANGED <<orders, procs, funds>>
        /\ UNCHANGED GetBalance \/ GetBalance' = GetBalance + TopUpAmount
    BY <1>0, <1>10, DepositEffect
  <2>2. Relies(p)'
    BY <1>3, <2>1, IdleRelies
  <2>3. TopUpAmount \in Nat /\ Backed => Backed'
    BY <1>2, <1>3, <1>5, <1>6, <2>1 DEF Backed
  <2>4. QED
    BY <1>4, <2>1, <2>2, <2>3
<1>11. QED
  BY <1>1, <1>8, <1>9, <1>10 DEF Turn

-----------------------------------------------------------------------------

\* A step aside of the ship gate: who is past it stays as he is, and so does what he shipped.
LEMMA FlagAside ==
    ASSUME ShapeOK, FlagInv, scenario # "any",
           \A q \in Procs : procs'[q] = procs[q] \/ (~PastGate(q) /\ ~PastGate(q)'),
           \A x \in Orders : orders'[x].status \in PostShip => orders[x].status \in PostShip,
           \A x \in Orders : orders[x].status \in PostShip => orders'[x].blocker = orders[x].blocker,
           \A x \in Orders : Booked(CaptureKey(x))' <=> Booked(CaptureKey(x)),
           StaysShipped
    PROVE  FlagInv'
<1> SUFFICES ASSUME NEW x \in Orders
             PROVE  /\ orders'[x].status \in PostShip
                         => Told(x)' \/ \E q \in Procs : PastGate(q)' /\ procs'[q].order = x
                    /\ \A q \in Procs : procs'[q].order = x =>
                         /\ procs'[q].pc = "capture" =>
                              /\ ~Booked(CaptureKey(x))'
                              /\ procs'[q].via = "admin" => orders'[x].blocker = "none"
                         /\ procs'[q].pc = "flag" => (procs'[q].captured <=> Booked(CaptureKey(x))')
  BY DEF FlagInv
<1>1. ASSUME orders'[x].status \in PostShip
      PROVE  Told(x)' \/ \E q \in Procs : PastGate(q)' /\ procs'[q].order = x
  <2>1. orders[x].status \in PostShip /\ orders'[x].blocker = orders[x].blocker
    BY <1>1
  <2>2. CASE Told(x)
    BY <2>1, <2>2 DEF Told
  <2>3. CASE \E q \in Procs : PastGate(q) /\ procs[q].order = x
    <3>1. PICK q \in Procs : PastGate(q) /\ procs[q].order = x
      BY <2>3
    <3>2. PastGate(q)' /\ procs'[q].order = x
      BY <3>1 DEF PastGate
    <3>3. QED
      BY <3>2
  <2>4. QED
    BY <2>1, <2>2, <2>3 DEF FlagInv
<1>2. ASSUME NEW q \in Procs, procs'[q].order = x, procs'[q].pc \in {"capture", "flag"}
      PROVE  /\ procs'[q].pc = "capture" =>
                  /\ ~Booked(CaptureKey(x))'
                  /\ procs'[q].via = "admin" => orders'[x].blocker = "none"
             /\ procs'[q].pc = "flag" => (procs'[q].captured <=> Booked(CaptureKey(x))')
  <2>1. procs'[q] = procs[q]
    BY <1>2 DEF PastGate
  <2>2. orders[x].status \in PostShip
    BY <1>2, <2>1 DEF StaysShipped
  <2>3. orders'[x].blocker = orders[x].blocker /\ (Booked(CaptureKey(x))' <=> Booked(CaptureKey(x)))
    BY <2>2
  <2>4. QED
    BY <1>2, <2>1, <2>3 DEF FlagInv
<1>3. QED
  BY <1>1, <1>2

\* A step of a request that gets past the gate, or leaves with what it shipped told.
LEMMA FlagBeyond ==
    ASSUME ShapeOK, FlagInv, StaysShipped, SingleShipper, scenario # "any",
           NEW p \in Procs, NEW o \in Orders, procs[p].order = o, Only(p), OnlyRow(o),
           PastGate(p) \/ orders[o].status \notin PostShip,
           \A x \in Orders : x # o => (Booked(CaptureKey(x))' <=> Booked(CaptureKey(x))),
           \/ PastGate(p)' /\ procs'[p].order = o
           \/ ~PastGate(p)' /\ Told(o)',
           procs'[p].pc = "capture" =>
                /\ ~Booked(CaptureKey(o))'
                /\ procs'[p].via = "admin" => orders'[o].blocker = "none",
           procs'[p].pc = "flag" => (procs'[p].captured <=> Booked(CaptureKey(o))')
    PROVE  FlagInv'
<1> SUFFICES ASSUME NEW x \in Orders
             PROVE  /\ orders'[x].status \in PostShip
                         => Told(x)' \/ \E q \in Procs : PastGate(q)' /\ procs'[q].order = x
                    /\ \A q \in Procs : procs'[q].order = x =>
                         /\ procs'[q].pc = "capture" =>
                              /\ ~Booked(CaptureKey(x))'
                              /\ procs'[q].via = "admin" => orders'[x].blocker = "none"
                         /\ procs'[q].pc = "flag" => (procs'[q].captured <=> Booked(CaptureKey(x))')
  BY DEF FlagInv
<1>1. \A q \in Procs : PastGate(q) /\ procs[q].order = o => q = p
  BY DEF SingleShipper, StaysShipped, PastGate
<1>2. \A q \in Procs : q # p => procs'[q] = procs[q]
  BY DEF Only
<1>3. ASSUME NEW q \in Procs, procs'[q].order = x, procs'[q].pc \in {"capture", "flag"}
      PROVE  /\ procs'[q].pc = "capture" =>
                  /\ ~Booked(CaptureKey(x))'
                  /\ procs'[q].via = "admin" => orders'[x].blocker = "none"
             /\ procs'[q].pc = "flag" => (procs'[q].captured <=> Booked(CaptureKey(x))')
  <2>1. CASE q = p
    BY <1>3, <2>1 DEF PastGate
  <2>2. CASE q # p
    <3>1. procs'[q] = procs[q] /\ x # o
      BY <1>1, <1>2, <1>3, <2>2 DEF PastGate
    <3>2. orders'[x] = orders[x]
      BY <3>1 DEF OnlyRow
    <3>3. Booked(CaptureKey(x))' <=> Booked(CaptureKey(x))
      BY <3>1
    <3>4. QED
      BY <1>3, <3>1, <3>2, <3>3 DEF FlagInv
  <2>3. QED
    BY <2>1, <2>2
<1>4. ASSUME orders'[x].status \in PostShip
      PROVE  Told(x)' \/ \E q \in Procs : PastGate(q)' /\ procs'[q].order = x
  <2>1. CASE x = o
    BY <2>1
  <2>2. CASE x # o
    <3>1. orders'[x] = orders[x] /\ (Booked(CaptureKey(x))' <=> Booked(CaptureKey(x)))
      BY <2>2 DEF OnlyRow
    <3>2. CASE Told(x)
      BY <3>1, <3>2 DEF Told
    <3>3. CASE \E q \in Procs : PastGate(q) /\ procs[q].order = x
      <4>1. PICK q \in Procs : PastGate(q) /\ procs[q].order = x
        BY <3>3
      <4>2. PastGate(q)' /\ procs'[q].order = x
        BY <1>2, <2>2, <4>1 DEF PastGate
      <4>3. QED
        BY <4>2
    <3>4. QED
      BY <1>4, <3>1, <3>2, <3>3 DEF FlagInv
  <2>3. QED
    BY <2>1, <2>2
<1>5. QED
  BY <1>3, <1>4

\* An append for one order books no other.
LEMMA CaptureBooks ==
    ASSUME ShapeOK, NEW o \in Orders, NEW amount \in Int,
           AppendEntry("capture", amount, CaptureKey(o))
    PROVE  /\ Booked(CaptureKey(o))'
           /\ \A x : x # o => (Booked(CaptureKey(x))' <=> Booked(CaptureKey(x)))
<1>1. /\ ledger \in Seq(Entry(Keys)) /\ "capture" \in EntryTypes
      /\ CaptureKey(o) \in Keys /\ CaptureKey(o) # NoKey
  BY KeysAssumption DEF ShapeOK, EntryTypes, Keys
<1>2. \A k : Booked(k)' <=> Booked(k) \/ (k = CaptureKey(o) /\ (Booked(CaptureKey(o)) \/ ~Duplicate(CaptureKey(o))))
  BY <1>1, AppendBooks
<1>3. \A x : x # o => CaptureKey(x) # CaptureKey(o)
  BY DEF CaptureKey
<1>4. Booked(CaptureKey(o))'
  BY <1>1, <1>2 DEF Duplicate
<1>5. ASSUME NEW x, x # o PROVE Booked(CaptureKey(x))' <=> Booked(CaptureKey(x))
  BY <1>2, <1>3, <1>5
<1>6. QED
  BY <1>4, <1>5

LEMMA FlagStep ==
    ASSUME FundsInv, IInv, WaysInv, QueueInv, FlagInv, MCNext
    PROVE  FlagInv'
<1> SUFFICES ASSUME scenario # "any" PROVE FlagInv'
  BY DEF FlagInv, MCNext
<1>0. /\ ShapeOK /\ StaysShipped /\ SingleShipper /\ CaptureImpliesShipped
      /\ FewPlaced /\ NeverOverdrawn
      /\ funds \in [Procs -> [balance: Nat \cup {Unread}, held: Nat \cup {Unread}]]
      /\ Ways /\ (scenario = "shipnotify" => NotifyWays)
      /\ scenario = "queue" => \A p \in Procs : Relies(p)
      /\ scenario \in {"queue", "shipnotify"}
  BY OrderlyTurn DEF FundsInv, TypeOK, WaysInv, QueueInv, IInv
<1>1. PICK p \in Procs : Turn(p)
  BY OrderlyTurn
<1>2. /\ UNCHANGED ledger => \A x : Booked(CaptureKey(x))' <=> Booked(CaptureKey(x))
      /\ "absent" \notin PostShip /\ PreShip \cap PostShip = {} /\ "cancelled" \notin PostShip
      /\ "ready_for_fulfillment" \notin PostShip
  <2>1. UNCHANGED ledger => \A x : Booked(CaptureKey(x))' <=> Booked(CaptureKey(x))
    BY DEF Booked
  <2>2. QED
    BY <2>1 DEF PreShip, PostShip
<1>3. Idle.pc = "idle"
  BY IdleShape
<1>4. ASSUME NEW o \in Orders, OnlyRow(o), UNCHANGED ledger,
             (Only(p) /\ ~PastGate(p) /\ ~PastGate(p)') \/ UNCHANGED procs,
             orders'[o].status \in PostShip => orders[o].status \in PostShip,
             orders[o].status \in PostShip => orders'[o].blocker = orders[o].blocker
      PROVE  FlagInv'
  <2>1. \A q \in Procs : procs'[q] = procs[q] \/ (~PastGate(q) /\ ~PastGate(q)')
    BY <1>4 DEF Only
  <2>2. \A x \in Orders : /\ orders'[x].status \in PostShip => orders[x].status \in PostShip
                          /\ orders[x].status \in PostShip => orders'[x].blocker = orders[x].blocker
    BY <1>4 DEF OnlyRow
  <2>3. QED
    BY <1>0, <1>2, <1>4, <2>1, <2>2, FlagAside
<1>5. CASE \E o \in Orders : Arrive(p, o) /\ procs'[p].via # "heal"
  <2>1. PICK o \in Orders : /\ procs[p] = Idle
                            /\ UNCHANGED <<ledger, funds>>
                            /\ Placed(o) \/ Begun(p, o)
    BY <1>0, <1>5, ArriveEffect
  <2>2. CASE Placed(o)
    BY <1>2, <1>4, <2>1, <2>2 DEF Placed
  <2>3. CASE Begun(p, o)
    <3>1. ~PastGate(p) /\ ~PastGate(p)' /\ OnlyRow(o) /\ UNCHANGED orders
      BY <1>3, <2>1, <2>3 DEF Begun, PastGate, OnlyRow
    <3>2. QED
      BY <1>4, <2>1, <2>3, <3>1 DEF Begun
  <2>4. QED
    BY <2>1, <2>2, <2>3
<1>6. CASE Continue(p) /\ (CaptureThrows(p) => Capture(p) \/ AppendThrows(-procs[p].charge, CaptureKey(procs[p].order)))
  <2>0. PICK o \in Orders : o = procs[p].order /\ procs[p].charge \in Nat
    BY <1>0, <1>6, ContinueEffect, Working
  <2>1. procs[p].pc \in {"editWrite", "remapWrite"} => orders[o].status \in PreShip
    BY <1>0, <2>0 DEF Relies, NotifyWays
  <2>2. CASE EditDecide(p)
    <3>1. procs[p].pc = "edit" /\ Goes(p, "editWrite") /\ UNCHANGED <<ledger, orders>>
      BY <1>0, <2>2, EditDecideEffect
    <3>2. QED
      BY <1>4, <3>1 DEF Goes, PastGate, OnlyRow
  <2>3. CASE EditWrite(p)
    <3>1. /\ procs[p].pc = "editWrite"
          /\ OnlyRow(o) /\ orders'[o].status = orders[o].status
          /\ Leaves(p) \/ Goes(p, "remapEnd")
          /\ UNCHANGED ledger
      BY <1>0, <2>0, <2>3, EditWriteEffect
    <3>2. QED
      BY <1>2, <1>3, <1>4, <2>1, <3>1 DEF Goes, Leaves, PastGate
  <2>4. CASE RemapDecide(p)
    <3>1. procs[p].pc = "remapEnd" /\ Goes(p, "remapWrite") /\ UNCHANGED <<ledger, orders>>
      BY <1>0, <2>4, RemapDecideEffect
    <3>2. QED
      BY <1>4, <3>1 DEF Goes, PastGate, OnlyRow
  <2>5. CASE RemapWrite(p)
    <3>1. /\ procs[p].pc = "remapWrite"
          /\ OnlyRow(o) /\ orders'[o].status = orders[o].status
          /\ Leaves(p)
          /\ UNCHANGED ledger
      BY <1>0, <2>0, <2>5, RemapWriteEffect
    <3>2. QED
      BY <1>2, <1>3, <1>4, <2>1, <3>1 DEF Leaves, PastGate
  <2>6. CASE CancelCommit(p)
    <3>1. /\ procs[p].pc = "cancel"
          /\ OnlyRow(o)
          /\ \/ UNCHANGED orders
             \/ orders[o].status \in PreShip /\ orders'[o].status = "cancelled"
          /\ Leaves(p)
          /\ UNCHANGED ledger
      BY <1>0, <2>0, <2>6, CancelEffect
    <3>2. QED
      BY <1>2, <1>3, <1>4, <3>1 DEF Leaves, PastGate
  <2>7. CASE ReadBalance(p) \/ ReadHeld(p)
    <3>1. UNCHANGED <<ledger, orders, procs>>
      BY <1>0, <2>7, ReadsEffect
    <3>2. QED
      BY <1>4, <3>1 DEF OnlyRow
  <2>8. CASE ShipRefused(p)
    <3>1. procs[p].pc = "ship" /\ Leaves(p) /\ UNCHANGED <<ledger, orders>>
      BY <1>0, <2>8, RefusedEffect DEF Forgets
    <3>2. QED
      BY <1>3, <1>4, <3>1 DEF Leaves, PastGate, OnlyRow
  <2>9. CASE ShipGate(p)
    <3>1. /\ procs[p].pc = "ship"
          /\ OnlyRow(o)
          /\ UNCHANGED ledger
          /\ \/ orders[o].status \notin PreShip /\ UNCHANGED orders /\ Leaves(p)
             \/ /\ orders[o].status \in PreShip
                /\ orders'[o].blocker = (IF procs[p].via = "admin" THEN "none" ELSE orders[o].blocker)
                /\ procs'[p].captured = procs[p].captured
                /\ Goes(p, "capture") \/ Goes(p, "flag")
      BY <1>0, <2>0, <2>9, ShipGateEffect DEF Forgets
    <3>2. CASE UNCHANGED orders /\ Leaves(p)
      BY <1>3, <1>4, <3>1, <3>2 DEF Leaves, PastGate
    <3>3. CASE /\ orders[o].status \in PreShip
               /\ orders'[o].blocker = (IF procs[p].via = "admin" THEN "none" ELSE orders[o].blocker)
               /\ procs'[p].captured = procs[p].captured
               /\ Goes(p, "capture") \/ Goes(p, "flag")
      <4>1. ~Booked(CaptureKey(o))' /\ orders[o].status \notin PostShip
        BY <1>0, <1>2, <3>1, <3>3 DEF CaptureImpliesShipped
      <4>2. ~procs'[p].captured
        BY <1>0, <3>1, <3>3 DEF Ways
      <4>3. Only(p) /\ PastGate(p)' /\ procs'[p].order = o /\ procs'[p].via = procs[p].via
        BY <2>0, <3>3 DEF Goes, PastGate
      <4>4. QED
        BY <1>0, <1>2, <2>0, <3>1, <3>3, <4>1, <4>2, <4>3, FlagBeyond
    <3>4. QED
      BY <3>1, <3>2, <3>3
  <2>10. CASE Capture(p) \/ CaptureThrows(p)
    <3>1. /\ procs[p].pc = "capture"
          /\ UNCHANGED orders
          /\ \/ /\ Capture(p)
                /\ AppendEntry("capture", -procs[p].charge, CaptureKey(procs[p].order))
             \/ CaptureThrows(p) /\ UNCHANGED ledger
          /\ \/ /\ procs[p].via = "notify" /\ Goes(p, "flag")
                /\ (procs'[p].captured <=> Capture(p))
             \/ procs[p].via # "notify" /\ Leaves(p)
      BY <1>0, <2>10, CaptureEffect
    <3>2. /\ ~Booked(CaptureKey(o)) /\ (procs[p].via = "admin" => orders[o].blocker = "none")
          /\ procs[p].via \in {"notify", "admin"} /\ PastGate(p)
      BY <1>0, <2>0, <3>1 DEF FlagInv, Ways, PastGate
    <3>3. Only(p) /\ OnlyRow(o)
      BY <3>1 DEF Goes, Leaves, OnlyRow
    <3>4. CASE Capture(p)
      <4>1. AppendEntry("capture", -procs[p].charge, CaptureKey(o)) /\ -procs[p].charge \in Int
        BY <2>0, <3>4 DEF Capture
      <4>2. Booked(CaptureKey(o))' /\ \A x : x # o => (Booked(CaptureKey(x))' <=> Booked(CaptureKey(x)))
        BY <1>0, <4>1, CaptureBooks
      <4>3. CASE procs[p].via = "notify" /\ Goes(p, "flag") /\ procs'[p].captured
        <5>1. procs'[p].pc = "flag" /\ procs'[p].order = o /\ PastGate(p)'
          BY <2>0, <4>3 DEF Goes, PastGate
        <5>2. QED
          BY <1>0, <2>0, <3>2, <3>3, <4>2, <4>3, <5>1, FlagBeyond
      <4>4. CASE procs[p].via = "admin" /\ Leaves(p)
        <5>1. ~PastGate(p)' /\ procs'[p].pc = "idle"
          BY <1>3, <4>4 DEF Leaves, PastGate
        <5>2. Told(o)'
          BY <3>1, <3>2, <4>2, <4>4 DEF Told
        <5>3. QED
          BY <1>0, <2>0, <3>2, <3>3, <4>2, <5>1, <5>2, FlagBeyond
      <4>5. QED
        BY <3>1, <3>2, <3>4, <4>3, <4>4
    <3>5. CASE ~Capture(p)
      <4>1. CaptureThrows(p) /\ UNCHANGED ledger
            /\ AppendThrows(-procs[p].charge, CaptureKey(procs[p].order))
        BY <1>6, <3>1, <3>5
      <4>2. procs[p].via = "notify"
        <5>1. CASE scenario = "shipnotify"
          BY <1>0, <3>2, <5>1 DEF NotifyWays
        <5>2. CASE scenario = "queue"
          <6>1. Held + procs[p].charge <= GetBalance
            BY <1>0, <3>1, <5>2 DEF Relies
          <6>2. GetBalance \in Nat /\ Held \in Nat
            BY <1>0, BalanceTyped, HeldCovers DEF ShapeOK
          <6>3. GetBalance + (-procs[p].charge) < 0
            BY <4>1 DEF AppendThrows
          <6>4. QED
            BY <2>0, <6>1, <6>2, <6>3
        <5>3. QED
          BY <1>0, <5>1, <5>2
      <4>3. procs'[p].pc = "flag" /\ procs'[p].order = o /\ PastGate(p)' /\ ~procs'[p].captured
        BY <2>0, <3>1, <3>5, <4>2 DEF Goes, PastGate
      <4>4. ~Booked(CaptureKey(o))' /\ \A x : x # o => (Booked(CaptureKey(x))' <=> Booked(CaptureKey(x)))
        BY <1>2, <3>2, <4>1
      <4>5. QED
        BY <1>0, <2>0, <3>2, <3>3, <4>3, <4>4, FlagBeyond
    <3>6. QED
      BY <3>4, <3>5
  <2>11. CASE FlagCapture(p)
    <3>1. /\ procs[p].pc = "flag"
          /\ OnlyRow(o)
          /\ orders'[o].blocker = (IF procs[p].captured THEN "none" ELSE "awaiting_funds")
          /\ Leaves(p)
          /\ UNCHANGED ledger
      BY <1>0, <2>0, <2>11, FlagEffect
    <3>2. procs[p].captured <=> Booked(CaptureKey(o))
      BY <2>0, <3>1 DEF FlagInv
    <3>3. PastGate(p) /\ ~PastGate(p)' /\ procs'[p].pc = "idle" /\ Only(p)
      BY <1>3, <3>1 DEF Leaves, PastGate
    <3>4. Told(o)'
      BY <1>2, <3>1, <3>2 DEF Told
    <3>5. QED
      BY <1>0, <1>2, <2>0, <3>1, <3>3, <3>4, FlagBeyond
  <2>12. CASE DeliverCommit(p)
    <3>1. /\ procs[p].pc = "deliver"
          /\ OnlyRow(o) /\ orders'[o].status = "delivered"
          /\ orders'[o].blocker = orders[o].blocker
          /\ Leaves(p)
          /\ UNCHANGED ledger
      BY <1>0, <2>0, <2>12, DeliverEffect
    <3>2. orders[o].status \in PostShip
      BY <1>0, <2>0, <3>1 DEF StaysShipped
    <3>3. QED
      BY <1>3, <1>4, <3>1, <3>2 DEF Leaves, PastGate
  <2>13. CASE HealCommit(p)
    BY <1>0, <2>13 DEF HealCommit, Ways
  <2>14. QED
    BY <1>6, <2>2, <2>3, <2>4, <2>5, <2>6, <2>7, <2>8, <2>9, <2>10, <2>11, <2>12, <2>13
       DEF Continue
<1>7. CASE \E t \in TopUps : Deposit(p, t)
  <2>1. /\ UNCHANGED <<orders, procs>>
        /\ \A x : Booked(CaptureKey(x))' <=> Booked(CaptureKey(x))
    BY <1>0, <1>7, DepositEffect
  <2>2. QED
    BY <1>0, <2>1, FlagAside
<1>8. QED
  BY <1>1, <1>5, <1>6, <1>7 DEF Turn

-----------------------------------------------------------------------------

\* An open order loses its reservation for lack of money only in an edit that makes it dearer.
LEMMA KeptStep ==
    ASSUME FundsInv, IInv, WaysInv, QueueInv, Backed, MCNext, scenario # "any"
    PROVE  ReservationKept
<1>0. /\ ShapeOK /\ StaysShipped
      /\ FewPlaced /\ NeverOverdrawn
      /\ funds \in [Procs -> [balance: Nat \cup {Unread}, held: Nat \cup {Unread}]]
      /\ Ways /\ (scenario = "shipnotify" => NotifyWays)
      /\ scenario = "queue" => Alone /\ \A p \in Procs : Relies(p)
      /\ scenario \in {"queue", "shipnotify"}
  BY OrderlyTurn DEF FundsInv, TypeOK, WaysInv, QueueInv, IInv
<1>1. PICK p \in Procs : Turn(p)
  BY OrderlyTurn
<1>2. /\ "absent" \notin PreShip /\ PreShip \cap PostShip = {}
  BY DEF PreShip, PostShip
<1>3. ASSUME NEW o \in Orders, OnlyRow(o),
             orders[o].status \in PreShip /\ orders[o].blocker = "none"
               => orders'[o].blocker # "awaiting_funds" \/ orders'[o].charge > orders[o].charge
      PROVE  ReservationKept
  BY <1>3 DEF OnlyRow, ReservationKept
<1>4. UNCHANGED orders => ReservationKept
  BY DEF ReservationKept
<1>5. CASE \E o \in Orders : Arrive(p, o) /\ procs'[p].via # "heal"
  <2>1. PICK o \in Orders : Placed(o) \/ Begun(p, o)
    BY <1>0, <1>5, ArriveEffect
  <2>2. CASE Placed(o)
    BY <1>2, <1>3, <2>2 DEF Placed
  <2>3. CASE Begun(p, o)
    BY <1>4, <2>3 DEF Begun
  <2>4. QED
    BY <2>1, <2>2, <2>3
<1>6. CASE Continue(p)
  <2>0. PICK o \in Orders : o = procs[p].order /\ procs[p].charge \in Nat /\ orders[o] \in Order
    BY <1>0, <1>6, ContinueEffect, Working
  <2>1. CASE EditWrite(p)
    <3>1. /\ procs[p].pc = "editWrite"
          /\ OnlyRow(o)
          /\ orders'[o].charge = procs[p].charge /\ orders'[o].blocker = procs[p].blocker
      BY <1>0, <2>0, <2>1, EditWriteEffect
    <3>2. scenario = "queue"
      BY <1>0, <3>1 DEF NotifyWays
    <3>3. /\ orders[o].status \in PreShip
          /\ procs[p].blocker = "awaiting_funds" => GetBalance - Held + ReservedSelf(orders[o]) < procs[p].charge
      BY <1>0, <2>0, <3>1, <3>2 DEF Relies
    <3>4. Held <= GetBalance
      BY <1>0, <3>1, <3>2, IdleShape DEF Backed, Alone
    <3>5. GetBalance \in Nat /\ Held \in Nat
      BY <1>0, BalanceTyped, HeldCovers DEF ShapeOK
    <3>6. orders[o].blocker = "none" => ReservedSelf(orders[o]) = orders[o].charge
      BY DEF ReservedSelf
    <3>7. orders[o].charge \in Nat
      <4>1. orders[o].charge \in Charges \cup {0}
        BY <2>0 DEF Order
      <4>2. \A c \in Charges \cup {0} : c \in Nat
        BY ChargesAssumption
      <4>3. QED
        BY <4>1, <4>2
    <3>8. orders[o].blocker = "none" /\ orders'[o].blocker = "awaiting_funds"
            => orders'[o].charge > orders[o].charge
      BY <2>0, <3>1, <3>3, <3>4, <3>5, <3>6, <3>7
    <3>9. QED
      BY <1>3, <3>1, <3>8
  <2>2. CASE RemapWrite(p)
    <3>1. /\ procs[p].pc = "remapWrite"
          /\ OnlyRow(o) /\ orders'[o].blocker = procs[p].blocker
      BY <1>0, <2>0, <2>2, RemapWriteEffect
    <3>2. scenario = "queue"
      BY <1>0, <3>1 DEF NotifyWays
    <3>3. procs[p].blocker \in {orders[o].blocker, "needs_mapping"}
      BY <1>0, <2>0, <3>1, <3>2 DEF Relies
    <3>4. QED
      BY <1>3, <3>1, <3>3
  <2>3. CASE CancelCommit(p)
    <3>1. /\ OnlyRow(o)
          /\ UNCHANGED orders \/ orders'[o].blocker = "none"
      BY <1>0, <2>0, <2>3, CancelEffect
    <3>2. QED
      BY <1>3, <1>4, <3>1
  <2>4. CASE ShipGate(p)
    <3>1. /\ OnlyRow(o)
          /\ \/ UNCHANGED orders
             \/ orders'[o].blocker = (IF procs[p].via = "admin" THEN "none" ELSE orders[o].blocker)
      BY <1>0, <2>0, <2>4, ShipGateEffect
    <3>2. QED
      BY <1>3, <1>4, <3>1
  <2>5. CASE FlagCapture(p)
    <3>1. procs[p].pc = "flag" /\ OnlyRow(o)
      BY <1>0, <2>0, <2>5, FlagEffect
    <3>2. orders[o].status \in PostShip
      BY <1>0, <2>0, <3>1 DEF StaysShipped
    <3>3. QED
      BY <1>2, <1>3, <3>1, <3>2
  <2>6. CASE DeliverCommit(p)
    <3>1. OnlyRow(o) /\ orders'[o].blocker = orders[o].blocker
      BY <1>0, <2>0, <2>6, DeliverEffect
    <3>2. QED
      BY <1>3, <3>1
  <2>7. CASE EditDecide(p) \/ RemapDecide(p) \/ ReadBalance(p) \/ ReadHeld(p) \/ ShipRefused(p)
             \/ Capture(p) \/ CaptureThrows(p) \/ HealCommit(p)
    <3>1. UNCHANGED orders
      BY <2>7 DEF EditDecide, RemapDecide, ReadBalance, ReadHeld, ShipRefused, Capture,
                  CaptureThrows, HealCommit
    <3>2. QED
      BY <1>4, <3>1
  <2>8. QED
    BY <1>6, <2>1, <2>2, <2>3, <2>4, <2>5, <2>6, <2>7 DEF Continue
<1>7. CASE \E t \in TopUps : Deposit(p, t)
  BY <1>4, <1>7 DEF Deposit
<1>8. QED
  BY <1>1, <1>5, <1>6, <1>7 DEF Turn

-----------------------------------------------------------------------------

\* A behaviour of a scenario is one of the component.
LEMMA ScenarioIsSpec == MCSpec => Spec
<1>1. MCInit => Init
  BY DEF MCInit
<1>2. [MCNext]_mcVars => [Next]_vars
  BY OrderlyIsNext DEF mcVars
<1>3. QED
  BY <1>1, <1>2, PTL DEF MCSpec, Spec, mcVars

OrderlyInv == WaysInv /\ QueueInv /\ FlagInv

LEMMA OrderlyStart == MCInit => OrderlyInv /\ Backed
<1> SUFFICES ASSUME MCInit PROVE OrderlyInv /\ Backed
  OBVIOUS
<1>1. /\ \A p \in Procs : procs[p] = Idle
      /\ \A o \in Orders : orders[o] = Absent
      /\ orders = [o \in Orders |-> Absent] /\ ledger = <<>>
  BY DEF MCInit, Init
<1>2. /\ Idle.pc = "idle" /\ Idle.via = "none"
      /\ Absent.status = "absent"
  BY DEF Idle, Absent
<1>3. WaysInv
  BY <1>1, <1>2 DEF WaysInv, Ways, NotifyWays
<1>4. QueueInv
  BY <1>1, <1>2, IdleRelies DEF QueueInv, Alone
<1>5. FlagInv
  BY <1>1, <1>2 DEF FlagInv, PostShip
<1>6. Backed
  <2>1. Reserving(orders) = {}
    BY <1>1, <1>2 DEF Reserving, PreShip
  <2>2. Held = 0
    BY <2>1, HeldIs, ChargeSumEmpty
  <2>3. GetBalance = 0
    BY <1>1 DEF GetBalance
  <2>4. QED
    BY <2>2, <2>3 DEF Backed
<1>7. QED
  BY <1>3, <1>4, <1>5, <1>6 DEF OrderlyInv

LEMMA OrderlyStep ==
    ASSUME FundsInv, IInv, OrderlyInv, [MCNext]_mcVars
    PROVE  OrderlyInv' /\ (TopUpAmount \in Nat /\ Backed => Backed')
<1>1. CASE UNCHANGED mcVars
  <2>1. UNCHANGED <<ledger, orders, procs, funds, scenario>>
    BY <1>1 DEF mcVars, vars
  <2>2. UNCHANGED Held
    BY <2>1, HeldIs DEF Reserving
  <2>3. WaysInv'
    BY <2>1 DEF OrderlyInv, WaysInv, Ways, NotifyWays
  <2>4. QueueInv'
    BY <2>1, <2>2 DEF OrderlyInv, QueueInv, Alone, Relies, GetBalance, ReservedSelf
  <2>5. FlagInv'
    BY <2>1 DEF OrderlyInv, FlagInv, Told, PastGate, Booked
  <2>6. Backed => Backed'
    BY <2>1, <2>2 DEF Backed, GetBalance
  <2>7. QED
    BY <2>3, <2>4, <2>5, <2>6 DEF OrderlyInv
<1>2. CASE MCNext
  <2>1. WaysInv'
    BY <1>2, WaysStep DEF OrderlyInv
  <2>2. FlagInv'
    BY <1>2, FlagStep DEF OrderlyInv
  <2>3. QueueInv' /\ (TopUpAmount \in Nat /\ Backed => Backed')
    <3>1. CASE scenario = "queue"
      BY <1>2, <2>1, <3>1, QueueStep DEF OrderlyInv, IInv
    <3>2. CASE scenario # "queue"
      BY <1>2, <3>2 DEF MCNext, QueueInv, Backed
    <3>3. QED
      BY <3>1, <3>2
  <2>4. QED
    BY <2>1, <2>2, <2>3 DEF OrderlyInv
<1>3. QED
  BY <1>1, <1>2

LEMMA Orderly == MCSpec => [](IInv /\ FundsInv /\ OrderlyInv)
<1>1. MCInit => OrderlyInv
  BY OrderlyStart
<1>2. IInv /\ FundsInv /\ OrderlyInv /\ [MCNext]_mcVars => OrderlyInv'
  BY OrderlyStep
<1>3. QED
  BY <1>1, <1>2, ScenarioIsSpec, Invariance, FundsHold, PTL DEF MCSpec, mcVars

LEMMA AllBacked ==
    ASSUME TopUpAmount \in Nat
    PROVE  MCSpec => []Backed
<1>1. MCInit => Backed
  BY OrderlyStart
<1>2. IInv /\ FundsInv /\ OrderlyInv /\ Backed /\ [MCNext]_mcVars => Backed'
  BY OrderlyStep
<1>3. QED
  BY <1>1, <1>2, Orderly, PTL DEF MCSpec, mcVars

\* As long as requests come one after the other, what the open orders reserve is in the
\* wallet, whatever the number of orders and what they cost: a create, an import, an edit, a
\* re-map, a cancel and a ship leave no two of them counting on the same money (wallet.ts:13,
\* order-edit.ts:94).
THEOREM ReservationsAreBacked ==
    ASSUME TopUpAmount \in Nat
    PROVE  MCSpec => []QueueIsBacked
<1>1. Backed => QueueIsBacked
  BY IdleShape DEF Backed, QueueIsBacked, ReservedBacked, Quiet
<1>2. QED
  BY <1>1, AllBacked, PTL

\* As long as ShipStation and the brand are the only ones to ship, or requests come one after
\* the other, the blocker of a shipped order that nobody is working on says whether its
\* capture is in the ledger (handleShipnotify).
THEOREM FlagTells == MCSpec => []FlagIsTrue
<1>1. FlagInv => FlagIsTrue
  BY DEF FlagInv, FlagIsTrue, FlagTellsPayment, Told
<1>2. OrderlyInv => FlagInv
  BY DEF OrderlyInv
<1>3. QED
  BY <1>1, <1>2, Orderly, PTL

\* In the same scenarios an open order loses its reservation for lack of money only when it
\* has become dearer: an edit counts what the order itself reserves (order-edit.ts:94).
THEOREM ReservationStays ==
    ASSUME TopUpAmount \in Nat
    PROVE  MCSpec => KeepsReservation
<1>1. IInv /\ FundsInv /\ OrderlyInv /\ Backed /\ [MCNext]_mcVars
        => [scenario # "any" => ReservationKept]_vars
  BY KeptStep DEF OrderlyInv, mcVars
<1>2. QED
  BY <1>1, Orderly, AllBacked, PTL DEF MCSpec, KeepsReservation, mcVars

=============================================================================
