----------------------------- MODULE OrderFunds -----------------------------
(***************************************************************************)
(* The orders of one brand and the prepaid money they hold.  An order is   *)
(* placed by hand (routes/brand-orders.ts) or imported from the brand's    *)
(* store (services/store-intake.ts), edited (services/order-edit.ts),      *)
(* re-mapped (services/store-remap.ts), cancelled, shipped by ShipStation  *)
(* (routes/shipstation-custom-store.ts) or by an administrator             *)
(* (routes/admin-fulfillment.ts), delivered, and captured: the wallet is   *)
(* debited when the order ships, or later by a heal (admin-ledger.ts).     *)
(*                                                                         *)
(* An open order without a blocker holds its charge implicitly; nothing is *)
(* written for a hold.  So every decision about money reads the balance    *)
(* and the open orders, and every handler that decides before it writes    *)
(* has a window.  The handlers are cut where they await the database.      *)
(***************************************************************************)
EXTENDS Wallet, FiniteSets, FiniteSetsExt

CONSTANTS
    Orders,         \* ids of orders that may be placed
    Procs,          \* requests that can be in flight at once
    Charges,        \* what an order can cost, in cents
    TopUps,         \* payment ids of the top-ups a processor reports
    TopUpAmount,    \* amount of a top-up
    Adjustments,    \* signed amounts an administrator may book by hand
    MaxAdjustments, \* bound on how many are booked
    Ops,            \* the operations a run allows, by name
    NoProc,         \* holder of a free lock
    NoOrder,        \* order of an idle request
    Unread          \* a sum that has not been read yet

ASSUME ChargesAssumption == Charges \subseteq Nat
ASSUME AmountsAssumption == TopUpAmount \in Int /\ Adjustments \subseteq Int
ASSUME ProcsAssumption == NoProc \notin Procs
ASSUME UnreadAssumption == Unread \notin Nat
ASSUME KeysAssumption ==
    /\ \A o \in Orders : CaptureKey(o) # NoKey
    /\ \A t \in TopUps : TopUpKey(t) # NoKey

VARIABLES
    orders,     \* the order table
    lock,       \* holder of the brand's advisory lock, across awaits
    procs,      \* what each request is doing, with the order as it read it
    funds       \* the sums each request has read for its funds decision

vars == <<ledger, orders, lock, procs, funds>>

-----------------------------------------------------------------------------

PreShip == {"ready_for_fulfillment", "processing"}
PostShip == {"shipped", "delivered"}
Statuses == PreShip \cup PostShip \cup {"cancelled"}

\* Nothing sets needs_customer_info.
Blockers == {"none", "needs_address", "needs_mapping", "awaiting_funds"}

\* A row of the order table: addr says that the address is complete,
\* unmatched that unmatchedSkus is not empty, source that the order came from
\* a store with line items.
Order ==
    [status: Statuses \cup {"absent"}, blocker: Blockers,
     charge: Charges \cup {0}, addr: BOOLEAN, unmatched: BOOLEAN,
     source: BOOLEAN]

Absent ==
    [status |-> "absent", blocker |-> "none", charge |-> 0, addr |-> FALSE,
     unmatched |-> FALSE, source |-> FALSE]

\* A request: the handler (via), the await it is at (pc), and what it keeps of
\* the order as it was read: its charge (or the new charge of an edit), its
\* own reservation, the blocker that does not depend on the money, the
\* address, whether SKUs are left unmatched.
Request ==
    [pc: {"idle", "edit", "editWrite", "remapEnd", "remapWrite", "cancel",
          "ship", "capture", "flag", "deliver", "heal"},
     via: {"none", "edit", "remap", "cancel", "notify", "admin", "deliver", "heal"},
     order: Orders \cup {NoOrder}, charge: Charges \cup {0},
     own: Charges \cup {0}, blocker: Blockers, addr: BOOLEAN, left: BOOLEAN,
     captured: BOOLEAN]

Idle ==
    [pc |-> "idle", via |-> "none", order |-> NoOrder, charge |-> 0,
     own |-> 0, blocker |-> "none", addr |-> FALSE, left |-> FALSE,
     captured |-> FALSE]

NothingRead == [balance |-> Unread, held |-> Unread]

Keys ==
    {CaptureKey(o) : o \in Orders} \cup {TopUpKey(t) : t \in TopUps} \cup {NoKey}

\* The shape of the rows and of the requests.
ShapeOK ==
    /\ ledger \in Seq(Entry(Keys))
    /\ orders \in [Orders -> Order]
    /\ lock \in Procs \cup {NoProc}
    /\ procs \in [Procs -> Request]
    /\ \A p \in Procs : procs[p].pc # "idle" => procs[p].order \in Orders

TypeOK ==
    /\ ShapeOK
    /\ funds \in [Procs -> [balance: Nat \cup {Unread}, held: Nat \cup {Unread}]]

Init ==
    /\ ledger = <<>>
    /\ orders = [o \in Orders |-> Absent]
    /\ lock = NoProc
    /\ procs = [p \in Procs |-> Idle]
    /\ funds = [p \in Procs |-> NothingRead]

-----------------------------------------------------------------------------

\* getHeld: what open orders without a blocker reserve.
Held ==
    MapThenSumSet(LAMBDA o : orders[o].charge,
                  {o \in Orders : /\ orders[o].status \in PreShip
                                  /\ orders[o].blocker = "none"})

\* Two slips of reservedSelf: the order's own hold is forgotten, or granted to
\* an order that holds nothing.
ReservedSelfForgotten(order) == 0
ReservedSelfAlways(order) == order.charge

\* reservedSelf: what an order holds of that.
ReservedSelf(order) == IF order.blocker = "none" THEN order.charge ELSE 0

\* The blocker that comes before the money: an incomplete address, then SKUs
\* without a product.
DataBlocker(addr, unmatched) ==
    IF ~addr THEN "needs_address"
    ELSE IF unmatched THEN "needs_mapping" ELSE "none"

\* The blocker of an order that costs `charge`, when `own` of the held sum is
\* its own: the money decides if nothing else blocks the order.
Blocker(data, charge, own) ==
    IF data # "none" THEN data
    ELSE IF GetBalance - Held + own >= charge THEN "none" ELSE "awaiting_funds"

Allowed(op) == op \in Ops

\* A request that is one transaction: it needs a free slot, and the brand's
\* lock when it takes it.
OneTransaction(p) == procs[p] = Idle /\ lock = NoProc

\* A request reads an order and goes on to `pc`.
Read(p, o, via, pc) ==
    procs' = [procs EXCEPT ![p] = [Idle EXCEPT !.pc = pc, !.via = via, !.order = o]]

ReadCharge(p, o, via, pc) ==
    procs' = [procs EXCEPT ![p] =
                [Idle EXCEPT !.pc = pc, !.via = via, !.order = o,
                             !.charge = orders[o].charge,
                             !.own = ReservedSelf(orders[o])]]

Done(p) == procs' = [procs EXCEPT ![p] = Idle]

-----------------------------------------------------------------------------

\* POST /api/brand/orders: the funds are decided and the order is inserted
\* under the lock.
Create(p, o, c) ==
    /\ Allowed("create")
    /\ OneTransaction(p)
    /\ orders[o].status = "absent"
    /\ orders' = [orders EXCEPT ![o] =
         [Absent EXCEPT !.status = "ready_for_fulfillment", !.addr = TRUE,
                        !.charge = c, !.blocker = Blocker("none", c, 0)]]
    /\ UNCHANGED <<ledger, lock, procs, funds>>

\* importWooOrder: the blocker is an incomplete address, else line items that
\* do not match the catalog (or no line item at all), else the money.  Only
\* matched lines cost anything.  A second delivery of the same store order
\* finds the first one and changes nothing.
Import(p, o, addr, matched, unmatched, c) ==
    /\ Allowed("import")
    /\ OneTransaction(p)
    /\ orders[o].status = "absent"
    /\ ~matched => c = 0
    /\ orders' = [orders EXCEPT ![o] =
         [status |-> "ready_for_fulfillment",
          blocker |-> Blocker(DataBlocker(addr, unmatched \/ ~matched), c, 0),
          charge |-> c, addr |-> addr, unmatched |-> unmatched,
          source |-> matched \/ unmatched]]
    /\ UNCHANGED <<ledger, lock, procs, funds>>

-----------------------------------------------------------------------------

\* PATCH /api/{brand,admin}/orders/:id: the order is read outside the
\* transaction, re-priced to `c`, and its recipient is merged with the edit,
\* which may complete the address.
EditRead(p, o, c, addr) ==
    /\ Allowed("edit")
    /\ procs[p] = Idle
    /\ orders[o].status \in PreShip
    /\ orders[o].addr => addr
    /\ procs' = [procs EXCEPT ![p] =
         [Idle EXCEPT !.pc = "edit", !.via = "edit", !.order = o, !.charge = c,
                      !.own = ReservedSelf(orders[o]), !.addr = addr,
                      !.blocker = DataBlocker(addr, orders[o].unmatched)]]
    /\ UNCHANGED <<ledger, orders, lock, funds>>

\* remapStoreOrder: the order is read and its source SKUs are resolved; some
\* resolve (to lines that cost `c`) and some may be left unmatched.  Without
\* a resolved line there is nothing to re-price.
RemapRead(p, o, resolved, left, c) ==
    /\ Allowed("remap")
    /\ procs[p] = Idle
    /\ orders[o].status \in PreShip
    /\ orders[o].source <=> resolved \/ left
    /\ procs' = [procs EXCEPT ![p] =
         IF resolved
         THEN [Idle EXCEPT !.pc = "edit", !.via = "remap", !.order = o,
                           !.charge = c, !.own = ReservedSelf(orders[o]),
                           !.addr = orders[o].addr, !.left = left,
                           !.blocker = DataBlocker(orders[o].addr, orders[o].unmatched)]
         ELSE [Idle EXCEPT !.pc = "remapEnd", !.via = "remap", !.order = o,
                           !.left = left]]
    /\ UNCHANGED <<ledger, orders, lock, funds>>

\* applyOrderEdit takes the lock and decides the blocker: the address and
\* the unmatched SKUs as they were read, then the order's own reservation as
\* it was read against the balance and the held sum as they are now.
EditDecide(p) ==
    LET r == procs[p] IN
    /\ r.pc = "edit"
    /\ lock = NoProc
    /\ lock' = p
    /\ procs' = [procs EXCEPT ![p].pc = "editWrite",
                              ![p].own = 0,
                              ![p].blocker = Blocker(r.blocker, r.charge, r.own)]
    /\ UNCHANGED <<ledger, orders, funds>>

\* The update has no condition on the status; commit releases the lock.
EditWrite(p) ==
    /\ procs[p].pc = "editWrite"
    /\ orders' = [orders EXCEPT ![procs[p].order].charge = procs[p].charge,
                                ![procs[p].order].addr = procs[p].addr,
                                ![procs[p].order].blocker = procs[p].blocker]
    /\ lock' = NoProc
    /\ IF procs[p].via = "remap"
       THEN procs' = [procs EXCEPT ![p] =
              [Idle EXCEPT !.pc = "remapEnd", !.via = "remap",
                           !.order = procs[p].order, !.left = procs[p].left]]
       ELSE Done(p)
    /\ UNCHANGED <<ledger, funds>>

\* The end of a re-map reads the blocker again, without the lock ...
RemapDecide(p) ==
    /\ procs[p].pc = "remapEnd"
    /\ procs' = [procs EXCEPT
         ![p].pc = "remapWrite",
         ![p].blocker = IF procs[p].left THEN "needs_mapping"
                        ELSE orders[procs[p].order].blocker]
    /\ UNCHANGED <<ledger, orders, lock, funds>>

\* ... and writes it with the SKUs that are still unmatched.
RemapWrite(p) ==
    /\ procs[p].pc = "remapWrite"
    /\ orders' = [orders EXCEPT ![procs[p].order].blocker = procs[p].blocker,
                                ![procs[p].order].unmatched = procs[p].left]
    /\ Done(p)
    /\ UNCHANGED <<ledger, lock, funds>>

-----------------------------------------------------------------------------

\* POST /api/brand/orders/:id/cancel reads the order ...
CancelRead(p, o) ==
    /\ Allowed("cancel")
    /\ procs[p] = Idle
    /\ orders[o].status \in PreShip
    /\ Read(p, o, "cancel", "cancel")
    /\ UNCHANGED <<ledger, orders, lock, funds>>

\* The cancel without its condition on the status.
CancelCommitUngated(p) ==
    /\ procs[p].pc = "cancel"
    /\ orders' = [orders EXCEPT ![procs[p].order].status = "cancelled",
                                ![procs[p].order].blocker = "none"]
    /\ Done(p)
    /\ UNCHANGED <<ledger, lock, funds>>

\* ... and cancels it if it still has not shipped.
CancelCommit(p) ==
    LET o == procs[p].order IN
    /\ procs[p].pc = "cancel"
    /\ orders' = IF orders[o].status \in PreShip
                 THEN [orders EXCEPT ![o].status = "cancelled",
                                     ![o].blocker = "none"]
                 ELSE orders
    /\ Done(p)
    /\ UNCHANGED <<ledger, lock, funds>>

\* A shipnotify, or the administrator's mark-shipped, reads an order that has
\* not shipped (of any other it only refreshes the tracking, or refuses).
ShipRead(p, o, via) ==
    /\ Allowed(via)
    /\ procs[p] = Idle
    /\ orders[o].status \in PreShip
    /\ ReadCharge(p, o, via, "ship")
    /\ UNCHANGED <<ledger, orders, lock, funds>>

\* getWalletSummary without the lock: two queries, in either order.
ReadBalance(p) ==
    /\ procs[p].pc = "ship"
    /\ funds[p].balance = Unread
    /\ funds' = [funds EXCEPT ![p].balance = GetBalance]
    /\ UNCHANGED <<ledger, orders, lock, procs>>

ReadHeld(p) ==
    /\ procs[p].pc = "ship"
    /\ funds[p].held = Unread
    /\ funds' = [funds EXCEPT ![p].held = Held]
    /\ UNCHANGED <<ledger, orders, lock, procs>>

FundsOk(p) ==
    funds[p].balance - funds[p].held + procs[p].own >= procs[p].charge

\* A ship request that has read the balance and the held sum forgets them.
Decided(p) ==
    /\ procs[p].pc = "ship"
    /\ funds[p].balance # Unread
    /\ funds[p].held # Unread
    /\ funds' = [funds EXCEPT ![p] = NothingRead]

\* The administrator is refused when the wallet does not cover the order.
ShipRefused(p) ==
    /\ Decided(p)
    /\ procs[p].via = "admin"
    /\ ~FundsOk(p)
    /\ Done(p)
    /\ UNCHANGED <<ledger, orders, lock>>

\* The ship without its condition on the status.
ShipGateUngated(p) ==
    LET o == procs[p].order IN
    /\ Decided(p)
    /\ procs[p].via = "admin" => FundsOk(p)
    /\ orders' = [orders EXCEPT ![o].status = "shipped"]
    /\ procs' = [procs EXCEPT ![p].pc = IF FundsOk(p) THEN "capture" ELSE "flag",
                              ![p].charge = orders[o].charge,
                              ![p].own = 0]
    /\ UNCHANGED <<ledger, lock>>

\* The conditional transition: the order ships if it is still open, and the
\* row is read again for the capture.  The administrator's ship clears the
\* blocker; a shipnotify ships an order the wallet does not cover as well, and
\* leaves it out of the capture.
ShipGate(p) ==
    LET o == procs[p].order IN
    /\ Decided(p)
    /\ procs[p].via = "admin" => FundsOk(p)
    /\ IF orders[o].status \in PreShip
       THEN /\ orders' = [orders EXCEPT
                 ![o].status = "shipped",
                 ![o].blocker = IF procs[p].via = "admin" THEN "none" ELSE @]
            /\ procs' = [procs EXCEPT
                 ![p].pc = IF FundsOk(p) THEN "capture" ELSE "flag",
                 ![p].charge = orders[o].charge,
                 ![p].own = 0]
       ELSE UNCHANGED orders /\ Done(p)
    /\ UNCHANGED <<ledger, lock>>

\* captureOrder, after the ship is committed.
Capture(p) ==
    LET o == procs[p].order IN
    /\ procs[p].pc = "capture"
    /\ lock = NoProc
    /\ AppendEntry("capture", -procs[p].charge, CaptureKey(o))
    /\ IF procs[p].via = "notify"
       THEN procs' = [procs EXCEPT ![p].pc = "flag", ![p].captured = TRUE]
       ELSE Done(p)
    /\ UNCHANGED <<orders, lock, funds>>

\* The append throws because it would overdraw the wallet, or for any reason
\* of the database: the shipnotify goes on and the administrator gets an
\* error.
CaptureThrows(p) ==
    /\ procs[p].pc = "capture"
    /\ \/ AppendThrows(-procs[p].charge, CaptureKey(procs[p].order)) /\ lock = NoProc
       \/ Allowed("fail")
    /\ IF procs[p].via = "notify"
       THEN procs' = [procs EXCEPT ![p].pc = "flag", ![p].captured = FALSE]
       ELSE Done(p)
    /\ UNCHANGED <<ledger, orders, lock, funds>>

\* The flag is cleared whatever became of the capture.
FlagCaptureAlways(p) ==
    /\ procs[p].pc = "flag"
    /\ orders' = [orders EXCEPT ![procs[p].order].blocker = "none"]
    /\ Done(p)
    /\ UNCHANGED <<ledger, lock, funds>>

\* The shipnotify records on the order whether it was paid for.
FlagCapture(p) ==
    /\ procs[p].pc = "flag"
    /\ orders' = [orders EXCEPT ![procs[p].order].blocker =
                    IF procs[p].captured THEN "none" ELSE "awaiting_funds"]
    /\ Done(p)
    /\ UNCHANGED <<ledger, lock, funds>>

-----------------------------------------------------------------------------

\* POST /api/admin/orders/:id/deliver.
DeliverRead(p, o) ==
    /\ Allowed("deliver")
    /\ procs[p] = Idle
    /\ orders[o].status = "shipped"
    /\ Read(p, o, "deliver", "deliver")
    /\ UNCHANGED <<ledger, orders, lock, funds>>

DeliverCommit(p) ==
    /\ procs[p].pc = "deliver"
    /\ orders' = [orders EXCEPT ![procs[p].order].status = "delivered"]
    /\ Done(p)
    /\ UNCHANGED <<ledger, lock, funds>>

\* POST /api/admin/ledger/heal/capture reads a shipped order ...
HealRead(p, o) ==
    /\ Allowed("heal")
    /\ procs[p] = Idle
    /\ orders[o].status \in PostShip
    /\ ReadCharge(p, o, "heal", "heal")
    /\ UNCHANGED <<ledger, orders, lock, funds>>

\* ... and captures the charge that it read, or throws.
HealCommit(p) ==
    LET charge == procs[p].charge  key == CaptureKey(procs[p].order) IN
    /\ procs[p].pc = "heal"
    /\ lock = NoProc
    /\ \/ AppendEntry("capture", -charge, key)
       \/ AppendThrows(-charge, key) /\ UNCHANGED ledger
    /\ Done(p)
    /\ UNCHANGED <<orders, lock, funds>>

\* A processor reports a top-up, maybe not for the first time.
Deposit(p, t) ==
    /\ Allowed("deposit")
    /\ OneTransaction(p)
    /\ AppendEntry("deposit", TopUpAmount, TopUpKey(t))
    /\ UNCHANGED <<orders, lock, procs, funds>>

\* POST /api/admin/brands/:id/wallet/adjust.
Adjust(p, a) ==
    /\ Allowed("adjust")
    /\ OneTransaction(p)
    /\ Cardinality({i \in 1..Len(ledger) : ledger[i].key = NoKey}) < MaxAdjustments
    /\ AppendEntry("manual_adjustment", a, NoKey)
    /\ UNCHANGED <<orders, lock, procs, funds>>

\* A request dies between two awaits, of a database error or with the API
\* process: what it committed stays, its open transaction is rolled back.
Fail(p) ==
    /\ Allowed("fail")
    /\ procs[p] # Idle
    /\ Done(p)
    /\ funds' = [funds EXCEPT ![p] = NothingRead]
    /\ lock' = IF lock = p THEN NoProc ELSE lock
    /\ UNCHANGED <<ledger, orders>>

-----------------------------------------------------------------------------

\* A request takes its first step.
Arrive(p, o) ==
    \/ \E c \in Charges : Create(p, o, c)
    \/ \E addr, matched, unmatched \in BOOLEAN, c \in Charges \cup {0} :
          Import(p, o, addr, matched, unmatched, c)
    \/ \E c \in Charges, addr \in BOOLEAN : EditRead(p, o, c, addr)
    \/ \E resolved, left \in BOOLEAN, c \in Charges : RemapRead(p, o, resolved, left, c)
    \/ CancelRead(p, o)
    \/ \E via \in {"notify", "admin"} : ShipRead(p, o, via)
    \/ DeliverRead(p, o)
    \/ HealRead(p, o)

\* A request in flight takes its next one.
Continue(p) ==
    \/ EditDecide(p) \/ EditWrite(p) \/ RemapDecide(p) \/ RemapWrite(p)
    \/ CancelCommit(p)
    \/ ReadBalance(p) \/ ReadHeld(p) \/ ShipRefused(p) \/ ShipGate(p)
    \/ Capture(p) \/ CaptureThrows(p) \/ FlagCapture(p)
    \/ DeliverCommit(p)
    \/ HealCommit(p)

Next ==
    \E p \in Procs :
        \/ \E o \in Orders : Arrive(p, o)
        \/ Continue(p)
        \/ \E t \in TopUps : Deposit(p, t)
        \/ \E a \in Adjustments : Adjust(p, a)
        \/ Fail(p)

Spec == Init /\ [][Next]_vars

-----------------------------------------------------------------------------

\* An order is debited once, whoever ships it, however often it is retried
\* and healed (wallet.ts: "re-shipping/retries can't double-charge").
CaptureOnce ==
    \A o \in Orders : \A i, j \in 1..Len(ledger) :
        ledger[i].key = CaptureKey(o) /\ ledger[j].key = CaptureKey(o) => i = j

\* Only an order that has shipped is debited: a cancel that wins the race
\* against a ship is never paid for (admin-fulfillment.ts: "Capture AFTER the
\* ship is committed, so a cancel that won the race above is never debited").
CaptureImpliesShipped ==
    \A o \in Orders :
        Booked(CaptureKey(o)) => orders[o].status \in PostShip

PastGate(p) == procs[p].pc \in {"capture", "flag"}

\* A request that has got past the ship gate, or that read a shipped order to
\* deliver or to heal it, works on an order that is still shipped, however
\* long ago it read: nothing that commits in its windows takes the shipment
\* back, so a capture is always for goods that left.
StaysShipped ==
    \A p \in Procs :
        procs[p].pc \in {"capture", "flag", "deliver", "heal"}
            => orders[procs[p].order].status \in PostShip

\* At most one request ships an order: of a shipnotify, its retry and an
\* administrator that all read it open, one gets past the gate.
SingleShipper ==
    \A p, q \in Procs :
        PastGate(p) /\ PastGate(q) /\ procs[p].order = procs[q].order => p = q

Moves ==
    [absent |-> {"ready_for_fulfillment"},
     ready_for_fulfillment |-> {"shipped", "cancelled"},
     processing |-> {"shipped", "cancelled"},
     shipped |-> {"delivered"},
     delivered |-> {},
     cancelled |-> {}]

\* An order only moves forward: no stale request un-ships, re-opens or cancels
\* an order that another request has taken further (the conditional
\* transitions of cancel, ship and shipnotify).
StatusOnlyForward ==
    [][\A o \in Orders :
          orders'[o].status # orders[o].status
            => orders'[o].status \in Moves[orders[o].status]]_vars

Quiet == \A p \in Procs : procs[p] = Idle

\* What the open orders reserve is in the wallet: no two of them count on the
\* same money (wallet.ts:13, order-edit.ts:94).
ReservedBacked == Quiet => Held <= GetBalance

\* An open order loses its reservation for lack of money only when it has
\* become more expensive: saving it unchanged, or cheaper, does not
\* (order-edit.ts: "so an unchanged-but-re-saved order doesn't false-trip
\* awaiting_funds").
ReservationKept ==
    \A o \in Orders :
        /\ orders[o].status \in PreShip
        /\ orders[o].blocker = "none"
        /\ orders'[o].blocker = "awaiting_funds"
        => orders'[o].charge > orders[o].charge

\* When no request is at work on a shipped order, its blocker says whether it
\* was paid for: without a blocker it was captured, and flagged
\* awaiting_funds it was not, so collections is after the right orders
\* (handleShipnotify).
FlagTellsPayment ==
    \A o \in Orders :
        /\ orders[o].status \in PostShip
        /\ \A p \in Procs : procs[p].order # o
        => IF Booked(CaptureKey(o)) THEN orders[o].blocker = "none"
                                    ELSE orders[o].blocker = "awaiting_funds"

\* A shipped or cancelled order is not edited any more (order-edit.ts:21).
ShippedIsFrozen ==
    [][\A o \in Orders :
          orders[o].status \in PostShip \cup {"cancelled"}
            => orders'[o].charge = orders[o].charge]_vars

\* The inductive invariant of the theorems in OrderFundsProofs.
IInv ==
    ShapeOK /\ StaysShipped /\ SingleShipper /\ CaptureOnce /\ CaptureImpliesShipped

=============================================================================
