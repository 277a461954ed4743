----------------------------- MODULE PriceProofs -----------------------------
(***************************************************************************)
(* Proofs about PlanPrice, for any number of administrators, brands, rows  *)
(* and days: the one offer of a plan can always be paid and is what a      *)
(* brand is charged, a price outlives the sessions opened on it, and it is *)
(* archived before the worker stops looking for it.                        *)
(***************************************************************************)
EXTENDS PlanPrice, FiniteSetTheorems, TLAPS

-----------------------------------------------------------------------------

OfferRow == [cents: Amounts, stripe: Nat, active: BOOLEAN, archived: Int]
StripePrice == [key: Nat, cents: Amounts, live: BOOLEAN]
AdminState == [pc: InDialog \cup InRequest, shown: Nat, cents: Nat, ack: BOOLEAN, pending: Nat, old: Nat]
BrandState == [pc: {"away", "quoted", "checked", "session", "paid", "active"}, row: Nat, price: Nat, opened: Int]

PriceShape ==
    /\ rows \in Seq(OfferRow) /\ stripe \in Seq(StripePrice)
    /\ served \subseteq Rows /\ sweep \subseteq Rows /\ swept \in BOOLEAN
    /\ admins \in [Admins -> AdminState] /\ brands \in [Brands -> BrandState]
    /\ failures \in 0..MaxFailures /\ today \in Nat

\* One row is on offer.  A price at Stripe belongs to the row of its key, and so does the price
\* that a row was stamped with; every row that ever was on offer has one.
OneOffer == \E r \in Rows : ActiveRows = {r}
Keyed ==
    /\ \A i \in DOMAIN stripe : stripe[i].key \in Rows /\ stripe[i].cents = rows[stripe[i].key].cents
    /\ \A r \in Rows :
          /\ rows[r].stripe # 0 => rows[r].stripe \in DOMAIN stripe /\ stripe[rows[r].stripe].key = r
          /\ rows[r].active => rows[r].stripe # 0
          /\ rows[r].archived # Never => rows[r].stripe # 0 /\ rows[r].archived \in 0..today

\* What a request has found: its pending row, the price under the key of it, the row it replaces.
Prepared(q) ==
    /\ q.pc \notin {"closed", "amount"} => q.cents \in Amounts
    /\ q.pc \in {"stripe", "switch", "write"} => q.pending \in Rows
    /\ q.pc \in {"switch", "write"} => SameKey(q.pending) # {}
    /\ q.pc = "write" => q.old \in Rows /\ rows[q.old].stripe # 0

\* What a brand pays is the price of the row it saw, which was on offer when it chose.
Buying(q) ==
    /\ q.pc # "away" => q.row \in Rows
    /\ q.pc \in {"checked", "session", "paid", "active"} => q.price \in DOMAIN stripe /\ stripe[q.price].key = q.row
    /\ q.pc = "checked" => rows[q.row].active \/ rows[q.row].archived = today
    /\ q.pc = "session" =>
          q.opened \in 0..today /\ (rows[q.row].active \/ rows[q.row].archived >= q.opened)

\* A row whose price may be archived: it was replaced long enough ago.
Retired(r) == /\ ~rows[r].active /\ rows[r].stripe # 0
              /\ rows[r].archived # Never /\ rows[r].archived <= today - Deferral
OnlyRetired ==
    /\ \A r \in sweep : Retired(r)
    /\ \A i \in DOMAIN stripe : ~stripe[i].live => Retired(stripe[i].key)

\* The inductive invariant of the price.
PriceInv ==
    /\ PriceShape /\ OneOffer /\ Keyed /\ OnlyRetired
    /\ \A a \in Admins : Prepared(admins[a])
    /\ \A b \in Brands : Buying(brands[b])

\* One administrator at a time: the row he is about to put on offer never was, and the row it
\* replaces is still on offer.
OpenDialogs == {a \in Admins : admins[a].pc # "closed"}
FreshFor(q) ==
    /\ q.pc \in {"stripe", "switch", "write"} => rows[q.pending].stripe = 0 /\ ~rows[q.pending].active
    /\ q.pc = "write" => rows[q.old].active
Fresh == \A a \in Admins : FreshFor(admins[a])
SoloInv == IsFiniteSet(OpenDialogs) /\ Cardinality(OpenDialogs) <= 1 /\ Fresh

\* Whatever price of a retired row is still alive failed to be archived once in every day that
\* the worker had for it.
Tries(r) == today - rows[r].archived - Deferral + (IF swept /\ r \notin sweep THEN 1 ELSE 0)
TimelyInv ==
    \A r \in Rows : Retired(r) /\ stripe[rows[r].stripe].live =>
        failures >= Tries(r) /\ rows[r].archived >= today - Lookback

LEMMA PriceBounds ==
    /\ Amounts \subseteq Nat /\ MaxFailures \in Nat /\ SessionLife \in Nat /\ Deferral \in Nat /\ Lookback \in Nat
    /\ SessionLife < Deferral
BY PriceAssumption

LEMMA ClosedShape == Closed \in AdminState /\ Closed.pc = "closed" /\ Prepared(Closed) /\ FreshFor(Closed)
BY DEF Closed, AdminState, InDialog, Prepared, FreshFor

LEMMA AwayShape == Away \in BrandState /\ Away.pc = "away" /\ Buying(Away)
BY DEF Away, BrandState, Buying, Never

LEMMA PriceInvInit == PriceInit => PriceInv
<1> SUFFICES ASSUME PriceInit PROVE PriceInv
  OBVIOUS
<1>1. PICK c, o, s :
        /\ c \in Amounts
        /\ o = [cents |-> c, stripe |-> 1, active |-> TRUE, archived |-> Never]
        /\ s = [key |-> 1, cents |-> c, live |-> TRUE]
        /\ rows = <<o>> /\ stripe = <<s>>
        /\ served = {1} /\ admins = [a \in Admins |-> Closed] /\ brands = [b \in Brands |-> Away]
        /\ sweep = {} /\ swept = FALSE /\ failures = 0 /\ today = 0
  BY DEF PriceInit
<1>2. /\ o \in OfferRow /\ o.cents = c /\ o.stripe = 1 /\ o.active = TRUE /\ o.archived = Never
      /\ s \in StripePrice /\ s.key = 1 /\ s.cents = c /\ s.live = TRUE
  BY <1>1, PriceAssumption DEF OfferRow, StripePrice, Never
<1>3. /\ rows \in Seq(OfferRow) /\ stripe \in Seq(StripePrice) /\ Len(rows) = 1
      /\ Rows = {1} /\ DOMAIN stripe = {1} /\ rows[1] = o /\ stripe[1] = s
  BY <1>1, <1>2 DEF Rows
<1>4. PriceShape
  <2>1. admins \in [Admins -> AdminState] /\ brands \in [Brands -> BrandState]
    BY <1>1, ClosedShape, AwayShape
  <2>2. served \subseteq Rows /\ sweep \subseteq Rows /\ swept \in BOOLEAN
    BY <1>1, <1>3
  <2>3. failures \in 0..MaxFailures /\ today \in Nat
    BY <1>1, PriceBounds
  <2>4. QED
    BY <1>3, <2>1, <2>2, <2>3 DEF PriceShape
<1>5. ActiveRows = {1}
  BY <1>2, <1>3 DEF ActiveRows
<1>6. OneOffer /\ Keyed /\ OnlyRetired
  BY <1>1, <1>2, <1>3, <1>5 DEF OneOffer, Keyed, OnlyRetired
<1>7. (\A a \in Admins : Prepared(admins[a])) /\ (\A b \in Brands : Buying(brands[b]))
  BY <1>1, ClosedShape, AwayShape
<1>8. QED
  BY <1>4, <1>6, <1>7 DEF PriceInv

\* A step that leaves the table, the prices at Stripe and the day alone.
LEMMA TableStays ==
    ASSUME PriceInv, UNCHANGED <<rows, stripe, today>>,
           admins' \in [Admins -> AdminState], \A a \in Admins : Prepared(admins'[a]),
           brands' \in [Brands -> BrandState], \A b \in Brands : Buying(brands'[b]),
           served' \subseteq Rows, swept' \in BOOLEAN, failures' \in 0..MaxFailures,
           \A r \in sweep' : r \in Rows /\ Retired(r)
    PROVE  PriceInv'
<1>1. PriceShape'
  BY DEF PriceInv, PriceShape, Rows
<1>2. OneOffer' /\ Keyed'
  BY DEF PriceInv, OneOffer, ActiveRows, Rows, Keyed
<1>3. OnlyRetired'
  BY DEF PriceInv, OnlyRetired, Retired
<1>4. (\A a \in Admins : Prepared(admins[a]))' /\ (\A b \in Brands : Buying(brands[b]))'
  BY DEF Prepared, Buying, Rows, SameKey
<1>5. QED
  BY <1>1, <1>2, <1>3, <1>4 DEF PriceInv

LEMMA InPhaseShape ==
    ASSUME NEW q \in AdminState, q.pc \notin {"closed", "amount"}, Prepared(q)
    PROVE  /\ InPhase(q) \in AdminState /\ InPhase(q).pc \in {"confirm", "large_confirm"}
           /\ Prepared(InPhase(q)) /\ FreshFor(InPhase(q))
<1>1. /\ InPhase(q) \in AdminState /\ InPhase(q).pc \in {"confirm", "large_confirm"}
      /\ InPhase(q).cents = q.cents
  BY DEF InPhase, AdminState, InDialog
<1>2. q.cents \in Amounts
  BY DEF Prepared
<1>3. QED
  BY <1>1, <1>2 DEF Prepared, FreshFor

\* What an administrator does at his dialog, and his request in the database, but for the rows.
DialogStep(a) ==
    \/ OpenDialog(a) \/ Back(a) \/ CloseDialog(a) \/ Submit(a) \/ Guard(a)
    \/ \E c \in Amounts : Review(a, c)
    \/ FindPending(a) \/ SwitchRead(a) \/ InvalidateRegistry(a)

LEMMA DialogStepEffect ==
    ASSUME PriceInv, NEW a \in Admins, DialogStep(a)
    PROVE  /\ UNCHANGED <<rows, stripe, brands, sweep, swept, failures, today>>
           /\ served' \subseteq Rows
           /\ \E q \in AdminState : /\ admins' = [admins EXCEPT ![a] = q] /\ Prepared(q)
                                    /\ FreshFor(admins[a]) => FreshFor(q)
<1>0. /\ PriceShape /\ admins \in [Admins -> AdminState] /\ admins[a] \in AdminState /\ Prepared(admins[a])
      /\ rows \in Seq(OfferRow) /\ served \subseteq Rows /\ ActiveRows \subseteq Rows
  BY DEF PriceInv, PriceShape, ActiveRows
<1>1. UNCHANGED <<rows, stripe, brands, sweep, swept, failures, today>>
  BY DEF DialogStep, OpenDialog, Back, CloseDialog, Submit, Guard, Review, FindPending, SwitchRead,
         InvalidateRegistry
<1>2. served' \subseteq Rows
  BY <1>0
     DEF DialogStep, OpenDialog, Back, CloseDialog, Submit, Guard, Review, FindPending, SwitchRead,
         InvalidateRegistry
<1>. DEFINE Good == \E q \in AdminState : /\ admins' = [admins EXCEPT ![a] = q] /\ Prepared(q)
                                          /\ FreshFor(admins[a]) => FreshFor(q)
<1>3. ASSUME OpenDialog(a) PROVE Good
  <2>1. PICK r \in served : admins' = [admins EXCEPT ![a] = [Closed EXCEPT !.pc = "amount", !.shown = rows[r].cents]]
    BY <1>3 DEF OpenDialog
  <2>2. PICK q : q = [Closed EXCEPT !.pc = "amount", !.shown = rows[r].cents]
    OBVIOUS
  <2>3. rows[r].cents \in Nat
    <3>1. r \in 1..Len(rows)
      BY <1>0 DEF Rows
    <3>2. rows[r] \in OfferRow
      BY <1>0, <3>1
    <3>3. QED
      BY <3>2, PriceBounds DEF OfferRow
  <2>4. q \in AdminState /\ q.pc = "amount"
    BY <2>2, <2>3 DEF Closed, AdminState, InDialog
  <2>5. QED
    BY <2>1, <2>2, <2>4 DEF Prepared, FreshFor
<1>4. ASSUME NEW c \in Amounts, Review(a, c) PROVE Good
  <2>1. PICK q : q = [admins[a] EXCEPT !.pc = "confirm", !.cents = c]
    OBVIOUS
  <2>2. q \in AdminState /\ q.pc = "confirm" /\ q.cents = c /\ admins' = [admins EXCEPT ![a] = q]
    BY <1>0, <1>4, <2>1, PriceAssumption DEF Review, AdminState, InDialog
  <2>3. QED
    BY <2>2 DEF Prepared, FreshFor
<1>5. ASSUME Back(a) PROVE Good
  <2>1. PICK q : q = [admins[a] EXCEPT !.pc = IF @ = "confirm" THEN "amount" ELSE "confirm"]
    OBVIOUS
  <2>2. /\ q \in AdminState /\ q.pc \in {"amount", "confirm"} /\ q.cents = admins[a].cents
        /\ admins' = [admins EXCEPT ![a] = q] /\ admins[a].pc \in {"confirm", "large_confirm"}
    BY <1>0, <1>5, <2>1 DEF Back, AdminState, InDialog
  <2>3. QED
    BY <1>0, <2>2 DEF Prepared, FreshFor
<1>6. ASSUME CloseDialog(a) \/ InvalidateRegistry(a) PROVE Good
  BY <1>6, ClosedShape DEF CloseDialog, InvalidateRegistry
<1>7. ASSUME Submit(a) PROVE Good
  <2>1. PICK r \in ActiveRows :
         admins' = [admins EXCEPT ![a].pc = IF rows[r].cents = admins[a].cents THEN @ ELSE "read",
                                  ![a].ack = (admins[a].pc = "large_confirm"),
                                  ![a].old = IF rows[r].cents = admins[a].cents THEN 0 ELSE r]
    BY <1>7 DEF Submit
  <2>2. PICK q : q = [admins[a] EXCEPT !.pc = IF rows[r].cents = admins[a].cents THEN @ ELSE "read",
                                       !.ack = (admins[a].pc = "large_confirm"),
                                       !.old = IF rows[r].cents = admins[a].cents THEN 0 ELSE r]
    OBVIOUS
  <2>3. /\ admins[a].pc \in {"confirm", "large_confirm"} /\ r \in Nat
        /\ admins' = [admins EXCEPT ![a] = q]
    <3>1. admins[a].pc \in {"confirm", "large_confirm"}
      BY <1>7 DEF Submit
    <3>2. r \in Nat
      BY <1>0 DEF Rows
    <3>3. admins' = [admins EXCEPT ![a] = q]
      BY <1>0, <2>1, <2>2
    <3>4. QED
      BY <3>1, <3>2, <3>3
  <2>4. q \in AdminState /\ q.pc \in {"confirm", "large_confirm", "read"} /\ q.cents = admins[a].cents
    BY <1>0, <2>2, <2>3 DEF AdminState, InDialog, InRequest
  <2>5. QED
    BY <1>0, <2>3, <2>4 DEF Prepared, FreshFor
<1>8. ASSUME Guard(a) PROVE Good
  <2>0. admins[a].pc = "read"
    BY <1>8 DEF Guard
  <2>1. PICK p : p = InPhase(admins[a])
    OBVIOUS
  <2>2. p \in AdminState /\ p.pc \in {"confirm", "large_confirm"} /\ Prepared(p) /\ FreshFor(p)
    BY <1>0, <2>0, <2>1, InPhaseShape
  <2>3. PICK q, s : q = [p EXCEPT !.pc = "large_confirm"] /\ s = [admins[a] EXCEPT !.pc = "find"]
    OBVIOUS
  <2>4. q \in AdminState /\ q.pc = "large_confirm" /\ q.cents = p.cents
    BY <2>2, <2>3 DEF AdminState, InDialog
  <2>5. s \in AdminState /\ s.pc = "find" /\ s.cents = admins[a].cents
    BY <1>0, <2>3 DEF AdminState, InRequest
  <2>6. Prepared(q) /\ FreshFor(q) /\ Prepared(s) /\ FreshFor(s)
    BY <1>0, <2>0, <2>2, <2>4, <2>5 DEF Prepared, FreshFor
  <2>7. \/ admins' = [admins EXCEPT ![a] = p] \/ admins' = [admins EXCEPT ![a] = q]
        \/ admins' = [admins EXCEPT ![a] = s]
    BY <1>0, <1>8, <2>1, <2>3 DEF Guard, Refused
  <2>8. QED
    BY <2>2, <2>4, <2>5, <2>6, <2>7
<1>9. ASSUME FindPending(a) PROVE Good
  <2>0. admins[a].pc = "find"
    BY <1>9 DEF FindPending
  <2>1. CASE admins' = [admins EXCEPT ![a].pc = "insert"]
    <3>1. PICK q : q = [admins[a] EXCEPT !.pc = "insert"]
      OBVIOUS
    <3>2. q \in AdminState /\ q.pc = "insert" /\ q.cents = admins[a].cents /\ admins' = [admins EXCEPT ![a] = q]
      BY <1>0, <2>1, <3>1 DEF AdminState, InRequest
    <3>3. QED
      BY <1>0, <2>0, <3>2 DEF Prepared, FreshFor
  <2>2. ASSUME NEW r \in Pending(a), admins' = [admins EXCEPT ![a].pc = "stripe", ![a].pending = r]
        PROVE  Good
    <3>1. PICK q : q = [admins[a] EXCEPT !.pc = "stripe", !.pending = r]
      OBVIOUS
    <3>2. r \in Rows /\ r \in Nat /\ rows[r].stripe = 0 /\ ~rows[r].active
      BY <1>0 DEF Pending, Rows
    <3>3. /\ q \in AdminState /\ q.pc = "stripe" /\ q.cents = admins[a].cents /\ q.pending = r
          /\ admins' = [admins EXCEPT ![a] = q]
      BY <1>0, <2>2, <3>1, <3>2 DEF AdminState, InRequest
    <3>4. QED
      BY <1>0, <2>0, <3>2, <3>3 DEF Prepared, FreshFor
  <2>3. QED
    BY <1>9, <2>1, <2>2 DEF FindPending
<1>10. ASSUME SwitchRead(a) PROVE Good
  <2>0. admins[a].pc = "switch"
    BY <1>10 DEF SwitchRead
  <2>1. CASE admins' = Refused(a)
    BY <1>0, <2>0, <2>1, InPhaseShape DEF Refused
  <2>2. PICK o : o = CHOOSE r \in ActiveRows : TRUE
    OBVIOUS
  <2>3. o \in ActiveRows
    BY <2>2 DEF PriceInv, OneOffer
  <2>4. o \in Rows /\ o \in Nat /\ rows[o].active /\ rows[o].stripe # 0
    BY <1>0, <2>3 DEF ActiveRows, Rows, PriceInv, Keyed
  <2>5. CASE admins' = [admins EXCEPT ![a].pc = "write", ![a].old = CHOOSE r \in ActiveRows : TRUE]
    <3>1. PICK q : q = [admins[a] EXCEPT !.pc = "write", !.old = o]
      OBVIOUS
    <3>2. /\ q \in AdminState /\ q.pc = "write" /\ q.cents = admins[a].cents /\ q.old = o
          /\ q.pending = admins[a].pending
      BY <1>0, <2>4, <3>1 DEF AdminState, InRequest
    <3>3. admins' = [admins EXCEPT ![a].pc = "write", ![a].old = o]
      BY <2>2, <2>5, Zenon
    <3>4. admins' = [admins EXCEPT ![a] = q]
      BY <1>0, <3>1, <3>3
    <3>5. QED
      BY <1>0, <2>0, <2>4, <3>2, <3>4 DEF Prepared, FreshFor
  <2>6. QED
    BY <1>10, <2>1, <2>5 DEF SwitchRead
<1>11. Good
  <2>. HIDE DEF Good
  <2>1. QED
    BY <1>3, <1>4, <1>5, <1>6, <1>7, <1>8, <1>9, <1>10 DEF DialogStep
<1>12. QED
  BY <1>1, <1>2, <1>11

\* What a brand does.
BuyerStep(b) ==
    \/ LoadPlans(b) \/ Choose(b) \/ PriceChanged(b) \/ OpenSession(b) \/ Pay(b) \/ Activate(b) \/ Leave(b)

LEMMA BuyerStepEffect ==
    ASSUME PriceInv, NEW b \in Brands, BuyerStep(b)
    PROVE  /\ UNCHANGED <<rows, stripe, served, admins, sweep, swept, failures, today>>
           /\ \E q \in BrandState : brands' = [brands EXCEPT ![b] = q] /\ Buying(q)
<1>0. /\ PriceShape /\ brands \in [Brands -> BrandState] /\ brands[b] \in BrandState /\ Buying(brands[b])
      /\ rows \in Seq(OfferRow) /\ served \subseteq Rows /\ Rows \subseteq Nat /\ today \in Nat /\ Keyed
      /\ stripe \in Seq(StripePrice) /\ DOMAIN stripe \subseteq Nat
  BY DEF PriceInv, PriceShape, Rows
<1>1. UNCHANGED <<rows, stripe, served, admins, sweep, swept, failures, today>>
  BY DEF BuyerStep, LoadPlans, Choose, PriceChanged, OpenSession, Pay, Activate, Leave
<1>. DEFINE Good == \E q \in BrandState : brands' = [brands EXCEPT ![b] = q] /\ Buying(q)
<1>2. ASSUME LoadPlans(b) PROVE Good
  <2>1. PICK r \in Buyable : brands' = [brands EXCEPT ![b] = [Away EXCEPT !.pc = "quoted", !.row = r]]
    BY <1>2 DEF LoadPlans
  <2>2. PICK q : q = [Away EXCEPT !.pc = "quoted", !.row = r]
    OBVIOUS
  <2>3. r \in Rows /\ r \in Nat
    BY <1>0 DEF Buyable
  <2>4. q \in BrandState /\ q.pc = "quoted" /\ q.row = r
    BY <2>2, <2>3, AwayShape DEF BrandState
  <2>5. QED
    BY <2>1, <2>2, <2>3, <2>4 DEF Buying
<1>3. ASSUME Choose(b) PROVE Good
  <2>1. PICK q : q = [brands[b] EXCEPT !.pc = "checked", !.price = rows[brands[b].row].stripe]
    OBVIOUS
  <2>2. /\ brands[b].pc = "quoted" /\ rows[brands[b].row].active /\ brands[b].row \in Rows
        /\ brands' = [brands EXCEPT ![b] = q]
    BY <1>0, <1>3, <2>1 DEF Choose, Buying
  <2>3. /\ rows[brands[b].row].stripe \in DOMAIN stripe
        /\ stripe[rows[brands[b].row].stripe].key = brands[b].row
    BY <1>0, <2>2 DEF Keyed
  <2>4. /\ q \in BrandState /\ q.pc = "checked" /\ q.row = brands[b].row
        /\ q.price = rows[brands[b].row].stripe
    BY <1>0, <2>1, <2>3 DEF BrandState
  <2>5. QED
    BY <2>2, <2>3, <2>4 DEF Buying
<1>4. ASSUME PriceChanged(b) PROVE Good
  <2>1. PICK r \in Buyable : brands' = [brands EXCEPT ![b].row = r] /\ brands[b].pc = "quoted"
    BY <1>4 DEF PriceChanged
  <2>2. PICK q : q = [brands[b] EXCEPT !.row = r]
    OBVIOUS
  <2>3. r \in Rows /\ r \in Nat
    BY <1>0 DEF Buyable
  <2>4. q \in BrandState /\ q.pc = "quoted" /\ q.row = r /\ brands' = [brands EXCEPT ![b] = q]
    BY <1>0, <2>1, <2>2, <2>3 DEF BrandState
  <2>5. QED
    BY <2>3, <2>4 DEF Buying
<1>5. ASSUME OpenSession(b) PROVE Good
  <2>0. /\ brands[b].pc = "checked" /\ brands[b].row \in Rows
        /\ brands[b].price \in DOMAIN stripe /\ stripe[brands[b].price].key = brands[b].row
        /\ rows[brands[b].row].active \/ rows[brands[b].row].archived = today
    BY <1>0, <1>5 DEF OpenSession, Buying
  <2>1. CASE brands' = [brands EXCEPT ![b].pc = "session", ![b].opened = today]
    <3>1. PICK q : q = [brands[b] EXCEPT !.pc = "session", !.opened = today]
      OBVIOUS
    <3>2. /\ q \in BrandState /\ q.pc = "session" /\ q.row = brands[b].row /\ q.price = brands[b].price
          /\ q.opened = today
      <4>1. brands[b] \in BrandState /\ today \in Int
        BY <1>0
      <4>2. QED
        BY <3>1, <4>1 DEF BrandState
    <3>3. Buying(q)
      BY <1>0, <2>0, <3>2 DEF Buying
    <3>4. brands' = [brands EXCEPT ![b] = q]
      BY <1>0, <2>1, <3>1
    <3>5. QED
      BY <3>2, <3>3, <3>4
  <2>2. CASE brands' = [brands EXCEPT ![b].pc = "quoted", ![b].price = 0]
    <3>1. PICK q : q = [brands[b] EXCEPT !.pc = "quoted", !.price = 0]
      OBVIOUS
    <3>2. /\ q \in BrandState /\ q.pc = "quoted" /\ q.row = brands[b].row /\ brands' = [brands EXCEPT ![b] = q]
      BY <1>0, <2>2, <3>1 DEF BrandState
    <3>3. QED
      BY <2>0, <3>2 DEF Buying
  <2>3. QED
    BY <1>5, <2>1, <2>2 DEF OpenSession
<1>6. ASSUME NEW pc \in {"paid", "active"}, brands' = [brands EXCEPT ![b].pc = pc],
             brands[b].pc \in {"session", "paid"}
      PROVE  Good
  <2>1. PICK q : q = [brands[b] EXCEPT !.pc = pc]
    OBVIOUS
  <2>2. /\ q \in BrandState /\ q.pc = pc /\ q.row = brands[b].row /\ q.price = brands[b].price
        /\ brands' = [brands EXCEPT ![b] = q]
    BY <1>0, <1>6, <2>1 DEF BrandState
  <2>3. QED
    BY <1>0, <1>6, <2>2 DEF Buying
<1>7. ASSUME Pay(b) \/ Activate(b) PROVE Good
  BY <1>6, <1>7 DEF Pay, Activate, Payable
<1>8. ASSUME Leave(b) PROVE Good
  BY <1>8, AwayShape DEF Leave
<1>9. Good
  <2>. HIDE DEF Good
  <2>1. QED
    BY <1>2, <1>3, <1>4, <1>5, <1>7, <1>8 DEF BuyerStep
<1>10. QED
  BY <1>1, <1>9

LEMMA RestartKeeps ==
    ASSUME PriceInv, RestartApi
    PROVE  PriceInv'
<1>0. /\ PriceShape /\ admins \in [Admins -> AdminState] /\ brands \in [Brands -> BrandState]
      /\ ActiveRows \subseteq Rows
  BY DEF PriceInv, PriceShape, ActiveRows
<1>1. ASSUME NEW a \in Admins PROVE admins'[a] \in AdminState /\ Prepared(admins'[a])
  <2>1. Prepared(admins[a]) /\ admins[a] \in AdminState
    BY <1>0 DEF PriceInv
  <2>2. admins'[a] = admins[a] \/ (admins[a].pc \in InRequest /\ admins'[a] = InPhase(admins[a]))
    BY DEF RestartApi
  <2>3. QED
    BY <2>1, <2>2, InPhaseShape DEF InRequest
<1>2. ASSUME NEW b \in Brands PROVE brands'[b] \in BrandState /\ Buying(brands'[b])
  <2>1. Buying(brands[b]) /\ brands[b] \in BrandState
    BY <1>0 DEF PriceInv
  <2>2. PICK q : q = [brands[b] EXCEPT !.pc = "quoted", !.price = 0]
    OBVIOUS
  <2>3. brands'[b] = brands[b] \/ (brands[b].pc = "checked" /\ brands'[b] = q)
    BY <2>2 DEF RestartApi
  <2>4. q \in BrandState /\ q.pc = "quoted" /\ q.row = brands[b].row
    BY <2>1, <2>2 DEF BrandState
  <2>5. QED
    BY <2>1, <2>3, <2>4 DEF Buying
<1>3. admins' \in [Admins -> AdminState] /\ brands' \in [Brands -> BrandState]
  <2>1. DOMAIN admins' = Admins /\ admins' = [a \in Admins |-> admins'[a]]
    BY DEF RestartApi
  <2>2. DOMAIN brands' = Brands /\ brands' = [b \in Brands |-> brands'[b]]
    BY DEF RestartApi
  <2>3. QED
    BY <1>1, <1>2, <2>1, <2>2
<1>4. /\ UNCHANGED <<rows, stripe, today>> /\ served' \subseteq Rows /\ swept' \in BOOLEAN
      /\ failures' \in 0..MaxFailures /\ sweep' = {}
  BY <1>0 DEF RestartApi, PriceShape
<1>5. QED
  BY <1>1, <1>2, <1>3, <1>4, TableStays

\* A price is made at Stripe, once for a row.
LEMMA PriceIsMade ==
    ASSUME PriceInv, NEW p \in Rows, stripe' = WithPrice(p)
    PROVE  /\ stripe' \in Seq(StripePrice) /\ DOMAIN stripe \subseteq DOMAIN stripe'
           /\ \A i \in DOMAIN stripe : stripe'[i] = stripe[i]
           /\ \A i \in DOMAIN stripe' : \/ i \in DOMAIN stripe
                                       \/ /\ stripe'[i].key = p /\ stripe'[i].cents = rows[p].cents
                                          /\ stripe'[i].live
           /\ \E i \in DOMAIN stripe' : stripe'[i].key = p
<1>0. stripe \in Seq(StripePrice) /\ rows \in Seq(OfferRow) /\ p \in 1..Len(rows)
  BY DEF PriceInv, PriceShape, Rows
<1>1. CASE SameKey(p) # {}
  BY <1>0, <1>1 DEF WithPrice, SameKey
<1>2. CASE SameKey(p) = {}
  <2>1. PICK s : s = [key |-> p, cents |-> rows[p].cents, live |-> TRUE]
    OBVIOUS
  <2>2. rows[p] \in OfferRow
    BY <1>0
  <2>3. s \in StripePrice /\ s.key = p /\ s.cents = rows[p].cents /\ s.live
    BY <1>0, <2>1, <2>2 DEF OfferRow, StripePrice
  <2>4. stripe' = Append(stripe, s)
    BY <1>2, <2>1 DEF WithPrice
  <2>5. QED
    BY <1>0, <2>3, <2>4
<1>3. QED
  BY <1>1, <1>2

LEMMA PriceIsMadeKeeps ==
    ASSUME PriceInv, NEW p \in Rows, stripe' = WithPrice(p),
           UNCHANGED <<rows, served, brands, sweep, swept, failures, today>>,
           NEW a \in Admins, NEW q \in AdminState, admins' = [admins EXCEPT ![a] = q],
           q.cents \in Amounts,
           q.pc \in {"confirm", "large_confirm"} \/ (q.pc = "switch" /\ q.pending = p)
    PROVE  PriceInv'
<1>0. PriceShape /\ Keyed /\ OnlyRetired
  BY DEF PriceInv
<1>1. /\ stripe' \in Seq(StripePrice) /\ DOMAIN stripe \subseteq DOMAIN stripe'
      /\ \A i \in DOMAIN stripe : stripe'[i] = stripe[i]
      /\ \A i \in DOMAIN stripe' : \/ i \in DOMAIN stripe
                                  \/ /\ stripe'[i].key = p /\ stripe'[i].cents = rows[p].cents
                                     /\ stripe'[i].live
      /\ \E i \in DOMAIN stripe' : stripe'[i].key = p
  BY PriceIsMade
<1>2. PriceShape'
  BY <1>0, <1>1 DEF PriceShape, Rows
<1>3. OneOffer' /\ Keyed' /\ OnlyRetired'
  <2>1. OneOffer'
    BY DEF PriceInv, OneOffer, ActiveRows, Rows
  <2>2. p \in Rows /\ Rows' = Rows /\ UNCHANGED <<rows, sweep, today>>
    BY DEF Rows
  <2>3. \A i \in DOMAIN stripe' : stripe'[i].key \in Rows /\ stripe'[i].cents = rows[stripe'[i].key].cents
    BY <1>0, <1>1, <2>2 DEF Keyed
  <2>4. Keyed'
    BY <1>0, <1>1, <2>2, <2>3 DEF Keyed
  <2>5. \A r \in Rows : Retired(r)' <=> Retired(r)
    BY <2>2 DEF Retired
  <2>6. \A r \in sweep : r \in Rows
    BY <1>0 DEF PriceShape
  <2>7. \A i \in DOMAIN stripe' : ~stripe'[i].live => Retired(stripe'[i].key)
    BY <1>0, <1>1 DEF OnlyRetired
  <2>8. OnlyRetired'
    BY <1>0, <2>2, <2>3, <2>5, <2>6, <2>7 DEF OnlyRetired
  <2>9. QED
    BY <2>1, <2>4, <2>8
<1>4. ASSUME NEW d \in Admins PROVE Prepared(admins[d])'
  <2>1. CASE d = a
    BY <1>0, <1>1, <2>1 DEF Prepared, SameKey, Rows, PriceShape
  <2>2. CASE d # a
    <3>1. admins'[d] = admins[d] /\ Prepared(admins[d])
      BY <1>0, <2>2 DEF PriceInv, PriceShape
    <3>2. QED
      BY <1>1, <3>1 DEF Prepared, SameKey, Rows
  <2>3. QED
    BY <2>1, <2>2
<1>5. ASSUME NEW b \in Brands PROVE Buying(brands[b])'
  BY <1>1 DEF PriceInv, Buying, Rows
<1>6. QED
  BY <1>2, <1>3, <1>4, <1>5 DEF PriceInv

\* A pending row is inserted: it has no price yet, and is not on offer.
LEMMA InsertKeeps ==
    ASSUME PriceInv, NEW a \in Admins, InsertPending(a)
    PROVE  /\ PriceInv'
           /\ Fresh => Fresh'
<1>0. /\ PriceShape /\ Keyed /\ OnlyRetired /\ rows \in Seq(OfferRow) /\ admins[a] \in AdminState
      /\ admins \in [Admins -> AdminState] /\ Prepared(admins[a]) /\ Rows = 1..Len(rows) /\ Len(rows) \in Nat
  BY DEF PriceInv, PriceShape, Rows
<1>1. PICK n, q : /\ n = [cents |-> admins[a].cents, stripe |-> 0, active |-> FALSE, archived |-> Never]
                  /\ q = [admins[a] EXCEPT !.pc = "stripe", !.pending = Len(rows) + 1]
  OBVIOUS
<1>2. /\ admins[a].pc = "insert" /\ rows' = Append(rows, n)
      /\ UNCHANGED <<stripe, served, brands, sweep, swept, failures, today>>
  BY <1>1 DEF InsertPending
<1>3. admins' = [admins EXCEPT ![a] = q]
  BY <1>0, <1>1 DEF InsertPending
<1>4. n \in OfferRow /\ n.stripe = 0 /\ n.active = FALSE /\ n.archived = Never
  BY <1>0, <1>1, <1>2 DEF OfferRow, Prepared, Never
<1>5. q \in AdminState /\ q.pc = "stripe" /\ q.pending = Len(rows) + 1 /\ q.cents \in Amounts
  <2>1. admins[a].cents \in Amounts /\ Len(rows) + 1 \in Nat
    BY <1>0, <1>2 DEF Prepared
  <2>2. q \in AdminState /\ q.pc = "stripe" /\ q.pending = Len(rows) + 1 /\ q.cents = admins[a].cents
    BY <1>0, <1>1, <2>1 DEF AdminState, InRequest
  <2>3. QED
    BY <2>1, <2>2
<1>6. /\ rows' \in Seq(OfferRow) /\ Rows' = Rows \cup {Len(rows) + 1} /\ Len(rows) + 1 \notin Rows
      /\ \A r \in Rows : rows'[r] = rows[r]
      /\ rows'[Len(rows) + 1] = n
  BY <1>0, <1>2, <1>4 DEF Rows
<1>7. PriceShape'
  BY <1>0, <1>2, <1>3, <1>5, <1>6 DEF PriceShape
<1>8. ActiveRows' = ActiveRows
  BY <1>4, <1>6 DEF ActiveRows
<1>9. OneOffer' /\ Keyed' /\ OnlyRetired'
  <2>1. OneOffer'
    BY <1>6, <1>8 DEF PriceInv, OneOffer
  <2>2. Keyed'
    BY <1>0, <1>2, <1>4, <1>6 DEF Keyed
  <2>3. \A r \in Rows : Retired(r) => Retired(r)'
    BY <1>2, <1>6 DEF Retired
  <2>4. OnlyRetired'
    BY <1>0, <1>2, <2>3 DEF OnlyRetired, Keyed, PriceShape
  <2>5. QED
    BY <2>1, <2>2, <2>4
<1>10. ASSUME NEW d \in Admins PROVE Prepared(admins[d])' /\ (Fresh => FreshFor(admins[d])')
  <2>1. CASE d = a
    BY <1>0, <1>3, <1>4, <1>5, <1>6, <2>1 DEF Prepared, FreshFor
  <2>2. CASE d # a
    <3>1. admins'[d] = admins[d] /\ Prepared(admins[d]) /\ (Fresh => FreshFor(admins[d]))
      BY <1>0, <1>3, <2>2 DEF PriceInv, Fresh
    <3>2. QED
      BY <1>2, <1>6, <3>1 DEF Prepared, SameKey, FreshFor
  <2>3. QED
    BY <2>1, <2>2
<1>11. ASSUME NEW b \in Brands PROVE Buying(brands[b])'
  BY <1>2, <1>6 DEF PriceInv, Buying
<1>12. QED
  BY <1>7, <1>9, <1>10, <1>11 DEF PriceInv, Fresh

\* The rows after a switch.
LEMMA SwitchedRows ==
    ASSUME PriceInv, NEW a \in Admins, admins[a].pc = "write", rows' = Switched(a), UNCHANGED stripe
    PROVE  /\ rows' \in Seq(OfferRow) /\ Rows' = Rows
           /\ admins[a].pending \in Rows /\ admins[a].old \in Rows
           /\ \A r \in Rows :
                 /\ rows'[r].cents = rows[r].cents
                 /\ rows'[r].active <=> r = admins[a].pending \/ (rows[r].active /\ r # admins[a].old)
                 /\ rows'[r].archived = IF r = admins[a].old THEN today ELSE rows[r].archived
                 /\ r # admins[a].pending => rows'[r].stripe = rows[r].stripe
           /\ rows'[admins[a].pending].stripe \in DOMAIN stripe
           /\ rows'[admins[a].pending].stripe # 0
           /\ stripe[rows'[admins[a].pending].stripe].key = admins[a].pending
<1>0. /\ rows \in Seq(OfferRow) /\ Rows = 1..Len(rows) /\ Prepared(admins[a]) /\ today \in Int
      /\ stripe \in Seq(StripePrice)
  BY DEF PriceInv, PriceShape, Rows
<1>1. PICK p, o, k : /\ p = admins[a].pending /\ o = admins[a].old
                     /\ k = CHOOSE i \in SameKey(p) : TRUE
  OBVIOUS
<1>2. p \in 1..Len(rows) /\ o \in 1..Len(rows) /\ SameKey(p) # {}
  BY <1>0, <1>1 DEF Prepared
<1>3. k \in SameKey(p)
  BY <1>1, <1>2
<1>4. k \in DOMAIN stripe /\ stripe[k].key = p /\ k \in Nat /\ k # 0
  BY <1>0, <1>3 DEF SameKey
<1>5. PICK x, y : /\ x = [rows[o] EXCEPT !.active = FALSE, !.archived = today]
                  /\ y = [(IF p = o THEN x ELSE rows[p]) EXCEPT !.active = TRUE, !.stripe = k]
  OBVIOUS
<1>6. /\ x \in OfferRow /\ x.active = FALSE /\ x.archived = today /\ x.stripe = rows[o].stripe
      /\ x.cents = rows[o].cents
  <2>1. rows[o] \in OfferRow
    BY <1>0, <1>2
  <2>2. QED
    BY <1>0, <1>5, <2>1 DEF OfferRow
<1>7. /\ y \in OfferRow /\ y.active = TRUE /\ y.stripe = k /\ y.cents = rows[p].cents
      /\ y.archived = IF p = o THEN today ELSE rows[p].archived
  <2>1. rows[p] \in OfferRow
    BY <1>0, <1>2
  <2>2. QED
    BY <1>4, <1>5, <1>6, <2>1 DEF OfferRow
<1>8. PICK mid : mid = [rows EXCEPT ![o] = x]
  OBVIOUS
<1>9. mid \in Seq(OfferRow) /\ Len(mid) = Len(rows) /\ \A r \in Rows : mid[r] = IF r = o THEN x ELSE rows[r]
  BY <1>0, <1>2, <1>6, <1>8
<1>10. rows' = [mid EXCEPT ![p] = y]
  <2>1. rows' = [[rows EXCEPT ![o].active = FALSE, ![o].archived = today]
                   EXCEPT ![p].active = TRUE, ![p].stripe = k]
    BY <1>1 DEF Switched
  <2>2. [rows EXCEPT ![o].active = FALSE, ![o].archived = today] = mid
    BY <1>0, <1>2, <1>5, <1>8
  <2>3. mid[p] = IF p = o THEN x ELSE rows[p]
    BY <1>0, <1>2, <1>9
  <2>4. [mid EXCEPT ![p].active = TRUE, ![p].stripe = k] = [mid EXCEPT ![p] = [mid[p] EXCEPT !.active = TRUE, !.stripe = k]]
    BY <1>0, <1>2, <1>9
  <2>5. QED
    BY <1>5, <2>1, <2>2, <2>3, <2>4
<1>11. rows' \in Seq(OfferRow) /\ Len(rows') = Len(rows)
       /\ \A r \in Rows : rows'[r] = IF r = p THEN y ELSE IF r = o THEN x ELSE rows[r]
  BY <1>0, <1>2, <1>7, <1>9, <1>10
<1>12. Rows' = Rows /\ p \in Rows /\ o \in Rows /\ rows'[p] = y
  BY <1>0, <1>2, <1>11 DEF Rows
<1>13. ASSUME NEW r \in Rows
       PROVE  /\ rows'[r].cents = rows[r].cents
              /\ rows'[r].active <=> r = p \/ (rows[r].active /\ r # o)
              /\ rows'[r].archived = IF r = o THEN today ELSE rows[r].archived
              /\ r # p => rows'[r].stripe = rows[r].stripe
  <2>1. CASE r = p
    BY <1>7, <1>12, <2>1
  <2>2. CASE r # p /\ r = o
    BY <1>6, <1>11, <2>2
  <2>3. CASE r # p /\ r # o
    BY <1>11, <2>3
  <2>4. QED
    BY <2>1, <2>2, <2>3
<1>14. QED
  BY <1>1, <1>4, <1>7, <1>11, <1>12, <1>13

\* On the first day no price may be archived.
LEMMA NoneRetiredAtFirst ==
    ASSUME PriceInv, today = 0
    PROVE  \A r \in Rows : ~Retired(r)
<1> SUFFICES ASSUME NEW r \in Rows, Retired(r) PROVE FALSE
  OBVIOUS
<1>1. rows[r].archived \in 0..0 /\ rows[r].archived <= 0 - Deferral
  BY DEF PriceInv, Keyed, Retired
<1>2. QED
  BY <1>1, PriceBounds

\* The switch commits: what is retired is neither the row that is replaced nor the one that
\* comes on offer.
LEMMA SwitchKeeps ==
    ASSUME PriceInv, NEW a \in Admins, SwitchWrite(a), today = 0 \/ Fresh
    PROVE  /\ PriceInv'
           /\ Rows' = Rows /\ UNCHANGED <<stripe, sweep, swept, failures, today, brands>>
           /\ \A r \in Rows : /\ Retired(r) => rows'[r].archived = rows[r].archived /\ rows'[r].stripe = rows[r].stripe
                              /\ rows'[r].archived = rows[r].archived \/ rows'[r].archived = today
                              /\ Retired(r)' => Retired(r)
           /\ \E q \in AdminState : /\ admins' = [admins EXCEPT ![a] = q]
                                    /\ q.pc \in {"confirm", "large_confirm", "invalidate"}
<1>0. /\ PriceShape /\ Keyed /\ OnlyRetired /\ rows \in Seq(OfferRow) /\ admins[a] \in AdminState
      /\ admins \in [Admins -> AdminState] /\ Prepared(admins[a]) /\ admins[a].pc = "write" /\ today \in Nat
      /\ UNCHANGED <<stripe, brands, sweep, swept, failures, today>> /\ Rows \subseteq Nat /\ stripe \in Seq(StripePrice)
  BY DEF PriceInv, PriceShape, Rows, SwitchWrite
<1>1. CASE admins' = Refused(a) /\ UNCHANGED <<rows, served>>
  <2>1. PICK q : q = InPhase(admins[a])
    OBVIOUS
  <2>2. q \in AdminState /\ q.pc \in {"confirm", "large_confirm"} /\ Prepared(q)
    BY <1>0, <2>1, InPhaseShape
  <2>3. admins' = [admins EXCEPT ![a] = q]
    BY <1>1, <2>1 DEF Refused
  <2>4. admins' \in [Admins -> AdminState] /\ \A d \in Admins : Prepared(admins'[d])
    BY <1>0, <2>2, <2>3 DEF PriceInv
  <2>5. PriceInv'
    BY <1>0, <1>1, <2>4, TableStays DEF PriceInv, PriceShape, OnlyRetired
  <2>6. QED
    BY <1>0, <1>1, <2>2, <2>3, <2>5 DEF Rows, Retired
<1>2. CASE /\ ActiveRows \subseteq {admins[a].old, admins[a].pending} /\ rows' = Switched(a)
           /\ served' = served \cup {admins[a].pending}
           /\ admins' = [admins EXCEPT ![a].pc = "invalidate"]
  <2>1. PICK p, o : p = admins[a].pending /\ o = admins[a].old
    OBVIOUS
  <2>2. /\ rows' \in Seq(OfferRow) /\ Rows' = Rows /\ p \in Rows /\ o \in Rows
        /\ \A r \in Rows :
              /\ rows'[r].cents = rows[r].cents
              /\ rows'[r].active <=> r = p \/ (rows[r].active /\ r # o)
              /\ rows'[r].archived = IF r = o THEN today ELSE rows[r].archived
              /\ r # p => rows'[r].stripe = rows[r].stripe
        /\ rows'[p].stripe \in DOMAIN stripe /\ rows'[p].stripe # 0 /\ stripe[rows'[p].stripe].key = p
    BY <1>0, <1>2, <2>1, SwitchedRows
  <2>3. PICK q : q = [admins[a] EXCEPT !.pc = "invalidate"]
    OBVIOUS
  <2>4. q \in AdminState /\ q.pc = "invalidate" /\ q.cents \in Amounts
    BY <1>0, <2>3 DEF AdminState, InRequest, Prepared
  <2>5. admins' = [admins EXCEPT ![a] = q]
    BY <1>0, <1>2, <2>3
  <2>6. PriceShape'
    <3>1. admins' \in [Admins -> AdminState]
      BY <1>0, <2>4, <2>5
    <3>2. served' \subseteq Rows
      BY <1>0, <1>2, <2>1, <2>2 DEF PriceShape
    <3>3. QED
      BY <1>0, <2>2, <3>1, <3>2 DEF PriceShape
  <2>7. ActiveRows' = {p}
    <3>1. ActiveRows \subseteq {o, p}
      BY <1>2, <2>1
    <3>2. ASSUME NEW r \in Rows, rows'[r].active PROVE r = p
      <4>1. rows[r].active /\ r # o => r \in ActiveRows
        BY DEF ActiveRows
      <4>2. QED
        BY <2>2, <3>1, <3>2, <4>1
    <3>3. QED
      BY <2>2, <3>2 DEF ActiveRows
  <2>8. OneOffer'
    BY <2>2, <2>7 DEF OneOffer
  <2>9. rows[o].stripe # 0
    BY <1>0, <2>1 DEF Prepared
  <2>10. Keyed'
    <3>1. \A i \in DOMAIN stripe : stripe[i].key \in Rows /\ stripe[i].cents = rows'[stripe[i].key].cents
      BY <1>0, <2>2 DEF Keyed
    <3>2. ASSUME NEW r \in Rows
          PROVE  /\ rows'[r].stripe # 0 => rows'[r].stripe \in DOMAIN stripe /\ stripe[rows'[r].stripe].key = r
                 /\ rows'[r].active => rows'[r].stripe # 0
                 /\ rows'[r].archived # Never => rows'[r].stripe # 0 /\ rows'[r].archived \in 0..today
      <4>1. CASE r = p
        <5>1. rows[p].archived # Never => rows[p].archived \in 0..today
          BY <1>0, <2>2 DEF Keyed
        <5>2. QED
          BY <1>0, <2>2, <4>1, <5>1
      <4>2. CASE r # p
        <5>1. /\ rows'[r].stripe = rows[r].stripe
              /\ rows[r].stripe # 0 => rows[r].stripe \in DOMAIN stripe /\ stripe[rows[r].stripe].key = r
              /\ rows[r].active => rows[r].stripe # 0
              /\ rows[r].archived # Never => rows[r].stripe # 0 /\ rows[r].archived \in 0..today
          BY <1>0, <2>2, <4>2 DEF Keyed
        <5>2. QED
          BY <1>0, <2>2, <2>9, <4>2, <5>1, SMTT(20)
      <4>3. QED
        BY <4>1, <4>2
    <3>3. QED
      BY <1>0, <2>2, <3>1, <3>2 DEF Keyed
  <2>11. \A r \in Rows : Retired(r) => r # p /\ r # o
    <3>1. CASE today = 0
      BY <3>1, NoneRetiredAtFirst
    <3>2. CASE Fresh
      BY <1>0, <2>1, <3>2 DEF Fresh, FreshFor, Retired
    <3>3. QED
      BY <3>1, <3>2
  <2>12. OnlyRetired'
    <3>1. \A r \in Rows : Retired(r) => Retired(r)'
      BY <1>0, <2>2, <2>11 DEF Retired
    <3>2. QED
      BY <1>0, <3>1 DEF OnlyRetired, Keyed, PriceShape
  <2>13. ASSUME NEW d \in Admins PROVE Prepared(admins[d])'
    <3>1. CASE d = a
      BY <1>0, <2>4, <2>5, <3>1 DEF Prepared
    <3>2. CASE d # a
      <4>1. admins'[d] = admins[d] /\ Prepared(admins[d])
        BY <1>0, <2>5, <3>2 DEF PriceInv
      <4>2. \A r \in Rows : rows[r].stripe # 0 => rows'[r].stripe # 0
        BY <2>2
      <4>3. UNCHANGED stripe /\ Rows' = Rows
        BY <1>0, <2>2
      <4>4. QED
        BY <4>1, <4>2, <4>3 DEF Prepared, SameKey
    <3>3. QED
      BY <3>1, <3>2
  <2>14. ASSUME NEW b \in Brands PROVE Buying(brands[b])'
    <3>1. Buying(brands[b])
      BY DEF PriceInv
    <3>2. ASSUME NEW r \in Rows, rows[r].active PROVE rows'[r].active \/ rows'[r].archived = today
      BY <2>2, <3>2
    <3>3. ASSUME NEW r \in Rows, NEW t \in 0..today, rows[r].active \/ rows[r].archived >= t
          PROVE  rows'[r].active \/ rows'[r].archived >= t
      BY <1>0, <2>2, <3>3
    <3>4. QED
      BY <1>0, <2>2, <3>1, <3>2, <3>3 DEF Buying
  <2>15. PriceInv'
    BY <2>6, <2>8, <2>10, <2>12, <2>13, <2>14 DEF PriceInv
  <2>16. ASSUME NEW r \in Rows
         PROVE  /\ Retired(r) => rows'[r].archived = rows[r].archived /\ rows'[r].stripe = rows[r].stripe
                /\ rows'[r].archived = rows[r].archived \/ rows'[r].archived = today
                /\ Retired(r)' => Retired(r)
    <3>1. Retired(r)' => r # p /\ r # o
      BY <1>0, <2>2, PriceBounds DEF Retired
    <3>2. QED
      BY <1>0, <2>2, <2>11, <3>1 DEF Retired
  <2>17. QED
    BY <1>0, <2>2, <2>4, <2>5, <2>15, <2>16
<1>3. QED
  BY <1>1, <1>2 DEF SwitchWrite

LEMMA StripeCallKeeps ==
    ASSUME PriceInv, NEW a \in Admins, CreatePrice(a) \/ RequestFails(a)
    PROVE  /\ PriceInv' /\ UNCHANGED <<rows, sweep, swept, failures, today>>
           /\ \A i \in DOMAIN stripe : i \in DOMAIN stripe' /\ stripe'[i] = stripe[i]
           /\ \E q \in AdminState : /\ admins' = [admins EXCEPT ![a] = q]
                                    /\ q.pc # "closed" => admins[a].pc # "closed"
                                    /\ FreshFor(admins[a]) => FreshFor(q)
<1>0. /\ PriceShape /\ admins[a] \in AdminState /\ admins \in [Admins -> AdminState] /\ Prepared(admins[a])
      /\ served \subseteq Rows /\ brands \in [Brands -> BrandState] /\ OnlyRetired
      /\ admins[a].pc \in InRequest /\ UNCHANGED <<rows, served, brands, sweep, swept, failures, today>>
  BY DEF PriceInv, PriceShape, CreatePrice, RequestFails, InRequest
<1>1. admins[a].cents \in Amounts /\ admins[a].pc \notin {"closed", "amount"}
  BY <1>0 DEF Prepared, InRequest
<1>2. PICK q : q = IF RequestFails(a) THEN InPhase(admins[a]) ELSE [admins[a] EXCEPT !.pc = "switch"]
  OBVIOUS
<1>3. CASE RequestFails(a)
  <2>1. /\ q \in AdminState /\ q.pc \in {"confirm", "large_confirm"} /\ Prepared(q) /\ FreshFor(q)
        /\ admins' = [admins EXCEPT ![a] = q]
    BY <1>0, <1>1, <1>2, <1>3, InPhaseShape DEF RequestFails, Refused
  <2>2. CASE UNCHANGED stripe
    <3>1. admins' \in [Admins -> AdminState] /\ \A d \in Admins : Prepared(admins'[d])
      BY <1>0, <2>1 DEF PriceInv
    <3>2. PriceInv'
      BY <1>0, <2>2, <3>1, TableStays DEF PriceInv, PriceShape, OnlyRetired
    <3>3. QED
      BY <1>0, <1>1, <2>1, <2>2, <3>2
  <2>3. CASE admins[a].pc = "stripe" /\ stripe' = WithPrice(admins[a].pending)
    <3>1. admins[a].pending \in Rows /\ q.cents \in Amounts
      BY <1>0, <2>1, <2>3 DEF Prepared
    <3>2. PriceInv'
      BY <1>0, <2>1, <2>3, <3>1, PriceIsMadeKeeps
    <3>3. \A i \in DOMAIN stripe : i \in DOMAIN stripe' /\ stripe'[i] = stripe[i]
      BY <2>3, <3>1, PriceIsMade
    <3>4. QED
      BY <1>0, <1>1, <2>1, <3>2, <3>3
  <2>4. QED
    BY <1>3, <2>2, <2>3 DEF RequestFails
<1>4. CASE CreatePrice(a) /\ ~RequestFails(a)
  <2>1. /\ q \in AdminState /\ q.pc = "switch" /\ q.pending = admins[a].pending /\ q.cents = admins[a].cents
        /\ q.old = admins[a].old
    BY <1>0, <1>2, <1>4 DEF AdminState, InRequest
  <2>2. /\ admins' = [admins EXCEPT ![a] = q] /\ admins[a].pc = "stripe"
        /\ stripe' = WithPrice(admins[a].pending) /\ admins[a].pending \in Rows
    BY <1>0, <1>2, <1>4 DEF CreatePrice, Prepared
  <2>3. PriceInv'
    BY <1>0, <1>1, <2>1, <2>2, PriceIsMadeKeeps
  <2>4. \A i \in DOMAIN stripe : i \in DOMAIN stripe' /\ stripe'[i] = stripe[i]
    BY <2>2, PriceIsMade
  <2>5. FreshFor(admins[a]) => FreshFor(q)
    BY <2>1, <2>2 DEF FreshFor
  <2>6. QED
    BY <1>0, <1>1, <2>1, <2>2, <2>3, <2>4, <2>5
<1>5. QED
  BY <1>3, <1>4

\* The archive of the worker.
LEMMA ArchiveKeeps ==
    ASSUME PriceInv, ListArchivable \/ ArchiveOne \/ ArchiveFails
    PROVE  /\ PriceInv' /\ UNCHANGED <<rows, admins, today>>
<1>0. /\ PriceShape /\ Keyed /\ OnlyRetired /\ stripe \in Seq(StripePrice) /\ sweep \subseteq Rows
      /\ admins \in [Admins -> AdminState] /\ brands \in [Brands -> BrandState] /\ served \subseteq Rows
      /\ failures \in 0..MaxFailures /\ swept \in BOOLEAN /\ today \in Nat
  BY DEF PriceInv, PriceShape
<1>1. CASE ListArchivable
  <2>1. \A r \in Archivable : r \in Rows /\ Retired(r)
    BY <1>0, PriceBounds DEF Archivable, Retired
  <2>2. PriceInv'
    BY <1>0, <1>1, <2>1, TableStays DEF ListArchivable, PriceInv
  <2>3. QED
    BY <1>1, <2>2 DEF ListArchivable
<1>2. CASE ArchiveFails
  <2>1. /\ sweep' \subseteq sweep /\ UNCHANGED <<rows, stripe, served, admins, brands, swept, today>>
        /\ failures' \in 0..MaxFailures
    BY <1>0, <1>2, PriceBounds DEF ArchiveFails
  <2>2. PriceInv'
    BY <1>0, <2>1, TableStays DEF PriceInv, OnlyRetired
  <2>3. QED
    BY <2>1, <2>2
<1>3. CASE ArchiveOne
  <2>1. PICK r \in sweep : /\ sweep' = sweep \ {r}
                          /\ stripe' = [stripe EXCEPT ![rows[r].stripe].live = FALSE]
    BY <1>3 DEF ArchiveOne
  <2>2. UNCHANGED <<rows, served, admins, brands, swept, failures, today>>
    BY <1>3 DEF ArchiveOne
  <2>3. PICK k : k = rows[r].stripe
    OBVIOUS
  <2>4. r \in Rows /\ Retired(r) /\ k \in DOMAIN stripe /\ stripe[k].key = r
    BY <1>0, <2>1, <2>3 DEF OnlyRetired, Keyed, Retired
  <2>5. /\ stripe' \in Seq(StripePrice) /\ DOMAIN stripe' = DOMAIN stripe
        /\ \A i \in DOMAIN stripe : /\ stripe'[i].key = stripe[i].key /\ stripe'[i].cents = stripe[i].cents
                                    /\ i # k => stripe'[i] = stripe[i]
    <3>1. PICK s : s = [stripe[k] EXCEPT !.live = FALSE]
      OBVIOUS
    <3>2. stripe[k] \in StripePrice
      BY <1>0, <2>4
    <3>3. s \in StripePrice /\ s.key = stripe[k].key /\ s.cents = stripe[k].cents
      BY <3>2, <3>1 DEF StripePrice
    <3>4. stripe' = [stripe EXCEPT ![k] = s]
      BY <1>0, <2>1, <2>3, <2>4, <3>1
    <3>5. QED
      BY <1>0, <2>4, <3>3, <3>4
  <2>6. PriceShape'
    BY <1>0, <2>1, <2>2, <2>5 DEF PriceShape, Rows
  <2>7. OneOffer' /\ Keyed'
    BY <1>0, <2>2, <2>5, ZenonT(40) DEF PriceInv, OneOffer, ActiveRows, Rows, Keyed
  <2>8. OnlyRetired'
    <3>1. \A x : Retired(x) => Retired(x)'
      BY <2>2 DEF Retired
    <3>2. ASSUME NEW i \in DOMAIN stripe, ~stripe'[i].live PROVE Retired(stripe[i].key)
      <4>1. CASE i = k
        BY <2>4, <4>1
      <4>2. CASE i # k
        BY <1>0, <2>5, <3>2, <4>2 DEF OnlyRetired
      <4>3. QED
        BY <4>1, <4>2
    <3>3. \A x \in sweep' : Retired(x)'
      BY <1>0, <2>1, <3>1 DEF OnlyRetired
    <3>4. QED
      BY <2>2, <2>5, <3>2, <3>3 DEF OnlyRetired, Retired
  <2>9. (\A a \in Admins : Prepared(admins[a]))' /\ (\A b \in Brands : Buying(brands[b]))'
    BY <2>2, <2>5 DEF PriceInv, Prepared, Buying, Rows, SameKey
  <2>10. QED
    BY <2>2, <2>6, <2>7, <2>8, <2>9 DEF PriceInv
<1>4. QED
  BY <1>1, <1>2, <1>3

LEMMA NextDayKeeps ==
    ASSUME PriceInv, NextDayOfPrices
    PROVE  PriceInv'
<1>0. /\ PriceShape /\ Keyed /\ OnlyRetired /\ today \in Nat /\ today' = today + 1 /\ sweep = {}
      /\ rows \in Seq(OfferRow)
      /\ swept' = FALSE /\ UNCHANGED <<rows, stripe, served, admins, brands, sweep, failures>>
  BY DEF PriceInv, PriceShape, NextDayOfPrices
<1>1. PriceShape'
  <2>1. today' \in Nat /\ Rows' = Rows
    BY <1>0 DEF Rows
  <2>2. QED
    BY <1>0, <2>1 DEF PriceShape
<1>2. OneOffer'
  BY <1>0 DEF PriceInv, OneOffer, ActiveRows, Rows
<1>3. Keyed'
  BY <1>0 DEF Keyed, Rows
<1>4. OnlyRetired'
  <2>1. ASSUME NEW r \in Rows, Retired(r) PROVE Retired(r)'
    <3>0. rows[r] \in OfferRow
      BY <1>0 DEF Rows
    <3>1. rows[r].archived \in Int
      BY <3>0 DEF OfferRow
    <3>2. QED
      BY <1>0, <2>1, <3>1, PriceBounds DEF Retired
  <2>2. QED
    BY <1>0, <2>1 DEF OnlyRetired, Keyed
<1>5. \A a \in Admins : Prepared(admins[a])'
  BY <1>0 DEF PriceInv, Prepared, Rows, SameKey
<1>6. ASSUME NEW b \in Brands PROVE Buying(brands[b])'
  <2>1. Buying(brands[b]) /\ brands[b].pc # "checked"
    BY DEF PriceInv, NextDayOfPrices
  <2>2. QED
    BY <1>0, <2>1 DEF Buying, Rows
<1>7. QED
  BY <1>1, <1>2, <1>3, <1>4, <1>5, <1>6 DEF PriceInv

LEMMA PriceInvStep ==
    ASSUME PriceInv, PriceNext, today' = 0 \/ Fresh
    PROVE  PriceInv'
<1>0. /\ admins \in [Admins -> AdminState] /\ brands \in [Brands -> BrandState]
      /\ swept \in BOOLEAN /\ failures \in 0..MaxFailures /\ served \subseteq Rows
      /\ \A r \in sweep : r \in Rows /\ Retired(r)
  BY DEF PriceInv, PriceShape, OnlyRetired
<1>1. ASSUME NEW a \in Admins, DialogStep(a) PROVE PriceInv'
  <2>1. /\ UNCHANGED <<rows, stripe, brands, sweep, swept, failures, today>> /\ served' \subseteq Rows
        /\ \E q \in AdminState : admins' = [admins EXCEPT ![a] = q] /\ Prepared(q)
    BY <1>1, DialogStepEffect
  <2>2. admins' \in [Admins -> AdminState] /\ \A d \in Admins : Prepared(admins'[d])
    BY <1>0, <2>1 DEF PriceInv
  <2>3. QED
    BY <1>0, <2>1, <2>2, TableStays DEF PriceInv
<1>2. ASSUME NEW b \in Brands, BuyerStep(b) PROVE PriceInv'
  <2>1. /\ UNCHANGED <<rows, stripe, served, admins, sweep, swept, failures, today>>
        /\ \E q \in BrandState : brands' = [brands EXCEPT ![b] = q] /\ Buying(q)
    BY <1>2, BuyerStepEffect
  <2>2. brands' \in [Brands -> BrandState] /\ \A d \in Brands : Buying(brands'[d])
    BY <1>0, <2>1 DEF PriceInv
  <2>3. QED
    BY <1>0, <2>1, <2>2, TableStays DEF PriceInv
<1>3. ASSUME NEW a \in Admins, SwitchWrite(a) PROVE PriceInv'
  <2>1. today' = today
    BY <1>3 DEF SwitchWrite
  <2>2. QED
    BY <1>3, <2>1, SwitchKeeps
<1>4. QED
  BY <1>1, <1>2, <1>3, InsertKeeps, StripeCallKeeps, ArchiveKeeps, NextDayKeeps, RestartKeeps
     DEF PriceNext, DialogStep, BuyerStep

(* One administrator at a time. *)

LEMMA OneOfFew ==
    ASSUME NEW S, IsFiniteSet(S), Cardinality(S) <= 1, NEW x \in S, NEW y \in S
    PROVE  x = y
<1>1. Cardinality(S \ {x}) = Cardinality(S) - 1 /\ IsFiniteSet(S \ {x})
  BY FS_RemoveElement
<1>2. Cardinality(S \ {x}) = 0
  BY <1>1, FS_CardinalityType
<1>3. S \ {x} = {}
  BY <1>1, <1>2, FS_EmptySet
<1>4. QED
  BY <1>3

LEMMA SoloInvInit == PriceInit => SoloInv
<1> SUFFICES ASSUME PriceInit PROVE SoloInv
  OBVIOUS
<1>1. \A a \in Admins : admins[a].pc = "closed"
  BY ClosedShape DEF PriceInit
<1>2. OpenDialogs = {}
  BY <1>1 DEF OpenDialogs
<1>3. QED
  BY <1>1, <1>2, FS_EmptySet DEF SoloInv, Fresh, FreshFor

LEMMA SoloInvStep ==
    ASSUME PriceInv, SoloInv, PriceNext, Cardinality(OpenDialogs') <= 1
    PROVE  SoloInv'
<1>0. admins \in [Admins -> AdminState] /\ Fresh /\ IsFiniteSet(OpenDialogs)
  BY DEF PriceInv, PriceShape, SoloInv
<1>1. ASSUME NEW a \in Admins, NEW q, admins' = [admins EXCEPT ![a] = q], UNCHANGED rows, FreshFor(q)
      PROVE  SoloInv'
  <2>1. \A d \in Admins : d # a => admins'[d] = admins[d]
    BY <1>0, <1>1
  <2>2. IsFiniteSet(OpenDialogs \cup {a}) /\ OpenDialogs' \subseteq OpenDialogs \cup {a}
    BY <1>0, <2>1, FS_AddElement DEF OpenDialogs
  <2>3. IsFiniteSet(OpenDialogs')
    BY <2>2, FS_Subset
  <2>4. Fresh'
    BY <1>0, <1>1, <2>1 DEF Fresh, FreshFor
  <2>5. QED
    BY <2>3, <2>4 DEF SoloInv
<1>2. ASSUME UNCHANGED <<rows, admins>> PROVE SoloInv'
  BY <1>2 DEF SoloInv, OpenDialogs, Fresh, FreshFor
<1>3. ASSUME NEW a \in Admins, DialogStep(a) PROVE SoloInv'
  <2>1. UNCHANGED rows /\ \E q : admins' = [admins EXCEPT ![a] = q] /\ (FreshFor(admins[a]) => FreshFor(q))
    BY <1>3, DialogStepEffect
  <2>2. QED
    BY <1>0, <1>1, <2>1 DEF Fresh
<1>4. ASSUME NEW a \in Admins, CreatePrice(a) \/ RequestFails(a) PROVE SoloInv'
  <2>1. UNCHANGED rows /\ \E q : admins' = [admins EXCEPT ![a] = q] /\ (FreshFor(admins[a]) => FreshFor(q))
    BY <1>4, StripeCallKeeps
  <2>2. QED
    BY <1>0, <1>1, <2>1 DEF Fresh
<1>5. ASSUME NEW a \in Admins, InsertPending(a) PROVE SoloInv'
  <2>1. \A d \in Admins : d # a => admins'[d] = admins[d]
    BY <1>0, <1>5 DEF InsertPending
  <2>2. IsFiniteSet(OpenDialogs \cup {a}) /\ OpenDialogs' \subseteq OpenDialogs \cup {a}
    BY <1>0, <2>1, FS_AddElement DEF OpenDialogs
  <2>3. IsFiniteSet(OpenDialogs')
    BY <2>2, FS_Subset
  <2>4. QED
    BY <1>0, <1>5, <2>3, InsertKeeps DEF SoloInv
<1>6. ASSUME NEW a \in Admins, SwitchWrite(a) PROVE SoloInv'
  <2>1. PICK q \in AdminState : /\ admins' = [admins EXCEPT ![a] = q]
                               /\ q.pc \in {"confirm", "large_confirm", "invalidate"}
    BY <1>0, <1>6, SwitchKeeps
  <2>2. \A d \in Admins : d # a => admins'[d] = admins[d] /\ admins[d].pc = "closed"
    <3>1. a \in OpenDialogs
      BY <1>6 DEF SwitchWrite, OpenDialogs
    <3>2. ASSUME NEW d \in Admins, d # a PROVE d \notin OpenDialogs
      BY <3>1, <3>2, OneOfFew DEF SoloInv
    <3>3. QED
      BY <1>0, <2>1, <3>2 DEF OpenDialogs
  <2>3. IsFiniteSet(OpenDialogs \cup {a}) /\ OpenDialogs' \subseteq OpenDialogs \cup {a}
    BY <1>0, <2>2, FS_AddElement DEF OpenDialogs
  <2>4. IsFiniteSet(OpenDialogs')
    BY <2>3, FS_Subset
  <2>5. Fresh'
    BY <1>0, <2>1, <2>2 DEF Fresh, FreshFor
  <2>6. QED
    BY <2>4, <2>5 DEF SoloInv
<1>7. ASSUME RestartApi PROVE SoloInv'
  <2>1. ASSUME NEW a \in Admins
        PROVE  FreshFor(admins'[a]) /\ (admins'[a].pc # "closed" => admins[a].pc # "closed")
    <3>1. Prepared(admins[a]) /\ admins[a] \in AdminState /\ FreshFor(admins[a])
      BY <1>0 DEF PriceInv, Fresh
    <3>2. admins'[a] = admins[a] \/ (admins[a].pc \in InRequest /\ admins'[a] = InPhase(admins[a]))
      BY <1>7 DEF RestartApi
    <3>3. QED
      BY <3>1, <3>2, InPhaseShape DEF InRequest
  <2>2. OpenDialogs' \subseteq OpenDialogs
    BY <2>1 DEF OpenDialogs
  <2>3. IsFiniteSet(OpenDialogs')
    BY <1>0, <2>2, FS_Subset
  <2>4. UNCHANGED rows
    BY <1>7 DEF RestartApi
  <2>5. Fresh'
    BY <2>1, <2>4 DEF Fresh, FreshFor
  <2>6. QED
    BY <2>3, <2>5 DEF SoloInv
<1>8. ASSUME NEW b \in Brands, BuyerStep(b) PROVE SoloInv'
  BY <1>2, <1>8, BuyerStepEffect
<1>9. NextDayOfPrices => UNCHANGED <<rows, admins>>
  BY DEF NextDayOfPrices
<1>10. QED
  BY <1>2, <1>3, <1>4, <1>5, <1>6, <1>7, <1>8, <1>9, ArchiveKeeps DEF PriceNext, DialogStep, BuyerStep

(* What the invariants say of offers, checkouts and the archive. *)

LEMMA PriceIsPayable == PriceInv => OfferIsPayable
<1> SUFFICES ASSUME PriceInv, NEW r \in ActiveRows
             PROVE  /\ rows[r].stripe # 0 /\ stripe[rows[r].stripe].live
                    /\ stripe[rows[r].stripe].cents = rows[r].cents
  BY DEF OfferIsPayable
<1>1. r \in Rows /\ rows[r].active
  BY DEF ActiveRows
<1>2. rows[r].stripe # 0 /\ rows[r].stripe \in DOMAIN stripe /\ stripe[rows[r].stripe].key = r
  BY <1>1 DEF PriceInv, Keyed
<1>3. stripe[rows[r].stripe].cents = rows[r].cents
  BY <1>2 DEF PriceInv, Keyed
<1>4. stripe[rows[r].stripe].live
  BY <1>1, <1>2 DEF PriceInv, OnlyRetired, Retired
<1>5. QED
  BY <1>2, <1>3, <1>4

LEMMA PriceIsCharged == PriceInv => ChargedAsShown
BY DEF PriceInv, Buying, Keyed, ChargedAsShown

\* A session ends before the price it was opened on may be archived.
LEMMA PriceOutlivesSessions == PriceInv => SessionsComplete
<1> SUFFICES ASSUME PriceInv, NEW b \in Brands, Payable(b), ~stripe[brands[b].price].live
             PROVE  FALSE
  BY DEF SessionsComplete
<1>1. /\ brands[b].price \in DOMAIN stripe /\ stripe[brands[b].price].key = brands[b].row
      /\ brands[b].row \in Rows /\ brands[b].opened \in 0..today /\ today \in Nat
      /\ rows[brands[b].row].active \/ rows[brands[b].row].archived >= brands[b].opened
      /\ today <= brands[b].opened + SessionLife
  BY DEF PriceInv, PriceShape, Buying, Payable
<1>2. Retired(brands[b].row)
  BY <1>1 DEF PriceInv, OnlyRetired
<1>3. rows[brands[b].row].archived \in 0..today
  BY <1>1, <1>2 DEF PriceInv, Keyed, Retired
<1>4. QED
  BY <1>1, <1>2, <1>3, PriceBounds DEF Retired

LEMMA TimelyInvInit == PriceInit => TimelyInv
<1> SUFFICES ASSUME PriceInit PROVE TimelyInv
  OBVIOUS
<1>1. PriceInv /\ today = 0
  BY PriceInvInit DEF PriceInit
<1>2. QED
  BY <1>1, NoneRetiredAtFirst DEF TimelyInv

LEMMA TimelyInvStep ==
    ASSUME PriceInv, TimelyInv, PriceNext, today' = 0 \/ Fresh, Deferral + MaxFailures <= Lookback
    PROVE  TimelyInv'
<1>. DEFINE Alive(r) == Retired(r) /\ stripe[rows[r].stripe].live
            Timely(r) == failures >= Tries(r) /\ rows[r].archived >= today - Lookback
<1>0. /\ PriceShape /\ Keyed /\ OnlyRetired /\ rows \in Seq(OfferRow) /\ stripe \in Seq(StripePrice)
      /\ today \in Nat /\ failures \in 0..MaxFailures /\ swept \in BOOLEAN
      /\ Deferral \in Nat /\ Lookback \in Nat /\ MaxFailures \in Nat
  BY PriceBounds DEF PriceInv, PriceShape
<1>1. ASSUME NEW r \in Rows
      PROVE  /\ rows[r].archived \in Int
             /\ Retired(r) => rows[r].stripe \in DOMAIN stripe /\ stripe[rows[r].stripe].key = r
             /\ Alive(r) => Timely(r)
  <2>1. rows[r] \in OfferRow
    BY <1>0 DEF Rows
  <2>2. rows[r].archived \in Int
    BY <2>1 DEF OfferRow
  <2>3. QED
    BY <1>0, <2>2 DEF Keyed, Retired, TimelyInv
<1>2. ASSUME Rows' = Rows, \A r \in Rows : Alive(r)' => Timely(r)' PROVE TimelyInv'
  BY <1>2 DEF TimelyInv
\* Prices are only made, and the rows that are retired stay as they are.
<1>3. ASSUME Rows \subseteq Rows', UNCHANGED <<sweep, swept, failures, today>>,
             \A i \in DOMAIN stripe : stripe'[i] = stripe[i],
             \A r \in Rows' : Retired(r)' => /\ r \in Rows /\ Retired(r)
                                           /\ rows'[r].archived = rows[r].archived
                                           /\ rows'[r].stripe = rows[r].stripe
      PROVE  TimelyInv'
  BY <1>1, <1>3 DEF TimelyInv, Tries
<1>4. ASSUME UNCHANGED <<rows, stripe, sweep, swept, failures, today>> PROVE TimelyInv'
  BY <1>4 DEF TimelyInv, Tries, Retired, Rows
<1>5. ASSUME NEW a \in Admins, InsertPending(a) PROVE TimelyInv'
  <2>1. PICK n : n = [cents |-> admins[a].cents, stripe |-> 0, active |-> FALSE, archived |-> Never]
    OBVIOUS
  <2>2. rows' = Append(rows, n) /\ UNCHANGED <<stripe, sweep, swept, failures, today>> /\ n.stripe = 0
    BY <1>5, <2>1 DEF InsertPending
  <2>3. /\ Rows' = Rows \cup {Len(rows) + 1} /\ rows'[Len(rows) + 1] = n
        /\ \A r \in Rows : rows'[r] = rows[r]
    BY <1>0, <2>2 DEF Rows
  <2>4. \A r \in Rows' : Retired(r)' => r \in Rows /\ Retired(r) /\ rows'[r] = rows[r]
    BY <2>2, <2>3 DEF Retired
  <2>5. QED
    BY <1>3, <2>2, <2>3, <2>4
<1>6. ASSUME NEW a \in Admins, SwitchWrite(a) PROVE TimelyInv'
  <2>1. /\ Rows' = Rows /\ UNCHANGED <<stripe, sweep, swept, failures, today>>
        /\ \A r \in Rows : Retired(r)' => Retired(r)
        /\ \A r \in Rows : Retired(r) => rows'[r].archived = rows[r].archived /\ rows'[r].stripe = rows[r].stripe
    BY <1>6, SwitchKeeps DEF SwitchWrite
  <2>2. QED
    BY <1>3, <2>1
<1>7. ASSUME NEW a \in Admins, CreatePrice(a) \/ RequestFails(a) PROVE TimelyInv'
  <2>1. /\ UNCHANGED <<rows, sweep, swept, failures, today>>
        /\ \A i \in DOMAIN stripe : stripe'[i] = stripe[i]
    BY <1>7, StripeCallKeeps
  <2>2. Rows' = Rows /\ \A r \in Rows : Retired(r)' => Retired(r)
    BY <2>1 DEF Rows, Retired
  <2>3. QED
    BY <1>3, <2>1, <2>2
<1>8. ASSUME NEW a \in Admins, DialogStep(a) PROVE TimelyInv'
  BY <1>4, <1>8, DialogStepEffect
<1>9. ASSUME NEW b \in Brands, BuyerStep(b) PROVE TimelyInv'
  BY <1>4, <1>9, BuyerStepEffect
<1>10. CASE ListArchivable
  <2>1. /\ UNCHANGED <<rows, stripe, failures, today>> /\ ~swept /\ sweep = {} /\ sweep' = Archivable /\ swept' = TRUE
    BY <1>10 DEF ListArchivable
  <2>2. Rows' = Rows /\ \A r \in Rows : Alive(r)' => Alive(r)
    BY <2>1 DEF Rows, Retired
  <2>3. ASSUME NEW r \in Rows, Alive(r) PROVE r \in Archivable
    <3>1. rows[r].archived \in Int /\ rows[r].archived >= today - Lookback /\ rows[r].archived <= today - Deferral
      BY <1>1, <2>3 DEF Retired
    <3>2. QED
      BY <1>0, <2>3, <3>1 DEF Archivable, Retired
  <2>4. ASSUME NEW r \in Rows, Alive(r)' PROVE Timely(r)'
    BY <1>1, <2>1, <2>2, <2>3, <2>4 DEF Tries
  <2>5. QED
    BY <1>2, <2>2, <2>4
<1>11. CASE ArchiveFails
  <2>1. /\ UNCHANGED <<rows, stripe, swept, today>> /\ sweep' \subseteq sweep /\ failures' = failures + 1
        /\ \E x \in sweep : sweep' = sweep \ {x}
    BY <1>11 DEF ArchiveFails
  <2>2. Rows' = Rows /\ \A r \in Rows : Alive(r)' => Alive(r)
    BY <2>1 DEF Rows, Retired
  <2>3. ASSUME NEW r \in Rows, Alive(r)' PROVE Timely(r)'
    <3>1. Timely(r) /\ rows[r].archived \in Int
      BY <1>1, <2>2, <2>3
    <3>2. Tries(r)' <= Tries(r) + 1 /\ Tries(r) \in Int /\ Tries(r)' \in Int
      <4>1. PICK n \in Int : n = today - rows[r].archived - Deferral
        BY <1>0, <3>1
      <4>2. Tries(r) = n + (IF swept /\ r \notin sweep THEN 1 ELSE 0)
        BY <4>1 DEF Tries
      <4>3. Tries(r)' = n + (IF swept /\ r \notin sweep' THEN 1 ELSE 0)
        BY <2>1, <4>1 DEF Tries
      <4>4. QED
        BY <4>2, <4>3
    <3>3. QED
      BY <1>0, <2>1, <3>1, <3>2
  <2>4. QED
    BY <1>2, <2>2, <2>3
<1>12. CASE ArchiveOne
  <2>1. PICK x \in sweep : sweep' = sweep \ {x} /\ stripe' = [stripe EXCEPT ![rows[x].stripe].live = FALSE]
    BY <1>12 DEF ArchiveOne
  <2>2. UNCHANGED <<rows, swept, failures, today>> /\ x \in Rows /\ Retired(x)
    BY <1>0, <1>12 DEF ArchiveOne, PriceShape, OnlyRetired
  <2>3. PICK k : k = rows[x].stripe
    OBVIOUS
  <2>4. k \in DOMAIN stripe /\ stripe[k].key = x
    BY <1>1, <2>2, <2>3
  <2>5. ~stripe'[k].live /\ \A i \in DOMAIN stripe : i # k => stripe'[i] = stripe[i]
    <3>1. stripe[k] \in StripePrice
      BY <1>0, <2>4
    <3>2. QED
      BY <1>0, <2>1, <2>3, <2>4, <3>1 DEF StripePrice
  <2>6. ASSUME NEW r \in Rows, Alive(r)' PROVE r # x /\ Alive(r)
    <3>1. r # x
      BY <2>2, <2>3, <2>5, <2>6
    <3>2. Retired(r)
      BY <2>2, <2>6 DEF Retired
    <3>3. rows[r].stripe # k /\ rows[r].stripe \in DOMAIN stripe
      BY <1>1, <2>4, <3>1, <3>2
    <3>4. QED
      BY <2>2, <2>5, <2>6, <3>1, <3>2, <3>3
  <2>7. ASSUME NEW r \in Rows, Alive(r)' PROVE Timely(r)'
    BY <1>1, <2>1, <2>2, <2>6, <2>7 DEF Tries
  <2>8. Rows' = Rows
    BY <2>2 DEF Rows
  <2>9. QED
    BY <1>2, <2>7, <2>8
<1>13. CASE NextDayOfPrices
  <2>1. /\ UNCHANGED <<rows, stripe, sweep, failures>> /\ swept = TRUE /\ sweep = {} /\ swept' = FALSE
        /\ today' = today + 1
    BY <1>0, <1>13 DEF NextDayOfPrices
  <2>2. ASSUME NEW r \in Rows, Alive(r)' PROVE Timely(r)'
    <3>1. rows[r].archived \in Int /\ rows[r].archived <= today + 1 - Deferral
      <4>1. r \in Rows /\ Retired(r)'
        BY <2>1, <2>2 DEF Rows
      <4>2. rows[r].archived \in Int
        BY <1>1, <4>1
      <4>3. QED
        BY <1>0, <2>1, <4>1, <4>2 DEF Retired
    <3>2. CASE rows[r].archived = today + 1 - Deferral
      BY <1>0, <2>1, <3>1, <3>2 DEF Tries
    <3>3. CASE rows[r].archived # today + 1 - Deferral
      <4>1. Alive(r)
        BY <1>0, <2>1, <2>2, <3>1, <3>3 DEF Retired
      <4>2. failures >= today - rows[r].archived - Deferral + 1 /\ rows[r].archived >= today - Lookback
        BY <1>1, <2>1, <4>1 DEF Tries
      <4>3. rows[r].archived # today - Lookback
        BY <1>0, <4>2
      <4>4. Tries(r)' = today + 1 - rows[r].archived - Deferral
        <5>1. PICK n \in Int : n = today' - rows'[r].archived - Deferral /\ n = today + 1 - rows[r].archived - Deferral
          BY <1>0, <2>1, <3>1
        <5>2. Tries(r)' = n + (IF swept' /\ r \notin sweep' THEN 1 ELSE 0)
          BY <5>1, Zenon DEF Tries
        <5>3. ~swept'
          BY <2>1
        <5>4. QED
          BY <5>1, <5>2, <5>3
      <4>5. failures' >= Tries(r)'
        BY <1>0, <2>1, <3>1, <4>2, <4>4
      <4>6. rows'[r].archived >= today' - Lookback
        BY <1>0, <2>1, <3>1, <4>2, <4>3
      <4>7. QED
        BY <4>5, <4>6
    <3>4. QED
      BY <3>2, <3>3
  <2>3. Rows' = Rows
    BY <2>1 DEF Rows
  <2>4. QED
    BY <1>2, <2>2, <2>3
<1>14. CASE RestartApi
  <2>1. UNCHANGED <<rows, stripe, failures, today>> /\ swept' = FALSE
    BY <1>14 DEF RestartApi
  <2>2. Rows' = Rows /\ \A r \in Rows : Alive(r)' => Alive(r)
    BY <2>1 DEF Rows, Retired
  <2>3. ASSUME NEW r \in Rows, Alive(r)' PROVE Timely(r)'
    BY <1>0, <1>1, <2>1, <2>2, <2>3 DEF Tries
  <2>4. QED
    BY <1>2, <2>2, <2>3
<1>15. QED
  BY <1>5, <1>6, <1>7, <1>8, <1>9, <1>10, <1>11, <1>12, <1>13, <1>14 DEF PriceNext, DialogStep, BuyerStep

\* A price that is too old for the archive was archived before.
LEMMA TimelyArchives ==
    ASSUME PriceInv, TimelyInv, Deferral + MaxFailures <= Lookback
    PROVE  NoneFallsOut
<1> SUFFICES ASSUME NEW r \in Rows, ~rows[r].active, rows[r].archived # Never,
                    rows[r].archived < today - Lookback, stripe[rows[r].stripe].live
             PROVE  FALSE
  BY DEF NoneFallsOut
<1>1. rows[r].stripe # 0 /\ rows[r].archived \in 0..today /\ today \in Nat
  BY DEF PriceInv, PriceShape, Keyed
<1>2. Retired(r)
  BY <1>1, PriceBounds DEF Retired
<1>3. QED
  BY <1>1, <1>2, PriceBounds DEF TimelyInv

-----------------------------------------------------------------------------

(* The bounds. *)

\* The table and the day stay within their bounds, the registry always has a row to answer with,
\* and Stripe has one price for each key.
WithinBounds ==
    /\ Len(rows) <= MaxRows /\ today <= LastDay /\ served # {}
    /\ \A i, j \in DOMAIN stripe : stripe[i].key = stripe[j].key => i = j
    /\ \A a \in Admins : admins[a].pending \in 0..Len(rows)
    /\ \A b \in Brands : brands[b].price \in 0..Len(stripe)

\* What a request may leave in its administrator, and a page in its brand.
PendingOf(q, old) == q.pending \in {0, old.pending} \cup 1..Len(rows')
PriceOf(q, old) == q.price \in {0, old.price} \cup 1..Len(stripe')

LEMMA WithinBoundsInit == PriceInit => WithinBounds
<1> SUFFICES ASSUME PriceInit PROVE WithinBounds
  OBVIOUS
<1>1. PICK c \in Amounts :
        /\ rows = <<[cents |-> c, stripe |-> 1, active |-> TRUE, archived |-> Never]>>
        /\ stripe = <<[key |-> 1, cents |-> c, live |-> TRUE]>>
        /\ served = {1} /\ admins = [a \in Admins |-> Closed] /\ brands = [b \in Brands |-> Away] /\ today = 0
  BY DEF PriceInit
<1>2. Len(rows) = 1 /\ Len(stripe) = 1 /\ DOMAIN stripe = {1}
  BY <1>1
<1>3. today <= LastDay /\ 1 <= MaxRows
  BY <1>1, PriceAssumption
<1>4. (\A a \in Admins : admins[a].pending = 0) /\ (\A b \in Brands : brands[b].price = 0)
  BY <1>1 DEF Closed, Away
<1>5. QED
  BY <1>1, <1>2, <1>3, <1>4 DEF WithinBounds

\* A step that shortens no table, and leaves in every request and page what it found there, or
\* a row or a price that exists.
LEMMA BoundsFollow ==
    ASSUME PriceInv, WithinBounds, PriceInv', Len(rows) <= Len(rows'), Len(rows') <= MaxRows,
           Len(stripe) <= Len(stripe'), today' <= LastDay, served' # {},
           \A i, j \in DOMAIN stripe' : stripe'[i].key = stripe'[j].key => i = j,
           \A a \in Admins : PendingOf(admins'[a], admins[a]),
           \A b \in Brands : PriceOf(brands'[b], brands[b])
    PROVE  WithinBounds'
<1>1. /\ Len(rows) \in Nat /\ Len(rows') \in Nat /\ Len(stripe) \in Nat /\ Len(stripe') \in Nat
  BY DEF PriceInv, PriceShape
<1>2. \A a \in Admins : admins'[a].pending \in 0..Len(rows')
  BY <1>1 DEF WithinBounds, PendingOf
<1>3. \A b \in Brands : brands'[b].price \in 0..Len(stripe')
  BY <1>1 DEF WithinBounds, PriceOf
<1>4. QED
  BY <1>2, <1>3 DEF WithinBounds

LEMMA RefusedKeepsPending ==
    ASSUME PriceInv, NEW a \in Admins, admins' = Refused(a)
    PROVE  \A d \in Admins : PendingOf(admins'[d], admins[d])
<1>1. admins \in [Admins -> AdminState]
  BY DEF PriceInv, PriceShape
<1>2. admins'[a] = InPhase(admins[a]) /\ \A d \in Admins \ {a} : admins'[d] = admins[d]
  BY <1>1 DEF Refused
<1>3. InPhase(admins[a]).pending = 0
  BY <1>1 DEF InPhase, AdminState
<1>4. QED
  BY <1>2, <1>3 DEF PendingOf

LEMMA DialogKeepsPending ==
    ASSUME PriceInv, NEW a \in Admins, DialogStep(a)
    PROVE  \A d \in Admins : PendingOf(admins'[d], admins[d])
<1>0. /\ admins \in [Admins -> AdminState] /\ rows' = rows
  BY DialogStepEffect DEF PriceInv, PriceShape
<1>. DEFINE Good == \A d \in Admins : PendingOf(admins'[d], admins[d])
            Becomes(q) == admins' = [admins EXCEPT ![a] = q] /\ q.pending \in {0, admins[a].pending} \cup 1..Len(rows)
<1>1. ASSUME NEW q, Becomes(q) PROVE Good
  BY <1>0, <1>1 DEF PendingOf
<1>2. admins[a] \in AdminState
  BY <1>0
<1>3. ASSUME OpenDialog(a) PROVE Good
  <2>1. PICK r \in served : admins' = [admins EXCEPT ![a] = [Closed EXCEPT !.pc = "amount", !.shown = rows[r].cents]]
    BY <1>3 DEF OpenDialog
  <2>2. [Closed EXCEPT !.pc = "amount", !.shown = rows[r].cents].pending = 0
    BY DEF Closed
  <2>3. QED
    BY <1>1, <2>1, <2>2
<1>4. ASSUME CloseDialog(a) \/ InvalidateRegistry(a) PROVE Good
  <2>1. admins' = [admins EXCEPT ![a] = Closed] /\ Closed.pending = 0
    BY <1>4 DEF CloseDialog, InvalidateRegistry, Closed
  <2>2. QED
    BY <1>1, <2>1
<1>5. ASSUME Back(a) PROVE Good
  <2>1. PICK q : q = [admins[a] EXCEPT !.pc = IF @ = "confirm" THEN "amount" ELSE "confirm"]
    OBVIOUS
  <2>2. admins' = [admins EXCEPT ![a] = q] /\ q.pending = admins[a].pending
    BY <1>0, <1>2, <1>5, <2>1 DEF Back, AdminState
  <2>3. QED
    BY <1>1, <2>2
<1>6. ASSUME NEW c \in Amounts, Review(a, c) PROVE Good
  <2>1. PICK q : q = [admins[a] EXCEPT !.pc = "confirm", !.cents = c]
    OBVIOUS
  <2>2. admins' = [admins EXCEPT ![a] = q] /\ q.pending = admins[a].pending
    BY <1>0, <1>2, <1>6, <2>1 DEF Review, AdminState
  <2>3. QED
    BY <1>1, <2>2
<1>7. ASSUME Submit(a) PROVE Good
  <2>1. PICK r \in ActiveRows :
         admins' = [admins EXCEPT ![a].pc = IF rows[r].cents = admins[a].cents THEN @ ELSE "read",
                                  ![a].ack = (admins[a].pc = "large_confirm"),
                                  ![a].old = IF rows[r].cents = admins[a].cents THEN 0 ELSE r]
    BY <1>7 DEF Submit
  <2>2. PICK q : q = [admins[a] EXCEPT !.pc = IF rows[r].cents = admins[a].cents THEN @ ELSE "read",
                                       !.ack = (admins[a].pc = "large_confirm"),
                                       !.old = IF rows[r].cents = admins[a].cents THEN 0 ELSE r]
    OBVIOUS
  <2>3. admins' = [admins EXCEPT ![a] = q]
    BY <1>0, <2>1, <2>2
  <2>4. q.pending = admins[a].pending
    BY <1>2, <2>2 DEF AdminState
  <2>5. QED
    BY <1>1, <2>3, <2>4
<1>8. ASSUME FindPending(a) PROVE Good
  <2>1. CASE admins' = [admins EXCEPT ![a].pc = "insert"]
    <3>1. PICK q : q = [admins[a] EXCEPT !.pc = "insert"]
      OBVIOUS
    <3>2. admins' = [admins EXCEPT ![a] = q] /\ q.pending = admins[a].pending
      BY <1>0, <1>2, <2>1, <3>1 DEF AdminState
    <3>3. QED
      BY <1>1, <3>2
  <2>2. ASSUME NEW r \in Pending(a), admins' = [admins EXCEPT ![a].pc = "stripe", ![a].pending = r]
        PROVE  Good
    <3>1. PICK q : q = [admins[a] EXCEPT !.pc = "stripe", !.pending = r]
      OBVIOUS
    <3>2. admins' = [admins EXCEPT ![a] = q] /\ q.pending = r
      BY <1>0, <1>2, <2>2, <3>1 DEF AdminState
    <3>3. r \in 1..Len(rows)
      BY DEF Pending, Rows
    <3>4. QED
      BY <1>1, <3>2, <3>3
  <2>3. QED
    BY <1>8, <2>1, <2>2 DEF FindPending
<1>9. ASSUME SwitchRead(a) PROVE Good
  <2>1. CASE admins' = Refused(a)
    BY <2>1, RefusedKeepsPending
  <2>2. CASE admins' = [admins EXCEPT ![a].pc = "write", ![a].old = CHOOSE r \in ActiveRows : TRUE]
    <3>1. PICK o : o = CHOOSE r \in ActiveRows : TRUE
      OBVIOUS
    <3>2. admins' = [admins EXCEPT ![a].pc = "write", ![a].old = o]
      BY <2>2, <3>1, Zenon
    <3>3. QED
      BY <1>0, <3>2 DEF PendingOf, AdminState
  <2>3. QED
    BY <1>9, <2>1, <2>2 DEF SwitchRead
<1>10. ASSUME Guard(a) PROVE Good
  <2>1. CASE admins' = Refused(a)
    BY <2>1, RefusedKeepsPending
  <2>2. CASE admins' = [Refused(a) EXCEPT ![a].pc = "large_confirm"]
    <3>1. PICK p : p = InPhase(admins[a])
      OBVIOUS
    <3>2. p.pending = 0 /\ admins'[a] = [p EXCEPT !.pc = "large_confirm"] /\ \A d \in Admins \ {a} : admins'[d] = admins[d]
      BY <1>0, <2>2, <3>1 DEF Refused, InPhase, AdminState
    <3>3. [p EXCEPT !.pc = "large_confirm"].pending = 0
      BY <1>0, <3>1 DEF InPhase, AdminState
    <3>4. QED
      BY <3>2, <3>3 DEF PendingOf
  <2>3. CASE admins' = [admins EXCEPT ![a].pc = "find"]
    BY <1>0, <2>3 DEF PendingOf, AdminState
  <2>4. QED
    BY <1>10, <2>1, <2>2, <2>3 DEF Guard
<1>11. Good
  <2>. HIDE DEF Good
  <2>1. QED
    BY <1>3, <1>4, <1>5, <1>6, <1>7, <1>8, <1>9, <1>10 DEF DialogStep
<1>12. QED
  BY <1>11

LEMMA BuyerKeepsPrice ==
    ASSUME PriceInv, NEW b \in Brands, BuyerStep(b)
    PROVE  \A d \in Brands : PriceOf(brands'[d], brands[d])
<1>0. /\ brands \in [Brands -> BrandState] /\ stripe' = stripe /\ stripe \in Seq(StripePrice)
      /\ DOMAIN stripe = 1..Len(stripe) /\ Buying(brands[b])
  BY BuyerStepEffect DEF PriceInv, PriceShape
<1>. DEFINE Good == \A d \in Brands : PriceOf(brands'[d], brands[d])
<1>1. ASSUME NEW q, brands' = [brands EXCEPT ![b] = q], q.price \in {0, brands[b].price} \cup 1..Len(stripe)
      PROVE  Good
  BY <1>0, <1>1 DEF PriceOf
<1>2. brands[b] \in BrandState
  BY <1>0
<1>3. ASSUME LoadPlans(b) PROVE Good
  <2>1. PICK r \in Buyable : brands' = [brands EXCEPT ![b] = [Away EXCEPT !.pc = "quoted", !.row = r]]
    BY <1>3 DEF LoadPlans
  <2>2. [Away EXCEPT !.pc = "quoted", !.row = r].price = 0
    BY DEF Away
  <2>3. QED
    BY <1>1, <2>1, <2>2
<1>4. ASSUME Leave(b) PROVE Good
  <2>1. brands' = [brands EXCEPT ![b] = Away] /\ Away.price = 0
    BY <1>4 DEF Leave, Away
  <2>2. QED
    BY <1>1, <2>1
<1>5. ASSUME PriceChanged(b) PROVE Good
  <2>1. PICK r \in Buyable : brands' = [brands EXCEPT ![b].row = r]
    BY <1>5 DEF PriceChanged
  <2>2. PICK q : q = [brands[b] EXCEPT !.row = r]
    OBVIOUS
  <2>3. brands' = [brands EXCEPT ![b] = q] /\ q.price = brands[b].price
    BY <1>0, <1>2, <2>1, <2>2 DEF BrandState
  <2>4. QED
    BY <1>1, <2>3
<1>6. ASSUME OpenSession(b) PROVE Good
  <2>1. PICK q, s : /\ q = [brands[b] EXCEPT !.pc = "session", !.opened = today]
                    /\ s = [brands[b] EXCEPT !.pc = "quoted", !.price = 0]
    OBVIOUS
  <2>2. brands' = [brands EXCEPT ![b] = q] \/ brands' = [brands EXCEPT ![b] = s]
    BY <1>0, <1>6, <2>1 DEF OpenSession
  <2>3. q.price = brands[b].price /\ s.price = 0
    BY <1>2, <2>1 DEF BrandState
  <2>4. QED
    BY <1>1, <2>2, <2>3
<1>7. ASSUME Pay(b) \/ Activate(b) PROVE Good
  <2>1. PICK x \in {"paid", "active"} : brands' = [brands EXCEPT ![b].pc = x]
    BY <1>7 DEF Pay, Activate
  <2>2. PICK q : q = [brands[b] EXCEPT !.pc = x]
    OBVIOUS
  <2>3. brands' = [brands EXCEPT ![b] = q] /\ q.price = brands[b].price
    BY <1>0, <1>2, <2>1, <2>2 DEF BrandState
  <2>4. QED
    BY <1>1, <2>3
<1>8. ASSUME Choose(b) PROVE Good
  <2>1. brands[b].row \in Rows /\ rows[brands[b].row].active
    BY <1>0, <1>8 DEF Choose, Buying
  <2>2. rows[brands[b].row].stripe \in 1..Len(stripe)
    BY <1>0, <2>1 DEF PriceInv, Keyed
  <2>3. PICK p : p = rows[brands[b].row].stripe
    OBVIOUS
  <2>4. PICK q : q = [brands[b] EXCEPT !.pc = "checked", !.price = p]
    OBVIOUS
  <2>5. brands' = [brands EXCEPT ![b] = q] /\ q.price = p
    BY <1>0, <1>2, <1>8, <2>3, <2>4 DEF Choose, BrandState
  <2>6. QED
    BY <1>1, <2>2, <2>3, <2>5
<1>9. Good
  <2>. HIDE DEF Good
  <2>1. QED
    BY <1>3, <1>4, <1>5, <1>6, <1>7, <1>8 DEF BuyerStep
<1>10. QED
  BY <1>9

LEMMA PriceIsMadeOnce ==
    ASSUME PriceInv, WithinBounds, NEW p \in Rows, stripe' = WithPrice(p)
    PROVE  /\ Len(stripe) <= Len(stripe')
           /\ \A i, j \in DOMAIN stripe' : stripe'[i].key = stripe'[j].key => i = j
<1>0. stripe \in Seq(StripePrice) /\ Len(stripe) \in Nat
  BY DEF PriceInv, PriceShape
<1>1. CASE SameKey(p) # {}
  BY <1>0, <1>1 DEF WithPrice, WithinBounds
<1>2. CASE SameKey(p) = {}
  <2>1. PICK s : s = [key |-> p, cents |-> rows[p].cents, live |-> TRUE]
    OBVIOUS
  <2>2. stripe' = Append(stripe, s) /\ s.key = p
    BY <1>2, <2>1 DEF WithPrice
  <2>3. \A i \in DOMAIN stripe : stripe[i].key # p
    BY <1>2 DEF SameKey
  <2>4. /\ DOMAIN stripe' = 1..(Len(stripe) + 1) /\ Len(stripe') = Len(stripe) + 1
        /\ \A i \in 1..Len(stripe) : stripe'[i] = stripe[i]
        /\ stripe'[Len(stripe) + 1] = s /\ DOMAIN stripe = 1..Len(stripe)
    BY <1>0, <2>2
  <2>5. QED
    BY <1>0, <2>2, <2>3, <2>4 DEF WithinBounds
<1>3. QED
  BY <1>1, <1>2

LEMMA WithinBoundsStep ==
    ASSUME PriceInv, WithinBounds, PriceNext, PriceInv'
    PROVE  WithinBounds'
<1>0. /\ rows \in Seq(OfferRow) /\ stripe \in Seq(StripePrice) /\ Len(rows) \in Nat /\ Len(stripe) \in Nat
      /\ admins \in [Admins -> AdminState] /\ brands \in [Brands -> BrandState] /\ today \in Nat
      /\ ActiveRows # {} /\ sweep \subseteq Rows /\ MaxRows \in Nat /\ LastDay \in Nat
  BY PriceAssumption DEF PriceInv, PriceShape, OneOffer
<1>1. \A a \in Admins : admins' = admins => PendingOf(admins'[a], admins[a])
  BY DEF PendingOf
<1>2. \A b \in Brands : brands' = brands => PriceOf(brands'[b], brands[b])
  BY DEF PriceOf
<1>3. ASSUME NEW a \in Admins, DialogStep(a) PROVE WithinBounds'
  <2>1. UNCHANGED <<rows, stripe, brands, today>>
    BY <1>3, DialogStepEffect
  <2>2. served' # {}
    BY <1>0, <1>3
       DEF DialogStep, OpenDialog, Back, CloseDialog, Submit, Guard, Review, FindPending, SwitchRead,
           InvalidateRegistry, WithinBounds
  <2>3. \A d \in Admins : PendingOf(admins'[d], admins[d])
    BY <1>3, DialogKeepsPending
  <2>4. QED
    BY <1>0, <1>2, <2>1, <2>2, <2>3, BoundsFollow DEF WithinBounds
<1>4. ASSUME NEW b \in Brands, BuyerStep(b) PROVE WithinBounds'
  <2>1. UNCHANGED <<rows, stripe, served, admins, today>>
    BY <1>4, BuyerStepEffect
  <2>2. QED
    BY <1>0, <1>1, <1>4, <2>1, BuyerKeepsPrice, BoundsFollow DEF WithinBounds
<1>5. ASSUME NEW a \in Admins, InsertPending(a) PROVE WithinBounds'
  <2>1. /\ Len(rows') = Len(rows) + 1 /\ Len(rows) < MaxRows /\ UNCHANGED <<stripe, served, brands, today>>
        /\ admins' = [admins EXCEPT ![a].pc = "stripe", ![a].pending = Len(rows) + 1]
    BY <1>0, <1>5 DEF InsertPending
  <2>2. \A d \in Admins : PendingOf(admins'[d], admins[d])
    BY <1>0, <2>1 DEF PendingOf, AdminState
  <2>3. QED
    BY <1>0, <1>2, <2>1, <2>2, BoundsFollow DEF WithinBounds
<1>6. ASSUME NEW a \in Admins, CreatePrice(a) \/ RequestFails(a) PROVE WithinBounds'
  <2>1. UNCHANGED <<rows, served, brands, today>>
    BY <1>6 DEF CreatePrice, RequestFails
  <2>2. \A d \in Admins : PendingOf(admins'[d], admins[d])
    <3>1. CASE CreatePrice(a)
      BY <1>0, <3>1 DEF CreatePrice, PendingOf, AdminState
    <3>2. CASE RequestFails(a)
      BY <3>2, RefusedKeepsPending DEF RequestFails
    <3>3. QED
      BY <1>6, <3>1, <3>2
  <2>3. /\ Len(stripe) <= Len(stripe')
        /\ \A i, j \in DOMAIN stripe' : stripe'[i].key = stripe'[j].key => i = j
    <3>1. CASE stripe' = stripe
      BY <1>0, <3>1 DEF WithinBounds
    <3>2. CASE admins[a].pc = "stripe" /\ stripe' = WithPrice(admins[a].pending)
      <4>1. admins[a].pending \in Rows
        BY <3>2 DEF PriceInv, Prepared
      <4>2. QED
        BY <3>2, <4>1, PriceIsMadeOnce
    <3>3. QED
      BY <1>6, <3>1, <3>2 DEF CreatePrice, RequestFails
  <2>4. QED
    BY <1>0, <1>2, <2>1, <2>2, <2>3, BoundsFollow DEF WithinBounds
<1>7. ASSUME NEW a \in Admins, SwitchWrite(a) PROVE WithinBounds'
  <2>1. admins[a].pc = "write" /\ UNCHANGED <<stripe, brands, today>>
    BY <1>7 DEF SwitchWrite
  <2>2. CASE /\ rows' = Switched(a) /\ served' = served \cup {admins[a].pending}
             /\ admins' = [admins EXCEPT ![a].pc = "invalidate"]
    <3>1. Len(rows') = Len(rows)
      <4>1. Rows' = Rows /\ rows' \in Seq(OfferRow)
        BY <2>1, <2>2, SwitchedRows
      <4>2. Len(rows') \in Nat /\ 1..Len(rows') = 1..Len(rows)
        BY <4>1 DEF Rows
      <4>3. QED
        BY <1>0, <4>2
    <3>2. \A d \in Admins : PendingOf(admins'[d], admins[d])
      BY <1>0, <2>2 DEF PendingOf, AdminState
    <3>3. QED
      BY <1>0, <1>2, <2>1, <2>2, <3>1, <3>2, BoundsFollow DEF WithinBounds
  <2>3. CASE admins' = Refused(a) /\ UNCHANGED <<rows, served>>
    BY <1>0, <1>2, <2>1, <2>3, RefusedKeepsPending, BoundsFollow DEF WithinBounds
  <2>4. QED
    BY <1>7, <2>2, <2>3 DEF SwitchWrite
<1>8. ASSUME ListArchivable \/ ArchiveFails PROVE WithinBounds'
  <2>1. UNCHANGED <<rows, stripe, served, admins, brands, today>>
    BY <1>8 DEF ListArchivable, ArchiveFails
  <2>2. QED
    BY <1>0, <1>1, <1>2, <2>1, BoundsFollow DEF WithinBounds
<1>9. ASSUME ArchiveOne PROVE WithinBounds'
  <2>1. PICK r \in sweep : stripe' = [stripe EXCEPT ![rows[r].stripe].live = FALSE]
    BY <1>9 DEF ArchiveOne
  <2>2. UNCHANGED <<rows, served, admins, brands, today>>
    BY <1>9 DEF ArchiveOne
  <2>3. /\ Len(stripe') = Len(stripe) /\ DOMAIN stripe' = DOMAIN stripe
        /\ \A i \in DOMAIN stripe : stripe'[i].key = stripe[i].key
    <3>1. rows[r].stripe \in 1..Len(stripe)
      BY <1>0 DEF PriceInv, OnlyRetired, Retired, Keyed
    <3>2. stripe[rows[r].stripe] \in StripePrice
      BY <1>0, <3>1
    <3>3. QED
      BY <1>0, <2>1, <3>1, <3>2 DEF StripePrice
  <2>4. QED
    BY <1>0, <1>1, <1>2, <2>2, <2>3, BoundsFollow DEF WithinBounds
<1>10. ASSUME NextDayOfPrices PROVE WithinBounds'
  <2>1. UNCHANGED <<rows, stripe, served, admins, brands>> /\ today < LastDay /\ today' = today + 1
    BY <1>10 DEF NextDayOfPrices
  <2>2. QED
    BY <1>0, <1>1, <1>2, <2>1, BoundsFollow DEF WithinBounds
<1>11. ASSUME RestartApi PROVE WithinBounds'
  <2>1. UNCHANGED <<rows, stripe, today>> /\ served' = ActiveRows
    BY <1>11 DEF RestartApi
  <2>2. \A a \in Admins : PendingOf(admins'[a], admins[a])
    BY <1>0, <1>11 DEF RestartApi, InPhase, PendingOf, AdminState
  <2>3. \A b \in Brands : PriceOf(brands'[b], brands[b])
    BY <1>0, <1>11 DEF RestartApi, PriceOf, BrandState
  <2>4. QED
    BY <1>0, <2>1, <2>2, <2>3, BoundsFollow DEF WithinBounds
<1>12. QED
  BY <1>3, <1>4, <1>5, <1>6, <1>7, <1>8, <1>9, <1>10, <1>11 DEF PriceNext, DialogStep, BuyerStep

\* As many prices as rows, at most: each has a key of its own.
LEMMA NoMorePricesThanRows == PriceInv /\ WithinBounds => Len(stripe) <= Len(rows)
<1> SUFFICES ASSUME PriceInv, WithinBounds PROVE Len(stripe) <= Len(rows)
  OBVIOUS
<1>0. /\ stripe \in Seq(StripePrice) /\ Len(stripe) \in Nat /\ Len(rows) \in Nat /\ rows \in Seq(OfferRow)
      /\ \A i \in 1..Len(stripe) : stripe[i].key \in 1..Len(rows)
  BY DEF PriceInv, PriceShape, Keyed, Rows
<1>. DEFINE keyOf == [i \in 1..Len(stripe) |-> stripe[i].key]
<1>1. /\ IsFiniteSet(1..Len(stripe)) /\ Cardinality(1..Len(stripe)) = Len(stripe)
      /\ IsFiniteSet(1..Len(rows)) /\ Cardinality(1..Len(rows)) = Len(rows)
  <2>1. ASSUME NEW n \in Nat PROVE IsFiniteSet(1..n) /\ Cardinality(1..n) = n
    <3>1. IsFiniteSet(1..n) /\ Cardinality(1..n) = IF 1 > n THEN 0 ELSE n - 1 + 1
      BY FS_Interval
    <3>2. QED
      BY <3>1
  <2>2. QED
    BY <1>0, <2>1
<1>2. keyOf \in [1..Len(stripe) -> 1..Len(rows)]
  BY <1>0
<1>3. ASSUME Len(rows) < Len(stripe) PROVE FALSE
  <2>1. \E i, j \in 1..Len(stripe) : i # j /\ keyOf[i] = keyOf[j]
    <3>. HIDE DEF keyOf
    <3>1. QED
      BY <1>1, <1>2, <1>3, FS_PigeonHole
  <2>2. QED
    BY <1>0, <2>1 DEF WithinBounds
<1>4. QED
  BY <1>0, <1>3

LEMMA PriceTyped == PriceInv /\ WithinBounds => PriceTypeOK
<1> SUFFICES ASSUME PriceInv, WithinBounds PROVE PriceTypeOK
  OBVIOUS
<1>0. /\ PriceShape /\ Keyed /\ OneOffer /\ rows \in Seq(OfferRow) /\ stripe \in Seq(StripePrice)
      /\ Len(stripe) \in Nat /\ Len(rows) \in Nat /\ today \in Nat /\ MaxRows \in Nat /\ LastDay \in Nat
  BY PriceAssumption DEF PriceInv, PriceShape
<1>1. Len(stripe) <= MaxRows
  BY <1>0, NoMorePricesThanRows DEF WithinBounds
<1>2. \A r \in 1..Len(rows) : rows[r] \in Row
  <2>1. TAKE r \in 1..Len(rows)
  <2>2. rows[r] \in OfferRow /\ r \in Rows
    BY <1>0 DEF Rows
  <2>3. rows[r].stripe \in 0..MaxRows
    <3>1. rows[r].stripe # 0 => rows[r].stripe \in 1..Len(stripe)
      BY <1>0, <2>2 DEF Keyed
    <3>2. QED
      BY <1>0, <1>1, <2>2, <3>1 DEF OfferRow
  <2>4. rows[r].archived \in Never..LastDay
    BY <1>0, <2>2 DEF Keyed, Never, WithinBounds
  <2>5. QED
    BY <2>2, <2>3, <2>4 DEF OfferRow, Row
<1>3. rows \in Seq(Row)
  BY <1>0, <1>2
<1>4. Cardinality(ActiveRows) = 1
  BY <1>0, FS_Singleton DEF OneOffer
<1>5. \A i \in DOMAIN stripe : stripe[i] \in [key: Rows, cents: Amounts, live: BOOLEAN]
  <2>1. TAKE i \in DOMAIN stripe
  <2>2. stripe[i] \in StripePrice /\ stripe[i].key \in Rows
    BY <1>0 DEF Keyed
  <2>3. QED
    BY <2>2 DEF StripePrice
<1>6. \A a \in Admins : admins[a].pc \in InDialog \cup InRequest /\ admins[a].pending \in 0..Len(rows)
  BY <1>0 DEF PriceShape, AdminState, WithinBounds
<1>7. \A b \in Brands : /\ brands[b].pc \in {"away", "quoted", "checked", "session", "paid", "active"}
                        /\ brands[b].price \in 0..Len(stripe)
  BY <1>0 DEF PriceShape, BrandState, WithinBounds
<1>8. QED
  BY <1>0, <1>3, <1>4, <1>5, <1>6, <1>7 DEF PriceTypeOK, PriceShape, WithinBounds

=============================================================================
