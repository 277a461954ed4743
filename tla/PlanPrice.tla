----------------------------- MODULE PlanPrice -----------------------------
(***************************************************************************)
(* The price of one paid tier: the dialog in which an administrator changes *)
(* it (Plans.tsx), changePlanPrice (services/plan-price.ts) cut at its      *)
(* awaits, the prices at Stripe, the deferred archive of the worker         *)
(* (services/reconciliation.ts), and the brand that sees the price, opens a *)
(* checkout on it and pays (Account.tsx, routes/brand-billing.ts).          *)
(***************************************************************************)
EXTENDS Integers, Sequences, FiniteSets, SequencesExt, FiniteSetsExt

CONSTANTS
    Admins, Brands,
    Amounts,        \* prices an administrator may ask for, in cents
    MaxRows,        \* bound on the rows of plan_price
    LastDay,        \* bound on time
    Deferral, Lookback,     \* ARCHIVE_DEFERRAL_MS and ARCHIVE_LOOKBACK_MS, in days
    SessionLife,    \* days a checkout session can be paid
    MaxFailures     \* bound on the failing calls of the archive

ASSUME PriceAssumption ==
    /\ Amounts \subseteq Nat \ {0} /\ Amounts # {}
    /\ {MaxRows, LastDay, Deferral, Lookback, SessionLife, MaxFailures} \subseteq Nat
    /\ 1 <= MaxRows /\ SessionLife < Deferral

VARIABLES
    rows,       \* the table plan_price of the tier
    stripe,     \* the prices at Stripe: [key, cents, live]
    served,     \* the rows that the plan registry may still answer with
    admins, brands,
    sweep,      \* what is left of the archive of today: a set of rows
    swept,      \* the worker has run today
    failures,   \* calls of the archive that failed
    today

priceVars == <<rows, stripe, served, admins, brands, sweep, swept, failures, today>>

-----------------------------------------------------------------------------

Never == -1
Row == [cents: Amounts, stripe: 0..MaxRows, active: BOOLEAN, archived: Never..LastDay]
Rows == 1..Len(rows)
ActiveRows == {r \in Rows : rows[r].active}

\* An administrator: the phase of the dialog or the step of the request, the
\* price the dialog shows, the one typed, whether a large change is confirmed,
\* and the rows that the request works with.
Closed == [pc |-> "closed", shown |-> 0, cents |-> 0, ack |-> FALSE, pending |-> 0, old |-> 0]
InDialog == {"closed", "amount", "confirm", "large_confirm"}
InRequest == {"read", "find", "insert", "stripe", "switch", "write", "invalidate"}

\* A brand: the row its page shows, the Stripe price and day of its session.
Away == [pc |-> "away", row |-> 0, price |-> 0, opened |-> Never]

PriceTypeOK ==
    /\ rows \in Seq(Row) /\ Len(rows) <= MaxRows
    /\ Cardinality(ActiveRows) = 1
    /\ \A i \in DOMAIN stripe : stripe[i] \in [key: Rows, cents: Amounts, live: BOOLEAN]
    /\ served \subseteq Rows /\ served # {}
    /\ \A a \in Admins : /\ admins[a].pc \in InDialog \cup InRequest
                         /\ admins[a].pending \in 0..Len(rows)
    /\ \A b \in Brands : /\ brands[b].pc \in {"away", "quoted", "checked", "session", "paid", "active"}
                         /\ brands[b].price \in 0..Len(stripe)
    /\ sweep \subseteq Rows /\ swept \in BOOLEAN
    /\ failures \in 0..MaxFailures /\ today \in 0..LastDay

PriceInit ==
    \E c \in Amounts :
      /\ rows = <<[cents |-> c, stripe |-> 1, active |-> TRUE, archived |-> Never]>>
      /\ stripe = <<[key |-> 1, cents |-> c, live |-> TRUE]>>
      /\ served = {1}
      /\ admins = [a \in Admins |-> Closed]
      /\ brands = [b \in Brands |-> Away]
      /\ sweep = {} /\ swept = FALSE /\ failures = 0 /\ today = 0

-----------------------------------------------------------------------------
(* The dialog.                                                             *)

\* The administrator opens the dialog on the price that the page has loaded.
OpenDialog(a) ==
    /\ admins[a].pc = "closed"
    /\ \E r \in served :
         admins' = [admins EXCEPT ![a] = [Closed EXCEPT !.pc = "amount", !.shown = rows[r].cents]]
    /\ UNCHANGED <<rows, stripe, served, brands, sweep, swept, failures, today>>

\* A new amount is typed, and typed again to confirm it.
Review(a, c) ==
    /\ admins[a].pc = "amount"
    /\ c # admins[a].shown
    /\ admins' = [admins EXCEPT ![a].pc = "confirm", ![a].cents = c]
    /\ UNCHANGED <<rows, stripe, served, brands, sweep, swept, failures, today>>

\* Back goes one phase back.
Back(a) ==
    /\ admins[a].pc \in {"confirm", "large_confirm"}
    /\ admins' = [admins EXCEPT ![a].pc = IF @ = "confirm" THEN "amount" ELSE "confirm"]
    /\ UNCHANGED <<rows, stripe, served, brands, sweep, swept, failures, today>>

CloseDialog(a) ==
    /\ admins[a].pc \in InDialog \ {"closed"}
    /\ admins' = [admins EXCEPT ![a] = Closed]
    /\ UNCHANGED <<rows, stripe, served, brands, sweep, swept, failures, today>>

Large(old, new) == 2 * (IF new > old THEN new - old ELSE old - new) > old

-----------------------------------------------------------------------------
(* changePlanPrice.                                                        *)

\* Memberships of the tier that Stripe bills.
Subscribers == {b \in Brands : brands[b].pc = "active"}

\* The request ends with an error, and the dialog shows it in its phase.
InPhase(admin) == [admin EXCEPT !.pc = IF admin.ack THEN "large_confirm" ELSE "confirm",
                               !.pending = 0, !.old = 0]

Refused(a) == [admins EXCEPT ![a] = InPhase(@)]

\* The dialog sends its amount, and the request reads the current price: an
\* unchanged price is refused.
Submit(a) ==
    /\ admins[a].pc \in {"confirm", "large_confirm"}
    /\ \E r \in ActiveRows :
         admins' = [admins EXCEPT ![a].pc = IF rows[r].cents = admins[a].cents THEN @ ELSE "read",
                                  ![a].ack = (admins[a].pc = "large_confirm"),
                                  ![a].old = IF rows[r].cents = admins[a].cents THEN 0 ELSE r]
    /\ UNCHANGED <<rows, stripe, served, brands, sweep, swept, failures, today>>

\* The guards that follow: no subscriber may be stranded, and a large change,
\* compared with the price that was read, needs its acknowledgement.
Guard(a) ==
    /\ admins[a].pc = "read"
    /\ admins' =
         IF Subscribers # {} THEN Refused(a)
         ELSE IF Large(rows[admins[a].old].cents, admins[a].cents) /\ ~admins[a].ack
         THEN [Refused(a) EXCEPT ![a].pc = "large_confirm"]
         ELSE [admins EXCEPT ![a].pc = "find"]
    /\ UNCHANGED <<rows, stripe, served, brands, sweep, swept, failures, today>>

\* A row of the amount is used again although it had been on offer before.
PendingStamped(a) == {r \in Rows : rows[r].cents = admins[a].cents /\ ~rows[r].active}

\* Step A: a pending row of the same amount is used again, or inserted. Two
\* requests that find none both insert one: nothing makes them unique.
Pending(a) == {r \in Rows : /\ rows[r].cents = admins[a].cents
                            /\ ~rows[r].active /\ rows[r].stripe = 0}

FindPending(a) ==
    /\ admins[a].pc = "find"
    /\ \/ Pending(a) = {} /\ admins' = [admins EXCEPT ![a].pc = "insert"]
       \/ \E r \in Pending(a) : admins' = [admins EXCEPT ![a].pc = "stripe", ![a].pending = r]
    /\ UNCHANGED <<rows, stripe, served, brands, sweep, swept, failures, today>>

InsertPending(a) ==
    /\ admins[a].pc = "insert"
    /\ Len(rows) < MaxRows
    /\ rows' = Append(rows, [cents |-> admins[a].cents, stripe |-> 0,
                             active |-> FALSE, archived |-> Never])
    /\ admins' = [admins EXCEPT ![a].pc = "stripe", ![a].pending = Len(rows) + 1]
    /\ UNCHANGED <<stripe, served, brands, sweep, swept, failures, today>>

\* Step B: the price at Stripe, under the key of the pending row: the same key
\* gets the price it made before.
SameKey(row) == {i \in DOMAIN stripe : stripe[i].key = row}

WithPrice(row) ==
    IF SameKey(row) # {} THEN stripe
    ELSE Append(stripe, [key |-> row, cents |-> rows[row].cents, live |-> TRUE])

CreatePrice(a) ==
    /\ admins[a].pc = "stripe"
    /\ stripe' = WithPrice(admins[a].pending)
    /\ admins' = [admins EXCEPT ![a].pc = "switch"]
    /\ UNCHANGED <<rows, served, brands, sweep, swept, failures, today>>

\* Step C, up to its reads: the subscribers are counted again, the pending row
\* is stamped (whoever stamps the same row waits), and the active row is read.
SwitchRead(a) ==
    /\ admins[a].pc = "switch"
    /\ ~ \E d \in Admins : admins[d].pc = "write" /\ admins[d].pending = admins[a].pending
    /\ admins' = IF Subscribers # {} THEN Refused(a)
                 ELSE [admins EXCEPT ![a].pc = "write", ![a].old = CHOOSE r \in ActiveRows : TRUE]
    /\ UNCHANGED <<rows, stripe, served, brands, sweep, swept, failures, today>>

\* The writes of step C commit together, or violate the index
\* plan_price_one_active_per_plan when another row became active.
Switched(a) ==
    LET p == admins[a].pending
        o == admins[a].old
    IN  [[rows EXCEPT ![o].active = FALSE, ![o].archived = today]
           EXCEPT ![p].active = TRUE, ![p].stripe = CHOOSE i \in SameKey(p) : TRUE]

\* The switch relies on no index.
SwitchWriteUnindexed(a) ==
    /\ admins[a].pc = "write"
    /\ rows' = Switched(a)
    /\ served' = served \cup {admins[a].pending}
    /\ admins' = [admins EXCEPT ![a].pc = "invalidate"]
    /\ UNCHANGED <<stripe, brands, sweep, swept, failures, today>>

SwitchWrite(a) ==
    /\ admins[a].pc = "write"
    /\ IF ActiveRows \subseteq {admins[a].old, admins[a].pending}
       THEN /\ rows' = Switched(a)
            /\ served' = served \cup {admins[a].pending}
            /\ admins' = [admins EXCEPT ![a].pc = "invalidate"]
       ELSE admins' = Refused(a) /\ UNCHANGED <<rows, served>>
    /\ UNCHANGED <<stripe, brands, sweep, swept, failures, today>>

\* invalidatePlanRegistry: what PlanRegistry!ReadsAreFresh says of a call.
InvalidateRegistry(a) ==
    /\ admins[a].pc = "invalidate"
    /\ served' = ActiveRows
    /\ admins' = [admins EXCEPT ![a] = Closed]
    /\ UNCHANGED <<rows, stripe, brands, sweep, swept, failures, today>>

\* A call to Stripe or to the database fails, and its transaction is undone.
RequestFails(a) ==
    /\ admins[a].pc \in InRequest \ {"invalidate"}
    /\ admins' = Refused(a)
    /\ stripe' \in {stripe} \cup (IF admins[a].pc = "stripe" THEN {WithPrice(admins[a].pending)} ELSE {})
    /\ UNCHANGED <<rows, served, brands, sweep, swept, failures, today>>

-----------------------------------------------------------------------------
(* The brand.                                                              *)

\* buyablePlanCatalog: what has no price at Stripe is not shown.
Buyable == {r \in served : rows[r].stripe # 0}

\* The page shows the price that the registry answers with.
LoadPlans(b) ==
    /\ brands[b].pc \in {"away", "quoted"}
    /\ \E r \in Buyable : brands' = [brands EXCEPT ![b] = [Away EXCEPT !.pc = "quoted", !.row = r]]
    /\ UNCHANGED <<rows, stripe, served, admins, sweep, swept, failures, today>>

\* The checkout charges whatever is on offer now.
ChooseCurrent(b) ==
    /\ brands[b].pc = "quoted"
    /\ \E r \in ActiveRows :
         brands' = [brands EXCEPT ![b].pc = "checked", ![b].price = rows[r].stripe]
    /\ UNCHANGED <<rows, stripe, served, admins, sweep, swept, failures, today>>

\* subscribeBrandToPaidPlan goes on if the row of the quote is still active.
Choose(b) ==
    /\ brands[b].pc = "quoted"
    /\ rows[brands[b].row].active
    /\ brands' = [brands EXCEPT ![b].pc = "checked", ![b].price = rows[brands[b].row].stripe]
    /\ UNCHANGED <<rows, stripe, served, admins, sweep, swept, failures, today>>

\* Otherwise it answers price_changed, and the page loads the plans again and
\* waits for another choice.
PriceChanged(b) ==
    /\ brands[b].pc = "quoted"
    /\ ~rows[brands[b].row].active
    /\ \E r \in Buyable : brands' = [brands EXCEPT ![b].row = r]
    /\ UNCHANGED <<rows, stripe, served, admins, sweep, swept, failures, today>>

\* Stripe opens a checkout session on a live price, or refuses.
OpenSession(b) ==
    /\ brands[b].pc = "checked"
    /\ brands' = IF stripe[brands[b].price].live
                 THEN [brands EXCEPT ![b].pc = "session", ![b].opened = today]
                 ELSE [brands EXCEPT ![b].pc = "quoted", ![b].price = 0]
    /\ UNCHANGED <<rows, stripe, served, admins, sweep, swept, failures, today>>

Payable(b) == brands[b].pc = "session" /\ today <= brands[b].opened + SessionLife

\* The brand pays, or leaves; the session expires.
Pay(b) ==
    /\ Payable(b)
    /\ stripe[brands[b].price].live
    /\ brands' = [brands EXCEPT ![b].pc = "paid"]
    /\ UNCHANGED <<rows, stripe, served, admins, sweep, swept, failures, today>>

\* The event of the activation reaches the membership.
Activate(b) ==
    /\ brands[b].pc = "paid"
    /\ brands' = [brands EXCEPT ![b].pc = "active"]
    /\ UNCHANGED <<rows, stripe, served, admins, sweep, swept, failures, today>>

\* The brand leaves the checkout, or cancels in the billing portal.
Leave(b) ==
    /\ brands[b].pc \in {"session", "active"}
    /\ brands' = [brands EXCEPT ![b] = Away]
    /\ UNCHANGED <<rows, stripe, served, admins, sweep, swept, failures, today>>

-----------------------------------------------------------------------------
(* sweepArchivablePrices, time and restarts.                               *)

\* The archive does not wait for sessions to end.
ArchivableAtOnce == {r \in Rows : /\ ~rows[r].active /\ rows[r].stripe # 0
                                  /\ rows[r].archived \in (today - Lookback)..today
                                  /\ rows[r].archived # Never}

\* The archive looks at the rows of one day, once.
ArchivableOnce == {r \in Rows : /\ ~rows[r].active /\ rows[r].stripe # 0
                                /\ rows[r].archived = today - Deferral
                                /\ rows[r].archived # Never}

Archivable == {r \in Rows : /\ ~rows[r].active /\ rows[r].stripe # 0
                            /\ rows[r].archived \in (today - Lookback)..(today - Deferral)
                            /\ rows[r].archived # Never}

ListArchivable ==
    /\ ~swept /\ sweep = {}
    /\ sweep' = Archivable
    /\ swept' = TRUE
    /\ UNCHANGED <<rows, stripe, served, admins, brands, failures, today>>

ArchiveOne ==
    /\ \E r \in sweep :
         /\ sweep' = sweep \ {r}
         /\ stripe' = [stripe EXCEPT ![rows[r].stripe].live = FALSE]
    /\ UNCHANGED <<rows, served, admins, brands, swept, failures, today>>

ArchiveFails ==
    /\ failures < MaxFailures
    /\ failures' = failures + 1
    /\ \E r \in sweep : sweep' = sweep \ {r}
    /\ UNCHANGED <<rows, stripe, served, admins, brands, swept, today>>

\* The worker runs at least once a day, and a request ends on the day it began.
NextDayOfPrices ==
    /\ today < LastDay
    /\ swept /\ sweep = {}
    /\ \A a \in Admins : admins[a].pc \in InDialog
    /\ \A b \in Brands : brands[b].pc # "checked"
    /\ today' = today + 1
    /\ swept' = FALSE
    /\ UNCHANGED <<rows, stripe, served, admins, brands, sweep, failures>>

\* The process stops: its requests fail, the archive starts again on start.
RestartApi ==
    /\ admins' = [a \in Admins |-> IF admins[a].pc \in InRequest
                                   THEN InPhase(admins[a]) ELSE admins[a]]
    /\ brands' = [b \in Brands |-> IF brands[b].pc = "checked"
                                   THEN [brands[b] EXCEPT !.pc = "quoted", !.price = 0] ELSE brands[b]]
    /\ served' = ActiveRows
    /\ sweep' = {} /\ swept' = FALSE
    /\ UNCHANGED <<rows, stripe, failures, today>>

PriceNext ==
    \/ \E a \in Admins :
         \/ OpenDialog(a) \/ Back(a) \/ CloseDialog(a) \/ Submit(a) \/ Guard(a)
         \/ \E c \in Amounts : Review(a, c)
         \/ FindPending(a) \/ InsertPending(a) \/ CreatePrice(a)
         \/ SwitchRead(a) \/ SwitchWrite(a) \/ InvalidateRegistry(a) \/ RequestFails(a)
    \/ \E b \in Brands :
         \/ LoadPlans(b) \/ Choose(b) \/ PriceChanged(b) \/ OpenSession(b) \/ Pay(b) \/ Activate(b) \/ Leave(b)
    \/ ListArchivable \/ ArchiveOne \/ ArchiveFails
    \/ NextDayOfPrices \/ RestartApi

-----------------------------------------------------------------------------

\* The price on offer can always be bought: its row has a live price at Stripe,
\* over the amount of the row (plan-price.ts:25 "a 4900->5900->4900 revert would
\* collide with the first (now-archived) attempt").
OfferIsPayable ==
    \A r \in ActiveRows : /\ rows[r].stripe # 0
                          /\ stripe[rows[r].stripe].live
                          /\ stripe[rows[r].stripe].cents = rows[r].cents

\* A checkout that was opened can be completed for as long as its session lasts,
\* whatever was repriced meanwhile (reconciliation.ts:22 "comfortable margin for
\* a session created right before the reprice to fully drain").
SessionsComplete == \A b \in Brands : Payable(b) => stripe[brands[b].price].live

\* A brand is charged what its page showed when it chose (brand-billing.ts:130
\* "what's advertised and what Checkout charges can no longer diverge").
ChargedAsShown ==
    \A b \in Brands : brands[b].pc \in {"session", "paid", "active"} =>
                         stripe[brands[b].price].cents = rows[brands[b].row].cents

\* No replaced price is left behind alive when it is too old for the sweep, if
\* Stripe fails fewer times than the days the sweep looks back
\* (reconciliation.ts:34).
NoneFallsOut ==
    \A r \in Rows : /\ ~rows[r].active /\ rows[r].archived # Never
                    /\ rows[r].archived < today - Lookback
                    => ~stripe[rows[r].stripe].live

\* A price is not switched while somebody subscribes to the tier
\* (plan-price.ts:195 "closes that specific window atomically"). The count and
\* the switch are two statements of a transaction that locks no membership.
SwitchStrandsNobody == [][ActiveRows' # ActiveRows => Subscribers = {}]_priceVars

=============================================================================
