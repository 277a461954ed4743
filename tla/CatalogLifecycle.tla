-------------------------- MODULE CatalogLifecycle --------------------------
\* The catalog of the operator: products are created, edited, published, stocked,
\* archived and deleted by administrators, one by one or in bulk, and every change
\* that takes a product off sale is pushed to the stores that carry it
\* (catalog-lifecycle.ts, catalog-stock.ts, admin-catalog.ts).  A request is cut at
\* its awaits: it reads, checks counts, writes, and then pushes store by store.
EXTENDS Naturals, Sequences, FiniteSets

CONSTANTS Items, Stores, Skus, Admins,
          MaxRequests,     \* requests of all administrators
          MaxBrandSteps,   \* steps of the brands
          Missing

StockStates == {"in_stock", "soon", "out_of_stock"}
Lifecycle == {"publish", "unpublish", "set_stock", "archive", "unarchive"}
Prices == {0, 1, 2}

VARIABLES
    product,     \* the row of a product, or Missing
    orders,      \* the products that appear on an order
    records,     \* the products each store has a provisioning record of
    shelf,       \* what each store carries: Missing, or the SKU it is under and whether it is on sale
    health,      \* of the connection of each store: "active" or "error"
    job,         \* the request of each administrator
    missed,      \* history: the pushes a store did not get
    spent        \* requests and steps of the brands so far

catalogVars == <<product, orders, records, shelf, health, job, missed, spent>>

Row == [sku: Skus, price: Prices, status: StockStates, published: BOOLEAN, archived: BOOLEAN]

ASSUME CatalogAssumption == Missing \notin Items /\ Missing \notin Row /\ {MaxRequests, MaxBrandSteps} \subseteq Nat

Draft(sku, price, status) ==
    [sku |-> sku, price |-> price, status |-> status, published |-> FALSE, archived |-> FALSE]

\* A product may be sold in the stores.
IsStoreSellable(r) == r.status = "in_stock" /\ r.published /\ ~r.archived

Idle == [op |-> "none", pc |-> "idle", named |-> {}, todo |-> <<>>, to |-> Missing, form |-> Missing, seen |-> Missing,
         left |-> {}, result |-> [p \in Items |-> "none"]]
Goto(a, pc) == job' = [job EXCEPT ![a].pc = pc]
Target(a) == Head(job[a].todo)

CatalogInit ==
    /\ product \in [Items -> {Missing} \cup {[Draft(k, 0, st) EXCEPT !.published = b] :
                                       k \in Skus, st \in StockStates, b \in BOOLEAN}]
    /\ \A p, q \in Items : p # q /\ product[p] # Missing /\ product[q] # Missing
                                => product[p].sku # product[q].sku
    /\ orders = {}
    /\ records = [s \in Stores |-> {}]
    /\ shelf = [s \in Stores |-> [p \in Items |-> Missing]]
    /\ health = [s \in Stores |-> "active"]
    /\ job = [a \in Admins |-> Idle]
    /\ missed = [s \in Stores |-> {}]
    /\ spent = [requests |-> 0, brand |-> 0]

(* The transitions of one product. *)

\* The row is already where the transition would take it.
Already(op, r) ==
    CASE op = "publish" -> r.published
      [] op = "unpublish" -> ~r.published
      [] op = "archive" -> r.archived
      [] op = "unarchive" -> ~r.archived
      [] op = "set_stock" -> FALSE

\* Only an out-of-stock product is archived.
Refuses(op, r) == op = "archive" /\ ~r.archived /\ r.status # "out_of_stock"

\* The update names one column, so that the row keeps what others changed meanwhile.
Transition(op, to, r) ==
    CASE op = "publish" -> [r EXCEPT !.published = TRUE]
      [] op = "unpublish" -> [r EXCEPT !.published = FALSE]
      [] op = "set_stock" -> [r EXCEPT !.status = to]
      [] op = "archive" -> [r EXCEPT !.archived = TRUE]
      [] op = "unarchive" -> [r EXCEPT !.archived = FALSE]

Pushes(op) == op \in {"set_stock", "unpublish", "archive"}

\* The outcome of one item, after which the next one is read.
Finish(j, outcome) ==
    [j EXCEPT !.pc = "read", !.todo = Tail(@), !.seen = Missing, !.left = {},
              !.result = [@ EXCEPT ![Head(j.todo)] = outcome]]

\* A slip: the first refusal ends the whole request.
ReadItemStops(a) ==
    /\ job[a].op \in Lifecycle /\ job[a].pc = "read" /\ job[a].todo # <<>>
    /\ LET r == product[Target(a)] IN
       job' = [job EXCEPT ![a] =
           IF r = Missing \/ Refuses(@.op, r) THEN [Finish(@, "refused") EXCEPT !.todo = <<>>]
           ELSE IF Already(@.op, r) THEN Finish(@, "same")
           ELSE [@ EXCEPT !.pc = "write", !.seen = r]]
    /\ UNCHANGED <<product, orders, records, shelf, health, missed, spent>>

ReadItem(a) ==
    /\ job[a].op \in Lifecycle /\ job[a].pc = "read" /\ job[a].todo # <<>>
    /\ LET r == product[Target(a)] IN
       job' = [job EXCEPT ![a] =
           IF r = Missing THEN Finish(@, "refused")
           ELSE IF Already(@.op, r) THEN Finish(@, "same")
           ELSE IF Refuses(@.op, r) THEN Finish(@, "refused")
           ELSE [@ EXCEPT !.pc = "write", !.seen = r]]
    /\ UNCHANGED <<product, orders, records, shelf, health, missed, spent>>

\* A slip: unpublish does not push.
WriteItemSilent(a) ==
    /\ job[a].pc = "write"
    /\ LET p == Target(a)
           r == Transition(job[a].op, job[a].to, product[p]) IN
       \/ /\ product[p] = Missing
          /\ Goto(a, "error")
          /\ UNCHANGED product
       \/ /\ product[p] # Missing
          /\ product' = [product EXCEPT ![p] = r]
          /\ job' = [job EXCEPT ![a] =
                 IF @.op = "set_stock" THEN [@ EXCEPT !.pc = "stores", !.seen = r] ELSE Finish(@, "changed")]
    /\ UNCHANGED <<orders, records, shelf, health, missed, spent>>

\* A row that is gone makes the update throw, which ends a bulk request half-way.
WriteItem(a) ==
    /\ job[a].pc = "write"
    /\ LET p == Target(a)
           r == Transition(job[a].op, job[a].to, product[p]) IN
       \/ /\ product[p] = Missing
          /\ Goto(a, "error")
          /\ UNCHANGED product
       \/ /\ product[p] # Missing
          /\ product' = [product EXCEPT ![p] = r]
          /\ job' = [job EXCEPT ![a] =
                 IF Pushes(@.op) THEN [@ EXCEPT !.pc = "stores", !.seen = r] ELSE Finish(@, "changed")]
    /\ UNCHANGED <<orders, records, shelf, health, missed, spent>>

(* The push to the stores, with the row as the update returned it. *)

\* Only the active connections are pushed to.
FindStores(a) ==
    /\ job[a].pc = "stores"
    /\ LET active == {s \in Stores : health[s] = "active"} IN
       /\ job' = [job EXCEPT ![a] = IF active = {} THEN Finish(@, "changed")
                                    ELSE [@ EXCEPT !.pc = "push", !.left = active]]
       /\ missed' = [s \in Stores |-> IF s \in active THEN missed[s] ELSE missed[s] \cup {Target(a)}]
    /\ UNCHANGED <<product, orders, records, shelf, health, spent>>

\* The store finds a product by the canonical SKU or by an alias (sku = Missing).
Carries(s, p, sku) == shelf[s][p] # Missing /\ shelf[s][p].sku \in {sku, Missing}

\* The store answers or it fails; a failing store is flagged and the others go on.
PushStore(a) ==
    /\ job[a].pc = "push"
    /\ \E s \in job[a].left :
       LET p == Target(a)
           r == job[a].seen IN
       /\ \/ /\ shelf' = IF Carries(s, p, r.sku) THEN [shelf EXCEPT ![s][p].selling = IsStoreSellable(r)]
                         ELSE shelf
             /\ missed' = [missed EXCEPT ![s] = @ \ {p}]
             /\ UNCHANGED health
          \/ /\ health' = [health EXCEPT ![s] = "error"]
             /\ missed' = [missed EXCEPT ![s] = @ \cup {p}]
             /\ UNCHANGED shelf
       /\ job' = [job EXCEPT ![a] = IF @.left = {s} THEN Finish(@, "changed")
                                    ELSE [job[a] EXCEPT !.left = @ \ {s}]]
    /\ UNCHANGED <<product, orders, records, spent>>

(* Create, edit and delete. *)

Taken(sku, p) == \E q \in Items \ {p} : product[q] # Missing /\ product[q].sku = sku

\* A SKU that is taken is refused when it is looked up; one taken since breaks the unique index.
CreateCheck(a) ==
    /\ job[a].op = "create" /\ job[a].pc = "read" /\ job[a].todo # <<>>
    /\ Goto(a, IF Taken(job[a].form.sku, Missing) THEN "error" ELSE "insert")
    /\ UNCHANGED <<product, orders, records, shelf, health, missed, spent>>

CreateRow(a) ==
    /\ job[a].op = "create" /\ job[a].pc = "insert"
    /\ LET f == job[a].form IN
       \/ Taken(f.sku, Missing) /\ Goto(a, "error") /\ UNCHANGED product
       \/ /\ ~Taken(f.sku, Missing)
          /\ product' = [product EXCEPT ![Target(a)] = Draft(f.sku, f.price, "soon")]
          /\ job' = [job EXCEPT ![a] = Finish(@, "changed")]
    /\ UNCHANGED <<orders, records, shelf, health, missed, spent>>

\* The SKU is locked while the product is published, and once a store or an order carries it.
EditRead(a) ==
    /\ job[a].op = "edit" /\ job[a].pc = "read" /\ job[a].todo # <<>>
    /\ LET r == product[Target(a)] IN
       job' = [job EXCEPT ![a] = IF r = Missing THEN [@ EXCEPT !.pc = "error"]
                                 ELSE [@ EXCEPT !.pc = "count", !.seen = r]]
    /\ UNCHANGED <<product, orders, records, shelf, health, missed, spent>>

Recorded(p) == \E s \in Stores : p \in records[s]

\* A slip: a SKU that unpublishing took off the catalog is free again.
EditCountUnlocks(a) ==
    /\ job[a].op = "edit" /\ job[a].pc = "count"
    /\ LET p == Target(a)
           renames == job[a].form.sku # job[a].seen.sku IN
       Goto(a, IF renames /\ job[a].seen.published THEN "error" ELSE "update")
    /\ UNCHANGED <<product, orders, records, shelf, health, missed, spent>>

EditCount(a) ==
    /\ job[a].op = "edit" /\ job[a].pc = "count"
    /\ LET p == Target(a)
           renames == job[a].form.sku # job[a].seen.sku IN
       Goto(a, IF renames /\ (job[a].seen.published \/ Recorded(p) \/ p \in orders) THEN "error" ELSE "update")
    /\ UNCHANGED <<product, orders, records, shelf, health, missed, spent>>

EditWrite(a) ==
    /\ job[a].op = "edit" /\ job[a].pc = "update"
    /\ LET p == Target(a)
           f == job[a].form IN
       \/ (product[p] = Missing \/ Taken(f.sku, p)) /\ Goto(a, "error") /\ UNCHANGED product
       \/ /\ product[p] # Missing /\ ~Taken(f.sku, p)
          /\ product' = [product EXCEPT ![p].sku = f.sku, ![p].price = f.price]
          /\ job' = [job EXCEPT ![a] = Finish(@, "changed")]
    /\ UNCHANGED <<orders, records, shelf, health, missed, spent>>

DeleteRead(a) ==
    /\ job[a].op = "delete" /\ job[a].pc = "read" /\ job[a].todo # <<>>
    /\ LET r == product[Target(a)] IN
       job' = [job EXCEPT ![a] = IF r = Missing THEN [@ EXCEPT !.pc = "error"]
                                 ELSE [@ EXCEPT !.pc = "count", !.seen = r]]
    /\ UNCHANGED <<product, orders, records, shelf, health, missed, spent>>

\* A slip: only the orders are looked at.
CatalogDeleteBlockerOrders(p, r) == r.published \/ p \in orders

CatalogDeleteBlocker(p, r) == r.published \/ p \in orders \/ Recorded(p)
DeleteCount(a) ==
    /\ job[a].op = "delete" /\ job[a].pc = "count"
    /\ Goto(a, IF CatalogDeleteBlocker(Target(a), job[a].seen) THEN "error" ELSE "delete")
    /\ UNCHANGED <<product, orders, records, shelf, health, missed, spent>>

\* An order keeps its product (Restrict); the records of the stores go with it (Cascade).
DeleteRow(a) ==
    /\ job[a].op = "delete" /\ job[a].pc = "delete"
    /\ LET p == Target(a) IN
       \/ (product[p] = Missing \/ p \in orders) /\ Goto(a, "error") /\ UNCHANGED <<product, records>>
       \/ /\ product[p] # Missing /\ p \notin orders
          /\ product' = [product EXCEPT ![p] = Missing]
          /\ records' = [s \in Stores |-> records[s] \ {p}]
          /\ job' = [job EXCEPT ![a] = Finish(@, "changed")]
    /\ UNCHANGED <<orders, shelf, health, missed, spent>>

(* Requests, and what else happens. *)

Submit(a, op, todo, to, form) ==
    /\ job[a].pc = "idle" /\ spent.requests < MaxRequests
    /\ job' = [job EXCEPT ![a] = [Idle EXCEPT !.op = op, !.pc = "read", !.todo = todo,
                                    !.named = {todo[i] : i \in DOMAIN todo}, !.to = to, !.form = form]]
    /\ spent' = [spent EXCEPT !.requests = @ + 1]

Forms == [sku: Skus, price: Prices]

\* A bulk request names its products in some order.
Orderings == {<<p>> : p \in Items} \cup ({<<p, q>> : p, q \in Items} \ {<<p, p>> : p \in Items})

Request(a) ==
    /\ \/ \E op \in Lifecycle \ {"set_stock"}, todo \in Orderings : Submit(a, op, todo, Missing, Missing)
       \/ \E to \in StockStates, todo \in Orderings : Submit(a, "set_stock", todo, to, Missing)
       \/ \E p \in Items, f \in Forms : product[p] # Missing /\ Submit(a, "edit", <<p>>, Missing, f)
       \/ \E p \in Items : product[p] # Missing /\ Submit(a, "delete", <<p>>, Missing, Missing)
       \/ \E p \in Items, k \in Skus : product[p] = Missing /\ Submit(a, "create", <<p>>, Missing, [sku |-> k, price |-> 0])
    /\ UNCHANGED <<product, orders, records, shelf, health, missed>>

Answered(a) == job[a].pc = "error" \/ (job[a].pc = "read" /\ job[a].todo = <<>>)
Reply(a) ==
    /\ Answered(a)
    /\ job' = [job EXCEPT ![a] = Idle]
    /\ UNCHANGED <<product, orders, records, shelf, health, missed, spent>>

\* The server stops: the stores not pushed to yet are missed.
Restart ==
    /\ \E a \in Admins : job[a].pc # "idle"
    /\ job' = [a \in Admins |-> Idle]
    /\ missed' = [s \in Stores |-> missed[s] \cup
           {Target(a) : a \in {b \in Admins : job[b].pc = "stores" \/ (job[b].pc = "push" /\ s \in job[b].left)}}]
    /\ UNCHANGED <<product, orders, records, shelf, health, spent>>

BrandStep == spent.brand < MaxBrandSteps /\ spent' = [spent EXCEPT !.brand = @ + 1]

\* A brand puts a product of its catalog into its store, under our SKU or one of its own (StoreProvision).
Provision(s, p) ==
    /\ BrandStep
    /\ health[s] = "active" /\ product[p] # Missing /\ product[p].published /\ ~product[p].archived
    /\ \E sku \in {product[p].sku, Missing} :
          shelf' = [shelf EXCEPT ![s][p] = [sku |-> sku, selling |-> IsStoreSellable(product[p])]]
    /\ records' = [records EXCEPT ![s] = @ \cup {p}]
    /\ UNCHANGED <<product, orders, health, job, missed>>

\* A brand orders a product of its catalog.
Order(p) ==
    /\ BrandStep
    /\ product[p] # Missing /\ product[p].published /\ ~product[p].archived
    /\ orders' = orders \cup {p}
    /\ UNCHANGED <<product, records, shelf, health, job, missed>>

\* A brand tests its flagged connection, which is active again; nothing is pushed.
Retest(s) ==
    /\ BrandStep
    /\ health[s] = "error"
    /\ health' = [health EXCEPT ![s] = "active"]
    /\ UNCHANGED <<product, orders, records, shelf, job, missed>>

Serve(a) ==
    \/ ReadItem(a) \/ WriteItem(a) \/ FindStores(a) \/ PushStore(a)
    \/ CreateCheck(a) \/ CreateRow(a)
    \/ EditRead(a) \/ EditCount(a) \/ EditWrite(a)
    \/ DeleteRead(a) \/ DeleteCount(a) \/ DeleteRow(a)

Brands ==
    \/ \E s \in Stores, p \in Items : Provision(s, p)
    \/ \E p \in Items : Order(p)
    \/ \E s \in Stores : Retest(s)

CatalogNext == (\E a \in Admins : Request(a) \/ Serve(a) \/ Reply(a)) \/ Restart \/ Brands

(* Properties. *)

CatalogTypeOK ==
    /\ product \in [Items -> Row \cup {Missing}]
    /\ orders \subseteq Items
    /\ records \in [Stores -> SUBSET Items]
    /\ \A s \in Stores, p \in Items :
          shelf[s][p] = Missing \/ shelf[s][p] \in [sku: Skus \cup {Missing}, selling: BOOLEAN]
    /\ health \in [Stores -> {"active", "error"}]
    /\ missed \in [Stores -> SUBSET Items]
    /\ \A a \in Admins : job[a].todo \in Seq(Items)

Quiet == \A a \in Admins : job[a].pc = "idle"

\* Once the requests have been answered no store sells a product that is not to be
\* sold, unless a push to that store failed, was skipped or was cut off: every way out of
\* the catalog pushes (catalog-lifecycle.ts:110 "a brand must not keep selling something
\* we no longer offer"), and a later stock toggle cannot put it back
\* (dto.ts:147).  For administrators that do not overlap.
NoUnsellableOnSale ==
    Quiet => \A s \in Stores, p \in Items :
        shelf[s][p] # Missing /\ shelf[s][p].selling /\ p \notin missed[s]
            => product[p] # Missing /\ IsStoreSellable(product[p])

\* The SKU of a product never changes while it is published, and not after a store or
\* an order came to carry it (admin-catalog.ts:157).  For administrators that do not overlap.
SkuLocked ==
    [][\A p \in Items :
          product[p] # Missing /\ product'[p] # Missing /\ product[p].sku # product'[p].sku
              => ~product[p].published /\ ~Recorded(p) /\ p \notin orders]_catalogVars

\* A product that a store or an order carries is never deleted: it would cascade the
\* records away while the store still sells it (admin-catalog.ts:304).  For administrators
\* that do not overlap.
HistoryKept ==
    [][\A p \in Items : product[p] # Missing /\ product'[p] = Missing
          => ~product[p].published /\ ~Recorded(p) /\ p \notin orders]_catalogVars

\* A bulk request that is answered has an outcome for every product it named: one refusal
\* stops none of the others (admin-catalog.ts:266), and what it calls done is done.
BulkReaches ==
    [][\A a \in Admins : Reply(a) /\ job[a].op \in Lifecycle /\ job[a].pc = "read"
          => \A p \in job[a].named :
               /\ job[a].result[p] # "none"
               /\ job[a].result[p] \in {"changed", "same"} /\ product[p] # Missing
                      => Transition(job[a].op, job[a].to, product[p]) = product[p]]_catalogVars
=============================================================================
