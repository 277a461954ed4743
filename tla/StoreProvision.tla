--------------------------- MODULE StoreProvision ---------------------------
(***************************************************************************)
(* Provisioning of catalog products into the store of a brand: the wizard  *)
(* (ProvisioningWizard.tsx), the classification of a product, and preflight *)
(* and commit (services/store-preflight.ts) against a store whose owner    *)
(* edits it at the same time.  A canonical SKU is named by its product.    *)
(***************************************************************************)
EXTENDS Naturals, Sequences, FiniteSets, SequencesExt, Functions

CONSTANTS
    Products,       \* products of the catalog
    OwnSkus,        \* SKUs of the brand's own making
    Tabs,           \* wizards that are open
    MaxIds,         \* bound on the products the store ever holds
    MaxEdits,       \* bound on what the brand does in its store
    None

ASSUME ProvisionAssumption ==
    /\ IsFiniteSet(Products) /\ MaxIds \in Nat /\ MaxEdits \in Nat
    /\ None \notin Products \cup OwnSkus \cup Nat \cup BOOLEAN
    /\ Products \cap OwnSkus = {}

VARIABLES
    shop,       \* the products of the store, by id
    link,       \* the connection of the brand, 0 when there is none
    edits,      \* what the brand did in its store so far
    record,     \* ProductProvisioning, by catalog product
    alias,      \* ProductAlias, by SKU
    wizard,     \* the wizards, with the commit each of them is waiting for
    claimed,    \* history: ids the program created or the brand adopted
    known       \* history: <<product, id>> recorded for this connection

provisionVars == <<shop, link, edits, record, alias, wizard, claimed, known>>

-----------------------------------------------------------------------------

Ids == 1..MaxIds

ShopSkus == Products \cup OwnSkus

States == {"new", "managed", "drifted", "conflict"}

Actions == {"create", "update", "restore_sku", "adopt", "realias", "skip"}

\* A product of the store; `wrote` is who last wrote it, `madeFor` the catalog
\* product it was created for.
StoreProduct ==
    [live: BOOLEAN, sku: ShopSkus \cup {None}, wrote: {"brand", "ruo"},
     madeFor: Products \cup {None}]

NoProduct == [live |-> FALSE, sku |-> None, wrote |-> "brand", madeFor |-> None]

Record == [id: Ids, sku: ShopSkus, adopted: BOOLEAN]

ASSUME NoRecordAssumption == None \notin Record

WizardRow ==
    [state: States, id: Ids \cup {None}, sku: ShopSkus \cup {None},
     allowed: SUBSET Actions, default: Actions]

\* What a commit still has to write, in the order of the code; an alias may follow
\* its record, or the record of an id its alias.
Op == [op: {"create"}, items: SUBSET Products]
      \cup [op: {"write"}, items: SUBSET [p: Products, id: Ids, sku: ShopSkus, record: BOOLEAN]]
      \cup [op: {"record"}, p: Products, id: Ids, sku: ShopSkus, adopted: BOOLEAN \cup {None}, alias: BOOLEAN]
      \cup [op: {"alias"}, p: Products, sku: ShopSkus, record: Ids \cup {None}]

Wizard == [step: 1..4, busy: BOOLEAN, rows: UNION {[S -> WizardRow] : S \in SUBSET Products},
           choices: UNION {[S -> Actions] : S \in SUBSET Products},
           link: 0..MaxEdits + 1, todo: Seq(Op)]

Fresh == [step |-> 1, busy |-> FALSE, rows |-> << >>, choices |-> << >>,
          link |-> 0, todo |-> << >>]

ProvisionTypeOK ==
    /\ shop \in [Ids -> StoreProduct]
    /\ link \in 0..MaxEdits + 1 /\ edits \in 0..MaxEdits
    /\ record \in [Products -> Record \cup {None}]
    /\ alias \in [ShopSkus -> Products \cup {None}]
    /\ \A t \in Tabs : /\ DOMAIN wizard[t] = DOMAIN Fresh
                       /\ wizard[t].step \in 1..4
                       /\ \A p \in DOMAIN wizard[t].rows : wizard[t].rows[p] \in WizardRow
                       /\ \A i \in DOMAIN wizard[t].todo : wizard[t].todo[i] \in Op
    /\ claimed \in SUBSET Ids
    /\ known \in SUBSET (Products \X Ids)

ProvisionInit ==
    /\ shop = [w \in Ids |-> NoProduct]
    /\ link = 1 /\ edits = 0
    /\ record = [p \in Products |-> None]
    /\ alias = [s \in ShopSkus |-> None]
    /\ wizard = [t \in Tabs |-> Fresh]
    /\ claimed = {}
    /\ known = {}

-----------------------------------------------------------------------------

LiveIds == {w \in Ids : shop[w].live}

\* The live products with a SKU; the store allows one at most.
WithSku(s) == {w \in LiveIds : shop[w].sku = s}

\* Ids are handed out once, in increasing order.
FreeIds == {w \in Ids : shop[w] = NoProduct}

NextIds(n) == {w \in FreeIds : Cardinality({v \in FreeIds : v < w}) < n}

RowOf(state, w, allowed, default) ==
    [state |-> state, id |-> w, sku |-> IF w = None THEN None ELSE shop[w].sku,
     allowed |-> allowed, default |-> default]

\* A recorded product that no longer has its SKU is taken for gone.
ClassifyBySku(p) ==
    LET r == record[p]
    IN  IF r # None /\ WithSku(r.sku) = {r.id}
        THEN RowOf("managed", r.id, {"update", "skip"}, "update")
        ELSE IF WithSku(p) = {} THEN RowOf("new", None, {"create", "skip"}, "create")
             ELSE RowOf("conflict", CHOOSE w \in WithSku(p) : TRUE, {"skip", "adopt"}, "skip")

\* The state of a product: with a record of ours, what became of the product
\* it points at; without one, whether the canonical SKU is taken.
Classify(p) ==
    LET r     == record[p]
        taken == WithSku(p)
        unknown ==
            IF taken = {} THEN RowOf("new", None, {"create", "skip"}, "create")
            ELSE RowOf("conflict", CHOOSE w \in taken : TRUE, {"skip", "adopt"}, "skip")
    IN  IF r = None \/ (r # None /\ ~shop[r.id].live) THEN unknown
        ELSE IF shop[r.id].sku = r.sku
             THEN RowOf("managed", r.id, {"update", "skip"}, "update")
             ELSE RowOf("drifted", r.id,
                        {"realias", "skip"} \cup (IF taken \ {r.id} = {} THEN {"restore_sku"} ELSE {}),
                        "skip")

\* The products of a request, each against its record and the store.
ClassifyAll(ps) == [p \in ps |-> Classify(p)]

\* A product that is there may be updated, whoever made it.
AllowedWhenThere(state, action) ==
    action \in CASE state = "new"     -> {"create", "skip"}
                 [] state = "managed"  -> {"update", "skip"}
                 [] state = "drifted"  -> {"restore_sku", "realias", "skip"}
                 [] state = "conflict" -> {"update", "skip", "adopt"}

\* What the server allows, whatever the browser offered.
Allowed(state, action) ==
    action \in CASE state = "new"      -> {"create", "skip"}
                 [] state = "managed"  -> {"update", "skip"}
                 [] state = "drifted"  -> {"restore_sku", "realias", "skip"}
                 [] state = "conflict" -> {"skip", "adopt"}

\* How an order line of the store finds its product: the canonical SKU first,
\* then the aliases of the brand.
Resolve(aliases, s) == IF s \in Products THEN s ELSE aliases[s]

-----------------------------------------------------------------------------
(* The wizard.                                                             *)

\* Both requests need a connection.
HasConnection == link # 0

\* Step 1: the selected products are checked.
RunPreflight(t, selected) ==
    /\ wizard[t].step = 1 /\ ~wizard[t].busy
    /\ selected # {}
    /\ HasConnection
    /\ LET rows == ClassifyAll(selected)
       IN  wizard' = [wizard EXCEPT ![t] =
                        [Fresh EXCEPT !.step = 2, !.rows = rows,
                                      !.choices = [p \in selected |-> rows[p].default]]]
    /\ UNCHANGED <<shop, link, edits, record, alias, claimed, known>>

\* Step 2: one of the actions that the row offers.
Choose(t, p, action) ==
    /\ wizard[t].step = 2
    /\ p \in DOMAIN wizard[t].rows
    /\ action \in wizard[t].rows[p].allowed
    /\ wizard' = [wizard EXCEPT ![t].choices[p] = action]
    /\ UNCHANGED <<shop, link, edits, record, alias, claimed, known>>

\* Steps 2 and 3: forth and back.
Turn(t) ==
    /\ wizard[t].step \in {2, 3} /\ ~wizard[t].busy
    /\ wizard' = [wizard EXCEPT ![t].step = 5 - @]
    /\ UNCHANGED <<shop, link, edits, record, alias, claimed, known>>

\* Back to the selection, from step 2 or from the result.
WizardRestart(t) ==
    /\ wizard[t].step \in {2, 4} /\ ~wizard[t].busy
    /\ wizard' = [wizard EXCEPT ![t] = Fresh]
    /\ UNCHANGED <<shop, link, edits, record, alias, claimed, known>>

-----------------------------------------------------------------------------
(* Commit.                                                                 *)

\* The products whose action is `action` and is still legal.
Asked(rows, choices, action) ==
    {p \in DOMAIN rows : choices[p] = action /\ Allowed(rows[p].state, action)}

\* The batch that writes SKUs, when there is something to write.
Write(items) == IF items = {} THEN << >> ELSE <<[op |-> "write", items |-> items]>>

RecordOp(p, w, s, adopted, more) ==
    [op |-> "record", p |-> p, id |-> w, sku |-> s, adopted |-> adopted, alias |-> more]

AliasOp(p, s, w) == [op |-> "alias", p |-> p, sku |-> s, record |-> w]

\* The record and then, for a SKU that is not canonical, the alias.
Adoption(p, row) == RecordOp(p, row.id, row.sku, TRUE, row.sku # p)

\* The record first, then the alias.
RealiasRecordFirst(p, row) == RecordOp(p, row.id, row.sku, None, TRUE)

Realias(p, row) == AliasOp(p, row.sku, row.id)

\* The writes of a commit, from the classification it has just made; `adopts` and
\* `realiases` are in the order of the names of the products.
Plan(rows, choices, adopts, realiases) ==
    LET creates  == Asked(rows, choices, "create")
        updates  == Asked(rows, choices, "update")
        restores == Asked(rows, choices, "restore_sku")
    IN  (IF creates = {} THEN << >> ELSE <<[op |-> "create", items |-> creates]>>)
        \o Write({[p |-> p, id |-> rows[p].id, record |-> FALSE,
                   sku |-> IF record[p] = None THEN p ELSE record[p].sku] : p \in updates})
        \o Write({[p |-> p, id |-> rows[p].id, record |-> TRUE, sku |-> p] : p \in restores})
        \o [i \in DOMAIN adopts |-> Adoption(adopts[i], rows[adopts[i]])]
        \o [i \in DOMAIN realiases |-> Realias(realiases[i], rows[realiases[i]])]

\* Step 3: the commit classifies again and knows what to write.
RunCommit(t) ==
    /\ wizard[t].step = 3 /\ ~wizard[t].busy
    /\ \E p \in DOMAIN wizard[t].choices : wizard[t].choices[p] # "skip"
    /\ HasConnection
    /\ LET now == ClassifyAll(DOMAIN wizard[t].rows)
       IN  \E adopts \in SetToSeqs(Asked(now, wizard[t].choices, "adopt")),
              realiases \in SetToSeqs(Asked(now, wizard[t].choices, "realias")) :
             wizard' = [wizard EXCEPT ![t].busy = TRUE, ![t].link = link,
                          ![t].todo = Plan(now, wizard[t].choices, adopts, realiases)]
    /\ UNCHANGED <<shop, link, edits, record, alias, claimed, known>>

Next1(t, op) == wizard[t].busy /\ wizard[t].todo # << >> /\ Head(wizard[t].todo).op = op

\* The rest of the commit, after `more`.
Then(t, more) == wizard' = [wizard EXCEPT ![t].todo = more \o Tail(@)]

\* A product as the program creates it, under the canonical SKU.
NewProduct(p) == [live |-> TRUE, sku |-> p, wrote |-> "ruo", madeFor |-> p]

\* The store creates the batch; a SKU that is taken is refused.
CreateBatch(t) ==
    /\ Next1(t, "create")
    /\ LET free == {p \in Head(wizard[t].todo).items : WithSku(p) = {}}
       IN  \E ids \in Injection(free, NextIds(Cardinality(free))) :
             /\ shop' = [w \in Ids |->
                           IF \E p \in free : ids[p] = w
                           THEN NewProduct(CHOOSE p \in free : ids[p] = w)
                           ELSE shop[w]]
             /\ claimed' = claimed \cup {ids[p] : p \in free}
             /\ \E order \in SetToSeqs(free) :
                  Then(t, [i \in DOMAIN order |-> RecordOp(order[i], ids[order[i]], order[i], FALSE, FALSE)])
    /\ UNCHANGED <<link, edits, record, alias, known>>

\* The store writes the SKUs of a batch, one after the other; one that is gone
\* or whose SKU is taken is refused.
WriteBatch(t) ==
    /\ Next1(t, "write")
    /\ LET items == Head(wizard[t].todo).items
           done  == {i \in items : shop[i.id].live /\ WithSku(i.sku) \subseteq {i.id}}
       IN  /\ shop' = [w \in Ids |->
                         IF \E i \in done : i.id = w
                         THEN [shop[w] EXCEPT !.wrote = "ruo",
                                              !.sku = (CHOOSE i \in done : i.id = w).sku]
                         ELSE shop[w]]
           /\ \E again \in SetToSeqs({i \in done : i.record}) :
                Then(t, [j \in DOMAIN again |-> RecordOp(again[j].p, again[j].id, again[j].sku, None, FALSE)])
    /\ UNCHANGED <<link, edits, record, alias, claimed, known>>

\* `adopted` is written even when the caller leaves it alone.
UpsertVerbatim(t) ==
    /\ Next1(t, "record")
    /\ LET o == Head(wizard[t].todo)
       IN  /\ wizard[t].link = link
           /\ record' = [record EXCEPT ![o.p] = [id |-> o.id, sku |-> o.sku, adopted |-> o.adopted]]
           /\ claimed' = claimed \cup {o.id}
           /\ known' = known \cup {<<o.p, o.id>>}
           /\ Then(t, IF o.alias THEN <<AliasOp(o.p, o.sku, None)>> ELSE << >>)
    /\ UNCHANGED <<shop, link, edits, alias>>

\* The upsert of a record; the connection must still be there, and no other
\* product may have the id.
UpsertProvisioning(t) ==
    /\ Next1(t, "record")
    /\ LET o == Head(wizard[t].todo)
       IN  /\ wizard[t].link = link
           /\ \A q \in Products \ {o.p} : record[q] # None => record[q].id # o.id
           /\ record' = [record EXCEPT ![o.p] =
                           [id |-> o.id, sku |-> o.sku,
                            adopted |-> IF o.adopted # None THEN o.adopted
                                        ELSE IF @ = None THEN FALSE ELSE @.adopted]]
           /\ claimed' = claimed \cup {o.id}
           /\ known' = known \cup {<<o.p, o.id>>}
           /\ Then(t, IF o.alias THEN <<AliasOp(o.p, o.sku, None)>> ELSE << >>)
    /\ UNCHANGED <<shop, link, edits, alias>>

UpsertAlias(t) ==
    /\ Next1(t, "alias")
    /\ LET o == Head(wizard[t].todo)
       IN  /\ alias' = [alias EXCEPT ![o.sku] = o.p]
           /\ Then(t, IF o.record = None THEN << >> ELSE <<RecordOp(o.p, o.record, o.sku, None, FALSE)>>)
    /\ UNCHANGED <<shop, link, edits, record, claimed, known>>

\* Step 4: the outcomes are shown.
CommitDone(t) ==
    /\ wizard[t].busy /\ wizard[t].todo = << >>
    /\ wizard' = [wizard EXCEPT ![t] = [Fresh EXCEPT !.step = 4]]
    /\ UNCHANGED <<shop, link, edits, record, alias, claimed, known>>

\* A call fails, a constraint is violated or the server stops: what was written
\* stays, and the wizard is at step 3 with an error.
CommitFails(t) ==
    /\ wizard[t].busy
    /\ wizard' = [wizard EXCEPT ![t].busy = FALSE, ![t].todo = << >>, ![t].link = 0]
    /\ UNCHANGED <<shop, link, edits, record, alias, claimed, known>>

-----------------------------------------------------------------------------
(* The brand, in its store and on the store screen.                        *)

Edit == edits < MaxEdits /\ edits' = edits + 1

BrandCreates(s) ==
    /\ Edit
    /\ WithSku(s) = {}
    /\ \E w \in NextIds(1) : shop' = [shop EXCEPT ![w] = [NoProduct EXCEPT !.live = TRUE, !.sku = s]]
    /\ UNCHANGED <<link, record, alias, wizard, claimed, known>>

BrandRenames(w, s) ==
    /\ Edit
    /\ w \in LiveIds
    /\ WithSku(s) = {}
    /\ shop' = [shop EXCEPT ![w].sku = s, ![w].wrote = "brand"]
    /\ UNCHANGED <<link, record, alias, wizard, claimed, known>>

BrandDeletes(w) ==
    /\ Edit
    /\ w \in LiveIds
    /\ shop' = [shop EXCEPT ![w].live = FALSE]
    /\ UNCHANGED <<link, record, alias, wizard, claimed, known>>

\* The connection goes, and its records with it; aliases stay.
Unlink ==
    /\ link # 0
    /\ Edit
    /\ link' = 0
    /\ record' = [p \in Products |-> None]
    /\ known' = {}
    /\ UNCHANGED <<shop, alias, wizard, claimed>>

Relink ==
    /\ link = 0
    /\ Edit
    /\ link' = edits + 2
    /\ UNCHANGED <<shop, record, alias, wizard, claimed, known>>

ProvisionNext ==
    \/ \E t \in Tabs, selected \in SUBSET Products : RunPreflight(t, selected)
    \/ \E t \in Tabs, p \in Products, action \in Actions : Choose(t, p, action)
    \/ \E t \in Tabs : Turn(t) \/ WizardRestart(t) \/ RunCommit(t)
    \/ \E t \in Tabs : CreateBatch(t) \/ WriteBatch(t) \/ UpsertProvisioning(t)
                       \/ UpsertAlias(t) \/ CommitDone(t) \/ CommitFails(t)
    \/ \E s \in ShopSkus : BrandCreates(s)
    \/ \E w \in Ids, s \in ShopSkus : BrandRenames(w, s)
    \/ \E w \in Ids : BrandDeletes(w)
    \/ Unlink \/ Relink

-----------------------------------------------------------------------------
(* Properties.                                                             *)

\* A commit writes only to products that the program created or the brand
\* adopted, however the store changed since the preflight ("NEVER overwrite:
\* skip by default, adopt only if the brand explicitly claims it",
\* provisioning.ts:147).
NoBlindWrite == \A w \in LiveIds : shop[w].wrote = "ruo" => w \in claimed

\* Whenever a record is written, the SKU it records already leads the orders
\* of the store to its product (the alias is written first when one is needed,
\* store-preflight.ts:288).
RecordedSkuResolves ==
    [][\A p \in Products : record'[p] # record[p] /\ record'[p] # None
          => Resolve(alias', record'[p].sku) = p]_provisionVars

\* The store never holds two products that were made for one catalog product
\* and recorded: repeating a commit "converges rather than duplicating"
\* (store-preflight.ts:119).
NoSecondProduct ==
    \A p \in Products :
        Cardinality({w \in LiveIds : shop[w].madeFor = p /\ <<p, w>> \in known}) <= 1
=============================================================================
