------------------------------- MODULE MCShop -------------------------------
(***************************************************************************)
(* The goods, from the catalog of the administrators to the stores of the  *)
(* brands.  A behaviour follows a scenario, chosen at its start, in which  *)
(* one part moves: the catalog, provisioning, or the connection of a store *)
(* (each of which knows of the others only what it reads of them).         *)
(***************************************************************************)
EXTENDS CatalogScreen, CatalogImport, StoreProvision, StoreConnection, TLC

CONSTANT Scenarios

VARIABLE scenario

shopVars == <<catalogVars, viewVars, importVars, provisionVars, connectionVars, scenario>>

In(s) == scenario \in s

\* The files of the instances, over the SKUs k and l.
Good(sku, cents) == [sku |-> sku, cell |-> "price", cents |-> cents, full |-> TRUE, wide |-> FALSE]
Sheets ==
    LET ks == CHOOSE pair \in Skus \X Skus : pair[1] # pair[2]
        k == ks[1]  l == ks[2]
    IN {[header |-> "ok", lines |-> ls] : ls \in {
            <<Good(k, 1), Good(l, 1)>>,
            <<Good(k, 0), Good(k, 1)>>,
            <<[Good(k, 1) EXCEPT !.full = FALSE], [Good(l, 0) EXCEPT !.cell = "blank"]>>,
            <<[Good(k, 1) EXCEPT !.cell = "bad"], [Good(l, 1) EXCEPT !.wide = TRUE], Good(Missing, 1)>>}}
       \cup {[header |-> "forbidden", lines |-> <<Good(k, 1)>>]}

-----------------------------------------------------------------------------

(* How the steps of a scenario meet. *)

\* "requests": one administrator sends requests, while brands stock and order the products;
\* "clicks": the same from the catalog screen; "import": the import page, while another
\* administrator edits, archives and deletes.
OneItem == Cardinality({p \in Items : product[p] # Missing}) <= 1
CatalogFollows ==
    CASE In({"requests"}) -> /\ \A p \in Items : product[p] # Missing => product[p].price = 0
                             /\ OneItem \/ (spent.brand <= 1 /\ spent.requests + spent.brand <= 2)
                             /\ OneItem \/ \A p \in Items : product[p].status # "soon"
      [] In({"clicks"}) -> /\ \A p \in Items : product[p] # Missing => product[p].price = 0
                           /\ spent.brand <= 1 /\ spent.requests <= 1
      [] In({"import"}) -> /\ spent.brand = 0 /\ spent.requests <= 1
                           /\ \A a \in Admins : job[a].op \in {"none", "edit", "archive", "delete"}

\* "shop": one product after the other in one wizard, while the brand edits its store and its
\* connection; "tabs": two wizards at the same time.  The brand keeps the canonical SKU of
\* one product off the products recorded for another.
ProvisionFollows ==
    /\ \A p \in Products : record[p] # None /\ shop[record[p].id].live
                            => shop[record[p].id].sku \in OwnSkus \cup {p}
    /\ In({"shop"}) => /\ \A t, u \in Tabs : wizard[t] # Fresh /\ wizard[u] # Fresh => t = u
                       /\ \A t \in Tabs : \A p, q \in DOMAIN wizard[t].rows : p = q
    /\ In({"tabs"}) => /\ link = 1 /\ edits <= 2
                       /\ \A w \in Ids \ FreeIds : shop[w].live /\ shop[w].sku \in Products
                             /\ (shop[w].wrote = "brand" => shop[w].madeFor = None)

\* "screens": two store screens; "screen": of which one at a time waits for a request.
ConnectionFollows ==
    IF In({"screen"}) THEN \A s, t \in Screens : screen[s].pc # "idle" /\ screen[t].pc # "idle" => s = t
                      ELSE faults <= 1

MCInit ==
    /\ CatalogInit /\ ScreenInit /\ ImportInit /\ ProvisionInit /\ ConnectionInit
    /\ scenario \in Scenarios
    /\ \A p \in Items : product[p] # Missing =>
           CASE In({"requests"}) -> TRUE
             [] In({"clicks"}) -> product[p].status # "soon"
             [] In({"import"}) -> ~product[p].published /\ product[p].status = "out_of_stock"
             [] OTHER -> FALSE

MCNext ==
    /\ UNCHANGED scenario
    /\ \/ In({"requests", "import"}) /\ CatalogNext /\ CatalogFollows'
          /\ UNCHANGED <<viewVars, importVars, provisionVars, connectionVars>>
       \/ In({"clicks"}) /\ ScreenNext /\ CatalogFollows'
          /\ UNCHANGED <<importVars, provisionVars, connectionVars>>
       \/ In({"import"}) /\ ImportNext /\ CatalogFollows'
          /\ UNCHANGED <<viewVars, provisionVars, connectionVars>>
       \/ In({"shop", "tabs"}) /\ ProvisionNext /\ ProvisionFollows'
          /\ UNCHANGED <<catalogVars, viewVars, importVars, connectionVars>>
       \/ In({"screens", "screen"}) /\ ConnectionNext /\ ConnectionFollows'
          /\ UNCHANGED <<catalogVars, viewVars, importVars, provisionVars>>

MCSpec == MCInit /\ [][MCNext]_shopVars

Symmetry == Permutations(Tabs) \cup Permutations(Products) \cup Permutations(Items)

-----------------------------------------------------------------------------

TypeOK ==
    /\ In({"requests", "clicks", "import"}) => CatalogTypeOK /\ ScreenTypeOK /\ ImportTypeOK
    /\ In({"shop", "tabs"}) => ProvisionTypeOK
    /\ In({"screens", "screen"}) => ConnectionTypeOK

\* A commit writes only what the program made or the brand gave it, and makes nothing twice
\* (provisioning.ts:147, store-preflight.ts:119).
ShopIsRespected == NoBlindWrite /\ NoSecondProduct

\* Both webhooks stand where the screen says so and, with one screen at a time, none is left
\* of a connection that is gone (Store.tsx:205, brand-store.ts:340).
NoneStray == [][In({"screen"}) => NoStrayHooks']_connectionVars
HooksAreTrue == SavedIsComplete /\ NoneStray

\* An import does what its preview showed, and says what it did (catalog-import.ts:25, :198).
ImportIsTrue == ApprovedIsCurrent /\ [][ResultIsTrue']_importVars

\* What was on sale or on an order keeps its SKU and its row (admin-catalog.ts:161, :312).
HistoryStands == SkuLocked /\ HistoryKept
=============================================================================
