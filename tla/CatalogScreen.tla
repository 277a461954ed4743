--------------------------- MODULE CatalogScreen ---------------------------
\* The catalog screen of one administrator (Catalog.tsx, DataTable.tsx): a list that
\* is loaded and filtered in the browser, a selection for the bulk actions, and the
\* drawer of one product, opened with the row as it was listed.
EXTENDS CatalogLifecycle

CONSTANTS Operator,    \* the administrator at the screen
          MaxClicks    \* toggles of the archived view, filters, selections, drawers

ASSUME OperatorAssumption == Operator \in Admins /\ MaxClicks \in Nat

VARIABLES
    view,     \* what the screen shows and what is ticked on it
    loads,    \* lists on their way to the browser: a function from 1..n
    clicks

viewVars == <<view, loads, clicks>>

Filters == {"all"} \cup StockStates
NoList == [p \in Items |-> Missing]

\* GET /api/admin/catalog?archived=..., as catalogListWhere selects the rows.
CatalogListWhere(archived) ==
    [p \in Items |-> IF product[p] # Missing /\ product[p].archived = archived THEN product[p] ELSE Missing]

LoadList(archived) == loads' = Append(loads, CatalogListWhere(archived))

ScreenInit ==
    /\ view = [archived |-> FALSE, filter |-> "all", list |-> NoList, loading |-> TRUE, selected |-> {},
                 drawer |-> Missing, confirm |-> Missing, sent |-> Missing]
    /\ loads = <<CatalogListWhere(FALSE)>>
    /\ clicks = 0

Click == clicks < MaxClicks /\ clicks' = clicks + 1

\* The rows the table shows: filtered by the status tab.
Visible(sc) == {p \in Items : sc.list[p] # Missing /\ sc.filter \in {"all", sc.list[p].status}}

\* The tests of whether the table can be clicked: no dialog or drawer over it.
AtTable == view.drawer = Missing /\ view.confirm = Missing

\* A list arrives; the last one to arrive is the one shown.
Arrive ==
    /\ \E i \in DOMAIN loads :
          /\ view' = [view EXCEPT !.list = loads[i], !.loading = FALSE]
          /\ loads' = [j \in 1..Len(loads) - 1 |-> IF j < i THEN loads[j] ELSE loads[j + 1]]
    /\ UNCHANGED clicks

\* The archived view has its own list; the selection goes.
ShowArchived ==
    /\ AtTable /\ Click
    /\ view' = [view EXCEPT !.archived = ~@, !.loading = TRUE, !.selected = {}]
    /\ LoadList(~view.archived)

\* The filters work on the list at hand; the selection goes.
SetFilter ==
    /\ AtTable /\ Click
    /\ \E f \in Filters \ {view.filter} : view' = [view EXCEPT !.filter = f, !.selected = {}]
    /\ UNCHANGED loads

Tick ==
    /\ AtTable /\ Click /\ ~view.loading
    /\ \E p \in Visible(view) :
          view' = [view EXCEPT !.selected = IF p \in @ THEN @ \ {p} ELSE @ \cup {p}]
    /\ UNCHANGED loads

\* "All" is what is rendered; clearing wins when all of it is ticked.
TickAll ==
    /\ AtTable /\ Click /\ ~view.loading /\ Visible(view) # {}
    /\ view' = [view EXCEPT !.selected = IF Visible(view) \subseteq @ THEN {} ELSE Visible(view)]
    /\ UNCHANGED loads

Clear ==
    /\ AtTable /\ Click /\ view.selected # {} /\ view.sent = Missing
    /\ view' = [view EXCEPT !.selected = {}]
    /\ UNCHANGED loads

OpenDrawer ==
    /\ AtTable /\ Click /\ ~view.loading
    /\ \E p \in Visible(view) :
          view' = [view EXCEPT !.drawer = [id |-> p, row |-> view.list[p], stock |-> view.list[p].status]]
    /\ UNCHANGED loads

CloseDrawer ==
    /\ view.drawer # Missing
    /\ view' = [view EXCEPT !.drawer = Missing]
    /\ UNCHANGED <<loads, clicks>>

(* What the screen sends.  One request at a time is on its way from it. *)

\* The operations the drawer offers for a product; the stock field is there for an archived one too.
Offered(d) ==
    {"set_stock"}
    \cup (IF d.row.archived THEN {"unarchive"}
          ELSE {"edit", IF d.row.published THEN "unpublish" ELSE "publish"})
    \cup (IF d.row.archived \/ d.row.published THEN {} ELSE {"delete"})
    \cup (IF ~d.row.archived /\ d.row.published /\ d.stock = "out_of_stock" THEN {"archive"} ELSE {})

\* The whole form is saved; a published product keeps its SKU field out of it.
FormOf(d) == {f \in Forms : d.row.published => f.sku = d.row.sku}

PressDrawer ==
    /\ view.drawer # Missing /\ view.sent = Missing
    /\ LET d == view.drawer IN
       /\ \/ \E op \in Offered(d) \cap (Lifecycle \ {"set_stock"}) : Submit(Operator, op, <<d.id>>, Missing, Missing)
          \/ "edit" \in Offered(d) /\ \E f \in FormOf(d) : Submit(Operator, "edit", <<d.id>>, Missing, f)
          \/ "delete" \in Offered(d) /\ Submit(Operator, "delete", <<d.id>>, Missing, Missing)
       /\ view' = [view EXCEPT !.sent = "drawer"]
    /\ UNCHANGED <<loads, clicks>>

\* The field shows the new stock state before the server has it.
ChangeStock ==
    /\ view.drawer # Missing /\ view.sent = Missing
    /\ \E to \in StockStates \ {view.drawer.stock} :
          /\ Submit(Operator, "set_stock", <<view.drawer.id>>, to, Missing)
          /\ view' = [view EXCEPT !.drawer.stock = to, !.sent = "drawer"]
    /\ UNCHANGED <<loads, clicks>>

CreateProduct ==
    /\ AtTable /\ view.sent = Missing /\ ~view.archived
    /\ \E p \in Items, k \in Skus :
          product[p] = Missing /\ Submit(Operator, "create", <<p>>, Missing, [sku |-> k, price |-> 0])
    /\ view' = [view EXCEPT !.sent = "create"]
    /\ UNCHANGED <<loads, clicks>>

\* The bulk actions: one on archived products; on the others two ask first.
BulkOffered == IF view.archived THEN {"unarchive"} ELSE {"publish", "unpublish", "set_stock", "archive"}
AsksFirst(op) == op \in {"unpublish", "archive"}

OrderingsOf(S) == {o \in Orderings : {o[i] : i \in DOMAIN o} = S}

RunBulk(op) ==
    /\ view.selected # {} /\ view.sent = Missing
    /\ \E o \in OrderingsOf(view.selected), to \in StockStates \cup {Missing} :
          (to # Missing <=> op = "set_stock") /\ Submit(Operator, op, o, to, Missing)

PressBulk ==
    /\ AtTable
    /\ \E op \in BulkOffered :
          IF AsksFirst(op)
          THEN /\ view.selected # {} /\ view.sent = Missing
               /\ view' = [view EXCEPT !.confirm = op]
               /\ UNCHANGED <<job, spent>>
          ELSE RunBulk(op) /\ view' = [view EXCEPT !.sent = "bulk"]
    /\ UNCHANGED <<loads, clicks>>

ConfirmBulk ==
    /\ view.confirm # Missing
    /\ RunBulk(view.confirm) /\ view' = [view EXCEPT !.sent = "bulk"]
    /\ UNCHANGED <<loads, clicks>>

CancelBulk ==
    /\ view.confirm # Missing
    /\ view' = [view EXCEPT !.confirm = Missing]
    /\ UNCHANGED <<loads, clicks>>

\* The answer to the screen.  A drawer closes on success and stays open on an error; a bulk
\* request clears the selection.  Both load the list again.
Failed == job[Operator].pc = "error" \/ (view.sent # "bulk" /\ "refused" \in {job[Operator].result[p] : p \in Items})
ScreenReply ==
    /\ view.sent # Missing /\ Answered(Operator)
    /\ job' = [job EXCEPT ![Operator] = Idle]
    /\ IF Failed
       THEN /\ view' = [view EXCEPT !.sent = Missing, !.confirm = IF view.sent = "bulk" THEN Missing ELSE @]
            /\ UNCHANGED loads
       ELSE /\ view' = [view EXCEPT !.sent = Missing, !.loading = TRUE,
                              !.drawer = IF view.sent = "drawer" THEN Missing ELSE @,
                              !.confirm = IF view.sent = "bulk" THEN Missing ELSE @,
                              !.selected = IF view.sent = "bulk" THEN {} ELSE @]
            /\ LoadList(view.archived)
    /\ UNCHANGED <<product, orders, records, shelf, health, missed, spent, clicks>>

Look == Arrive \/ ShowArchived \/ SetFilter \/ Tick \/ TickAll \/ Clear \/ OpenDrawer \/ CloseDrawer \/ CancelBulk
Press == PressDrawer \/ ChangeStock \/ CreateProduct \/ PressBulk \/ ConfirmBulk

ScreenNext ==
    \/ Look /\ UNCHANGED catalogVars
    \/ Press /\ UNCHANGED <<product, orders, records, shelf, health, missed>>
    \/ ScreenReply
    \/ Serve(Operator) /\ UNCHANGED viewVars
    \/ Brands /\ UNCHANGED viewVars

(* Properties. *)

ScreenTypeOK ==
    /\ view.archived \in BOOLEAN /\ view.filter \in Filters
    /\ view.list \in [Items -> Row \cup {Missing}]
    /\ view.selected \subseteq Items
    /\ view.confirm \in {Missing, "unpublish", "archive"}
    /\ view.sent \in {Missing, "drawer", "create", "bulk"}
    /\ \A i \in DOMAIN loads : loads[i] \in [Items -> Row \cup {Missing}]
=============================================================================
