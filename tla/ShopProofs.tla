------------------------------ MODULE ShopProofs ------------------------------
(***************************************************************************)
(* Proofs about the goods: for any number of products, stores and requests *)
(* of an administrator, from the API or from the catalog screen, no store  *)
(* is left selling what is not to be sold, what was sold or ordered keeps  *)
(* its SKU and its row, and a bulk request reaches all that it names; an   *)
(* import says what it did, a screen knows its webhooks, and a commit      *)
(* writes to a store only what is the program's to write.                  *)
(***************************************************************************)
EXTENDS MCShop, SequenceTheorems, WellFoundedInduction, FiniteSetTheorems, TLAPS

-----------------------------------------------------------------------------

(* The types of the catalog and of the requests about it. *)

Outcomes == {"none", "changed", "same", "refused"}
Steps == {"idle", "read", "write", "stores", "push", "insert", "count", "update", "delete", "error"}
Job ==
    [op: Lifecycle \cup {"none", "create", "edit", "delete"}, pc: Steps, named: SUBSET Items, todo: Seq(Items),
     to: StockStates \cup {Missing}, form: Forms \cup {Missing}, seen: Row \cup {Missing},
     left: SUBSET Stores, result: [Items -> Outcomes]]

\* What a request has at hand at each of its steps.
Fits(j) ==
    /\ j.pc = "idle" => j = Idle
    /\ j.op = "set_stock" => j.to \in StockStates
    /\ j.op \in {"create", "edit"} => j.form \in Forms
    /\ j.pc \in {"write", "stores", "push"} => j.op \in Lifecycle /\ j.seen \in Row
    /\ j.pc = "count" => j.op \in {"edit", "delete"} /\ j.seen \in Row
    /\ j.pc = "insert" => j.op = "create"
    /\ j.pc = "update" => j.op = "edit"
    /\ j.pc = "delete" => j.op = "delete"
    /\ j.pc \notin {"idle", "read", "error"} => j.todo # <<>>

Shelved == [sku: Skus \cup {Missing}, selling: BOOLEAN]

TablesShape ==
    /\ product \in [Items -> Row \cup {Missing}]
    /\ orders \subseteq Items /\ records \in [Stores -> SUBSET Items]
    /\ shelf \in [Stores -> [Items -> Shelved \cup {Missing}]]
    /\ health \in [Stores -> {"active", "error"}] /\ missed \in [Stores -> SUBSET Items]
    /\ spent \in [requests: Nat, brand: Nat]

JobsShape == job \in [Admins -> Job] /\ \A a \in Admins : Fits(job[a])

CatalogShape == TablesShape /\ JobsShape

\* A function on 1..n is a sequence.
LEMMA SeqFromFunction ==
    ASSUME NEW S, NEW n \in Nat, NEW f \in [1..n -> S]
    PROVE  f \in Seq(S)
OBVIOUS

LEMMA IdleShape == Idle \in Job /\ Fits(Idle) /\ Idle.pc = "idle" /\ Idle.op = "none" /\ Idle.todo = <<>>
BY DEF Idle, Job, Fits, Steps, Outcomes, Lifecycle

LEMMA RowShape ==
    ASSUME NEW r \in Row
    PROVE  /\ r # Missing /\ r.sku \in Skus /\ r.price \in Prices /\ r.status \in StockStates
           /\ r.published \in BOOLEAN /\ r.archived \in BOOLEAN
BY CatalogAssumption DEF Row

LEMMA FormShape == ASSUME NEW f \in Forms PROVE f.sku \in Skus /\ f.price \in Prices
BY DEF Forms

LEMMA DraftShape == ASSUME NEW sku \in Skus, NEW price \in Prices, NEW st \in StockStates PROVE Draft(sku, price, st) \in Row
BY DEF Draft, Row

\* A transition changes one column.
LEMMA TransitionShape ==
    ASSUME NEW op \in Lifecycle, NEW to, op = "set_stock" => to \in StockStates, NEW r \in Row
    PROVE  /\ Transition(op, to, r) \in Row
           /\ Transition(op, to, r).sku = r.sku
           /\ Transition(op, to, Transition(op, to, r)) = Transition(op, to, r)
           /\ Already(op, r) => Transition(op, to, r) = r
           /\ ~Pushes(op) /\ IsStoreSellable(r) => IsStoreSellable(Transition(op, to, r))
<1>1. CASE op = "publish"
  BY <1>1 DEF Transition, Already, Row, Pushes, IsStoreSellable
<1>2. CASE op = "unpublish"
  BY <1>2 DEF Transition, Already, Row, Pushes, IsStoreSellable
<1>3. CASE op = "set_stock"
  BY <1>3 DEF Transition, Already, Row, Pushes, IsStoreSellable
<1>4. CASE op = "archive"
  BY <1>4 DEF Transition, Already, Row, Pushes, IsStoreSellable
<1>5. CASE op = "unarchive"
  BY <1>5 DEF Transition, Already, Row, Pushes, IsStoreSellable
<1>6. QED
  BY <1>1, <1>2, <1>3, <1>4, <1>5 DEF Lifecycle

\* What finishing an item leaves of the request.
LEMMA FinishShape ==
    ASSUME NEW j \in Job, Fits(j), j.todo # <<>>, NEW outcome \in Outcomes
    PROVE  /\ Finish(j, outcome) \in Job /\ Fits(Finish(j, outcome))
           /\ Finish(j, outcome).pc = "read" /\ Finish(j, outcome).op = j.op
           /\ Finish(j, outcome).todo = Tail(j.todo) /\ Finish(j, outcome).named = j.named
           /\ Finish(j, outcome).to = j.to /\ Finish(j, outcome).form = j.form
           /\ Finish(j, outcome).result = [j.result EXCEPT ![Head(j.todo)] = outcome]
<1>1. Head(j.todo) \in Items /\ Tail(j.todo) \in Seq(Items)
  BY DEF Job
<1>2. [j.result EXCEPT ![Head(j.todo)] = outcome] \in [Items -> Outcomes]
  BY <1>1 DEF Job
<1> DEFINE res == [j.result EXCEPT ![Head(j.todo)] = outcome]
           rest == Tail(j.todo)
           q == [j EXCEPT !.pc = "read", !.todo = rest, !.seen = Missing, !.left = {}, !.result = res]
<1>3. Finish(j, outcome) = q
  BY DEF Finish, Job
<1>4. q \in Job /\ q.pc = "read" /\ q.op = j.op /\ q.todo = rest /\ q.named = j.named /\ q.to = j.to
      /\ q.form = j.form /\ q.result = res
  <2>1. res \in [Items -> Outcomes] /\ rest \in Seq(Items)
    BY <1>1, <1>2
  <2>. HIDE DEF res, rest
  <2>2. QED
    BY <2>1 DEF Job, Steps
<1>5. Fits(q)
  <2>. HIDE DEF q
  <2>1. QED
    BY <1>4 DEF Fits
<1>6. QED
  BY <1>3, <1>4, <1>5

LEMMA JobShape ==
    ASSUME CatalogShape, NEW a \in Admins
    PROVE  /\ job[a] \in Job /\ Fits(job[a])
           /\ job[a].todo \in Seq(Items)
           /\ job[a].todo # <<>> => Target(a) \in Items
           /\ job[a].pc \notin {"idle", "read", "error"} => Target(a) \in Items
BY DEF CatalogShape, JobsShape, Job, Fits, Target

LEMMA JobPut ==
    ASSUME JobsShape, NEW a \in Admins, NEW q \in Job, Fits(q), job' = [job EXCEPT ![a] = q]
    PROVE  JobsShape'
BY DEF JobsShape

\* A request goes on to another step with what it has.
LEMMA GotoShape ==
    ASSUME CatalogShape, NEW a \in Admins, NEW pc \in Steps \ {"idle"}, Goto(a, pc),
           Fits([job[a] EXCEPT !.pc = pc])
    PROVE  JobsShape' /\ job'[a] = [job[a] EXCEPT !.pc = pc]
<1>1. job[a] \in Job
  BY JobShape
<1>2. [job[a] EXCEPT !.pc = pc] \in Job
  BY <1>1 DEF Job
<1>3. PICK q \in Job : q = [job[a] EXCEPT !.pc = pc]
  BY <1>2
<1>4. job' = [job EXCEPT ![a] = q]
  BY <1>3 DEF Goto
<1>5. QED
  BY <1>3, <1>4, JobPut DEF CatalogShape, JobsShape

\* A request that is refused has only to be answered.
LEMMA ErrorFits == ASSUME NEW j \in Job, Fits(j) PROVE Fits([j EXCEPT !.pc = "error"])
<1> DEFINE q == [j EXCEPT !.pc = "error"]
<1>1. q.pc = "error" /\ q.op = j.op /\ q.to = j.to /\ q.form = j.form
  BY DEF Job
<1> HIDE DEF q
<1>2. Fits(q)
  BY <1>1 DEF Fits
<1>3. QED
  BY <1>2 DEF q

LEMMA LifecycleShape ==
    ASSUME CatalogShape, NEW a \in Admins, ReadItem(a) \/ WriteItem(a) \/ FindStores(a) \/ PushStore(a)
    PROVE  CatalogShape'
<1> DEFINE j == job[a]
<1>0. /\ j \in Job /\ Fits(j) /\ TablesShape /\ JobsShape
      /\ \A o \in Outcomes : j.todo # <<>> => Finish(j, o) \in Job /\ Fits(Finish(j, o))
      /\ j.todo # <<>> => Target(a) \in Items
  BY JobShape, FinishShape DEF CatalogShape
<1>1. CASE ReadItem(a)
  <2> DEFINE r == product[Target(a)]
  <2>1. r \in Row \cup {Missing} /\ j.todo # <<>> /\ j.op \in Lifecycle
    BY <1>0, <1>1 DEF ReadItem, TablesShape
  <2>2. [j EXCEPT !.pc = "write", !.seen = r] \in Job
    BY <1>0, <2>1 DEF Job, Steps
  <2>3. r # Missing => Fits([j EXCEPT !.pc = "write", !.seen = r])
    BY <1>0, <2>1 DEF Fits, Job
  <2>4. \E q \in Job : Fits(q) /\ job' = [job EXCEPT ![a] = q]
    <3>. HIDE DEF r
    <3>1. QED
      BY <1>0, <1>1, <2>1, <2>2, <2>3 DEF ReadItem, Outcomes, r
  <2>5. QED
    BY <1>0, <1>1, <2>4, JobPut DEF ReadItem, CatalogShape, TablesShape
<1>2. CASE WriteItem(a)
  <2> DEFINE r == Transition(j.op, j.to, product[Target(a)])
  <2>1. Target(a) \in Items /\ j.todo # <<>> /\ j.op \in Lifecycle /\ (j.op = "set_stock" => j.to \in StockStates)
    BY <1>0, <1>2 DEF WriteItem, Fits
  <2>2. product[Target(a)] # Missing => product[Target(a)] \in Row /\ r \in Row
    <3>1. product[Target(a)] \in Row \cup {Missing}
      BY <1>0, <2>1 DEF TablesShape
    <3>2. QED
      BY <2>1, <3>1, TransitionShape
  <2>3. CASE product[Target(a)] = Missing
    <3>1. Goto(a, "error") /\ UNCHANGED <<product, orders, records, shelf, health, missed, spent>>
      BY <1>2, <2>3 DEF WriteItem
    <3>2. JobsShape'
      BY <1>0, <3>1, GotoShape, ErrorFits DEF Steps
    <3>3. QED
      BY <1>0, <3>1, <3>2 DEF CatalogShape, TablesShape
  <2>4. CASE product[Target(a)] # Missing
    <3>. HIDE DEF r
    <3>1. [j EXCEPT !.pc = "stores", !.seen = r] \in Job
      BY <1>0, <2>2, <2>4 DEF Job, Steps
    <3>2. Fits([j EXCEPT !.pc = "stores", !.seen = r])
      <4> DEFINE q == [j EXCEPT !.pc = "stores", !.seen = r]
      <4>1. q.pc = "stores" /\ q.op = j.op /\ q.to = j.to /\ q.form = j.form /\ q.seen = r /\ q.todo = j.todo
        BY <1>0 DEF Job
      <4> HIDE DEF q
      <4>2. Fits(q)
        BY <1>0, <2>1, <2>2, <2>4, <4>1 DEF Fits
      <4>3. QED
        BY <4>2 DEF q
    <3>3. \E q \in Job : Fits(q) /\ job' = [job EXCEPT ![a] = q]
      <4>1. job' = [job EXCEPT ![a] = IF Pushes(j.op) THEN [j EXCEPT !.pc = "stores", !.seen = r] ELSE Finish(j, "changed")]
        BY <1>0, <1>2, <2>4 DEF WriteItem, r, JobsShape
      <4>2. QED
        BY <1>0, <2>1, <3>1, <3>2, <4>1 DEF Outcomes
    <3>4. product' \in [Items -> Row \cup {Missing}]
      BY <1>0, <1>2, <2>1, <2>2, <2>4 DEF WriteItem, TablesShape, r
    <3>5. QED
      BY <1>0, <1>2, <3>3, <3>4, JobPut DEF WriteItem, CatalogShape, TablesShape
  <2>5. QED
    BY <2>3, <2>4
<1>3. CASE FindStores(a)
  <2> DEFINE active == {s \in Stores : health[s] = "active"}
  <2>1. Target(a) \in Items /\ j.todo # <<>> /\ j.pc = "stores"
    BY <1>0, <1>3 DEF FindStores, Fits
  <2>2. [j EXCEPT !.pc = "push", !.left = active] \in Job /\ Fits([j EXCEPT !.pc = "push", !.left = active])
    BY <1>0, <2>1 DEF Job, Steps, Fits
  <2>3. \E q \in Job : Fits(q) /\ job' = [job EXCEPT ![a] = q]
    BY <1>0, <1>3, <2>1, <2>2 DEF FindStores, Outcomes
  <2>4. missed' \in [Stores -> SUBSET Items]
    BY <1>0, <1>3, <2>1 DEF FindStores, TablesShape
  <2>5. QED
    BY <1>0, <1>3, <2>3, <2>4, JobPut DEF FindStores, CatalogShape, TablesShape
<1>4. CASE PushStore(a)
  <2>1. Target(a) \in Items /\ j.todo # <<>> /\ j.pc = "push" /\ j.seen \in Row
    BY <1>0, <1>4 DEF PushStore, Fits
  <2>2. PICK s \in j.left :
          /\ \/ /\ shelf' = IF Carries(s, Target(a), j.seen.sku)
                            THEN [shelf EXCEPT ![s][Target(a)].selling = IsStoreSellable(j.seen)] ELSE shelf
                /\ missed' = [missed EXCEPT ![s] = @ \ {Target(a)}]
                /\ UNCHANGED health
             \/ /\ health' = [health EXCEPT ![s] = "error"]
                /\ missed' = [missed EXCEPT ![s] = @ \cup {Target(a)}]
                /\ UNCHANGED shelf
          /\ job' = [job EXCEPT ![a] = IF @.left = {s} THEN Finish(@, "changed") ELSE [j EXCEPT !.left = @ \ {s}]]
    BY <1>4 DEF PushStore
  <2>3. s \in Stores
    BY <1>0, <2>2 DEF Job
  <2>4. [j EXCEPT !.left = @ \ {s}] \in Job /\ Fits([j EXCEPT !.left = @ \ {s}])
    BY <1>0, <2>1 DEF Job, Fits
  <2>5. \E q \in Job : Fits(q) /\ job' = [job EXCEPT ![a] = q]
    <3>1. CASE j.left = {s}
      <4>1. job' = [job EXCEPT ![a] = Finish(j, "changed")]
        BY <2>2, <3>1
      <4>2. QED
        BY <1>0, <2>1, <4>1 DEF Outcomes
    <3>2. CASE j.left # {s}
      <4>1. job' = [job EXCEPT ![a] = [j EXCEPT !.left = @ \ {s}]]
        BY <2>2, <3>2
      <4>2. QED
        BY <2>4, <4>1
    <3>3. QED
      BY <3>1, <3>2
  <2>6. shelf' \in [Stores -> [Items -> Shelved \cup {Missing}]]
    <3>1. CASE UNCHANGED shelf
      BY <1>0, <3>1 DEF TablesShape
    <3>2. CASE /\ Carries(s, Target(a), j.seen.sku)
               /\ shelf' = [shelf EXCEPT ![s][Target(a)].selling = IsStoreSellable(j.seen)]
      <4>1. PICK b \in BOOLEAN : b = IsStoreSellable(j.seen)
        BY <2>1, RowShape DEF IsStoreSellable
      <4>2. shelf[s][Target(a)] \in Shelved
        BY <1>0, <2>1, <2>3, <3>2 DEF TablesShape, Carries
      <4>3. PICK x \in Shelved : x = [shelf[s][Target(a)] EXCEPT !.selling = b]
        BY <4>2 DEF Shelved
      <4>4. shelf' = [shelf EXCEPT ![s] = [@ EXCEPT ![Target(a)] = x]]
        BY <3>2, <4>1, <4>3
      <4>5. QED
        BY <1>0, <2>1, <2>3, <4>4 DEF TablesShape
    <3>3. QED
      BY <2>2, <3>1, <3>2
  <2>7. missed' \in [Stores -> SUBSET Items] /\ health' \in [Stores -> {"active", "error"}]
    <3>1. missed' = [missed EXCEPT ![s] = @ \ {Target(a)}] \/ missed' = [missed EXCEPT ![s] = @ \cup {Target(a)}]
      BY <2>2
    <3>2. UNCHANGED health \/ health' = [health EXCEPT ![s] = "error"]
      BY <2>2
    <3>3. missed' \in [Stores -> SUBSET Items]
      <4>1. missed[s] \in SUBSET Items /\ missed \in [Stores -> SUBSET Items]
        BY <1>0, <2>3 DEF TablesShape
      <4>2. PICK M \in SUBSET Items : missed' = [missed EXCEPT ![s] = M]
        BY <2>1, <3>1, <4>1
      <4>3. QED
        BY <2>3, <4>1, <4>2
    <3>4. health' \in [Stores -> {"active", "error"}]
      BY <1>0, <2>3, <3>2 DEF TablesShape
    <3>5. QED
      BY <3>3, <3>4
  <2>8. QED
    BY <1>0, <1>4, <2>5, <2>6, <2>7, JobPut DEF PushStore, CatalogShape, TablesShape
<1>5. QED
  BY <1>1, <1>2, <1>3, <1>4

LEMMA FormsShape ==
    ASSUME CatalogShape, NEW a \in Admins,
           \/ CreateCheck(a) \/ CreateRow(a) \/ EditRead(a) \/ EditCount(a)
           \/ EditWrite(a) \/ DeleteRead(a) \/ DeleteCount(a) \/ DeleteRow(a)
    PROVE  CatalogShape'
<1> DEFINE j == job[a]
<1>0. /\ j \in Job /\ Fits(j) /\ TablesShape /\ JobsShape
      /\ j.todo # <<>> => /\ Target(a) \in Items
                         /\ Finish(j, "changed") \in Job /\ Fits(Finish(j, "changed"))
      /\ Fits([j EXCEPT !.pc = "error"])
      /\ (Goto(a, "error") => JobsShape')
  BY JobShape, FinishShape, ErrorFits, GotoShape DEF CatalogShape, Outcomes, Steps
<1>1. ASSUME NEW q \in Job, Fits(q), job' = [job EXCEPT ![a] = q], TablesShape' PROVE CatalogShape'
  BY <1>0, <1>1, JobPut DEF CatalogShape
<1>2. ASSUME UNCHANGED <<product, orders, records, shelf, health, missed, spent>> PROVE TablesShape'
  BY <1>0, <1>2 DEF TablesShape
<1>3. ASSUME NEW pc \in {"insert", "update", "delete"}, Goto(a, pc), j.todo # <<>>,
             pc = "insert" => j.op = "create", pc = "update" => j.op = "edit", pc = "delete" => j.op = "delete"
      PROVE  JobsShape'
  <2> DEFINE q == [j EXCEPT !.pc = pc]
  <2>1. q.pc = pc /\ q.op = j.op /\ q.to = j.to /\ q.form = j.form /\ q.todo = j.todo
    BY <1>0 DEF Job
  <2>2. Fits(q)
    <3>. HIDE DEF q
    <3>1. QED
      BY <1>0, <1>3, <2>1 DEF Fits
  <2>3. QED
    BY <1>3, <2>2, GotoShape DEF Steps
<1>4. ASSUME EditRead(a) \/ DeleteRead(a) PROVE CatalogShape'
  <2> DEFINE r == product[Target(a)]
             q == [j EXCEPT !.pc = "count", !.seen = r]
             e == [j EXCEPT !.pc = "error"]
  <2>1. j.todo # <<>> /\ j.op \in {"edit", "delete"} /\ r \in Row \cup {Missing}
    BY <1>0, <1>4 DEF EditRead, DeleteRead, TablesShape
  <2>2. q \in Job /\ q.pc = "count" /\ q.op = j.op /\ q.to = j.to /\ q.form = j.form /\ q.todo = j.todo /\ q.seen = r
    <3>. HIDE DEF r
    <3>1. QED
      BY <1>0, <2>1 DEF Job, Steps
  <2>3. r # Missing => Fits(q)
    <3>. HIDE DEF q, r
    <3>1. QED
      BY <1>0, <2>1, <2>2 DEF Fits
  <2>4. e \in Job /\ Fits(e)
    BY <1>0 DEF Job, Steps
  <2>5. job' = [job EXCEPT ![a] = IF r = Missing THEN e ELSE q]
    BY <1>4 DEF EditRead, DeleteRead
  <2>6. TablesShape'
    BY <1>2, <1>4 DEF EditRead, DeleteRead
  <2>. HIDE DEF q, e, r
  <2>7. QED
    BY <1>1, <2>2, <2>3, <2>4, <2>5, <2>6
<1>5. CASE CreateCheck(a)
  <2>1. JobsShape'
    BY <1>0, <1>3, <1>5 DEF CreateCheck
  <2>2. QED
    BY <1>2, <1>5, <2>1 DEF CreateCheck, CatalogShape
<1>6. CASE EditCount(a)
  <2>1. j.todo # <<>>
    BY <1>0, <1>6 DEF EditCount, Fits
  <2>2. JobsShape'
    BY <1>0, <1>3, <1>6, <2>1 DEF EditCount
  <2>3. QED
    BY <1>2, <1>6, <2>2 DEF EditCount, CatalogShape
<1>7. CASE DeleteCount(a)
  <2>1. j.todo # <<>>
    BY <1>0, <1>7 DEF DeleteCount, Fits
  <2>2. JobsShape'
    BY <1>0, <1>3, <1>7, <2>1 DEF DeleteCount
  <2>3. QED
    BY <1>2, <1>7, <2>2 DEF DeleteCount, CatalogShape
<1>8. ASSUME Goto(a, "error"), UNCHANGED <<product, orders, records, shelf, health, missed, spent>> PROVE CatalogShape'
  BY <1>0, <1>2, <1>8 DEF CatalogShape
<1>9. CASE CreateRow(a)
  <2>1. Target(a) \in Items /\ j.todo # <<>> /\ j.form \in Forms
    BY <1>0, <1>9 DEF CreateRow, Fits
  <2>2. Draft(j.form.sku, j.form.price, "soon") \in Row
    BY <2>1, FormShape, DraftShape DEF StockStates
  <2>3. CASE job' = [job EXCEPT ![a] = Finish(j, "changed")]
             /\ product' = [product EXCEPT ![Target(a)] = Draft(j.form.sku, j.form.price, "soon")]
    <3>1. TablesShape'
      BY <1>0, <1>9, <2>1, <2>2, <2>3 DEF CreateRow, TablesShape
    <3>2. QED
      BY <1>0, <1>1, <2>1, <2>3, <3>1
  <2>4. QED
    BY <1>8, <1>9, <2>3 DEF CreateRow
<1>10. CASE EditWrite(a)
  <2>1. Target(a) \in Items /\ j.todo # <<>> /\ j.form \in Forms
    BY <1>0, <1>10 DEF EditWrite, Fits
  <2>2. CASE /\ job' = [job EXCEPT ![a] = Finish(j, "changed")] /\ product[Target(a)] # Missing
             /\ product' = [product EXCEPT ![Target(a)].sku = j.form.sku, ![Target(a)].price = j.form.price]
    <3>1. product[Target(a)] \in Row
      BY <1>0, <2>1, <2>2 DEF TablesShape
    <3>2. PICK r \in Row : r = [product[Target(a)] EXCEPT !.sku = j.form.sku, !.price = j.form.price]
      BY <2>1, <3>1, FormShape DEF Row
    <3>3. product' = [product EXCEPT ![Target(a)] = r]
      BY <1>0, <2>1, <2>2, <3>2 DEF TablesShape
    <3>4. TablesShape'
      BY <1>0, <1>10, <2>1, <3>3 DEF EditWrite, TablesShape
    <3>5. QED
      BY <1>0, <1>1, <2>1, <2>2, <3>4
  <2>3. QED
    BY <1>8, <1>10, <2>2 DEF EditWrite
<1>11. CASE DeleteRow(a)
  <2>1. Target(a) \in Items /\ j.todo # <<>>
    BY <1>0, <1>11 DEF DeleteRow, Fits
  <2>2. CASE /\ job' = [job EXCEPT ![a] = Finish(j, "changed")]
             /\ product' = [product EXCEPT ![Target(a)] = Missing]
             /\ records' = [s \in Stores |-> records[s] \ {Target(a)}]
    <3>1. TablesShape'
      BY <1>0, <1>11, <2>1, <2>2 DEF DeleteRow, TablesShape
    <3>2. QED
      BY <1>0, <1>1, <2>1, <2>2, <3>1
  <2>3. QED
    BY <1>8, <1>11, <2>2 DEF DeleteRow
<1>12. QED
  BY <1>4, <1>5, <1>6, <1>7, <1>9, <1>10, <1>11

-----------------------------------------------------------------------------

(* What moves the catalog, whoever asks for it. *)

NewJob(op, todo, to, form) ==
    [Idle EXCEPT !.op = op, !.pc = "read", !.todo = todo, !.named = {todo[i] : i \in DOMAIN todo}, !.to = to, !.form = form]

\* A request that makes sense: the lists, states and forms that the screen and the API send.
Sendable(op, todo, to, form) ==
    /\ op \in Lifecycle \cup {"create", "edit", "delete"} /\ todo \in Orderings
    /\ to \in StockStates \cup {Missing} /\ (op = "set_stock" => to \in StockStates)
    /\ form \in Forms \cup {Missing} /\ (op \in {"create", "edit"} => form \in Forms)
    /\ op = "create" => \E p \in Items : todo = <<p>> /\ product[p] = Missing

Submits(a) ==
    /\ \E op, todo, to, form : Sendable(op, todo, to, form) /\ Submit(a, op, todo, to, form)
    /\ UNCHANGED <<product, orders, records, shelf, health, missed>>

CatalogMove == (\E a \in Admins : Submits(a) \/ Serve(a) \/ Reply(a)) \/ Restart \/ Brands

LEMMA OrderingShape ==
    ASSUME NEW o \in Orderings
    PROVE  /\ o \in Seq(Items) /\ o # <<>> /\ {o[i] : i \in DOMAIN o} \in SUBSET Items
<1>1. ASSUME NEW p \in Items, o = <<p>> PROVE o \in Seq(Items) /\ o # <<>>
  BY <1>1
<1>2. ASSUME NEW p \in Items, NEW q \in Items, o = <<p, q>> PROVE o \in Seq(Items) /\ o # <<>>
  BY <1>2
<1>3. o \in Seq(Items) /\ o # <<>>
  BY <1>1, <1>2 DEF Orderings
<1>4. QED
  BY <1>3

LEMMA SingleOrdering == ASSUME NEW p \in Items PROVE <<p>> \in Orderings /\ DOMAIN <<p>> = {1} /\ <<p>>[1] = p
BY DEF Orderings

LEMMA NewJobShape ==
    ASSUME NEW op, NEW todo, NEW to, NEW form, Sendable(op, todo, to, form)
    PROVE  LET q == NewJob(op, todo, to, form) IN
           /\ q \in Job /\ Fits(q)
           /\ q.pc = "read" /\ q.op = op /\ q.todo = todo /\ q.to = to /\ q.form = form
           /\ q.named = {todo[i] : i \in DOMAIN todo} /\ q.result = [p \in Items |-> "none"]
<1> DEFINE names == {todo[i] : i \in DOMAIN todo}
           q == [Idle EXCEPT !.op = op, !.pc = "read", !.todo = todo, !.named = names, !.to = to, !.form = form]
<1>0. todo \in Seq(Items) /\ todo # <<>> /\ names \in SUBSET Items /\ op \in Lifecycle \cup {"create", "edit", "delete"}
      /\ to \in StockStates \cup {Missing} /\ (op = "set_stock" => to \in StockStates)
      /\ form \in Forms \cup {Missing} /\ (op \in {"create", "edit"} => form \in Forms)
  BY OrderingShape DEF Sendable
<1>1. NewJob(op, todo, to, form) = q
  BY DEF NewJob
<1>2. /\ q.pc = "read" /\ q.op = op /\ q.todo = todo /\ q.to = to /\ q.form = form
      /\ q.named = names /\ q.result = [p \in Items |-> "none"]
  <2>. HIDE DEF names
  <2>1. QED
    BY DEF Idle
<1>3. q \in Job
  <2>. HIDE DEF names
  <2>1. QED
    BY <1>0, IdleShape DEF Job, Steps
<1>4. Fits(q)
  <2>. HIDE DEF q
  <2>1. QED
    BY <1>0, <1>2 DEF Fits
<1>5. QED
  BY <1>1, <1>2, <1>3, <1>4

LEMMA SubmitIsNew ==
    ASSUME NEW a, NEW op, NEW todo, NEW to, NEW form, Submit(a, op, todo, to, form)
    PROVE  /\ job[a].pc = "idle" /\ job' = [job EXCEPT ![a] = NewJob(op, todo, to, form)]
           /\ spent' = [spent EXCEPT !.requests = @ + 1]
BY DEF Submit, NewJob

LEMMA RequestSubmits == ASSUME NEW a \in Admins, Request(a) PROVE Submits(a)
<1>1. CASE \E op \in Lifecycle \ {"set_stock"}, todo \in Orderings : Submit(a, op, todo, Missing, Missing)
  BY <1>1 DEF Request, Submits, Sendable, Lifecycle
<1>2. CASE \E to \in StockStates, todo \in Orderings : Submit(a, "set_stock", todo, to, Missing)
  <2>1. PICK to \in StockStates, todo \in Orderings : Submit(a, "set_stock", todo, to, Missing)
    BY <1>2
  <2>2. Sendable("set_stock", todo, to, Missing)
    BY DEF Sendable, Lifecycle
  <2>3. QED
    BY <2>1, <2>2 DEF Request, Submits
<1>3. CASE \E p \in Items, f \in Forms : product[p] # Missing /\ Submit(a, "edit", <<p>>, Missing, f)
  <2>1. PICK p \in Items, f \in Forms : Submit(a, "edit", <<p>>, Missing, f)
    BY <1>3
  <2>2. Sendable("edit", <<p>>, Missing, f)
    BY SingleOrdering DEF Sendable, Lifecycle
  <2>3. QED
    BY <2>1, <2>2 DEF Request, Submits
<1>4. CASE \E p \in Items : product[p] # Missing /\ Submit(a, "delete", <<p>>, Missing, Missing)
  <2>1. PICK p \in Items : Submit(a, "delete", <<p>>, Missing, Missing)
    BY <1>4
  <2>2. Sendable("delete", <<p>>, Missing, Missing)
    BY SingleOrdering DEF Sendable, Lifecycle
  <2>3. QED
    BY <2>1, <2>2 DEF Request, Submits
<1>5. CASE \E p \in Items, k \in Skus : product[p] = Missing /\ Submit(a, "create", <<p>>, Missing, [sku |-> k, price |-> 0])
  <2>1. PICK p \in Items, k \in Skus : product[p] = Missing /\ Submit(a, "create", <<p>>, Missing, [sku |-> k, price |-> 0])
    BY <1>5
  <2>2. [sku |-> k, price |-> 0] \in Forms
    BY DEF Forms, Prices
  <2>3. Sendable("create", <<p>>, Missing, [sku |-> k, price |-> 0])
    BY <2>1, <2>2, SingleOrdering DEF Sendable, Lifecycle
  <2>4. QED
    BY <2>1, <2>3 DEF Request, Submits
<1>6. QED
  BY <1>1, <1>2, <1>3, <1>4, <1>5 DEF Request

LEMMA CatalogMoves == CatalogNext => CatalogMove
BY RequestSubmits DEF CatalogNext, CatalogMove

LEMMA MoveShape == CatalogShape /\ CatalogMove => CatalogShape'
<1> SUFFICES ASSUME CatalogShape, CatalogMove PROVE CatalogShape'
  OBVIOUS
<1>0. TablesShape /\ JobsShape
  BY DEF CatalogShape
<1>1. ASSUME NEW a \in Admins, Submits(a) PROVE CatalogShape'
  <2>1. PICK op, todo, to, form : Sendable(op, todo, to, form) /\ Submit(a, op, todo, to, form)
    BY <1>1 DEF Submits
  <2>2. JobsShape'
    BY <1>0, <2>1, NewJobShape, SubmitIsNew, JobPut
  <2>3. spent' \in [requests: Nat, brand: Nat]
    BY <1>0, <2>1, SubmitIsNew DEF TablesShape
  <2>4. QED
    BY <1>0, <1>1, <2>2, <2>3 DEF Submits, CatalogShape, TablesShape
<1>2. ASSUME NEW a \in Admins, Serve(a) PROVE CatalogShape'
  BY <1>2, LifecycleShape, FormsShape DEF Serve
<1>3. ASSUME NEW a \in Admins, Reply(a) PROVE CatalogShape'
  BY <1>0, <1>3, IdleShape, JobPut DEF Reply, CatalogShape, TablesShape
<1>4. CASE Restart
  <2>1. JobsShape'
    BY <1>4, IdleShape DEF Restart, JobsShape
  <2>2. \A b \in Admins : job[b].pc \in {"stores", "push"} => Target(b) \in Items
    BY JobShape
  <2>3. missed' \in [Stores -> SUBSET Items]
    BY <1>0, <1>4, <2>2 DEF Restart, TablesShape
  <2>4. QED
    BY <1>0, <1>4, <2>1, <2>3 DEF Restart, CatalogShape, TablesShape
<1>5. CASE Brands
  <2>0. BrandStep => spent' \in [requests: Nat, brand: Nat]
    BY <1>0 DEF BrandStep, TablesShape
  <2>1. ASSUME NEW s \in Stores, NEW p \in Items, Provision(s, p) PROVE CatalogShape'
    <3>1. product[p] \in Row
      BY <1>0, <2>1 DEF Provision, TablesShape
    <3>2. PICK x \in Shelved : shelf' = [shelf EXCEPT ![s][p] = x]
      <4>1. IsStoreSellable(product[p]) \in BOOLEAN
        BY <3>1, RowShape DEF IsStoreSellable
      <4>2. QED
        BY <2>1, <3>1, <4>1, RowShape DEF Provision, Shelved
    <3>3. shelf' \in [Stores -> [Items -> Shelved \cup {Missing}]]
      BY <1>0, <3>2 DEF TablesShape
    <3>4. records' \in [Stores -> SUBSET Items]
      <4>1. PICK R \in SUBSET Items : records' = [records EXCEPT ![s] = R]
        BY <1>0, <2>1 DEF Provision, TablesShape
      <4>2. QED
        BY <1>0, <4>1 DEF TablesShape
    <3>5. QED
      BY <1>0, <2>0, <2>1, <3>3, <3>4 DEF Provision, CatalogShape, TablesShape, JobsShape
  <2>2. ASSUME NEW p \in Items, Order(p) PROVE CatalogShape'
    BY <1>0, <2>0, <2>2 DEF Order, CatalogShape, TablesShape, JobsShape
  <2>3. ASSUME NEW s \in Stores, Retest(s) PROVE CatalogShape'
    BY <1>0, <2>0, <2>3 DEF Retest, CatalogShape, TablesShape, JobsShape
  <2>4. QED
    BY <1>5, <2>1, <2>2, <2>3 DEF Brands
<1>6. QED
  BY <1>1, <1>2, <1>3, <1>4, <1>5 DEF CatalogMove

LEMMA CatalogShapeInit == CatalogInit => CatalogShape
<1> SUFFICES ASSUME CatalogInit PROVE CatalogShape
  OBVIOUS
<1>1. product \in [Items -> Row \cup {Missing}]
  <2>1. \A k \in Skus, st \in StockStates, b \in BOOLEAN : [Draft(k, 0, st) EXCEPT !.published = b] \in Row
    BY DEF Draft, Row, Prices
  <2>2. QED
    BY <2>1 DEF CatalogInit
<1>2. shelf \in [Stores -> [Items -> Shelved \cup {Missing}]]
  BY DEF CatalogInit
<1>3. QED
  BY <1>1, <1>2, IdleShape DEF CatalogInit, CatalogShape, TablesShape, JobsShape

-----------------------------------------------------------------------------

(* The screen sends nothing but sensible requests. *)

Drawer == [id: Items, row: Row, stock: StockStates]
Listing == [Items -> Row \cup {Missing}]
View == [archived: BOOLEAN, filter: Filters, list: Listing, loading: BOOLEAN, selected: SUBSET Items,
         drawer: Drawer \cup {Missing}, confirm: {Missing, "unpublish", "archive"},
         sent: {Missing, "drawer", "create", "bulk"}]

ScreenShape == view \in View /\ loads \in Seq(Listing)

LEMMA ListShape ==
    ASSUME CatalogShape, NEW archived \in BOOLEAN
    PROVE  CatalogListWhere(archived) \in Listing
BY DEF CatalogShape, TablesShape, CatalogListWhere, Listing

LEMMA LoadShape ==
    ASSUME CatalogShape, ScreenShape, NEW archived \in BOOLEAN, LoadList(archived)
    PROVE  loads' \in Seq(Listing)
BY ListShape DEF ScreenShape, LoadList

LEMMA ScreenShapeInit == CatalogShape /\ ScreenInit => ScreenShape
<1> SUFFICES ASSUME CatalogShape, ScreenInit PROVE ScreenShape
  OBVIOUS
<1>1. NoList \in Listing /\ CatalogListWhere(FALSE) \in Listing
  BY ListShape DEF NoList, Listing
<1>2. view \in View
  BY <1>1 DEF ScreenInit, View, Filters
<1>3. loads \in Seq(Listing)
  <2>1. \A x \in Listing : <<x>> \in Seq(Listing)
    OBVIOUS
  <2>2. QED
    BY <1>1, <2>1 DEF ScreenInit
<1>4. QED
  BY <1>2, <1>3 DEF ScreenShape

LEMMA LookShape ==
    ASSUME CatalogShape, ScreenShape, Look
    PROVE  ScreenShape'
<1>0. /\ view \in View /\ loads \in Seq(Listing)
      /\ view.archived \in BOOLEAN /\ view.list \in Listing /\ view.selected \in SUBSET Items
      /\ view.drawer \in Drawer \cup {Missing}
  BY DEF ScreenShape, View
<1>1. CASE Arrive
  <2>1. PICK i \in DOMAIN loads :
          /\ view' = [view EXCEPT !.list = loads[i], !.loading = FALSE]
          /\ loads' = [k \in 1..Len(loads) - 1 |-> IF k < i THEN loads[k] ELSE loads[k + 1]]
    BY <1>1 DEF Arrive
  <2>2. loads[i] \in Listing /\ Len(loads) \in Nat /\ i \in 1..Len(loads)
    BY <1>0
  <2>3. loads' \in Seq(Listing)
    <3>1. \A k \in 1..Len(loads) - 1 : (IF k < i THEN loads[k] ELSE loads[k + 1]) \in Listing
      BY <1>0, <2>2
    <3>2. Len(loads) - 1 \in Nat
      BY <2>2
    <3>3. loads' \in [1..Len(loads) - 1 -> Listing]
      BY <2>1, <3>1
    <3>4. QED
      BY <3>2, <3>3, SeqFromFunction
  <2>4. view' \in View
    BY <1>0, <2>1, <2>2 DEF View
  <2>5. QED
    BY <2>3, <2>4 DEF ScreenShape
<1>2. CASE ShowArchived
  <2>1. view' \in View
    BY <1>0, <1>2 DEF ShowArchived, View
  <2>2. loads' \in Seq(Listing)
    BY <1>0, <1>2, LoadShape DEF ShowArchived
  <2>3. QED
    BY <2>1, <2>2 DEF ScreenShape
<1>3. CASE SetFilter
  BY <1>0, <1>3 DEF SetFilter, ScreenShape, View
<1>4. CASE Tick
  <2>1. Visible(view) \subseteq Items
    BY DEF Visible
  <2>2. PICK S \in SUBSET Items : view' = [view EXCEPT !.selected = S]
    BY <1>0, <1>4, <2>1 DEF Tick
  <2>3. QED
    BY <1>0, <1>4, <2>2 DEF Tick, ScreenShape, View
<1>5. CASE TickAll \/ Clear
  <2>1. Visible(view) \subseteq Items
    BY DEF Visible
  <2>2. PICK S \in SUBSET Items : view' = [view EXCEPT !.selected = S]
    BY <1>0, <1>5, <2>1 DEF TickAll, Clear
  <2>3. QED
    BY <1>0, <1>5, <2>2 DEF TickAll, Clear, ScreenShape, View
<1>6. CASE OpenDrawer
  <2>1. PICK p \in Visible(view) :
          view' = [view EXCEPT !.drawer = [id |-> p, row |-> view.list[p], stock |-> view.list[p].status]]
    BY <1>6 DEF OpenDrawer
  <2>2. p \in Items /\ view.list[p] \in Row
    BY <1>0 DEF Visible, Listing
  <2>3. [id |-> p, row |-> view.list[p], stock |-> view.list[p].status] \in Drawer
    BY <2>2, RowShape DEF Drawer
  <2>4. QED
    BY <1>0, <1>6, <2>1, <2>3 DEF OpenDrawer, ScreenShape, View
<1>7. CASE CloseDrawer \/ CancelBulk
  BY <1>0, <1>7 DEF CloseDrawer, CancelBulk, ScreenShape, View
<1>8. QED
  BY <1>1, <1>2, <1>3, <1>4, <1>5, <1>6, <1>7 DEF Look

\* What the drawer offers is a request, and its form is a form.
LEMMA DrawerOffers ==
    ASSUME NEW d \in Drawer
    PROVE  /\ <<d.id>> \in Orderings
           /\ \A f \in FormOf(d) : f \in Forms
BY SingleOrdering DEF Drawer, FormOf

LEMMA BulkSubmits ==
    ASSUME NEW op \in Lifecycle, RunBulk(op)
    PROVE  \E todo, to, form : Sendable(op, todo, to, form) /\ Submit(Operator, op, todo, to, form)
<1>1. PICK o \in OrderingsOf(view.selected), to \in StockStates \cup {Missing} :
        (to # Missing <=> op = "set_stock") /\ Submit(Operator, op, o, to, Missing)
  BY DEF RunBulk
<1>2. Sendable(op, o, to, Missing)
  BY <1>1 DEF OrderingsOf, Sendable, Lifecycle
<1>3. QED
  BY <1>1, <1>2

LEMMA PressSubmits ==
    ASSUME ScreenShape, Press, UNCHANGED <<product, orders, records, shelf, health, missed>>
    PROVE  (Submits(Operator) \/ UNCHANGED catalogVars) /\ ScreenShape'
<1>0. /\ view \in View /\ loads \in Seq(Listing) /\ view.drawer \in Drawer \cup {Missing}
      /\ view.confirm \in {Missing, "unpublish", "archive"}
  BY DEF ScreenShape, View
<1>1. CASE PressDrawer
  <2> DEFINE d == view.drawer
  <2>1. d \in Drawer /\ <<d.id>> \in Orderings /\ \A f \in FormOf(d) : f \in Forms
    BY <1>0, <1>1, DrawerOffers DEF PressDrawer
  <2>. HIDE DEF d
  <2>2. ASSUME \E op \in Offered(d) \cap (Lifecycle \ {"set_stock"}) : Submit(Operator, op, <<d.id>>, Missing, Missing)
        PROVE  Submits(Operator)
    <3>1. PICK op \in Lifecycle \ {"set_stock"} : Submit(Operator, op, <<d.id>>, Missing, Missing)
      BY <2>2
    <3>2. Sendable(op, <<d.id>>, Missing, Missing)
      BY <2>1, <3>1 DEF Sendable, Lifecycle
    <3>3. QED
      BY <3>1, <3>2 DEF Submits
  <2>3. ASSUME \E f \in FormOf(d) : Submit(Operator, "edit", <<d.id>>, Missing, f) PROVE Submits(Operator)
    <3>1. PICK f \in Forms : Submit(Operator, "edit", <<d.id>>, Missing, f)
      BY <2>1, <2>3
    <3>2. Sendable("edit", <<d.id>>, Missing, f)
      BY <2>1, <3>1 DEF Sendable, Lifecycle
    <3>3. QED
      BY <3>1, <3>2 DEF Submits
  <2>4. ASSUME Submit(Operator, "delete", <<d.id>>, Missing, Missing) PROVE Submits(Operator)
    <3>1. Sendable("delete", <<d.id>>, Missing, Missing)
      BY <2>1 DEF Sendable, Lifecycle
    <3>2. QED
      BY <2>4, <3>1 DEF Submits
  <2>5. Submits(Operator)
    BY <1>1, <2>2, <2>3, <2>4 DEF PressDrawer, d
  <2>6. ScreenShape'
    BY <1>0, <1>1 DEF PressDrawer, ScreenShape, View
  <2>7. QED
    BY <2>5, <2>6
<1>2. CASE ChangeStock
  <2>1. PICK to \in StockStates :
          /\ Submit(Operator, "set_stock", <<view.drawer.id>>, to, Missing)
          /\ view' = [view EXCEPT !.drawer.stock = to, !.sent = "drawer"]
    BY <1>2 DEF ChangeStock
  <2>2. view.drawer \in Drawer
    BY <1>0, <1>2 DEF ChangeStock
  <2>3. Submits(Operator)
    <3>1. <<view.drawer.id>> \in Orderings
      BY <2>2, DrawerOffers
    <3>2. Sendable("set_stock", <<view.drawer.id>>, to, Missing)
      BY <3>1 DEF Sendable, Lifecycle
    <3>3. QED
      BY <2>1, <3>2 DEF Submits
  <2>4. ScreenShape'
    <3>1. PICK d \in Drawer : d = [view.drawer EXCEPT !.stock = to]
      BY <2>2 DEF Drawer
    <3>2. view' = [view EXCEPT !.drawer = d, !.sent = "drawer"]
      BY <2>1, <3>1
    <3>3. QED
      BY <1>0, <1>2, <3>2 DEF ChangeStock, ScreenShape, View
  <2>5. QED
    BY <2>3, <2>4
<1>3. CASE CreateProduct
  <2>1. PICK p \in Items, k \in Skus : product[p] = Missing /\ Submit(Operator, "create", <<p>>, Missing, [sku |-> k, price |-> 0])
    BY <1>3 DEF CreateProduct
  <2>2. Sendable("create", <<p>>, Missing, [sku |-> k, price |-> 0])
    <3>1. [sku |-> k, price |-> 0] \in Forms
      BY DEF Forms, Prices
    <3>2. QED
      BY <2>1, <3>1, SingleOrdering DEF Sendable, Lifecycle
  <2>3. Submits(Operator)
    BY <2>1, <2>2 DEF Submits
  <2>4. ScreenShape'
    BY <1>0, <1>3 DEF CreateProduct, ScreenShape, View
  <2>5. QED
    BY <2>3, <2>4
<1>4. CASE PressBulk
  <2>1. PICK op \in BulkOffered :
          IF AsksFirst(op)
          THEN /\ view' = [view EXCEPT !.confirm = op]
               /\ UNCHANGED <<job, spent>>
          ELSE RunBulk(op) /\ view' = [view EXCEPT !.sent = "bulk"]
    BY <1>4 DEF PressBulk
  <2>2. op \in Lifecycle /\ (AsksFirst(op) => op \in {"unpublish", "archive"})
    BY DEF BulkOffered, Lifecycle, AsksFirst
  <2>3. CASE AsksFirst(op)
    BY <1>0, <1>4, <2>1, <2>2, <2>3 DEF PressBulk, ScreenShape, View, catalogVars
  <2>4. CASE ~AsksFirst(op)
    <3>1. Submits(Operator)
      BY <2>1, <2>2, <2>4, BulkSubmits DEF Submits
    <3>2. QED
      BY <1>0, <1>4, <2>1, <2>4, <3>1 DEF PressBulk, ScreenShape, View
  <2>5. QED
    BY <2>3, <2>4
<1>5. CASE ConfirmBulk
  <2>1. view.confirm \in Lifecycle /\ RunBulk(view.confirm)
    BY <1>0, <1>5 DEF ConfirmBulk, Lifecycle
  <2>2. Submits(Operator)
    BY <2>1, BulkSubmits DEF Submits
  <2>3. QED
    BY <1>0, <1>5, <2>2 DEF ConfirmBulk, ScreenShape, View
<1>6. QED
  BY <1>1, <1>2, <1>3, <1>4, <1>5 DEF Press

\* Of a step of the screen the catalog sees a request, its handling, or an answer.
LEMMA ScreenMoves ==
    ASSUME CatalogShape, ScreenShape, ScreenNext
    PROVE  (CatalogMove \/ UNCHANGED catalogVars) /\ ScreenShape'
<1>0. Operator \in Admins /\ view \in View /\ loads \in Seq(Listing) /\ view.archived \in BOOLEAN
  BY OperatorAssumption DEF ScreenShape, View
<1>1. CASE Look /\ UNCHANGED catalogVars
  BY <1>1, LookShape
<1>2. CASE Press /\ UNCHANGED <<product, orders, records, shelf, health, missed>>
  BY <1>0, <1>2, PressSubmits DEF CatalogMove
<1>3. CASE ScreenReply
  <2>1. Reply(Operator)
    BY <1>3 DEF ScreenReply, Reply
  <2>2. view' \in View
    <3>1. CASE Failed
      BY <1>0, <1>3, <3>1 DEF ScreenReply, View
    <3>2. CASE ~Failed
      <4>1. PICK D \in Drawer \cup {Missing}, C \in {Missing, "unpublish", "archive"}, S \in SUBSET Items :
              view' = [view EXCEPT !.sent = Missing, !.loading = TRUE, !.drawer = D, !.confirm = C, !.selected = S]
        BY <1>0, <1>3, <3>2 DEF ScreenReply, View
      <4>2. QED
        BY <1>0, <4>1 DEF View
    <3>3. QED
      BY <3>1, <3>2
  <2>3. loads' \in Seq(Listing)
    BY <1>0, <1>3, LoadShape DEF ScreenReply
  <2>4. QED
    BY <1>0, <2>1, <2>2, <2>3 DEF CatalogMove, ScreenShape
<1>4. CASE Serve(Operator) /\ UNCHANGED viewVars
  BY <1>0, <1>4 DEF CatalogMove, viewVars, ScreenShape
<1>5. CASE Brands /\ UNCHANGED viewVars
  BY <1>5 DEF CatalogMove, viewVars, ScreenShape
<1>6. QED
  BY <1>1, <1>2, <1>3, <1>4, <1>5 DEF ScreenNext

-----------------------------------------------------------------------------

(* The import. *)

Verdicts == {"create", "update", "unchanged", "error"}
PlanLines == [sku: Skus \cup {Missing}, action: Verdicts, id: Items \cup {Missing}, from: SUBSET Prices, to: SUBSET Prices]
Previews == Seq(PlanLines)
Digests == {PreviewDigest(w) : w \in Previews}
Told == {"none", "created", "updated", "unchanged", "error"}

\* What a line that is to be written says.
Planned(r) ==
    /\ r.action \in {"create", "update"} => \E c \in Prices : r.to = {c}
    /\ r.action = "create" => r.sku \in Skus
    /\ r.action = "update" => r.id \in Items

PageShape ==
    /\ page \in [file: File \cup {Missing}, preview: Previews \cup {Missing}, result: Seq(Told) \cup {Missing},
                 confirming: BOOLEAN, busy: BOOLEAN, stale: BOOLEAN]
    /\ page.confirming => page.preview \in Previews

Commit == [pc: {"idle", "check", "write"}, file: File \cup {Missing}, digest: Digests \cup {Missing}, rows: Previews,
           todo: SUBSET Nat, retry: SUBSET Nat, result: Seq(Told)]

\* A line is still to be written, or it was written, or it is reported as what it is.
Reported(i) ==
    IF i \in run.todo THEN run.rows[i].action \in {"create", "update"} /\ run.result[i] = "none" /\ i \notin written
    ELSE run.result[i] # "none" /\ (run.result[i] \in {"created", "updated"} <=> i \in written)

RunShape ==
    /\ run \in Commit
    /\ run.retry \subseteq run.todo /\ run.todo \subseteq DOMAIN run.rows
    /\ run.pc # "write" => run.rows = <<>>
    /\ run.pc = "check" => run.digest = PreviewDigest(approved) /\ written = {}
    /\ run.pc = "write" => /\ DOMAIN run.result = DOMAIN run.rows
                           /\ \A i \in DOMAIN run.rows : Planned(run.rows[i]) /\ Reported(i)

ImportShape == PageShape /\ RunShape

\* A set of lines that is not empty has a first one.
LEMMA FirstOf == ASSUME NEW S \in SUBSET Nat, S # {} PROVE First(S) \in S
<1>1. PICK top \in S : TRUE
  OBVIOUS
<1> DEFINE low == {k \in S : k <= top}
           cut == {0..k : k \in low}
<1>2. top \in Nat /\ IsFiniteSet(0..top)
  <2>1. top \in Nat
    BY <1>1
  <2>2. ASSUME NEW n \in Nat PROVE IsFiniteSet(0..n)
    BY FS_Interval
  <2>3. QED
    BY <2>1, <2>2
<1>3. cut \subseteq FiniteSubsetsOf(0..top) /\ cut # {}
  <2>1. \A k \in low : 0..k \in SUBSET (0..top)
    BY <1>2
  <2>2. \A X \in SUBSET (0..top) : X \in FiniteSubsetsOf(0..top)
    BY <1>2, FS_FiniteSubsetsOfFinite
  <2>3. top \in low
    BY <1>1, <1>2
  <2>4. QED
    BY <2>1, <2>2, <2>3
<1>4. PICK X \in cut : \A Y \in cut : ~(<<Y, X>> \in StrictSubsetOrdering(0..top))
  BY <1>3, WFMin, FS_StrictSubsetOrderingWellFounded
<1>5. PICK i \in low : X = 0..i
  BY <1>4
<1>6. ASSUME NEW k \in S PROVE i <= k
  <2>1. SUFFICES ASSUME k < i PROVE FALSE
    BY <1>5, <1>6
  <2>2. k \in low /\ 0..k \in cut
    BY <1>2, <1>5, <2>1
  <2>3. 0..k \subseteq 0..i /\ 0..k # 0..i /\ 0..i \subseteq 0..top
    BY <1>2, <1>5, <2>1
  <2>4. QED
    BY <1>4, <1>5, <2>2, <2>3 DEF StrictSubsetOrdering
<1>7. QED
  BY <1>5, <1>6 DEF First

LEMMA FileShape ==
    /\ \A f \in Files : f \in File
    /\ CatalogShape => \A o \in Orderings : (\A i \in DOMAIN o : product[o[i]] # Missing) => ExportFile(o) \in File
<1>1. ASSUME CatalogShape, NEW o \in Orderings, \A i \in DOMAIN o : product[o[i]] # Missing
      PROVE  ExportFile(o) \in File
  <2>1. o \in Seq(Items)
    BY OrderingShape
  <2>2. \A i \in DOMAIN o : product[o[i]] \in Row
    BY <1>1, <2>1 DEF CatalogShape, TablesShape
  <2> DEFINE line(i) == [sku |-> product[o[i]].sku, cell |-> "price", cents |-> product[o[i]].price, full |-> TRUE, wide |-> FALSE]
             lines == [i \in DOMAIN o |-> line(i)]
  <2>3. \A i \in DOMAIN o : line(i) \in Line
    BY <2>2, RowShape DEF Line, Cells
  <2>4. lines \in Seq(Line)
    <3>1. DOMAIN o = 1..Len(o) /\ Len(o) \in Nat
      BY <2>1
    <3>. HIDE DEF line
    <3>2. lines \in [1..Len(o) -> Line]
      BY <2>3, <3>1
    <3>3. QED
      BY <3>1, <3>2, SeqFromFunction
  <2>5. ExportFile(o) = [header |-> "ok", lines |-> lines]
    BY DEF ExportFile
  <2>. HIDE DEF lines
  <2>6. QED
    BY <2>4, <2>5 DEF File, Headers
<1>2. QED
  BY <1>1, FilesAssumption

\* What the preview makes of a line, against the catalog as it is.
LEMMA ClassifyShape ==
    ASSUME CatalogShape, NEW f \in File, NEW i \in DOMAIN f.lines
    PROVE  LET r == ClassifyRow(f, i) IN
           /\ r \in PlanLines /\ Planned(r)
           /\ r.action = "create" => Existing(r.sku) = {}
           /\ r.action = "update" => \E p \in Existing(r.sku) : r.from = {product[p].price}
<1> DEFINE l == f.lines[i]
           E == Existing(l.sku)
           p == CHOOSE q \in Items : q \in E
<1>1. l \in Line /\ l.sku \in Skus \cup {Missing} /\ l.cents \in Prices
  <2>1. f.lines \in Seq(Line)
    BY DEF File
  <2>2. l \in Line
    BY <2>1
  <2>3. QED
    BY <2>2 DEF Line
<1>2. ASSUME NEW r, NEW verdict \in {"unchanged", "error"}, NEW id \in Items \cup {Missing},
             r = PlanLine(l.sku, verdict, id, {}, {})
      PROVE  r \in PlanLines /\ Planned(r) /\ r.action \notin {"create", "update"}
  BY <1>1, <1>2 DEF PlanLine, PlanLines, Verdicts, Planned
<1>3. CASE LineBad(f, i)
  BY <1>2, <1>3 DEF ClassifyRow
<1>4. CASE ~LineBad(f, i) /\ E = {}
  <2>1. l.sku \in Skus
    BY <1>1, <1>4 DEF LineBad
  <2>2. CASE l.full /\ l.cell = "price"
    <3>1. ClassifyRow(f, i) = PlanLine(l.sku, "create", Missing, {}, {l.cents})
      BY <1>4, <2>2 DEF ClassifyRow
    <3>2. QED
      BY <1>1, <1>4, <2>1, <3>1 DEF PlanLine, PlanLines, Verdicts, Planned
  <2>3. CASE ~(l.full /\ l.cell = "price")
    <3>1. ClassifyRow(f, i) = PlanLine(l.sku, "error", Missing, {}, {})
      BY <1>4, <2>3 DEF ClassifyRow
    <3>2. QED
      BY <1>2, <3>1
  <2>4. QED
    BY <2>2, <2>3
<1>5. CASE ~LineBad(f, i) /\ E # {}
  <2>1. p \in Items /\ p \in E
    BY <1>5 DEF Existing
  <2>2. product[p] \in Row /\ product[p].price \in Prices
    BY <2>1, RowShape DEF Existing, CatalogShape, TablesShape
  <2>3. ClassifyRow(f, i) =
          IF product[p].archived THEN PlanLine(l.sku, "error", p, {}, {})
          ELSE IF l.cell = "blank" \/ l.cents = product[p].price THEN PlanLine(l.sku, "unchanged", p, {}, {})
          ELSE PlanLine(l.sku, "update", p, {product[p].price}, {l.cents})
    BY <1>5 DEF ClassifyRow
  <2>. HIDE DEF p
  <2>4. CASE ClassifyRow(f, i) = PlanLine(l.sku, "update", p, {product[p].price}, {l.cents})
    BY <1>1, <2>1, <2>2, <2>4 DEF PlanLine, PlanLines, Verdicts, Planned
  <2>5. QED
    BY <1>2, <2>1, <2>3, <2>4
<1>6. QED
  BY <1>3, <1>4, <1>5

LEMMA PreviewShape ==
    ASSUME CatalogShape, NEW f \in File
    PROVE  /\ BuildPreview(f) \in Previews /\ DOMAIN BuildPreview(f) = DOMAIN f.lines
           /\ \A i \in DOMAIN f.lines : BuildPreview(f)[i] = ClassifyRow(f, i)
<1>1. f.lines \in Seq(Line)
  BY DEF File
<1>2. DOMAIN f.lines = 1..Len(f.lines) /\ Len(f.lines) \in Nat
  BY <1>1
<1>3. \A i \in DOMAIN f.lines : ClassifyRow(f, i) \in PlanLines
  BY ClassifyShape
<1>4. BuildPreview(f) \in [1..Len(f.lines) -> PlanLines]
  BY <1>2, <1>3 DEF BuildPreview
<1>5. BuildPreview(f) \in Previews
  BY <1>2, <1>4, SeqFromFunction DEF Previews
<1>6. QED
  BY <1>5 DEF BuildPreview

\* Two previews with one digest say the same of every line.
LEMMA DigestTells ==
    ASSUME NEW w, NEW v, PreviewDigest(w) = PreviewDigest(v)
    PROVE  /\ DOMAIN w = DOMAIN v
           /\ \A i \in DOMAIN w : w[i].sku = v[i].sku /\ w[i].action = v[i].action /\ w[i].from = v[i].from /\ w[i].to = v[i].to
<1>1. DOMAIN w = DOMAIN PreviewDigest(w) /\ DOMAIN v = DOMAIN PreviewDigest(v)
  BY DEF PreviewDigest
<1>2. ASSUME NEW i \in DOMAIN w
      PROVE  w[i].sku = v[i].sku /\ w[i].action = v[i].action /\ w[i].from = v[i].from /\ w[i].to = v[i].to
  <2>1. PreviewDigest(w)[i] = [sku |-> w[i].sku, action |-> w[i].action, change |-> <<w[i].from, w[i].to>>]
    BY DEF PreviewDigest
  <2>2. PreviewDigest(v)[i] = [sku |-> v[i].sku, action |-> v[i].action, change |-> <<v[i].from, v[i].to>>]
    BY <1>1 DEF PreviewDigest
  <2>3. <<w[i].from, w[i].to>> = <<v[i].from, v[i].to>> /\ w[i].sku = v[i].sku /\ w[i].action = v[i].action
    BY <2>1, <2>2
  <2>4. QED
    BY <2>3
<1>3. QED
  BY <1>1, <1>2

\* What an import may do to a product.
Imported(p) ==
    \/ product'[p] = product[p]
    \/ /\ product[p] # Missing /\ product'[p] \in Row
       /\ product'[p].sku = product[p].sku /\ product'[p].status = product[p].status
       /\ product'[p].published = product[p].published /\ product'[p].archived = product[p].archived
    \/ product[p] = Missing /\ product'[p] \in Row /\ ~product'[p].published

ImportMove ==
    /\ product' \in [Items -> Row \cup {Missing}]
    /\ \A p \in Items : Imported(p)
    /\ UNCHANGED <<orders, records, shelf, health, job, missed, spent>>

LEMMA WriteRowsEffect ==
    ASSUME CatalogShape, RunShape, run.pc = "write", NEW S \in SUBSET run.todo, WriteRows(S)
    PROVE  /\ product' \in [Items -> Row \cup {Missing}]
           /\ \A p \in Items : Imported(p)
           /\ written' = written \cup S
<1>1. PICK ids \in Assignments(S) :
        product' = [p \in Items |-> IF \E i \in S : ids[i] = p
                                    THEN WriteRow(run.rows[CHOOSE i \in S : ids[i] = p], p) ELSE product[p]]
  BY DEF WriteRows
<1>2. written' = written \cup S /\ ~\E i \in S : CannotWrite(run.rows[i])
  BY DEF WriteRows
<1>3. product \in [Items -> Row \cup {Missing}]
  BY DEF CatalogShape, TablesShape
<1>4. ASSUME NEW i \in S
      PROVE  LET r == run.rows[i]
                 p == ids[i]
             IN /\ p \in Items
                /\ WriteRow(r, p) \in Row
                /\ product[p] = Missing => ~WriteRow(r, p).published
                /\ product[p] # Missing => /\ WriteRow(r, p).sku = product[p].sku
                                           /\ WriteRow(r, p).status = product[p].status
                                           /\ WriteRow(r, p).published = product[p].published
                                           /\ WriteRow(r, p).archived = product[p].archived
  <2> DEFINE r == run.rows[i]
             p == ids[i]
             cents == CHOOSE c \in r.to : TRUE
  <2>1. /\ i \in DOMAIN run.rows /\ Planned(r) /\ r.action \in {"create", "update"}
        /\ ids \in [S -> Items] /\ p \in Items
        /\ IF r.action = "create" THEN product[p] = Missing ELSE p = r.id
    BY <1>1 DEF RunShape, Reported, Assignments
  <2>2. cents \in Prices
    BY <2>1 DEF Planned
  <2>3. CASE r.action = "create"
    <3>1. WriteRow(r, p) = Draft(r.sku, cents, "soon")
      BY <2>3 DEF WriteRow
    <3>2. r.sku \in Skus /\ product[p] = Missing
      BY <2>1, <2>3 DEF Planned
    <3>. HIDE DEF r, p, cents
    <3>3. Draft(r.sku, cents, "soon") \in Row /\ ~Draft(r.sku, cents, "soon").published
      BY <2>2, <3>2, DraftShape DEF Draft, StockStates
    <3>4. QED
      BY <2>1, <3>1, <3>2, <3>3 DEF r, p
  <2>4. CASE r.action = "update"
    <3>1. WriteRow(r, p) = [product[p] EXCEPT !.price = cents]
      BY <2>4 DEF WriteRow
    <3>2. product[p] \in Row
      <4>1. product[p] # Missing
        BY <1>2, <2>1, <2>4 DEF CannotWrite
      <4>2. QED
        BY <1>3, <2>1, <4>1
    <3>. HIDE DEF r, p, cents
    <3>3. PICK row \in Row : row = [product[p] EXCEPT !.price = cents]
      BY <2>2, <3>2 DEF Row
    <3>4. row.sku = product[p].sku /\ row.status = product[p].status /\ row.published = product[p].published
          /\ row.archived = product[p].archived
      BY <3>2, <3>3 DEF Row
    <3>5. QED
      BY <2>1, <3>1, <3>2, <3>3, <3>4, RowShape DEF r, p
  <2>5. QED
    BY <2>1, <2>3, <2>4
<1>5. ASSUME NEW p \in Items
      PROVE  product'[p] \in Row \cup {Missing} /\ Imported(p)
  <2>1. CASE \E i \in S : ids[i] = p
    <3>1. PICK i \in S : i = CHOOSE k \in S : ids[k] = p
      BY <2>1
    <3>2. ids[i] = p
      BY <2>1, <3>1
    <3>3. product'[p] = WriteRow(run.rows[i], p)
      BY <1>1, <2>1, <3>1
    <3>4. QED
      BY <1>4, <3>2, <3>3 DEF Imported
  <2>2. CASE ~\E i \in S : ids[i] = p
    BY <1>1, <1>3, <2>2 DEF Imported
  <2>3. QED
    BY <2>1, <2>2
<1>6. product' \in [Items -> Row \cup {Missing}]
  <2>1. product' = [p \in Items |-> product'[p]]
    BY <1>1
  <2>2. QED
    BY <1>5, <2>1
<1>7. QED
  BY <1>2, <1>5, <1>6

LEMMA NoRunShape ==
    /\ NoRun \in Commit /\ NoRun.rows = <<>> /\ NoRun.todo = {} /\ NoRun.retry = {} /\ NoRun.pc = "idle"
    /\ NoPage.file = Missing /\ NoPage.preview = Missing /\ NoPage.result = Missing
    /\ ~NoPage.confirming /\ ~NoPage.busy /\ ~NoPage.stale
    /\ NoPage \in [file: File \cup {Missing}, preview: Previews \cup {Missing}, result: Seq(Told) \cup {Missing},
                   confirming: BOOLEAN, busy: BOOLEAN, stale: BOOLEAN]
BY DEF NoRun, Commit, Previews, NoPage

LEMMA ImportShapeInit == ImportInit => ImportShape
BY NoRunShape DEF ImportInit, PageShape, ImportShape, RunShape

\* The page of the operator.
LEMMA PageMoves ==
    ASSUME CatalogShape, ImportShape, Page
    PROVE  ImportShape'
<1> DEFINE Pages == [file: File \cup {Missing}, preview: Previews \cup {Missing}, result: Seq(Told) \cup {Missing},
                     confirming: BOOLEAN, busy: BOOLEAN, stale: BOOLEAN]
<1>0. PageShape /\ RunShape /\ page \in Pages
  BY DEF ImportShape, PageShape
<1>1. ASSUME UNCHANGED <<run, approved, written>> PROVE RunShape'
  BY <1>0, <1>1 DEF RunShape, Reported
<1>2. CASE OnPick
  <2>1. PICK f \in Files \cup {ExportFile(o) : o \in {w \in Orderings : \A i \in DOMAIN w :
                                                  product[w[i]] # Missing /\ ~product[w[i]].archived}} :
          page' = IF FileRefused(f) THEN [page EXCEPT !.preview = Missing]
                  ELSE [page EXCEPT !.file = f, !.preview = BuildPreview(f), !.stale = FALSE]
    BY <1>2 DEF OnPick
  <2>2. f \in File /\ BuildPreview(f) \in Previews
    BY FileShape, PreviewShape
  <2>3. page.preview = Missing
    BY <1>2 DEF OnPick
  <2> DEFINE refused == [page EXCEPT !.preview = Missing]
             taken == [page EXCEPT !.file = f, !.preview = BuildPreview(f), !.stale = FALSE]
  <2>4. refused \in Pages /\ refused.confirming = page.confirming /\ refused.preview = page.preview
    BY <1>0, <2>3
  <2>5. taken \in Pages /\ taken.confirming = page.confirming /\ taken.preview \in Previews
    BY <1>0, <2>2
  <2>6. page' = refused \/ page' = taken
    BY <2>1
  <2>. HIDE DEF refused, taken
  <2>7. PageShape'
    BY <1>0, <2>4, <2>5, <2>6 DEF PageShape
  <2>8. QED
    BY <1>1, <1>2, <2>7 DEF OnPick, ImportShape
<1>3. CASE AskConfirm \/ CancelConfirm
  <2>1. PICK b \in BOOLEAN : page' = [page EXCEPT !.confirming = b] /\ (b => page.preview \in Previews)
    BY <1>0, <1>3 DEF AskConfirm, CancelConfirm
  <2>2. PageShape'
    BY <1>0, <2>1 DEF PageShape
  <2>3. QED
    BY <1>1, <1>3, <2>2 DEF AskConfirm, CancelConfirm, ImportShape
<1>4. CASE OnCommit
  <2>1. page.preview \in Previews /\ page.file \in File \cup {Missing}
    BY <1>0, <1>4 DEF OnCommit, PageShape
  <2>2. PageShape'
    BY <1>0, <1>4 DEF OnCommit, PageShape
  <2> DEFINE d == PreviewDigest(page.preview)
             q == [NoRun EXCEPT !.pc = "check", !.file = page.file, !.digest = d]
  <2>3. d \in Digests
    BY <2>1 DEF Digests
  <2>4. q \in Commit /\ q.pc = "check" /\ q.digest = d /\ q.rows = <<>> /\ q.todo = {} /\ q.retry = {}
    <3>. HIDE DEF d
    <3>1. QED
      BY <2>1, <2>3, NoRunShape DEF Commit
  <2>5. run' = q /\ approved' = page.preview /\ written' = {}
    BY <1>4 DEF OnCommit
  <2>6. RunShape'
    <3>1. d = PreviewDigest(approved')
      BY <2>5
    <3>. HIDE DEF q, d
    <3>2. QED
      BY <2>4, <2>5, <3>1 DEF RunShape
  <2>7. QED
    BY <2>2, <2>6 DEF ImportShape
<1>5. CASE Reset
  <2>1. PageShape'
    BY <1>0, <1>5, NoRunShape DEF Reset, PageShape
  <2>2. QED
    BY <1>1, <1>5, <2>1 DEF Reset, ImportShape
<1>6. QED
  BY <1>2, <1>3, <1>4, <1>5 DEF Page

\* The server's part.
LEMMA ImportMoves ==
    ASSUME CatalogShape, ImportShape, ImportNext
    PROVE  ImportShape' /\ (ImportMove \/ UNCHANGED catalogVars)
<1> DEFINE Pages == [file: File \cup {Missing}, preview: Previews \cup {Missing}, result: Seq(Told) \cup {Missing},
                     confirming: BOOLEAN, busy: BOOLEAN, stale: BOOLEAN]
<1>0. PageShape /\ RunShape /\ page \in Pages /\ run \in Commit /\ run.rows \in Previews
  BY DEF ImportShape, PageShape, RunShape, Commit
<1>1. ASSUME NEW to, Answer(to), to \in Pages, to.confirming => to.preview \in Previews
      PROVE  ImportShape'
  <2>1. page' = to /\ run' = NoRun
    BY <1>1 DEF Answer
  <2>2. PageShape'
    BY <1>1, <2>1 DEF PageShape
  <2>3. RunShape'
    BY <2>1, NoRunShape DEF RunShape
  <2>4. QED
    BY <2>2, <2>3 DEF ImportShape
<1>2. CASE Page /\ UNCHANGED catalogVars
  BY <1>2, PageMoves
<1>3. CASE CommitEmpty \/ CommitDies
  <2>1. Answer([page EXCEPT !.busy = FALSE]) /\ UNCHANGED catalogVars
    BY <1>3 DEF CommitEmpty, CommitDies
  <2>2. [page EXCEPT !.busy = FALSE] \in Pages /\ [page EXCEPT !.busy = FALSE].confirming = page.confirming
        /\ [page EXCEPT !.busy = FALSE].preview = page.preview
    BY <1>0
  <2>3. QED
    BY <1>0, <1>1, <2>1, <2>2 DEF PageShape
<1>4. CASE CommitStale
  <2> DEFINE w == BuildPreview(run.file)
             to == [page EXCEPT !.busy = FALSE, !.preview = w, !.stale = TRUE]
  <2>1. Answer(to) /\ UNCHANGED catalogVars /\ w \in Previews
    BY <1>0, <1>4, PreviewShape DEF CommitStale, Commit
  <2>. HIDE DEF w
  <2>2. to \in Pages /\ to.preview = w
    BY <1>0, <2>1
  <2>. HIDE DEF to
  <2>3. QED
    BY <1>1, <2>1, <2>2
<1>5. CASE CommitStart
  <2> DEFINE rows == BuildPreview(run.file)
             todo == Actionable(rows)
             result == [i \in DOMAIN rows |-> IF i \in todo THEN "none" ELSE rows[i].action]
             q == [run EXCEPT !.pc = "write", !.rows = rows, !.todo = todo, !.result = result]
  <2>1. /\ run' = q /\ run.pc = "check" /\ run.file \in File
        /\ UNCHANGED <<page, approved, written, catalogVars>>
    BY <1>0, <1>5 DEF CommitStart, Commit
  <2>2. /\ rows \in Previews /\ DOMAIN rows = DOMAIN run.file.lines
        /\ \A i \in DOMAIN rows : rows[i] \in PlanLines /\ Planned(rows[i])
    BY <2>1, PreviewShape, ClassifyShape
  <2>3. DOMAIN rows = 1..Len(rows) /\ Len(rows) \in Nat
    BY <2>2 DEF Previews
  <2>4. /\ todo \in SUBSET Nat /\ todo \subseteq DOMAIN rows
        /\ \A i \in DOMAIN rows : i \in todo <=> rows[i].action \in {"create", "update"}
    BY <2>3 DEF Actionable
  <2>5. DOMAIN result = DOMAIN rows /\ result \in Seq(Told)
    <3>1. \A i \in DOMAIN rows : rows[i].action \in Verdicts
      BY <2>2 DEF PlanLines
    <3>2. \A i \in DOMAIN rows : result[i] \in Told
      BY <2>4, <3>1 DEF Verdicts, Told
    <3>3. result \in [1..Len(rows) -> Told]
      BY <2>3, <3>2
    <3>4. QED
      BY <2>3, <3>3, SeqFromFunction
  <2>6. \A i \in DOMAIN rows : IF i \in todo THEN result[i] = "none" ELSE result[i] \notin {"none", "created", "updated"}
    BY <2>2, <2>4 DEF PlanLines, Verdicts
  <2>7. run.retry = {} /\ written = {}
    BY <1>0, <2>1 DEF RunShape
  <2>. HIDE DEF rows, todo, result
  <2>8. q \in Commit /\ q.rows = rows /\ q.todo = todo /\ q.result = result /\ q.retry = {} /\ q.pc = "write"
    BY <1>0, <2>2, <2>4, <2>5, <2>7 DEF Commit
  <2>. HIDE DEF q
  <2>9. RunShape'
    BY <2>1, <2>2, <2>4, <2>5, <2>6, <2>7, <2>8 DEF RunShape, Reported
  <2>10. PageShape'
    BY <1>0, <2>1 DEF PageShape
  <2>11. QED
    BY <2>1, <2>9, <2>10 DEF ImportShape
<1>6. ASSUME run.pc = "write", NEW S \in SUBSET run.todo, WriteRows(S), NEW R \in SUBSET run.retry, R \cap S = {},
             run' = [run EXCEPT !.todo = @ \ S, !.retry = R, !.result = Results(S)], UNCHANGED page,
             UNCHANGED <<orders, records, shelf, health, job, missed, spent>>
      PROVE  ImportShape' /\ ImportMove
  <2> DEFINE result == Results(S)
             todo == run.todo \ S
             q == [run EXCEPT !.todo = todo, !.retry = R, !.result = result]
  <2>1. written' = written \cup S /\ ImportMove
    BY <1>0, <1>6, WriteRowsEffect DEF ImportMove
  <2>2. run' = q
    BY <1>6
  <2>3. run.todo \in SUBSET Nat /\ run.retry \in SUBSET Nat /\ run.result \in Seq(Told)
    BY <1>0 DEF Commit
  <2>4. /\ DOMAIN result = DOMAIN run.result /\ result \in Seq(Told)
        /\ \A i \in DOMAIN run.result : IF i \in S THEN result[i] \in {"created", "updated"} ELSE result[i] = run.result[i]
    <3>1. \A i \in DOMAIN run.result : IF i \in S THEN result[i] \in {"created", "updated"} ELSE result[i] = run.result[i]
      BY DEF Results, Outcome
    <3>2. DOMAIN run.result = 1..Len(run.result) /\ Len(run.result) \in Nat /\ \A i \in DOMAIN run.result : run.result[i] \in Told
      BY <2>3
    <3>3. \A i \in DOMAIN run.result : result[i] \in Told
      BY <3>1, <3>2 DEF Told
    <3>4. result = [i \in DOMAIN run.result |-> result[i]]
      BY DEF Results
    <3>. HIDE DEF result
    <3>5. result \in [1..Len(run.result) -> Told]
      BY <3>2, <3>3, <3>4
    <3>6. QED
      BY <3>1, <3>2, <3>4, <3>5, SeqFromFunction
  <2>. HIDE DEF result
  <2>5. q \in Commit /\ q.rows = run.rows /\ q.todo = todo /\ q.result = result /\ q.retry = R /\ q.pc = "write"
    BY <1>0, <1>6, <2>3, <2>4 DEF Commit
  <2>. HIDE DEF q
  <2>6. RunShape'
    <3>1. run'.retry \subseteq run'.todo /\ run'.todo \subseteq DOMAIN run'.rows
      BY <1>0, <1>6, <2>2, <2>5 DEF RunShape
    <3>2. DOMAIN run'.result = DOMAIN run'.rows /\ \A i \in DOMAIN run'.rows : Planned(run'.rows[i])
      BY <1>0, <1>6, <2>2, <2>4, <2>5 DEF RunShape
    <3>3. \A i \in DOMAIN run'.rows : Reported(i)'
      <4>1. ASSUME NEW i \in DOMAIN run.rows PROVE Reported(i)'
        <5>1. Reported(i) /\ i \in DOMAIN run.result
          BY <1>0, <1>6, <4>1 DEF RunShape
        <5>2. run'.todo = todo /\ run'.rows = run.rows /\ run'.result = result
          BY <2>2, <2>5
        <5>3. i \in written' <=> i \in written \/ i \in S
          BY <2>1
        <5>4. CASE i \in S
          BY <2>4, <5>1, <5>2, <5>3, <5>4 DEF Reported
        <5>5. CASE i \notin S
          BY <2>4, <5>1, <5>2, <5>3, <5>5 DEF Reported
        <5>6. QED
          BY <5>4, <5>5
      <4>2. QED
        BY <2>2, <2>5, <4>1
    <3>4. QED
      BY <2>2, <2>5, <3>1, <3>2, <3>3 DEF RunShape
  <2>7. PageShape'
    BY <1>0, <1>6 DEF PageShape
  <2>8. QED
    BY <2>1, <2>6, <2>7 DEF ImportShape
<1>7. CASE WriteChunk
  <2>1. Chunk \in SUBSET run.todo
    BY DEF Chunk
  <2>2. run' = [run EXCEPT !.todo = @ \ Chunk, !.retry = {}, !.result = Results(Chunk)]
    <3>1. run' = [run EXCEPT !.todo = @ \ Chunk, !.result = Results(Chunk)] /\ run.retry = {}
      BY <1>7 DEF WriteChunk
    <3>2. QED
      BY <1>0, <3>1 DEF Commit
  <2>3. /\ run.pc = "write" /\ WriteRows(Chunk) /\ {} \in SUBSET run.retry /\ {} \cap Chunk = {}
        /\ UNCHANGED page /\ UNCHANGED <<orders, records, shelf, health, job, missed, spent>>
    BY <1>7 DEF WriteChunk
  <2>4. QED
    BY <1>6, <2>1, <2>2, <2>3
<1>8. CASE ChunkFails
  <2>1. Chunk \in SUBSET run.todo
    BY DEF Chunk
  <2>2. run' = [run EXCEPT !.retry = Chunk] /\ UNCHANGED <<page, approved, written, catalogVars>> /\ run.pc = "write"
    BY <1>8 DEF ChunkFails
  <2>3. RunShape'
    BY <1>0, <2>1, <2>2 DEF RunShape, Reported, Commit
  <2>4. QED
    BY <1>0, <2>2, <2>3 DEF ImportShape, PageShape
<1>9. CASE RetryRow
  <2> DEFINE i == First(run.retry)
  <2>1. run.pc = "write" /\ i \in run.retry /\ i \in run.todo /\ i \in DOMAIN run.rows
    BY <1>0, <1>9, FirstOf DEF RetryRow, RunShape, Commit
  <2>2. UNCHANGED page /\ UNCHANGED <<orders, records, shelf, health, job, missed, spent>>
    BY <1>9 DEF RetryRow
  <2>3. CASE WriteRows({i}) /\ run' = [run EXCEPT !.todo = @ \ {i}, !.retry = @ \ {i}, !.result = Results({i})]
    <3>1. run' = [run EXCEPT !.todo = @ \ {i}, !.retry = run.retry \ {i}, !.result = Results({i})]
      BY <2>3
    <3>2. {i} \in SUBSET run.todo /\ run.retry \ {i} \in SUBSET run.retry /\ (run.retry \ {i}) \cap {i} = {}
      BY <2>1
    <3>. HIDE DEF i
    <3>3. QED
      BY <1>6, <2>1, <2>2, <2>3, <3>1, <3>2
  <2>4. CASE run' = [run EXCEPT !.todo = @ \ {i}, !.retry = @ \ {i}, !.result[i] = "error"] /\ UNCHANGED <<product, written>>
    <3> DEFINE result == [run.result EXCEPT ![i] = "error"]
               todo == run.todo \ {i}
               retry == run.retry \ {i}
               q == [run EXCEPT !.todo = todo, !.retry = retry, !.result = result]
    <3>1. run.todo \in SUBSET Nat /\ run.retry \in SUBSET Nat /\ run.result \in Seq(Told) /\ DOMAIN run.result = DOMAIN run.rows
      BY <1>0, <2>1 DEF Commit, RunShape
    <3>. HIDE DEF i
    <3>2. /\ result \in Seq(Told) /\ DOMAIN result = DOMAIN run.result
          /\ result[i] = "error" /\ \A k \in DOMAIN run.result \ {i} : result[k] = run.result[k]
      BY <2>1, <3>1 DEF Told
    <3>3. run' = q
      BY <2>4
    <3>. HIDE DEF result
    <3>4. q \in Commit /\ q.rows = run.rows /\ q.todo = todo /\ q.result = result /\ q.retry = retry /\ q.pc = "write"
      BY <1>0, <2>1, <3>1, <3>2 DEF Commit
    <3>. HIDE DEF q
    <3>5. RunShape'
      BY <1>0, <2>1, <2>4, <3>2, <3>3, <3>4 DEF RunShape, Reported
    <3>6. QED
      BY <1>0, <2>2, <2>4, <3>5 DEF ImportShape, PageShape, catalogVars
  <2>5. QED
    BY <1>9, <2>3, <2>4 DEF RetryRow
<1>10. CASE CommitEnds
  <2> DEFINE to == [page EXCEPT !.busy = FALSE, !.result = run.result]
  <2>1. Answer(to) /\ UNCHANGED catalogVars
    BY <1>10 DEF CommitEnds
  <2>2. to \in Pages /\ to.confirming = page.confirming /\ to.preview = page.preview
    BY <1>0 DEF Commit
  <2>. HIDE DEF to
  <2>3. QED
    BY <1>0, <1>1, <2>1, <2>2 DEF PageShape
<1>11. QED
  BY <1>2, <1>3, <1>4, <1>5, <1>7, <1>8, <1>9, <1>10 DEF ImportNext

\* What a commit starts to write is what its preview showed.
LEMMA ApprovedStep ==
    ASSUME CatalogShape, ImportShape, ImportNext, run.pc = "check", run'.pc = "write", NEW i \in run'.todo
    PROVE  LET r == approved[i] IN
           /\ r.action \in {"create", "update"} /\ r.to = run'.rows[i].to
           /\ r.action = "create" => Existing(r.sku) = {}
           /\ r.action = "update" => \E p \in Existing(r.sku) : r.from = {product[p].price}
<1>1. CommitStart
  <2>1. ~Page
    BY NoRunShape DEF Page, OnPick, AskConfirm, CancelConfirm, OnCommit, Reset, NoRun
  <2>2. ~(CommitEmpty \/ CommitStale \/ CommitEnds \/ CommitDies)
    BY NoRunShape DEF CommitEmpty, CommitStale, CommitEnds, CommitDies, Answer
  <2>3. ~(WriteChunk \/ ChunkFails \/ RetryRow)
    BY DEF WriteChunk, ChunkFails, RetryRow
  <2>4. QED
    BY <2>1, <2>2, <2>3 DEF ImportNext
<1> DEFINE rows == BuildPreview(run.file)
<1>2. RunShape /\ run \in Commit
  BY DEF ImportShape, RunShape
<1>3. run.file \in File /\ run'.rows = rows /\ run'.todo = Actionable(rows) /\ PreviewDigest(rows) = PreviewDigest(approved)
  BY <1>1, <1>2 DEF CommitStart, RunShape, Commit
<1>4. /\ i \in DOMAIN rows /\ rows[i].action \in {"create", "update"}
      /\ rows[i] = ClassifyRow(run.file, i) /\ i \in DOMAIN run.file.lines
  BY <1>3, PreviewShape DEF Actionable
<1>5. /\ rows[i].action = "create" => Existing(rows[i].sku) = {}
      /\ rows[i].action = "update" => \E p \in Existing(rows[i].sku) : rows[i].from = {product[p].price}
  BY <1>3, <1>4, ClassifyShape
<1>6. rows[i].sku = approved[i].sku /\ rows[i].action = approved[i].action /\ rows[i].from = approved[i].from
      /\ rows[i].to = approved[i].to
  BY <1>3, <1>4, DigestTells
<1>. HIDE DEF rows
<1>7. QED
  BY <1>3, <1>4, <1>5, <1>6

-----------------------------------------------------------------------------

(* What is on sale, for administrators that do not overlap: there is one of them. *)

Held(p) == Recorded(p) \/ p \in orders \/ (product[p] # Missing /\ product[p].published)

\* What a request has read still holds: only requests write products.
Known(j) ==
    /\ j.pc \in {"write", "stores", "push", "count"} => product[Head(j.todo)] = j.seen
    /\ j.op = "create" => j.todo = <<>> \/ \E p \in Items : j.todo = <<p>> /\ product[p] = Missing
    /\ j.pc = "delete" => ~Held(Head(j.todo))
    /\ j.pc = "update" => /\ product[Head(j.todo)] # Missing
                          /\ j.form.sku # product[Head(j.todo)].sku => ~Held(Head(j.todo))

\* The request is about to push a product to a store.
Pending(j, s, p) == j.todo # <<>> /\ p = Head(j.todo) /\ (j.pc = "stores" \/ (j.pc = "push" /\ s \in j.left))

\* A store carries what it has a record of, and sells what may be sold, or is about to hear of it.
Carried(j, s, p) ==
    shelf[s][p] # Missing =>
        /\ p \in records[s] /\ product[p] # Missing /\ shelf[s][p].sku \in {product[p].sku, Missing}
        /\ shelf[s][p].selling /\ p \notin missed[s] => IsStoreSellable(product[p]) \/ Pending(j, s, p)

Sale == Known(job[Operator]) /\ \A s \in Stores, p \in Items : Carried(job[Operator], s, p)

HistoryStep ==
    \A p \in Items : product[p] # Missing /\ (product'[p] = Missing \/ product'[p].sku # product[p].sku) => ~Held(p)

\* A step of a request that leaves the goods alone, and no push behind.
LEMMA StillCarried ==
    ASSUME UNCHANGED <<product, records, shelf>>, NEW j, NEW k,
           \A s \in Stores, p \in Items : Carried(j, s, p),
           \A s \in Stores, p \in Items : p \notin missed'[s] => p \notin missed[s] /\ (Pending(j, s, p) => Pending(k, s, p))
    PROVE  \A s \in Stores, p \in Items : Carried(k, s, p)'
BY DEF Carried, Pending

LEMMA SaleInit == CatalogInit => Sale
BY OperatorAssumption, IdleShape DEF CatalogInit, Sale, Known, Carried

LEMMA SubmitSale ==
    ASSUME CatalogShape, Sale, Submits(Operator)
    PROVE  Sale' /\ HistoryStep
<1>1. PICK op, todo, to, form : Sendable(op, todo, to, form) /\ Submit(Operator, op, todo, to, form)
  BY DEF Submits
<1> DEFINE q == NewJob(op, todo, to, form)
<1>2. job[Operator].pc = "idle" /\ job'[Operator] = q /\ UNCHANGED <<product, orders, records, shelf, health, missed>>
  BY <1>1, SubmitIsNew, OperatorAssumption DEF CatalogShape, JobsShape, Submits
<1>3. q.pc = "read" /\ q.op = op /\ q.todo = todo
  BY <1>1, NewJobShape
<1>. HIDE DEF q
<1>4. Known(q)'
  BY <1>1, <1>2, <1>3 DEF Known, Sendable
<1>5. \A s \in Stores, p \in Items : Carried(q, s, p)'
  <2>1. \A s \in Stores, p \in Items : ~Pending(job[Operator], s, p)
    BY <1>2 DEF Pending
  <2>2. QED
    BY <1>2, <2>1, StillCarried DEF Sale
<1>6. QED
  BY <1>2, <1>4, <1>5 DEF Sale, HistoryStep

\* An item is finished that has no push left: the rest of the request knows nothing yet.
LEMMA FinishKnown ==
    ASSUME CatalogShape, NEW j \in Job, Fits(j), j.todo # <<>>, j.op # "create", NEW outcome \in Outcomes
    PROVE  /\ Known(Finish(j, outcome)) /\ Known(Finish(j, outcome))'
           /\ \A s \in Stores, p \in Items : ~Pending(Finish(j, outcome), s, p)
<1>1. Finish(j, outcome).pc = "read" /\ Finish(j, outcome).op = j.op
  BY FinishShape
<1>2. PICK q : q = Finish(j, outcome)
  OBVIOUS
<1>3. Known(q) /\ Known(q)' /\ \A s \in Stores, p \in Items : ~Pending(q, s, p)
  BY <1>1, <1>2 DEF Known, Pending
<1>4. QED
  BY <1>2, <1>3

LEMMA ReadItemSale ==
    ASSUME CatalogShape, Sale, ReadItem(Operator)
    PROVE  Sale' /\ HistoryStep
<1> DEFINE j == job[Operator]
           r == product[Target(Operator)]
           q == [j EXCEPT !.pc = "write", !.seen = r]
<1>0. /\ Operator \in Admins /\ j \in Job /\ Fits(j) /\ j.todo # <<>> /\ j.pc = "read" /\ j.op \in Lifecycle
      /\ UNCHANGED <<product, orders, records, shelf, health, missed, spent>>
  BY OperatorAssumption, JobShape DEF ReadItem
<1>1. q.pc = "write" /\ q.op = j.op /\ q.todo = j.todo /\ q.seen = r
  <2>. HIDE DEF r
  <2>1. QED
    BY <1>0 DEF Job
<1>2. j.op # "create"
  BY <1>0 DEF Lifecycle
<1>3. Known(q) /\ \A s \in Stores, p \in Items : ~Pending(q, s, p)
  <2>. HIDE DEF q
  <2>1. QED
    BY <1>1, <1>2 DEF Known, Pending, Target
<1>4. PICK k : k = job'[Operator]
  OBVIOUS
<1>5. k = q \/ \E o \in Outcomes : k = Finish(j, o)
  <2>. HIDE DEF q
  <2>1. job'[Operator] = IF r = Missing THEN Finish(j, "refused")
                         ELSE IF Already(j.op, r) THEN Finish(j, "same")
                         ELSE IF Refuses(j.op, r) THEN Finish(j, "refused") ELSE q
    BY <1>0 DEF ReadItem, q, CatalogShape, JobsShape
  <2>2. QED
    BY <1>4, <2>1 DEF Outcomes
<1>6. Known(k) /\ \A s \in Stores, p \in Items : ~Pending(k, s, p)
  BY <1>0, <1>2, <1>3, <1>5, FinishKnown
<1>7. \A s \in Stores, p \in Items : ~Pending(j, s, p)
  BY <1>0 DEF Pending
<1>8. \A s \in Stores, p \in Items : Carried(k, s, p)'
  BY <1>0, <1>7, StillCarried DEF Sale
<1>9. Known(k)'
  BY <1>0, <1>6 DEF Known, Held, Recorded
<1>10. QED
  BY <1>0, <1>4, <1>8, <1>9 DEF Sale, HistoryStep

LEMMA WriteItemSale ==
    ASSUME CatalogShape, Sale, WriteItem(Operator)
    PROVE  Sale' /\ HistoryStep
<1> DEFINE j == job[Operator]
           p0 == Target(Operator)
           r == Transition(j.op, j.to, product[p0])
           q == [j EXCEPT !.pc = "stores", !.seen = r]
<1>0. /\ Operator \in Admins /\ j \in Job /\ Fits(j) /\ j.todo # <<>> /\ j.pc = "write" /\ j.op \in Lifecycle
      /\ p0 \in Items /\ p0 = Head(j.todo) /\ j.op # "create" /\ (j.op = "set_stock" => j.to \in StockStates)
      /\ UNCHANGED <<orders, records, shelf, health, missed, spent>>
  BY OperatorAssumption, JobShape DEF WriteItem, Fits, Target, Lifecycle
<1>1. product[p0] \in Row
  BY <1>0 DEF Sale, Known, Fits
<1>2. product[p0] # Missing /\ r \in Row /\ r.sku = product[p0].sku /\ r # Missing
      /\ (~Pushes(j.op) /\ IsStoreSellable(product[p0]) => IsStoreSellable(r))
  BY <1>0, <1>1, RowShape, TransitionShape
<1>3. product' = [product EXCEPT ![p0] = r]
  BY <1>2 DEF WriteItem
<1>4. q.pc = "stores" /\ q.op = j.op /\ q.todo = j.todo /\ q.seen = r
  <2>. HIDE DEF r
  <2>1. QED
    BY <1>0 DEF Job
<1>5. job'[Operator] = IF Pushes(j.op) THEN q ELSE Finish(j, "changed")
  BY <1>0, <1>2 DEF WriteItem, CatalogShape, JobsShape
<1>. HIDE DEF q, r
<1>6. product'[p0] = r /\ \A p \in Items \ {p0} : product'[p] = product[p]
  BY <1>0, <1>3 DEF CatalogShape, TablesShape
<1>7. PICK k : k = job'[Operator]
  OBVIOUS
<1>8. Known(k)'
  <2>1. CASE k = q
    BY <1>0, <1>4, <1>6, <2>1 DEF Known
  <2>2. CASE k = Finish(j, "changed")
    BY <1>0, <2>2, FinishKnown DEF Outcomes
  <2>3. QED
    BY <1>5, <1>7, <2>1, <2>2
<1>9. ASSUME NEW s \in Stores, NEW p \in Items PROVE Carried(k, s, p)'
  <2>1. Carried(j, s, p) /\ ~Pending(j, s, p)
    BY <1>0 DEF Sale, Pending
  <2>2. CASE p # p0
    BY <1>0, <1>6, <2>1, <2>2 DEF Carried
  <2>3. CASE p = p0 /\ Pushes(j.op)
    <3>1. Pending(k, s, p)
      BY <1>0, <1>4, <1>5, <1>7, <2>3 DEF Pending
    <3>2. QED
      BY <1>0, <1>2, <1>6, <2>1, <2>3, <3>1 DEF Carried, Pending
  <2>4. CASE p = p0 /\ ~Pushes(j.op)
    BY <1>0, <1>2, <1>6, <2>1, <2>4 DEF Carried
  <2>5. QED
    BY <2>2, <2>3, <2>4
<1>10. HistoryStep
  BY <1>2, <1>6 DEF HistoryStep
<1>11. QED
  BY <1>7, <1>8, <1>9, <1>10 DEF Sale

LEMMA FindStoresSale ==
    ASSUME CatalogShape, Sale, FindStores(Operator)
    PROVE  Sale' /\ HistoryStep
<1> DEFINE j == job[Operator]
           p0 == Target(Operator)
           active == {s \in Stores : health[s] = "active"}
           q == [j EXCEPT !.pc = "push", !.left = active]
<1>0. /\ Operator \in Admins /\ j \in Job /\ Fits(j) /\ j.todo # <<>> /\ j.pc = "stores" /\ j.op \in Lifecycle
      /\ p0 \in Items /\ p0 = Head(j.todo) /\ j.op # "create"
      /\ UNCHANGED <<product, orders, records, shelf, health, spent>>
      /\ missed' = [s \in Stores |-> IF s \in active THEN missed[s] ELSE missed[s] \cup {p0}]
  BY OperatorAssumption, JobShape DEF FindStores, Fits, Target, Lifecycle
<1>1. q.pc = "push" /\ q.op = j.op /\ q.todo = j.todo /\ q.seen = j.seen /\ q.left = active
  <2>. HIDE DEF active
  <2>1. QED
    BY <1>0 DEF Job
<1>2. job'[Operator] = IF active = {} THEN Finish(j, "changed") ELSE q
  BY <1>0 DEF FindStores, CatalogShape, JobsShape
<1>3. PICK k : k = job'[Operator]
  OBVIOUS
<1>. HIDE DEF q
<1>4. Known(k)'
  <2>1. CASE k = q
    BY <1>0, <1>1, <2>1 DEF Known, Sale
  <2>2. CASE k = Finish(j, "changed")
    BY <1>0, <2>2, FinishKnown DEF Outcomes
  <2>3. QED
    BY <1>2, <1>3, <2>1, <2>2
<1>5. ASSUME NEW s \in Stores, NEW p \in Items, p \notin missed'[s]
      PROVE  p \notin missed[s] /\ (Pending(j, s, p) => Pending(k, s, p))
  <2>1. p \notin missed[s] /\ (p = p0 => s \in active)
    BY <1>0, <1>5
  <2>2. QED
    BY <1>0, <1>1, <1>2, <1>3, <2>1 DEF Pending
<1>6. \A s \in Stores, p \in Items : Carried(k, s, p)'
  BY <1>0, <1>5, StillCarried DEF Sale
<1>7. QED
  BY <1>0, <1>3, <1>4, <1>6 DEF Sale, HistoryStep

LEMMA PushStoreSale ==
    ASSUME CatalogShape, Sale, PushStore(Operator)
    PROVE  Sale' /\ HistoryStep
<1> DEFINE j == job[Operator]
           p0 == Target(Operator)
<1>0. /\ Operator \in Admins /\ j \in Job /\ Fits(j) /\ j.todo # <<>> /\ j.pc = "push" /\ j.op \in Lifecycle
      /\ p0 \in Items /\ p0 = Head(j.todo) /\ j.op # "create" /\ product[p0] = j.seen /\ j.seen \in Row
      /\ UNCHANGED <<product, orders, records, spent>>
  BY OperatorAssumption, JobShape DEF PushStore, Fits, Target, Lifecycle, Sale, Known
<1>1. PICK s0 \in j.left :
        /\ \/ /\ shelf' = IF Carries(s0, p0, j.seen.sku)
                          THEN [shelf EXCEPT ![s0][p0].selling = IsStoreSellable(j.seen)] ELSE shelf
              /\ missed' = [missed EXCEPT ![s0] = @ \ {p0}]
              /\ UNCHANGED health
           \/ /\ health' = [health EXCEPT ![s0] = "error"]
              /\ missed' = [missed EXCEPT ![s0] = @ \cup {p0}]
              /\ UNCHANGED shelf
        /\ job' = [job EXCEPT ![Operator] = IF @.left = {s0} THEN Finish(@, "changed") ELSE [j EXCEPT !.left = @ \ {s0}]]
  BY DEF PushStore
<1>2. s0 \in Stores
  BY <1>0, <1>1 DEF Job
<1> DEFINE q == [j EXCEPT !.left = @ \ {s0}]
<1>3. q.pc = "push" /\ q.op = j.op /\ q.todo = j.todo /\ q.seen = j.seen /\ q.left = j.left \ {s0}
  BY <1>0 DEF Job
<1>4. job'[Operator] = IF j.left = {s0} THEN Finish(j, "changed") ELSE q
  BY <1>0, <1>1 DEF CatalogShape, JobsShape
<1>5. PICK k : k = job'[Operator]
  OBVIOUS
<1>. HIDE DEF q
<1>6. Known(k)'
  <2>1. CASE k = q
    BY <1>0, <1>3, <2>1 DEF Known, Sale
  <2>2. CASE k = Finish(j, "changed")
    BY <1>0, <2>2, FinishKnown DEF Outcomes
  <2>3. QED
    BY <1>4, <1>5, <2>1, <2>2
<1>7. ASSUME NEW s \in Stores, NEW p \in Items, <<s, p>> # <<s0, p0>>, Pending(j, s, p) PROVE Pending(k, s, p)
  BY <1>0, <1>3, <1>4, <1>5, <1>7 DEF Pending
<1>8. missed \in [Stores -> SUBSET Items] /\ shelf \in [Stores -> [Items -> Shelved \cup {Missing}]]
  BY DEF CatalogShape, TablesShape
<1>9. ASSUME NEW s \in Stores, NEW p \in Items PROVE Carried(k, s, p)'
  <2>1. Carried(j, s, p)
    BY DEF Sale
  <2>2. CASE <<s, p>> # <<s0, p0>>
    <3>1. p \in missed'[s] <=> p \in missed[s]
      BY <1>1, <1>2, <1>8, <2>2
    <3>2. shelf'[s][p] = shelf[s][p]
      BY <1>0, <1>1, <1>2, <1>8, <2>2
    <3>3. QED
      BY <1>0, <1>7, <2>1, <2>2, <3>1, <3>2 DEF Carried, Pending
  <2>3. CASE s = s0 /\ p = p0 /\ missed' = [missed EXCEPT ![s0] = @ \cup {p0}] /\ UNCHANGED shelf
    <3>1. p \in missed'[s]
      BY <1>2, <1>8, <2>3
    <3>2. QED
      BY <1>0, <2>1, <2>3, <3>1 DEF Carried
  <2>4. CASE /\ s = s0 /\ p = p0
             /\ shelf' = IF Carries(s0, p0, j.seen.sku)
                         THEN [shelf EXCEPT ![s0][p0].selling = IsStoreSellable(j.seen)] ELSE shelf
    <3>1. CASE shelf[s][p] = Missing
      BY <1>0, <2>4, <3>1 DEF Carries, Carried
    <3>2. CASE shelf[s][p] # Missing
      <4>1. shelf[s][p] \in Shelved /\ Carries(s0, p0, j.seen.sku)
        BY <1>0, <1>8, <2>1, <2>4, <3>2 DEF Carries, Carried
      <4>2. PICK x : x = [shelf[s][p] EXCEPT !.selling = IsStoreSellable(j.seen)]
        OBVIOUS
      <4>3. x.sku = shelf[s][p].sku /\ x.selling = IsStoreSellable(j.seen)
        BY <4>1, <4>2 DEF Shelved
      <4>4. shelf'[s][p] = x
        <5>1. shelf' = [shelf EXCEPT ![s] = [@ EXCEPT ![p] = x]]
          BY <2>4, <4>1, <4>2
        <5>2. QED
          BY <1>8, <5>1
      <4>5. QED
        BY <1>0, <2>1, <2>4, <3>2, <4>3, <4>4 DEF Carried
    <3>3. QED
      BY <3>1, <3>2
  <2>5. QED
    BY <1>1, <2>2, <2>3, <2>4
<1>10. QED
  BY <1>0, <1>5, <1>6, <1>9 DEF Sale, HistoryStep

\* A request that goes on, or ends, without having written.
LEMMA GotoSale ==
    ASSUME CatalogShape, Sale, NEW pc \in Steps, Goto(Operator, pc), job[Operator].pc \notin {"stores", "push"},
           UNCHANGED <<product, orders, records, shelf, health, missed, spent>>,
           Known([job[Operator] EXCEPT !.pc = pc]), pc \notin {"stores", "push"}
    PROVE  Sale' /\ HistoryStep
<1>1. job[Operator] \in Job /\ job'[Operator] = [job[Operator] EXCEPT !.pc = pc]
  BY OperatorAssumption, JobShape DEF Goto, CatalogShape, JobsShape
<1>2. PICK k : k = [job[Operator] EXCEPT !.pc = pc]
  OBVIOUS
<1>3. \A s \in Stores, p \in Items : ~Pending(job[Operator], s, p)
  BY DEF Pending
<1>4. Known(k)'
  BY <1>2 DEF Known, Held, Recorded
<1>5. \A s \in Stores, p \in Items : Carried(k, s, p)'
  BY <1>3, StillCarried DEF Sale
<1>6. QED
  BY <1>1, <1>2, <1>4, <1>5 DEF Sale, HistoryStep

LEMMA FormReadSale ==
    ASSUME CatalogShape, Sale, EditRead(Operator) \/ DeleteRead(Operator)
    PROVE  Sale' /\ HistoryStep
<1> DEFINE j == job[Operator]
           r == product[Target(Operator)]
           q == [j EXCEPT !.pc = "count", !.seen = r]
           e == [j EXCEPT !.pc = "error"]
<1>0. /\ Operator \in Admins /\ j \in Job /\ Fits(j) /\ j.todo # <<>> /\ j.pc = "read" /\ j.op \in {"edit", "delete"}
      /\ UNCHANGED <<product, orders, records, shelf, health, missed, spent>>
      /\ job' = [job EXCEPT ![Operator] = IF r = Missing THEN e ELSE q]
  BY OperatorAssumption, JobShape DEF EditRead, DeleteRead
<1>1. q.pc = "count" /\ q.op = j.op /\ q.todo = j.todo /\ q.seen = r /\ e.pc = "error" /\ e.op = j.op
  <2>. HIDE DEF r
  <2>1. QED
    BY <1>0 DEF Job
<1>2. PICK k : k = job'[Operator]
  OBVIOUS
<1>. HIDE DEF q, e
<1>3. k = q \/ k = e
  BY <1>0, <1>2 DEF CatalogShape, JobsShape
<1>4. Known(k)'
  BY <1>0, <1>1, <1>3 DEF Known, Target
<1>5. \A s \in Stores, p \in Items : ~Pending(j, s, p)
  BY <1>0 DEF Pending
<1>6. \A s \in Stores, p \in Items : Carried(k, s, p)'
  BY <1>0, <1>5, StillCarried DEF Sale
<1>7. QED
  BY <1>0, <1>2, <1>4, <1>6 DEF Sale, HistoryStep

LEMMA FormCountSale ==
    ASSUME CatalogShape, Sale, CreateCheck(Operator) \/ EditCount(Operator) \/ DeleteCount(Operator)
    PROVE  Sale' /\ HistoryStep
<1> DEFINE j == job[Operator]
<1>0. /\ Operator \in Admins /\ j \in Job /\ Fits(j) /\ j.todo # <<>> /\ j.pc \in {"read", "count"}
      /\ UNCHANGED <<product, orders, records, shelf, health, missed, spent>>
  BY OperatorAssumption, JobShape DEF CreateCheck, EditCount, DeleteCount, Fits
<1>1. ASSUME NEW pc \in Steps PROVE LET q == [j EXCEPT !.pc = pc] IN
        q.pc = pc /\ q.op = j.op /\ q.todo = j.todo /\ q.seen = j.seen /\ q.form = j.form
  BY <1>0 DEF Job
<1>2. CASE CreateCheck(Operator)
  <2>1. ASSUME NEW pc \in {"error", "insert"} PROVE Known([j EXCEPT !.pc = pc])
    <3>1. PICK q : q = [j EXCEPT !.pc = pc]
      OBVIOUS
    <3>2. q.pc = pc /\ q.op = j.op /\ q.todo = j.todo
      BY <1>1, <3>1 DEF Steps
    <3>3. Known(q)
      BY <2>1, <3>2 DEF Known, Sale
    <3>4. QED
      BY <3>1, <3>3
  <2>2. QED
    BY <1>0, <1>2, <2>1, GotoSale DEF CreateCheck, Steps
<1>3. CASE EditCount(Operator)
  <2> DEFINE p == Target(Operator)
  <2>1. p = Head(j.todo) /\ product[p] = j.seen /\ j.seen # Missing /\ j.op = "edit"
    BY <1>0, <1>3, RowShape DEF EditCount, Known, Sale, Fits, Target
  <2>2. PICK pc \in {"error", "update"} :
          /\ Goto(Operator, pc)
          /\ pc = "update" => ~(j.form.sku # j.seen.sku /\ (j.seen.published \/ Recorded(p) \/ p \in orders))
    BY <1>3 DEF EditCount
  <2>3. Known([j EXCEPT !.pc = pc])
    <3>1. PICK q : q = [j EXCEPT !.pc = pc]
      OBVIOUS
    <3>2. q.pc = pc /\ q.op = j.op /\ q.todo = j.todo /\ q.form = j.form
      BY <1>1, <3>1 DEF Steps
    <3>3. Known(q)
      BY <2>1, <2>2, <3>2 DEF Known, Held
    <3>4. QED
      BY <3>1, <3>3
  <2>4. QED
    BY <1>0, <2>2, <2>3, GotoSale DEF Steps
<1>4. CASE DeleteCount(Operator)
  <2> DEFINE p == Target(Operator)
  <2>1. p = Head(j.todo) /\ product[p] = j.seen /\ j.op = "delete"
    BY <1>0, <1>4 DEF DeleteCount, Known, Sale, Target
  <2>2. PICK pc \in {"error", "delete"} :
          /\ Goto(Operator, pc)
          /\ pc = "delete" => ~CatalogDeleteBlocker(p, j.seen)
    BY <1>4 DEF DeleteCount
  <2>3. Known([j EXCEPT !.pc = pc])
    <3>1. PICK q : q = [j EXCEPT !.pc = pc]
      OBVIOUS
    <3>2. q.pc = pc /\ q.op = j.op /\ q.todo = j.todo /\ q.form = j.form
      BY <1>1, <3>1 DEF Steps
    <3>3. Known(q)
      BY <2>1, <2>2, <3>2 DEF Known, Held, CatalogDeleteBlocker
    <3>4. QED
      BY <3>1, <3>3
  <2>4. QED
    BY <1>0, <2>2, <2>3, GotoSale DEF Steps
<1>5. QED
  BY <1>2, <1>3, <1>4

\* A write of a form ends the request, or fails and leaves everything as it was.
LEMMA FormFails ==
    ASSUME CatalogShape, Sale, Goto(Operator, "error"), job[Operator].pc \notin {"stores", "push"},
           UNCHANGED <<product, orders, records, shelf, health, missed, spent>>
    PROVE  Sale' /\ HistoryStep
<1>1. PICK q : q = [job[Operator] EXCEPT !.pc = "error"]
  OBVIOUS
<1>2. q.pc = "error" /\ q.op = job[Operator].op /\ q.todo = job[Operator].todo
  BY <1>1, OperatorAssumption, JobShape DEF Job
<1>3. Known(q)
  BY <1>2 DEF Known, Sale
<1>4. QED
  BY <1>1, <1>3, GotoSale DEF Steps

LEMMA CreateRowSale ==
    ASSUME CatalogShape, Sale, CreateRow(Operator)
    PROVE  Sale' /\ HistoryStep
<1> DEFINE j == job[Operator]
           p0 == Target(Operator)
<1>0. /\ Operator \in Admins /\ j \in Job /\ Fits(j) /\ j.todo # <<>> /\ j.pc = "insert" /\ j.op = "create"
      /\ p0 \in Items /\ p0 = Head(j.todo)
      /\ UNCHANGED <<orders, records, shelf, health, missed, spent>>
  BY OperatorAssumption, JobShape DEF CreateRow, Fits, Target
<1>1. j.todo = <<p0>> /\ product[p0] = Missing /\ Tail(j.todo) = <<>>
  <2>1. PICK p \in Items : j.todo = <<p>> /\ product[p] = Missing
    BY <1>0 DEF Sale, Known
  <2>2. Head(<<p>>) = p /\ Tail(<<p>>) = <<>>
    OBVIOUS
  <2>3. QED
    BY <1>0, <2>1, <2>2
<1>2. CASE Goto(Operator, "error") /\ UNCHANGED product
  BY <1>0, <1>2, FormFails
<1>3. CASE /\ product' = [product EXCEPT ![p0] = Draft(j.form.sku, j.form.price, "soon")]
           /\ job' = [job EXCEPT ![Operator] = Finish(j, "changed")]
  <2>1. PICK k : k = Finish(j, "changed")
    OBVIOUS
  <2>2. k.pc = "read" /\ k.todo = <<>>
    BY <1>0, <1>1, <2>1, FinishShape DEF Outcomes
  <2>3. job'[Operator] = k
    BY <1>0, <1>3, <2>1 DEF CatalogShape, JobsShape
  <2>4. Known(k)'
    BY <2>2 DEF Known
  <2>5. \A p \in Items : product[p] # Missing => product'[p] = product[p]
    BY <1>0, <1>1, <1>3 DEF CatalogShape, TablesShape
  <2>6. ASSUME NEW s \in Stores, NEW p \in Items PROVE Carried(k, s, p)'
    <3>1. Carried(j, s, p) /\ ~Pending(j, s, p)
      BY <1>0 DEF Sale, Pending
    <3>2. QED
      BY <1>0, <2>5, <3>1 DEF Carried
  <2>7. HistoryStep
    BY <1>0, <1>1, <2>5 DEF HistoryStep
  <2>8. QED
    BY <2>3, <2>4, <2>6, <2>7 DEF Sale
<1>4. QED
  BY <1>2, <1>3 DEF CreateRow

LEMMA EditWriteSale ==
    ASSUME CatalogShape, Sale, EditWrite(Operator)
    PROVE  Sale' /\ HistoryStep
<1> DEFINE j == job[Operator]
           p0 == Target(Operator)
           f == j.form
<1>0. /\ Operator \in Admins /\ j \in Job /\ Fits(j) /\ j.todo # <<>> /\ j.pc = "update" /\ j.op = "edit"
      /\ p0 \in Items /\ p0 = Head(j.todo) /\ f \in Forms
      /\ UNCHANGED <<orders, records, shelf, health, missed, spent>>
  BY OperatorAssumption, JobShape DEF EditWrite, Fits, Target
<1>1. product[p0] # Missing /\ (f.sku # product[p0].sku => ~Held(p0)) /\ product[p0] \in Row
  BY <1>0 DEF Sale, Known, CatalogShape, TablesShape
<1>2. CASE Goto(Operator, "error") /\ UNCHANGED product
  BY <1>0, <1>2, FormFails
<1>3. CASE /\ product' = [product EXCEPT ![p0].sku = f.sku, ![p0].price = f.price]
           /\ job' = [job EXCEPT ![Operator] = Finish(j, "changed")]
  <2>1. PICK k : k = Finish(j, "changed")
    OBVIOUS
  <2>2. job'[Operator] = k
    BY <1>0, <1>3, <2>1 DEF CatalogShape, JobsShape
  <2>3. Known(k)'
    BY <1>0, <2>1, FinishKnown DEF Outcomes
  <2>4. PICK r : r = [product[p0] EXCEPT !.sku = f.sku, !.price = f.price]
    OBVIOUS
  <2>5. r \in Row /\ r.sku = f.sku /\ (IsStoreSellable(r) <=> IsStoreSellable(product[p0]))
    BY <1>0, <1>1, <2>4, FormShape DEF Row, IsStoreSellable
  <2>6. product'[p0] = r /\ \A p \in Items \ {p0} : product'[p] = product[p]
    <3>1. product' = [product EXCEPT ![p0] = r]
      BY <1>0, <1>3, <2>4 DEF CatalogShape, TablesShape
    <3>2. QED
      BY <1>0, <3>1 DEF CatalogShape, TablesShape
  <2>7. ASSUME NEW s \in Stores, NEW p \in Items PROVE Carried(k, s, p)'
    <3>1. Carried(j, s, p) /\ ~Pending(j, s, p)
      BY <1>0 DEF Sale, Pending
    <3>2. CASE p # p0
      BY <1>0, <2>6, <3>1, <3>2 DEF Carried
    <3>3. CASE p = p0
      <4>1. shelf[s][p] # Missing => f.sku = product[p].sku
        BY <1>1, <3>1, <3>3 DEF Carried, Held, Recorded
      <4>2. QED
        BY <1>0, <2>5, <2>6, <3>1, <3>3, <4>1, RowShape DEF Carried
    <3>4. QED
      BY <3>2, <3>3
  <2>8. HistoryStep
    BY <1>1, <2>5, <2>6, RowShape DEF HistoryStep
  <2>9. QED
    BY <2>2, <2>3, <2>7, <2>8 DEF Sale
<1>4. QED
  BY <1>2, <1>3 DEF EditWrite

LEMMA DeleteRowSale ==
    ASSUME CatalogShape, Sale, DeleteRow(Operator)
    PROVE  Sale' /\ HistoryStep
<1> DEFINE j == job[Operator]
           p0 == Target(Operator)
<1>0. /\ Operator \in Admins /\ j \in Job /\ Fits(j) /\ j.todo # <<>> /\ j.pc = "delete" /\ j.op = "delete"
      /\ p0 \in Items /\ p0 = Head(j.todo) /\ ~Held(p0)
      /\ UNCHANGED <<orders, shelf, health, missed, spent>>
  BY OperatorAssumption, JobShape DEF DeleteRow, Fits, Target, Sale, Known
<1>1. CASE Goto(Operator, "error") /\ UNCHANGED <<product, records>>
  BY <1>0, <1>1, FormFails
<1>2. CASE /\ product' = [product EXCEPT ![p0] = Missing]
           /\ records' = [s \in Stores |-> records[s] \ {p0}]
           /\ job' = [job EXCEPT ![Operator] = Finish(j, "changed")]
  <2>1. PICK k : k = Finish(j, "changed")
    OBVIOUS
  <2>2. job'[Operator] = k
    BY <1>0, <1>2, <2>1 DEF CatalogShape, JobsShape
  <2>3. Known(k)'
    BY <1>0, <2>1, FinishKnown DEF Outcomes
  <2>4. \A p \in Items \ {p0} : product'[p] = product[p]
    BY <1>0, <1>2 DEF CatalogShape, TablesShape
  <2>5. ASSUME NEW s \in Stores, NEW p \in Items PROVE Carried(k, s, p)'
    <3>1. Carried(j, s, p) /\ ~Pending(j, s, p)
      BY <1>0 DEF Sale, Pending
    <3>2. CASE p # p0
      BY <1>0, <1>2, <2>4, <3>1, <3>2 DEF Carried
    <3>3. CASE p = p0
      BY <1>0, <3>1, <3>3 DEF Carried, Held, Recorded
    <3>4. QED
      BY <3>2, <3>3
  <2>6. HistoryStep
    BY <1>0, <2>4 DEF HistoryStep
  <2>7. QED
    BY <2>2, <2>3, <2>5, <2>6 DEF Sale
<1>3. QED
  BY <1>1, <1>2 DEF DeleteRow

\* An answer, or the end of the process.
LEMMA EndSale ==
    ASSUME CatalogShape, Sale, Reply(Operator) \/ Restart
    PROVE  Sale' /\ HistoryStep
<1> DEFINE j == job[Operator]
<1>0. Operator \in Admins /\ UNCHANGED <<product, orders, records, shelf, health, spent>>
  BY OperatorAssumption DEF Reply, Restart
<1>1. job'[Operator] = Idle
  BY <1>0 DEF Reply, Restart, CatalogShape, JobsShape
<1>2. Known(Idle)'
  BY IdleShape DEF Known
<1>3. ASSUME NEW s \in Stores, NEW p \in Items, p \notin missed'[s]
      PROVE  p \notin missed[s] /\ ~Pending(j, s, p)
  <2>1. CASE Reply(Operator)
    BY <1>3, <2>1 DEF Reply, Answered, Pending
  <2>2. CASE Restart
    BY <1>0, <1>3, <2>2 DEF Restart, Pending, Target
  <2>3. QED
    BY <2>1, <2>2
<1>4. \A s \in Stores, p \in Items : Carried(Idle, s, p)'
  BY <1>0, <1>3, StillCarried DEF Sale
<1>5. QED
  BY <1>0, <1>1, <1>2, <1>4 DEF Sale, HistoryStep

LEMMA BrandsSale ==
    ASSUME CatalogShape, Sale, Brands
    PROVE  Sale' /\ HistoryStep
<1> DEFINE j == job[Operator]
<1>0. /\ Operator \in Admins /\ j \in Job /\ Fits(j) /\ UNCHANGED <<product, job, missed>>
      /\ (j.pc \in {"update", "delete"} => Head(j.todo) \in Items)
  BY OperatorAssumption, JobShape DEF Brands, Provision, Order, Retest, Target
<1>1. HistoryStep
  BY <1>0 DEF HistoryStep
<1>2. /\ \A s \in Stores, p \in Items : p \in records[s] => p \in records'[s]
      /\ \A p \in Items : Held(p)' => Held(p)
  <2>1. ASSUME NEW s \in Stores, NEW q \in Items, Provision(s, q)
        PROVE  /\ \A t \in Stores, p \in Items : p \in records[t] => p \in records'[t]
               /\ \A p \in Items : Held(p)' => Held(p)
    <3>1. PICK R : R = records[s] \cup {q}
      OBVIOUS
    <3>2. records' = [records EXCEPT ![s] = R] /\ UNCHANGED <<product, orders>> /\ Held(q)
      BY <2>1, <3>1 DEF Provision, Held
    <3>3. \A t \in Stores : records'[t] = IF t = s THEN R ELSE records[t]
      BY <3>2 DEF CatalogShape, TablesShape
    <3>4. QED
      BY <3>1, <3>2, <3>3 DEF Held, Recorded
  <2>2. ASSUME NEW q \in Items, Order(q)
        PROVE  UNCHANGED records /\ \A p \in Items : Held(p)' => Held(p)
    BY <2>2 DEF Order, Held, Recorded
  <2>3. ASSUME NEW s \in Stores, Retest(s)
        PROVE  UNCHANGED records /\ \A p \in Items : Held(p)' => Held(p)
    BY <2>3 DEF Retest, Held, Recorded
  <2>4. QED
    BY <2>1, <2>2, <2>3 DEF Brands
<1>3. Known(j)'
  BY <1>0, <1>2 DEF Known, Sale
<1>4. ASSUME NEW s \in Stores, NEW p \in Items PROVE Carried(j, s, p)'
  <2>1. Carried(j, s, p)
    BY DEF Sale
  <2>2. CASE shelf'[s][p] = shelf[s][p]
    BY <1>0, <1>2, <2>1, <2>2 DEF Carried, Pending
  <2>3. CASE shelf'[s][p] # shelf[s][p]
    <3>1. Provision(s, p)
      <4>1. PICK t \in Stores, q \in Items : Provision(t, q)
        BY <2>3 DEF Brands, Order, Retest
      <4>2. PICK x : shelf' = [shelf EXCEPT ![t] = [@ EXCEPT ![q] = x]]
        BY <4>1 DEF Provision
      <4>3. s = t /\ p = q
        BY <2>3, <4>2 DEF CatalogShape, TablesShape
      <4>4. QED
        BY <4>1, <4>3
    <3>2. PICK sku \in {product[p].sku, Missing} :
            shelf' = [shelf EXCEPT ![s][p] = [sku |-> sku, selling |-> IsStoreSellable(product[p])]]
      BY <3>1 DEF Provision
    <3>3. shelf'[s][p] = [sku |-> sku, selling |-> IsStoreSellable(product[p])]
      BY <3>2 DEF CatalogShape, TablesShape
    <3>4. product[p] # Missing /\ p \in records'[s]
      BY <3>1 DEF Provision, CatalogShape, TablesShape
    <3>5. QED
      BY <1>0, <3>3, <3>4 DEF Carried
  <2>4. QED
    BY <2>2, <2>3
<1>5. QED
  BY <1>0, <1>1, <1>3, <1>4 DEF Sale

LEMMA SaleStep ==
    ASSUME Admins = {Operator}, CatalogShape, Sale, CatalogMove
    PROVE  Sale' /\ HistoryStep
<1>1. CASE Serve(Operator)
  BY <1>1, ReadItemSale, WriteItemSale, FindStoresSale, PushStoreSale, FormReadSale, FormCountSale,
     CreateRowSale, EditWriteSale, DeleteRowSale DEF Serve
<1>2. QED
  BY <1>1, SubmitSale, EndSale, BrandsSale DEF CatalogMove

-----------------------------------------------------------------------------

(* Beside an import nothing is on sale, and it puts nothing there. *)

Unsold ==
    /\ spent.brand = 0 /\ orders = {}
    /\ \A s \in Stores : records[s] = {} /\ \A p \in Items : shelf[s][p] = Missing
    /\ \A p \in Items : product[p] # Missing => ~product[p].published
    /\ \A a \in Admins : job[a].op \in {"none", "edit", "archive", "delete"}

LEMMA UnsoldHistory == Unsold => HistoryStep
BY DEF Unsold, HistoryStep, Held, Recorded

LEMMA UnsoldMove ==
    ASSUME CatalogShape, Unsold, CatalogMove, spent'.brand = 0,
           \A a \in Admins : job'[a].op \in {"none", "edit", "archive", "delete"}
    PROVE  Unsold'
<1>0. product \in [Items -> Row \cup {Missing}] /\ spent \in [requests: Nat, brand: Nat]
  BY DEF CatalogShape, TablesShape
<1>1. ASSUME UNCHANGED <<orders, records, shelf>>, \A p \in Items : product'[p] = product[p]
      PROVE  Unsold'
  BY <1>1 DEF Unsold
<1>2. ASSUME NEW a \in Admins, Submits(a) \/ Reply(a) PROVE Unsold'
  BY <1>1, <1>2 DEF Submits, Reply
<1>3. CASE Restart
  BY <1>1, <1>3 DEF Restart
<1>4. CASE Brands
  <2>1. ~BrandStep
    BY <1>0 DEF BrandStep, Unsold
  <2>2. QED
    BY <1>4, <2>1 DEF Brands, Provision, Order, Retest
<1>5. ASSUME NEW a \in Admins, Serve(a) PROVE Unsold'
  <2> DEFINE p == Target(a)
  <2>0. job[a].op \in {"none", "edit", "archive", "delete"} /\ job[a].op \notin {"create", "publish"}
    BY DEF Unsold
  <2>1. CASE UNCHANGED product /\ ~DeleteRow(a)
    <3>1. UNCHANGED <<orders, records>>
      BY <1>5, <2>1 DEF Serve, ReadItem, WriteItem, FindStores, PushStore, CreateCheck, CreateRow,
         EditRead, EditCount, EditWrite, DeleteRead, DeleteCount
    <3>2. ~PushStore(a) => UNCHANGED shelf
      BY <1>5, <2>1 DEF Serve, ReadItem, WriteItem, FindStores, CreateCheck, CreateRow,
         EditRead, EditCount, EditWrite, DeleteRead, DeleteCount
    <3>3. PushStore(a) => UNCHANGED shelf
      <4>1. SUFFICES ASSUME PushStore(a) PROVE UNCHANGED shelf
        OBVIOUS
      <4>2. p \in Items /\ job[a] \in Job
        BY <4>1, JobShape DEF PushStore
      <4>3. \A s \in job[a].left : ~Carries(s, p, job[a].seen.sku)
        BY <4>2 DEF Carries, Unsold, Job
      <4>4. QED
        BY <4>1, <4>3 DEF PushStore
    <3>4. QED
      BY <1>1, <2>1, <3>1, <3>2, <3>3
  <2>2. CASE WriteItem(a) /\ product[p] # Missing
    <3>1. p \in Items /\ job[a].op \in Lifecycle /\ job[a].op = "archive" /\ product[p] \in Row
      BY <1>0, <2>0, <2>2, JobShape DEF WriteItem, Fits, Lifecycle
    <3>2. PICK r : r = Transition(job[a].op, job[a].to, product[p])
      OBVIOUS
    <3>3. r.published = product[p].published /\ product' = [product EXCEPT ![p] = r]
      BY <2>2, <3>1, <3>2 DEF WriteItem, Transition, Row
    <3>4. QED
      BY <1>0, <2>2, <3>1, <3>3 DEF Unsold, WriteItem
  <2>3. CASE EditWrite(a) /\ product[p] # Missing /\ product' = [product EXCEPT ![p].sku = job[a].form.sku, ![p].price = job[a].form.price]
    <3>1. p \in Items /\ product[p] \in Row
      BY <1>0, <2>3, JobShape DEF EditWrite
    <3>2. PICK r : r = [product[p] EXCEPT !.sku = job[a].form.sku, !.price = job[a].form.price]
      OBVIOUS
    <3>3. r.published = product[p].published /\ product' = [product EXCEPT ![p] = r]
      BY <1>0, <2>3, <3>1, <3>2 DEF Row
    <3>4. QED
      BY <1>0, <2>3, <3>1, <3>3 DEF Unsold, EditWrite
  <2>4. CASE DeleteRow(a)
    <3>1. \A s \in Stores : records'[s] = {}
      BY <2>4 DEF DeleteRow, Unsold
    <3>2. \A q \in Items : product'[q] \in {product[q], Missing}
      BY <1>0, <2>4 DEF DeleteRow
    <3>3. QED
      BY <2>4, <3>1, <3>2 DEF Unsold, DeleteRow
  <2>5. QED
    BY <1>5, <2>0, <2>1, <2>2, <2>3, <2>4 DEF Serve, ReadItem, WriteItem, FindStores, PushStore, CreateCheck, CreateRow,
       EditRead, EditCount, EditWrite, DeleteRead, DeleteCount
<1>6. QED
  BY <1>2, <1>3, <1>4, <1>5 DEF CatalogMove

LEMMA UnsoldImport == ASSUME Unsold, ImportMove PROVE Unsold'
BY DEF Unsold, ImportMove, Imported

-----------------------------------------------------------------------------

(* What a bulk request has reached. *)

Fixed(j, p) == product[p] # Missing /\ Transition(j.op, j.to, product[p]) = product[p]

Reached(j) ==
    j.op \in Lifecycle =>
        /\ \A p \in j.named : (\E i \in DOMAIN j.todo : j.todo[i] = p) \/ j.result[p] # "none"
        /\ \A p \in Items : j.result[p] \in {"changed", "same"} => Fixed(j, p)
        /\ j.pc \in {"stores", "push"} => Fixed(j, Head(j.todo))

LEMMA FinishReached ==
    ASSUME NEW j \in Job, Fits(j), j.todo # <<>>, Reached(j)', NEW o \in Outcomes \ {"none"},
           o \in {"changed", "same"} => Fixed(j, Head(j.todo))'
    PROVE  Reached(Finish(j, o))'
<1>1. PICK q : q = Finish(j, o)
  OBVIOUS
<1>2. /\ q.pc = "read" /\ q.op = j.op /\ q.todo = Tail(j.todo) /\ q.named = j.named
      /\ q.to = j.to /\ q.result = [j.result EXCEPT ![Head(j.todo)] = o]
  BY <1>1, FinishShape
<1>3. Head(j.todo) \in Items /\ j.todo \in Seq(Items) /\ j.result \in [Items -> Outcomes] /\ j.named \subseteq Items
  BY DEF Job
<1>4. ASSUME NEW p \in j.named, NEW i \in DOMAIN j.todo, j.todo[i] = p, p # Head(j.todo)
      PROVE  \E k \in DOMAIN q.todo : q.todo[k] = p
  <2>1. i - 1 \in DOMAIN Tail(j.todo) /\ Tail(j.todo)[i - 1] = p
    BY <1>3, <1>4
  <2>2. QED
    BY <1>2, <2>1
<1>5. \A p \in Items : q.result[p] = IF p = Head(j.todo) THEN o ELSE j.result[p]
  BY <1>2, <1>3
<1>6. Reached(q)'
  BY <1>2, <1>3, <1>4, <1>5 DEF Reached, Fixed
<1>7. QED
  BY <1>1, <1>6

\* The request goes on with the same list and the same outcomes.
LEMMA StillReached ==
    ASSUME NEW j, NEW k, Reached(j)', k.op = j.op, k.to = j.to, k.named = j.named, k.todo = j.todo, k.result = j.result,
           k.op \in Lifecycle /\ k.pc \in {"stores", "push"} => Fixed(j, Head(j.todo))'
    PROVE  Reached(k)'
BY DEF Reached, Fixed

LEMMA LifecycleReached ==
    ASSUME CatalogShape, NEW a \in Admins, Reached(job[a]),
           ReadItem(a) \/ WriteItem(a) \/ FindStores(a) \/ PushStore(a)
    PROVE  Reached(job[a])'
<1>1. PICK j, k, p0 : j = job[a] /\ k = job'[a] /\ p0 = Target(a)
  OBVIOUS
<1>2. /\ j \in Job /\ Fits(j) /\ job \in [Admins -> Job] /\ product \in [Items -> Row \cup {Missing}]
      /\ j.pc # "idle" /\ j.op \in Lifecycle /\ j.todo # <<>> /\ p0 \in Items /\ p0 = Head(j.todo)
      /\ (j.op = "set_stock" => j.to \in StockStates) /\ Reached(j)
  BY <1>1, JobShape DEF CatalogShape, JobsShape, TablesShape, ReadItem, WriteItem, FindStores, PushStore, Fits, Target
<1>3. ASSUME UNCHANGED product PROVE Reached(j)'
  BY <1>2, <1>3 DEF Reached, Fixed
<1>4. CASE ReadItem(a)
  <2>1. PICK r : r = product[p0]
    OBVIOUS
  <2>2. PICK q : q = [j EXCEPT !.pc = "write", !.seen = r]
    OBVIOUS
  <2>3. UNCHANGED product /\ Reached(j)' /\ r \in Row \cup {Missing}
    BY <1>2, <1>3, <1>4, <2>1 DEF ReadItem
  <2>4. q.op = j.op /\ q.to = j.to /\ q.named = j.named /\ q.todo = j.todo /\ q.result = j.result /\ q.pc = "write"
    BY <1>2, <2>2 DEF Job
  <2>5. k = IF r = Missing THEN Finish(j, "refused")
            ELSE IF Already(j.op, r) THEN Finish(j, "same")
            ELSE IF Refuses(j.op, r) THEN Finish(j, "refused") ELSE q
    BY <1>1, <1>2, <1>4, <2>1, <2>2 DEF ReadItem
  <2>6. Reached(q)'
    BY <2>3, <2>4, StillReached
  <2>7. Reached(Finish(j, "refused"))'
    BY <1>2, <2>3, FinishReached DEF Outcomes
  <2>8. r # Missing /\ Already(j.op, r) => Reached(Finish(j, "same"))'
    <3>1. r # Missing /\ Already(j.op, r) => Fixed(j, p0)'
      BY <1>2, <2>1, <2>3, TransitionShape DEF Fixed
    <3>2. QED
      BY <1>2, <2>3, <3>1, FinishReached DEF Outcomes
  <2>9. Reached(k)'
    BY <2>5, <2>6, <2>7, <2>8
  <2>10. QED
    BY <1>1, <2>9
<1>5. CASE WriteItem(a) /\ product[p0] = Missing
  <2>1. UNCHANGED product /\ k = [j EXCEPT !.pc = "error"]
    BY <1>1, <1>2, <1>5 DEF WriteItem, Goto
  <2>2. k.pc = "error" /\ k.op = j.op /\ k.to = j.to /\ k.named = j.named /\ k.todo = j.todo /\ k.result = j.result
    BY <1>2, <2>1 DEF Job
  <2>3. Reached(k)'
    BY <1>3, <2>1, <2>2, StillReached
  <2>4. QED
    BY <1>1, <2>3
<1>6. CASE WriteItem(a) /\ product[p0] # Missing
  <2>0. PICK x \in Row : x = product[p0]
    BY <1>2, <1>6
  <2>1. PICK r : r = Transition(j.op, j.to, x)
    OBVIOUS
  <2>2. PICK q : q = [j EXCEPT !.pc = "stores", !.seen = r]
    OBVIOUS
  <2>4. product' = [product EXCEPT ![p0] = r] /\ k = IF Pushes(j.op) THEN q ELSE Finish(j, "changed")
    BY <1>1, <1>2, <1>6, <2>0, <2>1, <2>2 DEF WriteItem
  <2>5. r \in Row /\ r # Missing /\ Transition(j.op, j.to, r) = r
    BY <1>2, <2>1, TransitionShape, RowShape
  <2>6. product'[p0] = r /\ \A p \in Items \ {p0} : product'[p] = product[p]
    BY <1>2, <2>4
  <2>7. Fixed(j, p0)' /\ j.pc = "write"
    BY <1>1, <1>6, <2>5, <2>6 DEF Fixed, WriteItem
  <2>8. Reached(j)'
    BY <1>2, <2>6, <2>7 DEF Reached, Fixed
  <2>9. q.op = j.op /\ q.to = j.to /\ q.named = j.named /\ q.todo = j.todo /\ q.result = j.result
    BY <1>2, <2>2 DEF Job
  <2>10. Reached(q)'
    BY <1>2, <2>7, <2>8, <2>9, StillReached
  <2>11. Reached(Finish(j, "changed"))'
    BY <1>2, <2>7, <2>8, FinishReached DEF Outcomes
  <2>12. Reached(k)'
    BY <2>4, <2>10, <2>11
  <2>13. QED
    BY <1>1, <2>12
<1>7. CASE FindStores(a) \/ PushStore(a)
  <2>1. UNCHANGED product /\ j.pc \in {"stores", "push"}
    BY <1>1, <1>7 DEF FindStores, PushStore
  <2>2. Reached(j)' /\ Fixed(j, p0)'
    BY <1>2, <1>3, <2>1 DEF Reached, Fixed
  <2>3. Reached(Finish(j, "changed"))'
    BY <1>2, <2>2, FinishReached DEF Outcomes
  <2>4. k = Finish(j, "changed") \/ \E L : k = [j EXCEPT !.pc = "push", !.left = L] \/ k = [j EXCEPT !.left = L]
    BY <1>1, <1>2, <1>7 DEF FindStores, PushStore
  <2>5. ASSUME NEW L, k = [j EXCEPT !.pc = "push", !.left = L] \/ k = [j EXCEPT !.left = L] PROVE Reached(k)'
    <3>1. k.op = j.op /\ k.to = j.to /\ k.named = j.named /\ k.todo = j.todo /\ k.result = j.result
      BY <1>2, <2>5 DEF Job
    <3>2. QED
      BY <1>2, <2>2, <3>1, StillReached
  <2>6. Reached(k)'
    BY <2>3, <2>4, <2>5
  <2>7. QED
    BY <1>1, <2>6
<1>8. QED
  BY <1>4, <1>5, <1>6, <1>7

\* A single administrator: nobody else writes between a read and its write.
\* Only the requests write the catalog, and there is one at a time.
LEMMA ReachedMove ==
    ASSUME Admins = {Operator}, CatalogShape, Reached(job[Operator]), CatalogMove
    PROVE  Reached(job[Operator])'
<1>0. Operator \in Admins /\ job \in [Admins -> Job] /\ job[Operator] \in Job
  BY OperatorAssumption, JobShape DEF CatalogShape, JobsShape
<1>1. PICK k : k = job'[Operator]
  OBVIOUS
<1>2. ASSUME k.op \notin Lifecycle PROVE Reached(job[Operator])'
  <2>1. Reached(k)'
    BY <1>2 DEF Reached
  <2>2. QED
    BY <1>1, <2>1
<1>3. CASE Submits(Operator)
  <2>1. PICK op, todo, to, form : Sendable(op, todo, to, form) /\ Submit(Operator, op, todo, to, form)
    BY <1>3 DEF Submits
  <2>2. k = NewJob(op, todo, to, form)
    BY <1>0, <1>1, <2>1, SubmitIsNew
  <2>3. /\ k.pc = "read" /\ k.todo = todo /\ k.named = {todo[i] : i \in DOMAIN todo} /\ k.result = [p \in Items |-> "none"]
        /\ UNCHANGED product
    BY <1>3, <2>1, <2>2, NewJobShape DEF Submits
  <2>4. Reached(k)'
    BY <2>3 DEF Reached
  <2>5. QED
    BY <1>1, <2>4
<1>4. CASE Reply(Operator) \/ Restart
  <2>1. k.op = "none"
    BY <1>0, <1>1, <1>4, IdleShape DEF Reply, Restart
  <2>2. QED
    BY <1>2, <2>1 DEF Lifecycle
<1>5. CASE Brands
  BY <1>5 DEF Brands, Provision, Order, Retest, Reached, Fixed
<1>6. CASE ReadItem(Operator) \/ WriteItem(Operator) \/ FindStores(Operator) \/ PushStore(Operator)
  BY <1>0, <1>6, LifecycleReached
<1>7. CASE \/ CreateCheck(Operator) \/ CreateRow(Operator) \/ EditRead(Operator) \/ EditCount(Operator)
           \/ EditWrite(Operator) \/ DeleteRead(Operator) \/ DeleteCount(Operator) \/ DeleteRow(Operator)
  <2>1. job[Operator].op \in {"create", "edit", "delete"} /\ (job[Operator].todo # <<>> \/ job[Operator].pc # "read")
        /\ job[Operator].pc # "idle"
    BY <1>7 DEF CreateCheck, CreateRow, EditRead, EditCount, EditWrite, DeleteRead, DeleteCount, DeleteRow
  <2>2. job[Operator].todo # <<>>
    BY <1>0, <1>7, <2>1, JobShape DEF Fits, CreateCheck, CreateRow, EditRead, EditCount, EditWrite, DeleteRead, DeleteCount, DeleteRow
  <2>3. Finish(job[Operator], "changed").op = job[Operator].op
    BY <1>0, <2>2, JobShape, FinishShape DEF Outcomes
  <2>4. k.op = job[Operator].op
    BY <1>0, <1>1, <1>7, <2>3 DEF CreateCheck, CreateRow, EditRead, EditCount, EditWrite, DeleteRead, DeleteCount, DeleteRow, Goto, Job
  <2>5. QED
    BY <1>2, <2>1, <2>4 DEF Lifecycle
<1>8. QED
  BY <1>3, <1>4, <1>5, <1>6, <1>7 DEF CatalogMove, Serve

LEMMA ReachedImport ==
    ASSUME CatalogShape, Reached(job[Operator]), ImportMove
    PROVE  Reached(job[Operator])'
<1>1. PICK j : j = job[Operator]
  OBVIOUS
<1>2. j \in Job /\ Fits(j) /\ Reached(j) /\ j = job'[Operator]
  BY <1>1, OperatorAssumption, JobShape DEF ImportMove
<1>3. ASSUME j.op \in Lifecycle, NEW p \in Items, Fixed(j, p) PROVE Fixed(j, p)'
  <2>1. PICK r \in Row : r = product[p]
    BY <1>3 DEF Fixed, CatalogShape, TablesShape
  <2>2. PICK t : t = product'[p]
    OBVIOUS
  <2>3. t \in Row /\ t.published = r.published /\ t.archived = r.archived /\ t.status = r.status
    BY <1>3, <2>1, <2>2, RowShape DEF ImportMove, Imported
  <2>4. Transition(j.op, j.to, r) = r
    BY <1>3, <2>1 DEF Fixed
  <2>5. Transition(j.op, j.to, t) = t
    BY <1>2, <1>3, <2>3, <2>4 DEF Transition, Row, Lifecycle
  <2>6. QED
    BY <2>2, <2>3, <2>5, RowShape DEF Fixed
<1>4. j.pc \in {"stores", "push"} => Head(j.todo) \in Items
  BY <1>2 DEF Fits, Job
<1>5. Reached(j)'
  BY <1>2, <1>3, <1>4 DEF Reached
<1>6. QED
  BY <1>2, <1>5

-----------------------------------------------------------------------------

(* The whole. *)

Shapes == CatalogShape /\ ScreenShape /\ ImportShape

LEMMA ShapesInit == MCInit => Shapes
BY CatalogShapeInit, ScreenShapeInit, ImportShapeInit DEF MCInit, Shapes

LEMMA ShapesStill ==
    /\ CatalogShape /\ UNCHANGED catalogVars => CatalogShape'
    /\ ScreenShape /\ UNCHANGED viewVars => ScreenShape'
    /\ ImportShape /\ UNCHANGED importVars => ImportShape'
<1>1. CatalogShape /\ UNCHANGED catalogVars => CatalogShape'
  BY DEF catalogVars, CatalogShape, TablesShape, JobsShape
<1>2. ScreenShape /\ UNCHANGED viewVars => ScreenShape'
  BY DEF viewVars, ScreenShape
<1>3. ImportShape /\ UNCHANGED importVars => ImportShape'
  BY DEF importVars, ImportShape, PageShape, RunShape, Reported
<1>4. QED
  BY <1>1, <1>2, <1>3

\* An import moves no request and keeps the types of the catalog.
LEMMA ImportCatalogShape == CatalogShape /\ ImportMove => CatalogShape'
BY DEF CatalogShape, TablesShape, JobsShape, ImportMove

\* What a step of the scenarios is to the catalog, the screen and the import.
LEMMA StepKinds ==
    ASSUME [MCNext]_shopVars
    PROVE  \/ In({"requests", "import"}) /\ CatalogMove /\ CatalogFollows' /\ UNCHANGED <<viewVars, importVars>>
           \/ In({"clicks"}) /\ ScreenNext /\ UNCHANGED importVars
           \/ In({"import"}) /\ ImportNext /\ UNCHANGED viewVars
           \/ UNCHANGED <<catalogVars, viewVars, importVars>>
BY CatalogMoves DEF MCNext, shopVars

LEMMA ShapesStep == ASSUME Shapes, [MCNext]_shopVars PROVE Shapes'
<1>1. CASE CatalogMove /\ UNCHANGED <<viewVars, importVars>>
  BY <1>1, MoveShape, ShapesStill DEF Shapes
<1>2. CASE ScreenNext /\ UNCHANGED importVars
  <2>1. (CatalogMove \/ UNCHANGED catalogVars) /\ ScreenShape'
    BY <1>2, ScreenMoves DEF Shapes
  <2>2. QED
    BY <1>2, <2>1, MoveShape, ShapesStill DEF Shapes
<1>3. CASE ImportNext /\ UNCHANGED viewVars
  <2>1. ImportShape' /\ (ImportMove \/ UNCHANGED catalogVars)
    BY <1>3, ImportMoves DEF Shapes
  <2>2. QED
    BY <1>3, <2>1, ImportCatalogShape, ShapesStill DEF Shapes
<1>4. CASE UNCHANGED <<catalogVars, viewVars, importVars>>
  BY <1>4, ShapesStill DEF Shapes
<1>5. QED
  BY <1>1, <1>2, <1>3, <1>4, StepKinds

LEMMA ShapesHold == MCSpec => []Shapes
BY ShapesInit, ShapesStep, PTL DEF MCSpec

\* The catalog, its requests, the screen and the import keep their types, for any number of
\* administrators (schema.prisma CatalogProduct, admin-catalog.ts, Catalog.tsx, CatalogImport.tsx).
THEOREM ShopTyped == MCSpec => [](CatalogTypeOK /\ ScreenTypeOK /\ ImportTypeOK)
<1>1. CatalogShape => CatalogTypeOK
  BY DEF CatalogShape, TablesShape, JobsShape, CatalogTypeOK, Job, Shelved
<1>2. ScreenShape => ScreenTypeOK
  BY DEF ScreenShape, View, ScreenTypeOK, Listing
<1>3. CatalogShape /\ ImportShape => ImportTypeOK
  BY DEF CatalogShape, TablesShape, ImportShape, PageShape, RunShape, Commit, ImportTypeOK
<1>4. Shapes => CatalogTypeOK /\ ScreenTypeOK /\ ImportTypeOK
  BY <1>1, <1>2, <1>3 DEF Shapes
<1>5. QED
  BY <1>4, ShapesHold, PTL

\* A commit of an import starts to write only what the operator approved, against a catalog
\* that has not moved, and reports line by line what it did (catalog-import.ts:25, :198),
\* whatever administrators do meanwhile.
THEOREM ImportHonest == MCSpec => ImportIsTrue
<1> DEFINE Approved == run.pc = "check" /\ run'.pc = "write"
               => \A i \in run'.todo :
                    LET r == approved[i] IN
                    /\ r.action \in {"create", "update"} /\ r.to = run'.rows[i].to
                    /\ r.action = "create" => Existing(r.sku) = {}
                    /\ r.action = "update" => \E p \in Existing(r.sku) : r.from = {product[p].price}
<1>1. Shapes /\ [MCNext]_shopVars => Approved
  <2>1. SUFFICES ASSUME Shapes, [MCNext]_shopVars, run' # run PROVE Approved
    OBVIOUS
  <2>2. ImportNext
    BY <2>1, StepKinds DEF importVars
  <2>3. QED
    BY <2>1, <2>2, ApprovedStep DEF Shapes
<1>2. Shapes => ResultIsTrue
  BY DEF Shapes, ImportShape, RunShape, Reported, ResultIsTrue
<1>3. MCSpec => [][Approved]_<<catalogVars, importVars>>
  BY <1>1, ShapesHold, PTL DEF MCSpec
<1>4. MCSpec => [][ResultIsTrue']_importVars
  BY <1>2, ShapesHold, PTL
<1>5. QED
  BY <1>3, <1>4 DEF ImportIsTrue, ApprovedIsCurrent

-----------------------------------------------------------------------------

(* One administrator at a time. *)

ShopInv == Shapes /\ (In({"import"}) \/ Sale) /\ (In({"import"}) => Unsold) /\ Reached(job[Operator])

LEMMA ShopInvInit == ASSUME MCInit PROVE ShopInv
<1>1. Shapes /\ CatalogInit
  BY ShapesInit DEF MCInit
<1>2. job[Operator] = Idle
  BY <1>1, OperatorAssumption DEF CatalogInit
<1>3. Reached(job[Operator])
  BY <1>2, IdleShape DEF Reached, Lifecycle
<1>4. In({"import"}) => Unsold
  <2>1. SUFFICES ASSUME In({"import"}) PROVE Unsold
    OBVIOUS
  <2>2. \A p \in Items : product[p] # Missing => ~product[p].published
    BY <2>1 DEF MCInit, In
  <2>3. QED
    BY <1>1, <2>2, IdleShape DEF CatalogInit, Unsold
<1>5. QED
  BY <1>1, <1>3, <1>4, SaleInit DEF ShopInv

LEMMA ShopInvStep ==
    ASSUME Admins = {Operator}, ShopInv, [MCNext]_shopVars
    PROVE  ShopInv' /\ HistoryStep
<1>0. Shapes /\ Shapes' /\ CatalogShape /\ scenario' = scenario
  BY ShapesStep DEF ShopInv, Shapes, MCNext, shopVars
<1>1. ASSUME UNCHANGED catalogVars PROVE ShopInv' /\ HistoryStep
  <2>1. Sale => Sale'
    BY <1>1 DEF catalogVars, Sale, Known, Carried, Held, Recorded, Pending
  <2>2. Unsold => Unsold'
    BY <1>1 DEF catalogVars, Unsold
  <2>3. Reached(job[Operator]) => Reached(job[Operator])'
    BY <1>1 DEF catalogVars, Reached, Fixed
  <2>4. HistoryStep
    BY <1>1 DEF catalogVars, HistoryStep
  <2>5. QED
    BY <1>0, <2>1, <2>2, <2>3, <2>4 DEF ShopInv, In
<1>2. ASSUME CatalogMove, In({"requests", "clicks"}) PROVE ShopInv' /\ HistoryStep
  <2>1. Sale /\ ~In({"import"}) /\ ~In({"import"})'
    BY <1>0, <1>2 DEF ShopInv, In
  <2>2. Sale' /\ HistoryStep /\ Reached(job[Operator])'
    BY <1>0, <1>2, <2>1, SaleStep, ReachedMove DEF ShopInv
  <2>3. QED
    BY <1>0, <2>1, <2>2 DEF ShopInv
<1>3. ASSUME CatalogMove, In({"import"}), CatalogFollows' PROVE ShopInv' /\ HistoryStep
  <2>1. Unsold /\ In({"import"})'
    BY <1>0, <1>3 DEF ShopInv, In
  <2>2. spent'.brand = 0 /\ \A a \in Admins : job'[a].op \in {"none", "edit", "archive", "delete"}
    BY <1>0, <1>3 DEF CatalogFollows, In
  <2>3. Unsold' /\ HistoryStep /\ Reached(job[Operator])'
    BY <1>0, <1>3, <2>1, <2>2, UnsoldMove, UnsoldHistory, ReachedMove DEF ShopInv
  <2>4. QED
    BY <1>0, <2>1, <2>3 DEF ShopInv
<1>4. ASSUME ImportMove, In({"import"}) PROVE ShopInv' /\ HistoryStep
  <2>1. Unsold /\ In({"import"})'
    BY <1>0, <1>4 DEF ShopInv, In
  <2>2. Unsold' /\ HistoryStep /\ Reached(job[Operator])'
    BY <1>0, <1>4, <2>1, UnsoldImport, UnsoldHistory, ReachedImport DEF ShopInv
  <2>3. QED
    BY <1>0, <2>1, <2>2 DEF ShopInv
<1>5. CASE In({"requests", "import"}) /\ CatalogMove /\ CatalogFollows'
  BY <1>2, <1>3, <1>5 DEF In
<1>6. CASE In({"clicks"}) /\ ScreenNext
  <2>1. CatalogMove \/ UNCHANGED catalogVars
    BY <1>0, <1>6, ScreenMoves DEF Shapes
  <2>2. QED
    BY <1>1, <1>2, <1>6, <2>1 DEF In
<1>7. CASE In({"import"}) /\ ImportNext
  <2>1. ImportMove \/ UNCHANGED catalogVars
    BY <1>0, <1>7, ImportMoves DEF Shapes
  <2>2. QED
    BY <1>1, <1>4, <1>7, <2>1
<1>8. QED
  BY <1>1, <1>5, <1>6, <1>7, StepKinds

LEMMA ShopInvHolds == ASSUME Admins = {Operator} PROVE MCSpec => []ShopInv
<1>1. MCInit => ShopInv
  BY ShopInvInit
<1>2. ShopInv /\ [MCNext]_shopVars => ShopInv'
  BY ShopInvStep
<1>3. QED
  BY <1>1, <1>2, PTL DEF MCSpec

\* When its requests have been answered, no store sells a product that is not to be sold,
\* unless it missed the push: for any number of products, stores and requests of the one
\* administrator, over the API or the screen (catalog-lifecycle.ts:110, dto.ts:147).
THEOREM NothingUnsellable == ASSUME Admins = {Operator} PROVE MCSpec => []NoUnsellableOnSale
<1>1. ShopInv => NoUnsellableOnSale
  <2>1. SUFFICES ASSUME ShopInv, Quiet, NEW s \in Stores, NEW p \in Items,
                        shelf[s][p] # Missing, shelf[s][p].selling, p \notin missed[s]
                 PROVE  product[p] # Missing /\ IsStoreSellable(product[p])
    BY DEF NoUnsellableOnSale
  <2>2. Sale
    BY <2>1 DEF ShopInv, Unsold
  <2>3. ~Pending(job[Operator], s, p)
    BY <2>1, OperatorAssumption DEF Quiet, Pending
  <2>4. QED
    BY <2>1, <2>2, <2>3 DEF Sale, Carried
<1>2. QED
  BY <1>1, ShopInvHolds, PTL

\* What is published, or carried by a store, or on an order keeps its SKU and its row
\* (admin-catalog.ts:157, :304).
THEOREM HistoryHeld == ASSUME Admins = {Operator} PROVE MCSpec => HistoryStands
<1> DEFINE Locked == \A p \in Items :
               product[p] # Missing /\ product'[p] # Missing /\ product[p].sku # product'[p].sku
                   => ~product[p].published /\ ~Recorded(p) /\ p \notin orders
           Kept == \A p \in Items : product[p] # Missing /\ product'[p] = Missing
                       => ~product[p].published /\ ~Recorded(p) /\ p \notin orders
<1>1. ShopInv /\ [MCNext]_shopVars => Locked /\ Kept
  BY ShopInvStep DEF HistoryStep, Held
<1>2. MCSpec => [][Locked]_catalogVars
  BY <1>1, ShopInvHolds, PTL DEF MCSpec
<1>3. MCSpec => [][Kept]_catalogVars
  BY <1>1, ShopInvHolds, PTL DEF MCSpec
<1>4. QED
  BY <1>2, <1>3 DEF HistoryStands, SkuLocked, HistoryKept

\* A bulk request that is answered has an outcome for every product it named, and what it
\* calls done is done (admin-catalog.ts:266), while brands order, stores fail and imports run.
THEOREM BulkDone == ASSUME Admins = {Operator} PROVE MCSpec => BulkReaches
<1> DEFINE Done == \A a \in Admins : Reply(a) /\ job[a].op \in Lifecycle /\ job[a].pc = "read"
               => \A p \in job[a].named :
                    /\ job[a].result[p] # "none"
                    /\ job[a].result[p] \in {"changed", "same"} /\ product[p] # Missing
                           => Transition(job[a].op, job[a].to, product[p]) = product[p]
<1>1. ShopInv => Done
  <2>1. SUFFICES ASSUME ShopInv, Reply(Operator), job[Operator].op \in Lifecycle, job[Operator].pc = "read",
                        NEW p \in job[Operator].named
                 PROVE  /\ job[Operator].result[p] # "none"
                        /\ job[Operator].result[p] \in {"changed", "same"}
                               => Transition(job[Operator].op, job[Operator].to, product[p]) = product[p]
    OBVIOUS
  <2>2. job[Operator].todo = <<>> /\ p \in Items
    BY <2>1, OperatorAssumption, JobShape DEF Reply, Answered, ShopInv, Shapes, Job
  <2>3. QED
    BY <2>1, <2>2 DEF ShopInv, Reached, Fixed
<1>2. MCSpec => [][Done]_catalogVars
  BY <1>1, ShopInvHolds, PTL
<1>3. QED
  BY <1>2 DEF BulkReaches

-----------------------------------------------------------------------------
(* The connection of a store and its webhooks. *)

Registering(x) == x.pc \in {"hook1", "hook2", "save"}
HookOf(c, topic) == [to |-> c, topic |-> topic]

\* What a screen that registers has got so far is at the store, and not yet in the row.
ScreenFacts(x) ==
    /\ x.pc \in {"hook1", "hook2", "save", "failed"} => x.conn \in 1..made
    /\ x.pc \in {"idle", "create", "hook1"} => x.got = {}
    /\ x.pc = "hook2" => x.got = {HookOf(x.conn, "order.created")}
    /\ x.pc = "save" => x.got = {HookOf(x.conn, topic) : topic \in Topics}
    /\ Registering(x) => x.got \subseteq hooks /\ (Connected(x.conn) => connection.webhookIds = {})
    /\ \A h \in x.got : h.to \in 1..made

\* A connection is registered by the screen that made it alone.
Apart(x, y) == Registering(x) => (\A h \in y.got : h.to # x.conn) /\ (Registering(y) => y.conn # x.conn)

RowFacts == connection # Nothing => connection.id \in 1..made /\ \A h \in connection.webhookIds : h.to = connection.id

LinkInv ==
    /\ ConnectionTypeOK /\ RowFacts
    /\ \A s \in Screens : ScreenFacts(screen[s])
    /\ \A s, t \in Screens : s # t => Apart(screen[s], screen[t])

LEMMA LinkTypes ==
    ASSUME LinkInv, NEW s \in Screens
    PROVE  /\ screen[s] \in Screen /\ ScreenFacts(screen[s])
           /\ screen[s].got \in SUBSET Hook /\ screen[s].conn \in ConnIds \cup {Nothing}
           /\ made \in Nat /\ made <= MaxConnections /\ MaxConnections \in Nat
           /\ connection \in Connection \cup {Nothing}
<1>1. screen[s] \in Screen /\ ScreenFacts(screen[s])
  BY DEF LinkInv, ConnectionTypeOK
<1>2. screen[s].got \in SUBSET Hook /\ screen[s].conn \in ConnIds \cup {Nothing}
  BY <1>1 DEF Screen
<1>3. made \in Nat /\ made <= MaxConnections /\ MaxConnections \in Nat
  BY ConnectionAssumption DEF LinkInv, ConnectionTypeOK
<1>4. QED
  BY <1>1, <1>2, <1>3 DEF LinkInv, ConnectionTypeOK

LEMMA ScreenPut ==
    ASSUME LinkInv, NEW s \in Screens, NEW k \in Screen, screen' = [screen EXCEPT ![s] = k]
    PROVE  /\ screen' \in [Screens -> Screen] /\ screen'[s] = k
           /\ \A t \in Screens \ {s} : screen'[t] = screen[t]
BY DEF LinkInv, ConnectionTypeOK

\* The row is left alone but for its status, or goes.
RowStays ==
    \/ connection' = Nothing
    \/ /\ connection # Nothing /\ connection' \in Connection
       /\ connection'.id = connection.id /\ connection'.webhookIds = connection.webhookIds

\* A step of a screen that registers nothing new.
LEMMA OtherStep ==
    ASSUME LinkInv, NEW s \in Screens, NEW k \in Screen, screen' = [screen EXCEPT ![s] = k],
           k.got \subseteq screen[s].got, k.pc \in {"idle", "create"} => k.got = {},
           k.pc = "failed" => k.conn = screen[s].conn /\ screen[s].pc \in {"hook1", "hook2", "failed"},
           Registering(k) => k.pc = screen[s].pc /\ k.conn = screen[s].conn /\ k.got = screen[s].got,
           RowStays, made' = made, planAllows' \in BOOLEAN, shipping' \in ConnIds \cup {Nothing}, faults' \in 0..MaxFaults,
           hooks' = hooks \/ (hooks' = hooks \ screen[s].got /\ ~Registering(k))
    PROVE  LinkInv'
<1>0. /\ screen[s] \in Screen /\ ScreenFacts(screen[s])
      /\ screen' \in [Screens -> Screen] /\ screen'[s] = k /\ \A t \in Screens \ {s} : screen'[t] = screen[t]
  BY LinkTypes, ScreenPut
<1>1. ConnectionTypeOK' /\ RowFacts'
  BY <1>0 DEF LinkInv, ConnectionTypeOK, RowFacts, RowStays
<1>2. ASSUME NEW c, Connected(c)', connection # Nothing => (Connected(c) => connection.webhookIds = {})
      PROVE  connection'.webhookIds = {}
  BY <1>2 DEF RowStays, Connected
<1>3. ScreenFacts(k)'
  <2>1. CASE Registering(k)
    <3>1. k.pc = screen[s].pc /\ k.conn = screen[s].conn /\ k.got = screen[s].got /\ hooks' = hooks
      BY <2>1 DEF Registering
    <3>2. QED
      BY <1>0, <1>2, <2>1, <3>1 DEF ScreenFacts, Registering
  <2>2. CASE ~Registering(k)
    BY <1>0, <2>2 DEF ScreenFacts, Registering
  <2>3. QED
    BY <2>1, <2>2
<1>4. ASSUME NEW t \in Screens \ {s} PROVE ScreenFacts(screen[t])'
  <2>1. PICK y : y = screen[t] /\ y = screen'[t]
    BY <1>0
  <2>2. ScreenFacts(y)
    BY <2>1 DEF LinkInv
  <2>3. Registering(y) => y.got \subseteq hooks'
    <3>1. SUFFICES ASSUME Registering(y), hooks' = hooks \ screen[s].got PROVE y.got \subseteq hooks'
      BY <2>2 DEF ScreenFacts
    <3>2. \A h \in screen[s].got : h.to # y.conn
      BY <2>1, <3>1 DEF LinkInv, Apart
    <3>3. \A h \in y.got : h.to = y.conn
      BY <2>2, <3>1 DEF ScreenFacts, Registering, HookOf
    <3>4. QED
      BY <2>2, <3>1, <3>2, <3>3 DEF ScreenFacts
  <2>4. ScreenFacts(y)'
    BY <1>2, <2>2, <2>3 DEF ScreenFacts, Registering
  <2>5. QED
    BY <2>1, <2>4
<1>5. ASSUME NEW t \in Screens, NEW u \in Screens, t # u PROVE Apart(screen[t], screen[u])'
  <2>1. Apart(screen[t], screen[u])
    BY <1>5 DEF LinkInv
  <2>2. QED
    BY <1>0, <1>5, <2>1 DEF Apart, Registering
<1>6. QED
  BY <1>0, <1>1, <1>3, <1>4, <1>5 DEF LinkInv

\* A step that leaves the screens and the store alone.
LEMMA RowStep ==
    ASSUME LinkInv, RowStays, UNCHANGED <<hooks, screen, made>>,
           planAllows' \in BOOLEAN, shipping' \in ConnIds \cup {Nothing}, faults' \in 0..MaxFaults
    PROVE  LinkInv'
<1>1. ConnectionTypeOK' /\ RowFacts'
  BY DEF LinkInv, ConnectionTypeOK, RowFacts, RowStays
<1>2. ASSUME NEW s \in Screens PROVE ScreenFacts(screen[s])'
  <2>1. PICK x : x = screen[s] /\ x = screen'[s]
    OBVIOUS
  <2>2. ScreenFacts(x)
    BY <2>1 DEF LinkInv
  <2>3. ScreenFacts(x)'
    BY <2>2 DEF ScreenFacts, RowStays, Connected
  <2>4. QED
    BY <2>1, <2>3
<1>3. ASSUME NEW s \in Screens, NEW t \in Screens, s # t PROVE Apart(screen[s], screen[t])'
  BY <1>3 DEF LinkInv, Apart, Registering
<1>4. QED
  BY <1>1, <1>2, <1>3 DEF LinkInv

\* What a request of a screen that ends, or fails, leaves.
LEMMA EndPut ==
    ASSUME LinkInv, NEW s \in Screens, ShowsError(s) \/ Reloads(s)
    PROVE  \E k \in Screen : /\ screen' = [screen EXCEPT ![s] = k]
                             /\ k.pc = "idle" /\ k.got = {} /\ k.conn = Nothing
<1> DEFINE j == [screen[s] EXCEPT !.pc = "idle", !.conn = Nothing, !.got = {}]
           i == [Loading EXCEPT !.manual = screen[s].manual]
<1>1. screen[s] \in Screen
  BY LinkTypes
<1>2. j \in Screen /\ j.pc = "idle" /\ j.got = {} /\ j.conn = Nothing
  BY <1>1 DEF Screen
<1>3. i \in Screen /\ i.pc = "idle" /\ i.got = {} /\ i.conn = Nothing
  BY <1>1 DEF Screen, Loading
<1>4. ShowsError(s) => screen' = [screen EXCEPT ![s] = j]
  BY DEF ShowsError
<1>5. Reloads(s) => screen' = [screen EXCEPT ![s] = i]
  BY DEF Reloads
<1>. HIDE DEF i, j
<1>6. QED
  BY <1>2, <1>3, <1>4, <1>5

\* Such a step, and the row it leaves.
LEMMA EndStep ==
    ASSUME LinkInv, NEW s \in Screens, ShowsError(s) \/ Reloads(s), RowStays,
           UNCHANGED <<hooks, made, planAllows, shipping, faults>>
    PROVE  LinkInv'
<1>1. PICK k \in Screen : screen' = [screen EXCEPT ![s] = k] /\ k.pc = "idle" /\ k.got = {}
  BY EndPut
<1>2. planAllows' \in BOOLEAN /\ shipping' \in ConnIds \cup {Nothing} /\ faults' \in 0..MaxFaults
  BY DEF LinkInv, ConnectionTypeOK
<1>3. ~Registering(k)
  BY <1>1 DEF Registering
<1>4. QED
  BY <1>1, <1>2, <1>3, OtherStep

\* The row that a screen adds is registered by that screen alone.
LEMMA CreateLink ==
    ASSUME LinkInv, NEW s \in Screens, CreateConnection(s)
    PROVE  LinkInv'
<1>0. screen[s] \in Screen /\ made \in Nat /\ made < MaxConnections /\ MaxConnections \in Nat
  BY LinkTypes DEF CreateConnection
<1>1. CASE connection # Nothing
  <2>1. ShowsError(s) /\ UNCHANGED <<connection, hooks, made, planAllows, shipping, faults>>
    BY <1>1 DEF CreateConnection
  <2>2. RowStays
    BY <1>1, <2>1 DEF RowStays, LinkInv, ConnectionTypeOK
  <2>3. QED
    BY <2>1, <2>2, EndStep
<1>2. CASE connection = Nothing
  <2>0. PICK c, k : c = made + 1 /\ k = [screen[s] EXCEPT !.pc = "hook1", !.conn = made + 1]
    OBVIOUS
  <2>1. /\ made' = c /\ screen' = [screen EXCEPT ![s] = k] /\ UNCHANGED <<hooks, planAllows, shipping, faults>>
        /\ connection' = [id |-> c, webhookIds |-> {}, status |-> "active", lastError |-> FALSE]
    BY <1>2, <2>0 DEF CreateConnection
  <2>2. c \in ConnIds /\ c \in Nat /\ c > made /\ c \in 1..c /\ 1..made \subseteq 1..c /\ c \notin 1..made
    BY <1>0, <2>0 DEF ConnIds
  <2>3. k \in Screen /\ k.pc = "hook1" /\ k.conn = c /\ k.got = {}
    <3>1. screen[s].got = {}
      BY <1>0, LinkTypes DEF CreateConnection, ScreenFacts
    <3>2. QED
      BY <1>0, <2>0, <2>2, <3>1 DEF Screen
  <2>4. /\ screen' \in [Screens -> Screen] /\ screen'[s] = k /\ \A t \in Screens \ {s} : screen'[t] = screen[t]
    BY <2>1, <2>3, ScreenPut
  <2>5. connection' \in Connection /\ connection'.id = c /\ connection'.webhookIds = {}
    BY <2>1, <2>2 DEF Connection
  <2>6. ConnectionTypeOK' /\ RowFacts'
    <3>1. made' \in 0..MaxConnections
      BY <1>0, <2>0, <2>1
    <3>2. QED
      BY <2>1, <2>2, <2>4, <2>5, <3>1 DEF LinkInv, ConnectionTypeOK, RowFacts
  <2>7. ScreenFacts(k)'
    BY <2>1, <2>2, <2>3, <2>5 DEF ScreenFacts, Registering
  <2>8. ASSUME NEW t \in Screens \ {s} PROVE ScreenFacts(screen[t])' /\ Apart(k, screen[t])' /\ Apart(screen[t], k)'
    <3>1. PICK y : y = screen[t] /\ y = screen'[t]
      BY <2>4
    <3>2. ScreenFacts(y) /\ (\A h \in y.got : h.to \in 1..made) /\ (Registering(y) => y.conn \in 1..made)
      <4>1. ScreenFacts(y)
        BY <3>1 DEF LinkInv
      <4>2. QED
        BY <4>1 DEF ScreenFacts, Registering
    <3>4. ScreenFacts(y)'
      BY <2>1, <2>2, <2>5, <3>2 DEF ScreenFacts, Registering, Connected
    <3>5. Apart(k, y)' /\ Apart(y, k)'
      BY <2>2, <2>3, <3>2 DEF Apart, Registering
    <3>6. QED
      BY <3>1, <3>4, <3>5
  <2>9. ASSUME NEW t \in Screens, NEW u \in Screens, t # u PROVE Apart(screen[t], screen[u])'
    <3>1. CASE t = s \/ u = s
      BY <2>4, <2>8, <2>9, <3>1
    <3>2. CASE t # s /\ u # s
      BY <2>4, <2>9, <3>2 DEF LinkInv, Apart, Registering
    <3>3. QED
      BY <3>1, <3>2
  <2>10. QED
    BY <2>4, <2>6, <2>7, <2>8, <2>9 DEF LinkInv
<1>3. QED
  BY <1>1, <1>2

\* A registration goes on.
LEMMA RegisterLink ==
    ASSUME LinkInv, NEW s \in Screens, RegisterHook(s)
    PROVE  LinkInv'
<1>0. screen[s] \in Screen /\ ScreenFacts(screen[s]) /\ made \in Nat /\ made <= MaxConnections /\ MaxConnections \in Nat
  BY LinkTypes
<1>1. PICK c, x : x = screen[s] /\ c = x.conn
  OBVIOUS
<1>2. x \in Screen /\ ScreenFacts(x) /\ x.pc \in {"hook1", "hook2"} /\ c \in 1..made /\ c \in ConnIds
  BY <1>0, <1>1 DEF RegisterHook, ScreenFacts, ConnIds
<1>3. PICK h, pc : /\ h = HookOf(c, IF x.pc = "hook1" THEN "order.created" ELSE "order.updated")
                   /\ pc = IF x.pc = "hook1" THEN "hook2" ELSE "save"
  OBVIOUS
<1>4. PICK k : k = [x EXCEPT !.pc = pc, !.got = @ \cup {h}]
  OBVIOUS
<1>5. /\ hooks' = hooks \cup {h} /\ screen' = [screen EXCEPT ![s] = k]
      /\ UNCHANGED <<connection, made, planAllows, shipping, faults>>
  BY <1>1, <1>3, <1>4 DEF RegisterHook, HookOf
<1>6. h \in Hook /\ h.to = c
  BY <1>2, <1>3 DEF Hook, HookOf, Topics
<1>7. k \in Screen /\ k.pc = pc /\ k.conn = c /\ k.got = x.got \cup {h}
  BY <1>1, <1>2, <1>3, <1>4, <1>6 DEF Screen
<1>8. screen' \in [Screens -> Screen] /\ screen'[s] = k /\ \A t \in Screens \ {s} : screen'[t] = screen[t]
  BY <1>5, <1>7, ScreenPut
<1>9. ConnectionTypeOK' /\ RowFacts'
  BY <1>5, <1>6, <1>8 DEF LinkInv, ConnectionTypeOK, RowFacts
<1>10. ScreenFacts(k)'
  <2>1. x.got \subseteq hooks /\ (Connected(c) => connection.webhookIds = {}) /\ \A g \in x.got : g.to \in 1..made
    BY <1>1, <1>2 DEF ScreenFacts, Registering
  <2>2. k.pc = "hook2" => k.got = {HookOf(c, "order.created")}
    BY <1>2, <1>3, <1>7 DEF ScreenFacts
  <2>3. k.pc = "save" => k.got = {HookOf(c, topic) : topic \in Topics}
    <3>1. SUFFICES ASSUME x.pc = "hook2" PROVE k.got = {HookOf(c, topic) : topic \in Topics}
      BY <1>2, <1>3, <1>7
    <3>2. k.got = {HookOf(c, "order.created"), HookOf(c, "order.updated")}
      BY <1>1, <1>2, <1>3, <1>7, <3>1 DEF ScreenFacts
    <3>3. QED
      BY <3>2 DEF Topics
  <2>4. k.pc \in {"hook2", "save"}
    BY <1>3, <1>7
  <2>5. QED
    BY <1>2, <1>5, <1>6, <1>7, <2>1, <2>2, <2>3, <2>4 DEF ScreenFacts, Registering, Connected
<1>11. ASSUME NEW t \in Screens \ {s} PROVE ScreenFacts(screen[t])' /\ Apart(k, screen[t])' /\ Apart(screen[t], k)'
  <2>1. PICK y : y = screen[t] /\ y = screen'[t]
    BY <1>8
  <2>2. ScreenFacts(y) /\ Apart(x, y) /\ Apart(y, x)
    BY <1>1, <2>1 DEF LinkInv
  <2>3. ScreenFacts(y)'
    BY <1>5, <2>2 DEF ScreenFacts, Connected
  <2>4. Apart(k, y)' /\ Apart(y, k)'
    BY <1>1, <1>2, <1>6, <1>7, <2>2 DEF Apart, Registering
  <2>5. QED
    BY <2>1, <2>3, <2>4
<1>12. ASSUME NEW t \in Screens, NEW u \in Screens, t # u PROVE Apart(screen[t], screen[u])'
  <2>1. CASE t = s \/ u = s
    BY <1>8, <1>11, <1>12, <2>1
  <2>2. CASE t # s /\ u # s
    BY <1>8, <1>12, <2>2 DEF LinkInv, Apart, Registering
  <2>3. QED
    BY <2>1, <2>2
<1>13. QED
  BY <1>8, <1>9, <1>10, <1>11, <1>12 DEF LinkInv

\* The ids are saved in the row of the screen that registered them.
LEMMA SaveLink ==
    ASSUME LinkInv, NEW s \in Screens, SaveHooks(s)
    PROVE  LinkInv'
<1>0. screen[s] \in Screen /\ ScreenFacts(screen[s]) /\ connection \in Connection \cup {Nothing}
  BY LinkTypes
<1>1. CASE ~Connected(screen[s].conn)
  <2>1. ShowsError(s) /\ UNCHANGED <<connection, hooks, made, planAllows, shipping, faults>>
    BY <1>1 DEF SaveHooks
  <2>2. RowStays
    BY <1>0, <2>1 DEF RowStays
  <2>3. QED
    BY <2>1, <2>2, EndStep
<1>2. CASE Connected(screen[s].conn)
  <2>1. PICK x : x = screen[s]
    OBVIOUS
  <2>2. /\ connection' = [connection EXCEPT !.webhookIds = x.got] /\ screen' = [screen EXCEPT ![s] = Loading]
        /\ UNCHANGED <<hooks, made, planAllows, shipping, faults>>
    BY <1>2, <2>1 DEF SaveHooks
  <2>3. connection \in Connection /\ connection.id = x.conn /\ x.pc = "save" /\ x.got \subseteq Hook
        /\ x.got = {HookOf(x.conn, topic) : topic \in Topics} /\ x.conn \in 1..made
    BY <1>0, <1>2, <2>1 DEF Connected, SaveHooks, ScreenFacts, Screen
  <2>4. connection' \in Connection /\ connection'.id = x.conn /\ connection'.webhookIds = x.got
    BY <2>2, <2>3 DEF Connection
  <2>5. \A h \in x.got : h.to = x.conn
    BY <2>3 DEF HookOf
  <2>6. Loading \in Screen /\ Loading.pc = "idle" /\ Loading.got = {}
    BY DEF Loading, Screen
  <2>7. screen' \in [Screens -> Screen] /\ screen'[s] = Loading /\ \A t \in Screens \ {s} : screen'[t] = screen[t]
    BY <2>2, <2>6, ScreenPut
  <2>8. ConnectionTypeOK' /\ RowFacts'
    BY <2>2, <2>3, <2>4, <2>5, <2>7 DEF LinkInv, ConnectionTypeOK, RowFacts
  <2>9. ScreenFacts(Loading)'
    BY <2>6 DEF ScreenFacts, Registering, Loading
  <2>10. ASSUME NEW t \in Screens \ {s} PROVE ScreenFacts(screen[t])' /\ Apart(screen[t], Loading)'
    <3>1. PICK y : y = screen[t] /\ y = screen'[t]
      BY <2>7
    <3>2. ScreenFacts(y) /\ Apart(x, y)
      BY <2>1, <3>1 DEF LinkInv
    <3>3. Registering(y) => y.conn # x.conn
      BY <2>3, <3>2 DEF Apart, Registering
    <3>4. ScreenFacts(y)'
      BY <2>2, <2>4, <3>2, <3>3 DEF ScreenFacts, Registering, Connected
    <3>5. QED
      BY <2>6, <3>1, <3>4 DEF Apart, Registering
  <2>11. ASSUME NEW t \in Screens, NEW u \in Screens, t # u PROVE Apart(screen[t], screen[u])'
    <3>1. CASE t = s
      BY <2>6, <2>7, <3>1 DEF Apart, Registering
    <3>2. CASE u = s
      BY <2>6, <2>7, <2>11, <3>2 DEF Apart, Registering
    <3>3. CASE t # s /\ u # s
      BY <2>7, <2>11, <3>3 DEF LinkInv, Apart, Registering
    <3>4. QED
      BY <3>1, <3>2, <3>3
  <2>12. QED
    BY <2>7, <2>8, <2>9, <2>10, <2>11 DEF LinkInv
<1>3. QED
  BY <1>1, <1>2

\* The row stays, or gets the outcome of a call.
LEMMA SameRow == LinkInv /\ connection' = connection => RowStays
BY DEF LinkInv, ConnectionTypeOK, RowStays

LEMMA OutcomeRow ==
    ASSUME LinkInv, NEW c, NEW works \in BOOLEAN,
           connection' = IF Connected(c) THEN WithOutcome(works) ELSE connection
    PROVE  RowStays
<1>1. CASE Connected(c)
  <2>1. connection \in Connection /\ connection # Nothing
    BY <1>1 DEF LinkInv, ConnectionTypeOK, Connected
  <2>2. QED
    BY <1>1, <2>1 DEF RowStays, WithOutcome, Connection
<1>2. QED
  BY <1>1, SameRow

\* A request moves on without registering.
LEMMA GoesStep ==
    ASSUME LinkInv, NEW s \in Screens, NEW pc, Goes(s, pc),
           \/ pc = "create" /\ screen[s].pc = "idle"
           \/ pc = "failed" /\ screen[s].pc \in {"hook1", "hook2"}
           \/ pc \in {"tested", "untested", "delete"},
           connection' = connection, UNCHANGED <<made, planAllows, shipping>>, faults' \in 0..MaxFaults,
           hooks' = hooks \/ hooks' = hooks \ screen[s].got
    PROVE  LinkInv'
<1>1. PICK k : k = [screen[s] EXCEPT !.pc = pc]
  OBVIOUS
<1>2. screen[s] \in Screen /\ ScreenFacts(screen[s])
  BY LinkTypes
<1>3. k \in Screen /\ k.pc = pc /\ k.conn = screen[s].conn /\ k.got = screen[s].got
  BY <1>1, <1>2 DEF Screen
<1>4. screen' = [screen EXCEPT ![s] = k]
  BY <1>1 DEF Goes
<1>5. ~Registering(k) /\ (k.pc \in {"idle", "create"} => k.got = {})
  BY <1>2, <1>3 DEF Registering, ScreenFacts
<1>6. k.pc = "failed" => screen[s].pc \in {"hook1", "hook2", "failed"}
  BY <1>3
<1>7. RowStays /\ planAllows' \in BOOLEAN /\ shipping' \in ConnIds \cup {Nothing}
  BY SameRow DEF LinkInv, ConnectionTypeOK
<1>8. QED
  BY <1>3, <1>4, <1>5, <1>6, <1>7, OtherStep

\* What a screen shows changes, and not its request.
LEMMA ShowStep ==
    ASSUME LinkInv, NEW s \in Screens, NEW k \in Screen, screen' = [screen EXCEPT ![s] = k],
           k.pc = screen[s].pc, k.conn = screen[s].conn, k.got = screen[s].got,
           UNCHANGED <<connection, hooks, made, planAllows, shipping, faults>>
    PROVE  LinkInv'
<1>1. ScreenFacts(screen[s])
  BY LinkTypes
<1>2. k.got \subseteq screen[s].got /\ (k.pc \in {"idle", "create"} => k.got = {})
  BY <1>1 DEF ScreenFacts
<1>3. RowStays /\ planAllows' \in BOOLEAN /\ shipping' \in ConnIds \cup {Nothing} /\ faults' \in 0..MaxFaults
  BY SameRow DEF LinkInv, ConnectionTypeOK
<1>4. QED
  BY <1>2, <1>3, OtherStep

LEMMA FaultCount == LinkInv /\ Fault => faults' \in 0..MaxFaults
BY ConnectionAssumption DEF LinkInv, ConnectionTypeOK, Fault

LEMMA ViewLink ==
    ASSUME LinkInv, NEW s \in Screens, Load(s) \/ Open(s) \/ DismissSetup(s)
    PROVE  LinkInv'
<1>0. screen[s] \in Screen /\ ScreenFacts(screen[s])
  BY LinkTypes
<1>1. CASE Load(s)
  <2>1. PICK v : v = IF ~planAllows THEN "upsell" ELSE IF connection = Nothing THEN "form" ELSE "connected"
    OBVIOUS
  <2>2. PICK k : k = [screen[s] EXCEPT !.sees = v]
    OBVIOUS
  <2>3. k \in Screen /\ k.pc = screen[s].pc /\ k.conn = screen[s].conn /\ k.got = screen[s].got
    BY <1>0, <2>1, <2>2 DEF Screen
  <2>4. screen' = [screen EXCEPT ![s] = k] /\ UNCHANGED <<connection, hooks, made, planAllows, shipping, faults>>
    BY <1>1, <2>1, <2>2 DEF Load
  <2>5. QED
    BY <2>3, <2>4, ShowStep
<1>2. CASE Open(s)
  <2>1. Loading \in Screen /\ Loading.pc = "idle" /\ Loading.got = {}
    BY DEF Loading, Screen
  <2>2. screen' = [screen EXCEPT ![s] = Loading] /\ UNCHANGED <<connection, hooks, made, planAllows, shipping, faults>>
    BY <1>2 DEF Open
  <2>3. RowStays /\ planAllows' \in BOOLEAN /\ shipping' \in ConnIds \cup {Nothing} /\ faults' \in 0..MaxFaults
    BY <2>2, SameRow DEF LinkInv, ConnectionTypeOK
  <2>4. ~Registering(Loading) /\ Loading.pc # "failed"
    BY <2>1 DEF Registering
  <2>5. QED
    BY <2>1, <2>2, <2>3, <2>4, OtherStep
<1>3. CASE DismissSetup(s)
  <2>1. PICK k : k = [screen[s] EXCEPT !.manual = FALSE]
    OBVIOUS
  <2>2. k \in Screen /\ k.pc = screen[s].pc /\ k.conn = screen[s].conn /\ k.got = screen[s].got
    BY <1>0, <2>1 DEF Screen
  <2>3. screen' = [screen EXCEPT ![s] = k] /\ UNCHANGED <<connection, hooks, made, planAllows, shipping, faults>>
    BY <1>3, <2>1 DEF DismissSetup
  <2>4. QED
    BY <2>2, <2>3, ShowStep
<1>4. QED
  BY <1>1, <1>2, <1>3

LEMMA ConnectLink ==
    ASSUME LinkInv, NEW s \in Screens, Connect(s) \/ ConnectRefused(s) \/ RegisterFails(s) \/ SaveFailure(s)
    PROVE  LinkInv'
<1>1. CASE Connect(s)
  <2>1. /\ Goes(s, "create") /\ screen[s].pc = "idle"
        /\ UNCHANGED <<connection, hooks, made, planAllows, shipping, faults>>
    BY <1>1 DEF Connect, At
  <2>2. faults' \in 0..MaxFaults
    BY <2>1 DEF LinkInv, ConnectionTypeOK
  <2>3. QED
    BY <2>1, <2>2, GoesStep
<1>2. CASE ConnectRefused(s)
  BY <1>2, SameRow, EndStep DEF ConnectRefused
<1>3. CASE RegisterFails(s)
  BY <1>3, FaultCount, GoesStep DEF RegisterFails
<1>4. CASE SaveFailure(s)
  <2>1. CASE ~Connected(screen[s].conn)
    BY <1>4, <2>1, SameRow, EndStep DEF SaveFailure
  <2>2. CASE Connected(screen[s].conn)
    <3>1. PICK k : k = [Loading EXCEPT !.manual = TRUE]
      OBVIOUS
    <3>2. k \in Screen /\ k.pc = "idle" /\ k.got = {}
      BY <3>1 DEF Loading, Screen
    <3>3. /\ screen' = [screen EXCEPT ![s] = k] /\ UNCHANGED <<hooks, made, planAllows, shipping, faults>>
          /\ connection' = [connection EXCEPT !.lastError = TRUE]
      BY <1>4, <2>2, <3>1 DEF SaveFailure
    <3>4. connection # Nothing /\ connection \in Connection
      BY <2>2 DEF Connected, LinkInv, ConnectionTypeOK
    <3>5. RowStays
      BY <3>3, <3>4 DEF RowStays, Connection
    <3>6. planAllows' \in BOOLEAN /\ shipping' \in ConnIds \cup {Nothing} /\ faults' \in 0..MaxFaults
      BY <3>3 DEF LinkInv, ConnectionTypeOK
    <3>7. ~Registering(k) /\ k.pc # "failed"
      BY <3>2 DEF Registering
    <3>8. QED
      BY <3>2, <3>3, <3>5, <3>6, <3>7, OtherStep
  <2>3. QED
    BY <2>1, <2>2
<1>5. QED
  BY <1>1, <1>2, <1>3, <1>4

LEMMA TestLink ==
    ASSUME LinkInv, NEW s \in Screens,
           TestKeys(s) \/ SaveTest(s) \/ DeleteHooks(s) \/ DeleteConnection(s)
    PROVE  LinkInv'
<1>0. faults \in 0..MaxFaults
  BY DEF LinkInv, ConnectionTypeOK
<1>1. CASE TestKeys(s)
  <2>1. PICK pc \in {"tested", "untested"} : Goes(s, pc)
    BY <1>1 DEF TestKeys
  <2>2. faults' \in 0..MaxFaults /\ UNCHANGED <<connection, hooks, made, planAllows, shipping>>
    BY <1>0, <1>1, FaultCount DEF TestKeys
  <2>3. QED
    BY <2>1, <2>2, GoesStep
<1>2. CASE SaveTest(s)
  <2>1. PICK works \in BOOLEAN : works = (screen[s].pc = "tested")
    OBVIOUS
  <2>2. RowStays
    BY <1>2, <2>1, OutcomeRow DEF SaveTest
  <2>3. QED
    BY <1>2, <2>2, EndStep DEF SaveTest
<1>3. CASE DeleteHooks(s)
  <2>1. faults' \in 0..MaxFaults
    BY <1>0, <1>3, FaultCount DEF DeleteHooks
  <2>2. QED
    BY <1>3, <2>1, GoesStep DEF DeleteHooks
<1>4. CASE DeleteConnection(s)
  <2>1. RowStays
    BY <1>4, SameRow DEF DeleteConnection, RowStays
  <2>2. QED
    BY <1>4, <2>1, EndStep DEF DeleteConnection
<1>5. QED
  BY <1>1, <1>2, <1>3, <1>4

\* A request on a connection reads the ids of its row, which no registration waits to save.
LEMMA AskLink ==
    ASSUME LinkInv, NEW s \in Screens, NEW pc \in {"test", "unhook"}, Ask(s, pc)
    PROVE  LinkInv'
<1>0. screen[s] \in Screen /\ ScreenFacts(screen[s]) /\ connection \in Connection \cup {Nothing}
  BY LinkTypes
<1>1. CASE connection = Nothing
  BY <1>1, SameRow, EndStep DEF Ask
<1>2. CASE connection # Nothing
  <2>1. PICK k : k = [screen[s] EXCEPT !.pc = pc, !.conn = connection.id, !.got = connection.webhookIds]
    OBVIOUS
  <2>2. screen' = [screen EXCEPT ![s] = k] /\ UNCHANGED <<connection, hooks, made, planAllows, shipping, faults>>
    BY <1>2, <2>1 DEF Ask
  <2>3. /\ connection \in Connection /\ connection.id \in ConnIds /\ connection.webhookIds \subseteq Hook
        /\ connection.id \in 1..made /\ \A h \in connection.webhookIds : h.to = connection.id
    BY <1>0, <1>2 DEF Connection, LinkInv, RowFacts
  <2>4. k \in Screen /\ k.pc = pc /\ k.got = connection.webhookIds
    BY <1>0, <2>1, <2>3 DEF Screen
  <2>5. ~Registering(k) /\ k.pc \notin {"idle", "create", "hook1", "hook2", "save", "failed"}
    BY <2>4 DEF Registering
  <2>6. screen' \in [Screens -> Screen] /\ screen'[s] = k /\ \A t \in Screens \ {s} : screen'[t] = screen[t]
    BY <2>2, <2>4, ScreenPut
  <2>7. ConnectionTypeOK' /\ RowFacts'
    BY <2>2, <2>6 DEF LinkInv, ConnectionTypeOK, RowFacts
  <2>8. ScreenFacts(k)'
    BY <2>2, <2>3, <2>4, <2>5 DEF ScreenFacts
  <2>9. ASSUME NEW t \in Screens \ {s} PROVE ScreenFacts(screen[t])' /\ Apart(screen[t], k)'
    <3>1. PICK y : y = screen[t] /\ y = screen'[t]
      BY <2>6
    <3>2. ScreenFacts(y)
      BY <3>1 DEF LinkInv
    <3>3. ScreenFacts(y)'
      BY <2>2, <3>2 DEF ScreenFacts, Connected
    <3>4. Apart(y, k)
      BY <1>2, <2>3, <2>4, <2>5, <3>2 DEF Apart, ScreenFacts, Connected
    <3>5. QED
      BY <3>1, <3>3, <3>4 DEF Apart
  <2>10. ASSUME NEW t \in Screens, NEW u \in Screens, t # u PROVE Apart(screen[t], screen[u])'
    <3>1. CASE t = s
      BY <2>5, <2>6, <3>1 DEF Apart
    <3>2. CASE u = s
      BY <2>6, <2>9, <2>10, <3>2
    <3>3. CASE t # s /\ u # s
      BY <2>6, <2>10, <3>3 DEF LinkInv, Apart, Registering
    <3>4. QED
      BY <3>1, <3>2, <3>3
  <2>11. QED
    BY <2>6, <2>7, <2>8, <2>9, <2>10 DEF LinkInv
<1>3. QED
  BY <1>1, <1>2

\* The brand adds a webhook.
LEMMA AddLink ==
    ASSUME LinkInv, NEW s \in Screens, NEW topic \in Topics, AddByHand(s, topic)
    PROVE  LinkInv'
<1>1. PICK h : h = HookOf(connection.id, topic)
  OBVIOUS
<1>2. hooks' = hooks \cup {h} /\ UNCHANGED <<connection, screen, made, planAllows, shipping, faults>>
  BY <1>1 DEF AddByHand, HookOf
<1>3. connection # Nothing /\ connection \in Connection
  BY DEF AddByHand, LinkInv, ConnectionTypeOK
<1>4. h \in Hook
  BY <1>1, <1>3 DEF Hook, HookOf, Connection
<1>5. ConnectionTypeOK' /\ RowFacts'
  BY <1>2, <1>4 DEF LinkInv, ConnectionTypeOK, RowFacts
<1>6. ASSUME NEW t \in Screens PROVE ScreenFacts(screen[t])'
  <2>1. PICK y : y = screen[t] /\ y = screen'[t]
    BY <1>2
  <2>2. ScreenFacts(y)
    BY <2>1 DEF LinkInv
  <2>3. ScreenFacts(y)'
    BY <1>2, <2>2 DEF ScreenFacts, Connected
  <2>4. QED
    BY <2>1, <2>3
<1>7. ASSUME NEW t \in Screens, NEW u \in Screens, t # u PROVE Apart(screen[t], screen[u])'
  BY <1>2, <1>7 DEF LinkInv, Apart, Registering
<1>8. QED
  BY <1>5, <1>6, <1>7 DEF LinkInv

\* The server stops.
LEMMA StopLink == ASSUME LinkInv, StopServer PROVE LinkInv'
<1>1. PICK new : /\ new = [s \in Screens |-> IF screen[s].pc = "idle" THEN screen[s]
                               ELSE [screen[s] EXCEPT !.pc = "idle", !.conn = Nothing, !.got = {}]]
                 /\ screen' = new
  BY DEF StopServer
<1>2. ASSUME NEW s \in Screens
      PROVE  new[s] \in Screen /\ new[s].pc = "idle" /\ new[s].got = {}
  <2>1. screen[s] \in Screen /\ ScreenFacts(screen[s])
    BY LinkTypes
  <2>2. CASE screen[s].pc = "idle"
    BY <1>1, <2>1, <2>2 DEF ScreenFacts
  <2>3. CASE screen[s].pc # "idle"
    <3>1. new[s] = [screen[s] EXCEPT !.pc = "idle", !.conn = Nothing, !.got = {}]
      BY <1>1, <2>3
    <3>2. QED
      BY <2>1, <3>1 DEF Screen
  <2>4. QED
    BY <2>2, <2>3
<1>3. new \in [Screens -> Screen]
  BY <1>1, <1>2
<1>4. faults' \in 0..MaxFaults /\ UNCHANGED <<connection, hooks, made, planAllows>> /\ shipping' = Nothing
  BY FaultCount DEF StopServer
<1>5. ConnectionTypeOK' /\ RowFacts'
  BY <1>1, <1>3, <1>4 DEF LinkInv, ConnectionTypeOK, RowFacts
<1>6. ASSUME NEW s \in Screens PROVE ScreenFacts(new[s])'
  <2>1. PICK y : y = new[s] /\ y.pc = "idle" /\ y.got = {}
    BY <1>2
  <2>2. ScreenFacts(y)'
    BY <2>1 DEF ScreenFacts, Registering
  <2>3. QED
    BY <2>1, <2>2
<1>7. ASSUME NEW s \in Screens, NEW t \in Screens PROVE Apart(new[s], new[t])'
  BY <1>2 DEF Apart, Registering
<1>8. QED
  BY <1>1, <1>5, <1>6, <1>7 DEF LinkInv

LEMMA LinkStep == ASSUME LinkInv, [ConnectionNext]_connectionVars PROVE LinkInv'
<1>0. /\ planAllows \in BOOLEAN /\ shipping \in ConnIds \cup {Nothing} /\ faults \in 0..MaxFaults
      /\ connection \in Connection \cup {Nothing}
  BY DEF LinkInv, ConnectionTypeOK
<1>1. ASSUME NEW s \in Screens,
             \/ Load(s) \/ Open(s) \/ Connect(s) \/ ConnectRefused(s)
             \/ CreateConnection(s) \/ RegisterHook(s) \/ RegisterFails(s) \/ SaveFailure(s) \/ SaveHooks(s)
             \/ DismissSetup(s) \/ Ask(s, "test") \/ TestKeys(s) \/ SaveTest(s)
             \/ Ask(s, "unhook") \/ DeleteHooks(s) \/ DeleteConnection(s)
      PROVE  LinkInv'
  BY <1>1, ViewLink, ConnectLink, CreateLink, RegisterLink, SaveLink, AskLink, TestLink
<1>2. ASSUME NEW s \in Screens, NEW topic \in Topics, AddByHand(s, topic) PROVE LinkInv'
  BY <1>2, AddLink
<1>3. CASE OrderShips
  <2>1. shipping' \in ConnIds
    BY <1>0, <1>3 DEF OrderShips, Connection
  <2>2. QED
    BY <1>0, <1>3, <2>1, SameRow, RowStep DEF OrderShips
<1>4. CASE PushTracking
  <2>1. PICK works \in BOOLEAN : /\ IF works THEN UNCHANGED faults ELSE Fault
                                 /\ connection' = IF Connected(shipping) THEN WithOutcome(works) ELSE connection
    BY <1>4 DEF PushTracking
  <2>2. RowStays
    BY <2>1, OutcomeRow
  <2>3. faults' \in 0..MaxFaults
    BY <1>0, <2>1, FaultCount
  <2>4. QED
    BY <1>0, <1>4, <2>2, <2>3, RowStep DEF PushTracking
<1>5. CASE PlanChanges
  BY <1>0, <1>5, SameRow, RowStep DEF PlanChanges
<1>6. CASE UNCHANGED connectionVars
  BY <1>0, <1>6, SameRow, RowStep DEF connectionVars
<1>7. QED
  BY <1>1, <1>2, <1>3, <1>4, <1>5, <1>6, StopLink DEF ConnectionNext

LEMMA LinkInit == ConnectionInit => LinkInv
<1>1. SUFFICES ASSUME ConnectionInit PROVE LinkInv
  OBVIOUS
<1>2. Loading \in Screen /\ Loading.pc = "idle" /\ Loading.got = {}
  BY DEF Loading, Screen
<1>3. ConnectionTypeOK /\ RowFacts
  BY <1>1, <1>2, ConnectionAssumption DEF ConnectionInit, ConnectionTypeOK, RowFacts
<1>4. ScreenFacts(Loading) /\ Apart(Loading, Loading)
  BY <1>2 DEF ScreenFacts, Apart, Registering
<1>5. QED
  BY <1>1, <1>3, <1>4 DEF LinkInv, ConnectionInit

(* One screen at a time, and no call fails. *)

RowKept ==
    \/ connection' = connection
    \/ /\ connection # Nothing /\ connection' # Nothing
       /\ connection'.id = connection.id /\ connection'.webhookIds = connection.webhookIds

Tidy(x) ==
    /\ x.pc \notin {"failed", "untested"} /\ ~x.manual
    /\ Registering(x) => Connected(x.conn)
    /\ x.pc = "unhook" /\ connection # Nothing => x.got = connection.webhookIds
    /\ x.pc = "delete" => hooks = {}

\* Every webhook at the store is in the row, or about to be.
Accounted(h) == Connected(h.to) /\ (h \in connection.webhookIds \/ \E s \in Screens : Registering(screen[s]) /\ h \in screen[s].got)

AllTidy == (\A h \in hooks : Accounted(h)) /\ \A s \in Screens : Tidy(screen[s])

Single == \A s, t \in Screens : screen[s].pc # "idle" /\ screen[t].pc # "idle" => s = t

LEMMA KeptOutcome ==
    ASSUME LinkInv, NEW c, NEW works \in BOOLEAN,
           connection' = IF Connected(c) THEN WithOutcome(works) ELSE connection
    PROVE  RowKept
<1>1. CASE Connected(c)
  <2>1. connection \in Connection /\ connection # Nothing
    BY <1>1 DEF LinkInv, ConnectionTypeOK, Connected
  <2>2. WithOutcome(works) \in Connection /\ WithOutcome(works).id = connection.id
        /\ WithOutcome(works).webhookIds = connection.webhookIds
    BY <2>1 DEF WithOutcome, Connection
  <2>3. QED
    BY <1>1, <2>1, <2>2, RowAssumption DEF RowKept
<1>2. QED
  BY <1>1 DEF RowKept

\* Steps that register and take back nothing.
LEMMA TidyStep ==
    ASSUME LinkInv, AllTidy, NEW s \in Screens, NEW k \in Screen, screen' = [screen EXCEPT ![s] = k],
           RowKept, hooks' = hooks, ~Registering(screen[s]), ~Registering(k), Tidy(k)
    PROVE  AllTidy'
<1>1. screen' \in [Screens -> Screen] /\ screen'[s] = k /\ \A t \in Screens \ {s} : screen'[t] = screen[t]
  BY ScreenPut
<1>2. ASSUME NEW x, Tidy(x) PROVE Tidy(x)'
  BY <1>2 DEF Tidy, RowKept, Connected, Registering
<1>3. ASSUME NEW t \in Screens PROVE Tidy(screen[t])'
  <2>1. PICK y : y = screen'[t] /\ Tidy(y)
    BY <1>1 DEF AllTidy
  <2>2. QED
    BY <1>2, <2>1
<1>4. ASSUME NEW h \in hooks PROVE Accounted(h)'
  <2>1. Accounted(h)
    BY <1>4 DEF AllTidy
  <2>2. CASE h \in connection.webhookIds
    BY <2>1, <2>2 DEF Accounted, RowKept, Connected
  <2>3. CASE h \notin connection.webhookIds
    <3>1. PICK t \in Screens : Registering(screen[t]) /\ h \in screen[t].got
      BY <2>1, <2>3 DEF Accounted
    <3>2. t # s /\ screen'[t] = screen[t]
      BY <1>1, <3>1
    <3>3. Registering(screen[t])' /\ h \in screen'[t].got
      BY <3>1, <3>2 DEF Registering
    <3>4. Connected(h.to)'
      BY <2>1 DEF Accounted, RowKept, Connected
    <3>5. QED
      BY <3>3, <3>4 DEF Accounted
  <2>4. QED
    BY <2>2, <2>3
<1>5. QED
  BY <1>3, <1>4 DEF AllTidy

LEMMA TidyRow ==
    ASSUME LinkInv, AllTidy, RowKept, UNCHANGED <<hooks, screen>>
    PROVE  AllTidy'
<1>1. ASSUME NEW t \in Screens PROVE Tidy(screen[t])'
  <2>1. PICK y : y = screen[t] /\ y = screen'[t] /\ Tidy(y)
    BY DEF AllTidy
  <2>2. Tidy(y)'
    BY <2>1 DEF Tidy, RowKept, Connected, Registering
  <2>3. QED
    BY <2>1, <2>2
<1>2. ASSUME NEW h \in hooks PROVE Accounted(h)'
  <2>1. Accounted(h)
    BY <1>2 DEF AllTidy
  <2>2. QED
    BY <2>1 DEF Accounted, RowKept, Connected, Registering
<1>3. QED
  BY <1>1, <1>2 DEF AllTidy

LEMMA TidyEnd ==
    ASSUME LinkInv, AllTidy, NEW s \in Screens, ShowsError(s) \/ Reloads(s),
           RowKept, hooks' = hooks, ~Registering(screen[s])
    PROVE  AllTidy'
<1>1. PICK k \in Screen : /\ screen' = [screen EXCEPT ![s] = k] /\ k.pc = "idle" /\ k.manual = screen[s].manual
  <2> DEFINE j == [screen[s] EXCEPT !.pc = "idle", !.conn = Nothing, !.got = {}]
             i == [Loading EXCEPT !.manual = screen[s].manual]
  <2>1. screen[s] \in Screen
    BY LinkTypes
  <2>2. j \in Screen /\ j.pc = "idle" /\ j.manual = screen[s].manual
    BY <2>1 DEF Screen
  <2>3. i \in Screen /\ i.pc = "idle" /\ i.manual = screen[s].manual
    BY <2>1 DEF Screen, Loading
  <2>4. screen' = [screen EXCEPT ![s] = j] \/ screen' = [screen EXCEPT ![s] = i]
    BY DEF ShowsError, Reloads
  <2>. HIDE DEF i, j
  <2>5. QED
    BY <2>2, <2>3, <2>4
<1>2. Tidy(k) /\ ~Registering(k)
  BY <1>1 DEF AllTidy, Tidy, Registering
<1>3. QED
  BY <1>1, <1>2, TidyStep

LEMMA NoFault == LinkInv /\ Fault => faults' # 0
BY DEF LinkInv, ConnectionTypeOK, Fault

\* What a screen asks for, and what it shows.
LEMMA TidyAsk ==
    ASSUME LinkInv, AllTidy, NEW s \in Screens,
           Load(s) \/ Open(s) \/ Connect(s) \/ ConnectRefused(s) \/ DismissSetup(s) \/ Ask(s, "test") \/ Ask(s, "unhook")
    PROVE  AllTidy'
<1>0. screen[s] \in Screen /\ Tidy(screen[s]) /\ connection \in Connection \cup {Nothing}
  BY LinkTypes DEF AllTidy
<1>1. UNCHANGED <<connection, hooks, faults>> /\ RowKept
  BY DEF Load, Open, Connect, ConnectRefused, DismissSetup, Ask, RowKept
<1>2. CASE ShowsError(s) /\ screen[s].pc = "idle"
  BY <1>1, <1>2, TidyEnd DEF Registering
<1>3. CASE Reloads(s) /\ screen[s].pc = "idle"
  BY <1>1, <1>3, TidyEnd DEF Registering
<1>4. ASSUME NEW k \in Screen, screen' = [screen EXCEPT ![s] = k], ~k.manual,
             \/ k.pc = screen[s].pc /\ k.conn = screen[s].conn /\ k.got = screen[s].got
             \/ k.pc \in {"idle", "create", "test"}
             \/ k.pc = "unhook" /\ k.got = connection.webhookIds,
             screen[s].pc = "idle"
      PROVE  AllTidy'
  <2>1. ~Registering(screen[s]) /\ ~Registering(k) /\ Tidy(k)
    BY <1>0, <1>4 DEF Tidy, Registering
  <2>2. QED
    BY <1>1, <1>4, <2>1, TidyStep
<1>5. CASE Load(s)
  <2>1. PICK v \in {"loading", "upsell", "form", "connected"} : screen' = [screen EXCEPT ![s].sees = v]
    BY <1>5 DEF Load
  <2>2. PICK k : k = [screen[s] EXCEPT !.sees = v]
    OBVIOUS
  <2>3. k \in Screen /\ k.pc = "idle" /\ ~k.manual /\ screen[s].pc = "idle"
    BY <1>0, <1>5, <2>2 DEF Screen, Tidy, Load, At
  <2>4. QED
    BY <1>4, <2>1, <2>2, <2>3
<1>6. CASE Open(s)
  <2>1. Loading \in Screen /\ Loading.pc = "idle" /\ ~Loading.manual
    BY DEF Loading, Screen
  <2>2. QED
    BY <1>4, <1>6, <2>1 DEF Open
<1>7. CASE Connect(s)
  <2>1. PICK k : k = [screen[s] EXCEPT !.pc = "create"]
    OBVIOUS
  <2>2. k \in Screen /\ k.pc = "create" /\ ~k.manual /\ screen[s].pc = "idle"
    BY <1>0, <1>7, <2>1 DEF Screen, Tidy, Connect, At
  <2>3. QED
    BY <1>4, <1>7, <2>1, <2>2 DEF Connect, Goes
<1>8. ASSUME NEW pc \in {"test", "unhook"}, Ask(s, pc), connection # Nothing PROVE AllTidy'
  <2>1. PICK k : k = [screen[s] EXCEPT !.pc = pc, !.conn = connection.id, !.got = connection.webhookIds]
    OBVIOUS
  <2>2. connection.id \in ConnIds /\ connection.webhookIds \subseteq Hook
    BY <1>0, <1>8 DEF Connection
  <2>3. k \in Screen /\ k.pc = pc /\ ~k.manual /\ screen[s].pc = "idle" /\ k.got = connection.webhookIds
    BY <1>0, <1>8, <2>1, <2>2 DEF Screen, Tidy, Ask, At
  <2>4. screen' = [screen EXCEPT ![s] = k]
    BY <1>8, <2>1 DEF Ask
  <2>5. QED
    BY <1>4, <2>3, <2>4
<1>9. QED
  <2>1. CASE DismissSetup(s)
    BY <1>0, <2>1 DEF DismissSetup, Tidy
  <2>2. CASE ConnectRefused(s)
    BY <1>2, <2>2 DEF ConnectRefused, At
  <2>3. CASE Ask(s, "test") \/ Ask(s, "unhook")
    BY <1>3, <1>8, <2>3 DEF Ask, At
  <2>4. QED
    BY <1>5, <1>6, <1>7, <2>1, <2>2, <2>3

\* A connection is made when none is left of another; the one screen registers its webhooks,
LEMMA TidyConnect ==
    ASSUME LinkInv, AllTidy, Single, NEW s \in Screens, CreateConnection(s) \/ RegisterHook(s) \/ SaveHooks(s)
    PROVE  AllTidy'
<1>0. screen[s] \in Screen /\ ScreenFacts(screen[s]) /\ Tidy(screen[s]) /\ connection \in Connection \cup {Nothing}
      /\ made \in Nat /\ made <= MaxConnections /\ MaxConnections \in Nat
  BY LinkTypes DEF AllTidy
<1>1. ASSUME NEW t \in Screens \ {s}, NEW k \in Screen, screen' = [screen EXCEPT ![s] = k] PROVE Tidy(screen[t])'
  <2>1. PICK y : y = screen[t] /\ y = screen'[t]
    BY <1>1, ScreenPut
  <2>2. y.pc = "idle" /\ ~y.manual
    BY <2>1 DEF Single, CreateConnection, RegisterHook, SaveHooks, AllTidy, Tidy
  <2>3. Tidy(y)'
    BY <2>2 DEF Tidy, Registering
  <2>4. QED
    BY <2>1, <2>3
<1>2. CASE CreateConnection(s) /\ connection # Nothing
  BY <1>2, TidyEnd DEF CreateConnection, RowKept, Registering
<1>3. CASE CreateConnection(s) /\ connection = Nothing
  <2>1. PICK c, k : c = made + 1 /\ k = [screen[s] EXCEPT !.pc = "hook1", !.conn = made + 1]
    OBVIOUS
  <2>2. /\ screen' = [screen EXCEPT ![s] = k] /\ hooks' = hooks
        /\ connection' = [id |-> c, webhookIds |-> {}, status |-> "active", lastError |-> FALSE]
    BY <1>3, <2>1 DEF CreateConnection
  <2>3. c \in ConnIds
    BY <1>0, <1>3, <2>1 DEF CreateConnection, ConnIds
  <2>4. k \in Screen /\ k.pc = "hook1" /\ k.conn = c /\ ~k.manual
    BY <1>0, <2>1, <2>3 DEF Screen, Tidy
  <2>5. connection' \in Connection /\ connection'.id = c
    BY <2>2, <2>3 DEF Connection
  <2>6. Tidy(k)'
    BY <2>4, <2>5, RowAssumption DEF Tidy, Registering, Connected
  <2>7. hooks' = {}
    BY <1>3, <2>2 DEF AllTidy, Accounted, Connected
  <2>8. screen'[s] = k
    BY <2>2, <2>4, ScreenPut
  <2>9. QED
    BY <1>1, <2>2, <2>4, <2>6, <2>7, <2>8 DEF AllTidy
<1>4. CASE RegisterHook(s)
  <2>1. PICK x, h, k : /\ x = screen[s]
                       /\ h = HookOf(x.conn, IF x.pc = "hook1" THEN "order.created" ELSE "order.updated")
                       /\ k = [x EXCEPT !.pc = IF x.pc = "hook1" THEN "hook2" ELSE "save", !.got = @ \cup {h}]
    OBVIOUS
  <2>2. screen' = [screen EXCEPT ![s] = k] /\ hooks' = hooks \cup {h} /\ connection' = connection
    BY <1>4, <2>1 DEF RegisterHook, HookOf
  <2>3. x.conn \in ConnIds /\ Connected(x.conn) /\ ~x.manual
    BY <1>0, <1>4, <2>1 DEF RegisterHook, ScreenFacts, ConnIds, Tidy, Registering
  <2>4. h \in Hook /\ h.to = x.conn
    BY <2>1, <2>3 DEF Hook, HookOf, Topics
  <2>5. k \in Screen /\ k.pc \in {"hook2", "save"} /\ k.conn = x.conn /\ ~k.manual /\ k.got = x.got \cup {h}
    BY <1>0, <2>1, <2>3, <2>4 DEF Screen
  <2>6. Tidy(k)'
    BY <2>2, <2>3, <2>5 DEF Tidy, Registering, Connected
  <2>7. screen'[s] = k /\ \A t \in Screens \ {s} : screen'[t] = screen[t]
    BY <2>2, <2>5, ScreenPut
  <2>8. ASSUME NEW g \in hooks' PROVE Accounted(g)'
    <3>1. Registering(screen[s])'
      BY <2>5, <2>7 DEF Registering
    <3>2. CASE g = h
      BY <2>2, <2>3, <2>4, <2>5, <2>7, <3>1, <3>2 DEF Accounted, Connected
    <3>3. CASE g \in hooks
      <4>1. Accounted(g)
        BY <3>3 DEF AllTidy
      <4>2. Connected(g.to)'
        BY <2>2, <4>1 DEF Accounted, Connected
      <4>3. CASE g \in connection.webhookIds
        BY <2>2, <4>2, <4>3 DEF Accounted
      <4>4. CASE g \notin connection.webhookIds
        <5>1. PICK t \in Screens : Registering(screen[t]) /\ g \in screen[t].got
          BY <4>1, <4>4 DEF Accounted
        <5>2. t = s
          BY <1>4, <5>1 DEF Single, RegisterHook, Registering
        <5>3. g \in screen'[s].got
          BY <2>1, <2>5, <2>7, <5>1, <5>2
        <5>4. QED
          BY <3>1, <4>2, <5>3 DEF Accounted
      <4>5. QED
        BY <4>3, <4>4
    <3>4. QED
      BY <2>2, <3>2, <3>3
  <2>9. QED
    BY <1>1, <2>2, <2>5, <2>6, <2>7, <2>8 DEF AllTidy
<1>5. CASE SaveHooks(s)
  <2>1. PICK x : x = screen[s]
    OBVIOUS
  <2>2. Connected(x.conn) /\ connection \in Connection /\ x.got \subseteq Hook /\ connection.webhookIds = {}
    BY <1>0, <1>5, <2>1 DEF SaveHooks, Tidy, Registering, Connected, ScreenFacts, Screen
  <2>3. /\ connection' = [connection EXCEPT !.webhookIds = x.got] /\ screen' = [screen EXCEPT ![s] = Loading]
        /\ hooks' = hooks
    BY <1>5, <2>1, <2>2 DEF SaveHooks
  <2>4. connection' \in Connection /\ connection'.id = x.conn /\ connection'.webhookIds = x.got
    BY <2>2, <2>3 DEF Connection, Connected
  <2>5. Loading \in Screen /\ Loading.pc = "idle" /\ ~Loading.manual
    BY DEF Loading, Screen
  <2>6. Tidy(Loading)' /\ screen'[s] = Loading
    BY <2>3, <2>5, ScreenPut DEF Tidy, Registering, Loading
  <2>7. ASSUME NEW g \in hooks PROVE Accounted(g)'
    <3>1. Accounted(g)
      BY <2>7 DEF AllTidy
    <3>2. PICK t \in Screens : Registering(screen[t]) /\ g \in screen[t].got
      BY <2>2, <3>1 DEF Accounted
    <3>3. t = s
      BY <1>5, <3>2 DEF Single, SaveHooks, Registering
    <3>4. g \in x.got /\ g.to = x.conn
      BY <2>1, <2>2, <3>1, <3>2, <3>3 DEF Accounted, Connected
    <3>5. QED
      BY <2>4, <3>4, RowAssumption DEF Accounted, Connected
  <2>8. QED
    BY <1>1, <2>3, <2>5, <2>6, <2>7 DEF AllTidy
<1>6. QED
  BY <1>2, <1>3, <1>4, <1>5

\* and takes all of them back before the row goes.
LEMMA TidyDisconnect ==
    ASSUME LinkInv, AllTidy, Single, NEW s \in Screens, faults' = 0,
           TestKeys(s) \/ SaveTest(s) \/ DeleteHooks(s) \/ DeleteConnection(s)
    PROVE  AllTidy'
<1>0. screen[s] \in Screen /\ Tidy(screen[s]) /\ connection \in Connection \cup {Nothing}
  BY LinkTypes DEF AllTidy
<1>1. CASE TestKeys(s)
  <2>1. PICK k : k = [screen[s] EXCEPT !.pc = "tested"]
    OBVIOUS
  <2>2. k \in Screen /\ k.pc = "tested" /\ ~k.manual
    BY <1>0, <2>1 DEF Screen, Tidy
  <2>3. screen' = [screen EXCEPT ![s] = k] /\ RowKept /\ hooks' = hooks
    BY <1>1, <2>1, NoFault DEF TestKeys, Goes, RowKept
  <2>4. ~Registering(screen[s]) /\ ~Registering(k) /\ Tidy(k)
    BY <1>1, <2>2 DEF TestKeys, Tidy, Registering
  <2>5. QED
    BY <2>2, <2>3, <2>4, TidyStep
<1>2. CASE SaveTest(s)
  <2>1. PICK works \in BOOLEAN : works = (screen[s].pc = "tested")
    OBVIOUS
  <2>2. RowKept
    BY <1>2, <2>1, KeptOutcome DEF SaveTest
  <2>3. QED
    BY <1>2, <2>2, TidyEnd DEF SaveTest, Registering
<1>3. CASE DeleteHooks(s)
  <2>1. PICK x : x = screen[s]
    OBVIOUS
  <2>2. hooks' = hooks \ x.got /\ connection' = connection
    BY <1>3, <2>1, NoFault DEF DeleteHooks
  <2>3. ASSUME NEW h \in hooks PROVE h \in x.got
    <3>1. Accounted(h)
      BY <2>3 DEF AllTidy
    <3>2. \A t \in Screens : ~Registering(screen[t])
      BY <1>3 DEF DeleteHooks, Single, Registering
    <3>3. h \in connection.webhookIds /\ connection # Nothing
      BY <3>1, <3>2 DEF Accounted, Connected
    <3>4. QED
      BY <1>0, <1>3, <2>1, <3>3 DEF DeleteHooks, Tidy
  <2>4. hooks' = {}
    BY <2>2, <2>3
  <2>5. PICK k : k = [x EXCEPT !.pc = "delete"]
    OBVIOUS
  <2>6. k \in Screen /\ k.pc = "delete" /\ ~k.manual /\ screen' = [screen EXCEPT ![s] = k]
    BY <1>0, <1>3, <2>1, <2>5 DEF Screen, Tidy, DeleteHooks, Goes
  <2>7. screen'[s] = k /\ \A t \in Screens \ {s} : screen'[t] = screen[t]
    BY <2>6, ScreenPut
  <2>8. Tidy(k)'
    BY <2>4, <2>6 DEF Tidy, Registering
  <2>9. ASSUME NEW t \in Screens \ {s} PROVE Tidy(screen[t])'
    <3>1. PICK y : y = screen[t] /\ y = screen'[t]
      BY <2>7
    <3>2. y.pc = "idle" /\ ~y.manual
      BY <1>3, <3>1 DEF Single, DeleteHooks, AllTidy, Tidy
    <3>3. Tidy(y)'
      BY <3>2 DEF Tidy, Registering
    <3>4. QED
      BY <3>1, <3>3
  <2>10. QED
    BY <2>4, <2>7, <2>8, <2>9 DEF AllTidy
<1>4. CASE DeleteConnection(s)
  <2>1. hooks' = {}
    BY <1>0, <1>4 DEF DeleteConnection, Tidy
  <2>2. PICK k : k = [Loading EXCEPT !.manual = screen[s].manual]
    OBVIOUS
  <2>3. k \in Screen /\ k.pc = "idle" /\ ~k.manual /\ screen' = [screen EXCEPT ![s] = k]
    BY <1>0, <1>4, <2>2 DEF Screen, Loading, Tidy, DeleteConnection, Reloads
  <2>4. screen'[s] = k /\ \A t \in Screens \ {s} : screen'[t] = screen[t]
    BY <2>3, ScreenPut
  <2>5. ASSUME NEW t \in Screens PROVE Tidy(screen[t])'
    <3>1. PICK y : y = screen'[t] /\ y.pc = "idle" /\ ~y.manual
      BY <1>4, <2>3, <2>4 DEF Single, DeleteConnection, AllTidy, Tidy
    <3>2. Tidy(y)'
      BY <3>1 DEF Tidy, Registering
    <3>3. QED
      BY <3>1, <3>2
  <2>6. QED
    BY <2>1, <2>5 DEF AllTidy
<1>5. QED
  BY <1>1, <1>2, <1>3, <1>4

LEMMA TidyMove ==
    ASSUME LinkInv, AllTidy, Single, ConnectionNext, faults' = 0
    PROVE  AllTidy'
<1>1. ASSUME NEW s \in Screens,
             \/ Load(s) \/ Open(s) \/ Connect(s) \/ ConnectRefused(s)
             \/ CreateConnection(s) \/ RegisterHook(s) \/ RegisterFails(s) \/ SaveFailure(s) \/ SaveHooks(s)
             \/ DismissSetup(s) \/ Ask(s, "test") \/ TestKeys(s) \/ SaveTest(s)
             \/ Ask(s, "unhook") \/ DeleteHooks(s) \/ DeleteConnection(s)
      PROVE  AllTidy'
  <2>1. ~RegisterFails(s)
    BY NoFault DEF RegisterFails
  <2>2. ~SaveFailure(s)
    BY DEF AllTidy, Tidy, SaveFailure
  <2>3. QED
    BY <1>1, <2>1, <2>2, TidyAsk, TidyConnect, TidyDisconnect
<1>2. ASSUME NEW s \in Screens, NEW topic \in Topics, AddByHand(s, topic) PROVE AllTidy'
  BY <1>2 DEF AllTidy, Tidy, AddByHand
<1>3. CASE OrderShips \/ PlanChanges
  <2>1. RowKept /\ UNCHANGED <<hooks, screen>>
    BY <1>3 DEF OrderShips, PlanChanges, RowKept
  <2>2. QED
    BY <2>1, TidyRow
<1>4. CASE PushTracking
  <2>1. RowKept
    BY <1>4, KeptOutcome DEF PushTracking
  <2>2. QED
    BY <1>4, <2>1, TidyRow DEF PushTracking
<1>5. CASE StopServer
  BY <1>5, NoFault DEF StopServer
<1>6. QED
  BY <1>1, <1>2, <1>3, <1>4, <1>5 DEF ConnectionNext

\* Only the request that has both webhooks at the store puts ids in a row.
LEMMA SavedStep ==
    ASSUME LinkInv, [ConnectionNext]_connectionVars,
           connection # Nothing, connection' # Nothing, connection.webhookIds = {}, connection'.webhookIds # {}
    PROVE  \A topic \in Topics : [to |-> connection'.id, topic |-> topic] \in hooks'
<1>1. ASSUME NEW s \in Screens, SaveHooks(s)
      PROVE  \A topic \in Topics : HookOf(connection'.id, topic) \in hooks'
  <2>1. ScreenFacts(screen[s]) /\ connection \in Connection
    BY LinkTypes
  <2>2. Connected(screen[s].conn)
    BY <1>1 DEF SaveHooks
  <2>3. connection'.id = screen[s].conn /\ hooks' = hooks
    BY <1>1, <2>1, <2>2 DEF SaveHooks, Connected, Connection
  <2>4. HookOf(screen[s].conn, "order.created") \in hooks /\ HookOf(screen[s].conn, "order.updated") \in hooks
    BY <1>1, <2>1 DEF SaveHooks, ScreenFacts, Registering, Topics
  <2>5. QED
    BY <2>3, <2>4 DEF Topics
<1>2. ASSUME RowKept PROVE FALSE
  BY <1>2 DEF RowKept
<1>3. connection \in Connection
  BY DEF LinkInv, ConnectionTypeOK
<1>4. ASSUME NEW s \in Screens,
             \/ Load(s) \/ Open(s) \/ Connect(s) \/ ConnectRefused(s)
             \/ CreateConnection(s) \/ RegisterHook(s) \/ RegisterFails(s)
             \/ DismissSetup(s) \/ Ask(s, "test") \/ TestKeys(s) 
             \/ Ask(s, "unhook") \/ DeleteHooks(s) \/ DeleteConnection(s)
      PROVE  RowKept
  BY <1>4 DEF Load, Open, Connect, ConnectRefused, CreateConnection, RegisterHook, RegisterFails,
              DismissSetup, Ask, TestKeys, DeleteHooks, DeleteConnection, RowKept
<1>5. ASSUME NEW s \in Screens, SaveFailure(s) PROVE RowKept
  <2>1. connection' = connection \/ connection' = [connection EXCEPT !.lastError = TRUE]
    BY <1>5 DEF SaveFailure
  <2>2. QED
    BY <1>3, <2>1 DEF RowKept, Connection
<1>6. ASSUME NEW s \in Screens, SaveTest(s) PROVE RowKept
  <2>1. PICK works \in BOOLEAN : works = (screen[s].pc = "tested")
    OBVIOUS
  <2>2. QED
    BY <1>6, <2>1, KeptOutcome DEF SaveTest
<1>7. PushTracking => RowKept
  BY KeptOutcome DEF PushTracking
<1>8. (\E s \in Screens, topic \in Topics : AddByHand(s, topic)) \/ OrderShips \/ StopServer \/ PlanChanges
         \/ UNCHANGED connectionVars => RowKept
  BY DEF AddByHand, OrderShips, StopServer, PlanChanges, connectionVars, RowKept
<1>9. PICK s \in Screens : SaveHooks(s)
  BY <1>2, <1>4, <1>5, <1>6, <1>7, <1>8 DEF ConnectionNext
<1>10. QED
  BY <1>1, <1>9 DEF HookOf

(* The composition. *)

ConnInv == LinkInv /\ (In({"screen"}) => Single /\ (faults = 0 => AllTidy))

LEMMA ConnInvInit == MCInit => ConnInv
<1>1. SUFFICES ASSUME MCInit PROVE ConnInv
  OBVIOUS
<1>2. ConnectionInit
  BY <1>1 DEF MCInit
<1>3. Loading.pc = "idle" /\ ~Loading.manual
  BY DEF Loading
<1>4. Single
  BY <1>2, <1>3 DEF ConnectionInit, Single
<1>5. AllTidy
  <2>1. Tidy(Loading)
    BY <1>3 DEF Tidy, Registering
  <2>2. QED
    BY <1>2, <2>1 DEF ConnectionInit, AllTidy
<1>6. QED
  BY <1>2, <1>4, <1>5, LinkInit DEF ConnInv

LEMMA ConnStill == ASSUME ConnInv, UNCHANGED connectionVars, scenario' = scenario PROVE ConnInv'
<1>1. LinkInv'
  BY LinkStep DEF ConnInv
<1>2. RowKept /\ UNCHANGED <<hooks, screen, faults>>
  BY DEF connectionVars, RowKept
<1>3. AllTidy => AllTidy'
  BY <1>2, TidyRow DEF ConnInv
<1>4. Single => Single'
  BY <1>2 DEF Single
<1>5. QED
  BY <1>1, <1>2, <1>3, <1>4 DEF ConnInv, In

LEMMA ConnInvStep == ASSUME ConnInv, [MCNext]_shopVars PROVE ConnInv' /\ [ConnectionNext]_connectionVars
<1>1. CASE UNCHANGED connectionVars /\ scenario' = scenario
  BY <1>1, ConnStill
<1>2. CASE ConnectionNext /\ ConnectionFollows' /\ scenario' = scenario
  <2>1. LinkInv'
    BY <1>2, LinkStep DEF ConnInv
  <2>2. ASSUME In({"screen"})' PROVE In({"screen"}) /\ Single /\ Single'
    BY <1>2, <2>2 DEF ConnInv, In, ConnectionFollows, Single
  <2>3. ASSUME In({"screen"})', faults' = 0 PROVE AllTidy'
    <3>1. faults = 0
      BY <1>2, <2>3, NoFault DEF ConnInv, LinkInv, ConnectionTypeOK, ConnectionNext, Load, Open, Connect,
         ConnectRefused, CreateConnection, RegisterHook, RegisterFails, SaveFailure, SaveHooks, DismissSetup,
         Ask, TestKeys, SaveTest, DeleteHooks, DeleteConnection, AddByHand, OrderShips, PushTracking,
         StopServer, PlanChanges
    <3>2. QED
      BY <1>2, <2>2, <2>3, <3>1, TidyMove DEF ConnInv
  <2>4. QED
    BY <1>2, <2>1, <2>2, <2>3 DEF ConnInv
<1>3. QED
  BY <1>1, <1>2 DEF MCNext, shopVars

LEMMA ConnInvHolds == MCSpec => []ConnInv
<1>1. ConnInv /\ [MCNext]_shopVars => ConnInv'
  BY ConnInvStep
<1>2. QED
  BY <1>1, ConnInvInit, PTL DEF MCSpec

\* The types of the connection, for any number of screens.
THEOREM LinkTyped == MCSpec => []ConnectionTypeOK
<1>1. ConnInv => ConnectionTypeOK
  BY DEF ConnInv, LinkInv
<1>2. QED
  BY <1>1, ConnInvHolds, PTL

\* Ids are saved in a row only when both webhooks are at the store, and while the screens act
\* one after the other and no call fails, the store holds no webhook of a connection that is
\* gone (Store.tsx:205, brand-store.ts:340): for any number of screens and connections.
THEOREM HooksTrue == MCSpec => HooksAreTrue
<1> DEFINE Whole == connection # Nothing /\ connection' # Nothing
                      /\ connection.webhookIds = {} /\ connection'.webhookIds # {}
                      => \A topic \in Topics : [to |-> connection'.id, topic |-> topic] \in hooks'
           NoneStraying == In({"screen"}) => NoStrayHooks'
<1>1. ConnInv /\ [MCNext]_shopVars => Whole
  <2>1. SUFFICES ASSUME ConnInv, [MCNext]_shopVars PROVE Whole
    OBVIOUS
  <2>2. LinkInv /\ [ConnectionNext]_connectionVars
    BY <2>1, ConnInvStep DEF ConnInv
  <2>3. QED
    BY <2>2, SavedStep
<1>2. ConnInv /\ [MCNext]_shopVars => NoneStraying
  <2>1. SUFFICES ASSUME ConnInv, [MCNext]_shopVars, In({"screen"}) PROVE NoStrayHooks'
    OBVIOUS
  <2>2. ConnInv' /\ scenario' = scenario
    BY <2>1, ConnInvStep DEF MCNext, shopVars
  <2>3. QED
    BY <2>1, <2>2 DEF ConnInv, NoStrayHooks, AllTidy, Accounted, In
<1>3. MCSpec => [][Whole]_connectionVars
  BY <1>1, ConnInvHolds, PTL DEF MCSpec
<1>4. MCSpec => [][NoneStraying]_connectionVars
  BY <1>2, ConnInvHolds, PTL DEF MCSpec
<1>5. QED
  BY <1>3, <1>4 DEF HooksAreTrue, SavedIsComplete, NoneStray

-----------------------------------------------------------------------------
(* Provisioning.  What a wizard still has to write fits the store at any   *)
(* time until it is written, whatever the brand and the other wizard do.   *)

RowSets == UNION {[S -> WizardRow] : S \in SUBSET Products}
ChoiceSets == UNION {[S -> Actions] : S \in SUBSET Products}

Used(w) == shop[w] # NoProduct

ShopShape ==
    /\ shop \in [Ids -> StoreProduct] /\ \A w \in Ids : Used(w) => shop[w].sku \in ShopSkus
    /\ link \in 0..MaxEdits + 1 /\ edits \in 0..MaxEdits /\ link <= edits + 1
    /\ record \in [Products -> Record \cup {None}]
    /\ alias \in [ShopSkus -> Products \cup {None}]
    /\ wizard \in [Tabs -> Wizard]
    /\ claimed \in SUBSET Ids
    /\ known \in SUBSET (Products \X Ids)

LEMMA NoneIsNone ==
    /\ None \notin Products /\ None \notin OwnSkus /\ None \notin Nat /\ None \notin ShopSkus /\ None \notin Ids
    /\ None # TRUE /\ None # FALSE
<1>1. None \notin Products /\ None \notin OwnSkus /\ None \notin Nat /\ None \notin BOOLEAN /\ MaxIds \in Nat
  BY ProvisionAssumption, Zenon
<1>2. Ids \subseteq Nat
  BY <1>1 DEF Ids
<1>3. None # TRUE /\ None # FALSE
  BY <1>1, Zenon
<1>4. QED
  BY <1>1, <1>2, <1>3, Zenon DEF ShopSkus

LEMMA FreshShape ==
    /\ Fresh \in Wizard /\ Fresh.todo = << >> /\ ~Fresh.busy
    /\ DOMAIN Fresh.rows = {}
<1>1. << >> \in RowSets
  BY DEF RowSets
<1>2. << >> \in ChoiceSets
  BY DEF ChoiceSets
<1>3. << >> \in Seq(Op) /\ 0 \in 0..MaxEdits + 1 /\ 1 \in 1..4
  BY ProvisionAssumption
<1>4. DOMAIN Fresh.rows = {}
  BY DEF Fresh
<1>5. Wizard = [step: 1..4, busy: BOOLEAN, rows: RowSets, choices: ChoiceSets, link: 0..MaxEdits + 1, todo: Seq(Op)]
  BY DEF Wizard, RowSets, ChoiceSets
<1>6. Fresh \in Wizard
  BY <1>1, <1>2, <1>3, <1>5 DEF Fresh
<1>7. QED
  BY <1>4, <1>6 DEF Fresh

\* The types of the provisioning, by their parts.
LEMMA ShopShapeType == ShopShape => ProvisionTypeOK
<1>1. SUFFICES ASSUME ShopShape PROVE ProvisionTypeOK
  OBVIOUS
<1>2. ASSUME NEW t \in Tabs
      PROVE  /\ DOMAIN wizard[t] = DOMAIN Fresh
             /\ wizard[t].step \in 1..4
             /\ \A p \in DOMAIN wizard[t].rows : wizard[t].rows[p] \in WizardRow
             /\ \A i \in DOMAIN wizard[t].todo : wizard[t].todo[i] \in Op
  <2>1. PICK k : k = wizard[t] /\ k \in Wizard
    BY <1>1 DEF ShopShape
  <2>2. DOMAIN k = DOMAIN Fresh
    BY <2>1 DEF Wizard, Fresh
  <2>3. k.step \in 1..4 /\ k.rows \in RowSets /\ k.todo \in Seq(Op)
    BY <2>1 DEF Wizard, RowSets
  <2>4. PICK S \in SUBSET Products : k.rows \in [S -> WizardRow]
    BY <2>3 DEF RowSets
  <2>5. \A i \in DOMAIN k.todo : k.todo[i] \in Op
    BY <2>3
  <2>6. QED
    BY <2>1, <2>2, <2>3, <2>4, <2>5
<1>3. QED
  BY <1>1, <1>2 DEF ShopShape, ProvisionTypeOK

\* Classification.
LEMMA ClassifyTyped ==
    ASSUME ShopShape, NEW p \in Products
    PROVE  LET c == Classify(p)  r == record[p]
           IN  /\ c \in WizardRow
               /\ c.state \in {"new", "conflict"} => r = None \/ ~shop[r.id].live
               /\ c.state = "conflict" => c.id \in LiveIds /\ shop[c.id].sku = p /\ c.sku = p
               /\ c.state \in {"managed", "drifted"} =>
                      r # None /\ c.id = r.id /\ c.id \in LiveIds /\ c.sku = shop[c.id].sku
<1> DEFINE r == record[p]
           taken == WithSku(p)
           unknown == IF taken = {} THEN RowOf("new", None, {"create", "skip"}, "create")
                      ELSE RowOf("conflict", CHOOSE w \in taken : TRUE, {"skip", "adopt"}, "skip")
           managed == RowOf("managed", r.id, {"update", "skip"}, "update")
           drifted == RowOf("drifted", r.id,
                        {"realias", "skip"} \cup (IF taken \ {r.id} = {} THEN {"restore_sku"} ELSE {}),
                        "skip")
<1>1. Classify(p) = IF r = None \/ (r # None /\ ~shop[r.id].live) THEN unknown
                    ELSE IF shop[r.id].sku = r.sku THEN managed ELSE drifted
  BY DEF Classify
<1>2. CASE r = None \/ (r # None /\ ~shop[r.id].live)
  <2>1. CASE taken = {}
    <3>1. RowOf("new", None, {"create", "skip"}, "create") \in WizardRow
      BY DEF RowOf, WizardRow, States, Actions
    <3>2. QED
      BY <1>1, <1>2, <2>1, <3>1 DEF RowOf
  <2>2. CASE taken # {}
    <3>1. PICK w \in taken : w = CHOOSE v \in taken : TRUE
      BY <2>2
    <3>2. w \in LiveIds /\ w \in Ids /\ shop[w].sku = p
      BY <3>1 DEF WithSku, LiveIds
    <3>3. w # None
      BY <3>2, NoneIsNone
    <3>4. RowOf("conflict", w, {"skip", "adopt"}, "skip") \in WizardRow
      BY <3>2, <3>3 DEF RowOf, WizardRow, States, Actions, ShopSkus
    <3>5. QED
      BY <1>1, <1>2, <2>2, <3>1, <3>2, <3>3, <3>4 DEF RowOf
  <2>3. QED
    BY <2>1, <2>2
<1>3. CASE ~(r = None \/ (r # None /\ ~shop[r.id].live))
  <2>1. r \in Record /\ r.id \in Ids /\ shop[r.id].live /\ r.id \in LiveIds
    BY <1>3 DEF ShopShape, Record, LiveIds
  <2>2. r.id # None /\ shop[r.id].sku \in ShopSkus
    <3>1. Used(r.id)
      BY <2>1 DEF Used, NoProduct
    <3>2. QED
      BY <2>1, <3>1, NoneIsNone DEF ShopShape
  <2>3. managed \in WizardRow /\ drifted \in WizardRow
    BY <2>1, <2>2 DEF RowOf, WizardRow, States, Actions
  <2>4. managed.state = "managed" /\ drifted.state = "drifted" /\ managed.id = r.id /\ drifted.id = r.id
        /\ managed.sku = shop[r.id].sku /\ drifted.sku = shop[r.id].sku
    BY <2>2 DEF RowOf
  <2>. HIDE DEF managed, drifted, unknown
  <2>5. QED
    BY <1>1, <1>3, <2>1, <2>3, <2>4
<1>4. QED
  BY <1>2, <1>3

\* What holds of a step that a commit still has to make: in every scenario,
Sane(o) ==
    /\ o.op = "write" =>
           IsFiniteSet(o.items) /\ \A i \in o.items : i.id \in claimed /\ Used(i.id) /\ (i.record => i.sku = i.p)
    /\ o.op = "record" => Used(o.id)
    /\ o.op = "alias" /\ o.record # None => Used(o.record)

\* with two wizards over products that keep their SKUs,
Own(p, w) == shop[w].madeFor \in {None, p}
Neat(o) ==
    /\ o.op = "write" => \A i \in o.items : Own(i.p, i.id) /\ (shop[i.id].madeFor # None => i.sku = i.p)
    /\ o.op = "record" => o.sku = o.p /\ Own(o.p, o.id)
    /\ o.op = "alias" /\ o.record # None => o.sku = o.p /\ Own(o.p, o.record)

\* and with one wizard over one product at a time.
Only(p, w) == \A v \in LiveIds : shop[v].madeFor = p /\ <<p, v>> \in known => v = w
Lone(o) ==
    /\ o.op \in {"create", "write"} => \A x, y \in o.items : x = y
    /\ o.op = "create" => \A p \in o.items : Only(p, None)
    /\ o.op = "write" => \A i \in o.items : i.record => Only(i.p, i.id)
    /\ o.op = "record" => Resolve(alias, o.sku) = o.p /\ Only(o.p, o.id)
    /\ o.op = "alias" /\ o.record # None => o.sku \in OwnSkus \cup {o.p} /\ Only(o.p, o.record)

SaneOps == {o \in Op : Sane(o)}
NeatOps == {o \in Op : Neat(o)}
LoneOps == {o \in Op : Lone(o)}

StoreInv ==
    /\ ShopShape /\ NoBlindWrite
    /\ \A p \in Products : record[p] # None => record[p].id \in claimed /\ Used(record[p].id)
    /\ \A p \in Products, w \in Ids : <<p, w>> \in known => Used(w)
    /\ \A t \in Tabs : wizard[t].todo \in Seq(SaneOps)

TabsInv ==
    /\ \A w \in Ids : shop[w].madeFor # None => shop[w].sku = shop[w].madeFor
    /\ \A w, v \in Ids : shop[w].madeFor # None /\ shop[v].madeFor = shop[w].madeFor => w = v
    /\ \A p \in Products : record[p] # None =>
           Own(p, record[p].id) /\ (shop[record[p].id].madeFor # None => record[p].sku = p)
    /\ \A t \in Tabs : wizard[t].todo \in Seq(NeatOps)

OneInv ==
    /\ \A p \in Products, w \in LiveIds :
           shop[w].madeFor = p /\ <<p, w>> \in known => record[p] # None /\ record[p].id = w
    /\ \A t \in Tabs : wizard[t].todo \in Seq(LoneOps) /\ Len(wizard[t].todo) <= 1

\* Sequences.
LEMMA OfSet == ASSUME NEW X, NEW n \in Nat, NEW f, f \in [1..n -> X] PROVE f \in Seq(X) /\ Len(f) = n
OBVIOUS

LEMMA InOrder ==
    ASSUME NEW X, NEW S, IsFiniteSet(S), NEW order \in SetToSeqs(S), NEW f, DOMAIN f = DOMAIN order,
           \A i \in DOMAIN order : order[i] \in S => f[i] \in X, f = [i \in DOMAIN f |-> f[i]]
    PROVE  f \in Seq(X) /\ Len(f) = Cardinality(S)
<1>1. Cardinality(S) \in Nat
  BY FS_CardinalityType
<1>2. order \in [1..Cardinality(S) -> S]
  BY DEF SetToSeqs
<1>3. f \in [1..Cardinality(S) -> X]
  BY <1>2
<1>4. QED
  BY <1>1, <1>3, OfSet

LEMMA AtMostOne ==
    ASSUME NEW one, NEW i \in {0, 1}, NEW j \in {0, 1}, NEW k \in {0, 1}, NEW m \in {0, 1}, NEW n \in {0, 1},
           i = 1 => one = "create", j = 1 => one = "update", k = 1 => one = "restore_sku",
           m = 1 => one = "adopt", n = 1 => one = "realias"
    PROVE  i + j + k + m + n <= 1
OBVIOUS

\* What a plan is made of.
UpdateItems(rows, choices) ==
    {[p |-> p, id |-> rows[p].id, record |-> FALSE,
      sku |-> IF record[p] = None THEN p ELSE record[p].sku] : p \in Asked(rows, choices, "update")}
RestoreItems(rows, choices) ==
    {[p |-> p, id |-> rows[p].id, record |-> TRUE, sku |-> p] : p \in Asked(rows, choices, "restore_sku")}

LEMMA PlanIn ==
    ASSUME NEW X, NEW rows, NEW choices, NEW adopts, NEW realiases, DOMAIN rows \subseteq Products,
           adopts \in SetToSeqs(Asked(rows, choices, "adopt")),
           realiases \in SetToSeqs(Asked(rows, choices, "realias")),
           [op |-> "create", items |-> Asked(rows, choices, "create")] \in X,
           [op |-> "write", items |-> UpdateItems(rows, choices)] \in X,
           [op |-> "write", items |-> RestoreItems(rows, choices)] \in X,
           \A p \in Asked(rows, choices, "adopt") : Adoption(p, rows[p]) \in X,
           \A p \in Asked(rows, choices, "realias") : Realias(p, rows[p]) \in X
    PROVE  /\ Plan(rows, choices, adopts, realiases) \in Seq(X)
           /\ (\A p, q \in DOMAIN rows : p = q) => Len(Plan(rows, choices, adopts, realiases)) <= 1
<1> DEFINE a == IF Asked(rows, choices, "create") = {} THEN << >>
                ELSE <<[op |-> "create", items |-> Asked(rows, choices, "create")]>>
           b == Write(UpdateItems(rows, choices))
           c == Write(RestoreItems(rows, choices))
           d == [i \in DOMAIN adopts |-> Adoption(adopts[i], rows[adopts[i]])]
           e == [i \in DOMAIN realiases |-> Realias(realiases[i], rows[realiases[i]])]
<1>0. \A action : IsFiniteSet(Asked(rows, choices, action))
  <2>1. SUFFICES ASSUME NEW action PROVE IsFiniteSet(Asked(rows, choices, action))
    OBVIOUS
  <2>2. Asked(rows, choices, action) \in SUBSET Products /\ IsFiniteSet(Products)
    BY ProvisionAssumption DEF Asked
  <2>3. QED
    BY <2>2, FS_Subset
<1>1. a \in Seq(X)
  OBVIOUS
<1>2. b \in Seq(X) /\ c \in Seq(X)
  BY DEF Write
<1>3. d \in Seq(X) /\ Len(d) = Cardinality(Asked(rows, choices, "adopt"))
  <2>1. DOMAIN d = DOMAIN adopts /\ d = [i \in DOMAIN d |-> d[i]]
    OBVIOUS
  <2>2. \A i \in DOMAIN adopts : adopts[i] \in Asked(rows, choices, "adopt") => d[i] \in X
    OBVIOUS
  <2>. HIDE DEF d
  <2>3. QED
    BY <1>0, <2>1, <2>2, InOrder
<1>4. e \in Seq(X) /\ Len(e) = Cardinality(Asked(rows, choices, "realias"))
  <2>1. DOMAIN e = DOMAIN realiases /\ e = [i \in DOMAIN e |-> e[i]]
    OBVIOUS
  <2>2. \A i \in DOMAIN realiases : realiases[i] \in Asked(rows, choices, "realias") => e[i] \in X
    OBVIOUS
  <2>. HIDE DEF e
  <2>3. QED
    BY <1>0, <2>1, <2>2, InOrder
<1>5. Plan(rows, choices, adopts, realiases) = a \o b \o c \o d \o e
  BY DEF Plan, UpdateItems, RestoreItems
<1>6. /\ Len(a) = IF Asked(rows, choices, "create") = {} THEN 0 ELSE 1
      /\ Len(b) = IF UpdateItems(rows, choices) = {} THEN 0 ELSE 1
      /\ Len(c) = IF RestoreItems(rows, choices) = {} THEN 0 ELSE 1
  BY DEF Write
<1>7. UpdateItems(rows, choices) # {} => Asked(rows, choices, "update") # {}
  BY DEF UpdateItems
<1>8. RestoreItems(rows, choices) # {} => Asked(rows, choices, "restore_sku") # {}
  BY DEF RestoreItems
<1>9. ASSUME NEW action PROVE Cardinality(Asked(rows, choices, action)) = 0 <=> Asked(rows, choices, action) = {}
  BY <1>0, FS_EmptySet
<1>. HIDE DEF a, b, c, d, e
<1>10. ASSUME \A p, q \in DOMAIN rows : p = q PROVE Len(a) + Len(b) + Len(c) + Len(d) + Len(e) <= 1
  <2>1. PICK one : \A x : Asked(rows, choices, x) # {} => x = one
    <3>1. \A x, y : Asked(rows, choices, x) # {} /\ Asked(rows, choices, y) # {} => x = y
      BY <1>10 DEF Asked
    <3>2. QED
      BY <3>1
  <2>2. ASSUME NEW action PROVE Cardinality(Asked(rows, choices, action)) \in {0, 1}
    <3>1. CASE Asked(rows, choices, action) = {}
      BY <1>9, <3>1
    <3>2. CASE Asked(rows, choices, action) # {}
      <4>1. PICK p : Asked(rows, choices, action) = {p}
        BY <1>10, <3>2 DEF Asked
      <4>2. QED
        BY <4>1, FS_Singleton
    <3>3. QED
      BY <3>1, <3>2
  <2>3. Len(d) \in {0, 1} /\ (Len(d) = 1 => one = "adopt")
    BY <1>3, <1>9, <2>1, <2>2
  <2>4. Len(e) \in {0, 1} /\ (Len(e) = 1 => one = "realias")
    BY <1>4, <1>9, <2>1, <2>2
  <2>5. Len(a) \in {0, 1} /\ (Len(a) = 1 => one = "create")
    BY <1>6, <2>1
  <2>6. Len(b) \in {0, 1} /\ (Len(b) = 1 => one = "update")
    BY <1>6, <1>7, <2>1
  <2>7. Len(c) \in {0, 1} /\ (Len(c) = 1 => one = "restore_sku")
    BY <1>6, <1>8, <2>1
  <2>8. QED
    BY <2>3, <2>4, <2>5, <2>6, <2>7, AtMostOne
<1>11. a \o b \o c \o d \o e \in Seq(X)
       /\ Len(a \o b \o c \o d \o e) = Len(a) + Len(b) + Len(c) + Len(d) + Len(e)
  <2>0. a \in Seq(X) /\ b \in Seq(X) /\ c \in Seq(X) /\ d \in Seq(X) /\ e \in Seq(X)
    BY <1>1, <1>2, <1>3, <1>4
  <2>1. a \o b \in Seq(X) /\ Len(a \o b) = Len(a) + Len(b)
    BY <2>0, ConcatProperties
  <2>2. a \o b \o c \in Seq(X) /\ Len(a \o b \o c) = Len(a \o b) + Len(c)
    BY <2>0, <2>1, ConcatProperties
  <2>3. a \o b \o c \o d \in Seq(X) /\ Len(a \o b \o c \o d) = Len(a \o b \o c) + Len(d)
    BY <2>0, <2>2, ConcatProperties
  <2>4. a \o b \o c \o d \o e \in Seq(X) /\ Len(a \o b \o c \o d \o e) = Len(a \o b \o c \o d) + Len(e)
    BY <2>0, <2>3, ConcatProperties
  <2>5. QED
    BY <2>1, <2>2, <2>3, <2>4
<1>12. QED
  BY <1>5, <1>10, <1>11

LEMMA FiniteImage ==
    ASSUME NEW S, IsFiniteSet(S), NEW T, NEW f \in [S -> T], \A y \in T : \E x \in S : f[x] = y
    PROVE  IsFiniteSet(T)
<1>1. PICK n \in Nat : ExistsSurjection(1..n, S)
  BY FS_NatSurjection
<1>2. PICK g : g \in Surjection(1..n, S)
  BY <1>1 DEF ExistsSurjection
<1>3. g \in [1..n -> S] /\ \A x \in S : \E i \in 1..n : g[i] = x
  BY <1>2 DEF Surjection
<1>4. PICK h : h = [i \in 1..n |-> f[g[i]]]
  OBVIOUS
<1>5. h \in [1..n -> T]
  BY <1>3, <1>4
<1>6. \A y \in T : \E i \in 1..n : h[i] = y
  <2>1. SUFFICES ASSUME NEW y \in T PROVE \E i \in 1..n : h[i] = y
    OBVIOUS
  <2>2. PICK x \in S : f[x] = y
    OBVIOUS
  <2>3. PICK i \in 1..n : g[i] = x
    BY <1>3
  <2>4. QED
    BY <1>4, <2>2, <2>3
<1>7. h \in Surjection(1..n, T)
  BY <1>5, <1>6 DEF Surjection
<1>8. QED
  BY <1>7, FS_NatSurjection DEF ExistsSurjection

Item == [p: Products, id: Ids, sku: ShopSkus, record: BOOLEAN]

\* What the rows of a fresh classification say of what is asked.
LEMMA AskedRows ==
    ASSUME StoreInv, NEW S \in SUBSET Products, NEW rows, rows = ClassifyAll(S), NEW choices, NEW action, NEW p,
           p \in Asked(rows, choices, action)
    PROVE  /\ p \in S /\ p \in Products /\ rows[p] \in WizardRow /\ choices[p] = action
           /\ action = "create" => record[p] = None \/ ~shop[record[p].id].live
           /\ action = "adopt" => /\ record[p] = None \/ ~shop[record[p].id].live
                                  /\ rows[p].id \in LiveIds /\ shop[rows[p].id].sku = p /\ rows[p].sku = p
           /\ action \in {"update", "restore_sku", "realias"} =>
                  /\ record[p] # None /\ rows[p].id = record[p].id
                  /\ rows[p].id \in LiveIds /\ rows[p].sku = shop[rows[p].id].sku
<1>1. p \in S /\ p \in Products /\ rows[p] = Classify(p) /\ choices[p] = action /\ Allowed(rows[p].state, action)
  BY DEF Asked, ClassifyAll
<1>2. rows[p].state \in States
  BY <1>1, ClassifyTyped DEF StoreInv, WizardRow
<1>3. /\ action = "create" => rows[p].state = "new"
      /\ action = "adopt" => rows[p].state = "conflict"
      /\ action \in {"update", "restore_sku", "realias"} => rows[p].state \in {"managed", "drifted"}
  BY <1>1, <1>2 DEF Allowed, States
<1>4. QED
  BY <1>1, <1>3, ClassifyTyped DEF StoreInv

LEMMA LiveIsUsed == ShopShape => \A w \in LiveIds : w \in Ids /\ w # None /\ Used(w) /\ shop[w].sku \in ShopSkus
BY NoneIsNone DEF ShopShape, LiveIds, Used, NoProduct

LEMMA OpTypes ==
    /\ \A S \in SUBSET Products : [op |-> "create", items |-> S] \in Op
    /\ \A S \in SUBSET Item : [op |-> "write", items |-> S] \in Op
    /\ \A p \in Products, w \in Ids, s \in ShopSkus, a \in BOOLEAN \cup {None}, b \in BOOLEAN :
           [op |-> "record", p |-> p, id |-> w, sku |-> s, adopted |-> a, alias |-> b] \in Op
    /\ \A p \in Products, s \in ShopSkus, w \in Ids \cup {None} :
           [op |-> "alias", p |-> p, sku |-> s, record |-> w] \in Op
BY DEF Op, Item

LEMMA RecordOpIs ==
    ASSUME NEW p \in Products, NEW w \in Ids, NEW s \in ShopSkus, NEW a \in BOOLEAN \cup {None}, NEW b \in BOOLEAN
    PROVE  LET o == RecordOp(p, w, s, a, b)
           IN  o \in Op /\ o.op = "record" /\ o.p = p /\ o.id = w /\ o.sku = s
BY OpTypes DEF RecordOp

LEMMA RecordAgainIs ==
    ASSUME NEW p \in Products, NEW w \in Ids, NEW s \in ShopSkus, NEW b \in BOOLEAN
    PROVE  LET o == RecordOp(p, w, s, None, b)
           IN  o \in Op /\ o.op = "record" /\ o.p = p /\ o.id = w /\ o.sku = s
<1>1. PICK a \in BOOLEAN \cup {None} : a = None
  OBVIOUS
<1>2. PICK o : o = RecordOp(p, w, s, a, b)
  OBVIOUS
<1>3. o \in Op /\ o.op = "record" /\ o.p = p /\ o.id = w /\ o.sku = s
  BY <1>2, RecordOpIs
<1>4. QED
  BY <1>1, <1>2, <1>3

LEMMA OneOrNone == ASSUME NEW X, NEW x, NEW s, s = << >> \/ (s = <<x>> /\ x \in X) PROVE s \in Seq(X) /\ Len(s) <= 1
<1>1. CASE s = << >>
  BY <1>1
<1>2. CASE s = <<x>> /\ x \in X
  BY <1>2
<1>3. QED
  BY <1>1, <1>2

LEMMA AliasOpIs ==
    ASSUME NEW p \in Products, NEW s \in ShopSkus, NEW w \in Ids \cup {None}
    PROVE  LET o == AliasOp(p, s, w)
           IN  o \in Op /\ o.op = "alias" /\ o.p = p /\ o.sku = s /\ o.record = w
BY OpTypes DEF AliasOp

LEMMA AdoptionIs ==
    ASSUME NEW p \in Products, NEW row, row.id \in Ids, row.sku \in ShopSkus
    PROVE  LET o == Adoption(p, row)
           IN  o \in Op /\ o.op = "record" /\ o.p = p /\ o.id = row.id /\ o.sku = row.sku
<1>1. PICK a \in BOOLEAN, b \in BOOLEAN : a = TRUE /\ b = (row.sku # p)
  OBVIOUS
<1>2. Adoption(p, row) = RecordOp(p, row.id, row.sku, a, b)
  BY <1>1 DEF Adoption
<1>3. QED
  BY <1>2, RecordOpIs

LEMMA UpdateItemsAre ==
    ASSUME StoreInv, NEW S \in SUBSET Products, NEW rows, rows = ClassifyAll(S), NEW choices
    PROVE  /\ UpdateItems(rows, choices) \in SUBSET Item /\ IsFiniteSet(UpdateItems(rows, choices))
           /\ \A i \in UpdateItems(rows, choices) :
                  /\ i.p \in Asked(rows, choices, "update") /\ record[i.p] # None /\ ~i.record
                  /\ i.id = record[i.p].id /\ i.sku = record[i.p].sku /\ i.id \in LiveIds
<1> DEFINE A == Asked(rows, choices, "update")
           I == UpdateItems(rows, choices)
           g == [p \in A |-> [p |-> p, id |-> rows[p].id, record |-> FALSE,
                              sku |-> IF record[p] = None THEN p ELSE record[p].sku]]
<1>1. ASSUME NEW p \in A
      PROVE  /\ g[p] = [p |-> p, id |-> record[p].id, record |-> FALSE, sku |-> record[p].sku]
             /\ record[p] # None /\ record[p].id \in LiveIds /\ g[p] \in Item
  <2>1. p \in Products /\ record[p] # None /\ rows[p].id = record[p].id /\ rows[p].id \in LiveIds
    BY <1>1, AskedRows
  <2>2. record[p] \in Record
    BY <2>1 DEF StoreInv, ShopShape
  <2>3. g[p] = [p |-> p, id |-> record[p].id, record |-> FALSE, sku |-> record[p].sku]
    BY <1>1, <2>1
  <2>4. QED
    BY <2>1, <2>2, <2>3 DEF Item, Record
<1>2. I = {g[p] : p \in A}
  BY DEF UpdateItems
<1>3. IsFiniteSet(A)
  <2>1. A \in SUBSET Products /\ IsFiniteSet(Products)
    BY AskedRows, ProvisionAssumption
  <2>2. QED
    BY <2>1, FS_Subset
<1>4. g \in [A -> I] /\ \A y \in I : \E p \in A : g[p] = y
  <2>1. DOMAIN g = A /\ g = [p \in A |-> g[p]]
    OBVIOUS
  <2>. HIDE DEF g, A, I
  <2>2. QED
    BY <1>2, <2>1
<1>5. IsFiniteSet(I)
  <2>. HIDE DEF g, A, I
  <2>1. QED
    BY <1>3, <1>4, FiniteImage
<1>6. ASSUME NEW i \in I
      PROVE  /\ i \in Item /\ i.p \in A /\ record[i.p] # None /\ ~i.record
             /\ i.id = record[i.p].id /\ i.sku = record[i.p].sku /\ i.id \in LiveIds
  <2>1. PICK p \in A : i = g[p]
    BY <1>2, <1>6
  <2>. HIDE DEF g, A, I
  <2>2. i = [p |-> p, id |-> record[p].id, record |-> FALSE, sku |-> record[p].sku]
    BY <1>1, <2>1
  <2>3. p \in A /\ record[p] # None /\ record[p].id \in LiveIds /\ i \in Item
    BY <1>1, <2>1
  <2>4. QED
    BY <2>2, <2>3
<1>7. QED
  BY <1>5, <1>6

LEMMA RestoreItemsAre ==
    ASSUME StoreInv, NEW S \in SUBSET Products, NEW rows, rows = ClassifyAll(S), NEW choices
    PROVE  /\ RestoreItems(rows, choices) \in SUBSET Item /\ IsFiniteSet(RestoreItems(rows, choices))
           /\ \A i \in RestoreItems(rows, choices) :
                  /\ i.p \in Asked(rows, choices, "restore_sku") /\ record[i.p] # None /\ i.record
                  /\ i.id = record[i.p].id /\ i.sku = i.p /\ i.id \in LiveIds
<1> DEFINE A == Asked(rows, choices, "restore_sku")
           I == RestoreItems(rows, choices)
           g == [p \in A |-> [p |-> p, id |-> rows[p].id, record |-> TRUE, sku |-> p]]
<1>1. ASSUME NEW p \in A
      PROVE  /\ g[p] = [p |-> p, id |-> record[p].id, record |-> TRUE, sku |-> p]
             /\ record[p] # None /\ record[p].id \in LiveIds /\ g[p] \in Item
  <2>1. p \in Products /\ record[p] # None /\ rows[p].id = record[p].id /\ rows[p].id \in LiveIds
    BY <1>1, AskedRows
  <2>2. record[p] \in Record
    BY <2>1 DEF StoreInv, ShopShape
  <2>3. g[p] = [p |-> p, id |-> record[p].id, record |-> TRUE, sku |-> p]
    BY <1>1, <2>1
  <2>4. QED
    BY <2>1, <2>2, <2>3 DEF Item, Record, ShopSkus
<1>2. I = {g[p] : p \in A}
  BY DEF RestoreItems
<1>3. IsFiniteSet(A)
  <2>1. A \in SUBSET Products /\ IsFiniteSet(Products)
    BY AskedRows, ProvisionAssumption
  <2>2. QED
    BY <2>1, FS_Subset
<1>4. g \in [A -> I] /\ \A y \in I : \E p \in A : g[p] = y
  <2>1. DOMAIN g = A /\ g = [p \in A |-> g[p]]
    OBVIOUS
  <2>. HIDE DEF g, A, I
  <2>2. QED
    BY <1>2, <2>1
<1>5. IsFiniteSet(I)
  <2>. HIDE DEF g, A, I
  <2>1. QED
    BY <1>3, <1>4, FiniteImage
<1>6. ASSUME NEW i \in I
      PROVE  /\ i \in Item /\ i.p \in A /\ record[i.p] # None /\ i.record
             /\ i.id = record[i.p].id /\ i.sku = i.p /\ i.id \in LiveIds
  <2>1. PICK p \in A : i = g[p]
    BY <1>2, <1>6
  <2>. HIDE DEF g, A, I
  <2>2. i = [p |-> p, id |-> record[p].id, record |-> TRUE, sku |-> p]
    BY <1>1, <2>1
  <2>3. p \in A /\ record[p] # None /\ record[p].id \in LiveIds /\ i \in Item
    BY <1>1, <2>1
  <2>4. QED
    BY <2>2, <2>3
<1>7. QED
  BY <1>5, <1>6

\* What a commit plans fits the store as it is.
LEMMA PlanOps ==
    ASSUME StoreInv, NEW S \in SUBSET Products, NEW rows, rows = ClassifyAll(S), NEW choices, NEW X, X \subseteq Op,
           \A T \in SUBSET S : (\A p \in T : p \in Asked(rows, choices, "create")) => [op |-> "create", items |-> T] \in X,
           \A T \in SUBSET Item : IsFiniteSet(T) /\ T \in {UpdateItems(rows, choices), RestoreItems(rows, choices)}
               => [op |-> "write", items |-> T] \in X,
           \A p \in Asked(rows, choices, "adopt"), o \in Op :
               o.op = "record" /\ o.p = p /\ o.id = rows[p].id /\ o.sku = p => o \in X,
           \A p \in Asked(rows, choices, "realias"), o \in Op :
               o.op = "alias" /\ o.p = p /\ o.record = record[p].id /\ o.sku = rows[p].sku => o \in X,
           NEW adopts \in SetToSeqs(Asked(rows, choices, "adopt")),
           NEW realiases \in SetToSeqs(Asked(rows, choices, "realias"))
    PROVE  /\ Plan(rows, choices, adopts, realiases) \in Seq(X)
           /\ (\A p, q \in S : p = q) => Len(Plan(rows, choices, adopts, realiases)) <= 1
<1>1. DOMAIN rows = S /\ DOMAIN rows \subseteq Products
  BY DEF ClassifyAll
<1>2. [op |-> "create", items |-> Asked(rows, choices, "create")] \in X
  <2>1. Asked(rows, choices, "create") \in SUBSET S
    BY AskedRows
  <2>2. QED
    BY <2>1
<1>3. [op |-> "write", items |-> UpdateItems(rows, choices)] \in X
  BY UpdateItemsAre
<1>4. [op |-> "write", items |-> RestoreItems(rows, choices)] \in X
  BY RestoreItemsAre
<1>5. ASSUME NEW p \in Asked(rows, choices, "adopt") PROVE Adoption(p, rows[p]) \in X
  <2>1. p \in Products /\ rows[p].id \in LiveIds /\ rows[p].sku = p
    BY <1>5, AskedRows
  <2>2. rows[p].id \in Ids /\ rows[p].sku \in ShopSkus
    BY <2>1 DEF LiveIds, ShopSkus
  <2>3. QED
    BY <1>5, <2>1, <2>2, AdoptionIs
<1>6. ASSUME NEW p \in Asked(rows, choices, "realias") PROVE Realias(p, rows[p]) \in X
  <2>1. p \in Products /\ rows[p].id \in LiveIds /\ rows[p].sku = shop[rows[p].id].sku /\ rows[p].id = record[p].id
    BY <1>6, AskedRows
  <2>2. rows[p].id \in Ids /\ rows[p].sku \in ShopSkus
    BY <2>1, LiveIsUsed DEF StoreInv
  <2>3. QED
    BY <1>6, <2>1, <2>2, AliasOpIs DEF Realias
<1>7. QED
  BY <1>1, <1>2, <1>3, <1>4, <1>5, <1>6, PlanIn

LEMMA PlanSane ==
    ASSUME StoreInv, NEW S \in SUBSET Products, NEW rows, rows = ClassifyAll(S), NEW choices,
           NEW adopts \in SetToSeqs(Asked(rows, choices, "adopt")),
           NEW realiases \in SetToSeqs(Asked(rows, choices, "realias"))
    PROVE  Plan(rows, choices, adopts, realiases) \in Seq(SaneOps)
<1>1. \A T \in SUBSET S : [op |-> "create", items |-> T] \in SaneOps
  <2>1. \A T \in SUBSET S : [op |-> "create", items |-> T] \in Op
    BY OpTypes
  <2>2. QED
    BY <2>1 DEF SaneOps, Sane
<1>2. ASSUME NEW T \in SUBSET Item, IsFiniteSet(T), T \in {UpdateItems(rows, choices), RestoreItems(rows, choices)}
      PROVE  [op |-> "write", items |-> T] \in SaneOps
  <2>1. [op |-> "write", items |-> T] \in Op
    BY OpTypes
  <2>2. ASSUME NEW i \in T PROVE i.id \in claimed /\ Used(i.id) /\ (i.record => i.sku = i.p)
    <3>1. i.p \in Products /\ record[i.p] # None /\ i.id = record[i.p].id /\ (i.record => i.sku = i.p)
      BY <1>2, <2>2, UpdateItemsAre, RestoreItemsAre DEF Item
    <3>2. QED
      BY <3>1 DEF StoreInv
  <2>3. QED
    BY <1>2, <2>1, <2>2 DEF SaneOps, Sane
<1>3. ASSUME NEW p \in Asked(rows, choices, "adopt"), NEW o \in Op, o.op = "record", o.id = rows[p].id
      PROVE  o \in SaneOps
  <2>1. Used(o.id)
    BY <1>3, AskedRows, LiveIsUsed DEF StoreInv
  <2>2. QED
    BY <1>3, <2>1 DEF SaneOps, Sane
<1>4. ASSUME NEW p \in Asked(rows, choices, "realias"), NEW o \in Op, o.op = "alias", o.record = record[p].id
      PROVE  o \in SaneOps
  <2>1. Used(o.record)
    BY <1>4, AskedRows, LiveIsUsed DEF StoreInv
  <2>2. QED
    BY <1>4, <2>1 DEF SaneOps, Sane
<1>5. SaneOps \subseteq Op
  BY DEF SaneOps
<1>6. QED
  BY <1>1, <1>2, <1>3, <1>4, <1>5, PlanOps

LEMMA PlanNeat ==
    ASSUME StoreInv, TabsInv, \A w \in Ids : Used(w) => shop[w].sku \in Products,
           \A p \in Products : record[p] # None /\ shop[record[p].id].live => shop[record[p].id].sku \in OwnSkus \cup {p},
           NEW S \in SUBSET Products, NEW rows, rows = ClassifyAll(S), NEW choices,
           NEW adopts \in SetToSeqs(Asked(rows, choices, "adopt")),
           NEW realiases \in SetToSeqs(Asked(rows, choices, "realias"))
    PROVE  Plan(rows, choices, adopts, realiases) \in Seq(NeatOps)
<1>0. ASSUME NEW w \in LiveIds, NEW p, shop[w].sku = p PROVE Own(p, w)
  BY <1>0 DEF LiveIds, TabsInv, Own
<1>1. \A T \in SUBSET S : [op |-> "create", items |-> T] \in NeatOps
  <2>1. \A T \in SUBSET S : [op |-> "create", items |-> T] \in Op
    BY OpTypes
  <2>2. QED
    BY <2>1 DEF NeatOps, Neat
<1>2. ASSUME NEW T \in SUBSET Item, IsFiniteSet(T), T \in {UpdateItems(rows, choices), RestoreItems(rows, choices)}
      PROVE  [op |-> "write", items |-> T] \in NeatOps
  <2>1. [op |-> "write", items |-> T] \in Op
    BY OpTypes
  <2>2. ASSUME NEW i \in T PROVE Own(i.p, i.id) /\ (shop[i.id].madeFor # None => i.sku = i.p)
    <3>1. i.p \in Products /\ record[i.p] # None /\ i.id = record[i.p].id /\ (i.sku = i.p \/ i.sku = record[i.p].sku)
      BY <1>2, <2>2, UpdateItemsAre, RestoreItemsAre DEF Item
    <3>2. QED
      BY <3>1 DEF TabsInv
  <2>3. QED
    BY <1>2, <2>1, <2>2 DEF NeatOps, Neat
<1>3. ASSUME NEW p \in Asked(rows, choices, "adopt"), NEW o \in Op, o.op = "record", o.p = p, o.id = rows[p].id, o.sku = p
      PROVE  o \in NeatOps
  <2>1. Own(p, o.id)
    BY <1>0, <1>3, AskedRows
  <2>2. QED
    BY <1>3, <2>1 DEF NeatOps, Neat
<1>4. ASSUME NEW p \in Asked(rows, choices, "realias"), NEW o \in Op,
             o.op = "alias", o.p = p, o.record = record[p].id, o.sku = rows[p].sku
      PROVE  o \in NeatOps
  <2>1. /\ p \in Products /\ record[p] # None /\ record[p].id \in LiveIds /\ o.sku = shop[record[p].id].sku
        /\ shop[record[p].id].live /\ Used(record[p].id) /\ record[p].id \in Ids
    BY <1>4, AskedRows, LiveIsUsed DEF LiveIds, StoreInv
  <2>2. o.sku = p
    BY <2>1, ProvisionAssumption
  <2>3. Own(p, o.record)
    BY <1>4, <2>1 DEF TabsInv
  <2>4. QED
    BY <1>4, <2>2, <2>3 DEF NeatOps, Neat
<1>5. NeatOps \subseteq Op
  BY DEF NeatOps
<1>6. QED
  BY <1>1, <1>2, <1>3, <1>4, <1>5, PlanOps

LEMMA PlanLone ==
    ASSUME StoreInv, OneInv,
           \A p \in Products : record[p] # None /\ shop[record[p].id].live => shop[record[p].id].sku \in OwnSkus \cup {p},
           NEW S \in SUBSET Products, \A p, q \in S : p = q, NEW rows, rows = ClassifyAll(S), NEW choices,
           NEW adopts \in SetToSeqs(Asked(rows, choices, "adopt")),
           NEW realiases \in SetToSeqs(Asked(rows, choices, "realias"))
    PROVE  /\ Plan(rows, choices, adopts, realiases) \in Seq(LoneOps)
           /\ Len(Plan(rows, choices, adopts, realiases)) <= 1
<1>0. ASSUME NEW p \in Products
      PROVE  /\ record[p] = None \/ ~shop[record[p].id].live => \A w : Only(p, w)
             /\ record[p] # None => Only(p, record[p].id)
  BY DEF OneInv, Only, LiveIds
<1>1. ASSUME NEW T \in SUBSET S, \A p \in T : p \in Asked(rows, choices, "create")
      PROVE  [op |-> "create", items |-> T] \in LoneOps
  <2>1. [op |-> "create", items |-> T] \in Op
    BY OpTypes
  <2>2. \A p \in T : Only(p, None)
    BY <1>0, <1>1, AskedRows
  <2>3. QED
    BY <2>1, <2>2 DEF LoneOps, Lone
<1>2. ASSUME NEW T \in SUBSET Item, IsFiniteSet(T), T \in {UpdateItems(rows, choices), RestoreItems(rows, choices)}
      PROVE  [op |-> "write", items |-> T] \in LoneOps
  <2>1. [op |-> "write", items |-> T] \in Op
    BY OpTypes
  <2>2. ASSUME NEW i \in T PROVE i.p \in S /\ Only(i.p, i.id)
    <3>1. i.p \in S /\ i.p \in Products /\ record[i.p] # None /\ i.id = record[i.p].id
      BY <1>2, <2>2, UpdateItemsAre, RestoreItemsAre, AskedRows
    <3>2. QED
      BY <1>0, <3>1
  <2>3. ASSUME NEW i \in T, NEW j \in T PROVE i = j
    <3>1. i.p = j.p
      BY <2>2, <2>3
    <3>2. i.id = j.id /\ i.sku = j.sku /\ i.record = j.record
      BY <1>2, <2>3, <3>1, UpdateItemsAre, RestoreItemsAre DEF Item
    <3>3. i \in Item /\ j \in Item
      BY <1>2, <2>3
    <3>4. QED
      BY <3>1, <3>2, <3>3 DEF Item
  <2>4. QED
    BY <2>1, <2>2, <2>3 DEF LoneOps, Lone
<1>3. ASSUME NEW p \in Asked(rows, choices, "adopt"), NEW o \in Op, o.op = "record", o.p = p, o.id = rows[p].id, o.sku = p
      PROVE  o \in LoneOps
  <2>1. p \in Products /\ Only(p, o.id)
    BY <1>0, <1>3, AskedRows
  <2>2. QED
    BY <1>3, <2>1 DEF LoneOps, Lone, Resolve
<1>4. ASSUME NEW p \in Asked(rows, choices, "realias"), NEW o \in Op,
             o.op = "alias", o.p = p, o.record = record[p].id, o.sku = rows[p].sku
      PROVE  o \in LoneOps
  <2>1. /\ p \in Products /\ record[p] # None /\ record[p].id \in LiveIds /\ o.sku = shop[record[p].id].sku
        /\ shop[record[p].id].live
    BY <1>4, AskedRows DEF LiveIds
  <2>2. o.sku \in OwnSkus \cup {p} /\ Only(p, o.record)
    BY <1>0, <1>4, <2>1
  <2>3. QED
    BY <1>4, <2>2 DEF LoneOps, Lone
<1>5. LoneOps \subseteq Op
  BY DEF LoneOps
<1>6. QED
  BY <1>1, <1>2, <1>3, <1>4, <1>5, PlanOps

-----------------------------------------------------------------------------
(* The steps of provisioning.                                              *)

Mapped == \A p \in Products : record[p] # None /\ shop[record[p].id].live => shop[record[p].id].sku \in OwnSkus \cup {p}
TwoFollow == Mapped /\ \A w \in Ids : Used(w) => /\ shop[w].live /\ shop[w].sku \in Products
                                                 /\ (shop[w].wrote = "brand" => shop[w].madeFor = None)
OneFollow ==
    /\ Mapped
    /\ \A t, u \in Tabs : wizard[t] # Fresh /\ wizard[u] # Fresh => t = u
    /\ \A t \in Tabs : \A p, q \in DOMAIN wizard[t].rows : p = q

\* What a step keeps, in every scenario and in the two.
ProvKept ==
    /\ StoreInv'
    /\ TabsInv /\ TwoFollow /\ TwoFollow' => TabsInv'
    /\ OneInv /\ OneFollow /\ OneFollow' => OneInv'

LEMMA SeqGrows == ASSUME NEW X, NEW Y, X \subseteq Y, NEW s \in Seq(X) PROVE s \in Seq(Y)
OBVIOUS

LEMMA WizardTypes ==
    ASSUME ShopShape, NEW t \in Tabs
    PROVE  /\ wizard[t] \in Wizard /\ wizard[t].step \in 1..4 /\ wizard[t].busy \in BOOLEAN
           /\ wizard[t].rows \in RowSets /\ wizard[t].choices \in ChoiceSets /\ wizard[t].todo \in Seq(Op)
           /\ wizard[t].link \in 0..MaxEdits + 1 /\ DOMAIN wizard[t].rows \in SUBSET Products
<1>1. wizard[t] \in Wizard
  BY DEF ShopShape
<1>2. /\ wizard[t].step \in 1..4 /\ wizard[t].busy \in BOOLEAN
      /\ wizard[t].rows \in RowSets /\ wizard[t].choices \in ChoiceSets /\ wizard[t].todo \in Seq(Op)
      /\ wizard[t].link \in 0..MaxEdits + 1
  BY <1>1 DEF Wizard, RowSets, ChoiceSets
<1>3. DOMAIN wizard[t].rows \in SUBSET Products
  BY <1>2 DEF RowSets
<1>4. QED
  BY <1>1, <1>2, <1>3

LEMMA WizardIs ==
    Wizard = [step: 1..4, busy: BOOLEAN, rows: RowSets, choices: ChoiceSets, link: 0..MaxEdits + 1, todo: Seq(Op)]
BY DEF Wizard, RowSets, ChoiceSets

LEMMA WizardPut ==
    ASSUME ShopShape, NEW t \in Tabs, NEW k \in Wizard, wizard' = [wizard EXCEPT ![t] = k]
    PROVE  /\ wizard' \in [Tabs -> Wizard] /\ wizard'[t] = k
           /\ \A u \in Tabs \ {t} : wizard'[u] = wizard[u]
BY DEF ShopShape

\* A step of a wizard that plans nothing, or plans what fits.
LEMMA WizardKeeps ==
    ASSUME StoreInv, NEW t \in Tabs, NEW k \in Wizard, wizard' = [wizard EXCEPT ![t] = k],
           UNCHANGED <<shop, link, edits, record, alias, claimed, known>>,
           k.todo \in Seq(SaneOps),
           TabsInv /\ TwoFollow => k.todo \in Seq(NeatOps),
           OneInv /\ OneFollow => k.todo \in Seq(LoneOps) /\ Len(k.todo) <= 1
    PROVE  ProvKept
<1>0. wizard' \in [Tabs -> Wizard] /\ wizard'[t] = k /\ \A u \in Tabs \ {t} : wizard'[u] = wizard[u]
  BY WizardPut DEF StoreInv
<1>1. SaneOps' = SaneOps /\ NeatOps' = NeatOps /\ LoneOps' = LoneOps
  <2>1. ASSUME NEW o PROVE (Sane(o) <=> Sane(o)') /\ (Neat(o) <=> Neat(o)') /\ (Lone(o) <=> Lone(o)')
    BY DEF Sane, Neat, Lone, Used, Own, Only, LiveIds
  <2>2. QED
    BY <2>1 DEF SaneOps, NeatOps, LoneOps
<1>2. StoreInv'
  <2>1. ShopShape'
    BY <1>0 DEF StoreInv, ShopShape, Used
  <2>2. \A u \in Tabs : wizard'[u].todo \in Seq(SaneOps)
    BY <1>0 DEF StoreInv
  <2>3. QED
    BY <1>1, <2>1, <2>2 DEF StoreInv, NoBlindWrite, LiveIds, Used
<1>3. ASSUME TabsInv, TwoFollow PROVE TabsInv'
  <2>1. \A u \in Tabs : wizard'[u].todo \in Seq(NeatOps)
    BY <1>0, <1>3 DEF TabsInv
  <2>2. QED
    BY <1>1, <1>3, <2>1 DEF TabsInv, Own
<1>4. ASSUME OneInv, OneFollow PROVE OneInv'
  <2>1. \A u \in Tabs : wizard'[u].todo \in Seq(LoneOps) /\ Len(wizard'[u].todo) <= 1
    BY <1>0, <1>4 DEF OneInv
  <2>2. QED
    BY <1>1, <1>4, <2>1 DEF OneInv, LiveIds
<1>5. QED
  BY <1>2, <1>3, <1>4 DEF ProvKept

LEMMA IdleKeeps ==
    ASSUME StoreInv, NEW t \in Tabs, NEW k \in Wizard, wizard' = [wizard EXCEPT ![t] = k],
           UNCHANGED <<shop, link, edits, record, alias, claimed, known>>,
           k.todo \in {<< >>, wizard[t].todo}
    PROVE  ProvKept
<1>1. << >> \in Seq(SaneOps) /\ << >> \in Seq(NeatOps) /\ << >> \in Seq(LoneOps) /\ Len(<< >>) <= 1
  OBVIOUS
<1>2. k.todo \in Seq(SaneOps)
  BY <1>1 DEF StoreInv
<1>3. TabsInv => k.todo \in Seq(NeatOps)
  BY <1>1 DEF TabsInv
<1>4. OneInv => k.todo \in Seq(LoneOps) /\ Len(k.todo) <= 1
  BY <1>1 DEF OneInv
<1>5. QED
  BY <1>2, <1>3, <1>4, WizardKeeps

LEMMA PreflightKeeps ==
    ASSUME StoreInv, NEW t \in Tabs, NEW selected \in SUBSET Products, RunPreflight(t, selected)
    PROVE  ProvKept
<1>1. PICK rows : rows = ClassifyAll(selected)
  OBVIOUS
<1>2. rows \in [selected -> WizardRow]
  BY <1>1, ClassifyTyped DEF StoreInv, ClassifyAll
<1>3. PICK choices : choices = [p \in selected |-> rows[p].default]
  OBVIOUS
<1>4. choices \in [selected -> Actions]
  BY <1>2, <1>3 DEF WizardRow
<1>5. rows \in RowSets /\ choices \in ChoiceSets
  BY <1>2, <1>4 DEF RowSets, ChoiceSets
<1>6. PICK k : k = [Fresh EXCEPT !.step = 2, !.rows = rows, !.choices = choices]
  OBVIOUS
<1>7. k \in Wizard /\ k.todo = << >>
  <2>1. << >> \in Seq(Op) /\ 0 \in 0..MaxEdits + 1 /\ 2 \in 1..4
    BY ProvisionAssumption
  <2>2. k = [step |-> 2, busy |-> FALSE, rows |-> rows, choices |-> choices, link |-> 0, todo |-> << >>]
    BY <1>6 DEF Fresh
  <2>3. QED
    BY <1>5, <2>1, <2>2, WizardIs
<1>8. wizard' = [wizard EXCEPT ![t] = k] /\ UNCHANGED <<shop, link, edits, record, alias, claimed, known>>
  BY <1>1, <1>3, <1>6 DEF RunPreflight
<1>9. QED
  BY <1>7, <1>8, IdleKeeps

LEMMA ScreenKeeps ==
    ASSUME StoreInv, NEW t \in Tabs,
           \/ \E p \in Products, action \in Actions : Choose(t, p, action)
           \/ Turn(t) \/ WizardRestart(t) \/ CommitDone(t) \/ CommitFails(t)
    PROVE  ProvKept
<1>0. /\ wizard[t] \in Wizard /\ wizard[t].step \in 1..4 /\ wizard[t].choices \in ChoiceSets
      /\ MaxEdits \in Nat
  BY WizardTypes, ProvisionAssumption DEF StoreInv
<1>1. UNCHANGED <<shop, link, edits, record, alias, claimed, known>>
  BY DEF Choose, Turn, WizardRestart, CommitDone, CommitFails
<1>2. ASSUME NEW p \in Products, NEW action \in Actions, Choose(t, p, action) PROVE ProvKept
  <2>1. PICK choices : choices = [wizard[t].choices EXCEPT ![p] = action]
    OBVIOUS
  <2>2. choices \in ChoiceSets
    BY <1>0, <2>1 DEF ChoiceSets
  <2>3. PICK k : k = [wizard[t] EXCEPT !.choices = choices]
    OBVIOUS
  <2>4. k \in Wizard /\ k.todo = wizard[t].todo
    BY <1>0, <2>2, <2>3, WizardIs
  <2>5. wizard' = [wizard EXCEPT ![t] = k]
    BY <1>2, <2>1, <2>3 DEF Choose
  <2>6. QED
    BY <1>1, <2>4, <2>5, IdleKeeps
<1>3. CASE Turn(t)
  <2>1. PICK k : k = [wizard[t] EXCEPT !.step = 5 - @]
    OBVIOUS
  <2>2. 5 - wizard[t].step \in 1..4
    BY <1>3 DEF Turn
  <2>3. k \in Wizard /\ k.todo = wizard[t].todo
    BY <1>0, <2>1, <2>2, WizardIs
  <2>4. wizard' = [wizard EXCEPT ![t] = k]
    BY <1>3, <2>1 DEF Turn
  <2>5. QED
    BY <1>1, <2>3, <2>4, IdleKeeps
<1>4. CASE WizardRestart(t)
  BY <1>1, <1>4, FreshShape, IdleKeeps DEF WizardRestart
<1>5. CASE CommitDone(t)
  <2>1. PICK k : k = [Fresh EXCEPT !.step = 4]
    OBVIOUS
  <2>2. k \in Wizard /\ k.todo = << >>
    BY <2>1, FreshShape, WizardIs
  <2>3. wizard' = [wizard EXCEPT ![t] = k]
    BY <1>5, <2>1 DEF CommitDone
  <2>4. QED
    BY <1>1, <2>2, <2>3, IdleKeeps
<1>6. CASE CommitFails(t)
  <2>1. PICK k : k = [wizard[t] EXCEPT !.busy = FALSE, !.todo = << >>, !.link = 0]
    OBVIOUS
  <2>2. k \in Wizard /\ k.todo = << >>
    <3>1. << >> \in Seq(Op) /\ 0 \in 0..MaxEdits + 1
      BY <1>0
    <3>2. k.todo = << >> /\ k.link = 0
      BY <1>0, <2>1, WizardIs
    <3>3. QED
      BY <1>0, <2>1, <3>1, <3>2, WizardIs
  <2>3. wizard' = [wizard EXCEPT ![t] = k]
    BY <1>6, <2>1 DEF CommitFails
  <2>4. QED
    BY <1>1, <2>2, <2>3, IdleKeeps
<1>7. QED
  BY <1>2, <1>3, <1>4, <1>5, <1>6

LEMMA CommitKeeps ==
    ASSUME StoreInv, NEW t \in Tabs, RunCommit(t)
    PROVE  ProvKept
<1>0. /\ wizard[t] \in Wizard /\ DOMAIN wizard[t].rows \in SUBSET Products
      /\ link \in 0..MaxEdits + 1
  BY WizardTypes DEF StoreInv, ShopShape
<1>1. PICK S, rows, choices :
          /\ S = DOMAIN wizard[t].rows /\ S \in SUBSET Products
          /\ rows = ClassifyAll(S) /\ choices = wizard[t].choices
  BY <1>0
<1>2. PICK adopts \in SetToSeqs(Asked(rows, choices, "adopt")),
           realiases \in SetToSeqs(Asked(rows, choices, "realias")) :
          wizard' = [wizard EXCEPT ![t].busy = TRUE, ![t].link = link,
                                   ![t].todo = Plan(rows, choices, adopts, realiases)]
  BY <1>1 DEF RunCommit
<1>3. PICK todo : todo = Plan(rows, choices, adopts, realiases)
  OBVIOUS
<1>4. PICK k : k = [wizard[t] EXCEPT !.busy = TRUE, !.link = link, !.todo = todo]
  OBVIOUS
<1>5. wizard' = [wizard EXCEPT ![t] = k] /\ UNCHANGED <<shop, link, edits, record, alias, claimed, known>>
  BY <1>2, <1>3, <1>4 DEF RunCommit
<1>6. todo \in Seq(SaneOps)
  BY <1>1, <1>3, PlanSane
<1>7. todo \in Seq(Op)
  <2>1. SaneOps \subseteq Op
    BY DEF SaneOps
  <2>2. QED
    BY <1>6, <2>1, SeqGrows
<1>8. k \in Wizard /\ k.todo = todo
  BY <1>0, <1>4, <1>7, WizardIs
<1>9. ASSUME TabsInv, TwoFollow PROVE todo \in Seq(NeatOps)
  BY <1>1, <1>3, <1>9, PlanNeat DEF TwoFollow, Mapped
<1>10. ASSUME OneInv, OneFollow PROVE todo \in Seq(LoneOps) /\ Len(todo) <= 1
  <2>1. \A p, q \in S : p = q
    BY <1>1, <1>10 DEF OneFollow
  <2>2. QED
    BY <1>1, <1>3, <1>10, <2>1, PlanLone DEF OneFollow, Mapped
<1>11. QED
  BY <1>5, <1>6, <1>8, <1>9, <1>10, WizardKeeps

\* What holds of an operation to be made goes on holding.
LEMMA SaneGrows ==
    ASSUME claimed \subseteq claimed', \A w \in Ids : Used(w) => Used(w)'
    PROVE  SaneOps \subseteq SaneOps'
<1>1. SUFFICES ASSUME NEW o \in Op, Sane(o) PROVE Sane(o)'
  BY DEF SaneOps
<1>2. ASSUME o.op = "write" PROVE o.items \in SUBSET Item
  BY <1>2 DEF Op, Item
<1>3. ASSUME o.op = "write"
      PROVE  IsFiniteSet(o.items) /\ \A i \in o.items : i.id \in claimed' /\ Used(i.id)' /\ (i.record => i.sku = i.p)
  BY <1>1, <1>2, <1>3 DEF Sane, Item
<1>4. ASSUME o.op = "record" PROVE o.id \in Ids /\ Used(o.id)'
  BY <1>1, <1>4 DEF Op, Sane
<1>5. ASSUME o.op = "alias", o.record # None PROVE o.record \in Ids /\ Used(o.record)'
  BY <1>1, <1>5 DEF Op, Sane
<1>6. QED
  BY <1>3, <1>4, <1>5 DEF Sane

LEMMA NeatGrows ==
    ASSUME \A w \in Ids : Used(w) => shop'[w].madeFor = shop[w].madeFor
    PROVE  SaneOps \cap NeatOps \subseteq NeatOps'
<1>1. SUFFICES ASSUME NEW o \in Op, Sane(o), Neat(o) PROVE Neat(o)'
  BY DEF SaneOps, NeatOps
<1>2. ASSUME o.op = "write" PROVE o.items \in SUBSET Item
  BY <1>2 DEF Op, Item
<1>3. ASSUME o.op = "write", NEW i \in o.items
      PROVE  Own(i.p, i.id)' /\ (shop'[i.id].madeFor # None => i.sku = i.p)
  <2>1. i.id \in Ids /\ Used(i.id)
    BY <1>1, <1>2, <1>3 DEF Sane, Item
  <2>2. QED
    BY <1>1, <1>3, <2>1 DEF Neat, Own
<1>4. ASSUME o.op = "record" PROVE o.sku = o.p /\ Own(o.p, o.id)'
  <2>1. o.id \in Ids /\ Used(o.id)
    BY <1>1, <1>4 DEF Op, Sane
  <2>2. QED
    BY <1>1, <1>4, <2>1 DEF Neat, Own
<1>5. ASSUME o.op = "alias", o.record # None PROVE o.sku = o.p /\ Own(o.p, o.record)'
  <2>1. o.record \in Ids /\ Used(o.record)
    BY <1>1, <1>5 DEF Op, Sane
  <2>2. QED
    BY <1>1, <1>5, <2>1 DEF Neat, Own
<1>6. QED
  BY <1>3, <1>4, <1>5 DEF Neat

LEMMA SeqBoth == ASSUME NEW X, NEW Y, NEW s \in Seq(X), s \in Seq(Y) PROVE s \in Seq(X \cap Y)
OBVIOUS

\* The store and the records change, the wizards do not.
LEMMA StoreKeeps ==
    ASSUME StoreInv, ShopShape', UNCHANGED <<alias, wizard, claimed>>,
           \/ record' = record /\ known' = known
           \/ (\A p \in Products : record'[p] = None) /\ known' = {},
           \A w \in Ids : Used(w) => Used(w)' /\ shop'[w].madeFor = shop[w].madeFor,
           \A w \in Ids : ~Used(w) => shop'[w].madeFor = None,
           \A w \in Ids : shop'[w].live => shop[w].live \/ shop'[w].madeFor = None,
           \A w \in Ids : shop'[w].wrote = "ruo" /\ shop'[w].live => shop[w].wrote = "ruo" /\ shop[w].live,
           \A w \in Ids : shop'[w].sku = shop[w].sku \/ (Used(w)' /\ shop'[w].wrote = "brand")
    PROVE  ProvKept
<1>1. StoreInv'
  <2>1. SaneOps \subseteq SaneOps'
    BY SaneGrows
  <2>2. ASSUME NEW u \in Tabs PROVE wizard'[u].todo \in Seq(SaneOps)'
    <3>1. wizard'[u].todo \in Seq(SaneOps)
      BY DEF StoreInv
    <3>2. QED
      BY <2>1, <3>1, SeqGrows
  <2>3. NoBlindWrite'
    BY DEF StoreInv, NoBlindWrite, LiveIds
  <2>4. /\ \A p \in Products : record'[p] # None => record'[p].id \in claimed' /\ Used(record[p].id)'
        /\ \A p \in Products, w \in Ids : <<p, w>> \in known' => Used(w)'
    BY DEF StoreInv, ShopShape, Record
  <2>5. QED
    BY <2>2, <2>3, <2>4 DEF StoreInv
<1>2. ASSUME TabsInv, TwoFollow, TwoFollow' PROVE TabsInv'
  <2>1. ASSUME NEW u \in Tabs PROVE wizard'[u].todo \in Seq(NeatOps)'
    <3>1. wizard'[u].todo \in Seq(SaneOps) /\ wizard'[u].todo \in Seq(NeatOps)
      BY <1>2 DEF StoreInv, TabsInv
    <3>2. wizard'[u].todo \in Seq(SaneOps \cap NeatOps)
      BY <3>1, SeqBoth
    <3>3. QED
      BY <3>2, NeatGrows, SeqGrows
  <2>2. ASSUME NEW w \in Ids PROVE shop'[w].madeFor # None => shop'[w].sku = shop'[w].madeFor /\ shop'[w].madeFor = shop[w].madeFor
    BY <1>2 DEF TabsInv, TwoFollow
  <2>3. ASSUME NEW p \in Products, record'[p] # None
        PROVE  Own(p, record[p].id)' /\ (shop'[record'[p].id].madeFor # None => record'[p].sku = p)
    <3>1. record' = record /\ record[p].id \in Ids /\ Used(record[p].id)
      BY <2>3 DEF StoreInv, ShopShape, Record
    <3>2. QED
      BY <1>2, <2>3, <3>1 DEF TabsInv, Own
  <2>4. QED
    BY <1>2, <2>1, <2>2, <2>3 DEF TabsInv
<1>3. ASSUME OneInv, OneFollow, OneFollow' PROVE OneInv'
  <2>1. ASSUME NEW p \in Products, NEW w \in LiveIds', shop'[w].madeFor = p, <<p, w>> \in known'
        PROVE  /\ w \in LiveIds /\ shop[w].madeFor = p /\ <<p, w>> \in known /\ record' = record
    BY <2>1, NoneIsNone DEF LiveIds
  <2>2. ASSUME NEW p \in Products, NEW w, Only(p, w) PROVE Only(p, w)'
    BY <2>1, <2>2 DEF Only
  <2>3. LoneOps \subseteq LoneOps'
    <3>1. SUFFICES ASSUME NEW o \in Op, Lone(o) PROVE Lone(o)'
      BY DEF LoneOps
    <3>2. ASSUME o.op = "create" PROVE \A p \in o.items : Only(p, None)'
      BY <2>2, <3>1, <3>2 DEF Lone, Op
    <3>3. ASSUME o.op = "write" PROVE \A i \in o.items : i.record => Only(i.p, i.id)'
      BY <2>2, <3>1, <3>3 DEF Lone, Op
    <3>4. ASSUME o.op = "record" PROVE Resolve(alias', o.sku) = o.p /\ Only(o.p, o.id)'
      <4>1. o.p \in Products
        BY <3>4 DEF Op
      <4>2. QED
        BY <2>2, <3>1, <3>4, <4>1 DEF Lone
    <3>5. ASSUME o.op = "alias", o.record # None PROVE o.sku \in OwnSkus \cup {o.p} /\ Only(o.p, o.record)'
      <4>1. o.p \in Products
        BY <3>5 DEF Op
      <4>2. QED
        BY <2>2, <3>1, <3>5, <4>1 DEF Lone
    <3>6. QED
      BY <3>1, <3>2, <3>3, <3>4, <3>5 DEF Lone
  <2>4. ASSUME NEW u \in Tabs PROVE wizard'[u].todo \in Seq(LoneOps)' /\ Len(wizard'[u].todo) <= 1
    <3>1. wizard'[u].todo \in Seq(LoneOps) /\ Len(wizard'[u].todo) <= 1
      BY <1>3 DEF OneInv
    <3>2. QED
      BY <2>3, <3>1, SeqGrows
  <2>5. QED
    BY <1>3, <2>1, <2>4 DEF OneInv
<1>4. QED
  BY <1>1, <1>2, <1>3 DEF ProvKept

LEMMA FreeIsUnused == \A w : w \in FreeIds <=> w \in Ids /\ ~Used(w)
BY DEF FreeIds, Used

LEMMA BrandKeeps ==
    ASSUME StoreInv,
           \/ \E s \in ShopSkus : BrandCreates(s)
           \/ \E w \in Ids, s \in ShopSkus : BrandRenames(w, s)
           \/ \E w \in Ids : BrandDeletes(w)
           \/ Unlink \/ Relink
    PROVE  ProvKept
<1>0. /\ ShopShape /\ MaxEdits \in Nat /\ None \notin ShopSkus
      /\ NoProduct \in StoreProduct /\ NoProduct.madeFor = None /\ ~NoProduct.live
  BY ProvisionAssumption, NoneIsNone DEF StoreInv, NoProduct, StoreProduct
<1>1. ASSUME Edit PROVE edits' \in 0..MaxEdits /\ edits' = edits + 1 /\ link \in 0..MaxEdits + 1 /\ link <= edits'
                        /\ link \in 0..edits' + 1
  BY <1>0, <1>1 DEF Edit, ShopShape
<1>2. ASSUME NEW s \in ShopSkus, BrandCreates(s) PROVE ProvKept
  <2>1. PICK w \in Ids : /\ ~Used(w)
                         /\ shop' = [shop EXCEPT ![w] = [NoProduct EXCEPT !.live = TRUE, !.sku = s]]
    BY <1>2, FreeIsUnused DEF BrandCreates, NextIds
  <2>2. PICK x : x = [NoProduct EXCEPT !.live = TRUE, !.sku = s]
    OBVIOUS
  <2>3. x \in StoreProduct /\ x.sku = s /\ x.madeFor = None /\ x.wrote = "brand" /\ x # NoProduct
    BY <1>0, <2>2 DEF NoProduct, StoreProduct
  <2>4. /\ shop' \in [Ids -> StoreProduct] /\ shop'[w] = x /\ \A v \in Ids \ {w} : shop'[v] = shop[v]
    BY <1>0, <2>1, <2>2, <2>3 DEF ShopShape
  <2>5. ShopShape'
    <3>1. \A v \in Ids : Used(v)' => shop'[v].sku \in ShopSkus
      BY <1>0, <2>3, <2>4 DEF ShopShape, Used
    <3>2. /\ UNCHANGED <<link, record, alias, wizard, claimed, known>> /\ edits' \in 0..MaxEdits
          /\ link \in 0..MaxEdits + 1 /\ link <= edits' + 1
      <4>1. Edit /\ UNCHANGED <<link, record, alias, wizard, claimed, known>>
        BY <1>2 DEF BrandCreates
      <4>2. QED
        BY <1>0, <1>1, <4>1
    <3>3. QED
      BY <1>0, <2>4, <3>1, <3>2 DEF ShopShape
  <2>6. shop[w] = NoProduct
    BY <2>1 DEF Used
  <2>7. /\ \A v \in Ids : Used(v) => Used(v)' /\ shop'[v].madeFor = shop[v].madeFor
        /\ \A v \in Ids : ~Used(v) => shop'[v].madeFor = None
        /\ \A v \in Ids : shop'[v].live => shop[v].live \/ shop'[v].madeFor = None
        /\ \A v \in Ids : shop'[v].wrote = "ruo" /\ shop'[v].live => shop[v].wrote = "ruo" /\ shop[v].live
        /\ \A v \in Ids : shop'[v].sku = shop[v].sku \/ (Used(v)' /\ shop'[v].wrote = "brand")
    BY <1>0, <2>1, <2>3, <2>4 DEF Used
  <2>8. QED
    BY <1>2, <2>5, <2>7, StoreKeeps DEF BrandCreates
<1>3. ASSUME NEW w \in Ids, NEW s \in ShopSkus, BrandRenames(w, s) PROVE ProvKept
  <2>1. PICK x : x = [shop[w] EXCEPT !.sku = s, !.wrote = "brand"]
    OBVIOUS
  <2>2. shop[w] \in StoreProduct /\ shop[w].live
    BY <1>0, <1>3 DEF ShopShape, BrandRenames, LiveIds
  <2>3. /\ x \in StoreProduct /\ x.sku = s /\ x.madeFor = shop[w].madeFor /\ x.wrote = "brand" /\ x.live
        /\ x # NoProduct
    BY <1>0, <2>1, <2>2 DEF StoreProduct
  <2>4. /\ shop' \in [Ids -> StoreProduct] /\ shop'[w] = x /\ \A v \in Ids \ {w} : shop'[v] = shop[v]
    <3>1. shop' = [shop EXCEPT ![w] = x]
      BY <1>3, <2>1 DEF BrandRenames
    <3>2. QED
      BY <1>0, <2>3, <3>1 DEF ShopShape
  <2>5. ShopShape'
    BY <1>0, <1>1, <1>3, <2>3, <2>4 DEF ShopShape, BrandRenames, Used
  <2>6. Used(w)
    BY <1>0, <2>2 DEF Used
  <2>7. /\ \A v \in Ids : Used(v) => Used(v)' /\ shop'[v].madeFor = shop[v].madeFor
        /\ \A v \in Ids : ~Used(v) => shop'[v].madeFor = None
        /\ \A v \in Ids : shop'[v].live => shop[v].live \/ shop'[v].madeFor = None
        /\ \A v \in Ids : shop'[v].wrote = "ruo" /\ shop'[v].live => shop[v].wrote = "ruo" /\ shop[v].live
        /\ \A v \in Ids : shop'[v].sku = shop[v].sku \/ (Used(v)' /\ shop'[v].wrote = "brand")
    BY <1>0, <2>2, <2>3, <2>4, <2>6 DEF Used
  <2>8. QED
    BY <1>3, <2>5, <2>7, StoreKeeps DEF BrandRenames
<1>4. ASSUME NEW w \in Ids, BrandDeletes(w) PROVE ProvKept
  <2>1. PICK x : x = [shop[w] EXCEPT !.live = FALSE]
    OBVIOUS
  <2>2. shop[w] \in StoreProduct /\ Used(w) /\ shop[w].sku \in ShopSkus
    BY <1>0, <1>4, LiveIsUsed DEF ShopShape, BrandDeletes
  <2>3. /\ x \in StoreProduct /\ x.sku = shop[w].sku /\ x.madeFor = shop[w].madeFor /\ x.wrote = shop[w].wrote /\ ~x.live
    BY <1>0, <2>1, <2>2 DEF StoreProduct
  <2>4. x # NoProduct
    BY <1>0, <2>2, <2>3 DEF NoProduct
  <2>5. /\ shop' \in [Ids -> StoreProduct] /\ shop'[w] = x /\ \A v \in Ids \ {w} : shop'[v] = shop[v]
    <3>1. shop' = [shop EXCEPT ![w] = x]
      BY <1>4, <2>1 DEF BrandDeletes
    <3>2. QED
      BY <1>0, <2>3, <3>1 DEF ShopShape
  <2>6. ShopShape'
    BY <1>0, <1>1, <1>4, <2>2, <2>3, <2>5 DEF ShopShape, BrandDeletes, Used
  <2>7. /\ \A v \in Ids : Used(v) => Used(v)' /\ shop'[v].madeFor = shop[v].madeFor
        /\ \A v \in Ids : ~Used(v) => shop'[v].madeFor = None
        /\ \A v \in Ids : shop'[v].live => shop[v].live \/ shop'[v].madeFor = None
        /\ \A v \in Ids : shop'[v].wrote = "ruo" /\ shop'[v].live => shop[v].wrote = "ruo" /\ shop[v].live
        /\ \A v \in Ids : shop'[v].sku = shop[v].sku \/ (Used(v)' /\ shop'[v].wrote = "brand")
    BY <1>0, <2>2, <2>3, <2>4, <2>5 DEF Used
  <2>8. QED
    BY <1>4, <2>6, <2>7, StoreKeeps DEF BrandDeletes
<1>5. CASE Unlink \/ Relink
  <2>1. shop' = shop /\ UNCHANGED <<alias, wizard, claimed>>
    BY <1>5 DEF Unlink, Relink
  <2>2. \/ record' = record /\ known' = known
        \/ (\A p \in Products : record'[p] = None) /\ known' = {}
    BY <1>5 DEF Unlink, Relink
  <2>3. link' \in 0..MaxEdits + 1 /\ edits' \in 0..MaxEdits /\ link' <= edits' + 1
    BY <1>0, <1>5 DEF Unlink, Relink, Edit, ShopShape
  <2>4. record' \in [Products -> Record \cup {None}]
    BY <1>0, <1>5 DEF Unlink, Relink, ShopShape
  <2>5. ShopShape'
    BY <1>0, <2>1, <2>2, <2>3, <2>4 DEF ShopShape, Used
  <2>6. \A v \in Ids : ~Used(v) => shop[v].madeFor = None
    BY <1>0 DEF Used
  <2>7. QED
    BY <2>1, <2>2, <2>5, <2>6, StoreKeeps DEF Used
<1>6. QED
  BY <1>2, <1>3, <1>4, <1>5

\* A call of a commit: the operation is made and leaves the rest of the commit.
LEMMA ThenIs ==
    ASSUME ShopShape, NEW t \in Tabs, NEW more, Then(t, more), wizard[t].todo # << >>,
           NEW X, NEW Y, X \subseteq Y, Y \subseteq Op, more \in Seq(Y), \A u \in Tabs : wizard[u].todo \in Seq(X)
    PROVE  /\ wizard' \in [Tabs -> Wizard]
           /\ \A u \in Tabs : wizard'[u].todo \in Seq(Y)
           /\ \A u \in Tabs \ {t} : wizard'[u] = wizard[u]
           /\ wizard'[t].todo = more \o Tail(wizard[t].todo)
<1>1. PICK todo : todo = more \o Tail(wizard[t].todo)
  OBVIOUS
<1>2. todo \in Seq(Y)
  <2>1. Tail(wizard[t].todo) \in Seq(X)
    BY HeadTailProperties
  <2>2. Tail(wizard[t].todo) \in Seq(Y)
    BY <2>1, SeqGrows
  <2>3. QED
    BY <1>1, <2>2, ConcatProperties
<1>3. todo \in Seq(Op)
  BY <1>2, SeqGrows
<1>4. PICK k : k = [wizard[t] EXCEPT !.todo = todo]
  OBVIOUS
<1>5. wizard' = [wizard EXCEPT ![t] = k]
  BY <1>1, <1>4 DEF Then
<1>6. k \in Wizard /\ k.todo = todo
  BY <1>3, <1>4, WizardTypes, WizardIs
<1>7. wizard' \in [Tabs -> Wizard] /\ wizard'[t] = k /\ \A u \in Tabs \ {t} : wizard'[u] = wizard[u]
  BY <1>5, <1>6, WizardPut
<1>8. ASSUME NEW u \in Tabs PROVE wizard'[u].todo \in Seq(Y)
  <2>1. CASE u = t
    BY <1>2, <1>6, <1>7, <2>1
  <2>2. CASE u # t
    <3>1. wizard[u].todo \in Seq(Y)
      BY SeqGrows
    <3>2. QED
      BY <1>7, <2>2, <3>1
  <2>3. QED
    BY <2>1, <2>2
<1>9. QED
  BY <1>1, <1>6, <1>7, <1>8

StoreShape ==
    /\ shop \in [Ids -> StoreProduct] /\ \A w \in Ids : Used(w) => shop[w].sku \in ShopSkus
    /\ link \in 0..MaxEdits + 1 /\ edits \in 0..MaxEdits /\ link <= edits + 1
    /\ record \in [Products -> Record \cup {None}]
    /\ alias \in [ShopSkus -> Products \cup {None}]
    /\ claimed \in SUBSET Ids
    /\ known \in SUBSET (Products \X Ids)

\* The parts of the invariants that are about the store and the records.
Sound ==
    /\ StoreShape /\ NoBlindWrite
    /\ \A p \in Products : record[p] # None => record[p].id \in claimed /\ Used(record[p].id)
    /\ \A p \in Products, w \in Ids : <<p, w>> \in known => Used(w)

Paired ==
    /\ \A w \in Ids : shop[w].madeFor # None => shop[w].sku = shop[w].madeFor
    /\ \A w, v \in Ids : shop[w].madeFor # None /\ shop[v].madeFor = shop[w].madeFor => w = v
    /\ \A p \in Products : record[p] # None =>
           Own(p, record[p].id) /\ (shop[record[p].id].madeFor # None => record[p].sku = p)

ByRecord ==
    \A p \in Products, w \in LiveIds :
        shop[w].madeFor = p /\ <<p, w>> \in known => record[p] # None /\ record[p].id = w

LEMMA PartsOf ==
    /\ StoreInv <=> Sound /\ wizard \in [Tabs -> Wizard] /\ \A t \in Tabs : wizard[t].todo \in Seq(SaneOps)
    /\ TabsInv <=> Paired /\ \A t \in Tabs : wizard[t].todo \in Seq(NeatOps)
    /\ OneInv <=> ByRecord /\ \A t \in Tabs : wizard[t].todo \in Seq(LoneOps) /\ Len(wizard[t].todo) <= 1
BY DEF StoreInv, ShopShape, Sound, StoreShape, TabsInv, Paired, OneInv, ByRecord

LEMMA CallKeeps ==
    ASSUME StoreInv, NEW t \in Tabs, wizard[t].busy, wizard[t].todo # << >>, NEW more, Then(t, more),
           Sound', claimed \subseteq claimed', \A w \in Ids : Used(w) => Used(w)',
           more \in Seq(SaneOps)',
           TabsInv /\ TwoFollow =>
               Paired' /\ more \in Seq(NeatOps)' /\ \A w \in Ids : Used(w) => shop'[w].madeFor = shop[w].madeFor,
           OneInv /\ OneFollow => ByRecord' /\ more \in Seq(LoneOps)' /\ Len(more) <= 1
    PROVE  ProvKept
<1>0. /\ SaneOps' \subseteq Op /\ NeatOps' \subseteq Op /\ SaneOps \subseteq SaneOps' /\ ShopShape
      /\ \A u \in Tabs : wizard[u].todo \in Seq(SaneOps)
  BY SaneGrows DEF SaneOps, NeatOps, StoreInv
<1>1. /\ wizard' \in [Tabs -> Wizard] /\ \A u \in Tabs : wizard'[u].todo \in Seq(SaneOps)'
      /\ \A u \in Tabs \ {t} : wizard'[u] = wizard[u]
      /\ wizard'[t].todo = more \o Tail(wizard[t].todo)
  <2>1. PICK X, Y : X = SaneOps /\ Y = SaneOps'
    OBVIOUS
  <2>2. /\ wizard' \in [Tabs -> Wizard] /\ \A u \in Tabs : wizard'[u].todo \in Seq(Y)
        /\ \A u \in Tabs \ {t} : wizard'[u] = wizard[u]
        /\ wizard'[t].todo = more \o Tail(wizard[t].todo)
    BY <1>0, <2>1, ThenIs
  <2>3. QED
    BY <2>1, <2>2
<1>2. StoreInv'
  <2>1. Sound' /\ wizard' \in [Tabs -> Wizard] /\ \A u \in Tabs : wizard'[u].todo \in Seq(SaneOps)'
    BY <1>1
  <2>2. QED
    BY <2>1 DEF StoreInv, ShopShape, Sound, StoreShape
<1>3. ASSUME TabsInv, TwoFollow PROVE TabsInv'
  <2>1. PICK X, Y : X = SaneOps \cap NeatOps /\ Y = NeatOps'
    OBVIOUS
  <2>2. \A u \in Tabs : wizard[u].todo \in Seq(X)
    <3>1. ASSUME NEW u \in Tabs PROVE wizard[u].todo \in Seq(SaneOps \cap NeatOps)
      BY <1>0, <1>3, SeqBoth DEF TabsInv
    <3>2. QED
      BY <2>1, <3>1
  <2>3. X \subseteq Y
    BY <1>3, <2>1, NeatGrows
  <2>4. \A u \in Tabs : wizard'[u].todo \in Seq(Y)
    BY <1>0, <1>3, <2>1, <2>2, <2>3, ThenIs
  <2>5. Paired' /\ \A u \in Tabs : wizard'[u].todo \in Seq(NeatOps)'
    BY <1>3, <2>1, <2>4
  <2>6. QED
    BY <2>5 DEF TabsInv, Paired
<1>4. ASSUME OneInv, OneFollow PROVE OneInv'
  <2>1. ASSUME NEW u \in Tabs PROVE wizard'[u].todo \in Seq(LoneOps)' /\ Len(wizard'[u].todo) <= 1
    <3>1. CASE u = t
      <4>1. wizard[t].todo \in Seq(LoneOps) /\ Len(wizard[t].todo) <= 1
        BY <1>4 DEF OneInv
      <4>2. Tail(wizard[t].todo) = << >>
        <5>1. Tail(wizard[t].todo) \in Seq(LoneOps) /\ Len(Tail(wizard[t].todo)) = Len(wizard[t].todo) - 1
          BY <4>1, HeadTailProperties
        <5>2. Len(wizard[t].todo) \in Nat /\ Len(Tail(wizard[t].todo)) \in Nat
          BY <4>1, <5>1, LenProperties
        <5>3. Len(Tail(wizard[t].todo)) = 0
          <6>1. PICK m, n : m = Len(wizard[t].todo) /\ n = Len(Tail(wizard[t].todo))
            OBVIOUS
          <6>2. m \in Nat /\ n \in Nat /\ m <= 1 /\ n = m - 1
            BY <4>1, <5>1, <5>2, <6>1
          <6>3. n = 0
            BY <6>2
          <6>4. QED
            BY <6>1, <6>3
        <5>4. QED
          BY <5>1, <5>3, EmptySeq
      <4>3. wizard'[t].todo = more
        BY <1>1, <1>4, <4>2, ConcatEmptySeq
      <4>4. QED
        BY <1>4, <3>1, <4>3
    <3>2. CASE u # t
      <4>1. wizard'[u] = Fresh
        <5>1. wizard[t] # Fresh
          BY FreshShape
        <5>2. QED
          BY <1>1, <1>4, <3>2, <5>1 DEF OneFollow
      <4>2. wizard'[u].todo = << >>
        BY <4>1, FreshShape
      <4>3. QED
        BY <4>2
    <3>3. QED
      BY <3>1, <3>2
  <2>2. ByRecord'
    BY <1>4
  <2>3. QED
    BY <2>1, <2>2 DEF OneInv, ByRecord
<1>5. QED
  BY <1>2, <1>3, <1>4 DEF ProvKept

\* The operation a call makes.
LEMMA HeadIs ==
    ASSUME StoreInv, NEW t \in Tabs, NEW op, Next1(t, op), NEW o, o = Head(wizard[t].todo)
    PROVE  /\ wizard[t].busy /\ wizard[t].todo # << >> /\ o \in Op /\ o.op = op /\ Sane(o)
           /\ TabsInv => Neat(o)
           /\ OneInv => Lone(o)
<1>1. wizard[t].busy /\ wizard[t].todo # << >> /\ o.op = op
  BY DEF Next1
<1>2. o \in SaneOps
  BY <1>1, HeadTailProperties DEF StoreInv
<1>3. TabsInv => o \in NeatOps
  BY <1>1, HeadTailProperties DEF TabsInv
<1>4. OneInv => o \in LoneOps
  BY <1>1, HeadTailProperties DEF OneInv
<1>5. QED
  BY <1>1, <1>2, <1>3, <1>4 DEF SaneOps, NeatOps, LoneOps

LEMMA NewProductIs ==
    ASSUME NEW p \in Products
    PROVE  LET n == NewProduct(p)
           IN  n \in StoreProduct /\ n # NoProduct /\ n.live /\ n.sku = p /\ n.wrote = "ruo" /\ n.madeFor = p
BY DEF NewProduct, StoreProduct, NoProduct, ShopSkus

LEMMA CreateKeeps ==
    ASSUME StoreInv, NEW t \in Tabs, CreateBatch(t)
    PROVE  ProvKept
<1> DEFINE o == Head(wizard[t].todo)
           free == {p \in o.items : WithSku(p) = {}}
<1>0. \E ids \in Injection(free, NextIds(Cardinality(free))) :
          /\ shop' = [w \in Ids |->
                        IF \E p \in free : ids[p] = w
                        THEN NewProduct(CHOOSE p \in free : ids[p] = w)
                        ELSE shop[w]]
          /\ claimed' = claimed \cup {ids[p] : p \in free}
          /\ \E order \in SetToSeqs(free) :
               Then(t, [i \in DOMAIN order |-> RecordOp(order[i], ids[order[i]], order[i], FALSE, FALSE)])
  BY DEF CreateBatch
<1>4. o = Head(wizard[t].todo) /\ free = {p \in o.items : WithSku(p) = {}}
  OBVIOUS
<1>. HIDE DEF o, free
<1>1. PICK ids \in Injection(free, NextIds(Cardinality(free))) :
          /\ shop' = [w \in Ids |->
                        IF \E p \in free : ids[p] = w
                        THEN NewProduct(CHOOSE p \in free : ids[p] = w)
                        ELSE shop[w]]
          /\ claimed' = claimed \cup {ids[p] : p \in free}
          /\ \E order \in SetToSeqs(free) :
               Then(t, [i \in DOMAIN order |-> RecordOp(order[i], ids[order[i]], order[i], FALSE, FALSE)])
  BY <1>0, Zenon
<1>21. PICK order \in SetToSeqs(free) :
          Then(t, [i \in DOMAIN order |-> RecordOp(order[i], ids[order[i]], order[i], FALSE, FALSE)])
  BY <1>1, Zenon
<1>2. /\ wizard[t].busy /\ wizard[t].todo # << >> /\ o \in Op /\ o.op = "create"
      /\ OneInv => Lone(o)
  BY <1>4, HeadIs DEF CreateBatch
<1>3. free \in SUBSET Products /\ free \subseteq o.items /\ IsFiniteSet(free)
  <2>1. o.items \in SUBSET Products
    BY <1>2 DEF Op
  <2>2. free \in SUBSET Products /\ free \subseteq o.items /\ IsFiniteSet(Products)
    BY <1>4, <2>1, ProvisionAssumption
  <2>3. QED
    BY <2>2, FS_Subset
<1>5. PICK more : more = [i \in DOMAIN order |-> RecordOp(order[i], ids[order[i]], order[i], FALSE, FALSE)]
  OBVIOUS
<1>6. UNCHANGED <<link, edits, record, alias, known>>
  BY DEF CreateBatch
<1>7. /\ ids \in [free -> NextIds(Cardinality(free))]
      /\ \A p, q \in free : ids[p] = ids[q] => p = q
  BY <1>1 DEF Injection, IsInjective
<1>8. ASSUME NEW p \in free PROVE ids[p] \in Ids /\ ids[p] # None /\ ~Used(ids[p])
  BY <1>7, <1>8, FreeIsUnused, NoneIsNone DEF NextIds
<1>9. ASSUME NEW p \in free PROVE shop'[ids[p]] = NewProduct(p)
  <2>1. PICK q \in free : q = (CHOOSE r \in free : ids[r] = ids[p]) /\ ids[q] = ids[p]
    OBVIOUS
  <2>2. q = p
    BY <1>7, <2>1
  <2>3. shop'[ids[p]] = NewProduct(CHOOSE r \in free : ids[r] = ids[p])
    BY <1>1, <1>8
  <2>4. QED
    BY <2>1, <2>2, <2>3
<1>10. ASSUME NEW w \in Ids
       PROVE  \/ shop'[w] = shop[w]
              \/ \E p \in free : w = ids[p] /\ shop'[w] = NewProduct(p) /\ ~Used(w)
  <2>1. CASE \E p \in free : ids[p] = w
    BY <1>8, <1>9, <2>1
  <2>2. CASE ~\E p \in free : ids[p] = w
    BY <1>1, <2>2
  <2>3. QED
    BY <2>1, <2>2
<1>11. ASSUME NEW w \in Ids, Used(w) PROVE shop'[w] = shop[w] /\ Used(w)'
  BY <1>10, <1>11 DEF Used
<1>12. StoreShape /\ NoProduct.madeFor = None /\ ~NoProduct.live
  BY PartsOf DEF Sound, NoProduct
<1>13. StoreShape'
  <2>1. shop' \in [Ids -> StoreProduct]
    <3>1. \A w \in Ids : shop'[w] \in StoreProduct
      BY <1>3, <1>10, <1>12, NewProductIs DEF StoreShape
    <3>2. QED
      BY <1>1, <3>1
  <2>2. \A w \in Ids : Used(w)' => shop'[w].sku \in ShopSkus
    BY <1>3, <1>10, <1>12, NewProductIs DEF StoreShape, Used, ShopSkus
  <2>3. claimed' \in SUBSET Ids
    BY <1>1, <1>8, <1>12 DEF StoreShape
  <2>4. QED
    BY <1>6, <1>12, <2>1, <2>2, <2>3 DEF StoreShape
<1>14. Sound'
  <2>1. NoBlindWrite'
    <3>1. SUFFICES ASSUME NEW w \in Ids, shop'[w].live, shop'[w].wrote = "ruo" PROVE w \in claimed'
      BY DEF NoBlindWrite, LiveIds
    <3>2. CASE shop'[w] = shop[w]
      BY <1>1, <3>1, <3>2 DEF StoreInv, NoBlindWrite, LiveIds
    <3>3. CASE \E p \in free : w = ids[p]
      BY <1>1, <3>3
    <3>4. QED
      BY <1>10, <3>2, <3>3
  <2>2. \A p \in Products : record'[p] # None => record'[p].id \in claimed' /\ Used(record[p].id)'
    BY <1>1, <1>6, <1>11, <1>12 DEF StoreInv, StoreShape, Record
  <2>3. \A p \in Products, w \in Ids : <<p, w>> \in known' => Used(w)'
    BY <1>6, <1>11 DEF StoreInv
  <2>4. QED
    BY <1>6, <1>13, <2>1, <2>2, <2>3 DEF Sound
<1>15. ASSUME NEW p \in free
       PROVE  LET n == RecordOp(p, ids[p], p, FALSE, FALSE)
              IN  /\ n \in Op /\ n.op = "record" /\ n.p = p /\ n.id = ids[p] /\ n.sku = p
  <2>1. PICK a \in BOOLEAN : a = FALSE
    OBVIOUS
  <2>2. p \in Products /\ p \in ShopSkus /\ ids[p] \in Ids
    BY <1>3, <1>8, <1>15 DEF ShopSkus
  <2>3. PICK n : n = RecordOp(p, ids[p], p, a, a)
    OBVIOUS
  <2>4. n \in Op /\ n.op = "record" /\ n.p = p /\ n.id = ids[p] /\ n.sku = p
    BY <2>2, <2>3, RecordOpIs
  <2>5. n = RecordOp(p, ids[p], p, FALSE, FALSE)
    BY <2>1, <2>3
  <2>6. QED
    BY <2>4, <2>5
<1>16. ASSUME NEW X, \A p \in free : RecordOp(p, ids[p], p, FALSE, FALSE) \in X
       PROVE  more \in Seq(X) /\ Len(more) = Cardinality(free)
  <2>1. DOMAIN more = DOMAIN order /\ more = [i \in DOMAIN more |-> more[i]]
    BY <1>5
  <2>2. \A i \in DOMAIN order : order[i] \in free => more[i] \in X
    BY <1>5, <1>16
  <2>3. QED
    BY <1>3, <1>1, <2>1, <2>2, InOrder
<1>17. more \in Seq(SaneOps)'
  <2>1. ASSUME NEW p \in free PROVE RecordOp(p, ids[p], p, FALSE, FALSE) \in SaneOps'
    <3>1. Used(ids[p])'
      BY <1>3, <1>9, <2>1, NewProductIs DEF Used
    <3>2. QED
      BY <1>15, <2>1, <3>1 DEF SaneOps, Sane
  <2>2. QED
    BY <1>16, <2>1
<1>18. ASSUME TabsInv, TwoFollow
       PROVE  Paired' /\ more \in Seq(NeatOps)' /\ \A w \in Ids : Used(w) => shop'[w].madeFor = shop[w].madeFor
  <2>0. Paired
    BY <1>18, PartsOf
  <2>1. ASSUME NEW w \in Ids, NEW p \in free PROVE shop[w].madeFor # p
    <3>1. SUFFICES ASSUME shop[w].madeFor = p PROVE FALSE
      OBVIOUS
    <3>2. p # None /\ shop[w].sku = p
      BY <1>3, <2>0, <2>1, <3>1, NoneIsNone DEF Paired
    <3>3. Used(w) /\ shop[w].live
      BY <1>12, <1>18, <3>1, <3>2 DEF Used, TwoFollow
    <3>4. w \in WithSku(p)
      BY <2>1, <3>2, <3>3 DEF WithSku, LiveIds
    <3>5. QED
      BY <1>4, <2>1, <3>4
  <2>2. \A w \in Ids : shop'[w].madeFor # None => shop'[w].sku = shop'[w].madeFor
    BY <1>3, <1>10, <2>0, NewProductIs DEF Paired
  <2>3. ASSUME NEW w \in Ids, NEW v \in Ids, shop'[w].madeFor # None, shop'[v].madeFor = shop'[w].madeFor
        PROVE  w = v
    <3>1. CASE shop'[w] = shop[w] /\ shop'[v] = shop[v]
      BY <2>0, <2>3, <3>1 DEF Paired
    <3>2. CASE \E p \in free : w = ids[p] /\ shop'[w] = NewProduct(p)
      <4>1. PICK p \in free : w = ids[p] /\ shop'[w].madeFor = p
        BY <1>3, <3>2, NewProductIs
      <4>2. shop'[v] # shop[v]
        BY <2>1, <2>3, <4>1
      <4>3. PICK q \in free : v = ids[q] /\ shop'[v].madeFor = q
        BY <1>3, <1>10, <4>2, NewProductIs
      <4>4. QED
        BY <2>3, <4>1, <4>3
    <3>3. CASE \E p \in free : v = ids[p] /\ shop'[v] = NewProduct(p)
      <4>1. PICK p \in free : v = ids[p] /\ shop'[v].madeFor = p
        BY <1>3, <3>3, NewProductIs
      <4>2. shop'[w] # shop[w]
        BY <2>1, <2>3, <4>1
      <4>3. PICK q \in free : w = ids[q] /\ shop'[w].madeFor = q
        BY <1>3, <1>10, <4>2, NewProductIs
      <4>4. QED
        BY <2>3, <4>1, <4>3
    <3>4. QED
      BY <1>10, <3>1, <3>2, <3>3
  <2>4. ASSUME NEW p \in Products, record'[p] # None
        PROVE  Own(p, record[p].id)' /\ (shop'[record'[p].id].madeFor # None => record'[p].sku = p)
    <3>1. record' = record /\ record[p].id \in Ids /\ Used(record[p].id)
      BY <1>6, <1>12, <2>4 DEF StoreInv, StoreShape, Record
    <3>2. QED
      BY <1>11, <2>0, <2>4, <3>1 DEF Paired, Own
  <2>5. ASSUME NEW p \in free PROVE RecordOp(p, ids[p], p, FALSE, FALSE) \in NeatOps'
    <3>1. Own(p, ids[p])'
      BY <1>3, <1>9, <2>5, NewProductIs DEF Own
    <3>2. QED
      BY <1>15, <2>5, <3>1 DEF NeatOps, Neat
  <2>6. more \in Seq(NeatOps)'
    BY <1>16, <2>5
  <2>7. Paired'
    BY <2>2, <2>3, <2>4 DEF Paired
  <2>8. QED
    BY <1>11, <2>6, <2>7
<1>19. ASSUME OneInv, OneFollow PROVE ByRecord' /\ more \in Seq(LoneOps)' /\ Len(more) <= 1
  <2>0. ByRecord /\ Lone(o)
    BY <1>2, <1>19, PartsOf
  <2>1. ASSUME NEW p \in Products, NEW w \in Ids, shop'[w].live, shop'[w].madeFor = p, <<p, w>> \in known'
        PROVE  w \in LiveIds /\ shop[w].madeFor = p /\ <<p, w>> \in known
    BY <1>6, <1>11, <2>1 DEF StoreInv, LiveIds
  <2>2. ByRecord'
    BY <1>6, <2>0, <2>1 DEF ByRecord, LiveIds
  <2>3. ASSUME NEW p \in free PROVE RecordOp(p, ids[p], p, FALSE, FALSE) \in LoneOps'
    <3>1. Only(p, None)
      BY <1>2, <1>3, <2>0, <2>3 DEF Lone
    <3>2. Only(p, ids[p])'
      <4>1. SUFFICES ASSUME NEW v \in LiveIds', shop'[v].madeFor = p, <<p, v>> \in known' PROVE FALSE
        BY <1>8, <2>3 DEF Only
      <4>2. v \in Ids /\ v # None /\ v \in LiveIds /\ shop[v].madeFor = p /\ <<p, v>> \in known
        BY <1>3, <2>1, <2>3, <4>1, NoneIsNone DEF LiveIds
      <4>3. QED
        BY <3>1, <4>2 DEF Only
    <3>3. Resolve(alias', p) = p
      BY <1>3, <2>3 DEF Resolve
    <3>4. QED
      BY <1>15, <2>3, <3>2, <3>3 DEF LoneOps, Lone
  <2>4. Cardinality(free) <= 1
    <3>1. CASE free = {}
      BY <3>1, FS_EmptySet
    <3>2. CASE free # {}
      <4>1. PICK p : free = {p}
        BY <1>2, <1>3, <2>0, <3>2 DEF Lone
      <4>2. Cardinality(free) = 1
        BY <4>1, FS_Singleton
      <4>3. QED
        BY <4>2
    <3>3. QED
      BY <3>1, <3>2
  <2>5. QED
    BY <1>16, <2>2, <2>3, <2>4
<1>20. claimed \subseteq claimed' /\ Then(t, more)
  BY <1>1, <1>21, <1>5
<1>22. QED
  BY <1>2, <1>11, <1>14, <1>17, <1>18, <1>19, <1>20, CallKeeps

LEMMA WriteKeeps ==
    ASSUME StoreInv, NEW t \in Tabs, WriteBatch(t)
    PROVE  ProvKept
<1> DEFINE items == Head(wizard[t].todo).items
           done == {i \in items : shop[i.id].live /\ WithSku(i.sku) \subseteq {i.id}}
<1>1. /\ shop' = [w \in Ids |->
                    IF \E i \in done : i.id = w
                    THEN [shop[w] EXCEPT !.wrote = "ruo", !.sku = (CHOOSE i \in done : i.id = w).sku]
                    ELSE shop[w]]
      /\ \E again \in SetToSeqs({i \in done : i.record}) :
           Then(t, [j \in DOMAIN again |-> RecordOp(again[j].p, again[j].id, again[j].sku, None, FALSE)])
  BY DEF WriteBatch
<1>2. PICK o : o = Head(wizard[t].todo)
  OBVIOUS
<1>3. items = o.items /\ \A i \in done : i \in items /\ shop[i.id].live
  BY <1>2
<1>. HIDE DEF items, done
<1>4. PICK again \in SetToSeqs({i \in done : i.record}) :
          Then(t, [j \in DOMAIN again |-> RecordOp(again[j].p, again[j].id, again[j].sku, None, FALSE)])
  BY <1>1, Zenon
<1>5. PICK S : S = {i \in done : i.record}
  OBVIOUS
<1>6. PICK more : more = [j \in DOMAIN again |-> RecordOp(again[j].p, again[j].id, again[j].sku, None, FALSE)]
  OBVIOUS
<1>7. UNCHANGED <<link, edits, record, alias, claimed, known>>
  BY DEF WriteBatch
<1>8. /\ wizard[t].busy /\ wizard[t].todo # << >> /\ o \in Op /\ o.op = "write" /\ Sane(o)
      /\ TabsInv => Neat(o)
      /\ OneInv => Lone(o)
  BY <1>2, HeadIs DEF WriteBatch
<1>9. items \in SUBSET Item /\ IsFiniteSet(items)
  BY <1>3, <1>8 DEF Op, Item, Sane
<1>10. S \in SUBSET items /\ IsFiniteSet(S)
  <2>1. S \in SUBSET items
    BY <1>3, <1>5
  <2>2. QED
    BY <1>9, <2>1, FS_Subset
<1>11. ASSUME NEW i \in done
       PROVE  /\ i \in items /\ i \in Item /\ i.p \in Products /\ i.id \in Ids /\ i.sku \in ShopSkus
              /\ shop[i.id].live /\ i.id \in claimed /\ (i.record => i.sku = i.p)
  BY <1>3, <1>8, <1>9, <1>11 DEF Sane, Item
<1>12. StoreShape /\ ~NoProduct.live /\ None \notin ShopSkus
  BY PartsOf, NoneIsNone DEF Sound, NoProduct
<1>13. ASSUME NEW w \in Ids
       PROVE  \/ shop'[w] = shop[w]
              \/ \E i \in done : /\ i.id = w /\ shop[w].live /\ shop[w] \in StoreProduct
                                 /\ shop'[w] \in StoreProduct /\ shop'[w].sku = i.sku /\ shop'[w].wrote = "ruo"
                                 /\ shop'[w].live /\ shop'[w].madeFor = shop[w].madeFor
  <2>1. CASE \E i \in done : i.id = w
    <3>1. PICK i \in done : i = (CHOOSE j \in done : j.id = w) /\ i.id = w
      BY <2>1
    <3>2. shop'[w] = [shop[w] EXCEPT !.wrote = "ruo", !.sku = (CHOOSE j \in done : j.id = w).sku]
      BY <1>1, <2>1
    <3>3. shop'[w] = [shop[w] EXCEPT !.wrote = "ruo", !.sku = i.sku]
      BY <3>1, <3>2
    <3>4. shop[w] \in StoreProduct /\ shop[w].live /\ i.sku \in ShopSkus
      BY <1>11, <1>12, <3>1 DEF StoreShape
    <3>5. PICK x, y : x = shop[w] /\ y = shop'[w]
      OBVIOUS
    <3>6. y = [x EXCEPT !.wrote = "ruo", !.sku = i.sku] /\ x \in StoreProduct /\ x.live
      BY <3>3, <3>4, <3>5
    <3>7. y \in StoreProduct /\ y.sku = i.sku /\ y.wrote = "ruo" /\ y.live /\ y.madeFor = x.madeFor
      BY <3>4, <3>6 DEF StoreProduct
    <3>8. QED
      BY <3>1, <3>4, <3>5, <3>7
  <2>2. CASE ~\E i \in done : i.id = w
    BY <1>1, <2>2
  <2>3. QED
    BY <2>1, <2>2
<1>14. ASSUME NEW w \in Ids
       PROVE  /\ shop'[w].live = shop[w].live /\ shop'[w].madeFor = shop[w].madeFor
              /\ Used(w) => Used(w)'
  <2>1. CASE shop'[w] = shop[w]
    BY <2>1 DEF Used
  <2>2. CASE shop'[w] # shop[w]
    <3>1. shop'[w].live /\ shop[w].live /\ shop'[w].madeFor = shop[w].madeFor
      BY <1>13, <2>2
    <3>2. shop'[w] # NoProduct
      BY <1>12, <3>1
    <3>3. shop'[w].live = shop[w].live
      BY <1>12, <1>13, <2>2 DEF StoreProduct
    <3>4. QED
      BY <3>1, <3>2, <3>3 DEF Used
  <2>3. QED
    BY <2>1, <2>2
<1>15. StoreShape'
  <2>1. shop' \in [Ids -> StoreProduct]
    <3>1. \A w \in Ids : shop'[w] \in StoreProduct
      BY <1>12, <1>13 DEF StoreShape
    <3>2. QED
      BY <1>1, <3>1
  <2>2. \A w \in Ids : Used(w)' => shop'[w].sku \in ShopSkus
    BY <1>11, <1>12, <1>13 DEF StoreShape, Used
  <2>3. QED
    BY <1>7, <1>12, <2>1, <2>2 DEF StoreShape
<1>16. Sound'
  <2>1. NoBlindWrite'
    BY <1>7, <1>11, <1>13 DEF StoreInv, NoBlindWrite, LiveIds
  <2>2. \A p \in Products : record'[p] # None => record'[p].id \in claimed' /\ Used(record[p].id)'
    BY <1>7, <1>12, <1>14 DEF StoreInv, StoreShape, Record
  <2>3. \A p \in Products, w \in Ids : <<p, w>> \in known' => Used(w)'
    BY <1>7, <1>14 DEF StoreInv
  <2>4. QED
    BY <1>7, <1>15, <2>1, <2>2, <2>3 DEF Sound
<1>17. ASSUME NEW i \in S
       PROVE  /\ i \in done /\ i.record /\ i.sku = i.p
              /\ LET n == RecordOp(i.p, i.id, i.sku, None, FALSE)
                 IN  n \in Op /\ n.op = "record" /\ n.p = i.p /\ n.id = i.id /\ n.sku = i.p
  <2>1. i \in done /\ i.record /\ i.sku = i.p
    BY <1>5, <1>11, <1>17
  <2>2. PICK b \in BOOLEAN : b = FALSE
    OBVIOUS
  <2>3. PICK n : n = RecordOp(i.p, i.id, i.sku, None, b)
    OBVIOUS
  <2>4. i.p \in Products /\ i.id \in Ids /\ i.sku \in ShopSkus
    BY <1>11, <2>1
  <2>5. n \in Op /\ n.op = "record" /\ n.p = i.p /\ n.id = i.id /\ n.sku = i.sku
    BY <2>3, <2>4, RecordAgainIs
  <2>6. n = RecordOp(i.p, i.id, i.sku, None, FALSE)
    BY <2>2, <2>3
  <2>7. QED
    BY <2>1, <2>5, <2>6
<1>18. ASSUME NEW X, \A i \in S : RecordOp(i.p, i.id, i.sku, None, FALSE) \in X
       PROVE  more \in Seq(X) /\ Len(more) = Cardinality(S)
  <2>1. DOMAIN more = DOMAIN again /\ more = [j \in DOMAIN more |-> more[j]]
    BY <1>6
  <2>2. \A j \in DOMAIN again : again[j] \in S => more[j] \in X
    BY <1>6, <1>18
  <2>3. again \in SetToSeqs(S)
    BY <1>5
  <2>4. QED
    BY <1>10, <2>1, <2>2, <2>3, InOrder
<1>19. more \in Seq(SaneOps)'
  <2>1. ASSUME NEW i \in S PROVE RecordOp(i.p, i.id, i.sku, None, FALSE) \in SaneOps'
    <3>1. Used(i.id)'
      <4>1. i.id \in Ids /\ shop[i.id].live
        BY <1>11, <1>17, <2>1
      <4>2. Used(i.id)
        BY <1>12, <4>1 DEF Used
      <4>3. QED
        BY <1>14, <4>1, <4>2
    <3>2. QED
      BY <1>17, <2>1, <3>1 DEF SaneOps, Sane
  <2>2. QED
    BY <1>18, <2>1
<1>20. ASSUME TabsInv, TwoFollow
       PROVE  Paired' /\ more \in Seq(NeatOps)' /\ \A w \in Ids : Used(w) => shop'[w].madeFor = shop[w].madeFor
  <2>0. Paired /\ Neat(o)
    BY <1>8, <1>20, PartsOf
  <2>1. ASSUME NEW i \in done PROVE Own(i.p, i.id) /\ (shop[i.id].madeFor # None => i.sku = i.p)
    BY <1>3, <1>8, <1>11, <2>0, <2>1 DEF Neat
  <2>2. \A w \in Ids : shop'[w].madeFor # None => shop'[w].sku = shop'[w].madeFor
    BY <1>13, <2>0, <2>1 DEF Paired, Own
  <2>3. \A w, v \in Ids : shop'[w].madeFor # None /\ shop'[v].madeFor = shop'[w].madeFor => w = v
    BY <1>14, <2>0 DEF Paired
  <2>4. ASSUME NEW p \in Products, record'[p] # None
        PROVE  Own(p, record[p].id)' /\ (shop'[record'[p].id].madeFor # None => record'[p].sku = p)
    <3>1. record' = record /\ record[p].id \in Ids
      BY <1>7, <1>12, <2>4 DEF StoreShape, Record
    <3>2. QED
      BY <1>14, <2>0, <2>4, <3>1 DEF Paired, Own
  <2>5. ASSUME NEW i \in S PROVE RecordOp(i.p, i.id, i.sku, None, FALSE) \in NeatOps'
    <3>1. Own(i.p, i.id)'
      BY <1>11, <1>14, <1>17, <2>1, <2>5 DEF Own
    <3>2. QED
      BY <1>17, <2>5, <3>1 DEF NeatOps, Neat
  <2>6. more \in Seq(NeatOps)'
    BY <1>18, <2>5
  <2>7. Paired'
    BY <2>2, <2>3, <2>4 DEF Paired
  <2>8. QED
    BY <1>14, <2>6, <2>7
<1>21. ASSUME OneInv, OneFollow PROVE ByRecord' /\ more \in Seq(LoneOps)' /\ Len(more) <= 1
  <2>0. ByRecord /\ Lone(o)
    BY <1>8, <1>21, PartsOf
  <2>1. LiveIds' = LiveIds /\ \A w \in LiveIds : shop'[w].madeFor = shop[w].madeFor
    BY <1>14 DEF LiveIds
  <2>2. ByRecord'
    BY <1>7, <2>0, <2>1 DEF ByRecord
  <2>3. ASSUME NEW i \in S PROVE RecordOp(i.p, i.id, i.sku, None, FALSE) \in LoneOps'
    <3>1. Only(i.p, i.id)
      BY <1>3, <1>8, <1>11, <1>17, <2>0, <2>3 DEF Lone
    <3>2. Only(i.p, i.id)'
      BY <1>7, <2>1, <3>1 DEF Only
    <3>3. Resolve(alias', i.p) = i.p
      BY <1>11, <1>17, <2>3 DEF Resolve
    <3>4. QED
      BY <1>17, <2>3, <3>2, <3>3 DEF LoneOps, Lone
  <2>4. Cardinality(S) <= 1
    <3>1. CASE S = {}
      BY <3>1, FS_EmptySet
    <3>2. CASE S # {}
      <4>0. \A x, y \in o.items : x = y
        BY <1>8, <2>0 DEF Lone
      <4>1. PICK i : S = {i}
        BY <1>3, <1>10, <3>2, <4>0
      <4>2. Cardinality(S) = 1
        BY <4>1, FS_Singleton
      <4>3. QED
        BY <4>2
    <3>3. QED
      BY <3>1, <3>2
  <2>5. QED
    BY <1>18, <2>2, <2>3, <2>4
<1>22. Then(t, more) /\ claimed \subseteq claimed'
  BY <1>4, <1>6, <1>7
<1>23. QED
  BY <1>8, <1>14, <1>16, <1>19, <1>20, <1>21, <1>22, CallKeeps

LEMMA UpsertKeeps ==
    ASSUME StoreInv, NEW t \in Tabs, UpsertProvisioning(t)
    PROVE  ProvKept
<1>1. PICK o : o = Head(wizard[t].todo)
  OBVIOUS
<1>2. /\ wizard[t].busy /\ wizard[t].todo # << >> /\ o \in Op /\ o.op = "record" /\ Sane(o)
      /\ TabsInv => Neat(o)
      /\ OneInv => Lone(o)
  BY <1>1, HeadIs DEF UpsertProvisioning
<1>3. /\ o.p \in Products /\ o.id \in Ids /\ o.sku \in ShopSkus /\ o.adopted \in BOOLEAN \cup {None}
      /\ o.alias \in BOOLEAN /\ Used(o.id)
  BY <1>2 DEF Op, Sane
<1>4. PICK more, r :
          /\ more = IF o.alias THEN <<AliasOp(o.p, o.sku, None)>> ELSE << >>
          /\ r = [id |-> o.id, sku |-> o.sku,
                  adopted |-> IF o.adopted # None THEN o.adopted
                              ELSE IF record[o.p] = None THEN FALSE ELSE record[o.p].adopted]
  OBVIOUS
<1>5. /\ record' = [record EXCEPT ![o.p] = r]
      /\ claimed' = claimed \cup {o.id}
      /\ known' = known \cup {<<o.p, o.id>>}
      /\ Then(t, more)
      /\ UNCHANGED <<shop, link, edits, alias>>
  BY <1>1, <1>4 DEF UpsertProvisioning
<1>6. StoreShape /\ Sound
  BY PartsOf DEF Sound
<1>7. r \in Record /\ r.id = o.id /\ r.sku = o.sku /\ r # None
  <2>1. record[o.p] = None \/ record[o.p].adopted \in BOOLEAN
    BY <1>3, <1>6 DEF StoreShape, Record
  <2>2. PICK a \in BOOLEAN : a = IF o.adopted # None THEN o.adopted
                                 ELSE IF record[o.p] = None THEN FALSE ELSE record[o.p].adopted
    BY <1>3, <2>1
  <2>3. r = [id |-> o.id, sku |-> o.sku, adopted |-> a]
    BY <1>4, <2>2
  <2>4. r \in Record /\ r.id = o.id /\ r.sku = o.sku
    BY <1>3, <2>3 DEF Record
  <2>5. QED
    BY <2>4, NoRecordAssumption
<1>8. /\ record' \in [Products -> Record \cup {None}] /\ record'[o.p] = r
      /\ \A p \in Products \ {o.p} : record'[p] = record[p]
  BY <1>3, <1>5, <1>6, <1>7 DEF StoreShape
<1>9. \A w : Used(w)' <=> Used(w)
  BY <1>5 DEF Used
<1>10. Sound'
  <2>1. StoreShape'
    BY <1>3, <1>5, <1>6, <1>8, <1>9 DEF StoreShape
  <2>2. NoBlindWrite'
    BY <1>5, <1>6 DEF Sound, NoBlindWrite, LiveIds
  <2>3. ASSUME NEW p \in Products, record'[p] # None PROVE record'[p].id \in claimed' /\ Used(record[p].id)'
    <3>1. CASE p = o.p
      BY <1>3, <1>5, <1>7, <1>8, <3>1 DEF Used
    <3>2. CASE p # o.p
      BY <1>5, <1>6, <1>8, <2>3, <3>2 DEF Sound, Used
    <3>3. QED
      BY <3>1, <3>2
  <2>4. \A p \in Products, w \in Ids : <<p, w>> \in known' => Used(w)'
    BY <1>3, <1>5, <1>6, <1>9 DEF Sound
  <2>5. QED
    BY <2>1, <2>2, <2>3, <2>4 DEF Sound
<1>11. ASSUME NEW X, AliasOp(o.p, o.sku, None) \in X PROVE more \in Seq(X) /\ Len(more) <= 1
  BY <1>4, <1>11, OneOrNone
<1>12. LET n == AliasOp(o.p, o.sku, None) IN n \in Op /\ n.op = "alias" /\ n.record = None
  BY <1>3, AliasOpIs
<1>13. more \in Seq(SaneOps)'
  BY <1>11, <1>12 DEF SaneOps, Sane
<1>14. ASSUME TabsInv, TwoFollow
       PROVE  Paired' /\ more \in Seq(NeatOps)' /\ \A w \in Ids : Used(w) => shop'[w].madeFor = shop[w].madeFor
  <2>1. Paired /\ Neat(o)
    BY <1>2, <1>14, PartsOf
  <2>2. ASSUME NEW p \in Products, record'[p] # None
        PROVE  Own(p, record[p].id)' /\ (shop'[record'[p].id].madeFor # None => record'[p].sku = p)
    <3>1. CASE p = o.p
      BY <1>2, <1>5, <1>7, <1>8, <2>1, <3>1 DEF Own, Neat
    <3>2. CASE p # o.p
      BY <1>5, <1>8, <2>1, <2>2, <3>2 DEF Paired, Own
    <3>3. QED
      BY <3>1, <3>2
  <2>3. more \in Seq(NeatOps)'
    BY <1>11, <1>12 DEF NeatOps, Neat
  <2>4. QED
    BY <1>5, <2>1, <2>2, <2>3 DEF Paired
<1>15. ASSUME OneInv, OneFollow PROVE ByRecord' /\ more \in Seq(LoneOps)' /\ Len(more) <= 1
  <2>1. ByRecord /\ Lone(o)
    BY <1>2, <1>15, PartsOf
  <2>2. ASSUME NEW p \in Products, NEW w \in LiveIds, shop[w].madeFor = p, <<p, w>> \in known'
        PROVE  record'[p] # None /\ record'[p].id = w
    <3>1. CASE p = o.p
      <4>1. Only(o.p, o.id)
        BY <1>2, <2>1 DEF Lone
      <4>2. w = o.id
        BY <1>5, <2>2, <3>1, <4>1 DEF Only
      <4>3. QED
        BY <1>7, <1>8, <3>1, <4>2
    <3>2. CASE p # o.p
      <4>1. <<p, w>> \in known
        BY <1>5, <2>2, <3>2
      <4>2. QED
        BY <1>8, <2>1, <2>2, <3>2, <4>1 DEF ByRecord
    <3>3. QED
      BY <3>1, <3>2
  <2>3. ByRecord'
    BY <1>5, <2>2 DEF ByRecord, LiveIds
  <2>4. more \in Seq(LoneOps)' /\ Len(more) <= 1
    BY <1>11, <1>12 DEF LoneOps, Lone
  <2>5. QED
    BY <2>3, <2>4
<1>16. QED
  BY <1>2, <1>5, <1>9, <1>10, <1>13, <1>14, <1>15, CallKeeps

LEMMA AliasKeeps ==
    ASSUME StoreInv, NEW t \in Tabs, UpsertAlias(t)
    PROVE  ProvKept
<1>1. PICK o : o = Head(wizard[t].todo)
  OBVIOUS
<1>2. /\ wizard[t].busy /\ wizard[t].todo # << >> /\ o \in Op /\ o.op = "alias" /\ Sane(o)
      /\ TabsInv => Neat(o)
      /\ OneInv => Lone(o)
  BY <1>1, HeadIs DEF UpsertAlias
<1>3. o.p \in Products /\ o.sku \in ShopSkus /\ o.record \in Ids \cup {None}
  BY <1>2 DEF Op
<1>4. PICK more : more = IF o.record = None THEN << >> ELSE <<RecordOp(o.p, o.record, o.sku, None, FALSE)>>
  OBVIOUS
<1>5. /\ alias' = [alias EXCEPT ![o.sku] = o.p]
      /\ Then(t, more)
      /\ UNCHANGED <<shop, link, edits, record, claimed, known>>
  BY <1>1, <1>4 DEF UpsertAlias
<1>6. StoreShape /\ Sound
  BY PartsOf DEF Sound
<1>7. \A w : Used(w)' <=> Used(w)
  BY <1>5 DEF Used
<1>8. Sound'
  <2>1. StoreShape'
    BY <1>3, <1>5, <1>6, <1>7 DEF StoreShape
  <2>2. QED
    BY <1>5, <1>6, <1>7, <2>1 DEF Sound, NoBlindWrite, LiveIds, Used
<1>9. ASSUME NEW X, o.record # None => RecordOp(o.p, o.record, o.sku, None, FALSE) \in X
      PROVE  more \in Seq(X) /\ Len(more) <= 1
  BY <1>4, <1>9, OneOrNone
<1>10. ASSUME o.record # None
       PROVE  LET n == RecordOp(o.p, o.record, o.sku, None, FALSE)
              IN  n \in Op /\ n.op = "record" /\ n.p = o.p /\ n.id = o.record /\ n.sku = o.sku
  <2>1. PICK b \in BOOLEAN : b = FALSE
    OBVIOUS
  <2>2. PICK n : n = RecordOp(o.p, o.record, o.sku, None, b)
    OBVIOUS
  <2>3. o.p \in Products /\ o.record \in Ids /\ o.sku \in ShopSkus
    BY <1>3, <1>10
  <2>4. n \in Op /\ n.op = "record" /\ n.p = o.p /\ n.id = o.record /\ n.sku = o.sku
    BY <2>2, <2>3, RecordAgainIs
  <2>5. n = RecordOp(o.p, o.record, o.sku, None, FALSE)
    BY <2>1, <2>2
  <2>6. QED
    BY <2>4, <2>5
<1>11. more \in Seq(SaneOps)'
  <2>1. ASSUME o.record # None PROVE RecordOp(o.p, o.record, o.sku, None, FALSE) \in SaneOps'
    BY <1>2, <1>7, <1>10, <2>1 DEF SaneOps, Sane
  <2>2. QED
    BY <1>9, <2>1
<1>12. ASSUME TabsInv, TwoFollow
       PROVE  Paired' /\ more \in Seq(NeatOps)' /\ \A w \in Ids : Used(w) => shop'[w].madeFor = shop[w].madeFor
  <2>1. Paired /\ Neat(o)
    BY <1>2, <1>12, PartsOf
  <2>2. ASSUME o.record # None PROVE RecordOp(o.p, o.record, o.sku, None, FALSE) \in NeatOps'
    <3>1. o.sku = o.p /\ Own(o.p, o.record)'
      BY <1>2, <1>5, <2>1, <2>2 DEF Neat, Own
    <3>2. QED
      BY <1>10, <2>2, <3>1 DEF NeatOps, Neat
  <2>3. Paired'
    BY <1>5, <2>1 DEF Paired, Own
  <2>4. QED
    BY <1>5, <1>9, <2>2, <2>3
<1>13. ASSUME OneInv, OneFollow PROVE ByRecord' /\ more \in Seq(LoneOps)' /\ Len(more) <= 1
  <2>1. ByRecord /\ Lone(o)
    BY <1>2, <1>13, PartsOf
  <2>2. ASSUME o.record # None PROVE RecordOp(o.p, o.record, o.sku, None, FALSE) \in LoneOps'
    <3>1. o.sku \in OwnSkus \cup {o.p} /\ Only(o.p, o.record)
      BY <1>2, <2>1, <2>2 DEF Lone
    <3>2. Only(o.p, o.record)'
      BY <1>5, <3>1 DEF Only, LiveIds
    <3>3. Resolve(alias', o.sku) = o.p
      BY <1>3, <1>5, <1>6, <3>1, ProvisionAssumption DEF Resolve, StoreShape
    <3>4. QED
      BY <1>10, <2>2, <3>2, <3>3 DEF LoneOps, Lone
  <2>3. ByRecord'
    BY <1>5, <2>1 DEF ByRecord, LiveIds
  <2>4. QED
    BY <1>9, <2>2, <2>3
<1>14. QED
  BY <1>2, <1>5, <1>7, <1>8, <1>11, <1>12, <1>13, CallKeeps

LEMMA ProvisionStep == ASSUME StoreInv, ProvisionNext PROVE ProvKept
<1>1. CASE \E t \in Tabs, selected \in SUBSET Products : RunPreflight(t, selected)
  BY <1>1, PreflightKeeps
<1>2. CASE \E t \in Tabs, p \in Products, action \in Actions : Choose(t, p, action)
  BY <1>2, ScreenKeeps
<1>3. CASE \E t \in Tabs : Turn(t) \/ WizardRestart(t) \/ RunCommit(t)
  BY <1>3, ScreenKeeps, CommitKeeps
<1>4. CASE \E t \in Tabs : CreateBatch(t) \/ WriteBatch(t) \/ UpsertProvisioning(t)
                           \/ UpsertAlias(t) \/ CommitDone(t) \/ CommitFails(t)
  BY <1>4, CreateKeeps, WriteKeeps, UpsertKeeps, AliasKeeps, ScreenKeeps
<1>5. CASE \/ \E s \in ShopSkus : BrandCreates(s)
           \/ \E w \in Ids, s \in ShopSkus : BrandRenames(w, s)
           \/ \E w \in Ids : BrandDeletes(w)
           \/ Unlink \/ Relink
  BY <1>5, BrandKeeps
<1>6. QED
  BY <1>1, <1>2, <1>3, <1>4, <1>5 DEF ProvisionNext

\* A record that is written is one that a wizard has got ready.
LEMMA RecordsResolve ==
    ASSUME StoreInv, TabsInv \/ OneInv, ProvisionNext,
           NEW p \in Products, record'[p] # record[p], record'[p] # None
    PROVE  Resolve(alias', record'[p].sku) = p
<1>1. PICK t \in Tabs : UpsertProvisioning(t)
  BY DEF ProvisionNext, RunPreflight, Choose, Turn, WizardRestart, RunCommit, CreateBatch, WriteBatch, UpsertAlias,
         CommitDone, CommitFails, BrandCreates, BrandRenames, BrandDeletes, Unlink, Relink
<1>2. PICK o : o = Head(wizard[t].todo)
  OBVIOUS
<1>3. /\ wizard[t].todo # << >> /\ o \in Op /\ o.op = "record"
      /\ TabsInv => Neat(o)
      /\ OneInv => Lone(o)
  BY <1>1, <1>2, HeadIs DEF UpsertProvisioning
<1>4. PICK r : /\ record' = [record EXCEPT ![o.p] = r] /\ r.sku = o.sku
               /\ alias' = alias
  <2>1. PICK r : r = [id |-> o.id, sku |-> o.sku,
                      adopted |-> IF o.adopted # None THEN o.adopted
                                  ELSE IF record[o.p] = None THEN FALSE ELSE record[o.p].adopted]
    OBVIOUS
  <2>2. record' = [record EXCEPT ![o.p] = r] /\ alias' = alias
    BY <1>1, <1>2, <2>1 DEF UpsertProvisioning
  <2>3. r.sku = o.sku
    BY <2>1
  <2>. QED
    BY <2>2, <2>3
<1>5. record \in [Products -> Record \cup {None}]
  BY DEF StoreInv, ShopShape
<1>6. p = o.p /\ record'[p].sku = o.sku
  BY <1>4, <1>5
<1>7. CASE TabsInv
  BY <1>3, <1>4, <1>6, <1>7 DEF Neat, Resolve
<1>8. CASE OneInv
  BY <1>3, <1>4, <1>6, <1>8 DEF Lone
<1>9. QED
  BY <1>7, <1>8

\* Two wizards keep apart what they make, and one wizard what it makes one after the other.
ProvInv ==
    /\ StoreInv
    /\ In({"tabs"}) => TabsInv /\ TwoFollow
    /\ In({"shop"}) => OneInv /\ OneFollow
    /\ ~In({"shop", "tabs"}) => known = {}

LEMMA ProvisionBegins == MCInit => ProvInv
<1>1. SUFFICES ASSUME MCInit PROVE ProvInv
  OBVIOUS
<1>2. /\ shop = [w \in Ids |-> NoProduct]
      /\ link = 1 /\ edits = 0
      /\ record = [p \in Products |-> None]
      /\ alias = [s \in ShopSkus |-> None]
      /\ wizard = [t \in Tabs |-> Fresh]
      /\ claimed = {}
      /\ known = {}
  BY <1>1 DEF MCInit, ProvisionInit
<1>3. /\ NoProduct \in StoreProduct /\ NoProduct.madeFor = None /\ ~NoProduct.live
      /\ 0 \in 0..MaxEdits /\ 1 \in 0..MaxEdits + 1
      /\ Fresh \in Wizard /\ Fresh.todo = << >> /\ DOMAIN Fresh.rows = {}
  BY ProvisionAssumption, FreshShape DEF NoProduct, StoreProduct
<1>4. \A w \in Ids : ~Used(w)
  BY <1>2 DEF Used
<1>5. LiveIds = {}
  BY <1>2, <1>3 DEF LiveIds
<1>6. ASSUME NEW X, NEW t \in Tabs PROVE wizard[t].todo \in Seq(X) /\ Len(wizard[t].todo) <= 1
  <2>1. wizard[t].todo = << >>
    BY <1>2, <1>3
  <2>2. QED
    BY <2>1
<1>7. StoreShape
  BY <1>2, <1>3, <1>4 DEF StoreShape
<1>8. Sound
  BY <1>2, <1>5, <1>7 DEF Sound, NoBlindWrite
<1>9. Paired /\ ByRecord
  BY <1>2, <1>3, <1>5 DEF Paired, ByRecord
<1>10. wizard \in [Tabs -> Wizard]
  BY <1>2, <1>3
<1>11. StoreInv /\ TabsInv /\ OneInv
  BY <1>6, <1>8, <1>9, <1>10, PartsOf
<1>12. TwoFollow /\ OneFollow
  BY <1>2, <1>3, <1>4 DEF TwoFollow, OneFollow, Mapped
<1>13. QED
  BY <1>2, <1>11, <1>12 DEF ProvInv

LEMMA FollowIs ==
    ASSUME ProvisionFollows'
    PROVE  /\ In({"tabs"})' => TwoFollow'
           /\ In({"shop"})' => OneFollow'
<1>1. \A w \in Ids : Used(w)' => w \notin FreeIds'
  BY DEF FreeIds, Used
<1>2. QED
  BY <1>1 DEF ProvisionFollows, TwoFollow, OneFollow, Mapped

LEMMA ProvisionGoesOn == ProvInv /\ [MCNext]_shopVars => ProvInv'
<1>1. SUFFICES ASSUME ProvInv, [MCNext]_shopVars PROVE ProvInv'
  OBVIOUS
<1>2. CASE UNCHANGED <<provisionVars, scenario>>
  <2>1. SaneOps' = SaneOps /\ NeatOps' = NeatOps /\ LoneOps' = LoneOps
    BY <1>2 DEF provisionVars, SaneOps, NeatOps, LoneOps, Sane, Neat, Lone, Used, Own, Only, LiveIds
  <2>2. QED
    BY <1>1, <1>2, <2>1 DEF provisionVars, ProvInv, StoreInv, ShopShape, TabsInv, OneInv, NoBlindWrite, LiveIds, Used, Own,
           In, TwoFollow, OneFollow, Mapped
<1>3. CASE In({"shop", "tabs"}) /\ ProvisionNext /\ ProvisionFollows' /\ UNCHANGED scenario
  <2>1. ProvKept
    BY <1>1, <1>3, ProvisionStep DEF ProvInv
  <2>2. /\ In({"tabs"})' => In({"tabs"}) /\ TwoFollow'
        /\ In({"shop"})' => In({"shop"}) /\ OneFollow'
        /\ In({"shop", "tabs"})'
    BY <1>3, FollowIs DEF In
  <2>3. QED
    BY <1>1, <2>1, <2>2 DEF ProvInv, ProvKept
<1>4. QED
  BY <1>1, <1>2, <1>3 DEF MCNext, shopVars

LEMMA ProvisionHolds == MCSpec => []ProvInv
BY ProvisionBegins, ProvisionGoesOn, PTL DEF MCSpec

\* The types of the store, of the records and of the wizards (store-preflight.ts:119).
THEOREM ProvisionTyped == MCSpec => []ProvisionTypeOK
<1>1. ProvInv => ProvisionTypeOK
  BY ShopShapeType DEF ProvInv, StoreInv
<1>2. QED
  BY <1>1, ProvisionHolds, PTL

\* A commit writes only what the program made or the brand gave it, and makes nothing twice,
\* whatever the brand does to its store in between (provisioning.ts:147, store-preflight.ts:119).
THEOREM Respected == MCSpec => []ShopIsRespected
<1>1. ProvInv => ShopIsRespected
  <2>1. SUFFICES ASSUME ProvInv, NEW p \in Products
                 PROVE  Cardinality({w \in LiveIds : shop[w].madeFor = p /\ <<p, w>> \in known}) <= 1
    BY DEF ShopIsRespected, NoSecondProduct, ProvInv, StoreInv
  <2>2. PICK S : S = {w \in LiveIds : shop[w].madeFor = p /\ <<p, w>> \in known}
    OBVIOUS
  <2>3. p # None
    BY NoneIsNone
  <2>4. ASSUME NEW w \in S, NEW v \in S PROVE w = v
    <3>1. CASE In({"tabs"})
      BY <2>1, <2>2, <2>3, <2>4, <3>1 DEF ProvInv, TabsInv, LiveIds
    <3>2. CASE In({"shop"})
      BY <2>1, <2>2, <2>4, <3>2 DEF ProvInv, OneInv
    <3>3. CASE ~In({"shop", "tabs"})
      BY <2>1, <2>2, <2>4, <3>3 DEF ProvInv
    <3>4. QED
      BY <3>1, <3>2, <3>3 DEF In
  <2>5. Cardinality(S) <= 1
    <3>1. CASE S = {}
      BY <3>1, FS_EmptySet
    <3>2. CASE S # {}
      <4>1. PICK w : S = {w}
        BY <2>4, <3>2
      <4>2. Cardinality(S) = 1
        BY <4>1, FS_Singleton
      <4>3. QED
        BY <4>2
    <3>3. QED
      BY <3>1, <3>2
  <2>6. QED
    BY <2>2, <2>5
<1>2. QED
  BY <1>1, ProvisionHolds, PTL

\* Whenever a record is written, the SKU it records already leads the orders of the store to
\* its product (store-preflight.ts:288).
THEOREM Resolving == MCSpec => RecordedSkuResolves
<1>1. ASSUME ProvInv, [MCNext]_shopVars
      PROVE  [\A p \in Products : record'[p] # record[p] /\ record'[p] # None
                  => Resolve(alias', record'[p].sku) = p]_provisionVars
  <2>1. CASE UNCHANGED provisionVars
    BY <2>1
  <2>2. CASE In({"shop", "tabs"}) /\ ProvisionNext
    <3>1. StoreInv /\ (TabsInv \/ OneInv)
      BY <1>1, <2>2 DEF ProvInv, In
    <3>2. QED
      BY <2>2, <3>1, RecordsResolve
  <2>3. QED
    BY <1>1, <2>1, <2>2 DEF MCNext, shopVars
<1>2. QED
  BY <1>1, ProvisionHolds, PTL DEF MCSpec, RecordedSkuResolves

\* The types of all the parts that the scenarios move.
THEOREM ShopIsTyped == MCSpec => []TypeOK
<1>1. (CatalogTypeOK /\ ScreenTypeOK /\ ImportTypeOK) /\ ProvisionTypeOK /\ ConnectionTypeOK => TypeOK
  BY DEF TypeOK
<1>2. QED
  BY <1>1, ShopTyped, LinkTyped, ProvisionTyped, PTL
=============================================================================
