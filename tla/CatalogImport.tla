--------------------------- MODULE CatalogImport ---------------------------
\* The CSV import of the catalog (CatalogImport.tsx, admin-catalog-import.ts,
\* catalog-import.ts): a file is previewed line by line against the catalog, and the
\* commit classifies it again and writes only if nothing the operator saw has changed.
\* Of the columns a line has its SKU, one price, and whether the other required ones are there.
EXTENDS CatalogLifecycle

CONSTANTS Files,        \* the files at hand
          ChunkSize,    \* rows written in one transaction
          MaxRows,      \* rows a file may have
          MaxImports    \* previews and commits asked for

VARIABLES
    page,       \* the import page
    run,        \* the commit that the server runs
    approved,   \* history: the preview the operator approved
    written,    \* history: the lines this commit has written
    imports

importVars == <<page, run, approved, written, imports>>

(* The file. *)

Cells == {"blank", "bad", "price"}
Line == [sku: Skus \cup {Missing}, cell: Cells, cents: Prices, full: BOOLEAN, wide: BOOLEAN]
Headers == {"ok", "forbidden", "doubled", "nosku", "unreadable"}
File == [header: Headers, lines: Seq(Line)]

ASSUME FilesAssumption == Files \subseteq File /\ {ChunkSize, MaxRows, MaxImports} \subseteq Nat

\* A file is refused as a whole for its header, its size, or not being CSV.
FileRefused(f) == f.header # "ok" \/ Len(f.lines) > MaxRows \/ f.lines = <<>>

\* The export in the shape of the importer: what the list shows, every column filled.
\* None of the columns the importer refuses are in it.
ExportFile(ps) ==
    [header |-> "ok",
     lines |-> [i \in DOMAIN ps |-> [sku |-> product[ps[i]].sku, cell |-> "price", cents |-> product[ps[i]].price,
                                     full |-> TRUE, wide |-> FALSE]]]
\* The snapshot has the columns of the lifecycle as well.
ExportSnapshot(ps) == [ExportFile(ps) EXCEPT !.header = "forbidden"]

(* The preview: what each line would do. *)

Existing(sku) == {p \in Items : product[p] # Missing /\ product[p].sku = sku}
Duplicated(f, i) == \E j \in DOMAIN f.lines \ {i} : f.lines[j].sku = f.lines[i].sku

\* What is wrong with a line before the catalog is asked.
LineBad(f, i) ==
    LET l == f.lines[i] IN l.wide \/ l.sku = Missing \/ Duplicated(f, i) \/ l.cell = "bad"

PlanLine(sku, action, id, from, to) == [sku |-> sku, action |-> action, id |-> id, from |-> from, to |-> to]

\* A blank cell leaves the stored value alone; an archived product is refused, not created again.
ClassifyRow(f, i) ==
    LET l == f.lines[i] IN
    IF LineBad(f, i) THEN PlanLine(l.sku, "error", Missing, {}, {})
    ELSE IF Existing(l.sku) = {}
    THEN IF l.full /\ l.cell = "price" THEN PlanLine(l.sku, "create", Missing, {}, {l.cents})
                                       ELSE PlanLine(l.sku, "error", Missing, {}, {})
    ELSE LET p == CHOOSE q \in Items : q \in Existing(l.sku) IN
         IF product[p].archived THEN PlanLine(l.sku, "error", p, {}, {})
         ELSE IF l.cell = "blank" \/ l.cents = product[p].price THEN PlanLine(l.sku, "unchanged", p, {}, {})
         ELSE PlanLine(l.sku, "update", p, {product[p].price}, {l.cents})

BuildPreview(f) == [i \in DOMAIN f.lines |-> ClassifyRow(f, i)]

Actionable(rows) == {i \in DOMAIN rows : rows[i].action \in {"create", "update"}}

\* A slip: the digest leaves the old values out.
PreviewDigestTo(rows) == [i \in DOMAIN rows |-> [sku |-> rows[i].sku, action |-> rows[i].action,
                                                 change |-> rows[i].to]]

\* The fingerprint of what the operator approves: line, SKU, action, and every from and to.
PreviewDigest(rows) == [i \in DOMAIN rows |-> [sku |-> rows[i].sku, action |-> rows[i].action,
                                               change |-> <<rows[i].from, rows[i].to>>]]
(* The page. *)

NoPage == [file |-> Missing, preview |-> Missing, result |-> Missing, confirming |-> FALSE, busy |-> FALSE, stale |-> FALSE]
NoRun == [pc |-> "idle", file |-> Missing, digest |-> Missing, rows |-> <<>>, todo |-> {}, retry |-> {}, result |-> <<>>]

ImportInit == page = NoPage /\ run = NoRun /\ approved = Missing /\ written = {} /\ imports = 0

SendFile == imports < MaxImports /\ imports' = imports + 1

\* Until a file is previewed the page offers to choose one; the preview reads and writes nothing.
OnPick ==
    /\ page.preview = Missing /\ page.result = Missing /\ ~page.busy /\ SendFile
    /\ \E f \in Files \cup {ExportFile(o) : o \in {w \in Orderings : \A i \in DOMAIN w :
                                                   product[w[i]] # Missing /\ ~product[w[i]].archived}} :
          page' = IF FileRefused(f) THEN [page EXCEPT !.preview = Missing]
                  ELSE [page EXCEPT !.file = f, !.preview = BuildPreview(f), !.stale = FALSE]
    /\ UNCHANGED <<run, approved, written>>

AskConfirm ==
    /\ page.preview # Missing /\ page.result = Missing /\ ~page.busy /\ ~page.confirming
    /\ Actionable(page.preview) # {}
    /\ page' = [page EXCEPT !.confirming = TRUE]
    /\ UNCHANGED <<run, approved, written, imports>>

CancelConfirm ==
    /\ page.confirming
    /\ page' = [page EXCEPT !.confirming = FALSE]
    /\ UNCHANGED <<run, approved, written, imports>>

\* The file goes to the server once more, with the digest of the preview.
OnCommit ==
    /\ page.confirming /\ SendFile
    /\ page' = [page EXCEPT !.confirming = FALSE, !.busy = TRUE, !.stale = FALSE]
    /\ run' = [NoRun EXCEPT !.pc = "check", !.file = page.file, !.digest = PreviewDigest(page.preview)]
    /\ approved' = page.preview
    /\ written' = {}

\* "Choose a different file", also while a commit is on its way.
Reset ==
    /\ page.preview # Missing /\ page.result = Missing /\ ~page.confirming
    /\ page' = [NoPage EXCEPT !.busy = page.busy]
    /\ UNCHANGED <<run, approved, written, imports>>

(* The commit. *)

Answer(to) == page' = to /\ run' = NoRun /\ UNCHANGED <<approved, written, imports>>

\* A page that was reset has no file: the server refuses it as empty.
CommitEmpty ==
    /\ run.pc = "check" /\ run.file = Missing
    /\ Answer([page EXCEPT !.busy = FALSE])
    /\ UNCHANGED catalogVars

\* The catalog moved: the fresh preview goes back and nothing is written.
CommitStale ==
    /\ run.pc = "check" /\ run.file # Missing
    /\ PreviewDigest(BuildPreview(run.file)) # run.digest
    /\ Answer([page EXCEPT !.busy = FALSE, !.preview = BuildPreview(run.file), !.stale = TRUE])
    /\ UNCHANGED catalogVars

CommitStart ==
    /\ run.pc = "check" /\ run.file # Missing
    /\ LET rows == BuildPreview(run.file) IN
       /\ PreviewDigest(rows) = run.digest
       /\ run' = [run EXCEPT !.pc = "write", !.rows = rows, !.todo = Actionable(rows),
                             !.result = [i \in DOMAIN rows |-> IF i \in Actionable(rows) THEN "none" ELSE rows[i].action]]
    /\ UNCHANGED <<page, approved, written, imports, catalogVars>>

\* A row cannot be written when its SKU was taken, or its product deleted, since it was classified.
CannotWrite(r) == IF r.action = "create" THEN Taken(r.sku, Missing) ELSE product[r.id] = Missing

\* Neither the stock state, nor published, nor archived is ever in the data.
WriteRow(r, p) ==
    LET cents == CHOOSE c \in r.to : TRUE IN
    IF r.action = "create" THEN Draft(r.sku, cents, "soon") ELSE [product[p] EXCEPT !.price = cents]

\* The product of each row of S: an update is by id, a created row gets a free one.
Assignments(S) ==
    {ids \in [S -> Items] :
        /\ \A i, j \in S : i # j => ids[i] # ids[j]
        /\ \A i \in S : IF run.rows[i].action = "create" THEN product[ids[i]] = Missing
                                                         ELSE ids[i] = run.rows[i].id}

WriteRows(S) ==
    /\ ~\E i \in S : CannotWrite(run.rows[i])
    /\ \E ids \in Assignments(S) :
          product' = [p \in Items |-> IF \E i \in S : ids[i] = p
                                         THEN WriteRow(run.rows[CHOOSE i \in S : ids[i] = p], p) ELSE product[p]]
    /\ written' = written \cup S

Outcome(r) == IF r.action = "create" THEN "created" ELSE "updated"
Results(S) == [i \in DOMAIN run.result |-> IF i \in S THEN Outcome(run.rows[i]) ELSE run.result[i]]

\* The next rows in the order of the file.
Chunk == {i \in run.todo : Cardinality({j \in run.todo : j < i}) < ChunkSize}
First(S) == CHOOSE i \in S : \A j \in S : i <= j

\* A chunk is one transaction.
WriteChunk ==
    /\ run.pc = "write" /\ run.todo # {} /\ run.retry = {}
    /\ WriteRows(Chunk)
    /\ run' = [run EXCEPT !.todo = @ \ Chunk, !.result = Results(Chunk)]
    /\ UNCHANGED <<page, approved, imports, orders, records, shelf, health, job, missed, spent>>

\* A slip: what the failed chunk had written stays.
ChunkFailsHalf ==
    /\ run.pc = "write" /\ run.todo # {} /\ run.retry = {}
    /\ run' = [run EXCEPT !.retry = Chunk]
    /\ \/ WriteRows({First(Chunk)})
       \/ UNCHANGED <<product, written>>
    /\ UNCHANGED <<page, approved, imports, orders, records, shelf, health, job, missed, spent>>

\* A chunk that fails, for a row or for the database, is rolled back and retried row by row.
ChunkFails ==
    /\ run.pc = "write" /\ run.todo # {} /\ run.retry = {}
    /\ run' = [run EXCEPT !.retry = Chunk]
    /\ UNCHANGED <<page, approved, written, imports, catalogVars>>

\* A slip: a row that failed is tried again.
RetryRowKept ==
    /\ run.pc = "write" /\ run.retry # {}
    /\ LET i == First(run.retry) IN
       /\ \/ WriteRows({i}) /\ run' = [run EXCEPT !.todo = @ \ {i}, !.retry = @ \ {i}, !.result = Results({i})]
          \/ /\ run' = [run EXCEPT !.todo = @ \ {i}, !.result[i] = "error"]
             /\ UNCHANGED <<product, written>>
    /\ UNCHANGED <<page, approved, imports, orders, records, shelf, health, job, missed, spent>>

RetryRow ==
    /\ run.pc = "write" /\ run.retry # {}
    /\ LET i == First(run.retry) IN
       /\ \/ WriteRows({i}) /\ run' = [run EXCEPT !.todo = @ \ {i}, !.retry = @ \ {i}, !.result = Results({i})]
          \/ /\ run' = [run EXCEPT !.todo = @ \ {i}, !.retry = @ \ {i}, !.result[i] = "error"]
             /\ UNCHANGED <<product, written>>
    /\ UNCHANGED <<page, approved, imports, orders, records, shelf, health, job, missed, spent>>

CommitEnds ==
    /\ run.pc = "write" /\ run.todo = {}
    /\ Answer([page EXCEPT !.busy = FALSE, !.result = run.result])
    /\ UNCHANGED catalogVars

\* The server stops during a commit: what was committed stays, the page keeps its preview.
CommitDies ==
    /\ run.pc # "idle"
    /\ Answer([page EXCEPT !.busy = FALSE])
    /\ UNCHANGED catalogVars

Page == OnPick \/ AskConfirm \/ CancelConfirm \/ OnCommit \/ Reset
ImportNext ==
    \/ Page /\ UNCHANGED catalogVars
    \/ CommitEmpty \/ CommitStale \/ CommitStart
    \/ WriteChunk \/ ChunkFails \/ RetryRow \/ CommitEnds \/ CommitDies

(* Properties. *)

ImportTypeOK ==
    /\ page.busy \in BOOLEAN /\ page.confirming \in BOOLEAN /\ page.stale \in BOOLEAN
    /\ run.pc \in {"idle", "check", "write"}
    /\ run.retry \subseteq run.todo /\ run.todo \subseteq DOMAIN run.rows
    /\ \A p \in Items : product[p] # Missing => product[p] \in Row

\* What a commit starts to write is what the operator approved: each line it will write
\* had, in the approved preview, the same SKU, the same new value and, as the old value, the one
\* the catalog has now (catalog-import.ts:25 "must not become a blind overwrite of someone else's edit").
ApprovedIsCurrent ==
    [][run.pc = "check" /\ run'.pc = "write"
          => \A i \in run'.todo :
               LET r == approved[i] IN
               /\ r.action \in {"create", "update"} /\ r.to = run'.rows[i].to
               /\ r.action = "create" => Existing(r.sku) = {}
               /\ r.action = "update" => \E p \in Existing(r.sku) : r.from = {product[p].price}]_<<catalogVars, importVars>>

\* The result tells the truth line by line, whatever chunk failed and was retried: a line
\* reported as created or updated was written, a line reported as an error was not
\* (catalog-import.ts:198).
ResultIsTrue ==
    run.pc = "write" =>
        \A i \in DOMAIN run.result :
            /\ run.result[i] \in {"created", "updated"} <=> i \in written
            /\ run.todo = {} => run.result[i] # "none"
=============================================================================
