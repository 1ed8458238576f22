---------------------------- MODULE ProductImport ----------------------------
(***************************************************************************)
(* POST /products/import: ProductsImportService.importFromFile, the        *)
(* services it calls, and the controller's event stream                    *)
(* (src/src/products).  Several imports run at once, in one process, beside *)
(* an administrator who deletes products, over one database.               *)
(*                                                                         *)
(* One action is the code between two awaits, up to and including the      *)
(* database statement or transaction it awaits.  Any of them may fail, and *)
(* a transaction may have been committed though its answer is an error: the *)
(* connection is lost at the COMMIT.  The image store and the suppliers     *)
(* have no time limit, so an image may be waited for for ever.             *)
(*                                                                         *)
(* A file is the sequence of its groups, one per product:                  *)
(*   slug    slugify(name) of the product                                  *)
(*   params  the attributes of the main row (template.paramsKeysInDoc)     *)
(*   rows    its rows, one per variant, each with                          *)
(*             attrs     its attributes (template.attributesKeysInDoc)     *)
(*             sourceId  its supplier's identifier, NoSource when blank    *)
(* Identifiers the database draws are only ever compared, so the product   *)
(* of group g of import i is named <<i, g>>, and a batch by its import.    *)
(***************************************************************************)
EXTENDS WorkerPool, Sequences

CONSTANTS
    Imports,     \* the import requests
    File,        \* File[i]: the groups of the file import i carries
    Attributes,  \* the attributes (key and value) files mention
    NoSource,    \* the sourceId of a row that has none
    NoBatch,     \* the batchId of an event outside any batch
    MaxCrashes   \* bound on the restarts of the server

Groups(i) == 1..Len(File[i])
Rows(i, g) == 1..Len(File[i][g].rows)
SourceOf(i, g, r) == File[i][g].rows[r].sourceId

\* An empty file is refused before anything else, and a group has a row.
ASSUME FileAssumption ==
    \A i \in Imports :
        /\ Len(File[i]) \in Nat \ {0}
        /\ \A g \in Groups(i) :
              /\ Len(File[i][g].rows) \in Nat \ {0}
              /\ File[i][g].params \in Seq(Attributes)
              /\ \A r \in Rows(i, g) : File[i][g].rows[r].attrs \in Seq(Attributes)

ASSUME OtherAssumption == MaxCrashes \in Nat /\ NoBatch \notin Imports

ProductIds == UNION {{<<i, g>> : g \in Groups(i)} : i \in Imports}
ImportOf(p) == p[1]
GroupOf(p) == p[2]
SlugOf(p) == File[ImportOf(p)][GroupOf(p)].slug
RowsOf(p) == Rows(ImportOf(p), GroupOf(p))

VARIABLES
    \* the database
    products,    \* the products that exist
    variants,    \* variants[p][r]: how many variants of p came from row r
    attributes,  \* the attributes that exist
    auditLog,    \* the audit events written
    \* one import's generator, and the stream it feeds
    pc, group, row,
    todo,        \* the attributes getOrCreateMany has yet to return
    missing,     \* findOrCreate found none and is about to create it
    pool,        \* the call of mapWithConcurrency, see WorkerPool
    checked,     \* workers past ensureProductExists, about to insert
    made,        \* createdProducts
    events,      \* the events written to the response
    crashes

db == <<products, variants, attributes, auditLog>>
vars == <<products, variants, attributes, auditLog, pc, group, row, todo,
          missing, pool, checked, made, events, crashes>>

Created(p) == [action |-> "product.created", products |-> <<p>>, batch |-> ImportOf(p)]
Deleted(p) == [action |-> "product.deleted", products |-> <<p>>, batch |-> NoBatch]
Imported(i, ps) == [action |-> "products.imported", products |-> ps, batch |-> i]

Progress(n) == [type |-> "progress", current |-> n]
Done(n) == [type |-> "done", current |-> n]
Error == [type |-> "error", current |-> 0]

Init ==
    /\ products = {}
    /\ variants = [p \in ProductIds |-> [r \in RowsOf(p) |-> 0]]
    /\ attributes = {}
    /\ auditLog = {}
    /\ pc = [i \in Imports |-> "idle"]
    /\ group = [i \in Imports |-> 1]
    /\ row = [i \in Imports |-> 1]
    /\ todo = [i \in Imports |-> <<>>]
    /\ missing = [i \in Imports |-> FALSE]
    /\ pool = [i \in Imports |-> StartPool(0)]
    /\ checked = [i \in Imports |-> {}]
    /\ made = [i \in Imports |-> <<>>]
    /\ events = [i \in Imports |-> <<>>]
    /\ crashes = 0
-----------------------------------------------------------------------------
Current(i) == <<i, group[i]>>
Goto(i, label) == pc' = [pc EXCEPT ![i] = label]
Send(i, event) == events' = [events EXCEPT ![i] = Append(@, event)]

\* The generator throws, and the controller writes the error event and ends the
\* response.  What was written stays, and so do the workers of a running map.
Fail(i) == Goto(i, "error") /\ Send(i, Error)

\* The loop turns to group g: its attributes are looked up first.
EnterGroup(i, g) ==
    /\ group' = [group EXCEPT ![i] = g]
    /\ todo' = [todo EXCEPT ![i] = File[i][g].params]
    /\ Goto(i, "params")

\* importFromFile up to the loop: fallback category, template, file.
Begin(i) ==
    /\ pc[i] = "idle"
    /\ EnterGroup(i, 1)
    /\ UNCHANGED <<db, row, missing, pool, checked, made, events, crashes>>

\* The category or the template does not exist, or the file does not parse, is
\* empty or has no grouping column.
Refuse(i) ==
    /\ pc[i] = "idle"
    /\ Fail(i)
    /\ UNCHANGED <<db, group, row, todo, missing, pool, checked, made, crashes>>

\* findOrCreate's read.  The file may lack the attribute's column.
FindAttribute(i) ==
    /\ pc[i] \in {"params", "attrs"} /\ todo[i] # <<>> /\ ~missing[i]
    /\ \/ /\ Head(todo[i]) \in attributes
          /\ todo' = [todo EXCEPT ![i] = Tail(@)]
          /\ UNCHANGED <<pc, events, missing>>
       \/ /\ Head(todo[i]) \notin attributes
          /\ missing' = [missing EXCEPT ![i] = TRUE]
          /\ UNCHANGED <<pc, events, todo>>
       \/ Fail(i) /\ UNCHANGED <<todo, missing>>
    /\ UNCHANGED <<db, group, row, pool, checked, made, crashes>>

\* findOrCreate's create.  A unique index refuses what another import created
\* since the read, be it the attribute or, between the two halves of a
\* connectOrCreate, its key or its value; getOrCreateOne makes every error a
\* BadRequest.
CreateAttribute(i) ==
    LET attribute == Head(todo[i]) IN
    /\ missing[i] /\ pc[i] \in {"params", "attrs"}
    /\ missing' = [missing EXCEPT ![i] = FALSE]
    /\ \/ /\ attribute \notin attributes
          /\ attributes' = attributes \cup {attribute}
          /\ todo' = [todo EXCEPT ![i] = Tail(@)]
          /\ UNCHANGED <<pc, events>>
       \/ /\ attributes' \in {attributes, attributes \cup {attribute}}
          /\ Fail(i)
          /\ UNCHANGED todo
    /\ UNCHANGED <<products, variants, auditLog, group, row, pool, checked, made, crashes>>

\* The main row's image is found in the store or downloaded; either may fail.
FetchProductImage(i) ==
    /\ pc[i] = "params" /\ todo[i] = <<>>
    /\ (Goto(i, "create") /\ UNCHANGED events) \/ Fail(i)
    /\ UNCHANGED <<db, group, row, todo, missing, pool, checked, made, crashes>>

\* The slug has no unique index.
CreateProduct_BugAnySlug(i) ==
    /\ pc[i] = "create"
    /\ products' = products \cup {Current(i)}
    /\ auditLog' = auditLog \cup {Created(Current(i))}
    /\ row' = [row EXCEPT ![i] = 1]
    /\ todo' = [todo EXCEPT ![i] = File[i][group[i]].rows[1].attrs]
    /\ Goto(i, "attrs")
    /\ UNCHANGED <<variants, attributes, group, missing, pool, checked, made, events, crashes>>

\* The row and its audit event in one transaction; the slug has a unique index.
InsertProduct(i) ==
    /\ SlugOf(Current(i)) \notin {SlugOf(p) : p \in products}
    /\ products' = products \cup {Current(i)}
    /\ auditLog' = auditLog \cup {Created(Current(i))}

\* ProductsCommandService.createOne: the row and its audit event, or neither.
CreateProduct(i) ==
    /\ pc[i] = "create"
    /\ InsertProduct(i)
    /\ row' = [row EXCEPT ![i] = 1]
    /\ todo' = [todo EXCEPT ![i] = File[i][group[i]].rows[1].attrs]
    /\ Goto(i, "attrs")
    /\ UNCHANGED <<variants, attributes, group, missing, pool, checked, made, events, crashes>>

\* The audit event is written after the commit, and its failure fails the import.
CreateProductFails_BugCommitted(i) ==
    /\ pc[i] = "create"
    /\ products' \in {products} \cup
          {products \cup {p} : p \in {q \in {Current(i)} :
                                  SlugOf(q) \notin {SlugOf(o) : o \in products}}}
    /\ Fail(i)
    /\ UNCHANGED <<variants, attributes, auditLog, group, row, todo, missing,
                   pool, checked, made, crashes>>

\* The slug is taken, the category or an attribute has been deleted since it
\* was read, or the audit event cannot be written: the transaction rolls back.
\* Or only the answer to its COMMIT is lost, and both are there.
CreateProductFails(i) ==
    /\ pc[i] = "create"
    /\ InsertProduct(i) \/ UNCHANGED <<products, auditLog>>
    /\ Fail(i)
    /\ UNCHANGED <<variants, attributes, group, row, todo, missing, pool, checked,
                   made, crashes>>

\* The end of one turn of getVariantDtosFromFile: the row's images and tags.  An
\* image may not be had, and an unknown tag key is a BadRequest.
FetchRow(i) ==
    LET n == Len(File[i][group[i]].rows) IN
    /\ pc[i] = "attrs" /\ todo[i] = <<>>
    /\ \/ /\ row[i] < n
          /\ row' = [row EXCEPT ![i] = @ + 1]
          /\ todo' = [todo EXCEPT ![i] = File[i][group[i]].rows[row[i] + 1].attrs]
          /\ UNCHANGED <<pc, pool, events>>
       \/ /\ row[i] = n
          /\ pool' = [pool EXCEPT ![i] = StartPool(n)]
          /\ Goto(i, "map")
          /\ UNCHANGED <<row, todo, events>>
       \/ /\ Fail(i)
          /\ UNCHANGED <<row, todo, pool>>
    /\ UNCHANGED <<db, group, missing, checked, made, crashes>>

\* createFromImport, first await: ensureProductExists.
CheckProduct(i, w) ==
    /\ w \in Busy(pool[i]) \ checked[i]
    /\ Current(i) \in products
    /\ checked' = [checked EXCEPT ![i] = @ \cup {w}]
    /\ UNCHANGED <<db, pc, group, row, todo, missing, pool, made, events, crashes>>

SourceTaken(s) ==
    /\ s # NoSource
    /\ \E p \in products : \E r \in RowsOf(p) :
          variants[p][r] > 0 /\ SourceOf(ImportOf(p), GroupOf(p), r) = s

\* The map is not awaited as a whole: its first result lets the loop go on.
InsertVariant_BugFirstWins(i, w) ==
    LET r == pool[i].held[w] IN
    /\ w \in Busy(pool[i]) \cap checked[i]
    /\ Current(i) \in products
    /\ ~SourceTaken(SourceOf(i, group[i], r))
    /\ variants' = [variants EXCEPT ![Current(i)][r] = @ + 1]
    /\ pool' = [pool EXCEPT ![i] = ResolveItem(@, w)]
    /\ checked' = [checked EXCEPT ![i] = @ \ {w}]
    /\ IF pc[i] = "map" THEN Goto(i, "refetch") ELSE UNCHANGED pc
    /\ UNCHANGED <<products, attributes, auditLog, group, row, todo, missing,
                   made, events, crashes>>

\* The variant is attached to the last of createdProducts, where the product in
\* hand is not yet.
InsertVariant_BugLastCreated(i, w) ==
    LET r == pool[i].held[w]
        p == IF made[i] # <<>> THEN made[i][Len(made[i])] ELSE Current(i)
    IN
    /\ w \in Busy(pool[i]) \cap checked[i]
    /\ p \in products
    /\ ~SourceTaken(SourceOf(i, group[i], r))
    /\ variants' = [variants EXCEPT ![p][r] = @ + 1]
    /\ pool' = [pool EXCEPT ![i] = ResolveItem(@, w)]
    /\ checked' = [checked EXCEPT ![i] = @ \ {w}]
    /\ IF pool[i].promise = "pending" /\ pool'[i].promise = "resolved"
       THEN Goto(i, "refetch") ELSE UNCHANGED pc
    /\ UNCHANGED <<products, attributes, auditLog, group, row, todo, missing,
                   made, events, crashes>>

\* Nobody tells the generator that the map is over.
InsertVariant_BugNoHandover(i, w) ==
    LET r == pool[i].held[w] IN
    /\ w \in Busy(pool[i]) \cap checked[i]
    /\ Current(i) \in products
    /\ ~SourceTaken(SourceOf(i, group[i], r))
    /\ variants' = [variants EXCEPT ![Current(i)][r] = @ + 1]
    /\ pool' = [pool EXCEPT ![i] = ResolveItem(@, w)]
    /\ checked' = [checked EXCEPT ![i] = @ \ {w}]
    /\ UNCHANGED <<products, attributes, auditLog, pc, group, row, todo, missing,
                   made, events, crashes>>

\* createFromImport, second await: the insert, without an audit event.  The last
\* of the workers to finish hands over to the generator.
InsertVariant(i, w) ==
    LET r == pool[i].held[w] IN
    /\ w \in Busy(pool[i]) \cap checked[i]
    /\ Current(i) \in products
    /\ ~SourceTaken(SourceOf(i, group[i], r))
    /\ variants' = [variants EXCEPT ![Current(i)][r] = @ + 1]
    /\ pool' = [pool EXCEPT ![i] = ResolveItem(@, w)]
    /\ checked' = [checked EXCEPT ![i] = @ \ {w}]
    /\ IF pool[i].promise = "pending" /\ pool'[i].promise = "resolved"
       THEN Goto(i, "refetch") ELSE UNCHANGED pc
    /\ UNCHANGED <<products, attributes, auditLog, group, row, todo, missing,
                   made, events, crashes>>

\* Every failing worker reports to the client.
FailVariant_BugEachReports(i, w) ==
    /\ w \in Busy(pool[i])
    /\ pool' = [pool EXCEPT ![i] = RejectItem(@, w)]
    /\ checked' = [checked EXCEPT ![i] = @ \ {w}]
    /\ Fail(i)
    /\ UNCHANGED <<db, group, row, todo, missing, made, crashes>>

\* A failing row is tried again.
FailVariant_BugRetries(i, w) ==
    /\ w \in Busy(pool[i])
    /\ checked' = [checked EXCEPT ![i] = @ \ {w}]
    /\ UNCHANGED <<db, pc, group, row, todo, missing, pool, made, events, crashes>>

\* createFromImport throws: the product is gone before the check or before the
\* insert, the sourceId is taken, an attribute or tag it connects is gone, or the
\* database fails, perhaps with the answer to the insert's COMMIT only.  The first
\* failure of a map reaches the client while other workers go on.
FailVariant(i, w) ==
    LET r == pool[i].held[w] IN
    /\ w \in Busy(pool[i])
    /\ \/ /\ w \in checked[i] /\ Current(i) \in products
          /\ ~SourceTaken(SourceOf(i, group[i], r))
          /\ variants' = [variants EXCEPT ![Current(i)][r] = @ + 1]
       \/ UNCHANGED variants
    /\ pool' = [pool EXCEPT ![i] = RejectItem(@, w)]
    /\ checked' = [checked EXCEPT ![i] = @ \ {w}]
    /\ IF pool[i].promise = "pending" THEN Fail(i) ELSE UNCHANGED <<pc, events>>
    /\ UNCHANGED <<products, attributes, auditLog, group, row, todo, missing,
                   made, crashes>>

\* The event carries the index, not the count.
Report_BugIndex(i) ==
    /\ pc[i] = "refetch" /\ Current(i) \in products
    /\ made' = [made EXCEPT ![i] = Append(@, Current(i))]
    /\ Send(i, Progress(group[i] - 1))
    /\ IF group[i] < Len(File[i])
       THEN EnterGroup(i, group[i] + 1)
       ELSE Goto(i, "summary") /\ UNCHANGED <<group, todo>>
    /\ UNCHANGED <<db, row, missing, pool, checked, crashes>>

\* The product is read back, reported, and the loop goes on.  (The update of
\* imgUrl before it never runs: both URLs come from the same row.)
Report(i) ==
    /\ pc[i] = "refetch" /\ Current(i) \in products
    /\ made' = [made EXCEPT ![i] = Append(@, Current(i))]
    /\ Send(i, Progress(group[i]))
    /\ IF group[i] < Len(File[i])
       THEN EnterGroup(i, group[i] + 1)
       ELSE Goto(i, "summary") /\ UNCHANGED <<group, todo>>
    /\ UNCHANGED <<db, row, missing, pool, checked, crashes>>

\* A product that has gone is left out, and the loop goes on.
ReportFails_BugSkips(i) ==
    /\ pc[i] = "refetch" /\ Current(i) \notin products
    /\ IF group[i] < Len(File[i])
       THEN EnterGroup(i, group[i] + 1)
       ELSE Goto(i, "summary") /\ UNCHANGED <<group, todo>>
    /\ UNCHANGED <<db, row, missing, pool, checked, made, events, crashes>>

\* Someone has deleted the product in the meantime, or the read fails.
ReportFails(i) ==
    /\ pc[i] = "refetch"
    /\ Fail(i)
    /\ UNCHANGED <<db, group, row, todo, missing, pool, checked, made, crashes>>

\* The transaction of the summary event commits, or its failure is only logged.
Summarise(i) ==
    /\ pc[i] = "summary"
    /\ auditLog' \in {auditLog, auditLog \cup {Imported(i, made[i])}}
    /\ Goto(i, "closing")
    /\ UNCHANGED <<products, variants, attributes, group, row, todo, missing,
                   pool, checked, made, events, crashes>>

\* The commit has been answered, and the client is told `done`.
Finish(i) ==
    /\ pc[i] = "closing"
    /\ Goto(i, "done")
    /\ Send(i, Done(Len(made[i])))
    /\ UNCHANGED <<db, group, row, todo, missing, pool, checked, made, crashes>>

\* ProductsCommandService.delete by an administrator: its variants go with it.
DeleteProduct(p) ==
    /\ p \in products
    /\ products' = products \ {p}
    /\ variants' = [variants EXCEPT ![p] = [r \in RowsOf(p) |-> 0]]
    /\ auditLog' = auditLog \cup {Deleted(p)}
    /\ UNCHANGED <<attributes, pc, group, row, todo, missing, pool, checked,
                   made, events, crashes>>

\* The process restarts: every import in progress is gone, with its workers.
Ended == {"done", "error", "lost"}
Crash ==
    /\ crashes < MaxCrashes
    /\ crashes' = crashes + 1
    /\ pc' = [i \in Imports |-> IF pc[i] \in Ended \cup {"idle"} THEN pc[i] ELSE "lost"]
    /\ pool' = [i \in Imports |-> StartPool(0)]
    /\ checked' = [i \in Imports |-> {}]
    /\ UNCHANGED <<db, group, row, todo, missing, made, events>>

\* The steps that wait for the image store and the suppliers.
Fetch(i) == FetchProductImage(i) \/ FetchRow(i)

\* The steps that wait for the database, which answers or gives up.
Step(i) ==
    \/ FindAttribute(i) \/ CreateAttribute(i)
    \/ CreateProduct(i) \/ CreateProductFails(i)
    \/ Report(i) \/ ReportFails(i) \/ Summarise(i) \/ Finish(i)

Work(i, w) == CheckProduct(i, w) \/ InsertVariant(i, w) \/ FailVariant(i, w)

Next ==
    \/ \E i \in Imports : Begin(i) \/ Refuse(i) \/ Fetch(i) \/ Step(i)
    \/ \E i \in Imports, w \in Workers : Work(i, w)
    \/ \E p \in ProductIds : DeleteProduct(p)
    \/ Crash

\* What the process has started it goes on with: every statement returns or throws.
\* Nothing is assumed of Fetch: neither the S3 client nor HttpModule is given a
\* time limit.
Fairness ==
    \A i \in Imports :
        WF_vars(Step(i)) /\ \A w \in Workers : WF_vars(Work(i, w))

Spec == Init /\ [][Next]_vars /\ Fairness
-----------------------------------------------------------------------------
\* "Per product audit events are authoritative": the products that exist are the
\* ones the log says were created and not deleted, whatever failed or crashed
\* between the import's transactions.
LogExplainsProducts ==
    /\ products = {p \in ProductIds : Created(p) \in auditLog /\ Deleted(p) \notin auditLog}
    /\ \A p \in ProductIds : Deleted(p) \in auditLog => Created(p) \in auditLog

\* An import leaves a prefix of its file: every product it has reported has each
\* of its rows exactly once (unless somebody deleted it), at most one product
\* beyond those was created, and none of that one's rows is there twice.
ImportsPrefix ==
    \A i \in Imports :
        /\ \A n \in 1..Len(made[i]) :
              /\ made[i][n] = <<i, n>>
              /\ <<i, n>> \in products => \A r \in Rows(i, n) : variants[<<i, n>>][r] = 1
        /\ \A g \in Groups(i) :
              /\ Created(<<i, g>>) \in auditLog => g <= Len(made[i]) + 1
              /\ \A r \in Rows(i, g) : variants[<<i, g>>][r] <= 1

\* The summary event tells the truth: it is there only of an import that went
\* through its whole file, lists exactly the products of the file, and the log has
\* the creation of each.  No client was told that such an import failed; but the
\* server may restart between the summary and `done`.
SummaryTrue ==
    \A i \in Imports : \A ps \in {e.products : e \in {d \in auditLog :
                            d.action = "products.imported" /\ d.batch = i}} :
        /\ pc[i] \in {"closing", "done", "lost"}
        /\ ps = [g \in Groups(i) |-> <<i, g>>]
        /\ \A g \in Groups(i) : Created(<<i, g>>) \in auditLog

\* The stream is progress 1, 2, ... and then at most one closing event, and it is
\* `done` only after the last product of the file.
StreamWellFormed ==
    \A i \in Imports :
        LET n == Len(made[i]) IN
        /\ SubSeq(events[i], 1, n) = [k \in 1..n |-> Progress(k)]
        /\ pc[i] = "done"  => Tail(SubSeq(events[i], n, Len(events[i]))) = <<Done(n)>>
                              /\ n = Len(File[i])
        /\ pc[i] = "error" => Len(events[i]) = n + 1 /\ events[i][n + 1] = Error
        /\ pc[i] \notin {"done", "error"} => Len(events[i]) = n

\* A product that has been reported to the client is final: no worker of an
\* earlier or a later map touches its variants any more.
ReportedIsFinal ==
    [][\A i \in Imports : \A n \in 1..Len(made[i]) :
          <<i, n>> \in products' => variants'[<<i, n>>] = variants[<<i, n>>]]_vars

\* After the client has been told that the import failed, workers of the failing
\* map may still insert, but only variants of the product they were started for.
LateWorkConfined ==
    [][\A i \in Imports : pc[i] \in Ended =>
          /\ events'[i] = events[i] /\ made'[i] = made[i]
          /\ \A g \in Groups(i) :
                /\ <<i, g>> \in products' => <<i, g>> \in products
                /\ variants'[<<i, g>>] # variants[<<i, g>>] /\ <<i, g>> \in products'
                     => g = group[i] /\ pc[i] = "error"]_vars

\* The same file imported twice never yields the same product twice: if both
\* imports report success, somebody deleted each product of one in between.
RepeatNeedsDelete ==
    \A i, j \in Imports : \A g \in Groups(i), h \in Groups(j) :
        i # j /\ pc[i] = "done" /\ pc[j] = "done" /\ SlugOf(<<i, g>>) = SlugOf(<<j, h>>)
            => \E p \in {<<i, g>>, <<j, h>>} : Deleted(p) \in auditLog

\* Every import that has begun ends, unless it waits for an image for ever: neither
\* another import it meets in slugs, sourceIds and attributes, nor workers that fail
\* or are left behind, nor a deleted product can hold it.
Fetching(i) == pc[i] \in {"params", "attrs"} /\ todo[i] = <<>>
EveryImportEnds ==
    \A i \in Imports : (pc[i] # "idle" ~> pc[i] \in Ended) \/ <>[]Fetching(i)

\* No worker runs for ever, whether or not its import has ended.
WorkersStop == \A i \in Imports : <>[](Busy(pool[i]) = {})
=============================================================================
