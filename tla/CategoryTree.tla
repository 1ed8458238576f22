---------------------------- MODULE CategoryTree ----------------------------
(***************************************************************************)
(* The category tree of categories.service.ts: administrators' requests    *)
(* that create, move and delete categories, each a lookup and later a      *)
(* transaction, and the two recursive queries, hierarchy (upwards) and     *)
(* descendants (downwards), which PostgreSQL runs in rounds on the         *)
(* snapshot their statement starts with.                                   *)
(*                                                                         *)
(* The audit events of the commands are in AuditedCatalogue.  A query by   *)
(* slug is a query by the category that has the slug: slugs are unique.    *)
(***************************************************************************)
EXTENDS CategoryForest, Sequences, SequencesExt

CONSTANTS Commands, Queries   \* the requests there may be

VARIABLES
    tree,    \* the parentCategoryId column
    used,    \* the ids given out so far; the sequence never goes back
    cmd,     \* cmd[r]: administrators' requests
    query    \* query[q]: visitors' requests

vars == <<tree, used, cmd, query>>

NoCommand == [pc |-> "idle", op |-> "none", row |-> NoCategory, parent |-> NoCategory]

\* rows is the recursive query's result as one set per round that found anything new,
\* work the rows its next round starts from.
Query ==
    [pc : {"idle", "looked up", "running", "answered"},
     kind : {"none", "hierarchy", "descendants"}, start : Categories \cup {NoCategory},
     snapshot : Trees, rows : Seq(SUBSET Categories), work : SUBSET Categories]

NoQuery == [pc |-> "idle", kind |-> "none", start |-> NoCategory,
            snapshot |-> <<>>, rows |-> <<>>, work |-> {}]

TypeOK ==
    /\ tree \in Trees
    /\ used \in SUBSET Categories /\ DOMAIN tree \subseteq used
    /\ cmd \in [Commands -> [pc : {"idle", "looked up", "done"},
                             op : {"none", "create", "update", "delete"},
                             row : Categories \cup {NoCategory},
                             parent : Categories \cup {NoCategory}]]
    /\ \A r \in Commands :
          cmd[r].op \in {"update", "delete"} => cmd[r].row \in Categories
    /\ query \in [Queries -> Query]

Init ==
    /\ tree \in {t \in Trees : Acyclic(t)}
    /\ used = DOMAIN tree
    /\ cmd = [r \in Commands |-> NoCommand]
    /\ query = [q \in Queries |-> NoQuery]
-----------------------------------------------------------------------------
\* Administrators.  A request is answered 404 at once, and changes nothing,
\* unless getById finds the category it names.

Ask(r, op, c, p) ==
    /\ cmd[r].pc = "idle"
    /\ cmd' = [cmd EXCEPT ![r] = [pc |-> "looked up", op |-> op, row |-> c, parent |-> p]]
    /\ UNCHANGED <<tree, used, query>>

\* createOne looks the parent up, not the category: it is to be made.
AskCreate(r) == \E p \in Parents(tree) : Ask(r, "create", NoCategory, p)

\* update looks its own category up.  It takes any parentCategoryId: nobody
\* asks whether it is the category itself or one below it.  (An update that does
\* not mention the parent leaves the tree alone, as Refuse does.)
AskUpdate(r) == \E c \in DOMAIN tree, p \in Categories \cup {NoCategory} : Ask(r, "update", c, p)

AskDelete(r) == \E c \in DOMAIN tree : Ask(r, "delete", c, NoCategory)

Finish(r, t) ==
    /\ cmd[r].pc = "looked up"
    /\ tree' = t
    /\ cmd' = [cmd EXCEPT ![r] = [NoCommand EXCEPT !.pc = "done"]]
    /\ UNCHANGED query

\* A name that is taken moves the category that has it.
Create_BugUpserts(r) ==
    /\ cmd[r].op = "create" /\ cmd[r].parent \in Parents(tree)
    /\ \E c \in (Categories \ used) \cup DOMAIN tree :
          /\ Finish(r, InsertRow(tree, c, cmd[r].parent))
          /\ used' = used \cup {c}

\* The foreign key, not the earlier lookup, is what makes the parent exist.
Create(r) ==
    /\ cmd[r].op = "create" /\ cmd[r].parent \in Parents(tree)
    /\ \E c \in Categories \ used :
          /\ Finish(r, InsertRow(tree, c, cmd[r].parent))
          /\ used' = used \cup {c}

Update(r) ==
    /\ cmd[r].op = "update" /\ cmd[r].row \in DOMAIN tree /\ cmd[r].parent \in Parents(tree)
    /\ Finish(r, MoveRow(tree, cmd[r].row, cmd[r].parent))
    /\ UNCHANGED used

Delete(r) ==
    /\ cmd[r].op = "delete" /\ cmd[r].row \in DOMAIN tree
    /\ Finish(r, DeleteRow(tree, cmd[r].row))
    /\ UNCHANGED used

\* The row is gone, the foreign key refuses the parent, or the audit event
\* cannot be written: the transaction rolls back.
Refuse(r) == Finish(r, tree) /\ UNCHANGED used
-----------------------------------------------------------------------------
\* Readers.

Become(q, new) ==
    /\ query' = [query EXCEPT ![q] = new]
    /\ UNCHANGED <<tree, used, cmd>>

\* The controller finds the category by its slug, in a statement of its own; a
\* slug that is unknown, or hidden from the visitor, is a 404.
AskHierarchy(q) ==
    /\ query[q].pc = "idle"
    /\ \E c \in DOMAIN tree :
          Become(q, [NoQuery EXCEPT !.pc = "looked up", !.kind = "hierarchy", !.start = c])

\* A listing or an export asks for the category's descendants, whether or not
\* there is one of that name.
AskDescendants(q) ==
    /\ query[q].pc = "idle"
    /\ \E c \in Categories :
          Become(q, [NoQuery EXCEPT !.pc = "looked up", !.kind = "descendants", !.start = c])

\* The non-recursive term: WHERE id = ... or WHERE slug = ...
Start(q) ==
    LET found == {query[q].start} \cap DOMAIN tree IN
    /\ query[q].pc = "looked up"
    /\ Become(q, [query[q] EXCEPT !.pc = "running", !.snapshot = tree,
                                  !.rows = IF found = {} THEN <<>> ELSE <<found>>,
                                  !.work = found])

\* One statement per level instead of one for all: each sees the tree of its time.
Joined_BugNow(qry) ==
    IF qry.kind = "hierarchy"
    THEN {tree[x] : x \in qry.work \cap DOMAIN tree} \cap DOMAIN tree
    ELSE Children(tree, qry.work)

\* Both queries join upwards.
Joined_BugUpwards(qry) == {qry.snapshot[x] : x \in qry.work} \cap DOMAIN qry.snapshot

\* The rows join themselves, too.
Joined_BugItself(qry) == qry.work \cup Children(qry.snapshot, qry.work)

\* A parent that was deleted is null, so it joins no row.
Joined(qry) ==
    IF qry.kind = "hierarchy"
    THEN {qry.snapshot[x] : x \in qry.work} \cap DOMAIN qry.snapshot
    ELSE Children(qry.snapshot, qry.work)

AllRows(qry) == UNION Range(qry.rows)

\* UNION ALL keeps duplicates: a row found again is worked on again, and so,
\* on one snapshot, for ever.  Its further copies are not kept in the model,
\* because the statement they belong to never returns.  (A category that is
\* its own parent gives a round that changes nothing at all.)
Round(q) ==
    LET new == Joined(query[q]) IN
    /\ query[q].pc = "running" /\ query[q].work # {}
    /\ Become(q, [query[q] EXCEPT !.work = new,
                                  !.rows = IF new \subseteq AllRows(query[q])
                                           THEN @ ELSE Append(@, new)])

\* The working table is empty: the statement returns the rows of all rounds.
Return(q) ==
    /\ query[q].pc = "running" /\ query[q].work = {}
    /\ Become(q, [query[q] EXCEPT !.pc = "answered"])
-----------------------------------------------------------------------------
Command(r) ==
    \/ AskCreate(r) \/ AskUpdate(r) \/ AskDelete(r)
    \/ Create(r) \/ Update(r) \/ Delete(r) \/ Refuse(r)

Statement(q) == Start(q) \/ Round(q) \/ Return(q)
Reader(q) == AskHierarchy(q) \/ AskDescendants(q) \/ Statement(q)

Next == (\E r \in Commands : Command(r)) \/ (\E q \in Queries : Reader(q))

\* The database goes on with a statement it has been sent.
Spec == Init /\ [][Next]_vars /\ \A q \in Queries : WF_vars(Statement(q))
-----------------------------------------------------------------------------
\* A tree without cycles gets one only by an update that hangs a category
\* below itself as the tree is when it commits - whatever it was when the
\* administrator looked: two updates, each harmless alone, make a cycle.
ClosesCycle(r) ==
    /\ cmd[r].pc = "looked up" /\ cmd[r].op = "update"
    /\ cmd[r].parent \in Subtree(tree, cmd[r].row)

CyclesOnlyByUpdates ==
    [][Acyclic(tree) /\ ~Acyclic(tree') => \E r \in Commands : ClosesCycle(r) /\ Update(r)]_vars

\* ORDER BY depth DESC: the answer starts with the last round's row.  It leads
\* from a root to the category along the parents of one and the same moment,
\* and is empty when the category went between the lookup and the statement.
Path(qry) == Reverse(qry.rows)

HierarchyIsPath ==
    \A q \in Queries : query[q].pc = "answered" /\ query[q].kind = "hierarchy" =>
        LET t == query[q].snapshot
            path == Path(query[q])
        IN  IF query[q].start \in DOMAIN t
            THEN /\ path # <<>> /\ Last(path) = {query[q].start}
                 /\ \A x \in Head(path) : t[x] = NoCategory
                 /\ \A i \in 1..(Len(path) - 1) : {t[x] : x \in path[i + 1]} = path[i]
            ELSE path = <<>>

\* The ids a listing is filtered with are the category and all below it.
DescendantsExact ==
    \A q \in Queries : query[q].pc = "answered" /\ query[q].kind = "descendants" =>
        AllRows(query[q]) = IF query[q].start \in DOMAIN query[q].snapshot
                            THEN Subtree(query[q].snapshot, query[q].start) ELSE {}

\* A query that meets no cycle in its snapshot returns, whatever else is going
\* on; one that meets a cycle does not.
MeetsCycle(qry) ==
    IF qry.kind = "hierarchy" THEN BelowCycle(qry.snapshot, qry.start)
                              ELSE OnCycle(qry.snapshot, qry.start)

QueriesReturn ==
    \A q \in Queries :
        query[q].pc = "running" /\ ~MeetsCycle(query[q]) ~> query[q].pc = "answered"

\* test/app.e2e-spec.ts:51 expects every hierarchy request to be answered, with
\* 200 or 404.
HierarchyAnswered ==
    \A q \in Queries :
        query[q].pc = "looked up" /\ query[q].kind = "hierarchy" ~> query[q].pc = "answered"
=============================================================================
