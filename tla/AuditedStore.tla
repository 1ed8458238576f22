---------------------------- MODULE AuditedStore ----------------------------
(***************************************************************************)
(* What the admin commands promise of the catalogue and its audit log: the *)
(* rows change by one command at a time, each change is possible in the    *)
(* state it takes effect in, and the event that names it and the           *)
(* administrator who asked for it is written in the same step.             *)
(***************************************************************************)
EXTENDS Naturals, Sequences

CONSTANTS
    Rows,           \* the rows there may be, by id; an id is never given out twice
    InitialRows,    \* those there before the first event
    Names,
    NameOf,         \* what is unique of a row: its slug, or else its own
    OwnerOf,        \* the row whose deletion takes it along, or NoRow
    Admins, Requests,
    AdminOf,        \* who makes a request
    NoRow, NoRequest

ASSUME RowsAssumption ==
    /\ InitialRows \subseteq Rows
    /\ NameOf \in [Rows -> Names]
    /\ OwnerOf \in [Rows -> Rows \cup {NoRow}]
    /\ AdminOf \in [Requests -> Admins]
    /\ NoRow \notin Rows /\ NoRequest \notin Requests

VARIABLES
    live,       \* the rows there are
    content,    \* content[x]: the request that wrote row x last
    log         \* the audit log, in the order the events took effect

storeVars == <<live, content, log>>

\* A "touch" is an update that sets no column of its row: a product's new price, a
\* variant's tags, a collection's products.
Ops == {"create", "update", "touch", "delete"}
Event == [op : Ops, row : Rows, req : Requests, actor : Admins]

Owned(x) == {y \in Rows : OwnerOf[y] = x}
New(x) == x \notin InitialRows /\ \A i \in DOMAIN log : log[i].row # x
NameFree(x) == \A y \in live : NameOf[y] # NameOf[x]
OwnerLive(x) == OwnerOf[x] = NoRow \/ OwnerOf[x] \in live

StoreInit ==
    /\ live = InitialRows
    /\ content = [x \in Rows |-> NoRequest]
    /\ log = <<>>

Log(o, x, r) ==
    log' = Append(log, [op |-> o, row |-> x, req |-> r, actor |-> AdminOf[r]])

CreateRow(x, r) ==
    /\ New(x) /\ NameFree(x) /\ OwnerLive(x)
    /\ live' = live \cup {x}
    /\ content' = [content EXCEPT ![x] = r]
    /\ Log("create", x, r)

\* A product's new price is written into its variants, too.
UpdateRow(x, r) ==
    /\ x \in live
    /\ \E also \in SUBSET (Owned(x) \cap live) :
          content' = [y \in Rows |-> IF y = x \/ y \in also THEN r ELSE content[y]]
    /\ Log("update", x, r)
    /\ UNCHANGED live

\* A touch finds its row there, but does not lock it: the row may be gone when the
\* event takes effect, unless there are variants that get the price.
TouchRow(x, r) ==
    /\ ~New(x)
    /\ \E also \in SUBSET (Owned(x) \cap live) :
          content' = [y \in Rows |-> IF y \in also THEN r ELSE content[y]]
    /\ Log("touch", x, r)
    /\ UNCHANGED live

DeleteRow(x, r) ==
    /\ x \in live
    /\ live' = live \ ({x} \cup Owned(x))
    /\ Log("delete", x, r)
    /\ UNCHANGED content

StoreNext ==
    \E x \in Rows, r \in Requests :
        CreateRow(x, r) \/ UpdateRow(x, r) \/ TouchRow(x, r) \/ DeleteRow(x, r)

StoreSpec == StoreInit /\ [][StoreNext]_storeVars
-----------------------------------------------------------------------------
Logged(o) == {log[i].row : i \in {j \in DOMAIN log : log[j].op = o}}

\* The log explains the catalogue: a row is there iff it was created and neither
\* it nor its product has been deleted since.
LogExplainsRows ==
    live = {x \in InitialRows \cup Logged("create") :
               x \notin Logged("delete") /\ OwnerOf[x] \notin Logged("delete")}

\* The story the log tells of one row makes sense: creation comes first, and
\* nothing but touches comes after its deletion or that of its product, however the
\* commands overlapped.
HistoryWellFormed ==
    \A i, j \in DOMAIN log :
        i < j /\ log[j].op # "touch" /\ (log[i].row = log[j].row \/ log[i].row = OwnerOf[log[j].row]) =>
            log[i].op # "delete" /\ ~(log[i].row = log[j].row /\ log[j].op = "create")

\* What a row holds was written by a request the log names, and no event of the
\* row's own but touches lies after that request's last one: no update is lost.
ContentExplained ==
    \A x \in live : content[x] # NoRequest =>
        \E i \in DOMAIN log :
            /\ log[i].req = content[x] /\ log[i].row \in {x, OwnerOf[x]}
            /\ \A j \in DOMAIN log : j > i /\ log[j].op # "touch" => log[j].row # x
=============================================================================
