----------------------- MODULE AuditedCatalogue_proofs -----------------------
(***************************************************************************)
(* The catalogue's transactions implement AuditedStore, for any rows,      *)
(* menu of commands and number of requests and restarts; what its log      *)
(* explains of its rows follows from there.                                *)
(*                                                                         *)
(* First the store itself: its log explains its rows.  Then the catalogue: *)
(* what makes a commit a step of the store is that its transaction's locks *)
(* have kept true, since the row was written, what the step needs          *)
(* (Pending).  Last, command by command, the events and the items.         *)
(***************************************************************************)
EXTENDS AuditedCatalogue, TLAPS

StoreTypeOK ==
    /\ live \subseteq Rows
    /\ content \in [Rows -> Requests \cup {NoRequest}]
    /\ log \in Seq(Event)

StoreInv == StoreTypeOK /\ LogExplainsRows /\ HistoryWellFormed /\ ContentExplained

\* What a command adds to the log: one event at its end.
LEMMA Logging ==
    ASSUME NEW o \in Ops, NEW x \in Rows, NEW r \in Requests,
           log \in Seq(Event), Log(o, x, r)
    PROVE  /\ log' \in Seq(Event)
           /\ Len(log') = Len(log) + 1
           /\ DOMAIN log' = DOMAIN log \cup {Len(log) + 1}
           /\ \A i \in DOMAIN log : log'[i] = log[i] /\ i < Len(log) + 1
           /\ log'[Len(log) + 1].op = o
           /\ log'[Len(log) + 1].row = x
           /\ log'[Len(log) + 1].req = r
<1> DEFINE e == [op |-> o, row |-> x, req |-> r, actor |-> AdminOf[r]]
<1>1. e \in Event
  BY RowsAssumption DEF Event
<1>2. log' = Append(log, e)
  BY DEF Log
<1>3. e.op = o /\ e.row = x /\ e.req = r
  OBVIOUS
<1> HIDE DEF e
<1> QED BY <1>1, <1>2, <1>3

LEMMA EventRow ==
    ASSUME log \in Seq(Event), NEW i \in DOMAIN log
    PROVE  log[i].row \in Rows
<1>1. log[i] \in Event
  OBVIOUS
<1> QED BY <1>1 DEF Event

\* The rows the log names, before and after.
LEMMA LoggedAfter ==
    ASSUME NEW o \in Ops, NEW x \in Rows, NEW r \in Requests,
           log \in Seq(Event), Log(o, x, r)
    PROVE  \A p \in Ops : Logged(p)' = IF p = o THEN Logged(p) \cup {x} ELSE Logged(p)
<1> SUFFICES ASSUME NEW p \in Ops
             PROVE  Logged(p)' = IF p = o THEN Logged(p) \cup {x} ELSE Logged(p)
  OBVIOUS
<1>1. Len(log) + 1 \notin DOMAIN log
  OBVIOUS
<1> QED BY Logging, <1>1 DEF Logged

\* What "deleted" and "created" mean for a row that is there, or new.
LEMMA LiveNotDeleted ==
    ASSUME StoreTypeOK, LogExplainsRows, NEW x \in live, NEW i \in DOMAIN log,
           log[i].op = "delete"
    PROVE  log[i].row # x /\ log[i].row # OwnerOf[x]
BY DEF LogExplainsRows, Logged

LEMMA TypePreserved ==
    ASSUME StoreTypeOK, StoreNext
    PROVE  StoreTypeOK'
<1> USE DEF StoreTypeOK
<1>1. PICK x \in Rows, r \in Requests :
        CreateRow(x, r) \/ UpdateRow(x, r) \/ TouchRow(x, r) \/ DeleteRow(x, r)
  BY DEF StoreNext
<1>2. CASE CreateRow(x, r)
  <2>1. "create" \in Ops /\ Log("create", x, r)
    BY <1>2 DEF CreateRow, Ops
  <2>2. log' \in Seq(Event)
    BY <2>1, Logging
  <2> QED BY <1>2, <2>2 DEF CreateRow
<1>3. CASE UpdateRow(x, r)
  <2>1. "update" \in Ops /\ Log("update", x, r)
    BY <1>3 DEF UpdateRow, Ops
  <2>2. log' \in Seq(Event)
    BY <2>1, Logging
  <2> QED BY <1>3, <2>2 DEF UpdateRow
<1>4. CASE DeleteRow(x, r)
  <2>1. "delete" \in Ops /\ Log("delete", x, r)
    BY <1>4 DEF DeleteRow, Ops
  <2>2. log' \in Seq(Event)
    BY <2>1, Logging
  <2> QED BY <1>4, <2>2 DEF DeleteRow
<1>5. CASE TouchRow(x, r)
  <2>1. "touch" \in Ops /\ Log("touch", x, r)
    BY <1>5 DEF TouchRow, Ops
  <2>2. log' \in Seq(Event)
    BY <2>1, Logging
  <2> QED BY <1>5, <2>2 DEF TouchRow
<1> QED BY <1>1, <1>2, <1>3, <1>4, <1>5

\* Creating a row.
LEMMA CreateKeeps ==
    ASSUME StoreInv, NEW x \in Rows, NEW r \in Requests, CreateRow(x, r)
    PROVE  LogExplainsRows' /\ HistoryWellFormed' /\ ContentExplained'
<1> USE DEF StoreInv
<1>1. /\ "create" \in Ops /\ log \in Seq(Event) /\ Log("create", x, r)
      /\ x \notin InitialRows /\ \A i \in DOMAIN log : log[i].row # x
      /\ OwnerOf[x] = NoRow \/ OwnerOf[x] \in live
      /\ live' = live \cup {x}
      /\ content' = [content EXCEPT ![x] = r]
  BY DEF CreateRow, New, OwnerLive, StoreTypeOK, Ops
<1>2. /\ Len(log') = Len(log) + 1
      /\ DOMAIN log' = DOMAIN log \cup {Len(log) + 1}
      /\ \A i \in DOMAIN log : log'[i] = log[i] /\ i < Len(log) + 1
      /\ log'[Len(log) + 1].op = "create" /\ log'[Len(log) + 1].row = x
      /\ log'[Len(log) + 1].req = r
  BY <1>1, Logging
<1>3. LogExplainsRows'
  <2>1. x \notin Logged("delete") /\ OwnerOf[x] \notin Logged("delete")
    <3>1. \A i \in DOMAIN log : log[i].row \in Rows
      BY <1>1, EventRow
    <3>2. OwnerOf[x] \in live => OwnerOf[x] \notin Logged("delete")
      BY DEF LogExplainsRows
    <3> QED BY <1>1, <3>1, <3>2, RowsAssumption DEF Logged
  <2>2. Logged("delete")' = Logged("delete") /\ Logged("create")' = Logged("create") \cup {x}
    BY <1>1, LoggedAfter DEF Ops
  <2> QED BY <1>1, <2>1, <2>2 DEF LogExplainsRows
<1>4. HistoryWellFormed'
  <2> SUFFICES ASSUME NEW i \in DOMAIN log', NEW j \in DOMAIN log', i < j,
                      log'[j].op # "touch",
                      log'[i].row = log'[j].row \/ log'[i].row = OwnerOf[log'[j].row]
               PROVE  log'[i].op # "delete" /\ ~(log'[i].row = log'[j].row /\ log'[j].op = "create")
    BY DEF HistoryWellFormed
  <2>1. i \in DOMAIN log
    BY <1>1, <1>2
  <2>2. CASE j \in DOMAIN log
    BY <1>2, <2>1, <2>2 DEF HistoryWellFormed
  <2>3. CASE j = Len(log) + 1
    <3>1. log[i].row # x /\ log[i].row = OwnerOf[x]
      BY <1>1, <1>2, <2>1, <2>3
    <3>2. OwnerOf[x] \in live
      BY <1>1, <2>1, <3>1, EventRow, RowsAssumption
    <3>3. log[i].op # "delete"
      BY <2>1, <3>1, <3>2, LiveNotDeleted
    <3> QED BY <1>2, <2>1, <2>3, <3>1, <3>3
  <2> QED BY <1>2, <2>2, <2>3
<1>5. ContentExplained'
  <2> SUFFICES ASSUME NEW y \in live', content'[y] # NoRequest
               PROVE  \E i \in DOMAIN log' :
                         /\ log'[i].req = content'[y] /\ log'[i].row \in {y, OwnerOf[y]}
                         /\ \A j \in DOMAIN log' : j > i /\ log'[j].op # "touch" => log'[j].row # y
    BY DEF ContentExplained
  <2>1. CASE y = x
    <3>1. content'[y] = r
      BY <1>1, <2>1 DEF StoreTypeOK
    <3>2. \A j \in DOMAIN log' : ~(j > Len(log) + 1)
      BY <1>1, <1>2
    <3> QED BY <1>2, <2>1, <3>1, <3>2
  <2>2. CASE y # x
    <3>1. y \in live /\ content'[y] = content[y]
      BY <1>1, <2>2 DEF StoreTypeOK
    <3>2. PICK i \in DOMAIN log :
             /\ log[i].req = content[y] /\ log[i].row \in {y, OwnerOf[y]}
             /\ \A j \in DOMAIN log : j > i /\ log[j].op # "touch" => log[j].row # y
      BY <3>1 DEF ContentExplained
    <3> QED BY <1>2, <2>2, <3>1, <3>2
  <2> QED BY <2>1, <2>2
<1> QED BY <1>3, <1>4, <1>5

\* Writing a row that is there, and perhaps the variants it owns.
LEMMA UpdateKeeps ==
    ASSUME StoreInv, NEW x \in Rows, NEW r \in Requests, UpdateRow(x, r)
    PROVE  LogExplainsRows' /\ HistoryWellFormed' /\ ContentExplained'
<1> USE DEF StoreInv
<1>1. /\ "update" \in Ops /\ log \in Seq(Event) /\ Log("update", x, r)
      /\ x \in live /\ live' = live
  BY DEF UpdateRow, StoreTypeOK, Ops
<1>2. /\ Len(log') = Len(log) + 1
      /\ DOMAIN log' = DOMAIN log \cup {Len(log) + 1}
      /\ \A i \in DOMAIN log : log'[i] = log[i] /\ i < Len(log) + 1
      /\ log'[Len(log) + 1].op = "update" /\ log'[Len(log) + 1].row = x
      /\ log'[Len(log) + 1].req = r
  BY <1>1, Logging
<1>3. LogExplainsRows'
  <2>1. Logged("delete")' = Logged("delete") /\ Logged("create")' = Logged("create")
    BY <1>1, LoggedAfter DEF Ops
  <2> QED BY <1>1, <2>1 DEF LogExplainsRows
<1>4. HistoryWellFormed'
  <2> SUFFICES ASSUME NEW i \in DOMAIN log', NEW j \in DOMAIN log', i < j,
                      log'[j].op # "touch",
                      log'[i].row = log'[j].row \/ log'[i].row = OwnerOf[log'[j].row]
               PROVE  log'[i].op # "delete" /\ ~(log'[i].row = log'[j].row /\ log'[j].op = "create")
    BY DEF HistoryWellFormed
  <2>1. i \in DOMAIN log
    BY <1>1, <1>2
  <2>2. CASE j \in DOMAIN log
    BY <1>2, <2>1, <2>2 DEF HistoryWellFormed
  <2>3. CASE j = Len(log) + 1
    <3>1. log[i].op # "delete"
      BY <1>1, <1>2, <2>1, <2>3, LiveNotDeleted
    <3> QED BY <1>2, <2>1, <2>3, <3>1
  <2> QED BY <1>2, <2>2, <2>3
<1>5. ContentExplained'
  <2> SUFFICES ASSUME NEW y \in live', content'[y] # NoRequest
               PROVE  \E i \in DOMAIN log' :
                         /\ log'[i].req = content'[y] /\ log'[i].row \in {y, OwnerOf[y]}
                         /\ \A j \in DOMAIN log' : j > i /\ log'[j].op # "touch" => log'[j].row # y
    BY DEF ContentExplained
  <2>1. PICK also \in SUBSET (Owned(x) \cap live) :
           content' = [z \in Rows |-> IF z = x \/ z \in also THEN r ELSE content[z]]
    BY DEF UpdateRow
  <2>2. y \in Rows /\ y \in live
    BY <1>1 DEF StoreTypeOK
  <2>3. CASE y = x \/ y \in also
    <3>1. content'[y] = r /\ x \in {y, OwnerOf[y]}
      BY <2>1, <2>2, <2>3 DEF Owned
    <3>2. \A j \in DOMAIN log' : ~(j > Len(log) + 1)
      BY <1>1, <1>2
    <3> QED BY <1>2, <3>1, <3>2
  <2>4. CASE ~(y = x \/ y \in also)
    <3>1. content'[y] = content[y]
      BY <2>1, <2>2, <2>4
    <3>2. PICK i \in DOMAIN log :
             /\ log[i].req = content[y] /\ log[i].row \in {y, OwnerOf[y]}
             /\ \A j \in DOMAIN log : j > i /\ log[j].op # "touch" => log[j].row # y
      BY <2>2, <3>1 DEF ContentExplained
    <3> QED BY <1>2, <2>4, <3>1, <3>2
  <2> QED BY <2>3, <2>4
<1> QED BY <1>3, <1>4, <1>5

\* An update that sets no column of its row, and perhaps the price of its variants.
LEMMA TouchKeeps ==
    ASSUME StoreInv, NEW x \in Rows, NEW r \in Requests, TouchRow(x, r)
    PROVE  LogExplainsRows' /\ HistoryWellFormed' /\ ContentExplained'
<1> USE DEF StoreInv
<1>1. /\ "touch" \in Ops /\ log \in Seq(Event) /\ Log("touch", x, r) /\ live' = live
  BY DEF TouchRow, StoreTypeOK, Ops
<1>2. /\ Len(log') = Len(log) + 1
      /\ DOMAIN log' = DOMAIN log \cup {Len(log) + 1}
      /\ \A i \in DOMAIN log : log'[i] = log[i] /\ i < Len(log) + 1
      /\ log'[Len(log) + 1].op = "touch" /\ log'[Len(log) + 1].row = x
      /\ log'[Len(log) + 1].req = r
  BY <1>1, Logging
<1>3. LogExplainsRows'
  <2>1. Logged("delete")' = Logged("delete") /\ Logged("create")' = Logged("create")
    BY <1>1, LoggedAfter DEF Ops
  <2> QED BY <1>1, <2>1 DEF LogExplainsRows
<1>4. HistoryWellFormed'
  BY <1>1, <1>2 DEF HistoryWellFormed
<1>5. ContentExplained'
  <2> SUFFICES ASSUME NEW y \in live', content'[y] # NoRequest
               PROVE  \E i \in DOMAIN log' :
                         /\ log'[i].req = content'[y] /\ log'[i].row \in {y, OwnerOf[y]}
                         /\ \A j \in DOMAIN log' : j > i /\ log'[j].op # "touch" => log'[j].row # y
    BY DEF ContentExplained
  <2>1. PICK also \in SUBSET (Owned(x) \cap live) :
           content' = [z \in Rows |-> IF z \in also THEN r ELSE content[z]]
    BY DEF TouchRow
  <2>2. y \in Rows /\ y \in live
    BY <1>1 DEF StoreTypeOK
  <2>3. CASE y \in also
    <3>1. content'[y] = r /\ x \in {y, OwnerOf[y]}
      BY <2>1, <2>2, <2>3 DEF Owned
    <3>2. \A j \in DOMAIN log' : ~(j > Len(log) + 1)
      BY <1>1, <1>2
    <3> QED BY <1>2, <3>1, <3>2
  <2>4. CASE y \notin also
    <3>1. content'[y] = content[y]
      BY <2>1, <2>2, <2>4
    <3>2. PICK i \in DOMAIN log :
             /\ log[i].req = content[y] /\ log[i].row \in {y, OwnerOf[y]}
             /\ \A j \in DOMAIN log : j > i /\ log[j].op # "touch" => log[j].row # y
      BY <2>2, <3>1 DEF ContentExplained
    <3> QED BY <1>2, <3>1, <3>2
  <2> QED BY <2>3, <2>4
<1> QED BY <1>3, <1>4, <1>5

\* Deleting a row and those it owns.
LEMMA DeleteKeeps ==
    ASSUME StoreInv, NEW x \in Rows, NEW r \in Requests, DeleteRow(x, r)
    PROVE  LogExplainsRows' /\ HistoryWellFormed' /\ ContentExplained'
<1> USE DEF StoreInv
<1>1. /\ "delete" \in Ops /\ log \in Seq(Event) /\ Log("delete", x, r)
      /\ x \in live /\ live' = live \ ({x} \cup Owned(x)) /\ content' = content
  BY DEF DeleteRow, StoreTypeOK, Ops
<1>2. /\ Len(log') = Len(log) + 1
      /\ DOMAIN log' = DOMAIN log \cup {Len(log) + 1}
      /\ \A i \in DOMAIN log : log'[i] = log[i] /\ i < Len(log) + 1
      /\ log'[Len(log) + 1].op = "delete" /\ log'[Len(log) + 1].row = x
      /\ log'[Len(log) + 1].req = r
  BY <1>1, Logging
<1>3. LogExplainsRows'
  <2>1. Logged("delete")' = Logged("delete") \cup {x} /\ Logged("create")' = Logged("create")
    BY <1>1, LoggedAfter DEF Ops
  <2>2. live \subseteq Rows
    BY DEF StoreTypeOK
  <2> QED BY <1>1, <2>1, <2>2 DEF LogExplainsRows, Owned
<1>4. HistoryWellFormed'
  <2> SUFFICES ASSUME NEW i \in DOMAIN log', NEW j \in DOMAIN log', i < j,
                      log'[j].op # "touch",
                      log'[i].row = log'[j].row \/ log'[i].row = OwnerOf[log'[j].row]
               PROVE  log'[i].op # "delete" /\ ~(log'[i].row = log'[j].row /\ log'[j].op = "create")
    BY DEF HistoryWellFormed
  <2>1. i \in DOMAIN log
    BY <1>1, <1>2
  <2>2. CASE j \in DOMAIN log
    BY <1>2, <2>1, <2>2 DEF HistoryWellFormed
  <2>3. CASE j = Len(log) + 1
    <3>1. log[i].op # "delete"
      BY <1>1, <1>2, <2>1, <2>3, LiveNotDeleted
    <3> QED BY <1>2, <2>1, <2>3, <3>1
  <2> QED BY <1>2, <2>2, <2>3
<1>5. ContentExplained'
  BY <1>1, <1>2 DEF ContentExplained
<1> QED BY <1>3, <1>4, <1>5

\* The store's rows are what its log says, no row's history contradicts itself, and
\* every row's content has its event: for any rows, owners and number of commands.
THEOREM StoreExplained == StoreSpec => [](LogExplainsRows /\ HistoryWellFormed /\ ContentExplained)
<1>1. StoreInit => StoreInv
  <2> SUFFICES ASSUME StoreInit PROVE StoreInv
    OBVIOUS
  <2>1. log = <<>> /\ DOMAIN log = {} /\ log \in Seq(Event)
    BY DEF StoreInit
  <2>2. live = InitialRows /\ content = [x \in Rows |-> NoRequest]
    BY DEF StoreInit
  <2>3. Logged("create") = {} /\ Logged("delete") = {}
    BY <2>1 DEF Logged
  <2> QED BY <2>1, <2>2, <2>3, RowsAssumption
          DEF StoreInv, StoreTypeOK, LogExplainsRows, HistoryWellFormed, ContentExplained
<1>2. StoreInv /\ [StoreNext]_storeVars => StoreInv'
  <2> SUFFICES ASSUME StoreInv, [StoreNext]_storeVars PROVE StoreInv'
    OBVIOUS
  <2>1. CASE StoreNext
    <3>1. PICK x \in Rows, r \in Requests :
             CreateRow(x, r) \/ UpdateRow(x, r) \/ TouchRow(x, r) \/ DeleteRow(x, r)
      BY <2>1 DEF StoreNext
    <3>2. StoreTypeOK'
      BY <2>1, TypePreserved DEF StoreInv
    <3> QED BY <3>1, <3>2, CreateKeeps, UpdateKeeps, TouchKeeps, DeleteKeeps DEF StoreInv
  <2>2. CASE UNCHANGED storeVars
    BY <2>2 DEF storeVars, StoreInv, StoreTypeOK, LogExplainsRows, HistoryWellFormed,
                ContentExplained, Logged
  <2> QED BY <2>1, <2>2
<1>3. StoreInv => LogExplainsRows /\ HistoryWellFormed /\ ContentExplained
  BY DEF StoreInv
<1> QED BY <1>1, <1>2, <1>3, PTL DEF StoreSpec
-----------------------------------------------------------------------------
Holding(r) == req[r].pc \in {"record", "commit", "doubt"}
RowKnown(r) == req[r].pc \in {"write", "record", "commit", "doubt"}

\* On an item of its command.
Active(r) == InFlight(r) \/ req[r].pc = "doubt"

Begun(r) ==
    /\ Active(r) => /\ req[r].items \in Menu
                    /\ req[r].at \in DOMAIN req[r].items
                    /\ context[r] = AdminOf[r]
    /\ RowKnown(r) => req[r].row \in Rows

PendingCreate(r) ==
    LET x == req[r].row IN
    /\ x \in used /\ x \notin live /\ New(x) /\ NameFree(x) /\ OwnerLive(x)
    /\ req[r].also = {}
    /\ <<x, "update">> \in req[r].locks /\ <<NameOf[x], "update">> \in req[r].locks
    /\ OwnerOf[x] # NoRow => <<OwnerOf[x], "share">> \in req[r].locks

PendingUpdate(r) ==
    LET x == req[r].row IN
    /\ x \in live /\ req[r].also \subseteq Owned(x) \cap live
    /\ \A y \in {x} \cup req[r].also : <<y, "update">> \in req[r].locks

PendingTouch(r) ==
    LET x == req[r].row IN
    /\ x \in used /\ ~New(x) /\ req[r].also \subseteq Owned(x) \cap live
    /\ \A y \in req[r].also : <<y, "update">> \in req[r].locks

PendingDelete(r) ==
    LET x == req[r].row IN
    /\ x \in live
    /\ \A y \in {x} \cup (Owned(x) \cap live) : <<y, "delete">> \in req[r].locks

\* What a transaction that has written its row may rely on at its commit.
Pending(r) ==
    Holding(r) => /\ ItemOf(r).op = "create" => PendingCreate(r)
                  /\ ItemOf(r).op = "update" => PendingUpdate(r)
                  /\ ItemOf(r).op = "touch" => PendingTouch(r)
                  /\ ItemOf(r).op = "delete" => PendingDelete(r)

Apart ==
    \A r, s \in Requests : r # s =>
        \A a \in req[r].locks, b \in req[s].locks : ~Excludes(a, b)

IdsUsed ==
    /\ live \subseteq used /\ InitialRows \subseteq used
    /\ \A i \in DOMAIN log : log[i].row \in used
    /\ \A x \in live : ~New(x)

CatalogueInv ==
    /\ TypeOK
    /\ IdsUsed
    /\ Apart
    /\ \A r \in Requests : Begun(r) /\ Pending(r)
-----------------------------------------------------------------------------
\* Two transactions that hold locks on one thing only share it.
LEMMA OnlyShared ==
    ASSUME Apart, NEW r \in Requests, NEW s \in Requests, r # s, NEW k, NEW m, NEW n,
           <<k, m>> \in req[r].locks, <<k, n>> \in req[s].locks
    PROVE  m # "delete" /\ n # "delete" /\ (m = "share" \/ n = "share")
BY DEF Apart, Excludes

\* A request's step changes its own record alone.
LEMMA OwnRecord ==
    ASSUME TypeOK, NEW r \in Requests, NEW new, Becomes(r, new)
    PROVE  /\ req'[r] = new
           /\ \A s \in Requests : s # r => req'[s] = req[s]
           /\ new \in Request => req' \in [Requests -> Request]
BY DEF TypeOK, Becomes

LEMMA ItemType ==
    ASSUME TypeOK, NEW r \in Requests, Active(r), Begun(r)
    PROVE  /\ ItemOf(r) \in Item
           /\ ItemOf(r).price => ItemOf(r).op \in {"update", "touch"} /\ ItemOf(r).row \in Products
<1>1. req[r].items \in Seq(Item) /\ req[r].at \in DOMAIN req[r].items
  BY MenuAssumption DEF Begun
<1>2. \A k \in DOMAIN req[r].items : req[r].items[k].price =>
         req[r].items[k].op \in {"update", "touch"} /\ req[r].items[k].row \in Products
  BY MenuAssumption DEF Begun
<1> QED BY <1>1, <1>2 DEF ItemOf

\* Requests other than the one that takes a step, when no row changes.
LEMMA Untouched ==
    ASSUME CatalogueInv, NEW s \in Requests, req'[s] = req[s], context'[s] = context[s],
           live' = live, log' = log, used \subseteq used'
    PROVE  Begun(s)' /\ Pending(s)'
<1>1. Begun(s) /\ Pending(s)
  BY DEF CatalogueInv
<1>2. Begun(s)'
  BY <1>1 DEF Begun, Active, InFlight, RowKnown
<1>3. Pending(s)'
  <2>1. Holding(s)' = Holding(s) /\ ItemOf(s)' = ItemOf(s)
    BY DEF Holding, ItemOf
  <2>2. PendingCreate(s) => PendingCreate(s)'
    BY DEF PendingCreate, New, NameFree, OwnerLive
  <2>3. PendingUpdate(s) => PendingUpdate(s)'
    BY DEF PendingUpdate
  <2>4. PendingDelete(s) => PendingDelete(s)'
    BY DEF PendingDelete
  <2>5. PendingTouch(s) => PendingTouch(s)'
    BY DEF PendingTouch, New
  <2> QED BY <1>1, <2>1, <2>2, <2>3, <2>4, <2>5 DEF Pending
<1> QED BY <1>2, <1>3

\* Giving up locks keeps the others apart.
LEMMA ApartWhenReleased ==
    ASSUME CatalogueInv, NEW r \in Requests, req'[r].locks \subseteq req[r].locks,
           \A s \in Requests : s # r => req'[s] = req[s]
    PROVE  Apart'
BY DEF CatalogueInv, Apart, Excludes

\* A step of one request that changes no row, takes no lock and leaves it where
\* nothing is pending, or as it was.
LEMMA QuietStep ==
    ASSUME CatalogueInv, NEW r \in Requests, NEW new, new \in Request, Becomes(r, new),
           new.locks \subseteq req[r].locks,
           UNCHANGED <<live, content, log, used, crashes>>,
           context' \in [Requests -> Admins \cup {NoActor}],
           \A s \in Requests : s # r => context'[s] = context[s],
           Begun(r)', Pending(r)'
    PROVE  CatalogueInv'
<1>1. TypeOK
  BY DEF CatalogueInv
<1>2. /\ req'[r] = new /\ \A s \in Requests : s # r => req'[s] = req[s]
      /\ req' \in [Requests -> Request]
  BY <1>1, OwnRecord
<1>3. TypeOK'
  BY <1>1, <1>2 DEF TypeOK
<1>4. IdsUsed'
  BY DEF CatalogueInv, IdsUsed, New
<1>5. Apart'
  BY <1>2, ApartWhenReleased
<1>6. \A s \in Requests : Begun(s)' /\ Pending(s)'
  BY <1>2, Untouched
<1> QED BY <1>3, <1>4, <1>5, <1>6 DEF CatalogueInv

\* The same for a request that holds nothing afterwards.
LEMMA IdleNext ==
    ASSUME NEW r \in Requests, req'[r].pc \in {"ok", "failed", "lost"}
    PROVE  Begun(r)' /\ Pending(r)'
BY DEF Begun, Pending, Active, InFlight, RowKnown, Holding

LEMMA SendKeeps ==
    ASSUME CatalogueInv, NEW r \in Requests, Send(r)
    PROVE  CatalogueInv'
<1>1. TypeOK
  BY DEF CatalogueInv
<1>2. PICK c \in Menu : Becomes(r, [Idle("read") EXCEPT !.items = c])
  BY DEF Send
<1> DEFINE new == [Idle("read") EXCEPT !.items = c]
<1>3. /\ new \in Request /\ new.locks = {} /\ new.pc = "read" /\ new.items = c /\ new.at = 1
  BY DEF Idle, Request
<1> HIDE DEF new
<1>4. c \in Seq(Item) /\ 1 \in DOMAIN c
  BY MenuAssumption
<1>5. context' \in [Requests -> Admins \cup {NoActor}] /\ context'[r] = AdminOf[r]
      /\ \A s \in Requests : s # r => context'[s] = context[s]
  BY <1>1, RowsAssumption DEF Send, ActorKnown, TypeOK
<1>6. req'[r] = new
  BY <1>1, <1>2, OwnRecord DEF new
<1>7. Begun(r)' /\ Pending(r)'
  BY <1>3, <1>4, <1>5, <1>6 DEF Begun, Pending, RowKnown, Holding
<1> QED BY <1>2, <1>3, <1>5, <1>7, QuietStep DEF Send, new

LEMMA ReadKeeps ==
    ASSUME CatalogueInv, NEW r \in Requests, Read(r)
    PROVE  CatalogueInv'
<1>1. TypeOK /\ Begun(r) /\ req[r] \in Request /\ Active(r)
  BY DEF CatalogueInv, TypeOK, Read, Active, InFlight
<1>2. PICK x \in Rows : Becomes(r, [req[r] EXCEPT !.pc = "write", !.row = x])
  <2>1. ItemOf(r).row \in Rows
    BY <1>1, ItemType DEF Item
  <2>2. live \subseteq Rows
    BY <1>1 DEF TypeOK
  <2> QED BY <2>1, <2>2 DEF Read
<1> DEFINE new == [req[r] EXCEPT !.pc = "write", !.row = x]
<1>3. /\ new \in Request /\ new.locks = req[r].locks /\ new.pc = "write" /\ new.row = x
      /\ new.items = req[r].items /\ new.at = req[r].at
  BY <1>1 DEF Request
<1> HIDE DEF new
<1>4. req'[r] = new
  BY <1>1, <1>2, OwnRecord DEF new
<1>5. Begun(r)' /\ Pending(r)'
  BY <1>1, <1>3, <1>4 DEF Begun, Pending, Active, InFlight, RowKnown, Holding, Read
<1>6. UNCHANGED <<live, content, log, used, crashes, context>>
  BY DEF Read
<1> QED BY <1>1, <1>2, <1>3, <1>5, <1>6, QuietStep DEF new, TypeOK

LEMMA RefuseKeeps ==
    ASSUME CatalogueInv, NEW r \in Requests, Refuse(r)
    PROVE  CatalogueInv'
<1>1. TypeOK /\ req[r] \in Request
  BY DEF CatalogueInv, TypeOK
<1> DEFINE new == [req[r] EXCEPT !.pc = "failed"]
<1>2. Becomes(r, new)
  BY DEF Refuse, Goto
<1>3. new \in Request /\ new.locks = req[r].locks /\ new.pc = "failed"
  BY <1>1 DEF Request
<1> HIDE DEF new
<1>4. req'[r].pc = "failed"
  BY <1>1, <1>2, <1>3, OwnRecord
<1>5. Begun(r)' /\ Pending(r)'
  BY <1>4, IdleNext
<1>6. UNCHANGED <<live, content, log, used, crashes, context>>
  BY DEF Refuse
<1> QED BY <1>1, <1>2, <1>3, <1>5, <1>6, QuietStep DEF TypeOK

LEMMA RollbackKeeps ==
    ASSUME CatalogueInv, NEW r \in Requests, Rollback(r)
    PROVE  CatalogueInv'
<1>1. TypeOK /\ req[r] \in Request
  BY DEF CatalogueInv, TypeOK
<1>2. PICK label \in {"failed", "lost"} :
        Becomes(r, [req[r] EXCEPT !.pc = label, !.locks = {}, !.also = {}])
  BY DEF Rollback
<1> DEFINE new == [req[r] EXCEPT !.pc = label, !.locks = {}, !.also = {}]
<1>3. new \in Request /\ new.locks = {} /\ new.pc = label
  BY <1>1 DEF Request
<1>4. Becomes(r, new)
  BY <1>2
<1> HIDE DEF new
<1>5. req'[r].pc \in {"failed", "lost"}
  BY <1>1, <1>3, <1>4, OwnRecord
<1>6. Begun(r)' /\ Pending(r)'
  BY <1>5, IdleNext
<1>7. UNCHANGED <<live, content, log, used, crashes, context>>
  BY DEF Rollback
<1> QED BY <1>1, <1>3, <1>4, <1>6, <1>7, QuietStep DEF TypeOK

\* What Advance leaves of a request.
LEMMA Advanced ==
    ASSUME TypeOK, NEW r \in Requests, Active(r), Begun(r)
    PROVE  /\ Advance(r) \in Request /\ Advance(r).locks = {}
           /\ Advance(r).items = req[r].items
           /\ \/ Advance(r).pc = "ok"
              \/ Advance(r).pc = "read" /\ Advance(r).at \in DOMAIN req[r].items
<1>1. req[r] \in Request /\ req[r].items \in Seq(Item) /\ req[r].at \in DOMAIN req[r].items
  BY MenuAssumption DEF TypeOK, Begun
<1>2. req[r].at + 1 \in Nat /\ (req[r].at # Len(req[r].items) => req[r].at + 1 \in DOMAIN req[r].items)
  BY <1>1
<1> QED BY <1>1, <1>2 DEF Advance, Request

LEMMA FindAttributeKeeps ==
    ASSUME CatalogueInv, NEW r \in Requests, FindAttribute(r)
    PROVE  CatalogueInv'
<1>1. TypeOK /\ Begun(r) /\ Active(r) /\ Becomes(r, Advance(r))
  BY DEF CatalogueInv, FindAttribute, Active, InFlight
<1>2. req'[r] = Advance(r)
  BY <1>1, OwnRecord
<1>3. UNCHANGED <<live, content, log, used, crashes, context>>
  BY DEF FindAttribute
<1>4. Begun(r)' /\ Pending(r)'
  BY <1>1, <1>2, <1>3, Advanced DEF Begun, Pending, Active, InFlight, RowKnown, Holding
<1> QED BY <1>1, <1>3, <1>4, Advanced, QuietStep DEF TypeOK

LEMMA AnsweredKeeps ==
    ASSUME CatalogueInv, NEW r \in Requests, Answered(r)
    PROVE  CatalogueInv'
<1>1. TypeOK /\ Begun(r) /\ Active(r) /\ Becomes(r, Advance(r))
  BY DEF CatalogueInv, Answered, Active, InFlight
<1>2. req'[r] = Advance(r)
  BY <1>1, OwnRecord
<1>3. UNCHANGED <<live, content, log, used, crashes, context>>
  BY DEF Answered
<1>4. Begun(r)' /\ Pending(r)'
  BY <1>1, <1>2, <1>3, Advanced DEF Begun, Pending, Active, InFlight, RowKnown, Holding
<1> QED BY <1>1, <1>3, <1>4, Advanced, QuietStep DEF TypeOK

\* An open transaction that stays open, with what it holds.
LEMMA StillPending ==
    ASSUME CatalogueInv, NEW r \in Requests, Holding(r),
           req'[r].row = req[r].row, req'[r].items = req[r].items, req'[r].at = req[r].at,
           req'[r].also = req[r].also, req'[r].locks = req[r].locks,
           UNCHANGED <<live, log, used, context>>
    PROVE  Begun(r)' /\ Pending(r)'
<1>1. Begun(r) /\ Pending(r)
  BY DEF CatalogueInv
<1>2. Begun(r)'
  BY <1>1 DEF Begun, Active, InFlight, RowKnown, Holding
<1>3. Pending(r)'
  <2>1. ItemOf(r)' = ItemOf(r)
    BY DEF ItemOf
  <2>2. PendingCreate(r) => PendingCreate(r)'
    BY DEF PendingCreate, New, NameFree, OwnerLive
  <2>3. PendingUpdate(r) => PendingUpdate(r)'
    BY DEF PendingUpdate
  <2>4. PendingDelete(r) => PendingDelete(r)'
    BY DEF PendingDelete
  <2>5. PendingTouch(r) => PendingTouch(r)'
    BY DEF PendingTouch, New
  <2> QED BY <1>1, <2>1, <2>2, <2>3, <2>4, <2>5 DEF Pending
<1> QED BY <1>2, <1>3

LEMMA RecordKeeps ==
    ASSUME CatalogueInv, NEW r \in Requests, Record(r) \/ AnswerLost(r)
    PROVE  CatalogueInv'
<1>1. TypeOK /\ req[r] \in Request /\ Holding(r)
  BY DEF CatalogueInv, TypeOK, Record, AnswerLost, Holding
<1>2. PICK label \in {"commit", "doubt"} : Becomes(r, [req[r] EXCEPT !.pc = label])
  BY DEF Record, AnswerLost, Goto
<1> DEFINE new == [req[r] EXCEPT !.pc = label]
<1>3. /\ new \in Request /\ new.locks = req[r].locks
      /\ new.row = req[r].row /\ new.items = req[r].items /\ new.at = req[r].at
      /\ new.also = req[r].also
  BY <1>1 DEF Request
<1>4. Becomes(r, new)
  BY <1>2
<1> HIDE DEF new
<1>5. req'[r] = new
  BY <1>1, <1>4, OwnRecord
<1>6. UNCHANGED <<live, content, log, used, crashes, context>>
  BY DEF Record, AnswerLost
<1>7. Begun(r)' /\ Pending(r)'
  BY <1>1, <1>3, <1>5, <1>6, StillPending
<1> QED BY <1>1, <1>3, <1>4, <1>6, <1>7, QuietStep DEF TypeOK

\* The locks a row change takes.
LEMMA LocksTaken ==
    ASSUME NEW o \in Ops, NEW x \in Rows, NEW also \in SUBSET Rows
    PROVE  /\ Locks(o, x, also) \in SUBSET LockTypes
           /\ o = "create" => /\ <<x, "update">> \in Locks(o, x, also)
                              /\ <<NameOf[x], "update">> \in Locks(o, x, also)
                              /\ OwnerOf[x] # NoRow => <<OwnerOf[x], "share">> \in Locks(o, x, also)
           /\ o = "update" => \A y \in {x} \cup also : <<y, "update">> \in Locks(o, x, also)
           /\ o = "touch" => \A y \in also : <<y, "update">> \in Locks(o, x, also)
           /\ o = "delete" => \A y \in {x} \cup (Owned(x) \cap live) :
                                 <<y, "delete">> \in Locks(o, x, also)
<1>1. CASE o = "create"
  BY <1>1, RowsAssumption DEF Locks, LockTypes, LockModes
<1>2. CASE o = "update"
  BY <1>2, RowsAssumption DEF Locks, LockTypes, LockModes
<1>3. CASE o = "delete"
  <2>1. \A y \in {x} \cup (Owned(x) \cap live) : y \in Rows /\ NameOf[y] \in Names
    BY RowsAssumption DEF Owned
  <2> QED BY <1>3, <2>1 DEF Locks, LockTypes, LockModes
<1>4. CASE o = "touch"
  BY <1>4, RowsAssumption DEF Locks, LockTypes, LockModes
<1> QED BY <1>1, <1>2, <1>3, <1>4 DEF Ops

LEMMA WriteKeeps ==
    ASSUME CatalogueInv, NEW r \in Requests, Write(r)
    PROVE  CatalogueInv'
<1> DEFINE o == ItemOf(r).op
           also == IF ItemOf(r).price THEN Owned(req[r].row) \cap live ELSE {}
<1>1. /\ TypeOK /\ IdsUsed /\ Apart /\ Begun(r) /\ req[r] \in Request
      /\ Active(r) /\ req[r].pc = "write"
  BY DEF CatalogueInv, TypeOK, Write, Active, InFlight
<1>2. /\ o \in Ops /\ also \in SUBSET Rows /\ also \subseteq Owned(req[r].row) \cap live
      /\ o \notin {"update", "touch"} => also = {}
  BY <1>1, ItemType DEF Item, TypeOK
<1>3. PICK x \in Rows :
        /\ IF o = "create"
           THEN x \notin used /\ NameFree(x) /\ OwnerLive(x)
           ELSE x = req[r].row /\ x \in live
        /\ Free(r, Locks(o, x, also))
        /\ used' = used \cup {x}
        /\ Becomes(r, [req[r] EXCEPT !.pc = "record", !.row = x, !.also = also,
                                     !.locks = Locks(o, x, also)])
  BY DEF Write
<1> HIDE DEF o, also
<1> DEFINE new == [req[r] EXCEPT !.pc = "record", !.row = x, !.also = also,
                                 !.locks = Locks(o, x, also)]
<1>4. Becomes(r, new)
  BY <1>3
<1>5. Locks(o, x, also) \in SUBSET LockTypes
  BY <1>2, LocksTaken
<1>6. /\ new \in Request /\ new.pc = "record" /\ new.row = x /\ new.also = also
      /\ new.locks = Locks(o, x, also) /\ new.items = req[r].items /\ new.at = req[r].at
  BY <1>1, <1>2, <1>5 DEF Request
<1> HIDE DEF new
<1>7. /\ req'[r] = new /\ \A s \in Requests : s # r => req'[s] = req[s]
      /\ req' \in [Requests -> Request]
  BY <1>1, <1>4, <1>6, OwnRecord
<1>8. UNCHANGED <<live, content, log, context, crashes>>
  BY DEF Write
<1>9. ItemOf(r)' = ItemOf(r)
  BY <1>6, <1>7 DEF ItemOf
<1>10. TypeOK'
  BY <1>1, <1>3, <1>7, <1>8 DEF TypeOK
<1>11. IdsUsed'
  BY <1>1, <1>3, <1>8 DEF IdsUsed, New
<1>12. Apart'
  <2>1. \A s \in Requests \ {r} : \A a \in Locks(o, x, also), b \in req[s].locks : ~Excludes(a, b)
    BY <1>3 DEF Free
  <2>2. \A a, b : Excludes(a, b) => Excludes(b, a)
    BY DEF Excludes
  <2>3. ASSUME NEW s \in Requests, NEW t \in Requests, s # t,
               NEW a \in req'[s].locks, NEW b \in req'[t].locks
        PROVE  ~Excludes(a, b)
    <3>1. CASE s = r
      BY <1>6, <1>7, <2>1, <2>3, <3>1
    <3>2. CASE t = r
      BY <1>6, <1>7, <2>1, <2>2, <2>3, <3>2
    <3>3. CASE s # r /\ t # r
      BY <1>1, <1>7, <2>3, <3>3 DEF Apart
    <3> QED BY <3>1, <3>2, <3>3
  <2> QED BY <2>3 DEF Apart, Excludes
<1>13. Begun(r)'
  BY <1>1, <1>6, <1>7, <1>8 DEF Begun, Active, InFlight, RowKnown
<1>14. Pending(r)'
  <2>1. ASSUME o = "create"
        PROVE  PendingCreate(r)'
    <3>1. New(x)
      BY <1>1, <1>3, <2>1 DEF IdsUsed, New
    <3>2. x \notin live /\ also = {}
      BY <1>1, <1>2, <1>3, <2>1 DEF IdsUsed
    <3>3. /\ <<x, "update">> \in Locks(o, x, also) /\ <<NameOf[x], "update">> \in Locks(o, x, also)
          /\ OwnerOf[x] # NoRow => <<OwnerOf[x], "share">> \in Locks(o, x, also)
      BY <1>2, <2>1, LocksTaken
    <3>4. x \in used' /\ NameFree(x) /\ OwnerLive(x)
      BY <1>3, <2>1
    <3> QED BY <1>6, <1>7, <1>8, <3>1, <3>2, <3>3, <3>4 DEF PendingCreate, New, NameFree, OwnerLive
  <2>2. ASSUME o = "update"
        PROVE  PendingUpdate(r)'
    <3>1. x \in live /\ also \subseteq Owned(x) \cap live
      BY <1>2, <1>3, <2>2
    <3>2. \A y \in {x} \cup also : <<y, "update">> \in Locks(o, x, also)
      BY <1>2, <2>2, LocksTaken
    <3> QED BY <1>6, <1>7, <1>8, <3>1, <3>2 DEF PendingUpdate
  <2>3. ASSUME o = "delete"
        PROVE  PendingDelete(r)'
    <3>1. x \in live
      BY <1>3, <2>3
    <3>2. \A y \in {x} \cup (Owned(x) \cap live) : <<y, "delete">> \in Locks(o, x, also)
      BY <1>2, <2>3, LocksTaken
    <3> QED BY <1>6, <1>7, <1>8, <3>1, <3>2 DEF PendingDelete, Owned
  <2>4. ASSUME o = "touch"
        PROVE  PendingTouch(r)'
    <3>1. x \in used' /\ ~New(x) /\ also \subseteq Owned(x) \cap live
      BY <1>1, <1>2, <1>3, <2>4 DEF IdsUsed
    <3>2. \A y \in also : <<y, "update">> \in Locks(o, x, also)
      BY <1>2, <2>4, LocksTaken
    <3> QED BY <1>6, <1>7, <1>8, <3>1, <3>2 DEF PendingTouch, New
  <2> QED BY <1>9, <2>1, <2>2, <2>3, <2>4 DEF Pending, o
<1>15. \A s \in Requests : s # r => Begun(s)' /\ Pending(s)'
  BY <1>3, <1>7, <1>8, Untouched
<1> QED BY <1>10, <1>11, <1>12, <1>13, <1>14, <1>15 DEF CatalogueInv

LEMMA ChangeKeeps ==
    ASSUME CatalogueInv, NEW r \in Requests, Change(r)
    PROVE  CatalogueInv'
<1>1. Write(r)
  BY DEF Change, CreateProduct, UpdateProduct, TouchProduct, DeleteProduct, CreateVariant, UpdateVariant,
         DeleteVariant, CreateAttribute, UpdateAttributePart, DeleteAttribute,
         CreateCategory, UpdateCategory, DeleteCategory, CreateCollection, TouchCollection, TouchVariant,
         UpdateCollection, DeleteCollection, CreateTag, UpdateTag, DeleteTag,
         CreateTemplate, UpdateTemplate, DeleteTemplate
<1> QED BY <1>1, WriteKeeps

\* What a restart makes of each request.
LEMMA Restarted ==
    ASSUME TypeOK, Crash, NEW r \in Requests
    PROVE  /\ req'[r] \in Request /\ req'[r].locks \subseteq req[r].locks
           /\ \/ req'[r] = req[r]
              \/ /\ req'[r].items = req[r].items /\ req'[r].at = req[r].at
                 /\ \/ InFlight(r) /\ req'[r].pc = "lost"
                    \/ /\ req[r].pc = "commit" /\ req'[r].pc = "doubt"
                       /\ req'[r].row = req[r].row /\ req'[r].also = req[r].also
                       /\ req'[r].locks = req[r].locks
<1>1. req[r] \in Request
  BY DEF TypeOK
<1>2. PICK sent \in SUBSET {q \in Requests : req[q].pc = "commit"} :
        req' = [q \in Requests |->
                   IF q \in sent THEN [req[q] EXCEPT !.pc = "doubt"]
                   ELSE IF InFlight(q)
                   THEN [req[q] EXCEPT !.pc = "lost", !.locks = {}, !.also = {}]
                   ELSE req[q]]
  BY DEF Crash
<1>3. CASE r \in sent
  <2> DEFINE new == [req[r] EXCEPT !.pc = "doubt"]
  <2>1. /\ new \in Request /\ new.pc = "doubt" /\ new.items = req[r].items
        /\ new.at = req[r].at /\ new.row = req[r].row /\ new.also = req[r].also
        /\ new.locks = req[r].locks
    BY <1>1 DEF Request
  <2>2. req'[r] = new /\ req[r].pc = "commit"
    BY <1>2, <1>3
  <2> HIDE DEF new
  <2> QED BY <2>1, <2>2
<1>4. CASE r \notin sent /\ InFlight(r)
  <2> DEFINE new == [req[r] EXCEPT !.pc = "lost", !.locks = {}, !.also = {}]
  <2>1. /\ new \in Request /\ new.pc = "lost" /\ new.items = req[r].items
        /\ new.at = req[r].at /\ new.locks = {}
    BY <1>1 DEF Request
  <2>2. req'[r] = new
    BY <1>2, <1>4
  <2> HIDE DEF new
  <2> QED BY <1>4, <2>1, <2>2
<1>5. CASE r \notin sent /\ ~InFlight(r)
  BY <1>1, <1>2, <1>5
<1> QED BY <1>3, <1>4, <1>5

LEMMA CrashKeeps ==
    ASSUME CatalogueInv, Crash
    PROVE  CatalogueInv'
<1>1. TypeOK /\ req \in [Requests -> Request]
  BY DEF CatalogueInv, TypeOK
<1>2. req' \in [Requests -> Request]
  BY <1>1, Restarted DEF Crash
<1>3. UNCHANGED <<live, content, log, used, context>>
  BY DEF Crash
<1>4. TypeOK'
  <2>1. crashes' \in 0..MaxCrashes
    <3>1. crashes' = crashes + 1 /\ crashes < MaxCrashes /\ crashes \in 0..MaxCrashes
      BY <1>1 DEF Crash, TypeOK
    <3> QED BY <3>1, KindsAssumption
  <2> QED BY <1>1, <1>2, <1>3, <2>1 DEF TypeOK
<1>5. IdsUsed'
  BY <1>3 DEF CatalogueInv, IdsUsed, New
<1>6. Apart'
  <2>1. \A r \in Requests : req'[r].locks \subseteq req[r].locks
    BY <1>1, Restarted
  <2> QED BY <2>1 DEF CatalogueInv, Apart, Excludes
<1>7. ASSUME NEW r \in Requests PROVE Begun(r)' /\ Pending(r)'
  <2>1. CASE req'[r] = req[r]
    BY <1>3, <2>1, Untouched
  <2>2. CASE req'[r].pc = "lost"
    BY <2>2, IdleNext
  <2>3. CASE req'[r] # req[r] /\ req'[r].pc # "lost"
    <3>1. /\ Holding(r) /\ req'[r].row = req[r].row /\ req'[r].items = req[r].items
          /\ req'[r].at = req[r].at /\ req'[r].also = req[r].also
          /\ req'[r].locks = req[r].locks
      BY <1>1, <2>3, Restarted DEF Holding
    <3> QED BY <1>3, <3>1, StillPending
  <2> QED BY <2>1, <2>2, <2>3
<1> QED BY <1>4, <1>5, <1>6, <1>7 DEF CatalogueInv
-----------------------------------------------------------------------------
\* A commit is a step of the store.
LEMMA CommitIsStoreStep ==
    ASSUME CatalogueInv, NEW r \in Requests, Commit(r)
    PROVE  LET x == req[r].row IN
           /\ x \in Rows
           /\ \/ ItemOf(r).op = "create" /\ CreateRow(x, r)
              \/ ItemOf(r).op = "update" /\ UpdateRow(x, r)
              \/ ItemOf(r).op = "touch" /\ TouchRow(x, r)
              \/ ItemOf(r).op = "delete" /\ DeleteRow(x, r)
<1> DEFINE x == req[r].row
           o == ItemOf(r).op
<1>1. /\ TypeOK /\ Begun(r) /\ Pending(r) /\ Active(r) /\ Holding(r)
      /\ content \in [Rows -> Requests \cup {NoRequest}]
  BY DEF CatalogueInv, TypeOK, Commit, Active, InFlight, Holding
<1>2. x \in Rows /\ context[r] = AdminOf[r] /\ o \in Ops
  BY <1>1, ItemType DEF Begun, RowKnown, Holding, Item
<1>3. /\ live' = CASE o = "create" -> live \cup {x}
                   [] o \in {"update", "touch"} -> live
                   [] o = "delete" -> live \ ({x} \cup Owned(x))
      /\ content' = IF o = "delete" THEN content
                    ELSE [y \in Rows |-> IF (y = x /\ o # "touch") \/ y \in req[r].also
                                          THEN r ELSE content[y]]
      /\ log' = Append(log, [op |-> o, row |-> x, req |-> r, actor |-> AdminOf[r]])
  BY <1>2 DEF Commit, EventOf
<1>4. CASE o = "create"
  <2>1. PendingCreate(r)
    BY <1>1, <1>4 DEF Pending
  <2>2. content' = [content EXCEPT ![x] = r]
    BY <1>1, <1>3, <1>4, <2>1 DEF PendingCreate
  <2>3. live' = live \cup {x} /\ Log("create", x, r)
    BY <1>3, <1>4 DEF Log
  <2> QED BY <1>2, <1>4, <2>1, <2>2, <2>3 DEF CreateRow, PendingCreate
<1>5. CASE o = "update"
  <2>1. PendingUpdate(r)
    BY <1>1, <1>5 DEF Pending
  <2>2. live' = live /\ Log("update", x, r)
    BY <1>3, <1>5 DEF Log
  <2> QED BY <1>2, <1>3, <1>5, <2>1, <2>2 DEF UpdateRow, PendingUpdate
<1>6. CASE o = "delete"
  <2>1. PendingDelete(r)
    BY <1>1, <1>6 DEF Pending
  <2>2. live' = live \ ({x} \cup Owned(x)) /\ content' = content /\ Log("delete", x, r)
    BY <1>3, <1>6 DEF Log
  <2> QED BY <1>2, <1>6, <2>1, <2>2 DEF DeleteRow, PendingDelete
<1>7. CASE o = "touch"
  <2>1. PendingTouch(r)
    BY <1>1, <1>7 DEF Pending
  <2>2. live' = live /\ Log("touch", x, r)
    BY <1>3, <1>7 DEF Log
  <2>3. content' = [y \in Rows |-> IF y \in req[r].also THEN r ELSE content[y]]
    BY <1>3, <1>7
  <2> QED BY <1>2, <1>7, <2>1, <2>2, <2>3 DEF TouchRow, PendingTouch
<1> QED BY <1>2, <1>4, <1>5, <1>6, <1>7 DEF Ops

\* What another transaction relies on survives a commit, because of its locks.
LEMMA PendingSurvives ==
    ASSUME CatalogueInv, NEW r \in Requests, NEW s \in Requests, s # r, Commit(r),
           req'[s] = req[s], Holding(s)
    PROVE  Pending(s)'
<1> DEFINE x == req[r].row
           y == req[s].row
<1>1. /\ TypeOK /\ Apart /\ IdsUsed /\ Pending(r) /\ Pending(s) /\ Begun(s)
      /\ Holding(r) /\ Active(s)
  BY DEF CatalogueInv, Commit, Holding, Active, InFlight
<1>2. /\ x \in Rows /\ y \in Rows /\ live \subseteq Rows
      /\ \/ ItemOf(r).op = "create" /\ CreateRow(x, r)
         \/ ItemOf(r).op = "update" /\ UpdateRow(x, r)
         \/ ItemOf(r).op = "touch" /\ TouchRow(x, r)
         \/ ItemOf(r).op = "delete" /\ DeleteRow(x, r)
  BY <1>1, CommitIsStoreStep DEF Begun, RowKnown, Holding, TypeOK
<1>3. ItemOf(s)' = ItemOf(s) /\ used' = used
  BY DEF ItemOf, Commit
<1>4. \A z : (\A i \in DOMAIN log : log[i].row # z) /\ z # x =>
                \A i \in DOMAIN log' : log'[i].row # z
  <2>1. PICK o \in Ops : Log(o, x, r)
    BY <1>2 DEF CreateRow, UpdateRow, TouchRow, DeleteRow, Ops
  <2> QED BY <1>1, <1>2, <2>1, Logging DEF TypeOK
<1>5. ASSUME ItemOf(s).op = "create"
      PROVE  PendingCreate(s)'
  <2>1. PendingCreate(s) /\ y \notin live
    BY <1>1, <1>5 DEF Pending, PendingCreate
  <2>2. x # y
    <3>1. CASE ItemOf(r).op = "create"
      <4>1. <<x, "update">> \in req[r].locks /\ <<y, "update">> \in req[s].locks
        BY <1>1, <2>1, <3>1 DEF Pending, PendingCreate
      <4> QED BY <1>1, <4>1, OnlyShared
    <3>2. CASE ItemOf(r).op # "create"
      BY <1>2, <2>1, <3>2 DEF UpdateRow, TouchRow, DeleteRow, PendingCreate
    <3> QED BY <3>1, <3>2
  <2>3. New(y)'
    BY <1>4, <2>1, <2>2 DEF PendingCreate, New
  <2>4. NameFree(y)' /\ y \notin live' /\ OwnerLive(y)'
    <3>1. CASE ItemOf(r).op = "create"
      <4>1. <<NameOf[x], "update">> \in req[r].locks /\ <<NameOf[y], "update">> \in req[s].locks
        BY <1>1, <2>1, <3>1 DEF Pending, PendingCreate
      <4>2. NameOf[x] # NameOf[y]
        BY <1>1, <4>1, OnlyShared
      <4> QED BY <1>2, <2>1, <2>2, <3>1, <4>2 DEF CreateRow, PendingCreate, NameFree, OwnerLive
    <3>2. CASE ItemOf(r).op \in {"update", "touch"}
      BY <1>2, <2>1, <3>2 DEF UpdateRow, TouchRow, PendingCreate, NameFree, OwnerLive
    <3>3. CASE ItemOf(r).op = "delete"
      <4>1. live' = live \ ({x} \cup Owned(x))
        BY <1>2, <3>3 DEF DeleteRow
      <4>2. OwnerOf[y] # NoRow => <<OwnerOf[y], "share">> \in req[s].locks
        BY <2>1 DEF PendingCreate
      <4>3. \A z \in {x} \cup (Owned(x) \cap live) : <<z, "delete">> \in req[r].locks
        BY <1>1, <3>3 DEF Pending, PendingDelete
      <4>4. OwnerOf[y] # NoRow => OwnerOf[y] \notin {x} \cup (Owned(x) \cap live)
        BY <1>1, <4>2, <4>3, OnlyShared
      <4> QED BY <2>1, <4>1, <4>4 DEF PendingCreate, NameFree, OwnerLive
    <3> QED BY <1>2, <3>1, <3>2, <3>3
  <2> QED BY <1>3, <2>1, <2>3, <2>4 DEF PendingCreate
<1>6. \A z \in live : \A m \in {"update", "delete"} : <<z, m>> \in req[s].locks => z \in live'
  <2> SUFFICES ASSUME NEW z \in live, NEW m \in {"update", "delete"},
                      <<z, m>> \in req[s].locks, z \notin live'
               PROVE  FALSE
    OBVIOUS
  <2>1. ItemOf(r).op = "delete" /\ z \in {x} \cup (Owned(x) \cap live)
    BY <1>2 DEF CreateRow, UpdateRow, TouchRow, DeleteRow
  <2>2. <<z, "delete">> \in req[r].locks
    BY <1>1, <2>1 DEF Pending, PendingDelete
  <2> QED BY <1>1, <2>2, OnlyShared
<1>7. ASSUME ItemOf(s).op = "update"
      PROVE  PendingUpdate(s)'
  <2>1. PendingUpdate(s)
    BY <1>1, <1>7 DEF Pending
  <2> QED BY <1>6, <2>1 DEF PendingUpdate, Owned
<1>8. ASSUME ItemOf(s).op = "delete"
      PROVE  PendingDelete(s)'
  <2>1. PendingDelete(s)
    BY <1>1, <1>8 DEF Pending
  <2>2. y \in live'
    BY <1>6, <2>1 DEF PendingDelete
  <2>3. Owned(y) \cap live' \subseteq Owned(y) \cap live
    <3>1. CASE ItemOf(r).op = "create"
      <4>1. live' = live \cup {x} /\ PendingCreate(r)
        BY <1>1, <1>2, <3>1 DEF CreateRow, Pending
      <4>2. OwnerOf[x] # y
        <5>1. <<y, "delete">> \in req[s].locks
          BY <2>1 DEF PendingDelete
        <5>2. y # NoRow
          BY <1>2, RowsAssumption
        <5> QED BY <1>1, <4>1, <5>1, <5>2, OnlyShared DEF PendingCreate
      <4> QED BY <4>1, <4>2 DEF Owned
    <3>2. CASE ItemOf(r).op # "create"
      BY <1>2, <3>2 DEF UpdateRow, TouchRow, DeleteRow
    <3> QED BY <3>1, <3>2
  <2> QED BY <2>1, <2>2, <2>3 DEF PendingDelete, Owned
<1>9. ASSUME ItemOf(s).op = "touch"
      PROVE  PendingTouch(s)'
  <2>1. PendingTouch(s)
    BY <1>1, <1>9 DEF Pending
  <2>2. ~New(y)'
    <3>1. PICK o \in Ops : Log(o, x, r)
      BY <1>2 DEF CreateRow, UpdateRow, TouchRow, DeleteRow, Ops
    <3> QED BY <1>1, <1>2, <2>1, <3>1, Logging DEF TypeOK, PendingTouch, New
  <2> QED BY <1>3, <1>6, <2>1, <2>2 DEF PendingTouch, Owned
<1> QED BY <1>3, <1>5, <1>7, <1>8, <1>9 DEF Pending

\* What COMMIT leaves of a request.
LEMMA DecidedRequest ==
    ASSUME TypeOK, NEW r \in Requests
    PROVE  /\ Decided(r) \in Request /\ Decided(r).locks = {}
           /\ Decided(r).pc = (IF req[r].pc = "commit" THEN "committed" ELSE "lost")
           /\ Decided(r).items = req[r].items /\ Decided(r).at = req[r].at
<1>1. req[r] \in Request
  BY DEF TypeOK
<1> QED BY <1>1 DEF Decided, Request

LEMMA CommitKeeps ==
    ASSUME CatalogueInv, NEW r \in Requests, Commit(r)
    PROVE  CatalogueInv'
<1>1. /\ TypeOK /\ IdsUsed /\ Begun(r) /\ Active(r) /\ req[r] \in Request
      /\ Becomes(r, Decided(r)) /\ UNCHANGED <<used, context, crashes>>
  BY DEF CatalogueInv, TypeOK, Commit, Active, InFlight
<1>2. /\ req'[r] = Decided(r) /\ \A s \in Requests : s # r => req'[s] = req[s]
      /\ req' \in [Requests -> Request]
  BY <1>1, OwnRecord, DecidedRequest
<1>3. /\ req[r].row \in Rows /\ StoreTypeOK
      /\ \/ CreateRow(req[r].row, r) /\ ItemOf(r).op = "create"
         \/ UpdateRow(req[r].row, r) \/ DeleteRow(req[r].row, r)
         \/ TouchRow(req[r].row, r) /\ ItemOf(r).op = "touch"
  BY <1>1, CommitIsStoreStep DEF TypeOK, StoreTypeOK
<1>4. TypeOK'
  <2>1. StoreTypeOK'
    BY <1>3, TypePreserved DEF StoreNext
  <2> QED BY <1>1, <1>2, <2>1 DEF TypeOK, StoreTypeOK
<1>5. IdsUsed'
  <2>1. PICK o \in Ops : Log(o, req[r].row, r)
    BY <1>3 DEF CreateRow, UpdateRow, TouchRow, DeleteRow, Ops
  <2>2. req[r].row \in used
    <3>1. /\ ItemOf(r).op = "create" => PendingCreate(r)
          /\ ItemOf(r).op = "touch" => PendingTouch(r)
      BY DEF CatalogueInv, Pending, Commit, Holding
    <3> QED BY <1>1, <1>3, <3>1 DEF PendingCreate, PendingTouch, UpdateRow, DeleteRow, IdsUsed
  <2>3. live' \subseteq live \cup {req[r].row}
    BY <1>3 DEF CreateRow, UpdateRow, TouchRow, DeleteRow
  <2>4. \A i \in DOMAIN log' : log'[i].row \in used
    BY <1>1, <1>3, <2>1, <2>2, Logging DEF IdsUsed, StoreTypeOK
  <2>5. \A x \in live' : ~New(x)'
    BY <1>1, <1>3, <2>1, <2>3, Logging DEF IdsUsed, New, StoreTypeOK
  <2> QED BY <1>1, <2>2, <2>3, <2>4, <2>5 DEF IdsUsed
<1>6. Apart'
  BY <1>1, <1>2, DecidedRequest, ApartWhenReleased
<1>7. Begun(r)' /\ Pending(r)'
  BY <1>1, <1>2, DecidedRequest DEF Begun, Pending, Active, InFlight, RowKnown, Holding
<1>8. ASSUME NEW s \in Requests, s # r PROVE Begun(s)' /\ Pending(s)'
  <2>1. req'[s] = req[s] /\ Begun(s)
    BY <1>2, <1>8 DEF CatalogueInv
  <2>2. Begun(s)'
    BY <1>1, <2>1 DEF Begun, Active, InFlight, RowKnown
  <2>3. CASE Holding(s)
    BY <1>8, <2>1, <2>2, <2>3, PendingSurvives
  <2>4. CASE ~Holding(s)
    BY <2>1, <2>2, <2>4 DEF Pending, Holding
  <2> QED BY <2>2, <2>3, <2>4
<1> QED BY <1>4, <1>5, <1>6, <1>7, <1>8 DEF CatalogueInv
-----------------------------------------------------------------------------
\* The inductive invariant: every command that has begun is on an item of its menu,
\* and every open transaction's locks keep true what its commit relies on.
THEOREM CommandsConsistent == Spec => []CatalogueInv
<1>1. Init => CatalogueInv
  <2> SUFFICES ASSUME Init PROVE CatalogueInv
    OBVIOUS
  <2>1. \A r \in Requests : req[r] = Idle("new")
    BY DEF Init
  <2>2. /\ Idle("new") \in Request /\ Idle("new").pc = "new" /\ Idle("new").locks = {}
    BY DEF Idle, Request
  <2>3. log = <<>> /\ log \in Seq(Event) /\ DOMAIN log = {}
    BY DEF Init, StoreInit
  <2>4. live = InitialRows /\ used = InitialRows
    BY DEF Init, StoreInit
  <2>5. TypeOK
    <3>1. content \in [Rows -> Requests \cup {NoRequest}]
      BY DEF Init, StoreInit
    <3>2. context \in [Requests -> Admins \cup {NoActor}] /\ crashes \in 0..MaxCrashes
      BY KindsAssumption DEF Init
    <3>3. req \in [Requests -> Request]
      BY <2>1, <2>2 DEF Init
    <3> QED BY <2>3, <2>4, <3>1, <3>2, <3>3, RowsAssumption DEF TypeOK
  <2>6. IdsUsed
    BY <2>3, <2>4 DEF IdsUsed, New
  <2>7. Apart
    BY <2>1, <2>2 DEF Apart
  <2>8. \A r \in Requests : Begun(r) /\ Pending(r)
    BY <2>1, <2>2 DEF Begun, Pending, Active, InFlight, RowKnown, Holding
  <2> QED BY <2>5, <2>6, <2>7, <2>8 DEF CatalogueInv
<1>2. CatalogueInv /\ [Next]_vars => CatalogueInv'
  <2> SUFFICES ASSUME CatalogueInv, [Next]_vars PROVE CatalogueInv'
    OBVIOUS
  <2>1. ASSUME NEW r \in Requests, Send(r) \/ Serve(r) PROVE CatalogueInv'
    BY <2>1, SendKeeps, ReadKeeps, RefuseKeeps, FindAttributeKeeps, ChangeKeeps, RecordKeeps,
       CommitKeeps, AnsweredKeeps, RollbackKeeps DEF Serve
  <2>2. CASE Crash
    BY <2>2, CrashKeeps
  <2>3. CASE UNCHANGED vars
    <3>1. \A r \in Requests : Begun(r)' /\ Pending(r)'
      BY <2>3, Untouched DEF vars
    <3>2. TypeOK' /\ IdsUsed' /\ Apart'
      BY <2>3 DEF CatalogueInv, vars, TypeOK, IdsUsed, New, Apart, Excludes
    <3> QED BY <3>1, <3>2 DEF CatalogueInv
  <2> QED BY <2>1, <2>2, <2>3 DEF Next
<1> QED BY <1>1, <1>2, PTL DEF Spec

\* Every variable of the catalogue keeps its type.
THEOREM CatalogueTypeCorrect == Spec => []TypeOK
<1>1. CatalogueInv => TypeOK
  BY DEF CatalogueInv
<1> QED BY <1>1, CommandsConsistent, PTL

\* The services' interleaved transactions behave as commands that run one at a time,
\* each with its event: the step a commit makes is one of the abstract store's, and
\* no other step shows.
THEOREM CatalogueImplementsStore == Spec => ImplementsStore
<1>1. Init => StoreInit
  BY DEF Init
<1>2. CatalogueInv /\ [Next]_vars => [StoreNext]_storeVars
  <2> SUFFICES ASSUME CatalogueInv, [Next]_vars PROVE [StoreNext]_storeVars
    OBVIOUS
  <2>1. ASSUME NEW r \in Requests, Commit(r) PROVE StoreNext
    BY <2>1, CommitIsStoreStep DEF StoreNext
  <2>2. ASSUME NEW r \in Requests, Change(r) PROVE UNCHANGED storeVars
    BY <2>2 DEF storeVars, Change, Write,
         CreateProduct, UpdateProduct, TouchProduct, DeleteProduct, CreateVariant, UpdateVariant,
         DeleteVariant, CreateAttribute, UpdateAttributePart, DeleteAttribute,
         CreateCategory, UpdateCategory, DeleteCategory, CreateCollection, TouchCollection, TouchVariant,
         UpdateCollection, DeleteCollection, CreateTag, UpdateTag, DeleteTag,
         CreateTemplate, UpdateTemplate, DeleteTemplate
  <2>3. ASSUME NEW r \in Requests,
               \/ Send(r) \/ Read(r) \/ Refuse(r) \/ FindAttribute(r) \/ Record(r)
               \/ Rollback(r) \/ Answered(r) \/ AnswerLost(r)
        PROVE  UNCHANGED storeVars
    BY <2>3 DEF storeVars, Send, Read, Refuse, FindAttribute, Record, Rollback, Answered,
                AnswerLost
  <2>4. Crash \/ UNCHANGED vars => UNCHANGED storeVars
    BY DEF Crash, vars, storeVars
  <2> QED BY <2>1, <2>2, <2>3, <2>4 DEF Next, Serve
<1> QED BY <1>1, <1>2, CommandsConsistent, PTL DEF Spec, ImplementsStore, StoreSpec

\* However commands overlap, fail and are cut short, the log explains which rows
\* there are.
THEOREM LogAuthoritative == Spec => []LogExplainsRows
BY CatalogueImplementsStore, StoreExplained, PTL DEF ImplementsStore

\* The log never tells an impossible story of a row.
THEOREM HistoriesMakeSense == Spec => []HistoryWellFormed
BY CatalogueImplementsStore, StoreExplained, PTL DEF ImplementsStore

\* Every row's content has its event, and no committed update is overwritten in
\* silence.
THEOREM ContentsHaveEvents == Spec => []ContentExplained
BY CatalogueImplementsStore, StoreExplained, PTL DEF ImplementsStore
-----------------------------------------------------------------------------
\* The row in hand is the item's, or has its name.
RowOfItem(r) ==
    (RowKnown(r) /\ ItemOf(r).op # "create") \/ Holding(r) =>
        NameOf[req[r].row] = NameOf[ItemOf(r).row]

\* A request that has not begun has nothing behind it; one that has is on an item of
\* its command, or past the last one, and that is when it is answered "ok".
Progress(r) ==
    /\ req[r].pc = "new" => req[r].items = <<>> /\ req[r].at = 1
    /\ req[r].pc # "new" =>
          /\ req[r].items \in Menu /\ req[r].at \in 1..(Len(req[r].items) + 1)
          /\ req[r].pc = "ok" <=> req[r].at = Len(req[r].items) + 1

Told(r) ==
    \/ \E n \in Written(r) : \E f \in [1..n -> Mine(r)] : Tells(f, r)
    \/ /\ req[r].pc = "ok" /\ Mine(r) = {}
       /\ \A k \in DOMAIN req[r].items :
             req[r].items[k].op = "create" /\ req[r].items[k].row \in Attributes

EventsInv == \A r \in Requests : RowOfItem(r) /\ Progress(r) /\ Told(r)

\* The log and the item in hand as they were: what is told stays told.
LEMMA ToldStays ==
    ASSUME NEW r \in Requests, Told(r), UNCHANGED log,
           req'[r].items = req[r].items, Written(r) \subseteq Written(r)',
           req[r].pc = "ok" => req'[r].pc = "ok"
    PROVE  Told(r)'
<1>1. Mine(r)' = Mine(r)
  BY DEF Mine
<1>2. \A f : Tells(f, r) => Tells(f, r)'
  BY <1>1 DEF Tells
<1>3. CASE \E n \in Written(r) : \E f \in [1..n -> Mine(r)] : Tells(f, r)
  <2>1. PICK n \in Written(r) : \E f \in [1..n -> Mine(r)] : Tells(f, r)
    BY <1>3
  <2>2. PICK f \in [1..n -> Mine(r)] : Tells(f, r)
    BY <2>1
  <2>3. n \in Written(r)' /\ f \in [1..n -> Mine(r)'] /\ Tells(f, r)'
    BY <1>1, <1>2, <2>2
  <2> QED BY <2>3 DEF Told
<1>4. CASE ~\E n \in Written(r) : \E f \in [1..n -> Mine(r)] : Tells(f, r)
  BY <1>1, <1>4 DEF Told
<1> QED BY <1>3, <1>4

\* Where a request may go within its item, with its row and with no more told of it.
Stays(r, new) ==
    /\ new.items = req[r].items /\ new.at = req[r].at
    /\ \/ req[r].pc # "committed" /\ new.pc \in {"read", "write", "record", "commit"}
       \/ req[r].pc # "committed" /\ new.pc = "failed"
       \/ req[r].pc = "commit" /\ new.pc = "doubt" /\ new.row = req[r].row
       \/ new.pc = "lost"

\* A request that stays where it is, or within its item.
LEMMA EventsElsewhere ==
    ASSUME EventsInv, NEW s \in Requests, UNCHANGED log,
           \/ req'[s] = req[s]
           \/ Active(s) /\ Stays(s, req'[s]) /\ RowOfItem(s)'
    PROVE  RowOfItem(s)' /\ Progress(s)' /\ Told(s)'
<1>1. RowOfItem(s) /\ Progress(s) /\ Told(s)
  BY DEF EventsInv
<1>2. CASE req'[s] = req[s]
  <2>1. Written(s)' = Written(s)
    BY <1>2 DEF Written
  <2>2. Told(s)'
    BY <1>1, <1>2, <2>1, ToldStays
  <2> QED BY <1>1, <1>2, <2>2 DEF RowOfItem, Progress, RowKnown, Holding, ItemOf
<1>3. CASE req'[s] # req[s]
  <2>1. Written(s) \subseteq Written(s)' /\ req[s].pc # "ok"
    BY <1>3 DEF Written, Stays, Active, InFlight
  <2>2. req'[s].items = req[s].items
    BY <1>3 DEF Stays
  <2>3. Told(s)'
    BY <1>1, <2>1, <2>2, ToldStays
  <2>4. Progress(s)'
    BY <1>1, <1>3 DEF Progress, Stays, Active, InFlight
  <2> QED BY <1>3, <2>3, <2>4
<1> QED BY <1>2, <1>3

\* A step of one request within its item, with the log as it was.
LEMMA EventsWithin ==
    ASSUME CatalogueInv, EventsInv, NEW r \in Requests, NEW new, new \in Request, Becomes(r, new),
           UNCHANGED log, Active(r), Stays(r, new), RowOfItem(r)'
    PROVE  EventsInv'
<1>1. req'[r] = new /\ \A s \in Requests : s # r => req'[s] = req[s]
  BY OwnRecord DEF CatalogueInv
<1> QED BY <1>1, EventsElsewhere DEF EventsInv

LEMMA SendEvents ==
    ASSUME CatalogueInv, EventsInv, NEW r \in Requests, Send(r)
    PROVE  EventsInv'
<1>1. TypeOK /\ req[r].pc = "new" /\ UNCHANGED log
  BY DEF CatalogueInv, Send
<1>2. PICK c \in Menu : Becomes(r, [Idle("read") EXCEPT !.items = c])
  BY DEF Send
<1> DEFINE new == [Idle("read") EXCEPT !.items = c]
<1>3. new.pc = "read" /\ new.items = c /\ new.at = 1
  BY DEF Idle
<1> HIDE DEF new
<1>4. req'[r] = new /\ \A s \in Requests : s # r => req'[s] = req[s]
  BY <1>1, <1>2, OwnRecord DEF new
<1>5. Len(c) \in Nat /\ Len(c) # 0
  BY MenuAssumption
<1>6. RowOfItem(r)' /\ Progress(r)'
  BY <1>3, <1>4, <1>5 DEF RowOfItem, Progress, RowKnown, Holding
<1>7. Told(r)'
  <2>1. req[r].at = 1 /\ Told(r)
    BY <1>1 DEF EventsInv, Progress
  <2>2. PICK f \in [1..0 -> Mine(r)] : Tells(f, r)
    BY <1>1, <2>1 DEF Told, Written
  <2>3. Mine(r)' = Mine(r)
    BY <1>1 DEF Mine
  <2>4. Tells(f, r)'
    BY <1>1, <2>1, <2>2, <2>3 DEF Tells
  <2>5. Written(r)' = {0}
    BY <1>3, <1>4 DEF Written
  <2> QED BY <2>2, <2>3, <2>4, <2>5 DEF Told
<1> QED BY <1>1, <1>4, <1>6, <1>7, EventsElsewhere DEF EventsInv

\* Read finds the row of that name; only a creation may find another, its owner.
LEMMA ReadEvents ==
    ASSUME CatalogueInv, EventsInv, NEW r \in Requests, Read(r)
    PROVE  EventsInv'
<1>1. TypeOK /\ Begun(r) /\ req[r] \in Request /\ Active(r) /\ req[r].pc = "read"
      /\ UNCHANGED log
  BY DEF CatalogueInv, TypeOK, Read, Active, InFlight
<1>2. PICK x \in Rows : /\ Becomes(r, [req[r] EXCEPT !.pc = "write", !.row = x])
                        /\ ItemOf(r).op # "create" => NameOf[x] = NameOf[ItemOf(r).row]
  <2>1. ItemOf(r).row \in Rows
    BY <1>1, ItemType DEF Item
  <2>2. live \subseteq Rows
    BY <1>1 DEF TypeOK
  <2>3. \A x \in Sought(ItemOf(r)) : ItemOf(r).op # "create" => NameOf[x] = NameOf[ItemOf(r).row]
    BY DEF Sought
  <2> QED BY <2>1, <2>2, <2>3 DEF Read
<1> DEFINE new == [req[r] EXCEPT !.pc = "write", !.row = x]
<1>3. /\ new \in Request /\ new.pc = "write" /\ new.row = x
      /\ new.items = req[r].items /\ new.at = req[r].at
  BY <1>1 DEF Request
<1> HIDE DEF new
<1>4. req'[r] = new /\ Becomes(r, new)
  BY <1>1, <1>2, OwnRecord DEF new
<1>5. RowOfItem(r)'
  BY <1>2, <1>3, <1>4 DEF RowOfItem, RowKnown, Holding, ItemOf
<1>6. Stays(r, new)
  BY <1>1, <1>3 DEF Stays
<1> QED BY <1>1, <1>3, <1>4, <1>5, <1>6, EventsWithin

LEMMA WriteEvents ==
    ASSUME CatalogueInv, EventsInv, NEW r \in Requests, Write(r)
    PROVE  EventsInv'
<1> DEFINE o == ItemOf(r).op
           also == IF ItemOf(r).price THEN Owned(req[r].row) \cap live ELSE {}
<1>1. TypeOK /\ Begun(r) /\ req[r] \in Request /\ Active(r) /\ req[r].pc = "write"
      /\ RowKnown(r) /\ RowOfItem(r) /\ UNCHANGED log
  BY DEF CatalogueInv, EventsInv, TypeOK, Write, Active, InFlight, RowKnown
<1>2. o \in Ops /\ also \in SUBSET Rows
  BY <1>1, ItemType DEF Item, TypeOK
<1>3. PICK x \in Rows :
        /\ IF o = "create" THEN NameOf[x] = NameOf[ItemOf(r).row] ELSE x = req[r].row
        /\ Becomes(r, [req[r] EXCEPT !.pc = "record", !.row = x, !.also = also,
                                     !.locks = Locks(o, x, also)])
  BY DEF Write
<1>4. NameOf[x] = NameOf[ItemOf(r).row]
  BY <1>1, <1>3 DEF RowOfItem
<1> DEFINE new == [req[r] EXCEPT !.pc = "record", !.row = x, !.also = also,
                                 !.locks = Locks(o, x, also)]
<1> HIDE DEF o, also
<1>5. Becomes(r, new) /\ Locks(o, x, also) \in SUBSET LockTypes
  BY <1>2, <1>3, LocksTaken
<1>6. /\ new \in Request /\ new.pc = "record" /\ new.row = x
      /\ new.items = req[r].items /\ new.at = req[r].at
  BY <1>1, <1>2, <1>5 DEF Request
<1> HIDE DEF new
<1>7. req'[r] = new
  BY <1>1, <1>5, OwnRecord
<1>8. RowOfItem(r)'
  BY <1>4, <1>6, <1>7 DEF RowOfItem, ItemOf
<1>9. Stays(r, new)
  BY <1>1, <1>6 DEF Stays
<1> QED BY <1>1, <1>5, <1>6, <1>8, <1>9, EventsWithin

\* The transaction has its event, and its COMMIT perhaps no answer.
LEMMA RecordEvents ==
    ASSUME CatalogueInv, EventsInv, NEW r \in Requests, Record(r) \/ AnswerLost(r)
    PROVE  EventsInv'
<1>1. TypeOK /\ req[r] \in Request /\ Active(r) /\ Holding(r) /\ RowOfItem(r) /\ UNCHANGED log
  BY DEF CatalogueInv, EventsInv, TypeOK, Record, AnswerLost, Active, InFlight, Holding
<1>2. PICK label \in {"commit", "doubt"} :
        /\ Becomes(r, [req[r] EXCEPT !.pc = label])
        /\ req[r].pc # "committed" /\ (label = "doubt" => req[r].pc = "commit")
  BY DEF Record, AnswerLost, Goto
<1> DEFINE new == [req[r] EXCEPT !.pc = label]
<1>3. /\ new \in Request /\ new.pc = label /\ new.items = req[r].items
      /\ new.at = req[r].at /\ new.row = req[r].row
  BY <1>1 DEF Request
<1>4. Becomes(r, new)
  BY <1>2
<1> HIDE DEF new
<1>5. req'[r] = new
  BY <1>1, <1>4, OwnRecord
<1>6. RowOfItem(r)'
  BY <1>1, <1>3, <1>5 DEF RowOfItem, Holding, RowKnown, ItemOf
<1>7. Stays(r, new)
  BY <1>2, <1>3 DEF Stays
<1> QED BY <1>1, <1>3, <1>4, <1>6, <1>7, EventsWithin

\* The command stops there.
LEMMA FailEvents ==
    ASSUME CatalogueInv, EventsInv, NEW r \in Requests, Refuse(r) \/ Rollback(r)
    PROVE  EventsInv'
<1>1. TypeOK /\ req[r] \in Request /\ Active(r) /\ req[r].pc # "committed" /\ UNCHANGED log
  BY DEF CatalogueInv, TypeOK, Refuse, Rollback, Active, InFlight
<1>2. PICK label \in {"failed", "lost"}, locks \in {req[r].locks, {}}, also \in {req[r].also, {}} :
        Becomes(r, [req[r] EXCEPT !.pc = label, !.locks = locks, !.also = also])
  <2>1. [req[r] EXCEPT !.pc = "failed"] =
            [req[r] EXCEPT !.pc = "failed", !.locks = req[r].locks, !.also = req[r].also]
    BY <1>1 DEF Request
  <2>2. CASE Refuse(r)
    BY <2>1, <2>2 DEF Refuse, Goto
  <2>3. CASE Rollback(r)
    BY <2>3 DEF Rollback
  <2> QED BY <2>2, <2>3
<1> DEFINE new == [req[r] EXCEPT !.pc = label, !.locks = locks, !.also = also]
<1>3. new \in Request /\ new.pc = label /\ new.items = req[r].items /\ new.at = req[r].at
  BY <1>1 DEF Request
<1>4. Becomes(r, new)
  BY <1>2
<1> HIDE DEF new
<1>5. req'[r] = new
  BY <1>1, <1>4, OwnRecord
<1>6. RowOfItem(r)'
  BY <1>3, <1>5 DEF RowOfItem, RowKnown, Holding
<1>7. Stays(r, new)
  BY <1>1, <1>3 DEF Stays
<1> QED BY <1>1, <1>3, <1>4, <1>6, <1>7, EventsWithin

LEMMA CrashEvents ==
    ASSUME CatalogueInv, EventsInv, Crash
    PROVE  EventsInv'
<1>1. TypeOK /\ UNCHANGED log
  BY DEF CatalogueInv, Crash
<1>2. ASSUME NEW r \in Requests PROVE RowOfItem(r)' /\ Progress(r)' /\ Told(r)'
  <2>1. CASE req'[r] = req[r]
    BY <1>1, <2>1, EventsElsewhere
  <2>2. CASE req'[r] # req[r] /\ req'[r].pc = "lost"
    <3>1. InFlight(r) /\ req'[r].items = req[r].items /\ req'[r].at = req[r].at
      BY <1>1, <2>2, Restarted
    <3>2. RowOfItem(r)' /\ Stays(r, req'[r]) /\ Active(r)
      BY <2>2, <3>1 DEF RowOfItem, RowKnown, Holding, Stays, Active
    <3> QED BY <1>1, <3>2, EventsElsewhere
  <2>3. CASE req'[r] # req[r] /\ req'[r].pc # "lost"
    <3>1. /\ req'[r].items = req[r].items /\ req'[r].at = req[r].at
          /\ req[r].pc = "commit" /\ req'[r].pc = "doubt" /\ req'[r].row = req[r].row
      BY <1>1, <2>3, Restarted
    <3>2. Stays(r, req'[r]) /\ Active(r) /\ Holding(r) /\ ItemOf(r)' = ItemOf(r)
      BY <3>1 DEF Stays, Active, InFlight, Holding, ItemOf
    <3>3. RowOfItem(r)
      BY DEF EventsInv
    <3>4. RowOfItem(r)'
      BY <3>1, <3>2, <3>3 DEF RowOfItem
    <3> QED BY <1>1, <3>2, <3>4, EventsElsewhere
  <2> QED BY <2>1, <2>2, <2>3
<1> QED BY <1>2 DEF EventsInv

\* What Advance makes of the place in the command.
LEMMA NextPlace ==
    ASSUME TypeOK, NEW r \in Requests, Active(r), Begun(r)
    PROVE  /\ Advance(r).items = req[r].items /\ Advance(r).at = req[r].at + 1
           /\ Advance(r).pc = (IF req[r].at = Len(req[r].items) THEN "ok" ELSE "read")
           /\ req[r].items \in Menu /\ req[r].items \in Seq(Item)
           /\ req[r].at \in 1..Len(req[r].items) /\ Len(req[r].items) \in Nat
<1>1. req[r] \in Request /\ req[r].items \in Menu /\ req[r].items \in Seq(Item)
      /\ req[r].at \in DOMAIN req[r].items
  BY MenuAssumption DEF TypeOK, Begun
<1> QED BY <1>1 DEF Advance, Request

LEMMA FindAttributeEvents ==
    ASSUME CatalogueInv, EventsInv, NEW r \in Requests, FindAttribute(r)
    PROVE  EventsInv'
<1>1. /\ TypeOK /\ Begun(r) /\ Active(r) /\ Becomes(r, Advance(r)) /\ req[r].pc = "write"
      /\ ItemOf(r).op = "create" /\ ItemOf(r).row \in Attributes /\ UNCHANGED log
  BY DEF CatalogueInv, FindAttribute, Active, InFlight
<1>2. req'[r] = Advance(r) /\ \A s \in Requests : s # r => req'[s] = req[s]
  BY <1>1, OwnRecord
<1>3. Len(req[r].items) = 1 /\ req[r].at = 1
  BY <1>1, NextPlace, MenuAssumption DEF ItemOf
<1>4. /\ req'[r].pc = "ok" /\ req'[r].at = 2 /\ req'[r].items = req[r].items
      /\ req[r].items \in Menu /\ DOMAIN req[r].items = {1}
  <2>1. /\ Advance(r).items = req[r].items /\ Advance(r).at = 1 + 1 /\ Advance(r).pc = "ok"
        /\ req[r].items \in Menu /\ req[r].items \in Seq(Item)
    BY <1>1, <1>3, NextPlace
  <2>2. DOMAIN req[r].items = 1..1
    BY <1>3, <2>1
  <2> QED BY <1>2, <2>1, <2>2
<1>5. RowOfItem(r)' /\ Progress(r)'
  <2>1. Len(req'[r].items) = 1
    BY <1>3, <1>4
  <2>2. req'[r].at \in 1..(1 + 1) /\ req'[r].at = 1 + 1
    BY <1>4
  <2> QED BY <1>4, <2>1, <2>2 DEF RowOfItem, Progress, RowKnown, Holding
<1>6. Told(r)'
  <2>1. PICK f \in [1..0 -> Mine(r)] : Tells(f, r)
    BY <1>1, <1>3 DEF EventsInv, Told, Written
  <2>2. Mine(r) = {} /\ Mine(r)' = Mine(r)
    BY <1>1, <2>1 DEF Tells, Mine
  <2> QED BY <1>1, <1>3, <1>4, <2>2 DEF Told, ItemOf
<1> QED BY <1>1, <1>2, <1>5, <1>6, EventsElsewhere DEF EventsInv

\* The event of the item in hand is told before the service goes on with the next.
LEMMA AnsweredEvents ==
    ASSUME CatalogueInv, EventsInv, NEW r \in Requests, Answered(r)
    PROVE  EventsInv'
<1>1. /\ TypeOK /\ Begun(r) /\ Active(r) /\ Becomes(r, Advance(r)) /\ req[r].pc = "committed"
      /\ Told(r) /\ UNCHANGED log
  BY DEF CatalogueInv, EventsInv, Answered, Active, InFlight
<1>2. req'[r] = Advance(r) /\ \A s \in Requests : s # r => req'[s] = req[s]
  BY <1>1, OwnRecord
<1>3. /\ req'[r].items = req[r].items /\ req'[r].at = req[r].at + 1
      /\ req'[r].pc = (IF req[r].at = Len(req[r].items) THEN "ok" ELSE "read")
      /\ req[r].items \in Menu /\ req[r].at \in 1..Len(req[r].items) /\ Len(req[r].items) \in Nat
  BY <1>1, <1>2, NextPlace
<1>4. RowOfItem(r)' /\ Progress(r)'
  BY <1>3 DEF RowOfItem, Progress, RowKnown, Holding
<1>5. Written(r) \subseteq Written(r)'
  BY <1>1, <1>3 DEF Written
<1>6. Told(r)'
  BY <1>1, <1>3, <1>5, ToldStays
<1> QED BY <1>1, <1>2, <1>4, <1>6, EventsElsewhere DEF EventsInv

\* Another request's event changes nothing about this one's.
LEMMA ToldByOther ==
    ASSUME NEW r \in Requests, NEW s \in Requests, r # s, Told(s), log \in Seq(Event),
           NEW e \in Event, log' = Append(log, e), e.req = r, req'[s] = req[s]
    PROVE  Told(s)'
<1>1. /\ DOMAIN log' = DOMAIN log \cup {Len(log) + 1} /\ log'[Len(log) + 1] = e
      /\ \A i \in DOMAIN log : log'[i] = log[i] /\ i # Len(log) + 1
  OBVIOUS
<1>2. Mine(s)' = Mine(s) /\ Mine(s) \subseteq DOMAIN log
  BY <1>1 DEF Mine
<1>3. ASSUME NEW n, NEW f \in [1..n -> Mine(s)], Tells(f, s) PROVE Tells(f, s)'
  <2>1. \A k \in DOMAIN f : log'[f[k]] = log[f[k]]
    BY <1>1, <1>2
  <2> QED BY <1>2, <1>3, <2>1 DEF Tells
<1>4. Written(s)' = Written(s)
  BY DEF Written
<1> QED BY <1>2, <1>3, <1>4 DEF Told

\* The event a commit writes is that of the item in hand, and comes after those the
\* command has so far.
LEMMA CommitTold ==
    ASSUME CatalogueInv, EventsInv, NEW r \in Requests, Commit(r)
    PROVE  Told(r)'
<1> DEFINE n == Len(log) + 1
           a == req[r].at
           e == EventOf(r)
<1>1. /\ TypeOK /\ Begun(r) /\ Active(r) /\ Told(r) /\ RowOfItem(r) /\ Holding(r)
      /\ req[r].pc \in {"commit", "doubt"} /\ log' = Append(log, e) /\ log \in Seq(Event)
      /\ req[r].row \in Rows /\ Becomes(r, Decided(r))
  BY DEF CatalogueInv, EventsInv, TypeOK, Commit, Active, InFlight, Holding, Begun, RowKnown
<1>2. /\ e \in Event /\ e.req = r /\ e.op = ItemOf(r).op
      /\ NameOf[e.row] = NameOf[ItemOf(r).row]
  <2>1. context[r] \in Admins /\ ItemOf(r).op \in Ops
    BY <1>1, ItemType, RowsAssumption DEF Begun, Item
  <2> QED BY <1>1, <2>1 DEF EventOf, Event, RowOfItem
<1> HIDE DEF e
<1>3. /\ DOMAIN log' = DOMAIN log \cup {n} /\ log'[n] = e
      /\ \A i \in DOMAIN log : log'[i] = log[i] /\ i < n /\ i \in Nat
  BY <1>1, <1>2
<1>4. Mine(r)' = Mine(r) \cup {n} /\ Mine(r) \subseteq DOMAIN log
  BY <1>2, <1>3 DEF Mine
<1>5. /\ req'[r].items = req[r].items /\ req'[r].at = a /\ a \in Nat /\ a >= 1
      /\ ItemOf(r) = req[r].items[a] /\ req'[r].pc \in {"committed", "lost"}
  BY <1>1, OwnRecord, DecidedRequest, NextPlace DEF ItemOf
<1>6. PICK f \in [1..(a - 1) -> Mine(r)] : Tells(f, r)
  BY <1>1 DEF Told, Written
<1>g. PICK g : g = [k \in 1..a |-> IF k = a THEN n ELSE f[k]]
  OBVIOUS
<1>7. /\ g \in [1..a -> Mine(r)'] /\ g[a] = n /\ a \notin 1..(a - 1)
      /\ 1..a = (1..(a - 1)) \cup {a} /\ \A k \in 1..(a - 1) : g[k] = f[k]
  BY <1>4, <1>5, <1>g
<1>8. Tells(g, r)'
  <2>1. {g[k] : k \in DOMAIN g} = Mine(r)'
    BY <1>4, <1>6, <1>7 DEF Tells
  <2>2. \A k, m \in DOMAIN g : k < m => g[k] < g[m]
    <3> SUFFICES ASSUME NEW k \in 1..a, NEW m \in 1..a, k < m PROVE g[k] < g[m]
      BY <1>g
    <3>1. k \in 1..(a - 1) /\ g[k] = f[k] /\ f[k] \in DOMAIN log
      BY <1>4, <1>5, <1>6, <1>7
    <3>2. CASE m = a
      BY <1>3, <1>7, <3>1, <3>2
    <3>3. CASE m # a
      BY <1>6, <1>7, <3>1, <3>3 DEF Tells
    <3> QED BY <3>2, <3>3
  <2>3. \A k \in DOMAIN g : /\ log'[g[k]].op = req[r].items[k].op
                            /\ NameOf[log'[g[k]].row] = NameOf[req[r].items[k].row]
    <3> SUFFICES ASSUME NEW k \in 1..a
                 PROVE  /\ log'[g[k]].op = req[r].items[k].op
                        /\ NameOf[log'[g[k]].row] = NameOf[req[r].items[k].row]
      BY <1>g
    <3>1. CASE k = a
      BY <1>2, <1>3, <1>5, <1>7, <3>1
    <3>2. CASE k # a
      <4>1. k \in 1..(a - 1) /\ g[k] = f[k] /\ log'[f[k]] = log[f[k]]
        BY <1>3, <1>4, <1>6, <1>7, <3>2
      <4> QED BY <1>6, <4>1 DEF Tells
    <3> QED BY <3>1, <3>2
  <2> QED BY <1>5, <2>1, <2>2, <2>3 DEF Tells
<1>9. a \in Written(r)'
  BY <1>5 DEF Written
<1> QED BY <1>7, <1>8, <1>9 DEF Told

LEMMA CommitEvents ==
    ASSUME CatalogueInv, EventsInv, NEW r \in Requests, Commit(r)
    PROVE  EventsInv'
<1>1. /\ TypeOK /\ Begun(r) /\ Active(r) /\ Becomes(r, Decided(r)) /\ log \in Seq(Event)
      /\ Progress(r) /\ req[r].pc # "ok" /\ req[r].pc # "new" /\ req[r].row \in Rows /\ log' = Append(log, EventOf(r))
  BY DEF CatalogueInv, EventsInv, TypeOK, Commit, Active, InFlight, Begun, RowKnown
<1>2. req'[r] = Decided(r) /\ \A s \in Requests : s # r => req'[s] = req[s]
  BY <1>1, OwnRecord
<1>3. EventOf(r) \in Event /\ EventOf(r).req = r
  <2>1. context[r] \in Admins /\ ItemOf(r).op \in Ops
    BY <1>1, ItemType, RowsAssumption DEF Begun, Item
  <2> QED BY <1>1, <2>1 DEF EventOf, Event
<1>4. ASSUME NEW s \in Requests, s # r PROVE RowOfItem(s)' /\ Progress(s)' /\ Told(s)'
  <2>1. req'[s] = req[s] /\ RowOfItem(s) /\ Progress(s) /\ Told(s)
    BY <1>2, <1>4 DEF EventsInv
  <2>2. Told(s)'
    BY <1>1, <1>3, <1>4, <2>1, ToldByOther
  <2> QED BY <2>1, <2>2 DEF RowOfItem, Progress, RowKnown, Holding, ItemOf
<1>5. RowOfItem(r)' /\ Progress(r)'
  <2>1. /\ req'[r].items = req[r].items /\ req'[r].at = req[r].at
        /\ req'[r].pc \in {"committed", "lost"}
    BY <1>1, <1>2, DecidedRequest
  <2> QED BY <1>1, <2>1 DEF RowOfItem, Progress, RowKnown, Holding
<1> QED BY <1>4, <1>5, CommitTold DEF EventsInv

LEMMA EventsStep == CatalogueInv /\ EventsInv /\ [Next]_vars => EventsInv'
<1> SUFFICES ASSUME CatalogueInv, EventsInv, [Next]_vars PROVE EventsInv'
  OBVIOUS
<1>1. ASSUME NEW r \in Requests, Change(r) PROVE EventsInv'
  <2>1. Write(r)
    BY <1>1 DEF Change, CreateProduct, UpdateProduct, TouchProduct, DeleteProduct, CreateVariant,
         UpdateVariant, DeleteVariant, CreateAttribute, UpdateAttributePart,
         DeleteAttribute, CreateCategory, UpdateCategory, DeleteCategory,
         CreateCollection, TouchCollection, TouchVariant, UpdateCollection, DeleteCollection, CreateTag, UpdateTag,
         DeleteTag, CreateTemplate, UpdateTemplate, DeleteTemplate
  <2> QED BY <2>1, WriteEvents
<1>2. ASSUME NEW r \in Requests, Send(r) \/ Serve(r) PROVE EventsInv'
  BY <1>1, <1>2, SendEvents, ReadEvents, RecordEvents, FailEvents, FindAttributeEvents,
     AnsweredEvents, CommitEvents DEF Serve
<1>3. CASE UNCHANGED vars
  BY <1>3, EventsElsewhere DEF vars, EventsInv
<1> QED BY <1>2, <1>3, CrashEvents DEF Next

\* Whatever else goes on, a command's events are those of the items it has done, and
\* of the one in hand, at most, when the server restarts or a COMMIT goes unanswered.
THEOREM EventsAreItems == Spec => []EventsMatchItems
<1>1. Init => EventsInv
  <2> SUFFICES ASSUME Init, NEW r \in Requests PROVE RowOfItem(r) /\ Progress(r) /\ Told(r)
    BY DEF EventsInv
  <2>1. req[r].pc = "new" /\ req[r].items = <<>> /\ req[r].at = 1
    BY DEF Init, Idle
  <2>2. Mine(r) = {}
    BY DEF Init, StoreInit, Mine
  <2>3. req[r].at - 1 = 0 /\ <<>> \in [1..0 -> Mine(r)] /\ DOMAIN <<>> = {}
    BY <2>1
  <2>4. Tells(<<>>, r)
    BY <2>2, <2>3 DEF Tells
  <2>5. Told(r)
    BY <2>1, <2>3, <2>4 DEF Told, Written
  <2> QED BY <2>1, <2>5 DEF RowOfItem, Progress, RowKnown, Holding
<1>2. EventsInv => EventsMatchItems
  <2> SUFFICES ASSUME EventsInv, NEW r \in Requests
               PROVE  /\ req[r].pc = "ok" <=> req[r].at > Len(req[r].items) /\ req[r].items # <<>>
                      /\ Told(r)
    BY DEF EventsMatchItems, Told
  <2>1. Progress(r) /\ Told(r)
    BY DEF EventsInv
  <2>2. CASE req[r].pc = "new"
    BY <2>1, <2>2 DEF Progress
  <2>3. CASE req[r].pc # "new"
    <3>1. req[r].items # <<>> /\ Len(req[r].items) \in Nat
      BY <2>1, <2>3, MenuAssumption DEF Progress
    <3> QED BY <2>1, <2>3, <3>1 DEF Progress
  <2> QED BY <2>1, <2>2, <2>3
<1> QED BY <1>1, <1>2, EventsStep, CommandsConsistent, PTL DEF Spec
=============================================================================
