-------------------------- MODULE AuditedCatalogue --------------------------
(***************************************************************************)
(* The commands of the admin's services: products, variants, attributes,   *)
(* categories, collections, tags and import templates, one by one and in   *)
(* bulk (src/src/products, categories, collections, tags,                  *)
(* import-templates), each with its audit event (src/src/audit-log).       *)
(*                                                                         *)
(* They have one shape: perhaps a read that must find the row; then an     *)
(* interactive transaction that writes the row, then the event, then       *)
(* commits; and a bulk command goes on with its next item.  There is an    *)
(* await at each arrow, so the commands interleave.  What an open          *)
(* transaction has written nobody else sees; PostgreSQL's row locks and    *)
(* unique indexes make another transaction wait (Locks, external).  The    *)
(* values written are abstracted to the request that wrote them, and every *)
(* reason to fail that is not about the rows modelled (an unknown id in a  *)
(* list, an upload that fails, a lost connection) to a choice.             *)
(*                                                                         *)
(* Taken as given: a name stays what it is (an update of a category also   *)
(* sets its slug, one of a template its name), and the locks of one item   *)
(* are taken together.                                                     *)
(***************************************************************************)
EXTENDS AuditedStore, FiniteSets, SequencesExt

CONSTANTS
    Products, Variants, Attributes, Categories, Collections, Tags, Templates,
    AttributeParts,  \* keys and values of attributes, which are only ever updated
    Menu,            \* the commands that may be given: sequences of items
    NoActor,
    MaxCrashes       \* bound on the restarts of the server

ASSUME KindsAssumption ==
    /\ Rows = UNION {Products, Variants, Attributes, Categories, Collections, Tags,
                     Templates, AttributeParts}
    /\ \A x \in Rows : OwnerOf[x] # NoRow <=> x \in Variants
    /\ \A v \in Variants : OwnerOf[v] \in Products \ Variants
    /\ MaxCrashes \in Nat /\ NoActor \notin Admins

\* An item of a command.  A row to create stands for any new one with its name.  An
\* update is a "touch" when its body sets no column of the row; price: whether a
\* product's update or touch sets the price of its variants.
\* Attributes are created one by one: there is no bulk command for it.
Item == [op : Ops, row : Rows, price : BOOLEAN]
ASSUME MenuAssumption ==
    \A c \in Menu :
        /\ c \in Seq(Item) /\ c # <<>>
        /\ \A k \in DOMAIN c :
              /\ c[k].price => c[k].op \in {"update", "touch"} /\ c[k].row \in Products
              /\ c[k].op = "create" /\ c[k].row \in Attributes => Len(c) = 1

VARIABLES
    used,     \* the ids drawn so far: a rolled back one is gone
    context,  \* AuditContextService: the actor in each request's async storage
    req,      \* req[r]: where request r is, see Request
    crashes
vars == <<live, content, log, used, context, req, crashes>>

LockModes == {"share", "update", "delete"}
LockTypes == (Rows \cup Names) \X LockModes

Request ==
    [pc     : {"new", "read", "write", "record", "commit", "committed", "doubt",
               "ok", "failed", "lost"},
     items  : {<<>>} \cup Menu,
     at     : Nat,                   \* the item in hand
     row    : Rows \cup {NoRow},     \* the row the item is about, once known
     locks  : SUBSET LockTypes,      \* what its open transaction holds
     also   : SUBSET Rows]           \* the variants that got the price

\* "doubt": the server has given up on a COMMIT it sent, or restarted after sending
\* it, and the database has yet to decide.  "lost": nobody was told what became of
\* the item in hand.

Idle(label) ==
    [pc |-> label, items |-> <<>>, at |-> 1, row |-> NoRow, locks |-> {}, also |-> {}]

Init ==
    /\ StoreInit
    /\ used = InitialRows
    /\ context = [r \in Requests |-> NoActor]
    /\ req = [r \in Requests |-> Idle("new")]
    /\ crashes = 0
-----------------------------------------------------------------------------
ItemOf(r) == req[r].items[req[r].at]
InFlight(r) == req[r].pc \in {"read", "write", "record", "commit", "committed"}
Becomes(r, new) == req' = [req EXCEPT ![r] = new]
Goto(r, label) == Becomes(r, [req[r] EXCEPT !.pc = label])

\* One store for the whole process.
ActorKnown_BugShared(r) == context' = [other \in Requests |-> AdminOf[r]]

\* AuditContextMiddleware opens a store of its own for the request;
\* AuditActorInterceptor writes the JWT's user into it.
ActorKnown(r) == context' = [context EXCEPT ![r] = AdminOf[r]]

Send(r) ==
    /\ req[r].pc = "new"
    /\ \E c \in Menu : Becomes(r, [Idle("read") EXCEPT !.items = c])
    /\ ActorKnown(r)
    /\ UNCHANGED <<live, content, log, used, crashes>>

\* Which commands read before their transaction, and what they look for: a
\* product to update goes by its slug.
ReadsFirst(item) ==
    \/ item.row \in Variants
    \/ item.row \in Products \cup Categories /\ item.op # "create"
    \/ item.row \in Templates /\ item.op \in {"update", "touch"}

Sought(item) ==
    IF item.op = "create" THEN {OwnerOf[item.row]}
    ELSE IF item.op \in {"update", "touch"} /\ item.row \in Products
         THEN {x \in Products : NameOf[x] = NameOf[item.row]}
         ELSE {item.row}

Read(r) ==
    /\ req[r].pc = "read"
    /\ IF ReadsFirst(ItemOf(r))
       THEN \E x \in Sought(ItemOf(r)) \cap live :
               Becomes(r, [req[r] EXCEPT !.pc = "write", !.row = x])
       ELSE Becomes(r, [req[r] EXCEPT !.pc = "write", !.row = ItemOf(r).row])
    /\ UNCHANGED <<live, content, log, used, context, crashes>>

\* Nobody waits for the read that rejects.
Refuse_BugNotAwaited(r) ==
    /\ req[r].pc = "read" /\ ItemOf(r).row \in Categories
    /\ Goto(r, "failed")
    /\ UNCHANGED <<live, content, log, used, context, crashes>>

\* 404 or 400 before the transaction: the row is not there, or its attributes or
\* its parent are not, or the upload of its image failed.
Refuse(r) ==
    /\ req[r].pc = "read"
    /\ ReadsFirst(ItemOf(r)) \/ ItemOf(r).row \in Categories
    /\ Goto(r, "failed")
    /\ UNCHANGED <<live, content, log, used, context, crashes>>

\* The locks of a row change, and which of them exclude each other.  A child's
\* foreign key shares its owner's row.  Where there is no column to set there is no
\* UPDATE of the row, and no lock.
Locks(o, x, also) ==
    IF o = "create"
    THEN {<<x, "update">>, <<NameOf[x], "update">>}
            \cup {<<y, "share">> : y \in {OwnerOf[x]} \ {NoRow}}
    ELSE IF o = "update"
    THEN {<<y, "update">> : y \in {x} \cup also}
    ELSE IF o = "touch"
    THEN {<<y, "update">> : y \in also}
    ELSE LET gone == {x} \cup (Owned(x) \cap live) IN
         {<<y, "delete">> : y \in gone} \cup {<<NameOf[y], "update">> : y \in gone}

Excludes(a, b) ==
    a[1] = b[1] /\ (a[2] = "delete" \/ b[2] = "delete" \/ "share" \notin {a[2], b[2]})

Free(r, locks) ==
    \A other \in Requests \ {r} :
        \A a \in locks, b \in req[other].locks : ~Excludes(a, b)

\* The row is written with this.prisma, outside the transaction.
Write_BugOutside(r) ==
    /\ req[r].pc = "write" /\ ItemOf(r).op = "update" /\ req[r].row \in live
    /\ content' = [content EXCEPT ![req[r].row] = r]
    /\ Goto(r, "record")
    /\ UNCHANGED <<live, log, used, context, crashes>>

\* The first statement of the transaction.  tx.<row>.create draws an id that was
\* never used, and needs its name free and its owner there; the others need the row.
Write(r) ==
    LET item == ItemOf(r)
        also == IF item.price THEN Owned(req[r].row) \cap live ELSE {}
    IN
    /\ req[r].pc = "write"
    /\ \E x \in Rows :
          /\ IF item.op = "create"
             THEN x \notin used /\ NameOf[x] = NameOf[item.row]
                    /\ OwnerOf[x] = OwnerOf[item.row] /\ NameFree(x) /\ OwnerLive(x)
             ELSE x = req[r].row /\ x \in live
          /\ Free(r, Locks(item.op, x, also))
          /\ used' = used \cup {x}
          /\ Becomes(r, [req[r] EXCEPT !.pc = "record", !.row = x, !.also = also,
                                       !.locks = Locks(item.op, x, also)])
    /\ UNCHANGED <<live, content, log, context, crashes>>

\* AuditLogService.record, within the transaction.
Record(r) ==
    /\ req[r].pc = "record"
    /\ context[r] # NoActor
    /\ Goto(r, "commit")
    /\ UNCHANGED <<live, content, log, used, context, crashes>>

EventOf(r) ==
    [op |-> ItemOf(r).op, row |-> req[r].row, req |-> r, actor |-> context[r]]

\* A bulk command answers after its first item.
Advance_BugFirstOnly(r) ==
    [req[r] EXCEPT !.pc = "ok", !.at = @ + 1, !.locks = {}, !.also = {}]

\* The item is done; a bulk command goes on with the next one.
Advance(r) ==
    IF req[r].at = Len(req[r].items)
    THEN [req[r] EXCEPT !.pc = "ok", !.at = @ + 1, !.locks = {}, !.also = {}]
    ELSE [req[r] EXCEPT !.pc = "read", !.at = @ + 1, !.row = NoRow, !.locks = {}, !.also = {}]

\* After COMMIT the transaction holds nothing.  Nobody hears of one in doubt.
Decided(r) ==
    [req[r] EXCEPT !.pc = IF req[r].pc = "commit" THEN "committed" ELSE "lost",
                   !.locks = {}, !.also = {}]

\* Deletions are not recorded.
Commit_BugSilentDelete(r) ==
    LET o == ItemOf(r).op
        x == req[r].row
    IN
    /\ req[r].pc \in {"commit", "doubt"}
    /\ live' = CASE o = "create" -> live \cup {x}
                 [] o \in {"update", "touch"} -> live
                 [] o = "delete" -> live \ ({x} \cup Owned(x))
    /\ content' = content
    /\ log' = IF o = "delete" THEN log ELSE Append(log, EventOf(r))
    /\ Becomes(r, Decided(r))
    /\ UNCHANGED <<used, context, crashes>>

\* The transaction commits: its row change and its event become visible at once.
Commit(r) ==
    LET o == ItemOf(r).op
        x == req[r].row
    IN
    /\ req[r].pc \in {"commit", "doubt"}
    /\ live' = CASE o = "create" -> live \cup {x}
                 [] o \in {"update", "touch"} -> live
                 [] o = "delete" -> live \ ({x} \cup Owned(x))
    /\ content' = IF o = "delete" THEN content
                  ELSE [y \in Rows |-> IF (y = x /\ o # "touch") \/ y \in req[r].also
                                        THEN r ELSE content[y]]
    /\ log' = Append(log, EventOf(r))
    /\ Becomes(r, Decided(r))
    /\ UNCHANGED <<used, context, crashes>>

\* The service hears that the transaction has committed.
Answered(r) ==
    /\ req[r].pc = "committed"
    /\ Becomes(r, Advance(r))
    /\ UNCHANGED <<live, content, log, used, context, crashes>>

\* The connection is lost with the COMMIT on its way: the service answers with an
\* error, whether the transaction commits or not.
AnswerLost(r) ==
    /\ req[r].pc = "commit"
    /\ Goto(r, "doubt")
    /\ UNCHANGED <<live, content, log, used, context, crashes>>

\* AttributesService.create finds that the attribute is there: it answers with it
\* and writes no event.
FindAttribute(r) ==
    /\ req[r].pc = "write"
    /\ ItemOf(r).op = "create" /\ ItemOf(r).row \in Attributes
    /\ \E x \in live : NameOf[x] = NameOf[ItemOf(r).row]
    /\ Becomes(r, Advance(r))
    /\ UNCHANGED <<live, content, log, used, context, crashes>>

\* A statement of the transaction fails (no such row, the name is taken, the audit
\* event cannot be written, a time-out): nothing of it stays, the answer is an
\* error, and a bulk command goes no further.  One in doubt may roll back, too.
Rollback(r) ==
    /\ req[r].pc \in {"write", "record", "commit", "doubt"}
    /\ Becomes(r, [req[r] EXCEPT !.pc = IF req[r].pc = "doubt" THEN "lost" ELSE "failed",
                                 !.locks = {}, !.also = {}])
    /\ UNCHANGED <<live, content, log, used, context, crashes>>

\* The server restarts: its requests go unanswered, and open transactions roll
\* back, but for those whose COMMIT is already on its way.
Crash ==
    /\ crashes < MaxCrashes
    /\ \E r \in Requests : InFlight(r)
    /\ \E sent \in SUBSET {r \in Requests : req[r].pc = "commit"} :
          req' = [r \in Requests |->
                     IF r \in sent THEN [req[r] EXCEPT !.pc = "doubt"]
                     ELSE IF InFlight(r)
                     THEN [req[r] EXCEPT !.pc = "lost", !.locks = {}, !.also = {}]
                     ELSE req[r]]
    /\ crashes' = crashes + 1
    /\ UNCHANGED <<live, content, log, used, context>>

\* The transactions, service by service.
Is(r, o, rows) == ItemOf(r).op = o /\ ItemOf(r).row \in rows

CreateProduct(r) == Is(r, "create", Products) /\ Write(r)
UpdateProduct(r) == Is(r, "update", Products) /\ Write(r)
TouchProduct(r) == Is(r, "touch", Products) /\ Write(r)
DeleteProduct(r) == Is(r, "delete", Products) /\ Write(r)
CreateVariant(r) == Is(r, "create", Variants) /\ Write(r)
UpdateVariant(r) == Is(r, "update", Variants) /\ Write(r)
TouchVariant(r) == Is(r, "touch", Variants) /\ Write(r)
DeleteVariant(r) == Is(r, "delete", Variants) /\ Write(r)
CreateAttribute(r) == Is(r, "create", Attributes) /\ Write(r)
UpdateAttributePart(r) == Is(r, "update", AttributeParts) /\ Write(r)
DeleteAttribute(r) == Is(r, "delete", Attributes) /\ Write(r)
CreateCategory(r) == Is(r, "create", Categories) /\ Write(r)
UpdateCategory(r) == Is(r, "update", Categories) /\ Write(r)
DeleteCategory(r) == Is(r, "delete", Categories) /\ Write(r)
CreateCollection(r) == Is(r, "create", Collections) /\ Write(r)
UpdateCollection(r) == Is(r, "update", Collections) /\ Write(r)
TouchCollection(r) == Is(r, "touch", Collections) /\ Write(r)
DeleteCollection(r) == Is(r, "delete", Collections) /\ Write(r)
CreateTag(r) == Is(r, "create", Tags) /\ Write(r)
UpdateTag(r) == Is(r, "update", Tags) /\ Write(r)
DeleteTag(r) == Is(r, "delete", Tags) /\ Write(r)
CreateTemplate(r) == Is(r, "create", Templates) /\ Write(r)
UpdateTemplate(r) == Is(r, "update", Templates) /\ Write(r)
DeleteTemplate(r) == Is(r, "delete", Templates) /\ Write(r)

Change(r) ==
    /\ req[r].pc = "write"
    /\ \/ CreateProduct(r) \/ UpdateProduct(r) \/ TouchProduct(r) \/ DeleteProduct(r)
       \/ CreateVariant(r) \/ UpdateVariant(r) \/ TouchVariant(r) \/ DeleteVariant(r)
       \/ CreateAttribute(r) \/ UpdateAttributePart(r) \/ DeleteAttribute(r)
       \/ CreateCategory(r) \/ UpdateCategory(r) \/ DeleteCategory(r)
       \/ CreateCollection(r) \/ UpdateCollection(r) \/ TouchCollection(r) \/ DeleteCollection(r)
       \/ CreateTag(r) \/ UpdateTag(r) \/ DeleteTag(r)
       \/ CreateTemplate(r) \/ UpdateTemplate(r) \/ DeleteTemplate(r)

Serve(r) ==
    \/ Read(r) \/ Refuse(r) \/ FindAttribute(r)
    \/ Change(r) \/ Record(r) \/ Commit(r) \/ Rollback(r)
    \/ Answered(r) \/ AnswerLost(r)

Next ==
    \/ \E r \in Requests : Send(r) \/ Serve(r)
    \/ Crash

\* A request the server has taken on is served; a waiting transaction gets its
\* lock or is rolled back.
Fairness == \A r \in Requests : WF_vars(Serve(r))

Spec == Init /\ [][Next]_vars /\ Fairness
-----------------------------------------------------------------------------
TypeOK ==
    /\ live \subseteq Rows /\ used \subseteq Rows
    /\ content \in [Rows -> Requests \cup {NoRequest}]
    /\ log \in Seq(Event)
    /\ context \in [Requests -> Admins \cup {NoActor}]
    /\ req \in [Requests -> Request]
    /\ crashes \in 0..MaxCrashes

Mine(r) == {i \in DOMAIN log : log[i].req = r}

\* f finds the event of each item done, all of r's events and in their order.
Tells(f, r) ==
    /\ {f[k] : k \in DOMAIN f} = Mine(r)
    /\ \A k, m \in DOMAIN f : k < m => f[k] < f[m]
    /\ \A k \in DOMAIN f :
          /\ log[f[k]].op = req[r].items[k].op
          /\ NameOf[log[f[k]].row] = NameOf[req[r].items[k].row]

\* How many of its items a command has written events for.
Written(r) ==
    IF req[r].pc = "committed" THEN {req[r].at}
    ELSE IF req[r].pc = "lost" THEN {req[r].at - 1, req[r].at}
    ELSE {req[r].at - 1}

\* A command's events are those of its items, in order, up to the one in hand: an
\* answer "ok" has all of them behind it; an error exactly those before the item
\* that failed; and if the server restarts, or the answer to a COMMIT is lost, the
\* event of the item in hand at most is in the log and nobody was told.  Creating
\* an attribute that is there writes none.
EventsMatchItems ==
    \A r \in Requests :
        /\ req[r].pc = "ok" <=> req[r].at > Len(req[r].items) /\ req[r].items # <<>>
        /\ \/ \E n \in Written(r) : \E f \in [1..n -> Mine(r)] : Tells(f, r)
           \/ /\ req[r].pc = "ok" /\ Mine(r) = {}
              /\ \A k \in DOMAIN req[r].items :
                    req[r].items[k].op = "create" /\ req[r].items[k].row \in Attributes

\* Each command's steps are invisible but for its commits, each of which is a
\* step of the store: the catalogue behaves as if the commands ran one at a time.
ImplementsStore == StoreSpec

\* Every command is answered, or lost in a restart: no wait for a lock is for ever.
EveryCommandEnds ==
    \A r \in Requests : req[r].pc = "read" ~> req[r].pc \in {"ok", "failed", "lost"}
=============================================================================
