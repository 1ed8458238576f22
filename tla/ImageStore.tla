------------------------------ MODULE ImageStore ------------------------------
(***************************************************************************)
(* Images: the S3 bucket behind FilesService (src/src/files), the rows     *)
(* that link to its objects, and the requests that write both.  An update  *)
(* of a product or a variant puts the images it was sent, then saves their *)
(* links in a transaction, and for the other images what its body says,    *)
(* which may be any string.  A row of an import has its images looked up,  *)
(* or downloaded and put, and is created with their links.  No transaction *)
(* spans the two stores.  The images of a row are fetched side by side     *)
(* (Promise.all): the first that fails is answered while the others go on. *)
(* A put whose answer nobody awaits any more may still take effect.        *)
(*                                                                         *)
(* A key is the whole object key, category and file name.  What an object  *)
(* shows is <<q, f>>, the image request q had for field f, or a plain file.*)
(***************************************************************************)
EXTENDS Integers, FiniteSets

CONSTANTS
    Requests,    \* the requests that write images
    Rows,        \* product and variant rows
    OldRows,     \* those that exist from the start
    FieldsOf,    \* FieldsOf[r]: its image fields, of Fields
    CustomKeys,  \* CustomKeys[r][f]: the keys an upload may use, one per
                 \*   category slug and extension the client may send
    DoorKeys,    \* the keys of imported images
    PlainKeys,   \* the keys of files uploaded by themselves
    BodyFields,  \* the fields for which a body may have a link: all of them, but for a
                 \*   small instance
    Elsewhere,   \* null, or a string somebody typed that is the link of no known object
    NoRow, Nothing, PlainFile

Fields == {"img", "front", "back"}
Keys == (UNION {CustomKeys[r][f] : r \in Rows, f \in Fields}) \cup DoorKeys \cup PlainKeys

\* custom-images/, doors/ and the top level are apart, and one request's file
\* names differ by their suffix.  Those of different rows need not differ: the
\* image of variant 12 of product `oak` is named like that of product `oak-12`.
ASSUME KeysAssumption ==
    /\ OldRows \subseteq Rows
    /\ \A r \in Rows : "img" \in FieldsOf[r] /\ FieldsOf[r] \subseteq Fields
    /\ DoorKeys \cap PlainKeys = {}
    /\ \A r \in Rows, f, g \in Fields :
          /\ CustomKeys[r][f] \cap (DoorKeys \cup PlainKeys) = {}
          /\ f # g => CustomKeys[r][f] \cap CustomKeys[r][g] = {}

Objects == (Requests \X Fields) \cup {PlainFile}
ASSUME NothingAssumption == Nothing \notin Objects

VARIABLES
    rows,     \* the rows that exist
    link,     \* link[r][f]: the key in the row's URL and, after `?v=`, who put it;
              \*   or Elsewhere
    store,    \* store[k]: what the object shows, or Nothing
    req,      \* the requests
    deleted,  \* history: the keys an administrator deleted and nobody put again
    past      \* history of each request, see Remember

vars == <<rows, link, store, req, deleted, past>>

NoRequest ==
    [pc |-> "idle", kind |-> "none", row |-> NoRow, key |-> <<>>, part |-> <<>>, body |-> <<>>]

Links == [key : Keys, by : Requests \cup {Nothing}] \cup {Elsewhere}

\* What a request has for each of its images.
PerImage(S) == UNION {[fs -> S] : fs \in SUBSET Fields}

\* It is "done" if it was saved, whether or not the client hears of it; it "failed"
\* if it was not, with an error for an answer, or none because of a restart.
Request ==
    [pc : {"idle", "images", "save", "done", "failed"},
     kind : {"none", "update", "import"}, row : Rows \cup {NoRow},
     key : PerImage(Keys), part : PerImage({"head", "get", "put", "ok", "failed", "adrift"}),
     body : PerImage(Links)]    \* the links of the body where no image was sent,
                                \*   until the request is over

TypeOK ==
    /\ rows \subseteq Rows /\ deleted \subseteq Keys
    /\ link \in [Rows -> [Fields -> Links]]
    /\ store \in [Keys -> Objects \cup {Nothing}]
    /\ req \in [Requests -> Request]
    /\ \A q \in Requests : DOMAIN req[q].part = DOMAIN req[q].key
    /\ past \in [Requests -> [rivals : SUBSET Keys, blind : SUBSET Fields,
                             before : PerImage(Objects \cup {Nothing})]]

Init ==
    /\ rows = OldRows
    /\ link = [r \in Rows |-> [f \in Fields |-> Elsewhere]]
    /\ store = [k \in Keys |-> IF k \in PlainKeys THEN PlainFile ELSE Nothing]
    /\ req = [q \in Requests |-> NoRequest]
    /\ deleted = {}
    /\ past = [q \in Requests |-> [rivals |-> {}, before |-> <<>>, blind |-> {}]]
-----------------------------------------------------------------------------
\* Part f of a request: "head", "get" and "put" wait for an answer, "ok" and
\* "failed" have it; nobody waits for what is "adrift", and it may yet be stored.
Pending(q, f) == f \in DOMAIN req[q].part /\ req[q].part[f] \in {"head", "get", "put"}
Adrift(q, f) == f \in DOMAIN req[q].part /\ req[q].part[f] = "adrift"
UsedKeys(q) == {req[q].key[f] : f \in DOMAIN req[q].key}
BusyKeys(q) == {req[q].key[f] : f \in {g \in DOMAIN req[q].key : Pending(q, g) \/ Adrift(q, g)}}

\* History of a request that begins with the keys `key`: the objects an import found,
\* and the keys on which another request is at work, now or later.  Fields of
\* one request may be rivals, too: two images of an imported row with one name.
Remember(q, kind, key) ==
    LET used == {key[f] : f \in DOMAIN key}
        busy == UNION {BusyKeys(p) : p \in Requests \ {q}}
        twice == {k \in used : \E f, g \in DOMAIN key : f # g /\ key[f] = k /\ key[g] = k}
    IN past' = [p \in Requests |->
          IF p = q
          THEN [rivals |-> (used \cap busy) \cup twice,
                before |-> [f \in {g \in DOMAIN key : kind = "import"} |-> store[key[f]]],
                blind |-> {}]
          ELSE [past[p] EXCEPT !.rivals = @ \cup (used \cap UsedKeys(p))]]

Begin(q, kind, r, key, first, body) ==
    /\ req[q].pc = "idle"
    /\ req' = [req EXCEPT ![q] =
          [pc |-> IF DOMAIN key = {} THEN "save" ELSE "images", kind |-> kind, row |-> r,
           key |-> key, part |-> [f \in DOMAIN key |-> first], body |-> body]]
    /\ Remember(q, kind, key)
    /\ UNCHANGED <<rows, link, store, deleted>>

\* What the body of a row may have for a field: the row's own link, as the admin's
\* form returns it, that of a file uploaded by itself, or any other string or null.
Offered(r, f) ==
    {link[r][f], Elsewhere}
    \cup {[key |-> k, by |-> Nothing] : k \in {p \in PlainKeys : store[p] # Nothing}}

Bodies(r, fs) ==
    {body \in [fs -> UNION {Offered(r, f) : f \in fs}] : \A f \in fs : body[f] \in Offered(r, f)}

\* update of a product or a variant, up to its PutObject commands: the row is
\* there, and the client names the category whose folder the images go to.
AskUpdate(q, r) ==
    /\ r \in rows
    /\ \E fs \in SUBSET FieldsOf[r], bs \in SUBSET (FieldsOf[r] \cap BodyFields) :
          /\ fs \cap bs = {} /\ fs \cup bs # {}
          /\ \E key \in [fs -> Keys], body \in Bodies(r, bs) :
                /\ \A f \in fs : key[f] \in CustomKeys[r][f]
                /\ Begin(q, "update", r, key, "put", body)

\* A row of an import, up to its HeadObject commands: the main image always,
\* the others when the row has them.  The row to be is nobody else's.
AskImport(q, r) ==
    /\ r \notin rows
    /\ \A p \in Requests : req[p].row # r
    /\ \E fs \in SUBSET FieldsOf[r] :
          /\ "img" \in fs
          /\ \E key \in [fs -> DoorKeys] : Begin(q, "import", r, key, "head", <<>>)

\* One image is there; with the last of them the request goes on, unless it has
\* been answered already.
Settled_BugFirst(q, f) ==
    req' = [req EXCEPT ![q].part[f] = "ok",
                       ![q].pc = IF @ = "images" THEN "save" ELSE @]

Settled_BugNoHandover(q, f) == req' = [req EXCEPT ![q].part[f] = "ok"]

Settled(q, f) ==
    req' = [req EXCEPT
        ![q].part[f] = "ok",
        ![q].pc = IF @ = "images" /\ \A g \in DOMAIN req[q].part \ {f} : req[q].part[g] = "ok"
                  THEN "save" ELSE @]

\* The next request to the store or the supplier for this image.
GoOn(q, f, next) == req' = [req EXCEPT ![q].part[f] = next]

\* One image cannot be had: Promise.all rejects, and the others go on.
Thrown(q, f, how) ==
    req' = [req EXCEPT ![q].part[f] = how,
                       ![q].pc = IF @ = "images" THEN "failed" ELSE @, ![q].body = <<>>]

\* The image is fetched whether or not it is there.
Head_BugDownloads(q, f) ==
    /\ Pending(q, f) /\ req[q].part[f] = "head"
    /\ GoOn(q, f, "get")
    /\ UNCHANGED <<rows, link, store, deleted, past>>

\* HeadObject answers.
Head(q, f) ==
    /\ Pending(q, f) /\ req[q].part[f] = "head"
    /\ IF store[req[q].key[f]] # Nothing THEN Settled(q, f) ELSE GoOn(q, f, "get")
    /\ UNCHANGED <<rows, link, store, deleted, past>>

\* HeadObject fails, for whatever reason, and the object counts as missing.
HeadFails(q, f) ==
    /\ Pending(q, f) /\ req[q].part[f] = "head"
    /\ GoOn(q, f, "get")
    /\ past' = [past EXCEPT ![q].blind = @ \cup {f}]
    /\ UNCHANGED <<rows, link, store, deleted>>

\* The supplier's server answers, with the image or with a status of 400 or more.
Download(q, f) ==
    /\ Pending(q, f) /\ req[q].part[f] = "get"
    /\ GoOn(q, f, "put") \/ Thrown(q, f, "failed")
    /\ UNCHANGED <<rows, link, store, deleted, past>>

\* The store takes the object.
Stored(q, f) ==
    /\ store' = [store EXCEPT ![req[q].key[f]] = <<q, f>>]
    /\ deleted' = deleted \ {req[q].key[f]}

\* PutObject answers.
Put(q, f) ==
    /\ Pending(q, f) /\ req[q].part[f] = "put"
    /\ Stored(q, f)
    /\ Settled(q, f)
    /\ UNCHANGED <<rows, link, past>>

\* The failure of an upload is logged and its link returned all the same.
PutFails_BugSwallowed(q, f) ==
    /\ Pending(q, f) /\ req[q].part[f] = "put"
    /\ Settled(q, f)
    /\ UNCHANGED <<rows, link, store, deleted, past>>

\* PutObject fails: it is refused, or its answer is lost, or late.
PutFails(q, f) ==
    /\ Pending(q, f) /\ req[q].part[f] = "put"
    /\ Thrown(q, f, "failed") \/ Thrown(q, f, "adrift")
    /\ UNCHANGED <<rows, link, store, deleted, past>>

\* A put that nobody waits for takes effect.
Land(q, f) ==
    /\ Adrift(q, f)
    /\ Stored(q, f)
    /\ GoOn(q, f, "failed")
    /\ UNCHANGED <<rows, link, past>>

\* An upload's link ends in `?v=` and the time; an import's link does not.
LinkOf(q, f) == [key |-> req[q].key[f], by |-> IF req[q].kind = "update" THEN q ELSE Nothing]
Linked(q) == [link EXCEPT ![req[q].row] =
                  [f \in Fields |-> IF f \in DOMAIN req[q].key THEN LinkOf(q, f)
                                   ELSE IF f \in DOMAIN req[q].body THEN req[q].body[f] ELSE @[f]]]

\* The transaction commits: an update of a row that is still there, or the
\* creation of the import's row.  (If the answer to the COMMIT is lost the client has
\* an error, and the row its links.)
Save(q) ==
    /\ req[q].pc = "save"
    /\ req[q].kind = "update" => req[q].row \in rows
    /\ rows' = rows \cup {req[q].row}
    /\ link' = Linked(q)
    /\ req' = [req EXCEPT ![q].pc = "done", ![q].body = <<>>]
    /\ UNCHANGED <<store, deleted, past>>

\* It rolls back: the row has gone, the slug is taken, the event cannot be
\* written.  Nothing takes the objects back.
SaveFails(q) ==
    /\ req[q].pc = "save"
    /\ req' = [req EXCEPT ![q].pc = "failed", ![q].body = <<>>]
    /\ UNCHANGED <<rows, link, store, deleted, past>>

\* Deleting a row leaves its objects alone.
DeleteRow(r) ==
    /\ r \in rows
    /\ rows' = rows \ {r}
    /\ link' = [link EXCEPT ![r] = [f \in Fields |-> Elsewhere]]
    /\ UNCHANGED <<store, req, deleted, past>>

\* POST files/files, with a name of its own.
UploadFile(k) ==
    /\ k \in PlainKeys /\ store[k] = Nothing
    /\ store' = [store EXCEPT ![k] = PlainFile]
    /\ deleted' = deleted \ {k}
    /\ UNCHANGED <<rows, link, req, past>>

\* createOne of a product or a variant, with the links of its body.
CreateRow(r) ==
    /\ r \notin rows /\ \A p \in Requests : req[p].row # r
    /\ rows' = rows \cup {r}
    /\ \E fs \in SUBSET (FieldsOf[r] \cap BodyFields) :
          /\ "img" \in fs
          /\ \E body \in Bodies(r, fs) :
                link' = [link EXCEPT ![r] =
                            [f \in Fields |-> IF f \in fs THEN body[f] ELSE Elsewhere]]
    /\ UNCHANGED <<store, req, deleted, past>>

\* DELETE files/files/:url, whether or not a row links to the object.
DeleteFile(k) ==
    /\ store[k] # Nothing
    /\ store' = [store EXCEPT ![k] = Nothing]
    /\ deleted' = deleted \cup {k}
    /\ past' = [q \in Requests |-> [past[q] EXCEPT !.rivals = @ \cup (UsedKeys(q) \cap {k})]]
    /\ UNCHANGED <<rows, link, req>>

\* The server restarts while something is under way; what it had asked of the store
\* is not asked again, but a put may be on its way.
Crash ==
    /\ \E q \in Requests : req[q].pc \in {"images", "save"} \/ \E f \in Fields : Pending(q, f)
    /\ req' = [q \in Requests |->
          [req[q] EXCEPT
              !.pc = IF @ \in {"images", "save"} THEN "failed" ELSE @, !.body = <<>>,
              !.part = [f \in DOMAIN @ |-> IF @[f] = "put" THEN "adrift"
                                           ELSE IF Pending(q, f) THEN "failed" ELSE @[f]]]]
    /\ UNCHANGED <<rows, link, store, deleted, past>>

Next ==
    \/ \E q \in Requests, r \in Rows : AskUpdate(q, r) \/ AskImport(q, r)
    \/ \E q \in Requests, f \in Fields :
          \/ Head(q, f) \/ HeadFails(q, f) \/ Download(q, f)
          \/ Put(q, f) \/ PutFails(q, f) \/ Land(q, f)
    \/ \E q \in Requests : Save(q) \/ SaveFails(q)
    \/ \E r \in Rows : DeleteRow(r) \/ CreateRow(r)
    \/ \E k \in PlainKeys : UploadFile(k)
    \/ \E k \in Keys : DeleteFile(k)
    \/ Crash

\* The database answers.  The bucket and a supplier's server need not: neither the
\* S3 client nor the download has a time limit.
Fairness == \A q \in Requests : WF_vars(Save(q) \/ SaveFails(q))

Spec == Init /\ [][Next]_vars /\ Fairness
-----------------------------------------------------------------------------
\* A row's link leads to an object, whichever requests failed or were cut short,
\* and whichever links the bodies of updates brought back: only an administrator who
\* deletes the file can break it, or one who types a link of his own (Elsewhere).
LinkResolves ==
    \A r \in rows, f \in Fields :
        link[r][f] # Elsewhere =>
            store[link[r][f].key] # Nothing \/ link[r][f].key \in deleted

\* A link with a version shows the image that was uploaded with it, to everybody,
\* cached or not, if no other request worked on the same key since: neither a
\* later one that failed, nor an earlier one whose answer is out but one of whose
\* uploads is not.  (Both do happen: a rollback does not restore the object.)
VersionShowsUpload ==
    \A q \in Requests, f \in Fields :
        /\ req[q].kind = "update" /\ req[q].pc = "done" /\ f \in DOMAIN req[q].key
        /\ req[q].row \in rows /\ link[req[q].row][f] = LinkOf(q, f)
        /\ req[q].key[f] \notin past[q].rivals
        => store[req[q].key[f]] = <<q, f>>

\* An import takes what it finds: an object that was there when it asked is
\* still the same, and if there was none it is the one it downloaded, unless
\* another request worked on the key or the look-up failed.
ImportReuses ==
    \A q \in Requests : req[q].kind = "import" =>
        \A f \in DOMAIN req[q].key \ past[q].blind :
            req[q].key[f] \notin past[q].rivals =>
                \/ store[req[q].key[f]] = past[q].before[f]
                \/ past[q].before[f] = Nothing /\ store[req[q].key[f]] = <<q, f>>

\* A request that nothing interrupts is answered, unless one of its images is not:
\* only for the bucket or a supplier's server can it wait for ever.
AnsweredUnlessHeld ==
    \A q \in Requests :
        \/ req[q].pc \in {"images", "save"} ~> req[q].pc \notin {"images", "save"}
        \/ \E f \in Fields : <>[]Pending(q, f)
=============================================================================
