------------------------------ MODULE SeoMetadata ------------------------------
(***************************************************************************)
(* SeoService (src/src/seo): the title a category's page has, its own      *)
(* words (SeoMetadata) if an administrator has written any, or its type's  *)
(* template.  Words belong to a slug, not to a row, and slugs change hands:*)
(* a category renamed, or deleted and created anew, leaves them behind for *)
(* the next row of that slug.  (A product's slug does not change; that is  *)
(* the case without Rename.)  What is written stands under a key, a slug or *)
(* the type's template.                                                    *)
(*                                                                         *)
(* updateMetadata is a transaction: the label read, the upsert or          *)
(* deleteMany, the audit event, the commit.  So is updateTemplate: the     *)
(* update, the event, the commit.  PostgreSQL's part, in READ              *)
(* COMMITTED: an upsert waits for a transaction that has written the slug's *)
(* row; a delete waits for one that has written the row it saw when it     *)
(* began, and never sees a row not yet committed.                          *)
(***************************************************************************)
EXTENDS Integers, Sequences

CONSTANTS
    Rows, Slugs,
    Template,      \* the key of the type's template
    Writers,       \* the requests of updateMetadata and updateTemplate
    Earlier,       \* one that is long done
    Pages,         \* the requests for a page
    NoRow, NoSlug, NoMeta, Blank, Unread, NoOne,
    MaxMoves       \* bound on the slugs' changes of hands

Keys == Slugs \cup {Template}

\* What is kept under a key: who wrote the title, the row it was written for, and
\* the requests that wrote last and that inserted.
Metadata == [title : Writers \cup {Earlier, Blank}, row : Rows \cup {NoRow},
             by : Writers \cup {Earlier}, insertedBy : Writers \cup {Earlier}]

ASSUME NamesAssumption ==
    /\ Earlier \notin Writers /\ NoOne \notin Writers
    /\ NoRow \notin Rows /\ NoSlug \notin Keys /\ Template \notin Slugs
    /\ NoMeta \notin Metadata /\ Unread \notin Metadata \cup {NoMeta}

VARIABLES
    slugOf,    \* each row's slug, NoSlug before it is created and after its deletion
    meta,      \* meta[k]: the words kept under key k, or NoMeta
    lock,      \* the transaction that has written, and not committed, k's words
    log,       \* log[k]: the seo_metadata events of slug k, or the seo_template events,
               \*   in the order of their ids; those of open and failed transactions,
               \*   which nobody sees, included
    tx, page, moves,
    inherited  \* history: slugs whose words may have been written for another row

vars == <<slugOf, meta, lock, log, tx, page, moves, inherited>>

Kinds == {"title", "description", "clear"}  \* what the dto has, trimmed
NoTx == [pc |-> "idle", slug |-> NoSlug, kind |-> "clear", row |-> NoRow,
         saw |-> NoOne, hit |-> FALSE, fresh |-> TRUE, knew |-> {}]
NoPage == [pc |-> "idle", slug |-> NoSlug, row |-> NoRow, template |-> Unread,
           meta |-> Unread, always |-> TRUE, moved |-> FALSE, inherits |-> FALSE]

\* "done" has committed and "failed" has not, whatever the client has heard.
Transaction ==
    [pc : {"idle", "write", "record", "commit", "done", "failed"}, slug : Keys \cup {NoSlug},
     kind : Kinds, row : Rows \cup {NoRow}, saw : Writers \cup {Earlier, NoOne},
     hit : BOOLEAN, fresh : BOOLEAN,
     knew : SUBSET Writers]   \* history: those who had committed when it began
Page ==
    [pc : {"idle", "reads", "done"}, slug : Slugs \cup {NoSlug}, row : Rows \cup {NoRow},
     template : Metadata \cup {NoMeta, Unread}, meta : Metadata \cup {NoMeta, Unread},
     always : BOOLEAN, moved : BOOLEAN, inherits : BOOLEAN]

TypeOK ==
    /\ slugOf \in [Rows -> Slugs \cup {NoSlug}]
    /\ meta \in [Keys -> Metadata \cup {NoMeta}]
    /\ lock \in [Keys -> Writers \cup {NoOne}]
    /\ log \in [Keys -> Seq([by : Writers \cup {Earlier}, deleted : BOOLEAN])]
    /\ tx \in [Writers -> Transaction]
    /\ page \in [Pages -> Page]
    /\ inherited \subseteq Keys

\* An event of writer w, which does not tell whether there was anything to delete.
Event(w, kind) == [by |-> w, deleted |-> kind = "clear"]

\* The row whose slug is s, if there is one.
Holder(s) == CHOOSE r \in Rows \cup {NoRow} :
    IF r = NoRow THEN \A o \in Rows : slugOf[o] # s ELSE slugOf[r] = s

EarlierWords(r) == [title |-> Earlier, row |-> r, by |-> Earlier, insertedBy |-> Earlier]

\* The template has been written, and some rows have words already, under the slug
\* they hold.
Init ==
    /\ slugOf \in [Rows -> Slugs \cup {NoSlug}]
    /\ \A r, o \in Rows : r # o /\ slugOf[r] # NoSlug => slugOf[r] # slugOf[o]
    /\ \E worded \in SUBSET {s \in Slugs : Holder(s) # NoRow} :
          LET told == worded \cup {Template} IN
          /\ meta = [k \in Keys |-> IF k \in told THEN EarlierWords(Holder(k)) ELSE NoMeta]
          /\ log = [k \in Keys |-> IF k \in told THEN <<Event(Earlier, "title")>> ELSE <<>>]
    /\ lock = [k \in Keys |-> NoOne]
    /\ tx = [w \in Writers |-> NoTx]
    /\ page = [p \in Pages |-> NoPage]
    /\ moves = 0
    /\ inherited = {}
-----------------------------------------------------------------------------
Free_BugShared(s) == TRUE

\* The unique index on slugs.
Free(s) == \A r \in Rows : slugOf[r] # s

Open(w) == tx[w].pc \in {"write", "record", "commit"}

\* Page p of slug s is being made up.
Making(p, s) == page[p].pc = "reads" /\ page[p].slug = s

\* The slugs `ss` change hands.  Those that have words, or are about to have
\* some written for the row that held them, hand them on.
ChangeHands(ss) ==
    /\ moves < MaxMoves
    /\ moves' = moves + 1
    /\ inherited' = inherited \cup
          {s \in ss : meta[s] # NoMeta \/ \E w \in Writers : Open(w) /\ tx[w].slug = s}
    /\ tx' = [w \in Writers |-> [tx[w] EXCEPT !.fresh = @ /\ tx[w].slug \notin ss]]
    /\ page' = [p \in Pages |-> [page[p] EXCEPT !.moved = @ \/ \E s \in ss : Making(p, s)]]
    /\ UNCHANGED <<meta, lock, log>>

\* CategoriesService.createOne, update with a new name or slug, and delete.  None
\* of them looks at the metadata.
Create(r, s) ==
    /\ slugOf[r] = NoSlug /\ Free(s)
    /\ slugOf' = [slugOf EXCEPT ![r] = s]
    /\ ChangeHands({s})

Rename(r, s) ==
    /\ slugOf[r] # NoSlug /\ Free(s)
    /\ slugOf' = [slugOf EXCEPT ![r] = s]
    /\ ChangeHands({s, slugOf[r]})

Delete(r) ==
    /\ slugOf[r] # NoSlug
    /\ slugOf' = [slugOf EXCEPT ![r] = NoSlug]
    /\ ChangeHands({slugOf[r]})

Begin(w, k, kind) ==
    /\ tx[w].pc = "idle"
    /\ tx' = [tx EXCEPT ![w] = [NoTx EXCEPT !.pc = "write", !.slug = k, !.kind = kind,
             !.row = Holder(k), !.knew = {v \in Writers : tx[v].pc = "done"}]]
    /\ UNCHANGED <<slugOf, meta, lock, log, page, moves, inherited>>

\* updateMetadata, for any slug at all: the transaction begins with getEntityLabel.
AskWrite(w, s, kind) == Begin(w, s, kind)

\* updateTemplate, which never takes the template away.  (A text with a variable that
\* the type has not is refused before.)
UpdateTemplate(w) == Begin(w, Template, "title")

\* The upsert, or the template's update: at once, or when nobody has the key's words
\* in hand.
Upsert(w) ==
    /\ tx[w].pc = "write" /\ tx[w].kind # "clear"
    /\ lock[tx[w].slug] = NoOne
    /\ lock' = [lock EXCEPT ![tx[w].slug] = w]
    /\ tx' = [tx EXCEPT ![w].pc = "record", ![w].hit = TRUE]
    /\ UNCHANGED <<slugOf, meta, log, page, moves, inherited>>

\* The deleteMany sees words that somebody has in hand, and waits for him.
Wait(w) ==
    /\ tx[w].pc = "write" /\ tx[w].kind = "clear" /\ tx[w].saw = NoOne
    /\ meta[tx[w].slug] # NoMeta /\ lock[tx[w].slug] # NoOne
    /\ tx' = [tx EXCEPT ![w].saw = meta[tx[w].slug].insertedBy]
    /\ UNCHANGED <<slugOf, meta, lock, log, page, moves, inherited>>

\* The deleteMany has words to delete, or none: none are kept, or those it waited
\* for are gone and what may be kept now was not there when it began.
DeleteMany(w) ==
    LET s == tx[w].slug
        sees == meta[s] # NoMeta /\ tx[w].saw \in {NoOne, meta[s].insertedBy}
    IN
    /\ tx[w].pc = "write" /\ tx[w].kind = "clear"
    /\ sees => lock[s] = NoOne
    /\ lock' = IF sees THEN [lock EXCEPT ![s] = w] ELSE lock
    /\ tx' = [tx EXCEPT ![w].pc = "record", ![w].hit = sees]
    /\ UNCHANGED <<slugOf, meta, log, page, moves, inherited>>

\* record: the event, with the next id.
Record(w) ==
    /\ tx[w].pc = "record"
    /\ log' = [log EXCEPT ![tx[w].slug] = Append(@, Event(w, tx[w].kind))]
    /\ tx' = [tx EXCEPT ![w].pc = "commit"]
    /\ UNCHANGED <<slugOf, meta, lock, page, moves, inherited>>

\* What a transaction leaves under its key.
Words(w) ==
    LET old == meta[tx[w].slug] IN
    [title |-> IF tx[w].kind = "title" THEN w ELSE Blank,
     row |-> tx[w].row, by |-> w,
     insertedBy |-> IF old = NoMeta THEN w ELSE old.insertedBy]

\* Empty words are kept rather than deleted.
Written_BugKeepsEmpty(w) == IF tx[w].hit THEN Words(w) ELSE meta[tx[w].slug]

Written(w) ==
    IF ~tx[w].hit THEN meta[tx[w].slug]
    ELSE IF tx[w].kind = "clear" THEN NoMeta ELSE Words(w)

Titled(m) == m # NoMeta /\ m.title # Blank

Commit(w) ==
    LET s == tx[w].slug IN
    /\ tx[w].pc = "commit"
    /\ meta' = [meta EXCEPT ![s] = Written(w)]
    /\ lock' = [lock EXCEPT ![s] = IF @ = w THEN NoOne ELSE @]
    /\ tx' = [tx EXCEPT ![w] = [NoTx EXCEPT !.pc = "done", !.knew = tx[w].knew]]
    /\ inherited' = IF tx[w].kind = "clear" THEN inherited
                    ELSE IF tx[w].fresh THEN inherited \ {s} ELSE inherited \cup {s}
    /\ page' = [p \in Pages |->
          [page[p] EXCEPT !.always = @ /\ (Making(p, s) => Titled(Written(w)))]]
    /\ UNCHANGED <<slugOf, log, moves>>

\* A statement fails, the event cannot be written, or time is up.
Rollback(w) ==
    /\ Open(w)
    /\ lock' = [k \in Keys |-> IF lock[k] = w THEN NoOne ELSE lock[k]]
    /\ tx' = [tx EXCEPT ![w] = [NoTx EXCEPT !.pc = "failed"]]
    /\ UNCHANGED <<slugOf, meta, log, page, moves, inherited>>

\* getCategoryWithSeoBySlug: first the row, then template and words, in any order.
AskPage(p, r) ==
    /\ page[p].pc = "idle" /\ slugOf[r] # NoSlug
    /\ page' = [page EXCEPT ![p] = [NoPage EXCEPT
          !.pc = "reads", !.slug = slugOf[r], !.row = r, !.always = Titled(meta[slugOf[r]])]]
    /\ UNCHANGED <<slugOf, meta, lock, log, tx, moves, inherited>>

ReadTemplate(p) ==
    /\ page[p].pc = "reads" /\ page[p].template = Unread
    /\ page' = [page EXCEPT ![p].template = meta[Template],
                            ![p].pc = IF page[p].meta = Unread THEN @ ELSE "done"]
    /\ UNCHANGED <<slugOf, meta, lock, log, tx, moves, inherited>>

ReadMeta(p) ==
    /\ page[p].pc = "reads" /\ page[p].meta = Unread
    /\ page' = [page EXCEPT ![p].meta = meta[page[p].slug],
                            ![p].inherits = page[p].slug \in inherited,
                            ![p].pc = IF page[p].template = Unread THEN @ ELSE "done"]
    /\ UNCHANGED <<slugOf, meta, lock, log, tx, moves, inherited>>

Next ==
    \/ \E r \in Rows, s \in Slugs : Create(r, s) \/ Rename(r, s)
    \/ \E r \in Rows : Delete(r)
    \/ \E w \in Writers, s \in Slugs, kind \in Kinds : AskWrite(w, s, kind)
    \/ \E w \in Writers : \/ UpdateTemplate(w) \/ Upsert(w) \/ Wait(w) \/ DeleteMany(w)
                          \/ Record(w) \/ Commit(w) \/ Rollback(w)
    \/ \E p \in Pages, r \in Rows : AskPage(p, r)
    \/ \E p \in Pages : ReadTemplate(p) \/ ReadMeta(p)

Spec == Init /\ [][Next]_vars
-----------------------------------------------------------------------------
\* A template that an administrator wrote is preferred.
ShowsTemplate_BugTemplateFirst(p) ==
    page[p].template.by # Earlier \/ ~Titled(page[p].meta)

\* resolveMetadata: the slug's own title, or else the template.
ShowsTemplate(p) == ~Titled(page[p].meta)

\* "prefers metadata override over template" (seo.service.spec.ts), whatever is
\* written meanwhile: while there is a title for its slug, a page has a title of
\* its slug.
OverridePreferred ==
    \A p \in Pages : page[p].pc = "done" /\ page[p].always => ~ShowsTemplate(p)

\* A page has the words of another row only if its slug changed hands: while the
\* page was made up, or since the words were written or began to be.
OwnWords ==
    \A p \in Pages :
        page[p].pc = "done" /\ page[p].meta # NoMeta /\ page[p].meta.row # page[p].row =>
            page[p].moved \/ page[p].inherits

Committed(w) == w = Earlier \/ tx[w].pc = "done"
Told(k) == {i \in DOMAIN log[k] : Committed(log[k][i].by)}

\* Transaction d began when w's words were there to be read.
Knew(d, w) == w = Earlier \/ w \in tx[d].knew

\* Event j is a `deleted` of a transaction that had begun before w's words were there.
Missed(k, j, w) == log[k][j].deleted /\ ~Knew(log[k][j].by, w)

Explained(k) ==
    IF meta[k] = NoMeta
    THEN \A i \in Told(k) : (\A j \in Told(k) : j <= i) => log[k][i].deleted
    ELSE \E i \in Told(k) :
            /\ ~log[k][i].deleted /\ log[k][i].by = meta[k].by
            /\ \A j \in Told(k) : j <= i \/ Missed(k, j, meta[k].by)

\* What is committed under a key agrees with the audit log.  If there are no words the
\* key's last event, if it has any, is a `deleted`.  If there are, they are those of
\* its last `updated`; and each `deleted` that follows, and deleted nothing, is of a
\* transaction that had begun before they were committed.  (Which of the two a
\* `deleted` at the end is, the log does not tell.)
LogExplainsMetadata == \A k \in Keys : Explained(k)
=============================================================================
