-------------------------- MODULE SeoMetadata_proofs --------------------------
(***************************************************************************)
(* Pages have their own words and the log tells whose they are, for any    *)
(* number of rows, slugs, requests and changes of hands.                   *)
(*                                                                         *)
(* Who may change the words of a key is on record as its lock; the event   *)
(* of the one who has it comes after those of all who committed before and *)
(* changed something.  A transaction that found nothing to delete has no   *)
(* lock, and its event may come anywhere; but if there are words it began  *)
(* before they were committed (Unaware), or it would have found them.      *)
(***************************************************************************)
EXTENDS SeoMetadata, TLAPS

\* By the slugs `of`, row r has slug s, or r is no row and none has s.
Holds(of, r, s) ==
    /\ r \in Rows => of[r] = s
    /\ r \notin Rows => \A o \in Rows : of[o] # s

Unique == \A r, o \in Rows : r # o /\ slugOf[r] # NoSlug => slugOf[r] # slugOf[o]

\* Transaction w has written, or deleted, the words of its slug.
Wrote(w) == tx[w].pc \in {"record", "commit"} /\ tx[w].hit

\* It has the slug's words in hand until it ends; one that keeps words has always
\* written.
Locks ==
    \A w \in Writers :
        /\ Open(w) => tx[w].slug \in Keys
        /\ tx[w].pc \in {"record", "commit"} /\ tx[w].kind # "clear" => tx[w].hit
        /\ Wrote(w) => lock[tx[w].slug] = w
        /\ \A s \in Keys : lock[s] = w => Wrote(w) /\ tx[w].slug = s

\* A transaction is to write for the row that has its slug, and the words kept are
\* those of the row that has theirs, except where a slug changed hands.
Rightful ==
    /\ \A w \in Writers : Open(w) /\ tx[w].fresh => Holds(slugOf, tx[w].row, tx[w].slug)
    /\ \A s \in Keys : meta[s] # NoMeta /\ s \notin inherited => Holds(slugOf, meta[s].row, s)

PageOK(p) ==
    /\ page[p].pc = "reads" =>
          /\ page[p].slug \in Slugs /\ page[p].row \in Rows
          /\ page[p].moved \/ slugOf[page[p].row] = page[p].slug
    /\ page[p].pc = "done" => page[p].meta # Unread
    /\ page[p].pc = "reads" /\ page[p].meta = Unread /\ page[p].always =>
          Titled(meta[page[p].slug])
    /\ page[p].pc # "idle" /\ page[p].meta # Unread =>
          /\ page[p].always => Titled(page[p].meta)
          /\ \/ page[p].meta = NoMeta \/ page[p].meta.row = page[p].row
             \/ page[p].moved \/ page[p].inherits

PagesOK == \A p \in Pages : PageOK(p)

\* Event i of slug s is that of an open transaction, as it is, or of one that ended.
EventOK(s, i) ==
    LET w == log[s][i].by IN
    /\ w = Earlier => ~log[s][i].deleted
    /\ w # Earlier =>
        /\ tx[w].pc \in {"commit", "done", "failed"}
        /\ tx[w].pc = "commit" => /\ tx[w].slug = s
                                  /\ log[s][i].deleted = (tx[w].kind = "clear")
        /\ \A j \in DOMAIN log[s] : log[s][j].by = w => i = j

\* The event of a transaction that has the words in hand comes last.
Recorded(w) ==
    tx[w].pc = "commit" =>
        \E i \in DOMAIN log[tx[w].slug] :
            /\ log[tx[w].slug][i].by = w
            /\ tx[w].hit =>
                  \A j \in Told(tx[w].slug) : j < i \/ Missed(tx[w].slug, j, w)

\* Transaction d deletes nothing although there are words, or is going to.
Misses(d) ==
    LET m == meta[tx[d].slug] IN
    /\ Open(d) /\ m # NoMeta
    /\ \/ tx[d].pc = "write" /\ tx[d].saw \notin {NoOne, m.insertedBy}
       \/ tx[d].pc # "write" /\ ~tx[d].hit

\* It began before they were committed.
Unaware ==
    \A d \in Writers :
        /\ \A v \in tx[d].knew : tx[v].pc = "done"
        /\ Misses(d) => ~Knew(d, meta[tx[d].slug].by)

Logs ==
    /\ \A s \in Keys : \A i \in DOMAIN log[s] : EventOK(s, i)
    /\ \A w \in Writers : Recorded(w)

SeoInv ==
    /\ TypeOK /\ Unique /\ Locks /\ Rightful /\ PagesOK
    /\ Logs /\ Unaware /\ LogExplainsMetadata
-----------------------------------------------------------------------------

\* What a step does to the slugs: those of ss change hands and no others.
Moves(ss) ==
    /\ ChangeHands(ss)
    /\ slugOf' \in [Rows -> Slugs \cup {NoSlug}]
    /\ \A r \in Rows : slugOf'[r] # slugOf[r] =>
          /\ slugOf[r] = NoSlug \/ slugOf[r] \in ss
          /\ slugOf'[r] = NoSlug \/ slugOf'[r] \in ss
    /\ Unique'

LEMMA MovesAre ==
    ASSUME TypeOK, Unique,
           \/ \E r \in Rows, s \in Slugs : Create(r, s) \/ Rename(r, s)
           \/ \E r \in Rows : Delete(r)
    PROVE  \E ss \in SUBSET Slugs : Moves(ss)
<1>1. ASSUME NEW r \in Rows, NEW s \in Slugs, Create(r, s)
      PROVE  Moves({s})
  BY <1>1, NamesAssumption DEF TypeOK, Unique, Create, Free, Moves
<1>2. ASSUME NEW r \in Rows, NEW s \in Slugs, Rename(r, s)
      PROVE  Moves({s, slugOf[r]}) /\ slugOf[r] \in Slugs
  BY <1>2, NamesAssumption DEF TypeOK, Unique, Rename, Free, Moves
<1>3. ASSUME NEW r \in Rows, Delete(r)
      PROVE  Moves({slugOf[r]}) /\ slugOf[r] \in Slugs
  BY <1>3, NamesAssumption DEF TypeOK, Unique, Delete, Moves
<1>4. \A s, t \in Slugs : {s} \in SUBSET Slugs /\ {s, t} \in SUBSET Slugs
  OBVIOUS
<1> QED BY <1>1, <1>2, <1>3, <1>4

\* Whoever holds a slug, or NoRow, is what Holder finds.
LEMMA HolderHolds ==
    ASSUME NEW s
    PROVE  Holder(s) \in Rows \cup {NoRow} /\ Holds(slugOf, Holder(s), s)
<1> DEFINE Has(r) == IF r = NoRow THEN \A o \in Rows : slugOf[o] # s ELSE slugOf[r] = s
<1>1. \E r \in Rows \cup {NoRow} : Has(r)
  <2>1. CASE \E o \in Rows : slugOf[o] = s
    <3>1. PICK o \in Rows : slugOf[o] = s
      BY <2>1
    <3> QED BY <3>1, NamesAssumption
  <2>2. CASE \A o \in Rows : slugOf[o] # s
    BY <2>2
  <2> QED BY <2>1, <2>2
<1>2. Holder(s) = CHOOSE r \in Rows \cup {NoRow} : Has(r)
  BY DEF Holder
<1> HIDE DEF Has
<1>3. Holder(s) \in Rows \cup {NoRow} /\ Has(Holder(s))
  BY <1>1, <1>2
<1> QED BY <1>3, NamesAssumption DEF Has, Holds

LEMMA TxIs ==
    ASSUME TypeOK, NEW w \in Writers
    PROVE  /\ tx[w] \in Transaction
           /\ tx[w].slug \in Keys \cup {NoSlug} /\ tx[w].row \in Rows \cup {NoRow}
           /\ tx[w].kind \in Kinds /\ tx[w].hit \in BOOLEAN /\ tx[w].fresh \in BOOLEAN
           /\ tx[w].knew \subseteq Writers
BY DEF TypeOK, Transaction

LEMMA WordsAre ==
    ASSUME TypeOK, NEW w \in Writers, tx[w].slug \in Keys
    PROVE  /\ Words(w) \in Metadata /\ Words(w) # NoMeta
           /\ Words(w).row = tx[w].row /\ Words(w).by = w
           /\ Written(w) \in Metadata \cup {NoMeta}
<1>1. PICK old \in Metadata \cup {NoMeta} : old = meta[tx[w].slug]
  BY DEF TypeOK
<1>2. old # NoMeta => old.insertedBy \in Writers \cup {Earlier}
  BY DEF Metadata
<1>3. Words(w) \in Metadata /\ Words(w).row = tx[w].row /\ Words(w).by = w
  BY <1>1, <1>2, TxIs DEF Words, Metadata
<1>4. Written(w) \in Metadata \cup {NoMeta}
  BY <1>1, <1>3 DEF Written
<1> QED BY <1>3, <1>4, NamesAssumption

LEMMA InitInv == Init => SeoInv
<1> SUFFICES ASSUME Init PROVE SeoInv
  OBVIOUS
<1>1. PICK told \in SUBSET Keys :
          /\ meta = [s \in Keys |-> IF s \in told THEN EarlierWords(Holder(s)) ELSE NoMeta]
          /\ log = [s \in Keys |-> IF s \in told THEN <<Event(Earlier, "title")>> ELSE <<>>]
  <2>1. PICK worded \in SUBSET {s \in Slugs : Holder(s) # NoRow} :
            LET all == worded \cup {Template} IN
            /\ meta = [s \in Keys |-> IF s \in all THEN EarlierWords(Holder(s)) ELSE NoMeta]
            /\ log = [s \in Keys |-> IF s \in all THEN <<Event(Earlier, "title")>> ELSE <<>>]
    BY DEF Init
  <2>2. worded \cup {Template} \in SUBSET Keys
    BY DEF Keys
  <2> QED BY <2>1, <2>2
<1>2. ASSUME NEW s \in Keys
      PROVE  /\ EarlierWords(Holder(s)) \in Metadata /\ EarlierWords(Holder(s)) # NoMeta
             /\ EarlierWords(Holder(s)).row = Holder(s)
             /\ EarlierWords(Holder(s)).by = Earlier
             /\ Holds(slugOf, Holder(s), s)
  BY HolderHolds, NamesAssumption DEF EarlierWords, Metadata
<1>3. TypeOK
  <2>1. meta \in [Keys -> Metadata \cup {NoMeta}]
    <3>1. \A s \in Keys : EarlierWords(Holder(s)) \in Metadata
      BY <1>2
    <3> QED BY <1>1, <3>1
  <2>2. log \in [Keys -> Seq([by : Writers \cup {Earlier}, deleted : BOOLEAN])]
    <3> DEFINE E == [by : Writers \cup {Earlier}, deleted : BOOLEAN]
               e == Event(Earlier, "title")
    <3>1. e \in E
      BY DEF Event
    <3> HIDE DEF E, e
    <3>2. <<e>> \in Seq(E) /\ <<>> \in Seq(E)
      BY <3>1
    <3>3. log = [s \in Keys |-> IF s \in told THEN <<e>> ELSE <<>>]
      BY <1>1 DEF e
    <3>4. log \in [Keys -> Seq(E)]
      BY <3>2, <3>3
    <3> QED BY <3>4 DEF E
  <2>3. tx \in [Writers -> Transaction]
    BY DEF Init, NoTx, Transaction, Kinds
  <2>4. page \in [Pages -> Page]
    BY DEF Init, NoPage, Page
  <2> QED BY <2>1, <2>2, <2>3, <2>4 DEF Init, TypeOK
<1>4. Unique
  BY DEF Init, Unique
<1>5. Locks /\ Rightful
  <2>1. \A w \in Writers : tx[w].pc = "idle" /\ ~Open(w) /\ ~Wrote(w)
    BY DEF Init, NoTx, Open, Wrote
  <2>2. \A s \in Keys, w \in Writers : lock[s] # w
    BY NamesAssumption DEF Init
  <2>3. \A s \in Keys : meta[s] # NoMeta => Holds(slugOf, meta[s].row, s)
    BY <1>1, <1>2
  <2> QED BY <2>1, <2>2, <2>3 DEF Locks, Rightful
<1>6. PagesOK
  BY DEF Init, NoPage, PagesOK, PageOK
<1>7. Logs
  <2>1. ASSUME NEW s \in Keys, NEW i \in DOMAIN log[s]
        PROVE  log[s][i].by = Earlier /\ ~log[s][i].deleted
    <3> DEFINE e == Event(Earlier, "title")
    <3>1. e.by = Earlier /\ ~e.deleted
      BY DEF Event
    <3>2. log[s] = IF s \in told THEN <<e>> ELSE <<>>
      BY <1>1
    <3> HIDE DEF e
    <3>3. log[s][i] = e
      BY <2>1, <3>2
    <3> QED BY <3>1, <3>3
  <2> QED BY <2>1 DEF Init, NoTx, Logs, EventOK, Recorded
<1>8. Unaware
  BY DEF Init, NoTx, Unaware, Misses, Open
<1>9. LogExplainsMetadata
  <2> SUFFICES ASSUME NEW s \in Keys
               PROVE  Explained(s)
    BY DEF LogExplainsMetadata
  <2>1. CASE s \in told
    <3>1. log[s] = <<Event(Earlier, "title")>> /\ meta[s] = EarlierWords(Holder(s))
      BY <1>1, <2>1
    <3>2. /\ DOMAIN log[s] = {1} /\ log[s][1].by = Earlier
          /\ ~log[s][1].deleted
      <4> DEFINE e == Event(Earlier, "title")
      <4>1. e.by = Earlier /\ ~e.deleted
        BY DEF Event
      <4> HIDE DEF e
      <4>2. log[s] = <<e>>
        BY <3>1 DEF e
      <4>3. DOMAIN log[s] = {1} /\ log[s][1] = e
        BY <4>2
      <4> QED BY <4>1, <4>3
    <3>3. Told(s) = {1}
      BY <3>2 DEF Told, Committed
    <3>4. meta[s] # NoMeta /\ meta[s].by = Earlier
      BY <1>2, <3>1
    <3> QED BY <3>2, <3>3, <3>4 DEF Explained
  <2>2. CASE s \notin told
    <3>1. log[s] = <<>> /\ meta[s] = NoMeta
      BY <1>1, <2>2
    <3>2. Told(s) = {}
      BY <3>1 DEF Told
    <3> QED BY <3>1, <3>2 DEF Explained
  <2> QED BY <2>1, <2>2
<1> QED BY <1>3, <1>4, <1>5, <1>6, <1>7, <1>8, <1>9 DEF SeoInv
-----------------------------------------------------------------------------
\* What transaction w is about stays what it is.
SameAim(w) ==
    /\ tx'[w].slug = tx[w].slug /\ tx'[w].kind = tx[w].kind
    /\ tx'[w].row = tx[w].row /\ tx'[w].fresh = tx[w].fresh
    /\ tx'[w].knew = tx[w].knew

\* A step of transaction w other than its commit: it begins, waits, writes, records
\* or fails.
Begins(w) ==
    /\ tx[w].pc = "idle" /\ tx'[w].pc = "write"
    /\ tx'[w].slug \in Keys /\ Holds(slugOf, tx'[w].row, tx'[w].slug)
    /\ tx'[w].saw = NoOne /\ tx'[w].knew = {v \in Writers : tx[v].pc = "done"}
    /\ lock' = lock /\ log' = log

Waits(w) ==
    /\ tx[w].pc = "write" /\ tx'[w].pc = "write" /\ SameAim(w)
    /\ tx'[w].saw = meta[tx[w].slug].insertedBy
    /\ lock' = lock /\ log' = log

Writes(w) ==
    /\ tx[w].pc = "write" /\ tx'[w].pc = "record" /\ SameAim(w)
    /\ tx[w].kind # "clear" => tx'[w].hit
    /\ \/ tx'[w].hit /\ lock[tx[w].slug] = NoOne /\ lock' = [lock EXCEPT ![tx[w].slug] = w]
       \/ /\ ~tx'[w].hit /\ lock' = lock
          /\ meta[tx[w].slug] = NoMeta \/ tx[w].saw \notin {NoOne, meta[tx[w].slug].insertedBy}
    /\ log' = log

Records(w) ==
    /\ tx[w].pc = "record" /\ tx'[w].pc = "commit" /\ SameAim(w) /\ tx'[w].hit = tx[w].hit
    /\ lock' = lock
    /\ log' = [log EXCEPT ![tx[w].slug] = Append(@, Event(w, tx[w].kind))]

Fails(w) ==
    /\ Open(w) /\ tx'[w].pc = "failed" /\ tx'[w].knew = {}
    /\ lock' = [s \in Keys |-> IF lock[s] = w THEN NoOne ELSE lock[s]]
    /\ log' = log

TxStep(w) ==
    /\ Begins(w) \/ Waits(w) \/ Writes(w) \/ Records(w) \/ Fails(w)
    /\ \A v \in Writers : v # w => tx'[v] = tx[v]
    /\ tx' \in [Writers -> Transaction]
    /\ UNCHANGED <<slugOf, meta, page, moves, inherited>>

LEMMA TxStepIs ==
    ASSUME TypeOK, Locks, NEW w \in Writers,
           \/ \E s \in Slugs, kind \in Kinds : AskWrite(w, s, kind)
           \/ UpdateTemplate(w)
           \/ Upsert(w) \/ Wait(w) \/ DeleteMany(w) \/ Record(w) \/ Rollback(w)
    PROVE  TxStep(w)
<1>1. PICK old \in Transaction : old = tx[w]
  BY TxIs
<1>2. tx \in [Writers -> Transaction]
  BY DEF TypeOK
<1>3. CASE \/ \E s \in Slugs, kind \in Kinds : AskWrite(w, s, kind)
           \/ UpdateTemplate(w)
  <2>1. PICK s \in Keys, kind \in Kinds : Begin(w, s, kind)
    BY <1>3 DEF AskWrite, UpdateTemplate, Keys, Kinds
  <2> DEFINE knew == {v \in Writers : tx[v].pc = "done"}
             now == [NoTx EXCEPT !.pc = "write", !.slug = s, !.kind = kind, !.row = Holder(s),
                                 !.knew = knew]
  <2>2. /\ now \in Transaction /\ now.pc = "write" /\ now.slug = s /\ now.row = Holder(s)
        /\ now.saw = NoOne /\ now.knew = knew
    BY HolderHolds DEF NoTx, Transaction, Kinds
  <2>3. tx' = [tx EXCEPT ![w] = now] /\ UNCHANGED <<slugOf, meta, lock, log, page, moves, inherited>>
        /\ tx[w].pc = "idle"
    BY <2>1 DEF Begin
  <2> HIDE DEF now
  <2>4. /\ tx'[w] = now /\ tx' \in [Writers -> Transaction]
        /\ \A v \in Writers : v # w => tx'[v] = tx[v]
    BY <1>2, <2>2, <2>3
  <2> QED BY <2>2, <2>3, <2>4, HolderHolds DEF TxStep, Begins
<1>4. CASE Upsert(w)
  <2> DEFINE now == [old EXCEPT !.pc = "record", !.hit = TRUE]
  <2>1. /\ now \in Transaction /\ now.pc = "record" /\ now.hit
        /\ now.slug = old.slug /\ now.kind = old.kind /\ now.row = old.row /\ now.fresh = old.fresh
        /\ now.knew = old.knew
    BY DEF Transaction
  <2>2. tx' = [tx EXCEPT ![w] = now]
    BY <1>1, <1>4 DEF Upsert
  <2> HIDE DEF now
  <2>3. /\ tx'[w] = now /\ tx' \in [Writers -> Transaction]
        /\ \A v \in Writers : v # w => tx'[v] = tx[v]
    BY <1>2, <2>1, <2>2
  <2> QED BY <1>1, <1>4, <2>1, <2>3 DEF Upsert, TxStep, Writes, SameAim
<1>5. CASE Wait(w)
  <2> DEFINE now == [old EXCEPT !.saw = meta[tx[w].slug].insertedBy]
  <2>0. meta[tx[w].slug] \in Metadata /\ tx[w].slug \in Keys
    BY <1>5 DEF TypeOK, Wait, Locks, Open
  <2>1. /\ now \in Transaction /\ now.pc = old.pc /\ now.saw = meta[tx[w].slug].insertedBy
        /\ now.slug = old.slug /\ now.kind = old.kind /\ now.row = old.row /\ now.fresh = old.fresh
        /\ now.knew = old.knew
    BY <2>0 DEF Transaction, Metadata
  <2>2. tx' = [tx EXCEPT ![w] = now]
    BY <1>1, <1>5 DEF Wait
  <2> HIDE DEF now
  <2>3. /\ tx'[w] = now /\ tx' \in [Writers -> Transaction]
        /\ \A v \in Writers : v # w => tx'[v] = tx[v]
    BY <1>2, <2>1, <2>2
  <2> QED BY <1>1, <1>5, <2>1, <2>3 DEF Wait, TxStep, Waits, SameAim
<1>6. CASE DeleteMany(w)
  <2>1. PICK sees \in BOOLEAN :
            /\ sees => lock[tx[w].slug] = NoOne
            /\ ~sees => \/ meta[tx[w].slug] = NoMeta
                        \/ tx[w].saw \notin {NoOne, meta[tx[w].slug].insertedBy}
            /\ lock' = IF sees THEN [lock EXCEPT ![tx[w].slug] = w] ELSE lock
            /\ tx' = [tx EXCEPT ![w].pc = "record", ![w].hit = sees]
    BY <1>6 DEF DeleteMany
  <2> DEFINE now == [old EXCEPT !.pc = "record", !.hit = sees]
  <2>2. /\ now \in Transaction /\ now.pc = "record" /\ now.hit = sees
        /\ now.slug = old.slug /\ now.kind = old.kind /\ now.row = old.row /\ now.fresh = old.fresh
        /\ now.knew = old.knew
    BY DEF Transaction
  <2>3. tx' = [tx EXCEPT ![w] = now]
    BY <1>1, <2>1
  <2> HIDE DEF now
  <2>4. /\ tx'[w] = now /\ tx' \in [Writers -> Transaction]
        /\ \A v \in Writers : v # w => tx'[v] = tx[v]
    BY <1>2, <2>2, <2>3
  <2> QED BY <1>1, <1>6, <2>1, <2>2, <2>4 DEF DeleteMany, TxStep, Writes, SameAim
<1>7. CASE Record(w)
  <2> DEFINE now == [old EXCEPT !.pc = "commit"]
  <2>1. /\ now \in Transaction /\ now.pc = "commit" /\ now.hit = old.hit
        /\ now.slug = old.slug /\ now.kind = old.kind /\ now.row = old.row /\ now.fresh = old.fresh
        /\ now.knew = old.knew
    BY DEF Transaction
  <2>2. tx' = [tx EXCEPT ![w] = now]
    BY <1>1, <1>7 DEF Record
  <2> HIDE DEF now
  <2>3. /\ tx'[w] = now /\ tx' \in [Writers -> Transaction]
        /\ \A v \in Writers : v # w => tx'[v] = tx[v]
    BY <1>2, <2>1, <2>2
  <2> QED BY <1>1, <1>7, <2>1, <2>3 DEF Record, TxStep, Records, SameAim
<1>8. CASE Rollback(w)
  <2> DEFINE now == [NoTx EXCEPT !.pc = "failed"]
  <2>1. now \in Transaction /\ now.pc = "failed" /\ now.knew = {}
    BY DEF NoTx, Transaction, Kinds
  <2>2. tx' = [tx EXCEPT ![w] = now]
    BY <1>8 DEF Rollback
  <2> HIDE DEF now
  <2>3. /\ tx'[w] = now /\ tx' \in [Writers -> Transaction]
        /\ \A v \in Writers : v # w => tx'[v] = tx[v]
    BY <1>2, <2>1, <2>2
  <2> QED BY <1>8, <2>1, <2>3 DEF Rollback, TxStep, Fails
<1> QED BY <1>3, <1>4, <1>5, <1>6, <1>7, <1>8

\* The commit of w.
Commits(w) ==
    LET s == tx[w].slug IN
    /\ tx[w].pc = "commit" /\ tx'[w].pc = "done" /\ s \in Keys
    /\ tx'[w].knew = tx[w].knew
    /\ \A v \in Writers : v # w => tx'[v] = tx[v]
    /\ tx' \in [Writers -> Transaction]
    /\ meta' = [meta EXCEPT ![s] = Written(w)]
    /\ Written(w) \in Metadata \cup {NoMeta}
    /\ ~tx[w].hit => Written(w) = meta[s]
    /\ tx[w].hit /\ tx[w].kind = "clear" => Written(w) = NoMeta
    /\ tx[w].hit /\ tx[w].kind # "clear" =>
          Written(w) # NoMeta /\ Written(w).row = tx[w].row /\ Written(w).by = w
    /\ lock' = [lock EXCEPT ![s] = IF @ = w THEN NoOne ELSE @]
    /\ s \notin inherited' =>
          \/ tx[w].kind = "clear" /\ s \notin inherited
          \/ tx[w].kind # "clear" /\ tx[w].fresh
    /\ \A t \in Keys : t # s /\ t \notin inherited' => t \notin inherited
    /\ inherited' \subseteq Keys
    /\ UNCHANGED <<slugOf, log, moves>>

LEMMA CommitIs ==
    ASSUME TypeOK, Locks, NEW w \in Writers, Commit(w)
    PROVE  Commits(w)
<1>1. tx[w].slug \in Keys /\ tx[w].pc = "commit"
  BY DEF Commit, Locks, Open
<1>0. PICK knew \in SUBSET Writers : knew = tx[w].knew
  BY TxIs
<1> DEFINE now == [NoTx EXCEPT !.pc = "done", !.knew = knew]
<1>2. /\ now \in Transaction /\ now.pc = "done" /\ now.knew = knew
      /\ tx' = [tx EXCEPT ![w] = now]
  BY <1>0 DEF NoTx, Transaction, Kinds, Commit
<1> HIDE DEF now
<1>3. /\ tx'[w].pc = "done" /\ tx'[w].knew = tx[w].knew /\ tx' \in [Writers -> Transaction]
      /\ \A v \in Writers : v # w => tx'[v] = tx[v]
  BY <1>0, <1>2 DEF TypeOK
<1>4. /\ Written(w) \in Metadata \cup {NoMeta}
      /\ Words(w) # NoMeta /\ Words(w).row = tx[w].row /\ Words(w).by = w
  BY <1>1, WordsAre
<1>5. /\ ~tx[w].hit => Written(w) = meta[tx[w].slug]
      /\ tx[w].hit /\ tx[w].kind = "clear" => Written(w) = NoMeta
      /\ tx[w].hit /\ tx[w].kind # "clear" => Written(w) = Words(w)
  BY DEF Written
<1>6. inherited' = IF tx[w].kind = "clear" THEN inherited
                   ELSE IF tx[w].fresh THEN inherited \ {tx[w].slug}
                   ELSE inherited \cup {tx[w].slug}
  BY DEF Commit
<1>7. /\ tx[w].slug \notin inherited' =>
            \/ tx[w].kind = "clear" /\ tx[w].slug \notin inherited
            \/ tx[w].kind # "clear" /\ tx[w].fresh
      /\ \A t \in Keys : t # tx[w].slug /\ t \notin inherited' => t \notin inherited
      /\ inherited' \subseteq Keys
  BY <1>1, <1>6 DEF TypeOK
<1> QED BY <1>1, <1>3, <1>4, <1>5, <1>7 DEF Commit, Commits

\* A request for a page goes on, and the page is as it should be.
PageStep(p) ==
    /\ \A q \in Pages : q # p => page'[q] = page[q]
    /\ page' \in [Pages -> Page]
    /\ PageOK(p)'
    /\ UNCHANGED <<slugOf, meta, lock, log, tx, moves, inherited>>

LEMMA PageStepIs ==
    ASSUME TypeOK, Unique, Rightful, PagesOK, NEW p \in Pages,
           \/ \E r \in Rows : AskPage(p, r)
           \/ ReadTemplate(p) \/ ReadMeta(p)
    PROVE  PageStep(p)
<1>1. PICK old \in Page : old = page[p]
  BY DEF TypeOK
<1>2. page \in [Pages -> Page] /\ PageOK(p)
  BY DEF TypeOK, PagesOK
<1>3. CASE \E r \in Rows : AskPage(p, r)
  <2>1. PICK r \in Rows : AskPage(p, r)
    BY <1>3
  <2>2. PICK s \in Slugs : s = slugOf[r]
    BY <2>1 DEF AskPage, TypeOK
  <2>3. PICK always \in BOOLEAN : always = Titled(meta[s])
    BY DEF Titled
  <2> DEFINE now == [NoPage EXCEPT !.pc = "reads", !.slug = s, !.row = r, !.always = always]
  <2>4. /\ now \in Page /\ now.pc = "reads" /\ now.slug = s /\ now.row = r
        /\ now.always = always /\ now.meta = Unread
    BY DEF NoPage, Page
  <2>5. page' = [page EXCEPT ![p] = now]
        /\ UNCHANGED <<slugOf, meta, lock, log, tx, moves, inherited>>
    BY <2>1, <2>2, <2>3 DEF AskPage
  <2> HIDE DEF now
  <2>6. /\ page'[p] = now /\ page' \in [Pages -> Page]
        /\ \A q \in Pages : q # p => page'[q] = page[q]
    BY <1>2, <2>4, <2>5
  <2>7. PageOK(p)'
    BY <2>2, <2>3, <2>4, <2>5, <2>6 DEF PageOK, Titled
  <2> QED BY <2>5, <2>6, <2>7 DEF PageStep
<1>4. CASE ReadTemplate(p)
  <2>1. PICK pc \in {"reads", "done"}, template \in Metadata \cup {NoMeta} :
            /\ pc = IF old.meta = Unread THEN "reads" ELSE "done"
            /\ page' = [page EXCEPT ![p].template = template, ![p].pc = pc]
    BY <1>1, <1>2, <1>4 DEF ReadTemplate, TypeOK, Keys
  <2> DEFINE now == [old EXCEPT !.template = template, !.pc = pc]
  <2>2. /\ now \in Page /\ now.pc = pc /\ now.slug = old.slug /\ now.row = old.row
        /\ now.meta = old.meta /\ now.always = old.always /\ now.moved = old.moved
        /\ now.inherits = old.inherits
    BY DEF Page, TypeOK
  <2>3. page' = [page EXCEPT ![p] = now]
        /\ UNCHANGED <<slugOf, meta, lock, log, tx, moves, inherited>>
    BY <1>1, <1>4, <2>1 DEF ReadTemplate
  <2> HIDE DEF now
  <2>4. /\ page'[p] = now /\ page' \in [Pages -> Page]
        /\ \A q \in Pages : q # p => page'[q] = page[q]
    BY <1>2, <2>2, <2>3
  <2>5. PageOK(p)'
    BY <1>1, <1>2, <1>4, <2>1, <2>2, <2>3, <2>4 DEF ReadTemplate, PageOK, Titled
  <2> QED BY <2>3, <2>4, <2>5 DEF PageStep
<1>5. CASE ReadMeta(p)
  <2>0. old.slug \in Slugs
    BY <1>1, <1>2, <1>5 DEF ReadMeta, PageOK
  <2>1. PICK pc \in {"reads", "done"}, m \in Metadata \cup {NoMeta}, inherits \in BOOLEAN :
            /\ m = meta[old.slug] /\ inherits = (old.slug \in inherited)
            /\ pc = IF old.template = Unread THEN "reads" ELSE "done"
    <3>1. meta[old.slug] \in Metadata \cup {NoMeta}
      BY <2>0 DEF TypeOK, Keys
    <3>2. (old.slug \in inherited) \in BOOLEAN
      OBVIOUS
    <3> QED BY <3>1, <3>2
  <2> DEFINE now == [old EXCEPT !.meta = m, !.inherits = inherits, !.pc = pc]
  <2>2. /\ now \in Page /\ now.pc = pc /\ now.slug = old.slug /\ now.row = old.row
        /\ now.meta = m /\ now.always = old.always /\ now.moved = old.moved
        /\ now.inherits = inherits
    BY DEF Page
  <2>3. page' = [page EXCEPT ![p] = now]
        /\ UNCHANGED <<slugOf, meta, lock, log, tx, moves, inherited>>
    <3>1. /\ page[p].pc = "reads"
          /\ page' = [page EXCEPT ![p].meta = meta[old.slug],
                                  ![p].inherits = old.slug \in inherited,
                                  ![p].pc = IF old.template = Unread THEN @ ELSE "done"]
          /\ UNCHANGED <<slugOf, meta, lock, log, tx, moves, inherited>>
      BY <1>1, <1>5, Zenon DEF ReadMeta
    <3>2. page' = [page EXCEPT ![p].meta = m, ![p].inherits = inherits, ![p].pc = pc]
      BY <2>1, <3>1, <1>2
    <3> QED BY <1>1, <1>2, <3>1, <3>2
  <2> HIDE DEF now
  <2>4. /\ page'[p] = now /\ page' \in [Pages -> Page]
        /\ \A q \in Pages : q # p => page'[q] = page[q]
    BY <1>2, <2>2, <2>3
  <2>5. /\ old.pc = "reads" /\ old.meta = Unread /\ old.slug \in Slugs /\ old.row \in Rows
        /\ old.moved \/ slugOf[old.row] = old.slug
        /\ old.always => Titled(m)
    BY <1>1, <1>2, <1>5, <2>1 DEF ReadMeta, PageOK
  <2>6. m # NoMeta /\ ~inherits /\ ~old.moved => m.row = old.row
    <3>1. ~inherits => old.slug \notin inherited
      BY <2>1, Zenon
    <3>2. m # NoMeta /\ old.slug \notin inherited => Holds(slugOf, m.row, old.slug)
      BY <2>1, <2>5 DEF Rightful, Keys
    <3>3. ~old.moved /\ Holds(slugOf, m.row, old.slug) => m.row = old.row
      BY <2>5, NamesAssumption DEF Holds, Unique, Keys
    <3> QED BY <3>1, <3>2, <3>3
  <2>7. PageOK(p)'
    BY <2>1, <2>2, <2>3, <2>4, <2>5, <2>6, NamesAssumption DEF PageOK, Titled
  <2> QED BY <2>3, <2>4, <2>7 DEF PageStep
<1> QED BY <1>3, <1>4, <1>5

Still == UNCHANGED <<slugOf, meta, lock, log, tx, page, inherited>>

LEMMA StepIs ==
    ASSUME SeoInv, [Next]_vars
    PROVE  \/ \E ss \in SUBSET Slugs : Moves(ss)
           \/ \E w \in Writers : TxStep(w)
           \/ \E w \in Writers : Commit(w) /\ Commits(w)
           \/ \E p \in Pages : PageStep(p)
           \/ Still
<1>1. TypeOK /\ Unique /\ Locks /\ Rightful /\ PagesOK
  BY DEF SeoInv
<1>2. CASE \/ \E r \in Rows, s \in Slugs : Create(r, s) \/ Rename(r, s)
           \/ \E r \in Rows : Delete(r)
  BY <1>1, <1>2, MovesAre
<1>4. CASE \E w \in Writers, s \in Slugs, kind \in Kinds : AskWrite(w, s, kind)
  BY <1>1, <1>4, TxStepIs
<1>5. CASE \E w \in Writers : \/ UpdateTemplate(w) \/ Upsert(w) \/ Wait(w) \/ DeleteMany(w)
                              \/ Record(w) \/ Commit(w) \/ Rollback(w)
  BY <1>1, <1>5, TxStepIs, CommitIs
<1>6. CASE \/ \E p \in Pages, r \in Rows : AskPage(p, r)
           \/ \E p \in Pages : ReadTemplate(p) \/ ReadMeta(p)
  BY <1>1, <1>6, PageStepIs
<1>7. CASE UNCHANGED vars
  BY <1>1, <1>7 DEF vars, Still, TypeOK
<1> QED BY <1>2, <1>4, <1>5, <1>6, <1>7 DEF Next

\* What a change of hands leaves of transactions and pages.
LEMMA MovedAre ==
    ASSUME TypeOK, NEW ss \in SUBSET Slugs, Moves(ss)
    PROVE  /\ tx' \in [Writers -> Transaction] /\ page' \in [Pages -> Page]
           /\ \A w \in Writers :
                 /\ tx'[w].pc = tx[w].pc /\ tx'[w].slug = tx[w].slug /\ tx'[w].kind = tx[w].kind
                 /\ tx'[w].row = tx[w].row /\ tx'[w].hit = tx[w].hit
                 /\ tx'[w].saw = tx[w].saw /\ tx'[w].knew = tx[w].knew
                 /\ tx'[w].fresh => tx[w].fresh /\ tx[w].slug \notin ss
           /\ \A p \in Pages :
                 /\ page'[p].pc = page[p].pc /\ page'[p].slug = page[p].slug
                 /\ page'[p].row = page[p].row /\ page'[p].meta = page[p].meta
                 /\ page'[p].always = page[p].always /\ page'[p].inherits = page[p].inherits
                 /\ page[p].moved => page'[p].moved
                 /\ page[p].pc = "reads" /\ page[p].slug \in ss => page'[p].moved
<1>1. ASSUME NEW w \in Writers
      PROVE  /\ tx'[w] \in Transaction
             /\ tx'[w].pc = tx[w].pc /\ tx'[w].slug = tx[w].slug /\ tx'[w].kind = tx[w].kind
             /\ tx'[w].row = tx[w].row /\ tx'[w].hit = tx[w].hit
             /\ tx'[w].saw = tx[w].saw /\ tx'[w].knew = tx[w].knew
             /\ tx'[w].fresh => tx[w].fresh /\ tx[w].slug \notin ss
  <2>1. PICK old \in Transaction : old = tx[w]
    BY TxIs
  <2>2. PICK fresh \in BOOLEAN : fresh <=> old.fresh /\ old.slug \notin ss
    OBVIOUS
  <2>3. tx'[w] = [old EXCEPT !.fresh = fresh]
    BY <2>1, <2>2 DEF Moves, ChangeHands, Transaction
  <2> QED BY <2>1, <2>2, <2>3 DEF Transaction
<1>2. ASSUME NEW p \in Pages
      PROVE  /\ page'[p] \in Page
             /\ page'[p].pc = page[p].pc /\ page'[p].slug = page[p].slug
             /\ page'[p].row = page[p].row /\ page'[p].meta = page[p].meta
             /\ page'[p].always = page[p].always /\ page'[p].inherits = page[p].inherits
             /\ page[p].moved => page'[p].moved
             /\ page[p].pc = "reads" /\ page[p].slug \in ss => page'[p].moved
  <2>1. PICK old \in Page : old = page[p]
    BY DEF TypeOK
  <2>2. PICK moved \in BOOLEAN : moved <=> old.moved \/ \E s \in ss : Making(p, s)
    OBVIOUS
  <2>3. page'[p] = [old EXCEPT !.moved = moved]
    BY <2>1, <2>2 DEF Moves, ChangeHands, Page
  <2>4. old.pc = "reads" /\ old.slug \in ss => moved
    BY <2>1, <2>2 DEF Making
  <2> QED BY <2>1, <2>2, <2>3, <2>4 DEF Page
<1>3. /\ tx' = [w \in Writers |-> tx'[w]] /\ page' = [p \in Pages |-> page'[p]]
  BY DEF Moves, ChangeHands
<1>4. tx' \in [Writers -> Transaction] /\ page' \in [Pages -> Page]
  BY <1>1, <1>2, <1>3
<1> QED BY <1>1, <1>2, <1>4

\* What a commit leaves of the pages.
LEMMA CommittedPages ==
    ASSUME TypeOK, NEW w \in Writers, Commit(w)
    PROVE  /\ page' \in [Pages -> Page]
           /\ \A p \in Pages :
                 /\ page'[p].pc = page[p].pc /\ page'[p].slug = page[p].slug
                 /\ page'[p].row = page[p].row /\ page'[p].meta = page[p].meta
                 /\ page'[p].moved = page[p].moved /\ page'[p].inherits = page[p].inherits
                 /\ page'[p].always => page[p].always
                 /\ page'[p].always /\ page[p].pc = "reads" /\ page[p].slug = tx[w].slug =>
                       Titled(Written(w))
<1>1. ASSUME NEW p \in Pages
      PROVE  /\ page'[p] \in Page
             /\ page'[p].pc = page[p].pc /\ page'[p].slug = page[p].slug
             /\ page'[p].row = page[p].row /\ page'[p].meta = page[p].meta
             /\ page'[p].moved = page[p].moved /\ page'[p].inherits = page[p].inherits
             /\ page'[p].always => page[p].always
             /\ page'[p].always /\ page[p].pc = "reads" /\ page[p].slug = tx[w].slug =>
                   Titled(Written(w))
  <2>1. PICK old \in Page : old = page[p]
    BY DEF TypeOK
  <2>2. PICK always \in BOOLEAN :
            always <=> old.always /\ (Making(p, tx[w].slug) => Titled(Written(w)))
    OBVIOUS
  <2>3. page'[p] = [old EXCEPT !.always = always]
    BY <2>1, <2>2 DEF Commit, Page
  <2>4. always /\ old.pc = "reads" /\ old.slug = tx[w].slug => Titled(Written(w))
    BY <2>1, <2>2 DEF Making
  <2> QED BY <2>1, <2>2, <2>3, <2>4 DEF Page
<1>2. page' = [p \in Pages |-> page'[p]]
  BY DEF Commit
<1>3. page' \in [Pages -> Page]
  BY <1>1, <1>2
<1> QED BY <1>1, <1>3
-----------------------------------------------------------------------------
LEMMA TypeStep ==
    ASSUME SeoInv, [Next]_vars
    PROVE  TypeOK'
<1>1. TypeOK
  BY DEF SeoInv
<1>2. CASE \E ss \in SUBSET Slugs : Moves(ss)
  <2>1. PICK ss \in SUBSET Slugs : Moves(ss)
    BY <1>2
  <2>2. inherited' \subseteq Keys
    BY <1>1, <2>1 DEF Moves, ChangeHands, TypeOK, Keys
  <2>3. tx' \in [Writers -> Transaction] /\ page' \in [Pages -> Page]
    BY <1>1, <2>1, MovedAre
  <2> QED BY <1>1, <2>1, <2>2, <2>3 DEF Moves, ChangeHands, TypeOK
<1>3. CASE \E w \in Writers : TxStep(w)
  <2>1. PICK w \in Writers : TxStep(w)
    BY <1>3
  <2>2. lock' \in [Keys -> Writers \cup {NoOne}]
    BY <1>1, <2>1 DEF TypeOK, TxStep, Begins, Waits, Writes, Records, Fails
  <2>3. log' \in [Keys -> Seq([by : Writers \cup {Earlier}, deleted : BOOLEAN])]
    <3> DEFINE E == [by : Writers \cup {Earlier}, deleted : BOOLEAN]
               e == Event(w, tx[w].kind)
    <3>1. e \in E
      BY <1>1, TxIs DEF Event
    <3>2. log \in [Keys -> Seq(E)]
      BY <1>1 DEF TypeOK
    <3>3. log' = log \/ log' = [log EXCEPT ![tx[w].slug] = Append(@, e)]
      BY <2>1 DEF TxStep, Begins, Waits, Writes, Records, Fails
    <3> HIDE DEF E, e
    <3>4. \A t \in Keys : log[t] \in Seq(E) /\ Append(log[t], e) \in Seq(E)
      BY <3>1, <3>2
    <3>5. ASSUME log' = [log EXCEPT ![tx[w].slug] = Append(@, e)]
          PROVE  log' \in [Keys -> Seq(E)]
      <4>1. log' = [t \in Keys |-> IF t = tx[w].slug THEN Append(log[t], e) ELSE log[t]]
        BY <3>2, <3>5
      <4>2. \A t \in Keys : (IF t = tx[w].slug THEN Append(log[t], e) ELSE log[t]) \in Seq(E)
        BY <3>4
      <4> QED BY <4>1, <4>2
    <3>6. log' \in [Keys -> Seq(E)]
      BY <3>2, <3>3, <3>5
    <3> QED BY <3>6 DEF E
  <2> QED BY <1>1, <2>1, <2>2, <2>3 DEF TypeOK, TxStep
<1>4. CASE \E w \in Writers : Commit(w) /\ Commits(w)
  <2>1. PICK w \in Writers : Commit(w) /\ Commits(w)
    BY <1>4
  <2>2. page' \in [Pages -> Page]
    BY <1>1, <2>1, CommittedPages
  <2>3. meta' \in [Keys -> Metadata \cup {NoMeta}] /\ lock' \in [Keys -> Writers \cup {NoOne}]
    BY <1>1, <2>1 DEF Commits, TypeOK
  <2> QED BY <1>1, <2>1, <2>2, <2>3 DEF Commits, TypeOK
<1>5. CASE \E p \in Pages : PageStep(p)
  BY <1>1, <1>5 DEF PageStep, TypeOK
<1>6. CASE Still
  BY <1>1, <1>6 DEF Still, TypeOK
<1> QED BY <1>2, <1>3, <1>4, <1>5, <1>6, StepIs

LEMMA UniqueStep ==
    ASSUME SeoInv, [Next]_vars
    PROVE  Unique'
<1>1. Unique
  BY DEF SeoInv
<1>2. slugOf' = slugOf => Unique'
  BY <1>1 DEF Unique
<1> QED BY <1>2, StepIs DEF Moves, TxStep, Commits, PageStep, Still

\* Nobody but w gets or loses a lock by w's step, and no slug that w is not about.
LEMMA LocksStep ==
    ASSUME SeoInv, [Next]_vars
    PROVE  Locks'
<1>1. TypeOK /\ Locks
  BY DEF SeoInv
<1>2. CASE \E ss \in SUBSET Slugs : Moves(ss)
  <2>1. PICK ss \in SUBSET Slugs : Moves(ss)
    BY <1>2
  <2>2. \A w \in Writers : /\ tx'[w].pc = tx[w].pc /\ tx'[w].slug = tx[w].slug
                           /\ tx'[w].kind = tx[w].kind /\ tx'[w].hit = tx[w].hit
    BY <1>1, <2>1, MovedAre
  <2>3. lock' = lock
    BY <2>1 DEF Moves, ChangeHands
  <2> QED BY <1>1, <2>2, <2>3 DEF Locks, Open, Wrote
<1>3. CASE \E w \in Writers : TxStep(w)
  <2>1. PICK w \in Writers : TxStep(w)
    BY <1>3
  <2>2. lock \in [Keys -> Writers \cup {NoOne}] /\ \A v \in Writers : v # w => tx'[v] = tx[v]
    BY <1>1, <2>1 DEF TypeOK, TxStep
  <2>3. CASE Begins(w)
    BY <1>1, <2>2, <2>3 DEF Locks, Open, Wrote, Begins
  <2>4. CASE Waits(w)
    BY <1>1, <2>2, <2>4 DEF Locks, Open, Wrote, Waits, SameAim
  <2>5. CASE Writes(w)
    <3>1. \A s \in Keys : lock[s] # w
      BY <1>1, <2>5 DEF Locks, Wrote, Writes
    <3>2. tx[w].slug \in Keys
      BY <1>1, <2>5 DEF Locks, Open, Writes
    <3>3. \A v \in Writers : v # w => v # NoOne /\ (Wrote(v) => lock[tx[v].slug] = v)
      BY <1>1, NamesAssumption DEF Locks
    <3> QED BY <1>1, <2>2, <2>5, <3>1, <3>2, <3>3, NamesAssumption
            DEF Locks, Open, Wrote, Writes, SameAim
  <2>6. CASE Records(w)
    BY <1>1, <2>2, <2>6 DEF Locks, Open, Wrote, Records, SameAim
  <2>7. CASE Fails(w)
    <3>1. \A s \in Keys : lock'[s] = IF lock[s] = w THEN NoOne ELSE lock[s]
      BY <2>7 DEF Fails
    <3>2. ~Open(w)' /\ ~Wrote(w)' /\ tx'[w].pc = "failed"
      BY <2>7 DEF Fails, Open, Wrote
    <3>3. \A v \in Writers : Wrote(v) => tx[v].slug \in Keys
      BY <1>1 DEF Locks, Open, Wrote
    <3> QED BY <1>1, <2>2, <3>1, <3>2, <3>3, NamesAssumption DEF Locks, Open, Wrote
  <2> QED BY <2>1, <2>3, <2>4, <2>5, <2>6, <2>7 DEF TxStep
<1>4. CASE \E w \in Writers : Commit(w) /\ Commits(w)
  <2>1. PICK w \in Writers : Commits(w)
    BY <1>4
  <2>2. lock \in [Keys -> Writers \cup {NoOne}] /\ \A v \in Writers : v # w => tx'[v] = tx[v]
    BY <1>1, <2>1 DEF TypeOK, Commits
  <2>3. ~Open(w)' /\ ~Wrote(w)' /\ tx'[w].pc = "done"
    BY <2>1 DEF Commits, Open, Wrote
  <2>4. \A s \in Keys : lock'[s] = IF lock[s] = w THEN NoOne ELSE lock[s]
    BY <1>1, <2>1, <2>2 DEF Commits, Locks
  <2>5. \A v \in Writers : Wrote(v) => tx[v].slug \in Keys
    BY <1>1 DEF Locks, Open, Wrote
  <2> QED BY <1>1, <2>2, <2>3, <2>4, <2>5, NamesAssumption DEF Locks, Open, Wrote
<1>5. CASE \/ \E p \in Pages : PageStep(p)
           \/ Still
  BY <1>1, <1>5 DEF PageStep, Still, Locks, Open, Wrote
<1> QED BY <1>2, <1>3, <1>4, <1>5, StepIs

LEMMA RightfulStep ==
    ASSUME SeoInv, [Next]_vars
    PROVE  Rightful'
<1>1. TypeOK /\ Locks /\ Rightful
  BY DEF SeoInv
<1>2. CASE \E ss \in SUBSET Slugs : Moves(ss)
  <2>1. PICK ss \in SUBSET Slugs : Moves(ss)
    BY <1>2
  <2>2. ASSUME NEW s \in Keys, s \notin ss, NEW r, Holds(slugOf, r, s)
        PROVE  Holds(slugOf', r, s)
    BY <2>1, <2>2, NamesAssumption DEF Moves, Holds
  <2>3. /\ meta' = meta
        /\ inherited' = inherited \cup
              {s \in ss : meta[s] # NoMeta \/ \E w \in Writers : Open(w) /\ tx[w].slug = s}
    BY <2>1 DEF Moves, ChangeHands
  <2>4. \A w \in Writers : /\ tx'[w].pc = tx[w].pc /\ tx'[w].slug = tx[w].slug
                           /\ tx'[w].row = tx[w].row
                           /\ tx'[w].fresh => tx[w].fresh /\ tx[w].slug \notin ss
    BY <1>1, <2>1, MovedAre
  <2>5. ASSUME NEW w \in Writers, Open(w)', tx'[w].fresh
        PROVE  Holds(slugOf', tx[w].row, tx[w].slug)
    <3>1. Open(w) /\ tx[w].fresh /\ tx[w].slug \notin ss
      BY <2>4, <2>5 DEF Open
    <3>2. Holds(slugOf, tx[w].row, tx[w].slug) /\ tx[w].slug \in Keys
      BY <1>1, <3>1 DEF Rightful, Locks
    <3> QED BY <2>2, <3>1, <3>2
  <2>6. ASSUME NEW s \in Keys, meta'[s] # NoMeta, s \notin inherited'
        PROVE  Holds(slugOf', meta'[s].row, s)
    <3>1. s \notin ss /\ s \notin inherited
      BY <2>3, <2>6
    <3>2. Holds(slugOf, meta[s].row, s)
      BY <1>1, <2>3, <2>6, <3>1 DEF Rightful
    <3> QED BY <2>2, <2>3, <3>1, <3>2
  <2> QED BY <2>4, <2>5, <2>6 DEF Rightful
<1>3. CASE \E w \in Writers : TxStep(w)
  <2>1. PICK w \in Writers : TxStep(w)
    BY <1>3
  <2>2. Open(w)' => \/ Open(w) /\ SameAim(w)
                    \/ Holds(slugOf, tx'[w].row, tx'[w].slug)
    BY <2>1 DEF TxStep, Begins, Waits, Writes, Records, Fails, Open
  <2>3. slugOf' = slugOf /\ meta' = meta /\ inherited' = inherited
    BY <2>1 DEF TxStep
  <2>4. \A v \in Writers : v # w => tx'[v] = tx[v]
    BY <2>1 DEF TxStep
  <2> QED BY <1>1, <2>2, <2>3, <2>4 DEF Rightful, Holds, Open, SameAim
<1>4. CASE \E w \in Writers : Commit(w) /\ Commits(w)
  <2>1. PICK w \in Writers : Commits(w)
    BY <1>4
  <2>2. slugOf' = slugOf /\ ~Open(w)' /\ \A v \in Writers : v # w => tx'[v] = tx[v]
    BY <2>1 DEF Commits, Open
  <2>3. \A v \in Writers : Open(v)' /\ tx'[v].fresh => Holds(slugOf', tx'[v].row, tx'[v].slug)
    BY <1>1, <2>2 DEF Rightful, Holds, Open
  <2>4. ASSUME NEW s \in Keys, meta'[s] # NoMeta, s \notin inherited'
        PROVE  Holds(slugOf, meta'[s].row, s)
    <3>1. CASE s # tx[w].slug
      BY <1>1, <2>1, <2>4, <3>1 DEF Rightful, Commits, TypeOK
    <3>2. CASE s = tx[w].slug /\ tx[w].kind = "clear"
      <4>1. meta'[s] = Written(w) /\ s \notin inherited
        BY <1>1, <2>1, <2>4, <3>2 DEF Commits, TypeOK
      <4>2. Written(w) = meta[s]
        BY <2>1, <2>4, <3>2, <4>1 DEF Commits
      <4> QED BY <1>1, <2>4, <4>1, <4>2 DEF Rightful
    <3>3. CASE s = tx[w].slug /\ tx[w].kind # "clear"
      <4>1. Open(w) /\ tx[w].fresh /\ tx[w].hit
        BY <1>1, <2>1, <2>4, <3>3 DEF Commits, Locks, Open
      <4>2. meta'[s] = Written(w) /\ Written(w).row = tx[w].row
        BY <1>1, <2>1, <3>3, <4>1 DEF Commits, TypeOK
      <4> QED BY <1>1, <3>3, <4>1, <4>2 DEF Rightful
    <3> QED BY <3>1, <3>2, <3>3
  <2>5. \A s \in Keys : meta'[s] # NoMeta /\ s \notin inherited' => Holds(slugOf', meta'[s].row, s)
    BY <2>2, <2>4 DEF Holds
  <2> QED BY <2>3, <2>5 DEF Rightful, Holds
<1>5. CASE \/ \E p \in Pages : PageStep(p)
           \/ Still
  BY <1>1, <1>5 DEF PageStep, Still, Rightful, Holds, Open
<1> QED BY <1>2, <1>3, <1>4, <1>5, StepIs

LEMMA PagesStep ==
    ASSUME SeoInv, [Next]_vars
    PROVE  PagesOK'
<1>1. TypeOK /\ PagesOK /\ Locks
  BY DEF SeoInv
<1>2. CASE \E ss \in SUBSET Slugs : Moves(ss)
  <2>1. PICK ss \in SUBSET Slugs : Moves(ss)
    BY <1>2
  <2>2. SUFFICES ASSUME NEW p \in Pages
                 PROVE  PageOK(p)'
    BY DEF PagesOK
  <2>3. /\ page'[p].pc = page[p].pc /\ page'[p].slug = page[p].slug
        /\ page'[p].row = page[p].row /\ page'[p].meta = page[p].meta
        /\ page'[p].always = page[p].always /\ page'[p].inherits = page[p].inherits
        /\ page[p].moved => page'[p].moved
        /\ page[p].pc = "reads" /\ page[p].slug \in ss => page'[p].moved
    BY <1>1, <2>1, MovedAre
  <2>4. PageOK(p) /\ meta' = meta
    BY <1>1, <2>1 DEF PagesOK, Moves, ChangeHands
  <2>5. page[p].pc = "reads" =>
            page'[p].moved \/ slugOf'[page[p].row] = page[p].slug
    BY <2>1, <2>3, <2>4, NamesAssumption DEF PageOK, Moves, Keys
  <2> QED BY <2>3, <2>4, <2>5 DEF PageOK, Titled
<1>3. CASE \E w \in Writers : TxStep(w)
  BY <1>1, <1>3 DEF TxStep, PagesOK, PageOK, Titled
<1>4. CASE \E w \in Writers : Commit(w) /\ Commits(w)
  <2>1. PICK w \in Writers : Commit(w) /\ Commits(w)
    BY <1>4
  <2>2. SUFFICES ASSUME NEW p \in Pages
                 PROVE  PageOK(p)'
    BY DEF PagesOK
  <2>3. /\ page'[p].pc = page[p].pc /\ page'[p].slug = page[p].slug
        /\ page'[p].row = page[p].row /\ page'[p].meta = page[p].meta
        /\ page'[p].moved = page[p].moved /\ page'[p].inherits = page[p].inherits
        /\ page'[p].always => page[p].always
        /\ page'[p].always /\ page[p].pc = "reads" /\ page[p].slug = tx[w].slug =>
              Titled(Written(w))
    BY <1>1, <2>1, CommittedPages
  <2>4. PageOK(p) /\ slugOf' = slugOf
    BY <1>1, <2>1 DEF PagesOK, Commits
  <2>5. page[p].pc = "reads" /\ page[p].meta = Unread /\ page'[p].always =>
            Titled(meta'[page[p].slug])
    <3> SUFFICES ASSUME page[p].pc = "reads", page[p].meta = Unread, page'[p].always
                 PROVE  Titled(meta'[page[p].slug])
      OBVIOUS
    <3>1. page[p].slug \in Slugs /\ Titled(meta[page[p].slug])
      BY <2>3, <2>4 DEF PageOK
    <3>2. meta'[page[p].slug] = IF page[p].slug = tx[w].slug THEN Written(w) ELSE meta[page[p].slug]
      BY <1>1, <2>1, <3>1 DEF Commits, TypeOK
    <3> QED BY <2>3, <3>1, <3>2
  <2> QED BY <2>3, <2>4, <2>5 DEF PageOK, Titled
<1>5. CASE \E p \in Pages : PageStep(p)
  <2>1. PICK p \in Pages : PageStep(p)
    BY <1>5
  <2>2. \A q \in Pages : q # p => page'[q] = page[q]
    BY <2>1 DEF PageStep
  <2>3. slugOf' = slugOf /\ meta' = meta
    BY <2>1 DEF PageStep
  <2>4. ASSUME NEW q \in Pages, q # p
        PROVE  PageOK(q)'
    BY <1>1, <2>2, <2>3, <2>4 DEF PagesOK, PageOK, Titled
  <2> QED BY <2>1, <2>4 DEF PagesOK, PageStep
<1>6. CASE Still
  BY <1>1, <1>6 DEF Still, PagesOK, PageOK, Titled
<1> QED BY <1>2, <1>3, <1>4, <1>5, <1>6, StepIs
LEMMA UnawareStep ==
    ASSUME SeoInv, [Next]_vars
    PROVE  Unaware'
<1>1. TypeOK /\ Locks /\ Unaware
  BY DEF SeoInv
<1>2. ASSUME meta' = meta,
             \A w \in Writers :
                 /\ tx'[w].pc = tx[w].pc /\ tx'[w].slug = tx[w].slug /\ tx'[w].hit = tx[w].hit
                 /\ tx'[w].saw = tx[w].saw /\ tx'[w].knew = tx[w].knew
      PROVE  Unaware'
  <2>1. \A w \in Writers : tx[w].knew \subseteq Writers
    BY <1>1, TxIs
  <2> QED BY <1>1, <1>2, <2>1 DEF Unaware, Misses, Knew, Open
<1>3. CASE \E ss \in SUBSET Slugs : Moves(ss)
  <2>1. PICK ss \in SUBSET Slugs : Moves(ss)
    BY <1>3
  <2>2. meta' = meta
    BY <2>1 DEF Moves, ChangeHands
  <2> QED BY <1>1, <1>2, <2>1, <2>2, MovedAre
<1>4. CASE \E w \in Writers : TxStep(w)
  <2>1. PICK w \in Writers : TxStep(w)
    BY <1>4
  <2>2. /\ meta' = meta /\ \A v \in Writers : v # w => tx'[v] = tx[v]
        /\ tx[w].pc # "done"
    BY <2>1 DEF TxStep, Begins, Waits, Writes, Records, Fails, Open
  <2>3. \A d \in Writers : tx[d].knew \subseteq Writers
    BY <1>1, TxIs
  <2>4. ASSUME NEW d \in Writers
        PROVE  \A v \in tx'[d].knew : tx'[v].pc = "done"
    <3>1. \A v \in tx'[d].knew : v \in Writers /\ tx[v].pc = "done"
      BY <1>1, <2>1, <2>2, <2>3
         DEF Unaware, TxStep, Begins, Waits, Writes, Records, Fails, SameAim
    <3> QED BY <2>2, <3>1
  <2>5. ASSUME NEW d \in Writers, d # w, Misses(d)'
        PROVE  ~Knew(d, meta[tx[d].slug].by)'
    BY <1>1, <2>2, <2>5 DEF Unaware, Misses, Open, Knew
  <2>6. ASSUME Misses(w)'
        PROVE  ~Knew(w, meta[tx[w].slug].by)'
    <3>1. Misses(w) /\ tx'[w].slug = tx[w].slug /\ tx'[w].knew = tx[w].knew
      <4>1. CASE Begins(w)
        BY <2>2, <2>6, <4>1 DEF Misses, Begins
      <4>2. CASE Waits(w)
        BY <2>2, <2>6, <4>2 DEF Misses, Waits, SameAim
      <4>3. CASE Writes(w)
        BY <2>2, <2>6, <4>3 DEF Misses, Writes, SameAim, Open
      <4>4. CASE Records(w)
        BY <2>2, <2>6, <4>4 DEF Misses, Records, SameAim, Open
      <4>5. CASE Fails(w)
        BY <2>6, <4>5 DEF Misses, Fails, Open
      <4> QED BY <2>1, <4>1, <4>2, <4>3, <4>4, <4>5 DEF TxStep
    <3> QED BY <1>1, <2>2, <3>1 DEF Unaware, Knew
  <2> QED BY <2>4, <2>5, <2>6 DEF Unaware
<1>5. CASE \E w \in Writers : Commit(w) /\ Commits(w)
  <2>1. PICK w \in Writers : Commits(w)
    BY <1>5
  <2>2. /\ tx[w].pc = "commit" /\ tx'[w].pc = "done" /\ tx'[w].knew = tx[w].knew
        /\ \A v \in Writers : v # w => tx'[v] = tx[v]
    BY <2>1 DEF Commits
  <2>3. \A d \in Writers : tx[d].knew \subseteq Writers /\ w \notin tx[d].knew
    BY <1>1, <2>2, TxIs DEF Unaware
  <2>4. \A d \in Writers : \A v \in tx'[d].knew : tx'[v].pc = "done"
    BY <1>1, <2>2, <2>3 DEF Unaware
  <2>5. ASSUME NEW d \in Writers, Misses(d)'
        PROVE  ~Knew(d, meta[tx[d].slug].by)'
    <3>1. d # w /\ tx'[d] = tx[d] /\ tx[d].slug \in Keys
      BY <1>1, <2>2, <2>5 DEF Misses, Open, Locks
    <3>2. meta'[tx[d].slug] \in {meta[tx[d].slug], NoMeta} \/ meta'[tx[d].slug].by = w
      BY <1>1, <2>1, <3>1 DEF Commits, TypeOK
    <3>3. CASE meta'[tx[d].slug] = meta[tx[d].slug]
      BY <1>1, <2>5, <3>1, <3>3 DEF Unaware, Misses, Open, Knew
    <3>4. CASE meta'[tx[d].slug] = NoMeta
      BY <2>5, <3>1, <3>4 DEF Misses
    <3>5. CASE meta'[tx[d].slug].by = w
      BY <2>3, <3>1, <3>5, NamesAssumption DEF Knew
    <3> QED BY <3>2, <3>3, <3>4, <3>5
  <2> QED BY <2>4, <2>5 DEF Unaware
<1>6. CASE \/ \E p \in Pages : PageStep(p)
           \/ Still
  BY <1>2, <1>6 DEF PageStep, Still
<1> QED BY <1>3, <1>4, <1>5, <1>6, StepIs
-----------------------------------------------------------------------------
LEMMA EventIs ==
    ASSUME TypeOK, NEW s \in Keys
    PROVE  /\ log[s] \in Seq([by : Writers \cup {Earlier}, deleted : BOOLEAN])
           /\ \A i \in DOMAIN log[s] : i \in Nat /\ log[s][i].by \in Writers \cup {Earlier}
<1> DEFINE E == [by : Writers \cup {Earlier}, deleted : BOOLEAN]
<1>1. \A e \in E : e.by \in Writers \cup {Earlier}
  OBVIOUS
<1>2. log[s] \in Seq(E)
  BY DEF TypeOK
<1> HIDE DEF E
<1>3. \A i \in DOMAIN log[s] : i \in Nat /\ log[s][i] \in E
  BY <1>2
<1> QED BY <1>1, <1>2, <1>3 DEF E

\* The events told of a key, and what their transactions knew, stay what they are
\* when no other transaction ends.
SameTold(k) ==
    /\ Told(k)' = Told(k)
    /\ \A i \in Told(k) : /\ log'[k][i] = log[k][i]
                          /\ \A w : Missed(k, i, w)' <=> Missed(k, i, w)

LEMMA ToldStays ==
    ASSUME TypeOK, Logs, NEW k \in Keys,
           DOMAIN log[k] \subseteq DOMAIN log'[k],
           \A i \in DOMAIN log[k] : log'[k][i] = log[k][i],
           \A i \in DOMAIN log'[k] \ DOMAIN log[k] : ~Committed(log[k][i].by)',
           \A v \in Writers : tx[v].pc = "done" <=> tx'[v].pc = "done",
           \A v \in Writers : tx[v].pc = "done" => tx'[v].knew = tx[v].knew
    PROVE  SameTold(k)
<1>1. \A i \in DOMAIN log[k] : Committed(log[k][i].by)' <=> Committed(log[k][i].by)
  BY EventIs DEF Committed
<1>2. Told(k)' = Told(k)
  BY <1>1 DEF Told
<1>3. ASSUME NEW i \in Told(k), NEW w
      PROVE  Missed(k, i, w)' <=> Missed(k, i, w)
  <2>1. i \in DOMAIN log[k] /\ Committed(log[k][i].by)
    BY DEF Told
  <2>2. EventOK(k, i) /\ log[k][i].by \in Writers \cup {Earlier}
    BY <2>1, EventIs DEF Logs
  <2>3. log[k][i].deleted => /\ log[k][i].by \in Writers
                             /\ tx'[log[k][i].by].knew = tx[log[k][i].by].knew
    BY <2>1, <2>2 DEF EventOK, Committed
  <2> QED BY <2>1, <2>3 DEF Missed, Knew
<1> QED BY <1>2, <1>3 DEF SameTold, Told

LEMMA ExplainedStays ==
    ASSUME NEW k \in Keys, Explained(k), SameTold(k), meta'[k] = meta[k]
    PROVE  Explained(k)'
BY DEF Explained, SameTold

LEMMA RecordedStays ==
    ASSUME TypeOK, Locks, NEW w \in Writers, Recorded(w), tx'[w].pc = "commit" => tx'[w] = tx[w],
           SameTold(tx[w].slug),
           \A i \in DOMAIN log[tx[w].slug] :
               i \in DOMAIN log'[tx[w].slug] /\ log'[tx[w].slug][i] = log[tx[w].slug][i]
    PROVE  Recorded(w)'
BY DEF Recorded, SameTold

\* While no event comes and nobody commits, the log is as it was.
LEMMA LogStays ==
    ASSUME TypeOK, Locks, Logs, LogExplainsMetadata, log' = log, meta' = meta,
           \A w \in Writers :
               \/ /\ tx'[w].pc = tx[w].pc /\ tx'[w].slug = tx[w].slug /\ tx'[w].kind = tx[w].kind
                  /\ tx'[w].hit = tx[w].hit /\ tx'[w].knew = tx[w].knew
               \/ /\ tx[w].pc \notin {"commit", "done", "failed"}
                  /\ tx'[w].pc \notin {"commit", "done"}
               \/ tx[w].pc = "commit" /\ tx'[w].pc = "failed"
    PROVE  Logs' /\ LogExplainsMetadata'
<1>1. \A k \in Keys : SameTold(k)
  BY ToldStays
<1>2. ASSUME NEW k \in Keys, NEW i \in DOMAIN log[k]
      PROVE  EventOK(k, i)'
  <2>1. EventOK(k, i) /\ log[k][i].by \in Writers \cup {Earlier}
    BY EventIs DEF Logs
  <2> QED BY <2>1 DEF EventOK
<1>3. ASSUME NEW w \in Writers, tx'[w].pc = "commit"
      PROVE  Recorded(w)'
  <2>1. /\ Recorded(w) /\ tx[w].pc = "commit" /\ tx[w].slug \in Keys
        /\ tx'[w].slug = tx[w].slug /\ tx'[w].hit = tx[w].hit
    BY <1>3 DEF Logs, Locks, Open
  <2>2. SameTold(tx[w].slug)
    BY <1>1, <2>1
  <2>3. PICK i \in DOMAIN log[tx[w].slug] :
            /\ log[tx[w].slug][i].by = w
            /\ tx[w].hit => \A j \in Told(tx[w].slug) : j < i \/ Missed(tx[w].slug, j, w)
    BY <2>1 DEF Recorded
  <2>4. tx[w].hit => \A j \in Told(tx[w].slug)' : j < i \/ Missed(tx[w].slug, j, w)'
    BY <2>2, <2>3 DEF SameTold
  <2> QED BY <2>1, <2>3, <2>4 DEF Recorded, Missed, Knew, Told
<1>4. Logs'
  BY <1>2, <1>3 DEF Logs, Recorded
<1>5. LogExplainsMetadata'
  BY <1>1, ExplainedStays DEF LogExplainsMetadata
<1> QED BY <1>4, <1>5

\* The event of w comes last, and says what w did.
LEMMA LogGrows ==
    ASSUME TypeOK, Locks, Logs, LogExplainsMetadata, NEW w \in Writers,
           TxStep(w), Records(w)
    PROVE  Logs' /\ LogExplainsMetadata'
<1>0. tx[w].slug \in Keys /\ w # Earlier /\ tx[w].pc = "record"
  BY NamesAssumption DEF Records, Locks, Open
<1>1. PICK t \in Keys : t = tx[w].slug
  BY <1>0
<1> DEFINE E == [by : Writers \cup {Earlier}, deleted : BOOLEAN]
<1>2. PICK e \in E : e = Event(w, tx[w].kind)
  <2>1. Event(w, tx[w].kind) \in E
    BY TxIs DEF Event
  <2> QED BY <2>1
<1>3. PICK old \in Seq(E) : old = log[t]
  BY DEF TypeOK
<1> DEFINE n == Len(old) + 1
<1>4. /\ tx'[w].pc = "commit" /\ tx'[w].slug = t /\ tx'[w].kind = tx[w].kind
      /\ tx'[w].hit = tx[w].hit
      /\ \A v \in Writers : v # w => tx'[v] = tx[v]
      /\ meta' = meta
  BY <1>1 DEF Records, SameAim, TxStep
<1>5. e.by = w /\ e.deleted = (tx[w].kind = "clear")
  BY <1>2 DEF Event
<1>6. log' = [log EXCEPT ![t] = Append(log[t], e)] /\ log \in [Keys -> Seq(E)]
  BY <1>1, <1>2 DEF Records, TypeOK
<1> HIDE DEF E
<1>7. /\ DOMAIN log'[t] = DOMAIN log[t] \cup {n} /\ n \notin DOMAIN log[t] /\ n \in Nat
      /\ \A i \in DOMAIN log[t] : i < n /\ log'[t][i] = log[t][i]
      /\ log'[t][n] = e
      /\ \A s \in Keys : s # t => log'[s] = log[s]
  <2>1. log'[t] = Append(old, e) /\ \A s \in Keys : s # t => log'[s] = log[s]
    BY <1>3, <1>6
  <2>2. old \in Seq(E) /\ e \in E
    OBVIOUS
  <2>3. /\ DOMAIN Append(old, e) = DOMAIN old \cup {n} /\ n \notin DOMAIN old /\ n \in Nat
        /\ \A i \in DOMAIN old : i < n /\ Append(old, e)[i] = old[i]
        /\ Append(old, e)[n] = e
    BY <2>2
  <2> QED BY <1>3, <2>1, <2>3
<1> HIDE DEF n
<1>8. \A s \in Keys : \A i \in DOMAIN log[s] :
          log[s][i].by \in Writers \cup {Earlier} /\ log[s][i].by # w
  <2>1. \A s \in Keys : \A i \in DOMAIN log[s] : EventOK(s, i)
    BY DEF Logs
  <2> QED BY <1>0, <1>1, <2>1, EventIs DEF EventOK
<1>9. \A k \in Keys : SameTold(k)
  <2>1. ~Committed(log[t][n].by)'
    BY <1>0, <1>1, <1>4, <1>5, <1>7 DEF Committed
  <2>2. /\ \A v \in Writers : tx[v].pc = "done" <=> tx'[v].pc = "done"
        /\ \A v \in Writers : tx[v].pc = "done" => tx'[v].knew = tx[v].knew
    BY <1>0, <1>4
  <2>3. SameTold(t)
    BY <1>7, <2>1, <2>2, ToldStays
  <2>4. \A k \in Keys : k # t => SameTold(k)
    BY <1>7, <2>2, ToldStays
  <2> QED BY <2>3, <2>4
<1>10. \A s \in Keys : \A i \in DOMAIN log'[s] : EventOK(s, i)'
  <2> SUFFICES ASSUME NEW s \in Keys, NEW i \in DOMAIN log'[s]
               PROVE  EventOK(s, i)'
    OBVIOUS
  <2>1. CASE s = t /\ i = n
    BY <1>0, <1>1, <1>4, <1>5, <1>7, <1>8, <2>1 DEF EventOK
  <2>2. CASE ~(s = t /\ i = n)
    <3>1. i \in DOMAIN log[s] /\ log'[s][i] = log[s][i]
      BY <1>7, <2>2
    <3>2. EventOK(s, i)
      BY <3>1 DEF Logs
    <3>3. log[s][i].by \in Writers \cup {Earlier} /\ log[s][i].by # w
      BY <1>8, <3>1
    <3>4. \A j \in DOMAIN log'[s] : log'[s][j].by = log[s][i].by =>
              j \in DOMAIN log[s] /\ log[s][j].by = log[s][i].by
      BY <1>0, <1>1, <1>5, <1>7, <3>3
    <3> QED BY <1>4, <3>1, <3>2, <3>3, <3>4 DEF EventOK
  <2> QED BY <2>1, <2>2
<1>11. ASSUME NEW v \in Writers
      PROVE  Recorded(v)'
  <2>1. CASE v = w
    <3>1. \A j \in Told(t)' : j < n
      BY <1>7, <1>9 DEF Told, SameTold
    <3> QED BY <1>0, <1>1, <1>4, <1>5, <1>7, <2>1, <3>1 DEF Recorded
  <2>2. CASE v # w /\ tx[v].pc = "commit"
    <3>1. tx[v].slug \in Keys /\ tx'[v] = tx[v] /\ Recorded(v)
      BY <1>4, <2>2 DEF Locks, Open, Logs
    <3>2. \A i \in DOMAIN log[tx[v].slug] :
              i \in DOMAIN log'[tx[v].slug] /\ log'[tx[v].slug][i] = log[tx[v].slug][i]
      BY <1>7, <3>1
    <3> QED BY <1>9, <3>1, <3>2, RecordedStays
  <2>3. CASE v # w /\ tx[v].pc # "commit"
    BY <1>4, <2>3 DEF Recorded
  <2> QED BY <2>1, <2>2, <2>3
<1>12. LogExplainsMetadata'
  BY <1>4, <1>9, ExplainedStays DEF LogExplainsMetadata
<1> QED BY <1>10, <1>11, <1>12 DEF Logs

\* With the commit of w its event is one of those told of its key: the last of them
\* that changed anything if w did, and one that missed the key's words if it did not.
LEMMA LogTells ==
    ASSUME TypeOK, Locks, Logs, Unaware, LogExplainsMetadata, NEW w \in Writers, Commits(w)
    PROVE  Logs' /\ LogExplainsMetadata'
<1>0. tx[w].slug \in Keys /\ w # Earlier /\ tx[w].pc = "commit"
  BY NamesAssumption DEF Commits
<1>1. PICK t \in Keys, hit \in BOOLEAN, clear \in BOOLEAN :
          t = tx[w].slug /\ hit = tx[w].hit /\ clear = (tx[w].kind = "clear")
  <2>1. tx[w].hit \in BOOLEAN /\ (tx[w].kind = "clear") \in BOOLEAN
    BY TxIs
  <2> QED BY <1>0, <2>1
<1>2. /\ tx'[w].pc = "done" /\ log' = log /\ tx'[w].knew = tx[w].knew
      /\ \A v \in Writers : v # w => tx'[v] = tx[v]
  BY DEF Commits
<1>3. PICK n \in DOMAIN log[t] :
          log[t][n].by = w /\ (hit => \A j \in Told(t) : j < n \/ Missed(t, j, w))
  BY <1>0, <1>1 DEF Logs, Recorded
<1>4. /\ log[t][n].deleted = clear
      /\ ~hit => clear
  <2>1. EventOK(t, n)
    BY DEF Logs
  <2> QED BY <1>0, <1>1, <1>3, <2>1 DEF EventOK, Locks
<1>5. ASSUME NEW s \in Keys, NEW i \in DOMAIN log[s]
      PROVE  /\ log[s][i].by \in Writers \cup {Earlier} /\ EventOK(s, i) /\ i \in Nat
             /\ log[s][i].by = w => s = t /\ i = n
  <2>1. EventOK(s, i) /\ log[s][i].by \in Writers \cup {Earlier} /\ i \in Nat
    BY EventIs DEF Logs
  <2>2. log[s][i].by = w => s = t
    BY <1>0, <1>1, <2>1 DEF EventOK
  <2> QED BY <1>0, <1>3, <2>1, <2>2 DEF EventOK
<1>6. ASSUME NEW s \in Keys, NEW i \in DOMAIN log[s]
      PROVE  Committed(log[s][i].by)' <=> Committed(log[s][i].by) \/ (s = t /\ i = n)
  <2>1. CASE log[s][i].by = w
    BY <1>0, <1>2, <1>5, <2>1 DEF Committed
  <2>2. CASE log[s][i].by # w
    BY <1>0, <1>2, <1>3, <1>5, <2>2 DEF Committed
  <2> QED BY <2>1, <2>2
<1>7. /\ \A s \in Keys : s # t => Told(s)' = Told(s)
      /\ Told(t)' = Told(t) \cup {n}
  BY <1>2, <1>6 DEF Told
<1>8. ASSUME NEW s \in Keys, NEW i \in Told(s)'
      PROVE  i \in DOMAIN log[s] /\ \A v : Missed(s, i, v)' <=> Missed(s, i, v)
  <2>1. i \in DOMAIN log[s]
    BY <1>2, <1>8 DEF Told
  <2>2. log[s][i].deleted => /\ log[s][i].by \in Writers
                             /\ tx'[log[s][i].by].knew = tx[log[s][i].by].knew
    BY <1>2, <1>5, <2>1 DEF EventOK
  <2> QED BY <1>2, <2>1, <2>2 DEF Missed, Knew
<1>9. \A s \in Keys : \A i \in DOMAIN log'[s] : EventOK(s, i)'
  <2> SUFFICES ASSUME NEW s \in Keys, NEW i \in DOMAIN log[s]
               PROVE  EventOK(s, i)'
    BY <1>2
  <2>1. EventOK(s, i) /\ log[s][i].by \in Writers \cup {Earlier}
    BY <1>5
  <2> QED BY <1>0, <1>2, <2>1 DEF EventOK
<1>10. ASSUME NEW v \in Writers
       PROVE  Recorded(v)'
  <2>1. CASE v = w
    BY <1>2, <2>1 DEF Recorded
  <2>2. CASE v # w /\ tx[v].pc = "commit"
    <3>1. PICK i \in DOMAIN log[tx[v].slug] :
              /\ log[tx[v].slug][i].by = v
              /\ tx[v].hit => \A j \in Told(tx[v].slug) : j < i \/ Missed(tx[v].slug, j, v)
      BY <2>2 DEF Logs, Recorded
    <3>2. tx[v].slug \in Keys /\ tx'[v] = tx[v]
      BY <1>2, <2>2 DEF Locks, Open
    \* Both cannot have the key in hand; and w began while v had not committed.
    <3>3. tx[v].hit /\ tx[v].slug = t => Missed(t, n, v)
      <4>1. hit => lock[t] = w
        BY <1>0, <1>1 DEF Locks, Wrote
      <4>2. tx[v].hit => lock[tx[v].slug] = v
        BY <2>2 DEF Locks, Wrote
      <4>3. tx[v].hit /\ tx[v].slug = t => log[t][n].deleted
        BY <1>4, <2>2, <4>1, <4>2
      <4>4. ~Knew(w, v)
        BY <2>2, NamesAssumption DEF Unaware, Knew
      <4> QED BY <1>3, <4>3, <4>4 DEF Missed
    <3>4. tx[v].hit => \A j \in Told(tx[v].slug)' : j < i \/ Missed(tx[v].slug, j, v)'
      BY <1>7, <1>8, <3>1, <3>2, <3>3
    <3> QED BY <1>2, <3>1, <3>2, <3>4 DEF Recorded, Missed, Knew, Told
  <2>3. CASE v # w /\ tx[v].pc # "commit"
    BY <1>2, <2>3 DEF Recorded
  <2> QED BY <2>1, <2>2, <2>3
<1>11. ASSUME NEW s \in Keys
       PROVE  Explained(s)'
  <2>1. meta'[s] = IF s = t THEN Written(w) ELSE meta[s]
    BY <1>1 DEF Commits, TypeOK
  <2>2. Explained(s)
    BY DEF LogExplainsMetadata
  <2>3. CASE s # t
    <3>1. SameTold(s) /\ meta'[s] = meta[s]
      BY <1>2, <1>7, <1>8, <2>1, <2>3 DEF SameTold
    <3> QED BY <2>2, <3>1, ExplainedStays
  <2>4. CASE s = t /\ ~hit
    <3>1. meta'[s] = meta[s] /\ log[s][n].deleted
      BY <1>1, <1>4, <2>1, <2>4 DEF Commits
    <3>2. CASE meta[s] = NoMeta
      BY <1>2, <1>7, <2>2, <2>4, <3>1, <3>2 DEF Explained
    <3>3. CASE meta[s] # NoMeta
      <4>1. PICK i \in Told(s) :
                /\ ~log[s][i].deleted /\ log[s][i].by = meta[s].by
                /\ \A j \in Told(s) : j <= i \/ Missed(s, j, meta[s].by)
        BY <2>2, <3>3 DEF Explained
      <4>2. Missed(s, n, meta[s].by)
        <5>1. Misses(w) /\ tx[w].slug = s
          BY <1>0, <1>1, <2>4, <3>3 DEF Misses, Open
        <5>2. ~Knew(w, meta[s].by)
          BY <5>1 DEF Unaware
        <5> QED BY <1>3, <2>4, <3>1, <5>2 DEF Missed
      <4>3. PICK by : by = meta[s].by
        OBVIOUS
      <4>4. \A j \in Told(s)' : j <= i \/ Missed(s, j, by)
        BY <1>7, <2>4, <4>1, <4>2, <4>3
      <4>5. \A j \in Told(s)' : j <= i \/ Missed(s, j, by)'
        BY <1>8, <4>4
      <4>6. i \in Told(s)' /\ ~log[s][i].deleted /\ log[s][i].by = by
        BY <1>7, <2>4, <4>1, <4>3
      <4> QED BY <1>2, <3>1, <3>3, <4>3, <4>5, <4>6 DEF Explained, Missed, Knew
    <3> QED BY <3>2, <3>3
  <2>5. CASE s = t /\ hit /\ clear
    <3>1. meta'[s] = NoMeta
      BY <1>1, <2>1, <2>5 DEF Commits
    <3>2. ASSUME NEW i \in Told(s)', n <= i
          PROVE  log[s][i].deleted
      <4>1. i \in Nat /\ n \in Nat
        BY <1>5, <1>8, <3>2
      <4>2. CASE i = n
        BY <1>4, <2>5, <4>2
      <4>3. CASE i # n
        BY <1>3, <1>7, <2>5, <3>2, <4>1, <4>3 DEF Missed
      <4> QED BY <4>2, <4>3
    <3> QED BY <1>2, <1>7, <2>5, <3>1, <3>2 DEF Explained
  <2>6. CASE s = t /\ hit /\ ~clear
    <3>1. meta'[s] # NoMeta /\ meta'[s].by = w
      BY <1>1, <2>1, <2>6 DEF Commits
    <3>2. \A j \in Told(s)' : j <= n \/ Missed(s, j, w)'
      <4>1. \A j \in Told(s)' : j \in Nat /\ n \in Nat
        BY <1>5, <1>8
      <4>2. \A j \in Told(s)' : j = n \/ j < n \/ Missed(s, j, w)
        BY <1>3, <1>7, <2>6
      <4> QED BY <1>8, <4>1, <4>2
    <3>3. n \in Told(s)' /\ ~log[s][n].deleted /\ log[s][n].by = w
      BY <1>3, <1>4, <1>7, <2>6
    <3> QED BY <1>2, <3>1, <3>2, <3>3 DEF Explained, Missed, Knew
  <2> QED BY <2>3, <2>4, <2>5, <2>6
<1>12. LogExplainsMetadata'
  BY <1>11 DEF LogExplainsMetadata
<1> QED BY <1>9, <1>10, <1>12 DEF Logs

LEMMA LogsStep ==
    ASSUME SeoInv, [Next]_vars
    PROVE  Logs' /\ LogExplainsMetadata'
<1>1. TypeOK /\ Locks /\ Logs /\ Unaware /\ LogExplainsMetadata
  BY DEF SeoInv
<1>2. CASE \E ss \in SUBSET Slugs : Moves(ss)
  <2>1. PICK ss \in SUBSET Slugs : Moves(ss)
    BY <1>2
  <2>2. \A w \in Writers : /\ tx'[w].pc = tx[w].pc /\ tx'[w].slug = tx[w].slug
                           /\ tx'[w].kind = tx[w].kind /\ tx'[w].hit = tx[w].hit
                           /\ tx'[w].knew = tx[w].knew
    BY <1>1, <2>1, MovedAre
  <2>3. log' = log /\ meta' = meta
    BY <2>1 DEF Moves, ChangeHands
  <2> QED BY <1>1, <2>2, <2>3, LogStays
<1>3. CASE \E w \in Writers : TxStep(w)
  <2>1. PICK w \in Writers : TxStep(w)
    BY <1>3
  <2>2. CASE Records(w)
    BY <1>1, <2>1, <2>2, LogGrows
  <2>3. CASE Begins(w) \/ Waits(w) \/ Writes(w) \/ Fails(w)
    <3>1. log' = log /\ meta' = meta /\ \A v \in Writers : v # w => tx'[v] = tx[v]
      BY <2>1, <2>3 DEF TxStep, Begins, Waits, Writes, Fails
    <3>2. \/ /\ tx[w].pc \notin {"commit", "done", "failed"}
             /\ tx'[w].pc \notin {"commit", "done"}
          \/ tx[w].pc = "commit" /\ tx'[w].pc = "failed"
      BY <2>3 DEF Begins, Waits, Writes, Fails, Open
    <3> QED BY <1>1, <3>1, <3>2, LogStays
  <2> QED BY <2>1, <2>2, <2>3 DEF TxStep
<1>4. CASE \E w \in Writers : Commit(w) /\ Commits(w)
  BY <1>1, <1>4, LogTells
<1>5. CASE \/ \E p \in Pages : PageStep(p)
           \/ Still
  <2>1. log' = log /\ meta' = meta /\ tx' = tx
    BY <1>5 DEF PageStep, Still
  <2> QED BY <1>1, <2>1, LogStays
<1> QED BY <1>2, <1>3, <1>4, <1>5, StepIs

LEMMA StepInv == SeoInv /\ [Next]_vars => SeoInv'
<1> SUFFICES ASSUME SeoInv, [Next]_vars PROVE SeoInv'
  OBVIOUS
<1> QED BY TypeStep, UniqueStep, LocksStep, RightfulStep, PagesStep, UnawareStep, LogsStep DEF SeoInv

\* Whatever requests and changes of hands there are, the slugs' words, locks, events
\* and pages fit together.
THEOREM MetadataConsistent == Spec => []SeoInv
BY InitInv, StepInv, PTL DEF Spec

\* While there is a title for its slug a page has a title of its slug, not the
\* template, whatever is written meanwhile (resolveMetadata).
THEOREM OverridesPreferred == Spec => []OverridePreferred
<1>1. SeoInv => OverridePreferred
  BY DEF SeoInv, PagesOK, PageOK, OverridePreferred, ShowsTemplate
<1> QED BY <1>1, MetadataConsistent, PTL

\* A page has the words written for another row only where its slug changed hands.
THEOREM WordsAreOwn == Spec => []OwnWords
<1>1. SeoInv => OwnWords
  BY DEF SeoInv, PagesOK, PageOK, OwnWords
<1> QED BY <1>1, MetadataConsistent, PTL

\* What is committed under a key, a slug's words or the template, agrees with the log
\* (updateMetadata, updateTemplate, record).  If there are no words the key's last
\* event, if it has any, is a `deleted`; if there are, they are those of its last
\* `updated`, and each `deleted` after that is of a transaction that began before they
\* were committed.  A `deleted` at the end may be either.
THEOREM LogExplainsWords == Spec => []LogExplainsMetadata
<1>1. SeoInv => LogExplainsMetadata
  BY DEF SeoInv
<1> QED BY <1>1, MetadataConsistent, PTL
=============================================================================
