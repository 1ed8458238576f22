-------------------------- MODULE ImageStore_proofs --------------------------
(***************************************************************************)
(* Links lead to objects, and to the right ones, for any number of         *)
(* requests, rows and keys.                                                *)
(*                                                                         *)
(* All that matters about one image of one request is in ImageOK: how far  *)
(* it is, and what its key holds.  A step that is not the image's own      *)
(* changes what the key holds only if it makes the key one that others     *)
(* worked on (OthersKept); that nobody else is at work on a key without being *)
(* on record as a rival is the invariant Rivals.                           *)
(***************************************************************************)
EXTENDS ImageStore, TLAPS

\* An object is there, or was taken away by an administrator.
Had(k) == store[k] # Nothing \/ k \in deleted

\* The image <<q, f>> = mine of a request of this kind: obj is what its key
\* holds, had whether there is something or it was deleted, rival whether others
\* worked on the key, and before what was there when an import began.
ImageOK(kind, stage, obj, had, rival, blind, before, mine) ==
    /\ kind \in {"update", "import"}
    /\ stage = "ok" => had
    /\ kind = "update" => stage \in {"put", "ok", "failed", "adrift"}
    /\ kind = "update" /\ stage = "ok" /\ ~rival => obj = mine
    /\ kind = "import" /\ ~blind /\ ~rival =>
          /\ obj = before \/ (before = Nothing /\ obj = mine)
          /\ stage \in {"get", "put", "adrift"} => before = Nothing

Image(q, f) ==
    LET k == req[q].key[f] IN
    /\ k \in Keys \ PlainKeys
    /\ ImageOK(req[q].kind, req[q].part[f], store[k], Had(k), k \in past[q].rivals,
               f \in past[q].blind, past[q].before[f], <<q, f>>)

Images == \A q \in Requests : \A f \in DOMAIN req[q].key : Image(q, f)

\* The image may yet be put.
Busy(q, f) == Pending(q, f) \/ Adrift(q, f)

\* Who is at work on a key that another request has, or has for another image, is
\* that request's rival.
Rivals ==
    \A q, p \in Requests : \A f \in DOMAIN req[q].key, g \in DOMAIN req[p].key :
        req[q].key[f] = req[p].key[g] =>
            \/ req[q].key[f] \in past[q].rivals
            \/ q = p /\ f = g
            \/ q # p /\ ~Busy(p, g)

\* A request has its links saved when all its images are there.
Ready ==
    \A q \in Requests :
        /\ req[q].pc \in {"images", "save"} => req[q].row \in Rows
        /\ req[q].pc \in {"save", "done"} =>
              \A f \in DOMAIN req[q].key : req[q].part[f] = "ok"

\* Links lead somewhere, in the rows and in the bodies yet to be saved.
LinksHad ==
    /\ \A r \in Rows, f \in Fields : link[r][f] # Elsewhere => Had(link[r][f].key)
    /\ \A q \in Requests : \A f \in DOMAIN req[q].body :
          req[q].body[f] # Elsewhere => Had(req[q].body[f].key)

StoreInv == TypeOK /\ Images /\ Rivals /\ Ready /\ LinksHad
-----------------------------------------------------------------------------
\* What a request has per image is a function on some of the fields.
LEMMA PerImageIs ==
    ASSUME NEW S, NEW x \in PerImage(S)
    PROVE  DOMAIN x \subseteq Fields /\ x \in [DOMAIN x -> S]
BY DEF PerImage

LEMMA IsPerImage ==
    ASSUME NEW S, NEW fs \in SUBSET Fields, NEW x \in [fs -> S]
    PROVE  x \in PerImage(S)
BY DEF PerImage

LEMMA NonePerImage ==
    ASSUME NEW S
    PROVE  <<>> \in PerImage(S) /\ DOMAIN <<>> = {}
<1>1. <<>> \in [{} -> S] /\ DOMAIN <<>> = {}
  OBVIOUS
<1> QED BY <1>1, IsPerImage

\* What the parts of an image's state are.
LEMMA ImageTyped ==
    ASSUME TypeOK, NEW q \in Requests
    PROVE  /\ req[q] \in Request /\ DOMAIN req[q].part = DOMAIN req[q].key
           /\ DOMAIN req[q].key \subseteq Fields
           /\ \A f \in DOMAIN req[q].key :
                 /\ req[q].key[f] \in Keys
                 /\ req[q].part[f] \in {"head", "get", "put", "ok", "failed", "adrift"}
           /\ past[q].rivals \subseteq Keys
           /\ DOMAIN req[q].body \subseteq Fields
           /\ \A f \in DOMAIN req[q].body : req[q].body[f] \in Links
<1>1. req[q] \in Request /\ DOMAIN req[q].part = DOMAIN req[q].key /\ past[q].rivals \subseteq Keys
  BY DEF TypeOK
<1>2. /\ req[q].key \in PerImage(Keys)
      /\ req[q].part \in PerImage({"head", "get", "put", "ok", "failed", "adrift"})
      /\ req[q].body \in PerImage(Links)
  BY <1>1 DEF Request
<1> QED BY <1>1, <1>2, PerImageIs

\* The request of one image gets an answer, and nothing else of it changes but that
\* its body is forgotten when it fails.
Answered(q, f, new) ==
    /\ f \in DOMAIN req[q].key /\ req[q].part[f] \in {"head", "get", "put", "adrift"}
    /\ \A p \in Requests : p # q => req'[p] = req[p]
    /\ req' \in [Requests -> Request]
    /\ req'[q].kind = req[q].kind /\ req'[q].row = req[q].row /\ req'[q].key = req[q].key
    /\ req'[q].body \in {req[q].body, <<>>}
    /\ req'[q].part = [req[q].part EXCEPT ![f] = new]
    /\ \/ req'[q].pc = req[q].pc
       \/ req'[q].pc = "failed"
       \/ /\ req'[q].pc = "save" /\ req[q].pc = "images" /\ new = "ok"
          /\ \A g \in DOMAIN req[q].key : g # f => req[q].part[g] = "ok"

LEMMA AnsweredIs ==
    ASSUME TypeOK, NEW q \in Requests, NEW f \in Fields, Busy(q, f),
           NEW new \in {"head", "get", "put", "ok", "failed", "adrift"},
           \/ GoOn(q, f, new)
           \/ new = "ok" /\ Settled(q, f)
           \/ new \in {"failed", "adrift"} /\ Thrown(q, f, new)
    PROVE  Answered(q, f, new)
<1>1. PICK old \in Request : old = req[q]
  BY ImageTyped
<1> DEFINE part == [old.part EXCEPT ![f] = new]
           pc == req'[q].pc
<1>2. /\ f \in DOMAIN req[q].key /\ req[q].part[f] \in {"head", "get", "put", "adrift"}
      /\ DOMAIN old.part = DOMAIN old.key
  BY <1>1, ImageTyped DEF Busy, Pending, Adrift
<1>3. part \in PerImage({"head", "get", "put", "ok", "failed", "adrift"})
  <2>1. old.part \in PerImage({"head", "get", "put", "ok", "failed", "adrift"})
    BY DEF Request
  <2>2. part \in [DOMAIN old.part -> {"head", "get", "put", "ok", "failed", "adrift"}]
    BY <2>1, PerImageIs
  <2> QED BY <2>1, <2>2, PerImageIs, IsPerImage
<1>4. PICK now \in {"idle", "images", "save", "done", "failed"}, body \in {old.body, <<>>} :
          /\ req' = [req EXCEPT ![q] = [old EXCEPT !.part = part, !.pc = now, !.body = body]]
          /\ \/ now = old.pc
             \/ now = "failed"
             \/ /\ now = "save" /\ old.pc = "images" /\ new = "ok"
                /\ \A g \in DOMAIN old.key : g # f => old.part[g] = "ok"
  <2>1. req \in [Requests -> Request] /\ old.pc \in {"idle", "images", "save", "done", "failed"}
    BY DEF TypeOK, Request
  <2>2. CASE GoOn(q, f, new)
    <3>1. req' = [req EXCEPT ![q] = [old EXCEPT !.part = part, !.pc = old.pc, !.body = old.body]]
      BY <1>1, <2>1, <2>2 DEF GoOn, Request
    <3> QED BY <2>1, <3>1
  <2>3. CASE new = "ok" /\ Settled(q, f)
    <3> DEFINE now == IF old.pc = "images" /\ \A g \in DOMAIN old.part \ {f} : old.part[g] = "ok"
                      THEN "save" ELSE old.pc
    <3>1. req' = [req EXCEPT ![q] = [old EXCEPT !.part = part, !.pc = now, !.body = old.body]]
      BY <1>1, <2>1, <2>3 DEF Settled, Request
    <3> QED BY <1>2, <2>1, <2>3, <3>1
  <2>4. CASE new \in {"failed", "adrift"} /\ Thrown(q, f, new)
    <3> DEFINE now == IF old.pc = "images" THEN "failed" ELSE old.pc
    <3>1. req' = [req EXCEPT ![q] = [old EXCEPT !.part = part, !.pc = now, !.body = <<>>]]
      BY <1>1, <2>1, <2>4 DEF Thrown, Request
    <3> QED BY <2>1, <3>1
  <2> QED BY <2>2, <2>3, <2>4
<1> HIDE DEF part
<1> DEFINE next == [old EXCEPT !.part = part, !.pc = now, !.body = body]
<1>5. /\ next \in Request
      /\ next.kind = old.kind /\ next.row = old.row /\ next.key = old.key
      /\ next.body = body /\ next.part = part /\ next.pc = now
  <2>1. body \in PerImage(Links)
    BY NonePerImage DEF Request
  <2> QED BY <1>3, <2>1 DEF Request
<1> HIDE DEF next
<1>6. /\ req'[q] = next /\ req' \in [Requests -> Request]
      /\ \A p \in Requests : p # q => req'[p] = req[p]
  BY <1>4, <1>5 DEF TypeOK, next
<1>7. \/ req'[q].pc = old.pc
      \/ req'[q].pc = "failed"
      \/ /\ req'[q].pc = "save" /\ old.pc = "images" /\ new = "ok"
         /\ \A g \in DOMAIN old.key : g # f => old.part[g] = "ok"
  BY <1>4, <1>5, <1>6
<1> QED BY <1>1, <1>2, <1>5, <1>6, <1>7 DEF Answered, part

\* A step of one image: what it finds of its key, or the object it puts.
ImageStep(q, f, new) ==
    /\ Answered(q, f, new)
    /\ rows' = rows /\ link' = link
    /\ \A p \in Requests : past'[p].rivals = past[p].rivals /\ past'[p].before = past[p].before
    /\ \A p \in Requests, g \in Fields :
          (g \in past'[p].blind <=> g \in past[p].blind) \/ (p = q /\ g = f /\ g \in past'[p].blind)
    /\ past' \in [Requests -> [rivals : SUBSET Keys, blind : SUBSET Fields,
                               before : PerImage(Objects \cup {Nothing})]]
    /\ \/ /\ store' = store /\ deleted' = deleted
          /\ \/ new = "ok" /\ req[q].part[f] = "head" /\ store[req[q].key[f]] # Nothing
             \/ new = "get" /\ req[q].part[f] = "head"
                /\ (store[req[q].key[f]] = Nothing \/ f \in past'[q].blind)
             \/ new = "put" /\ req[q].part[f] = "get"
             \/ new = "adrift" /\ req[q].part[f] = "put"
             \/ new = "failed"
       \/ Stored(q, f) /\ req[q].part[f] \in {"put", "adrift"} /\ new \in {"ok", "failed"}

LEMMA ImageSteps ==
    ASSUME TypeOK, NEW q \in Requests, NEW f \in Fields,
           Head(q, f) \/ HeadFails(q, f) \/ Download(q, f) \/ Put(q, f) \/ PutFails(q, f) \/ Land(q, f)
    PROVE  \E new \in {"head", "get", "put", "ok", "failed", "adrift"} : ImageStep(q, f, new)
<1> DEFINE Stages == {"head", "get", "put", "ok", "failed", "adrift"}
           Past == [rivals : SUBSET Keys, blind : SUBSET Fields,
                    before : PerImage(Objects \cup {Nothing})]
<1>1. past \in [Requests -> Past]
  BY DEF TypeOK
<1>2. ASSUME UNCHANGED past
      PROVE  /\ past' \in [Requests -> Past]
             /\ \A p \in Requests : past'[p].rivals = past[p].rivals /\ past'[p].before = past[p].before
             /\ \A p \in Requests, g \in Fields : g \in past'[p].blind <=> g \in past[p].blind
  BY <1>1, <1>2
<1>3. CASE Head(q, f)
  <2>1. CASE store[req[q].key[f]] # Nothing
    <3>1. Answered(q, f, "ok")
      BY <1>3, <2>1, AnsweredIs DEF Head, Busy
    <3>2. ImageStep(q, f, "ok")
      BY <1>2, <1>3, <2>1, <3>1 DEF Head, ImageStep
    <3> QED BY <3>2
  <2>2. CASE store[req[q].key[f]] = Nothing
    <3>1. Answered(q, f, "get")
      BY <1>3, <2>2, AnsweredIs DEF Head, Busy
    <3>2. ImageStep(q, f, "get")
      BY <1>2, <1>3, <2>2, <3>1 DEF Head, ImageStep
    <3> QED BY <3>2
  <2> QED BY <2>1, <2>2
<1>4. CASE HeadFails(q, f)
  <2>1. Answered(q, f, "get")
    BY <1>4, AnsweredIs DEF HeadFails, Busy
  <2>2. PICK old \in Past : old = past[q]
    BY <1>1
  <2> DEFINE now == [old EXCEPT !.blind = @ \cup {f}]
  <2>3. now \in Past /\ now.rivals = old.rivals /\ now.before = old.before /\ now.blind = old.blind \cup {f}
    OBVIOUS
  <2>4. past' = [past EXCEPT ![q] = now]
    BY <1>4, <2>2 DEF HeadFails
  <2> HIDE DEF now
  <2>5. /\ past' \in [Requests -> Past] /\ past'[q] = now
        /\ \A p \in Requests : p # q => past'[p] = past[p]
    BY <1>1, <2>3, <2>4
  <2>6. /\ \A p \in Requests : past'[p].rivals = past[p].rivals /\ past'[p].before = past[p].before
        /\ \A p \in Requests, g \in Fields :
              (g \in past'[p].blind <=> g \in past[p].blind) \/ (p = q /\ g = f /\ g \in past'[p].blind)
        /\ f \in past'[q].blind
    BY <2>2, <2>3, <2>5
  <2>7. ImageStep(q, f, "get")
    BY <1>4, <2>1, <2>5, <2>6 DEF HeadFails, ImageStep
  <2> QED BY <2>7
<1>5. CASE Download(q, f)
  <2>1. PICK new \in {"put", "failed"} : Answered(q, f, new)
    BY <1>5, AnsweredIs DEF Download, Busy
  <2>2. ImageStep(q, f, new)
    BY <1>2, <1>5, <2>1 DEF Download, ImageStep
  <2> QED BY <2>2
<1>6. CASE Put(q, f)
  <2>1. Answered(q, f, "ok")
    BY <1>6, AnsweredIs DEF Put, Busy
  <2>2. ImageStep(q, f, "ok")
    BY <1>2, <1>6, <2>1 DEF Put, ImageStep
  <2> QED BY <2>2
<1>7. CASE PutFails(q, f)
  <2>1. PICK new \in {"failed", "adrift"} : Answered(q, f, new)
    BY <1>7, AnsweredIs DEF PutFails, Busy
  <2>2. ImageStep(q, f, new)
    BY <1>2, <1>7, <2>1 DEF PutFails, ImageStep
  <2> QED BY <2>2
<1>8. CASE Land(q, f)
  <2>1. Answered(q, f, "failed")
    BY <1>8, AnsweredIs DEF Land, Busy
  <2>2. ImageStep(q, f, "failed")
    BY <1>2, <1>8, <2>1 DEF Land, Adrift, ImageStep
  <2> QED BY <2>2
<1> QED BY <1>3, <1>4, <1>5, <1>6, <1>7, <1>8

\* What was had once is had for good: only DeleteFile takes an object away, and
\* that is remembered.
LEMMA StoredHas ==
    ASSUME TypeOK, NEW q \in Requests, NEW f \in DOMAIN req[q].key, Stored(q, f)
    PROVE  /\ store' \in [Keys -> Objects \cup {Nothing}] /\ deleted' \subseteq Keys
           /\ store'[req[q].key[f]] = <<q, f>> /\ <<q, f>> # Nothing
           /\ \A k \in Keys : k # req[q].key[f] => store'[k] = store[k]
           /\ \A k \in Keys : Had(k) => Had(k)'
<1>1. req[q].key[f] \in Keys /\ f \in Fields
  BY ImageTyped
<1>2. <<q, f>> \in Objects /\ <<q, f>> # Nothing
  BY <1>1, NothingAssumption DEF Objects
<1>3. store \in [Keys -> Objects \cup {Nothing}] /\ deleted \subseteq Keys
  BY DEF TypeOK
<1>4. /\ store' \in [Keys -> Objects \cup {Nothing}] /\ deleted' \subseteq Keys
      /\ store'[req[q].key[f]] = <<q, f>>
      /\ \A k \in Keys : k # req[q].key[f] => store'[k] = store[k]
  BY <1>1, <1>2, <1>3 DEF Stored
<1>5. ASSUME NEW k \in Keys, Had(k) PROVE Had(k)'
  BY <1>2, <1>4, <1>5 DEF Had, Stored
<1> QED BY <1>2, <1>4, <1>5

LEMMA HadStays ==
    ASSUME TypeOK, [Next]_vars, NEW k \in Keys, Had(k)
    PROVE  Had(k)'
<1>1. CASE UNCHANGED <<store, deleted>>
  BY <1>1 DEF Had
<1>2. ASSUME NEW q \in Requests, NEW f \in Fields,
             Head(q, f) \/ HeadFails(q, f) \/ Download(q, f) \/ Put(q, f) \/ PutFails(q, f) \/ Land(q, f)
      PROVE  Had(k)'
  <2>1. PICK new : ImageStep(q, f, new)
    BY <1>2, ImageSteps
  <2>2. CASE Stored(q, f)
    BY <2>1, <2>2, StoredHas DEF ImageStep, Answered
  <2> QED BY <1>1, <2>1, <2>2 DEF ImageStep
<1>3. ASSUME NEW l \in PlainKeys, UploadFile(l) PROVE Had(k)'
  <2>1. l \in Keys /\ PlainFile # Nothing
    BY NothingAssumption DEF Keys, Objects
  <2>2. store' = [store EXCEPT ![l] = PlainFile] /\ deleted' = deleted \ {l}
    BY <1>3 DEF UploadFile
  <2> QED BY <2>1, <2>2 DEF Had, TypeOK
<1>4. ASSUME NEW l \in Keys, DeleteFile(l) PROVE Had(k)'
  <2>1. store' = [store EXCEPT ![l] = Nothing] /\ deleted' = deleted \cup {l}
    BY <1>4 DEF DeleteFile
  <2> QED BY <2>1 DEF Had, TypeOK
<1>5. ASSUME NEW q \in Requests, NEW r \in Rows, AskUpdate(q, r) \/ AskImport(q, r)
      PROVE  UNCHANGED <<store, deleted>>
  BY <1>5 DEF AskUpdate, AskImport, Begin
<1>6. ASSUME NEW q \in Requests, Save(q) \/ SaveFails(q) PROVE UNCHANGED <<store, deleted>>
  BY <1>6 DEF Save, SaveFails
<1>7. ASSUME NEW r \in Rows, DeleteRow(r) PROVE UNCHANGED <<store, deleted>>
  BY <1>7 DEF DeleteRow
<1>8. ASSUME NEW r \in Rows, CreateRow(r) PROVE UNCHANGED <<store, deleted>>
  BY <1>8 DEF CreateRow
<1>9. Crash => UNCHANGED <<store, deleted>>
  BY DEF Crash
<1> QED BY <1>1, <1>2, <1>3, <1>4, <1>5, <1>6, <1>7, <1>8, <1>9 DEF Next, vars
-----------------------------------------------------------------------------
\* An image that a step does not move.
LEMMA OthersKept ==
    ASSUME Images, NEW p \in Requests, NEW g \in DOMAIN req[p].key,
           req'[p].kind = req[p].kind, req'[p].key = req[p].key,
           req'[p].part[g] = req[p].part[g],
           past'[p].before = past[p].before, past[p].rivals \subseteq past'[p].rivals,
           g \in past'[p].blind <=> g \in past[p].blind,
           \A k \in Keys : Had(k) => Had(k)',
           \/ store'[req[p].key[g]] = store[req[p].key[g]]
           \/ req[p].key[g] \in past'[p].rivals
    PROVE  Image(p, g)'
<1>1. PICK k : k = req[p].key[g]
  OBVIOUS
<1>2. /\ k \in Keys \ PlainKeys
      /\ ImageOK(req[p].kind, req[p].part[g], store[k], Had(k), k \in past[p].rivals,
                 g \in past[p].blind, past[p].before[g], <<p, g>>)
  BY <1>1 DEF Images, Image
<1>3. (Had(k) => Had(k)') /\ (store'[k] = store[k] \/ k \in past'[p].rivals)
  BY <1>1, <1>2
<1>4. ImageOK(req'[p].kind, req'[p].part[g], store'[k], Had(k)', k \in past'[p].rivals,
              g \in past'[p].blind, past'[p].before[g], <<p, g>>)
  BY <1>1, <1>2, <1>3 DEF ImageOK
<1> QED BY <1>1, <1>2, <1>4 DEF Image

\* Keys stay with their requests, rivals are only added, and nothing starts.
LEMMA RivalsKept ==
    ASSUME Rivals,
           \A p \in Requests : req'[p].key = req[p].key /\ past[p].rivals \subseteq past'[p].rivals,
           \A p \in Requests : \A g \in DOMAIN req[p].key : Busy(p, g)' => Busy(p, g)
    PROVE  Rivals'
BY DEF Rivals

\* What was had stays had, so links that nobody writes stay good.
LEMMA LinksStay ==
    ASSUME TypeOK, LinksHad, link' = link, \A k \in Keys : Had(k) => Had(k)',
           \A q \in Requests : req'[q].body \in {req[q].body, <<>>}
    PROVE  LinksHad'
<1>1. ASSUME NEW r \in Rows, NEW f \in Fields, link[r][f] # Elsewhere
      PROVE  Had(link[r][f].key)'
  <2>1. PICK k \in Keys : k = link[r][f].key
    BY <1>1 DEF TypeOK, Links
  <2>2. Had(k)'
    BY <1>1, <2>1 DEF LinksHad
  <2> QED BY <2>1, <2>2 DEF Had
<1>2. ASSUME NEW q \in Requests, NEW f \in DOMAIN req'[q].body, req'[q].body[f] # Elsewhere
      PROVE  Had(req[q].body[f].key)'
  <2>1. req'[q].body = req[q].body
    BY <1>2, NonePerImage
  <2>2. PICK k \in Keys : k = req[q].body[f].key
    BY <1>2, <2>1, ImageTyped DEF Links
  <2>3. Had(k)'
    BY <1>2, <2>1, <2>2 DEF LinksHad
  <2> QED BY <2>1, <2>2, <2>3 DEF Had
<1> QED BY <1>1, <1>2 DEF LinksHad

LEMMA ImageKeeps ==
    ASSUME StoreInv, [Next]_vars, NEW q \in Requests, NEW f \in Fields,
           NEW new \in {"head", "get", "put", "ok", "failed", "adrift"}, ImageStep(q, f, new)
    PROVE  StoreInv'
<1> USE DEF StoreInv
<1>0. PICK k : k = req[q].key[f]
  OBVIOUS
<1>1. /\ f \in DOMAIN req[q].key /\ req[q].part[f] \in {"head", "get", "put", "adrift"}
      /\ DOMAIN req[q].part = DOMAIN req[q].key /\ k \in Keys
      /\ \A p \in Requests : p # q => req'[p] = req[p]
      /\ req' \in [Requests -> Request]
      /\ req'[q].kind = req[q].kind /\ req'[q].row = req[q].row /\ req'[q].key = req[q].key
      /\ req'[q].body \in {req[q].body, <<>>}
      /\ req'[q].part = [req[q].part EXCEPT ![f] = new]
  BY <1>0, ImageTyped DEF ImageStep, Answered
<1>2. /\ req'[q].part[f] = new
      /\ \A g \in DOMAIN req[q].key : g # f => req'[q].part[g] = req[q].part[g]
      /\ DOMAIN req'[q].part = DOMAIN req[q].part
  BY <1>1
<1>3. \A p \in Requests : req'[p].key = req[p].key /\ past'[p].rivals = past[p].rivals
  BY <1>1 DEF ImageStep
<1>4. Busy(q, f)
  BY <1>1 DEF Busy, Pending, Adrift
<1>5. \A p \in Requests : \A g \in DOMAIN req[p].key : Busy(p, g)' => Busy(p, g)
  BY <1>1, <1>2, <1>4 DEF Busy, Pending, Adrift
<1>6. \A l \in Keys : Had(l) => Had(l)'
  BY HadStays
<1>7. TypeOK'
  <2>1. rows' \subseteq Rows /\ link' \in [Rows -> [Fields -> Links]]
    BY DEF ImageStep, TypeOK
  <2>2. store' \in [Keys -> Objects \cup {Nothing}] /\ deleted' \subseteq Keys
    BY <1>1, StoredHas DEF ImageStep, TypeOK
  <2>3. \A p \in Requests : DOMAIN req'[p].part = DOMAIN req'[p].key
    BY <1>1, <1>2 DEF TypeOK
  <2> QED BY <1>1, <2>1, <2>2, <2>3 DEF ImageStep, TypeOK
<1>8. Images'
  <2>1. SUFFICES ASSUME NEW p \in Requests, NEW g \in DOMAIN req[p].key PROVE Image(p, g)'
    BY <1>3 DEF Images
  <2>2. CASE p = q /\ g = f
    <3>1. /\ k \in Keys \ PlainKeys
          /\ ImageOK(req[q].kind, req[q].part[f], store[k], Had(k), k \in past[q].rivals,
                     f \in past[q].blind, past[q].before[f], <<q, f>>)
      BY <1>0, <1>1 DEF Images, Image
    <3> DEFINE OK(stage, obj, had, blind) ==
                  ImageOK(req[q].kind, stage, obj, had, k \in past[q].rivals, blind,
                          past[q].before[f], <<q, f>>)
    <3>2. OK(new, store'[k], Had(k)', f \in past'[q].blind)
      <4>1. /\ f \in past[q].blind => f \in past'[q].blind
            /\ Had(k) => Had(k)'
        BY <1>1, <1>6 DEF ImageStep
      <4>2. CASE Stored(q, f) /\ req[q].part[f] \in {"put", "adrift"} /\ new \in {"ok", "failed"}
        <5>1. store'[k] = <<q, f>> /\ <<q, f>> # Nothing
          BY <1>0, <1>1, <4>2, StoredHas
        <5> QED BY <3>1, <4>1, <4>2, <5>1 DEF ImageOK, Had
      <4>3. CASE store' = store /\ new = "ok" /\ req[q].part[f] = "head" /\ store[k] # Nothing
        BY <1>0, <3>1, <4>1, <4>3 DEF ImageOK, Had
      <4>4. CASE /\ store' = store /\ new = "get" /\ req[q].part[f] = "head"
                 /\ store[k] = Nothing \/ f \in past'[q].blind
        <5>1. <<q, f>> # Nothing
          BY <1>1, NothingAssumption DEF Objects
        <5> QED BY <1>0, <3>1, <4>1, <4>4, <5>1 DEF ImageOK, Had
      <4>5. CASE store' = store /\ new = "put" /\ req[q].part[f] = "get"
        BY <3>1, <4>1, <4>5 DEF ImageOK, Had
      <4>6. CASE store' = store /\ new = "failed"
        BY <3>1, <4>1, <4>6 DEF ImageOK, Had
      <4>7. CASE store' = store /\ new = "adrift" /\ req[q].part[f] = "put"
        BY <3>1, <4>1, <4>7 DEF ImageOK, Had
      <4> QED BY <1>0, <4>2, <4>3, <4>4, <4>5, <4>6, <4>7 DEF ImageStep
    <3>3. past'[q].before = past[q].before
      BY DEF ImageStep
    <3>4. ImageOK(req'[q].kind, req'[q].part[f], store'[k], Had(k)', k \in past'[q].rivals,
                  f \in past'[q].blind, past'[q].before[f], <<q, f>>)
      BY <1>1, <1>2, <1>3, <3>2, <3>3
    <3> QED BY <1>0, <1>1, <2>2, <3>1, <3>4 DEF Image
  <2>3. CASE ~(p = q /\ g = f)
    <3>0. PICK l : l = req[p].key[g]
      OBVIOUS
    <3>1. l \in Keys /\ g \in Fields
      BY <3>0, ImageTyped
    <3>2. store'[l] = store[l] \/ l \in past'[p].rivals
      <4>1. CASE l = k
        <5>1. f \in DOMAIN req[q].key /\ req[p].key[g] = req[q].key[f]
          BY <1>0, <1>1, <3>0, <4>1
        <5>2. req[p].key[g] \in past[p].rivals
          BY <1>4, <2>3, <5>1 DEF Rivals
        <5> QED BY <1>3, <3>0, <5>2
      <4>2. CASE l # k
        BY <1>0, <1>1, <3>1, <4>2, StoredHas DEF ImageStep
      <4> QED BY <4>1, <4>2
    <3>3. /\ req'[p].kind = req[p].kind /\ req'[p].key = req[p].key
          /\ req'[p].part[g] = req[p].part[g]
      BY <1>1, <1>2, <2>3
    <3>4. /\ past'[p].before = past[p].before /\ past[p].rivals \subseteq past'[p].rivals
          /\ g \in past'[p].blind <=> g \in past[p].blind
      BY <2>3, <3>1 DEF ImageStep
    <3> QED BY <1>6, <3>0, <3>2, <3>3, <3>4, OthersKept
  <2> QED BY <2>2, <2>3
<1>9. Rivals'
  BY <1>3, <1>5, RivalsKept
<1>10. Ready'
  <2>1. SUFFICES ASSUME NEW p \in Requests
                 PROVE  /\ req'[p].pc \in {"images", "save"} => req'[p].row \in Rows
                        /\ req'[p].pc \in {"save", "done"} =>
                              \A g \in DOMAIN req'[p].key : req'[p].part[g] = "ok"
    BY DEF Ready
  <2>2. CASE p # q
    BY <1>1, <2>2 DEF Ready
  <2>3. CASE p = q /\ req'[q].pc = req[q].pc
    BY <1>1, <2>3 DEF Ready
  <2>4. CASE p = q /\ req'[q].pc = "failed"
    BY <2>4
  <2>5. CASE /\ p = q /\ req'[q].pc = "save" /\ req[q].pc = "images" /\ new = "ok"
             /\ \A g \in DOMAIN req[q].key : g # f => req[q].part[g] = "ok"
    BY <1>1, <1>2, <2>5 DEF Ready
  <2> QED BY <2>2, <2>3, <2>4, <2>5 DEF ImageStep, Answered
<1>11. LinksHad'
  <2>1. \A p \in Requests : req'[p].body \in {req[p].body, <<>>}
    BY <1>1
  <2> QED BY <1>6, <2>1, LinksStay DEF ImageStep
<1> QED BY <1>7, <1>8, <1>9, <1>10, <1>11
-----------------------------------------------------------------------------
\* What a body has leads somewhere.
LEMMA BodiesHad ==
    ASSUME TypeOK, LinksHad, NEW r \in Rows, NEW fs \in SUBSET Fields, NEW body \in Bodies(r, fs)
    PROVE  /\ body \in PerImage(Links)
           /\ \A f \in DOMAIN body : body[f] # Elsewhere => Had(body[f].key)
<1>1. ASSUME NEW f \in fs
      PROVE  body[f] \in Links /\ (body[f] # Elsewhere => Had(body[f].key))
  <2>1. body[f] \in Offered(r, f) /\ f \in Fields
    BY DEF Bodies
  <2>2. CASE body[f] = link[r][f] \/ body[f] = Elsewhere
    BY <2>1, <2>2 DEF TypeOK, LinksHad, Links
  <2>3. CASE \E k \in PlainKeys : body[f] = [key |-> k, by |-> Nothing] /\ store[k] # Nothing
    BY <2>3 DEF Links, Keys, Had
  <2> QED BY <2>1, <2>2, <2>3 DEF Offered
<1>2. body \in [fs -> UNION {Offered(r, f) : f \in fs}]
  BY DEF Bodies
<1>3. DOMAIN body = fs /\ body \in [fs -> Links]
  BY <1>1, <1>2
<1>4. body \in PerImage(Links)
  BY <1>3, IsPerImage
<1> QED BY <1>1, <1>3, <1>4

\* A request begins, with keys that no file uploaded by itself has, and links
\* that lead somewhere.
Begins(q, kind, r, key, first, body) ==
    /\ <<kind, first>> \in {<<"update", "put">>, <<"import", "head">>}
    /\ Begin(q, kind, r, key, first, body)
    /\ body \in PerImage(Links)
    /\ \A f \in DOMAIN body : body[f] # Elsewhere => Had(body[f].key)

LEMMA Begun ==
    ASSUME TypeOK, LinksHad, NEW q \in Requests, NEW r \in Rows, AskUpdate(q, r) \/ AskImport(q, r)
    PROVE  \E kind, first, body : \E fs \in SUBSET Fields : \E key \in [fs -> Keys \ PlainKeys] :
               Begins(q, kind, r, key, first, body)
<1>1. CASE AskUpdate(q, r)
  <2>1. PICK fs \in SUBSET FieldsOf[r], bs \in SUBSET (FieldsOf[r] \cap BodyFields) :
           \E key \in [fs -> Keys], body \in Bodies(r, bs) :
              /\ \A f \in fs : key[f] \in CustomKeys[r][f]
              /\ Begin(q, "update", r, key, "put", body)
    BY <1>1 DEF AskUpdate
  <2>2. PICK key \in [fs -> Keys], body \in Bodies(r, bs) :
           (\A f \in fs : key[f] \in CustomKeys[r][f]) /\ Begin(q, "update", r, key, "put", body)
    BY <2>1
  <2>3. fs \in SUBSET Fields /\ bs \in SUBSET Fields
    BY KeysAssumption
  <2>4. \A f \in fs : key[f] \in Keys \ PlainKeys
    BY <2>2, <2>3, KeysAssumption
  <2>5. key \in [fs -> Keys \ PlainKeys]
    BY <2>4
  <2>6. /\ body \in PerImage(Links)
        /\ \A f \in DOMAIN body : body[f] # Elsewhere => Had(body[f].key)
    BY <2>2, <2>3, BodiesHad
  <2>7. Begins(q, "update", r, key, "put", body)
    BY <2>2, <2>6 DEF Begins
  <2> QED BY <2>3, <2>5, <2>7
<1>2. CASE AskImport(q, r)
  <2>1. PICK fs \in SUBSET FieldsOf[r] :
           \E key \in [fs -> DoorKeys] : Begin(q, "import", r, key, "head", <<>>)
    BY <1>2 DEF AskImport
  <2>2. PICK key \in [fs -> DoorKeys] : Begin(q, "import", r, key, "head", <<>>)
    BY <2>1
  <2>3. fs \in SUBSET Fields /\ DoorKeys \subseteq Keys \ PlainKeys
    BY KeysAssumption DEF Keys
  <2>4. key \in [fs -> Keys \ PlainKeys]
    BY <2>3
  <2>5. <<>> \in PerImage(Links) /\ DOMAIN <<>> = {}
    BY NonePerImage
  <2>6. Begins(q, "import", r, key, "head", <<>>)
    BY <2>2, <2>5 DEF Begins
  <2> QED BY <2>3, <2>4, <2>6
<1> QED BY <1>1, <1>2

LEMMA BeginKeeps ==
    ASSUME StoreInv, NEW q \in Requests, NEW r \in Rows, NEW kind, NEW first, NEW body,
           NEW fs \in SUBSET Fields, NEW key \in [fs -> Keys \ PlainKeys],
           Begins(q, kind, r, key, first, body)
    PROVE  StoreInv'
<1> USE DEF StoreInv
<1> DEFINE Stages == {"head", "get", "put", "ok", "failed", "adrift"}
           now == [pc |-> IF DOMAIN key = {} THEN "save" ELSE "images",
                   kind |-> kind, row |-> r, key |-> key,
                   part |-> [f \in DOMAIN key |-> first], body |-> body]
           used == {key[f] : f \in DOMAIN key}
           busy == UNION {BusyKeys(p) : p \in Requests \ {q}}
           twice == {k \in used : \E f, g \in DOMAIN key : f # g /\ key[f] = k /\ key[g] = k}
           before == [f \in {g \in DOMAIN key : kind = "import"} |-> store[key[f]]]
           Past == [rivals : SUBSET Keys, blind : SUBSET Fields,
                    before : PerImage(Objects \cup {Nothing})]
<1>1. /\ kind \in {"update", "import"} /\ first \in Stages
      /\ kind = "update" => first = "put"
      /\ kind = "import" => first = "head"
  BY DEF Begins
<1>2. /\ req' = [req EXCEPT ![q] = now]
      /\ past' = [p \in Requests |->
            IF p = q THEN [rivals |-> (used \cap busy) \cup twice, before |-> before, blind |-> {}]
            ELSE [past[p] EXCEPT !.rivals = @ \cup (used \cap UsedKeys(p))]]
      /\ rows' = rows /\ link' = link /\ store' = store /\ deleted' = deleted
  BY DEF Begins, Begin, Remember
<1>3. now \in Request
  <2>1. key \in PerImage(Keys)
    <3>1. key \in [fs -> Keys]
      OBVIOUS
    <3> QED BY <3>1, IsPerImage
  <2>2. [f \in DOMAIN key |-> first] \in PerImage(Stages)
    <3>1. [f \in DOMAIN key |-> first] \in [fs -> Stages]
      BY <1>1
    <3> QED BY <3>1, IsPerImage
  <2>3. body \in PerImage(Links)
    BY DEF Begins
  <2> QED BY <1>1, <2>1, <2>2, <2>3 DEF Request
<1>4. /\ req' \in [Requests -> Request] /\ req'[q] = now
      /\ \A p \in Requests : p # q => req'[p] = req[p]
  BY <1>2, <1>3 DEF TypeOK
<1>5. used \subseteq Keys /\ twice \subseteq Keys
  OBVIOUS
<1>6. before \in PerImage(Objects \cup {Nothing})
  <2>1. before \in [{g \in fs : kind = "import"} -> Objects \cup {Nothing}]
    BY DEF TypeOK
  <2>2. {g \in fs : kind = "import"} \in SUBSET Fields
    OBVIOUS
  <2> HIDE DEF before
  <2> QED BY <2>1, <2>2, IsPerImage
<1> HIDE DEF busy, before
<1>7. [rivals |-> (used \cap busy) \cup twice, before |-> before, blind |-> {}] \in Past
  BY <1>5, <1>6
<1>8. /\ past'[q].rivals = (used \cap busy) \cup twice
      /\ past'[q].before = before /\ past'[q].blind = {}
  BY <1>2
<1>9. ASSUME NEW p \in Requests, p # q
      PROVE  /\ past'[p] \in Past
             /\ past'[p].rivals = past[p].rivals \cup (used \cap UsedKeys(p))
             /\ past'[p].before = past[p].before /\ past'[p].blind = past[p].blind
  <2>1. PICK old \in Past : old = past[p]
    BY DEF TypeOK
  <2>2. past'[p] = [old EXCEPT !.rivals = @ \cup (used \cap UsedKeys(p))]
    BY <1>2, <1>9, <2>1
  <2> QED BY <1>5, <2>1, <2>2
<1> HIDE DEF used, twice
<1>10. past' \in [Requests -> Past]
  <2>1. past'[q] \in Past
    BY <1>2, <1>7
  <2>2. past' = [p \in Requests |-> past'[p]]
    BY <1>2
  <2>3. \A p \in Requests : past'[p] \in Past
    BY <1>9, <2>1
  <2> QED BY <2>2, <2>3
<1>11. TypeOK'
  <2>1. \A p \in Requests : DOMAIN req'[p].part = DOMAIN req'[p].key
    BY <1>4 DEF TypeOK
  <2> QED BY <1>2, <1>4, <1>10, <2>1 DEF TypeOK
<1>12. Images'
  <2>1. ASSUME NEW f \in fs PROVE Image(q, f)'
    <3>1. PICK k \in Keys \ PlainKeys : k = key[f]
      OBVIOUS
    <3>2. kind = "import" => before[f] = store[k]
      BY <3>1 DEF before
    <3>3. ImageOK(kind, first, store'[k], Had(k)', k \in past'[q].rivals, f \in past'[q].blind,
                  past'[q].before[f], <<q, f>>)
      BY <1>1, <1>2, <1>8, <3>2 DEF ImageOK
    <3>4. req'[q].kind = kind /\ req'[q].key[f] = k /\ req'[q].part[f] = first
      BY <1>4, <3>1
    <3> QED BY <3>3, <3>4 DEF Image
  <2>2. ASSUME NEW p \in Requests, p # q, NEW g \in DOMAIN req[p].key PROVE Image(p, g)'
    <3>1. \A k \in Keys : Had(k) => Had(k)'
      BY <1>2 DEF Had
    <3> QED BY <1>2, <1>4, <1>9, <2>2, <3>1, OthersKept
  <2> QED BY <1>4, <2>1, <2>2 DEF Images
<1>13. Rivals'
  <2>1. SUFFICES ASSUME NEW p \in Requests, NEW o \in Requests,
                        NEW f \in DOMAIN req'[p].key, NEW g \in DOMAIN req'[o].key,
                        req'[p].key[f] = req'[o].key[g]
                 PROVE  \/ req'[p].key[f] \in past'[p].rivals
                        \/ p = o /\ f = g
                        \/ p # o /\ ~Busy(o, g)'
    BY DEF Rivals
  <2>2. CASE p = q /\ o = q
    <3>1. f # g => key[f] \in twice
      BY <1>4, <2>1, <2>2 DEF twice, used
    <3> QED BY <1>4, <1>8, <2>2, <3>1
  <2>3. CASE p = q /\ o # q
    <3>1. key[f] \in used /\ f \in DOMAIN key /\ req[o].key[g] = key[f] /\ g \in DOMAIN req[o].key
      BY <1>4, <2>1, <2>3 DEF used
    <3>2. Busy(o, g)' <=> Busy(o, g)
      BY <1>4, <2>3 DEF Busy, Pending, Adrift
    <3>3. Busy(o, g) => key[f] \in busy
      BY <2>3, <3>1 DEF busy, BusyKeys, Busy
    <3> QED BY <1>4, <1>8, <2>3, <3>1, <3>2, <3>3
  <2>4. CASE p # q /\ o = q
    <3>1. req[p].key[f] \in UsedKeys(p) /\ req[p].key[f] \in used
      BY <1>4, <2>1, <2>4 DEF UsedKeys, used
    <3> QED BY <1>4, <1>9, <2>4, <3>1
  <2>5. CASE p # q /\ o # q
    <3>1. Busy(o, g)' <=> Busy(o, g)
      BY <1>4, <2>5 DEF Busy, Pending, Adrift
    <3>2. req'[p] = req[p] /\ req'[o] = req[o] /\ past[p].rivals \subseteq past'[p].rivals
      BY <1>4, <1>9, <2>5
    <3> QED BY <2>1, <3>1, <3>2 DEF Rivals
  <2> QED BY <2>2, <2>3, <2>4, <2>5
<1>14. Ready'
  BY <1>4 DEF Ready
<1>15. LinksHad'
  <2>1. \A f \in DOMAIN body : body[f] # Elsewhere => Had(body[f].key)'
    BY <1>2 DEF Begins, Had
  <2>2. req'[q].body = body /\ \A p \in Requests : p # q => req'[p].body = req[p].body
    BY <1>4
  <2> QED BY <1>2, <2>1, <2>2 DEF LinksHad, Had
<1> QED BY <1>11, <1>12, <1>13, <1>14, <1>15
-----------------------------------------------------------------------------
\* The transaction of a request ends, with its links saved or not.
LEMMA SaveKeeps ==
    ASSUME StoreInv, NEW q \in Requests, Save(q) \/ SaveFails(q)
    PROVE  StoreInv'
<1> USE DEF StoreInv
<1>0. PICK old \in Request : old = req[q]
  BY ImageTyped
<1>1. PICK now \in {"done", "failed"} :
          req' = [req EXCEPT ![q] = [old EXCEPT !.pc = now, !.body = <<>>]]
  BY <1>0 DEF Save, SaveFails
<1> DEFINE next == [old EXCEPT !.pc = now, !.body = <<>>]
<1>2. /\ next \in Request /\ next.pc = now /\ next.body = <<>>
      /\ next.kind = old.kind /\ next.row = old.row /\ next.key = old.key /\ next.part = old.part
  <2>1. <<>> \in PerImage(Links)
    BY NonePerImage DEF Request
  <2> QED BY <2>1 DEF Request
<1> HIDE DEF next
<1>3. /\ req' \in [Requests -> Request] /\ req'[q] = next
      /\ \A p \in Requests : p # q => req'[p] = req[p]
  BY <1>1, <1>2 DEF TypeOK, next
<1>4. /\ \A p \in Requests : /\ req'[p].kind = req[p].kind /\ req'[p].row = req[p].row
                             /\ req'[p].key = req[p].key /\ req'[p].part = req[p].part
                             /\ req'[p].body = <<>> \/ req'[p].body = req[p].body
      /\ req[q].pc = "save" /\ req'[q].pc \in {"done", "failed"}
  BY <1>0, <1>2, <1>3 DEF Save, SaveFails
<1>5. store' = store /\ deleted' = deleted /\ past' = past
  BY DEF Save, SaveFails
<1>6. req[q].row \in Rows /\ \A f \in DOMAIN req[q].key : req[q].part[f] = "ok"
  BY <1>4 DEF Ready
<1>7. /\ rows' \subseteq Rows /\ link' \in [Rows -> [Fields -> Links]]
      /\ \A r \in Rows, f \in Fields :
            \/ link'[r][f] = link[r][f]
            \/ f \in DOMAIN req[q].key /\ link'[r][f].key = req[q].key[f]
            \/ f \in DOMAIN req[q].body /\ link'[r][f] = req[q].body[f]
  <2>1. CASE rows' = rows /\ link' = link
    BY <2>1 DEF TypeOK
  <2>2. CASE rows' = rows \cup {req[q].row} /\ link' = Linked(q)
    <3> DEFINE new == [f \in Fields |-> IF f \in DOMAIN req[q].key THEN LinkOf(q, f)
                                       ELSE IF f \in DOMAIN req[q].body THEN req[q].body[f]
                                       ELSE link[req[q].row][f]]
    <3>1. link' = [link EXCEPT ![req[q].row] = new]
      BY <2>2 DEF Linked
    <3>2. link \in [Rows -> [Fields -> Links]]
      BY DEF TypeOK
    <3>3. /\ \A f \in DOMAIN req[q].key : LinkOf(q, f) \in Links /\ LinkOf(q, f).key = req[q].key[f]
          /\ \A f \in DOMAIN req[q].body : req[q].body[f] \in Links
      BY ImageTyped DEF LinkOf, Links
    <3>4. new \in [Fields -> Links]
      BY <1>6, <3>2, <3>3
    <3>5. link' \in [Rows -> [Fields -> Links]]
      BY <3>1, <3>2, <3>4
    <3>6. ASSUME NEW r \in Rows, NEW f \in Fields
          PROVE  \/ link'[r][f] = link[r][f]
                 \/ f \in DOMAIN req[q].key /\ link'[r][f].key = req[q].key[f]
                 \/ f \in DOMAIN req[q].body /\ link'[r][f] = req[q].body[f]
      <4>1. CASE r = req[q].row
        BY <3>1, <3>2, <3>3, <4>1
      <4>2. CASE r # req[q].row
        BY <3>1, <3>2, <4>2
      <4> QED BY <4>1, <4>2
    <3>7. rows' \subseteq Rows
      BY <1>6, <2>2 DEF TypeOK
    <3> QED BY <3>5, <3>6, <3>7
  <2> QED BY <2>1, <2>2 DEF Save, SaveFails
<1>8. TypeOK'
  BY <1>3, <1>4, <1>5, <1>7 DEF TypeOK
<1>9. Images'
  BY <1>4, <1>5 DEF Images, Image, Had
<1>10. Rivals'
  BY <1>4, <1>5 DEF Rivals, Busy, Pending, Adrift
<1>11. Ready'
  BY <1>3, <1>4, <1>6 DEF Ready
<1>12. LinksHad'
  <2>1. ASSUME NEW r \in Rows, NEW f \in Fields, link'[r][f] # Elsewhere
        PROVE  Had(link[r][f].key)'
    <3>1. CASE link'[r][f] = link[r][f]
      BY <1>5, <2>1, <3>1 DEF LinksHad, Had
    <3>2. CASE f \in DOMAIN req[q].key /\ link'[r][f].key = req[q].key[f]
      <4>1. Had(req[q].key[f])
        BY <1>6, <3>2 DEF Images, Image, ImageOK
      <4> QED BY <1>5, <3>2, <4>1 DEF Had
    <3>3. CASE f \in DOMAIN req[q].body /\ link'[r][f] = req[q].body[f]
      BY <1>5, <2>1, <3>3 DEF LinksHad, Had
    <3> QED BY <1>7, <3>1, <3>2, <3>3
  <2>2. ASSUME NEW p \in Requests, NEW f \in DOMAIN req'[p].body, req'[p].body[f] # Elsewhere
        PROVE  Had(req[p].body[f].key)'
    <3>1. CASE req'[p].body = req[p].body
      BY <1>5, <2>2, <3>1 DEF LinksHad, Had
    <3>2. CASE req'[p].body = <<>>
      BY <2>2, <3>2, NonePerImage
    <3> QED BY <1>4, <3>1, <3>2
  <2> QED BY <2>1, <2>2 DEF LinksHad
<1> QED BY <1>8, <1>9, <1>10, <1>11, <1>12

\* A restart cuts images short; none of them becomes `ok` by it.
LEMMA CrashKeeps ==
    ASSUME StoreInv, Crash
    PROVE  StoreInv'
<1> USE DEF StoreInv
<1> DEFINE Stages == {"head", "get", "put", "ok", "failed", "adrift"}
<1>1. rows' = rows /\ link' = link /\ store' = store /\ deleted' = deleted /\ past' = past
  BY DEF Crash
<1>2. ASSUME NEW q \in Requests
      PROVE  /\ req'[q] \in Request
             /\ req'[q].kind = req[q].kind /\ req'[q].row = req[q].row /\ req'[q].key = req[q].key
             /\ req'[q].body = <<>>
             /\ DOMAIN req'[q].part = DOMAIN req[q].key
             /\ \A f \in DOMAIN req[q].key :
                   req'[q].part[f] = IF req[q].part[f] = "put" THEN "adrift"
                                    ELSE IF Pending(q, f) THEN "failed" ELSE req[q].part[f]
             /\ req'[q].pc = req[q].pc \/ req'[q].pc = "failed"
  <2>1. PICK old \in Request : old = req[q]
    BY ImageTyped
  <2> DEFINE part == [f \in DOMAIN old.part |-> IF old.part[f] = "put" THEN "adrift"
                                                ELSE IF Pending(q, f) THEN "failed" ELSE old.part[f]]
             pc == IF old.pc \in {"images", "save"} THEN "failed" ELSE old.pc
             now == [old EXCEPT !.pc = pc, !.body = <<>>, !.part = part]
  <2>2. DOMAIN old.part = DOMAIN old.key /\ DOMAIN old.part \subseteq Fields
    BY <2>1, ImageTyped
  <2>3. part \in PerImage(Stages)
    <3>1. part \in [DOMAIN old.part -> Stages]
      BY <2>1, ImageTyped
    <3> HIDE DEF part
    <3> QED BY <2>2, <3>1, IsPerImage
  <2>4. req'[q] = now
    BY <2>1 DEF Crash, TypeOK
  <2> HIDE DEF part
  <2>5. /\ now \in Request /\ now.kind = old.kind /\ now.row = old.row /\ now.key = old.key
        /\ now.body = <<>>
    BY <2>3, NonePerImage DEF Request
  <2>6. now.part = part /\ now.pc = pc
    BY DEF Request
  <2>7. part = [f \in DOMAIN old.part |-> IF old.part[f] = "put" THEN "adrift"
                                          ELSE IF Pending(q, f) THEN "failed" ELSE old.part[f]]
    BY DEF part
  <2> HIDE DEF now
  <2> QED BY <2>1, <2>2, <2>4, <2>5, <2>6, <2>7
<1>3. req' \in [Requests -> Request]
  <2>1. req' = [q \in Requests |-> req'[q]]
    BY DEF Crash
  <2> QED BY <1>2, <2>1
<1>4. TypeOK'
  BY <1>1, <1>2, <1>3 DEF TypeOK
<1>5. Images'
  <2>1. SUFFICES ASSUME NEW q \in Requests, NEW f \in DOMAIN req[q].key PROVE Image(q, f)'
    BY <1>2 DEF Images
  <2>2. PICK k : k = req[q].key[f]
    OBVIOUS
  <2>3. /\ k \in Keys \ PlainKeys
        /\ ImageOK(req[q].kind, req[q].part[f], store[k], Had(k), k \in past[q].rivals,
                   f \in past[q].blind, past[q].before[f], <<q, f>>)
    BY <2>2 DEF Images, Image
  <2>4. /\ req'[q].kind = req[q].kind /\ req'[q].key = req[q].key
        /\ \/ req'[q].part[f] \in {req[q].part[f], "failed"}
           \/ req[q].part[f] = "put" /\ req'[q].part[f] = "adrift"
        /\ Had(k)' <=> Had(k)
    BY <1>1, <1>2 DEF Had
  <2>5. ImageOK(req'[q].kind, req'[q].part[f], store'[k], Had(k)', k \in past'[q].rivals,
                f \in past'[q].blind, past'[q].before[f], <<q, f>>)
    BY <1>1, <2>3, <2>4 DEF ImageOK
  <2> QED BY <2>2, <2>3, <2>4, <2>5 DEF Image
<1>6. Rivals'
  <2>1. ASSUME NEW p \in Requests, NEW g \in DOMAIN req[p].key, ~Busy(p, g) PROVE ~Busy(p, g)'
    <3>1. g \in DOMAIN req[p].part /\ req'[p].part[g] = req[p].part[g]
      BY <1>2, <2>1, ImageTyped DEF Busy, Pending
    <3> QED BY <2>1, <3>1 DEF Busy, Pending, Adrift
  <2> QED BY <1>1, <1>2, <2>1, RivalsKept
<1>7. Ready'
  <2>1. SUFFICES ASSUME NEW q \in Requests, req'[q].pc = req[q].pc
                 PROVE  /\ req'[q].pc \in {"images", "save"} => req'[q].row \in Rows
                        /\ req'[q].pc \in {"save", "done"} =>
                              \A f \in DOMAIN req'[q].key : req'[q].part[f] = "ok"
    BY <1>2 DEF Ready
  <2>2. req'[q].pc \in {"save", "done"} =>
           \A f \in DOMAIN req[q].key : ~Pending(q, f) /\ req[q].part[f] = "ok"
    BY <2>1 DEF Ready, Pending
  <2> QED BY <1>2, <2>1, <2>2 DEF Ready
<1>8. LinksHad'
  BY <1>1, <1>2, LinksStay DEF Had
<1> QED BY <1>4, <1>5, <1>6, <1>7, <1>8

\* An administrator changes rows and links, to what is there ...
LEMMA RowsKeep ==
    ASSUME StoreInv, NEW r \in Rows, DeleteRow(r) \/ CreateRow(r)
    PROVE  StoreInv'
<1> USE DEF StoreInv
<1>1. store' = store /\ deleted' = deleted /\ past' = past /\ req' = req
  BY DEF DeleteRow, CreateRow
<1>2. link \in [Rows -> [Fields -> Links]]
  BY DEF TypeOK
<1>3. PICK new \in [Fields -> Links] :
         /\ rows' \subseteq Rows /\ link' = [link EXCEPT ![r] = new]
         /\ \A f \in Fields : new[f] # Elsewhere => Had(new[f].key)
  <2>1. CASE DeleteRow(r)
    <3> DEFINE new == [f \in Fields |-> Elsewhere]
    <3>1. new \in [Fields -> Links]
      BY DEF Links
    <3> QED BY <2>1, <3>1 DEF DeleteRow, TypeOK
  <2>2. CASE CreateRow(r)
    <3>1. PICK fs \in SUBSET (FieldsOf[r] \cap BodyFields) : \E body \in Bodies(r, fs) :
             link' = [link EXCEPT ![r] = [f \in Fields |-> IF f \in fs THEN body[f] ELSE Elsewhere]]
      BY <2>2 DEF CreateRow
    <3>2. PICK body \in Bodies(r, fs) :
             link' = [link EXCEPT ![r] = [f \in Fields |-> IF f \in fs THEN body[f] ELSE Elsewhere]]
      BY <3>1
    <3> DEFINE new == [f \in Fields |-> IF f \in fs THEN body[f] ELSE Elsewhere]
    <3>3. fs \in SUBSET Fields
      BY KeysAssumption
    <3>4. /\ body \in PerImage(Links) /\ DOMAIN body = fs
          /\ \A f \in DOMAIN body : body[f] # Elsewhere => Had(body[f].key)
      BY <3>3, BodiesHad DEF Bodies
    <3>5. \A f \in fs : body[f] \in Links
      BY <3>4, PerImageIs
    <3>6. new \in [Fields -> Links]
      BY <3>5 DEF Links
    <3>7. \A f \in Fields : new[f] # Elsewhere => Had(new[f].key)
      BY <3>4
    <3>8. rows' \subseteq Rows
      BY <2>2 DEF CreateRow, TypeOK
    <3> QED BY <3>2, <3>6, <3>7, <3>8
  <2> QED BY <2>1, <2>2
<1>4. link' \in [Rows -> [Fields -> Links]] /\ \A o \in Rows : link'[o] \in {link[o], new}
  BY <1>2, <1>3
<1>5. TypeOK'
  BY <1>1, <1>3, <1>4 DEF TypeOK
<1>6. Images' /\ Rivals' /\ Ready'
  BY <1>1 DEF Images, Image, Had, Rivals, Busy, Pending, Adrift, Ready
<1>7. LinksHad'
  <2>1. ASSUME NEW o \in Rows, NEW f \in Fields, link'[o][f] # Elsewhere
        PROVE  Had(link[o][f].key)'
    BY <1>1, <1>3, <1>4, <2>1 DEF LinksHad, Had
  <2> QED BY <1>1, <2>1 DEF LinksHad, Had
<1> QED BY <1>5, <1>6, <1>7

\* ... or objects: files of their own, or those that he takes away, which is on
\* record with every request that has their keys.
LEMMA FilesKeep ==
    ASSUME StoreInv, [Next]_vars, NEW k \in Keys,
           \/ k \in PlainKeys /\ UploadFile(k)
           \/ DeleteFile(k)
    PROVE  StoreInv'
<1> USE DEF StoreInv
<1> DEFINE Past == [rivals : SUBSET Keys, blind : SUBSET Fields,
                    before : PerImage(Objects \cup {Nothing})]
<1>1. rows' = rows /\ link' = link /\ req' = req
  BY DEF UploadFile, DeleteFile
<1>2. \A l \in Keys : Had(l) => Had(l)'
  BY HadStays
<1>3. /\ store' \in [Keys -> Objects \cup {Nothing}] /\ deleted' \subseteq Keys
      /\ \A l \in Keys : l # k => store'[l] = store[l]
  BY DEF UploadFile, DeleteFile, TypeOK, Objects
<1>4. /\ past' \in [Requests -> Past]
      /\ \A q \in Requests :
            /\ past'[q].before = past[q].before /\ past'[q].blind = past[q].blind
            /\ past[q].rivals \subseteq past'[q].rivals
            /\ k \in PlainKeys \/ (k \in UsedKeys(q) => k \in past'[q].rivals)
  <2>1. CASE k \in PlainKeys /\ UploadFile(k)
    BY <2>1 DEF UploadFile, TypeOK
  <2>2. CASE DeleteFile(k)
    <3>1. past' = [q \in Requests |-> [past[q] EXCEPT !.rivals = @ \cup (UsedKeys(q) \cap {k})]]
      BY <2>2 DEF DeleteFile
    <3>2. ASSUME NEW q \in Requests
          PROVE  /\ past'[q] \in Past
                 /\ past'[q].before = past[q].before /\ past'[q].blind = past[q].blind
                 /\ past'[q].rivals = past[q].rivals \cup (UsedKeys(q) \cap {k})
      <4>1. PICK old \in Past : old = past[q]
        BY DEF TypeOK
      <4>2. past'[q] = [old EXCEPT !.rivals = @ \cup (UsedKeys(q) \cap {k})]
        BY <3>1, <4>1
      <4> QED BY <4>1, <4>2
    <3>3. past' = [q \in Requests |-> past'[q]]
      BY <3>1
    <3> HIDE DEF Past
    <3>4. past' \in [Requests -> Past]
      BY <3>2, <3>3
    <3> QED BY <3>2, <3>4
  <2> QED BY <2>1, <2>2
<1>5. TypeOK'
  BY <1>1, <1>3, <1>4 DEF TypeOK
<1>6. Images'
  <2>1. SUFFICES ASSUME NEW q \in Requests, NEW f \in DOMAIN req[q].key PROVE Image(q, f)'
    BY <1>1 DEF Images
  <2>2. req[q].key[f] \in Keys \ PlainKeys /\ req[q].key[f] \in UsedKeys(q)
    BY DEF Images, Image, UsedKeys
  <2>3. \/ store'[req[q].key[f]] = store[req[q].key[f]]
        \/ req[q].key[f] \in past'[q].rivals
    BY <1>3, <1>4, <2>2
  <2> QED BY <1>1, <1>2, <1>4, <2>3, OthersKept
<1>7. Rivals'
  BY <1>1, <1>4, RivalsKept DEF Busy, Pending, Adrift
<1>8. Ready'
  BY <1>1 DEF Ready
<1>9. LinksHad'
  BY <1>1, <1>2, LinksStay
<1> QED BY <1>5, <1>6, <1>7, <1>8, <1>9
-----------------------------------------------------------------------------
\* The bucket, the rows and the requests fit together in every state.
THEOREM ImagesConsistent == Spec => []StoreInv
<1>1. Init => StoreInv
  <2> SUFFICES ASSUME Init PROVE StoreInv
    OBVIOUS
  <2>1. /\ \A q \in Requests : req[q] = NoRequest
        /\ req = [q \in Requests |-> NoRequest]
    BY DEF Init
  <2>2. NoRequest \in Request /\ DOMAIN NoRequest.key = {} /\ DOMAIN NoRequest.part = {}
    <3> QED BY NonePerImage DEF NoRequest, Request
  <2>3. past \in [Requests -> [rivals : SUBSET Keys, blind : SUBSET Fields,
                               before : PerImage(Objects \cup {Nothing})]]
    BY NonePerImage DEF Init
  <2>4. TypeOK
    <3>1. rows \subseteq Rows /\ deleted \subseteq Keys
      BY KeysAssumption DEF Init
    <3>2. link \in [Rows -> [Fields -> Links]]
      BY DEF Init, Links
    <3>3. store \in [Keys -> Objects \cup {Nothing}]
      BY DEF Init, Objects
    <3>4. req \in [Requests -> Request] /\ \A q \in Requests : DOMAIN req[q].part = DOMAIN req[q].key
      BY <2>1, <2>2
    <3> QED BY <2>3, <3>1, <3>2, <3>3, <3>4 DEF TypeOK
  <2>5. Images /\ Rivals
    BY <2>1, <2>2 DEF Images, Rivals
  <2>6. Ready /\ LinksHad
    BY <2>1, NonePerImage DEF Ready, LinksHad, Init, NoRequest
  <2> QED BY <2>4, <2>5, <2>6 DEF StoreInv
<1>2. StoreInv /\ [Next]_vars => StoreInv'
  <2> SUFFICES ASSUME StoreInv, [Next]_vars PROVE StoreInv'
    OBVIOUS
  <2>1. CASE UNCHANGED vars
    <3>1. TypeOK' /\ Ready'
      BY <2>1 DEF vars, StoreInv, TypeOK, Ready
    <3>2. Rivals'
      BY <2>1 DEF vars, StoreInv, Rivals, Busy, Pending, Adrift
    <3>3. Images'
      BY <2>1 DEF vars, StoreInv, Images, Image, Had
    <3>4. LinksHad'
      BY <2>1 DEF vars, StoreInv, LinksHad, Had
    <3> QED BY <3>1, <3>2, <3>3, <3>4 DEF StoreInv
  <2>2. ASSUME NEW q \in Requests, NEW r \in Rows, AskUpdate(q, r) \/ AskImport(q, r)
        PROVE  StoreInv'
    BY <2>2, Begun, BeginKeeps DEF StoreInv
  <2>3. ASSUME NEW q \in Requests, NEW f \in Fields,
               Head(q, f) \/ HeadFails(q, f) \/ Download(q, f) \/ Put(q, f) \/ PutFails(q, f) \/ Land(q, f)
        PROVE  StoreInv'
    BY <2>3, ImageSteps, ImageKeeps DEF StoreInv
  <2>4. ASSUME NEW q \in Requests, Save(q) \/ SaveFails(q) PROVE StoreInv'
    BY <2>4, SaveKeeps
  <2>5. ASSUME NEW r \in Rows, DeleteRow(r) \/ CreateRow(r)
        PROVE  StoreInv'
    BY <2>5, RowsKeep
  <2>6. ASSUME NEW k \in PlainKeys, UploadFile(k) PROVE StoreInv'
    BY <2>6, FilesKeep DEF Keys
  <2>7. ASSUME NEW k \in Keys, DeleteFile(k) PROVE StoreInv'
    BY <2>7, FilesKeep
  <2>8. CASE Crash
    BY <2>8, CrashKeeps
  <2> QED BY <2>1, <2>2, <2>3, <2>4, <2>5, <2>6, <2>7, <2>8 DEF Next
<1> QED BY <1>1, <1>2, PTL DEF Spec

\* Whatever failed or was cut short, a row's link leads to an object, or to one
\* that an administrator deleted.
THEOREM LinksResolve == Spec => []LinkResolves
<1>1. StoreInv => LinkResolves
  BY DEF StoreInv, TypeOK, LinksHad, Had, LinkResolves
<1> QED BY <1>1, ImagesConsistent, PTL

\* A link with a version shows its own upload, unless others worked on the key.
THEOREM VersionsShowUploads == Spec => []VersionShowsUpload
<1>1. StoreInv => VersionShowsUpload
  <2> SUFFICES ASSUME StoreInv, NEW q \in Requests, NEW f \in DOMAIN req[q].key,
                      req[q].kind = "update", req[q].pc = "done",
                      req[q].key[f] \notin past[q].rivals
               PROVE  store[req[q].key[f]] = <<q, f>>
    BY DEF VersionShowsUpload
  <2>1. req[q].part[f] = "ok"
    BY DEF StoreInv, Ready
  <2> QED BY <2>1 DEF StoreInv, Images, Image, ImageOK
<1> QED BY <1>1, ImagesConsistent, PTL

\* An import puts an image only where it found none.
THEOREM ImportsReuse == Spec => []ImportReuses
<1>1. StoreInv => ImportReuses
  <2> SUFFICES ASSUME StoreInv, NEW q \in Requests, req[q].kind = "import",
                      NEW f \in DOMAIN req[q].key, f \notin past[q].blind,
                      req[q].key[f] \notin past[q].rivals
               PROVE  \/ store[req[q].key[f]] = past[q].before[f]
                      \/ past[q].before[f] = Nothing /\ store[req[q].key[f]] = <<q, f>>
    BY DEF ImportReuses
  <2> QED BY DEF StoreInv, Images, Image, ImageOK
<1> QED BY <1>1, ImagesConsistent, PTL
=============================================================================
