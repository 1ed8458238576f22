# Verification of doors-backend

doors-backend is the NestJS server of a door catalogue: administrators edit products,
variants, categories and the like, import price lists from CSV files, and page through an
audit log of what they did; visitors read the catalogue and send orders to a Telegram chat.
State lives in one PostgreSQL database (through Prisma), images in an S3 store. The server is
one Node.js process. JavaScript runs one callback at a time, so every race is between the code
before an `await` and the code after it. That is the grain of all the modules here: one action
is the code between two awaits, with the database statement or transaction it awaits.

Paths below are relative to `src/src/` unless they start with another directory.

## 1. Inventory

| Component | State | Operations | Interacts with |
| --- | --- | --- | --- |
| Bounded-concurrency map (`utils/index.ts`) | a shared index, one promise | `mapWithConcurrency` | called by the import |
| Product import (`products/services/products-import.service.ts`, `importProducts` in `products/products.controller.ts`) | a generator per request, its event stream | `importFromFile` | products, variants, attributes, tags, files, audit log |
| Product commands (`products/services/products-command.service.ts`) | `Product` rows, their variants' prices | `createOne`, `update`, `updateMany`, `delete` | audit log, files, attributes |
| Variant commands (`products/modules/variants`) | `ProductVariant` rows | `createOne`, `createMany`, `createFromImport`, `update`, `updateMany`, `deleteById` | products, attributes, tags, files, audit log |
| Attributes (`products/modules/attributes`) | `Attribute`, `AttributeKey`, `AttributeValue` | `create`, `findOrCreate`, `updateKey`, `updateValue`, `delete` | audit log |
| Categories (`categories`) | a tree of `Category` rows | `createOne`, `update`, `delete`, recursive reads | audit log, product queries, SEO |
| Collections, tags, import templates | their rows | create, update, delete | audit log, import |
| Audit log (`audit-log`) | append-only `AuditLog` rows, the actor in async-local storage | `record`, `findAll`, `findOne` | every command |
| Sessions (`auth`), users (`users`) | one refresh-token hash per user row; cookies in browsers | sign-up, sign-in, refresh, logout | audit log |
| Product queries and export (`products-query.service.ts`, `products-export.service.ts`) | none | listings in three sorts, random list, export | categories, SEO |
| SEO (`seo`) | a template per type, metadata keyed by slug | `updateTemplate`, `updateMetadata`, the resolution of a page's title | categories, products, audit log |
| Files (`files`) | objects of an S3 bucket | upload, delete, `getOrDownloadFile` | product and variant updates, import |
| Telegram bot (`tg-bot`) | none | `callback`, `feedback`: one message to every chat | the Telegram API |
| News (`news`) | rows nothing here writes | two reads | none |
| Bootstrap, environment, logger, DTOs, error filter; Prisma client and schema | none of their own; the database | wiring | everything |

What is hard in it, and the property that would break (PROJECT.json has the whole list under
`hazards`, each at its line):

* **Import.** A chain of separate transactions, with a worker pool in the middle whose other
  workers outlive a failure. It may fail anywhere, run twice at once on one file, lose its
  product to an administrator, or be cut short by a restart. Correct means: what it leaves is a
  prefix of the file; the stream, the log and the rows tell the same story.
* **Sessions.** Read, verify, sign, store, with an await before each and one stored token per
  user. Correct means: a refresh replaces the token it was given unless it was overtaken, a
  closed session comes back only through a password or a race, and rotation locks nobody out.
* **Audited commands.** Reads before the transaction go stale; bulk commands stop half-way.
  Correct means: rows and events change together, the log explains the rows, and overlapping
  commands amount to the same commands one at a time.
* **Images.** The bucket and the database share no transaction, images of one request are put side
saved leads to an object, and to the image it was saved with if nobody else worked on its key.
  (A body may bring any string as a link; what nobody made a link of leads nowhere.) are made from slugs and names that may coincide. Correct means: a link that was
  saved leads to an object, and to the image it was saved with if nobody else worked on its key.
* **SEO words.** They belong to a slug, and slugs change hands. A clear and an upsert may wait for
  one another. Correct means: a page has foreign words only after a change of hands, and what is
  kept agrees with the log.
* **Orders.** One post per chat, one answer to the customer, no record. Correct means: a success is
  told only if the order is in every chat, and only a customer who was told of none makes it be
  there twice.
* **Audit log paging.** Keys are drawn before the commit that makes an event visible. Correct
  means: nothing twice, nothing out of order, nothing lost but what was in flight.
* **Category tree.** Any parent that exists is accepted, and the recursive queries have no
  guard. Correct means: only a move below itself closes a cycle, and a query's answer is right
  for one moment.
* **Product listings.** Two forms of one filter, and four statements at four moments. Correct
  means: exact when nothing is written meanwhile, and nothing hidden shown when something is.

Some hazards are modelled and go as they go in the code, and no property calls that wrong. The list
says so in a `note`: two tokens of one second are equal, a sign-up may leave a user without a
session, an update that was rolled back has overwritten the image the row shows, a slug no category
has lists every product, a new row inherits the words of its slug. One is outside the model: the
locks of an item are taken in one step, so two transactions do not wait for one another.

## 2. Modules

| Module | Models | Checked by | Proved in |
| --- | --- | --- | --- |
| `BoundedMap` | abstract: items taken in order, at most so many at a time, the first failure told at once | as the property `ImplementsMap` | |
| `WorkerPool` | the record of one call of `mapWithConcurrency` and its two steps | through the two below | lemmas in `ProductImport_proofs` |
| `MapWithConcurrency` | one call on a list, as a specification; implements `BoundedMap` | `MCMapWithConcurrency` | `ProductImport_proofs` |
| `ProductImport` | several imports at once, using `WorkerPool` | `MCProductImport` | `ProductImport_proofs` |
| `AuthSessions` | auth, users, browsers | `MCAuthSessions` | `AuthSessions_proofs` |
| `AuditedStore` | abstract: commands one at a time, each with its event | as the property `ImplementsStore` | `AuditedCatalogue_proofs` |
| `AuditedCatalogue` | every admin service's commands over transactions; implements `AuditedStore` | `MCAuditedCatalogue` | `AuditedCatalogue_proofs` |
| `AuditLogPaging` | `findAll` and the cursor, beside writing transactions | `MCAuditLogPaging` (two) | `Paging_proofs` |
| `CategoryForest` | the tree as a value: insert, move, delete, subtree, cycle | through the two below | lemmas in `CategoryTree_proofs` and `Paging_proofs` |
| `CategoryTree` | category commands and the recursive queries | `MCCategoryTree` (two) | `CategoryTree_proofs` |
| `ProductListing` | listings, random lists and the export, using `CategoryForest` | `MCProductListing` | `Paging_proofs` |
| `ImageStore` | the bucket, and the updates and imports that put objects and save links | `MCImageStore` | `ImageStore_proofs` |
| `SeoMetadata` | words of a slug, templates, renames and the page made of them | `MCSeoMetadata` | `SeoMetadata_proofs` |
| `OrderInbox` | abstract: what customers and staff may believe of an order | as the property `ImplementsInbox` | |
| `OrderDelivery` | the posts to the chats, their answers, customers who leave and try again; implements `OrderInbox` | `MCOrderDelivery` | `OrderDelivery_proofs` |

An operator whose name contains `_Bug` is a wrong version of the definition that follows it, the
way a slip in the code would make it. It stands in no specification; it is there to show that the
property it is paired with in `PROJECT.json` notices the slip.

## 3. How the models correspond to the code

**Grain.** Code between two awaits is one action, together with the statement or transaction it
awaits. A transaction is one action where nothing else can see its inside (the import's, whose
rows nobody else locks), and several where waiting matters (`AuditedCatalogue`, `AuditLogPaging`,
`SeoMetadata`). Identifiers from a sequence are values that are only compared. A COMMIT and its
answer are two things: a restart may fall between them, and the answer may be lost and the service
take it for a failure. Where a property is about what somebody was told, or about what comes after
the commit (`ProductImport`, `AuditedCatalogue`), they are two steps or the failure has both
outcomes; in `ImageStore` and `SeoMetadata` "done" means committed, whatever the client heard.

**`WorkerPool`, `MapWithConcurrency`** (`utils/index.ts:18-40`). `nextIndex` is the counter of the
same name, `held[w]` the item worker `w` awaits the mapper on. `ResolveItem` and `RejectItem` are
the code from the mapper's answer to the worker's next `await`: the other workers do not stop
when one throws, only the promise rejects. `BoundedMap` says the same without workers or counter:
an item that succeeds hands its place to the next, one that fails takes its place with it. Under
the refinement the items running are those held.

**`ProductImport`** (`products-import.service.ts:40-173`). `pc[i]` is where import `i`'s generator
stands, `pool[i]` its running map. `FindAttribute`/`CreateAttribute` are the two halves of
`findOrCreate`, with other imports between them; `CreateProduct`, `CheckProduct`,
`InsertVariant` and `Report` are the transactions and reads of a group, `Summarise` is the
summary's transaction and `Finish` the `done` after it. Every one of them may fail, and
`CreateProductFails`, `CreateAttribute` and `FailVariant` may have committed all the same. `Fetch` is
the wait for images. `Fail` is the controller's error event. After it the pool's workers go on: that is in the code, and
`LateWorkConfined` says how far it can go. The administrator's `DeleteProduct` and `Crash` may
happen between any two steps. The file is its sequence of groups. Failures from things outside
the model (a category, tag or image that is gone) are choices. The `imgUrl` fix-up after the map
is left out: the product already has the main variant's image when it is created from the file.

**`AuthSessions`** (`auth/`, `users/`). A refresh token is its user and its second of issue, as a
JWT signed from the same claims in the same second is the same string. `ReadX`, `Sign`, `Store`
and `Deliver` are the stretches between awaits; `Deliver` is the browser taking the cookies,
`Drop` a request that got no further or an answer that got lost. Guards are those of `AtGuard`,
`RtGuard` and `RolesGuard`: they look at the token only, never at the row.

**`AuditedCatalogue`**. All commands have one shape, so there is one `Read`, `Write`, `Record`,
`Commit` and `Rollback`, and one action per service operation that says which rows it is about
and which of them it locks. `updateMany` and `createMany` are sequences of items, each with a
transaction of its own. What a field is set to is abstracted to who set it. An update whose body
sets no column of its row (a product's new price, a variant's tags, a collection's products) is a
`touch`: Prisma reads the row and updates nothing of it, so it has no lock on it, and its event may
follow that of the row's deletion. (Join rows that such an update inserts do lock their ends; the
model has it without. The empty body of a category, tag or key would be a `touch`, too, and is left
out.) From `commit` a transaction goes to `committed` and is then `Answered`, or it is in `doubt`:
its COMMIT was sent, and the server gave up on the answer (`AnswerLost`) or restarted. The database
commits it or not, and nobody is told. PostgreSQL's row locks, unique indexes and READ COMMITTED are
external: `Locks` says which locks an item's statements take, all at once, and `Free` when it need
not wait. What is unique of a row, `NameOf`, is a constant: a category's new slug and a template's
new name do not change it, as no property here turns on a freed name; slugs that change hands are
`SeoMetadata`'s.

**`AuditedStore`** is what a caller may believe: rows and log change together, in one step.

**`AuditLogPaging`** (`audit-log.service.ts:54-149`). `LockRow`, `InsertEvent`, `CommitTx` are a
writer's transaction. The event's key is drawn in the middle of it: its id at the insert, and its
`createdAt` either at the start of the transaction or at the insert. A page is two statements,
`Ask` and `Probe`.

**`CategoryTree`** (`categories.service.ts:81-238`). A command is `AskX`, the lookup by `getById`,
then `Create`, `Update`, `Delete` or `Refuse`, its transaction. A recursive query takes a
snapshot at `Start` and works one round of its recursive term in `Round`. Slugs are unique, so a
category stands for its slug; renames are in `SeoMetadata`, which is what they matter to.

**`ProductListing`** (`products-query.service.ts:32-258`, `products-export.service.ts`). One
action per statement: the category's ids (twice in the SQL sorts), the page's ids, the rows, the
total, the last two in either order (`Promise.all`). An administrator's change is one step. A
sort is `SortBy`, the sequence of a set's elements in which a ranking increases: the ranking is
fixed and tells products apart, as the listings' `ORDER BY` ends with the id. `seen` and `disturbed`
are a request's history.

**`ImageStore`** (`files.service.ts:61-177`, `variants.service.ts:230-285`,
`products-command.service.ts:98-210`). A request has a part per image: `Head`, `Download` and `Put`
are the answers the code awaits from bucket and supplier, `HeadFails` the error that counts as
"not there", `PutFails` the error of a put that was refused or whose answer was lost. Such a put,
and one that was out when the server restarted, is `adrift` and may yet `Land`. Promise.all is in
`Settled` and `Thrown`: the last image hands over to the transaction (`Save`, `SaveFails`), the
first failure ends the request while the other images go on. `CustomKeys` lets images of different
rows share a key, as the names in the code do. For an image that was not sent the row gets what the
body says (`?? imgUrl`), with or without other images: its own link back, that of a file uploaded by
itself, or `Elsewhere`, which is null or any string that is the link of no known object. `createOne`
takes its links from the body as well (`CreateRow`). `past` and `deleted` are history: what a request
found, and who else worked on its keys.

**`SeoMetadata`** (`seo.service.ts:41-205`). `updateMetadata` is `AskWrite` (the label read),
`Upsert` or `Wait` and `DeleteMany`, `Record`, `Commit`; `updateTemplate` is the same under the key
`Template`, without the ways to delete. The two ways of waiting are PostgreSQL's in
READ COMMITTED: an upsert waits for whoever has the slug's words in hand; a `deleteMany` waits only
for words it saw when it began, and does not see those written anew meanwhile. `log` holds events
as they are inserted; those of transactions that are open or failed are there and count for
nothing. A `deleted` does not say whether it deleted anything, in the model as in the code; `hit` is
known to the open transaction only, and `knew`, which transactions had committed when it began, is
history. `Rename`, `Create` and `Delete` are the category commands as far as slugs go. A product's slug never changes, which is
the case without `Rename`.

**`OrderDelivery`** (`tg-bot.service.ts:41-92`, `tg-bot.controller.ts:20-40`; the throttler of
`app.module.ts:35-40` and the body's validation are `Refuse`). All posts start at once; each may
arrive, be lost, and be answered truly, wrongly or never. `Settled` is Promise.all with the check
of `ok` after it. `Leave` is the customer, whom the server does not miss. `OrderInbox` has neither
posts nor server, only what is in the chats and what was said.

## 4. Runs and bounds

| Run | Question | Bounds, and why they are enough |
| --- | --- | --- |
| `map_with_concurrency` | is each item mapped once and the promise true, as `BoundedMap` has it? | 3 workers, 0 to 6 items: fewer, as many and more items than workers, every set of failing items |
| `product_import` | what do imports leave behind, does each end? | 2 imports (a product with more rows than the 2 workers, in both files, then a product of each that wants the other's `sourceId`), 1 restart: retries, collisions on slug, `sourceId` and attributes, deletion and late workers all occur |
| `auth_sessions` | what does rotation guarantee? | 4 requests of 2 browsers about 2 users, 3 seconds: a third request can come between two racing ones, tokens can expire and coincide |
| `audited_catalogue` | do rows, events and answers agree? | 2 commands of 24 kinds, 3 products with a shared slug, 3 variants, 1 restart: every pair of operations overlaps, and either COMMIT may be in doubt (170,000 states) |
| `audit_log_paging` | does the reader see the log? | 3 events (2 of one row), pages of 1, 4 requests, 3 milliseconds: every boundary is crossed in both directions, with ties |
| `audit_log_paging_new` | (violation) can an older page have something new? | the same |
| `category_tree` | are the answers right, do queries return, who closes cycles? | every forest of at most 3 categories, 2 commands, 1 query: two moves that close a cycle together need two commands |
| `category_tree_cycle` | (violation) is every hierarchy answered? | the same with 1 command |
| `product_listing` | are answers exact, is nothing hidden shown? | 3 products on pages of 2, ranked against their ids, 2 categories, 1 request of every kind, 2 writes: a change and its reversal |
| `image_store` | what does a row's link lead to, is every request answered? | 2 requests, a product and a variant that share a key, 2 images of the variant, an import or an administrator that may create it, 1 plain file, links in bodies for the main image only (`BodyFields`), a restart whenever a request is under way: an upload that outlives its request or the server meets a later one on its key; a body brings back a link whose file was deleted (480,000 states) |
| `seo_metadata` | whose words does a page have, do words and template agree with the log? | 2 rows, 2 slugs, rows with words of an earlier writer or without, 2 writers, 1 page, 2 changes of hands: a slug is left and taken while it is written and while the page is made; a clear waits for words that are deleted meanwhile; the template is updated beside words or by both writers (1.1 million states) |
| `order_delivery` | is the inbox what customers believe? | 1 order sent up to twice to 3 chats: a first attempt's posts arrive beside the second's; orders do not meet one another |

Symmetry is used in runs without liveness only, over requests, clients, rows, events, categories,
slugs or chats that the model treats alike. `CHECK_DEADLOCK FALSE` stands where requests are used
up: each request is made once, and when all are answered nothing is left to do. Every property of
a run has a wrong version of some mapped definition that breaks it (`mutants`).

**Violations.** (1) `audit-log.service.spec.ts:257` says a newly inserted row is not in the next
older page. The event's key is drawn before its transaction commits, so it can be. (2)
`test/app.e2e-spec.ts:51` expects any hierarchy request to be answered with 200 or 404. `update`
lets a category be hung below itself, and the `UNION ALL` recursion then has no end. Listings
and exports of a category on the cycle are equally stuck (`ProductListing`'s `Stuck`).

## 5. Fairness

Fairness is assumed only of what the process or the database has been handed: the mapper of a call
returns or throws (`MapWithConcurrency`), so does a statement of an import (`ProductImport`), a command that was taken on proceeds, a
waiting transaction gets its lock or is rolled back by the database's deadlock detection or the
five seconds Prisma gives an interactive transaction (`AuditedCatalogue`), a statement is
executed (`CategoryTree`). Always weak fairness, per request or worker. No user is fair: nobody
must send a request, retry, or page on. A restart disables what it cuts short, so the liveness
properties have it as one of the outcomes.

Nothing is assumed of the bucket and of the suppliers' servers: neither the S3 client nor the
download is given a time limit (`files.service.ts:38-45`, `:150`, `files.module.ts`). In `ImageStore`
only the transaction at the end is fair, and `AnsweredUnlessHeld` says that an image that never
comes is all that a request can wait for for ever. `EveryImportEnds` says the same of an import:
it ends, or it stays for ever where it waits for an image (`Fetching`). `EveryCommandEnds` rests on
the database giving up on a transaction that waits too long; as an item's locks are taken at once,
the run does not show that deadlocks are resolved.
`AuthSessions`, `AuditLogPaging`, `ProductListing`, `SeoMetadata` and `OrderDelivery` state no
liveness and assume none.

## 6. What is proved

All for any value of the constants under the named ASSUMEs, which TLC evaluates in the runs.

* **`ProductImport_proofs`, the map.** The inductive invariant `PoolOK`: the items
  held, resolved and rejected are disjoint and together are exactly `1..nextIndex`; no two workers
  hold one item; while items are left, as many workers are gone as have thrown; the promise is
  what these say. The counter alone does not forbid that an item is held twice, so the partition is needed.
  From it: `EachItemOnce`, `PromiseSound`, and that the call implements `BoundedMap`
  (`MapImplemented`): the items held are the running ones because `PoolOK` has one worker per item.
  `LeftOverOnlyIfAllFailed` and the action property `SettledOnce` are proved beside them. The
  lemmas are about the record of a call, so they hold of the imports' maps as well. (The module
  extends both, which is why the specification of a single call has names of its own, `CallSpec` etc.)
* **`ProductImport_proofs`, the imports.** Every safety property of `product_import`, for any number of imports,
  groups, rows and workers. A step is first put under a kind (`StepIs`) that forgets attributes,
  images and checks, then the parts of `IInv` are kept kind by kind. `Position` says where the
  generator stands, what it has created and when workers may be busy, `LogRight` that the log
  explains the products, `Stream` what the client has read. `Counts` ties the rows that are in to
  the items the pool has resolved, once per item, with at most one more for an insert whose answer was
  lost: without it nothing says that a finished group is complete, since the rows themselves do not
  remember which worker put them there. `SummaryIsTrue`: a summary is in the log only of an import
  that went through its whole file; a restart may still come before its `done`.
* **`OrderDelivery_proofs`.** `PostOK` of every post: nothing of it exists before it is sent, it is
  on its way only while it is not in its chat, an `ok` is about a message that is there. Then every
  step is a step of `OrderInbox` or a stutter (`InboxImplemented`).
* **`AuditedCatalogue_proofs`.** First of the abstract store: it keeps `LogExplainsRows`,
  `HistoryWellFormed` and `ContentExplained` (`StoreExplained`). The type of the log and what one
  append does to it is all that is needed. Then `CatalogueInv` has two ideas. `Apart`: the locks of
  two open transactions never exclude one another. `Pending`: what an open transaction has yet to
  commit is still possible, because the locks it holds keep everybody else from the rows, the owner
  and the name it relies on. With them every commit is a step of `AuditedStore`, every other step a
  stutter (`CatalogueImplementsStore`), and the store's theorems carry over
  (`LogAuthoritative`, `HistoriesMakeSense`, `ContentsHaveEvents`). `EventsAreItems` is beside
  them: the events of a request are those of its first items, by position, so a further item only
  adds one at the end and a rollback takes none. How many items is known but for a request that is
  "lost", by a restart or with the answer to a COMMIT: there the item in hand may be among them.
* **`AuthSessions_proofs`.** `SessionInv` adds two facts to the properties: what a request saw of
  the count of writes is never more than the count, and if it is the same then the stored token
  is still the one it read (`Rotates`). `UnovertakenRefreshRotates` and the action property
  `OpenedByPasswordOrRace` follow, and `UserOnce` from the check the unique index makes (`UserOnce`
  is proved only: it is that check, of any number of users). `SessionsStayUsable` needs the tokens
  under way: of an undisturbed user the stored token is in a browser or in the answer of a request
  that has stored it and not yet delivered it.
* **`CategoryTree_proofs`.** Of trees in general: inserting and deleting keep a forest a forest,
  and so does moving a category anywhere but into its own subtree. A cycle is a nonempty set
  that has its members' parents; taking the witness of "not below" away from it leaves a cycle
  of the old tree. Then: only updates close cycles (`OnlyUpdatesCloseCycles`), and every parent
  exists (`TreeTypeCorrect`). Of the recursive queries, `QueryInv` says what has been found so far,
  all about the tree they began with: going up, each round's row is the parent of the one before
  it; going down, what was found is the category and things below it, and everything whose parent
  was found is found or next in turn. When nothing is left to work on this is the whole path
  (`HierarchiesArePaths`) and the whole subtree (`DescendantsAreExact`), in any number of rounds.
* **`Paging_proofs`, the audit log.** A page is the events beyond the cursor in the log's order, cut off.
  That any finite set of events can be written in that order (`SortedExists`) is shown by counting,
  for each, those above it; that a page has the nearest ones follows (`PageNearest`). `PagingInv`:
  ids and times are drawn once and never come back (`StampInv`), one transaction
  at a time has a row, so its id is beyond all that is committed about the row (`LockInv`), what was shown was committed, is between the cursors and in order
  (`ShownInv`), what is missing between them was open during a page (`GapInv`) or, of what the
  reader is to be shown, lies beyond the cursor (`WalkInv`), and what a page's flags are true of
  (`FlagInv`). From it come `PagesInOrder`, `GapsAreOverlaps`, `WalksAreComplete`, `FlagsAreHonest`
  and `IdsFollowTheLock`, for any number of events, transactions and pages of any size.
* **`Paging_proofs`, the products.** Of lists first: the sorted list of a finite set exists, has each
  element once (`SortByIs`), and each has as many before it as its place says (`CountBefore`); so
  `LIMIT`/`OFFSET` cuts out exactly those with the right number before them (`PageSorted`), and rows
  fetched by id keep the page's order, without those deleted meanwhile (`KeptIs`). `ListingInv` has
  two parts. `Careful` holds whatever is written: what is visible now is in `seen`, and ids and rows
  of a visitor's request are among it, each once, a page of them at most (`NothingHiddenShown`).
  `Fresh` holds until something is written: both filters are the category and what is below it
  now (empty exactly when no category has the slug, where the two forms of the filter agree), and
  what has been fetched is what would be fetched now. A write ends it for every request under way;
  the statement that answers carries it over to the answer (`UndisturbedIsExact`, an action
  property). For any number of products, categories, requests and writes, any ranking and page
  size; cycles in the category tree included. (The module extends both specifications, which is
  why that of the listings has names of its own, `ListingSpec` etc.)
* **`ImageStore_proofs`.** `ImageOK` says what may be known of one image of one request: if it is
  `ok` its object is there or was deleted; if nobody else worked on its key, the object of an update
  is its own and an import found, or has put, what is there. That a step of one image leaves the
  others' facts alone needs `Rivals`: whoever is at work on a key that another request has is on
  record as its rival, also when that request has been answered already or its put is adrift. `Ready`
  (no link is saved before all images are there) and `LinksHad` (a link in a row, or in the body of a
  request under way, is of an object that was there, and is unless it was deleted; a body may keep it
  for as long as its request lasts) are the rest of `StoreInv`; from it `LinksResolve`,
  `VersionsShowUploads` and `ImportsReuse`, for any number of requests, rows, keys and restarts.
* **`SeoMetadata_proofs`.** `SeoInv`: whoever has written a key's words holds its lock until he ends
  (`Locks`), so his event comes after those of all who committed before him (`Recorded`), but for
  those of deletions that missed the words. A `deleteMany` that found nothing holds no lock and its
  event may come anywhere. `Unaware` is about those: if there are words when it finds none, it began
  before they were committed. So when anybody commits, either his event is the last that counts, or
  it is a `deleted` of one who began too early (`LogExplainsWords`). `Rightful` has the rows: words are
  those of the row that holds the slug, except where it changed hands; with the page's own history
  (`PageOK`) this gives `WordsAreOwn` and `OverridesPreferred`. A transaction's event stays in `log`
  when it rolls back; nobody sees it, since `Told` asks for the commit.

All invariants, action properties and refinements that the passing runs check are thereby theorems.
Only model-checked is the liveness (`Settles`, `EveryImportEnds`, `WorkersStop`,
`EveryCommandEnds`, `QueriesReturn`, `AnsweredUnlessHeld`): the proof system does neither fairness
nor ENABLED. The two violations are runs, not theorems.

## 7. What is not modelled

* Parsing and formatting: the CSV's columns, templates' paths, DTO validation, SEO texts.
* Values: which price or image; only who wrote it. Links between rows (a collection's products,
  a variant's attributes and tags) and their `SET NULL` and join-table cascades, except a product's
  variants, the tree and a product's category. `set` with ids deleted meanwhile.
* News: two reads of rows that nothing in the repository writes.
* A client who disconnects from an import's event stream: the generator does not look and goes on.
  Nor which error answers a request: `deleteById` returns its transaction without awaiting it inside
  its `try` (`variants.service.ts:316`), so its `catch` never translates the error; the row and the
  log are as `AuditedCatalogue` has them.
* In `ProductImport` an image succeeds or fails by choice; what that leaves in the bucket is
  `ImageStore`'s part. In `AuditedCatalogue` updates come without images.
* Deadlocks of the database's transactions (locks of an item are taken together), and a category's new
  slug or a template's new name as far as `AuditedCatalogue` goes.
* SEO on the admin pages: pure reads of what `SeoMetadata` has.
* The database itself, Prisma and Node.js: external, as the guards above say.

## 8. What is left

1. Of what is modelled, nothing but liveness is left to prove, and that is TLC's.
2. `ProductListing` has its administrators write in one step. Listings beside the open
   transactions of `AuditedCatalogue` would be one module more; at READ COMMITTED a statement sees
   committed rows only, so nothing new is expected of it.
3. `ImageStore` and `ProductImport` know each other's outcome by choice only; one module of both
   would show an import's retry after a restart finding its own images.
