--------------------------- MODULE ProductListing ---------------------------
(***************************************************************************)
(* The reads of products-query.service.ts and products-export.service.ts   *)
(* while administrators write.  A request is a chain of statements, each   *)
(* of which sees the database of its own moment: the ids of the category   *)
(* and all below it (twice, for the two forms of one filter), the ids of   *)
(* the page, their rows, the total.                                        *)
(*                                                                         *)
(* The order of a listing (tag, price, category order, name, id) is a      *)
(* fixed ranking; the filters by name and product type are left out: both  *)
(* forms of the filter state them alike.                                   *)
(***************************************************************************)
EXTENDS CategoryForest, Naturals, Sequences, FiniteSets, SequencesExt, FiniteSetsExt

CONSTANTS
    Products,     \* the order of their ids is that of the naturals
    Rank,         \* Rank[p]: where the sort puts p
    PageLimit, Pages, \* the page's length, and the pages asked for
    Requests,
    MaxWrites     \* bound: writes of administrators in a behaviour

ASSUME ListingAssumption ==
    /\ Products \subseteq Nat /\ IsFiniteSet(Products)
    /\ PageLimit \in Nat \ {0} /\ Pages \subseteq Nat \ {0}
    /\ Rank \in [Products -> Nat] /\ IsInjective(Rank)
    /\ MaxWrites \in Nat

VARIABLES
    tree,      \* the categories and their parents
    product,   \* product[p]: the products there are
    writes,    \* how many writes there were
    req        \* req[r]: the requests

listingVars == <<tree, product, writes, req>>

Kinds == {"name", "ranked", "random", "export"}

\* Of its statements' results a request keeps filter (the ids productFilter has
\* of the category), where (those of whereSql), ids and shown (the page, first
\* as ids, then as rows), count, and todo: what Promise.all or the transaction
\* still waits for.  disturbed and seen are the history of the request: whether
\* anything was written since it was made, and what a visitor could have seen.
NoRequest ==
    [pc |-> "idle", kind |-> "none", slug |-> NoCategory, admin |-> FALSE, page |-> 1,
     filter |-> {}, where |-> {}, ids |-> <<>>, shown |-> <<>>, count |-> 0, todo |-> {},
     disturbed |-> FALSE, seen |-> {}]

Product == [visible : BOOLEAN, category : Categories \cup {NoCategory}]
Answering ==
    [pc : {"idle", "pick", "filter", "where", "rank", "find", "fetch", "endless", "answered"},
     kind : Kinds \cup {"none"}, slug : Categories \cup {NoCategory}, admin : BOOLEAN,
     page : Nat \ {0}, filter : SUBSET Categories, where : SUBSET Categories,
     ids : Seq(Products), shown : Seq(Products), count : Nat, todo : SUBSET {"rows", "count"},
     disturbed : BOOLEAN, seen : SUBSET Products]

ListingTypeOK ==
    /\ tree \in Trees
    /\ DOMAIN product \subseteq Products /\ product \in [DOMAIN product -> Product]
    /\ req \in [Requests -> Answering]

IsVisible(p) == p \in DOMAIN product /\ product[p].visible

ListingInit ==
    /\ tree \in {t \in Trees : Acyclic(t)}
    /\ product \in [Products -> [visible : BOOLEAN, category : Parents(tree)]]
    /\ writes = 0
    /\ req = [r \in Requests |-> NoRequest]
-----------------------------------------------------------------------------
\* Administrators: one committed transaction each (see AuditedCatalogue and
\* CategoryTree for what leads to it).

UnderWay(r) == req[r].pc \notin {"idle", "answered"}

Write(t, prod) ==
    /\ writes < MaxWrites /\ writes' = writes + 1
    /\ tree' = t /\ product' = prod
    /\ req' = [r \in Requests |->
                 IF UnderWay(r)
                 THEN [req[r] EXCEPT !.disturbed = TRUE,
                                     !.seen = @ \cup {p \in DOMAIN prod : prod[p].visible}]
                 ELSE req[r]]

UpdateProduct ==
    \E p \in DOMAIN product, v \in BOOLEAN, c \in Parents(tree) :
        Write(tree, [product EXCEPT ![p] = [visible |-> v, category |-> c]])

DeleteProduct ==
    \E p \in DOMAIN product : Write(tree, [x \in DOMAIN product \ {p} |-> product[x]])

UpdateCategory ==
    \E c \in DOMAIN tree : \E p \in Parents(tree) : Write(MoveRow(tree, c, p), product)

\* Its products stay, without a category (onDelete: SetNull).
DeleteCategory ==
    \E c \in DOMAIN tree :
        Write(DeleteRow(tree, c),
              [p \in DOMAIN product |->
                  IF product[p].category = c THEN [product[p] EXCEPT !.category = NoCategory]
                                             ELSE product[p]])
-----------------------------------------------------------------------------
Become(r, new) ==
    /\ req' = [req EXCEPT ![r] = new]
    /\ UNCHANGED <<tree, product, writes>>

\* GET /products: any slug or none, by a visitor or an administrator.  A public
\* random list finds the category first, an export (administrators only) too.
AskProducts(r) ==
    /\ req[r].pc = "idle"
    /\ \E kind \in Kinds, slug \in Categories \cup {NoCategory}, admin \in BOOLEAN, n \in Pages :
          /\ kind \in {"random", "export"} => slug \in DOMAIN tree /\ n = 1
          /\ kind = "random" => ~admin
          /\ kind = "export" => admin
          /\ Become(r, [NoRequest EXCEPT
                          !.pc = IF kind = "random" THEN "pick"
                                 ELSE IF slug = NoCategory /\ kind = "ranked" THEN "rank"
                                 ELSE IF slug = NoCategory THEN "find"
                                 ELSE "filter",
                          !.kind = kind, !.slug = slug, !.admin = admin, !.page = n,
                          !.todo = {"rows", "count"},
                          !.seen = {p \in DOMAIN product : product[p].visible}])

\* getDescendantCategoryIdsBySlug.  On a cycle its statement does not return:
\* the request stays where it is, even if the cycle is opened later.
Descendants(slug) == IF slug \in DOMAIN tree THEN Subtree(tree, slug) ELSE {}

Stuck(r) == OnCycle(tree, req[r].slug) /\ Become(r, [req[r] EXCEPT !.pc = "endless"])

\* buildProductFilter
ReadFilter(r) ==
    /\ req[r].pc = "filter"
    /\ \/ Stuck(r)
       \/ /\ ~OnCycle(tree, req[r].slug)
          /\ Become(r, [req[r] EXCEPT
                          !.filter = Descendants(req[r].slug),
                          !.pc = IF req[r].kind = "ranked" THEN "where" ELSE "find"])

\* buildProductSqlWhere asks again.
ReadWhere(r) ==
    /\ req[r].pc = "where"
    /\ \/ Stuck(r)
       \/ /\ ~OnCycle(tree, req[r].slug)
          /\ Become(r, [req[r] EXCEPT !.where = Descendants(req[r].slug), !.pc = "rank"])

\* No id, because no slug was given or no category has it: no condition.
InCategory(ids, p) == ids = {} \/ product[p].category \in ids

Matches(r, ids) == {p \in DOMAIN product : (req[r].admin \/ IsVisible(p)) /\ InCategory(ids, p)}

Increasing(s, rank) == \A i, j \in DOMAIN s : i < j => rank[s[i]] < rank[s[j]]
SortBy(rank, S) == CHOOSE s \in SetToSeqs(S) : Increasing(s, rank)

IdOf == [p \in Products |-> p]
Ranked(S) == SortBy(Rank, S)
ById(S) == SortBy(IdOf, S)

\* LIMIT take OFFSET (page - 1) * limit
PageOf(s, n) == SubSeq(s, (n - 1) * PageLimit + 1, Min({n * PageLimit, Len(s)}))

\* sort=name: findMany and count in one transaction, which at READ COMMITTED
\* does not make them see the same rows.
FindByName(r) ==
    /\ req[r].pc = "find" /\ req[r].kind = "name"
    /\ Become(r, [req[r] EXCEPT
                    !.shown = PageOf(Ranked(Matches(r, req[r].filter)), req[r].page),
                    !.todo = {"count"}, !.pc = "fetch"])

\* The SQL form of the filter forgets isVisible.
RankIds_BugHidden(r) ==
    LET matching == {p \in DOMAIN product : InCategory(req[r].where, p)}
        ids == PageOf(Ranked(matching), req[r].page)
    IN  /\ req[r].pc = "rank"
        /\ Become(r, [req[r] EXCEPT
                        !.ids = ids, !.pc = "fetch",
                        !.todo = IF ids = <<>> THEN {"count"} ELSE {"rows", "count"}])

\* The raw query of getAllDefaultSort and getAllSortedByPrice.
RankIds(r) ==
    LET ids == PageOf(Ranked(Matches(r, req[r].where)), req[r].page) IN
    /\ req[r].pc = "rank"
    /\ Become(r, [req[r] EXCEPT
                    !.ids = ids, !.pc = "fetch",
                    !.todo = IF ids = <<>> THEN {"count"} ELSE {"rows", "count"}])

\* The raw query of getRandom: the category itself, not those below it.
PickRandom(r) ==
    LET own == {p \in DOMAIN product : IsVisible(p) /\ product[p].category = req[r].slug} IN
    /\ req[r].pc = "pick"
    /\ \E S \in kSubset(Min({PageLimit, Cardinality(own)}), own) :
          Become(r, [req[r] EXCEPT
                      !.ids = ById(S), !.todo = {"rows"},
                      !.pc = IF S = {} THEN "answered" ELSE "fetch"])

\* Without ids an export has no rows; a listing would have all.
ExportRows(r) ==
    /\ req[r].pc = "find" /\ req[r].kind = "export"
    /\ Become(r, [req[r] EXCEPT
                    !.shown = ById({p \in DOMAIN product : product[p].category \in req[r].filter}),
                    !.pc = "answered"])

\* A statement of Promise.all or of the transaction has returned; the last one
\* answers the request.
Done(r, what, new) ==
    /\ req[r].pc = "fetch" /\ what \in req[r].todo
    /\ Become(r, [new EXCEPT !.todo = @ \ {what},
                             !.pc = IF req[r].todo = {what} THEN "answered" ELSE @])

\* The rows as findMany returns them.
FetchRows_BugUnordered(r) ==
    Done(r, "rows", [req[r] EXCEPT !.shown = ById(Range(req[r].ids) \cap DOMAIN product)])

\* findProductsByIdsInOrder: by id only, in the order of the ids; a product
\* deleted meanwhile is left out.
FetchRows(r) ==
    LET ids == req[r].ids
        place == Inverse(ids, DOMAIN ids, Range(ids))
    IN  Done(r, "rows", [req[r] EXCEPT !.shown = SortBy(place, Range(ids) \cap DOMAIN product)])

CountAll(r) ==
    Done(r, "count", [req[r] EXCEPT !.count = Cardinality(Matches(r, req[r].filter))])

\* A statement fails: the request is answered with an error.
Fail(r) == UnderWay(r) /\ req[r].pc # "endless" /\ Become(r, [NoRequest EXCEPT !.pc = "answered"])
-----------------------------------------------------------------------------
Request(r) ==
    \/ AskProducts(r) \/ ReadFilter(r) \/ ReadWhere(r) \/ FindByName(r) \/ RankIds(r)
    \/ PickRandom(r) \/ ExportRows(r) \/ FetchRows(r) \/ CountAll(r) \/ Fail(r)

ListingNext ==
    \/ UpdateProduct \/ DeleteProduct \/ UpdateCategory \/ DeleteCategory
    \/ \E r \in Requests : Request(r)

ListingSpec == ListingInit /\ [][ListingNext]_listingVars
-----------------------------------------------------------------------------
Below(r) == IF req[r].slug \in DOMAIN tree THEN Subtree(tree, req[r].slug) ELSE {}

\* A listing's page: of the products wanted, those with as many before them as
\* its number says, in order, with the total.  A slug no category has stands
\* for no slug.
ExactListing(r) ==
    LET wanted == {p \in DOMAIN product :
                     /\ req[r].admin \/ product[p].visible
                     /\ req[r].slug \notin DOMAIN tree \/ product[p].category \in Below(r)}
        before(p) == Cardinality({q \in wanted : Rank[q] < Rank[p]})
        first == (req[r].page - 1) * PageLimit
    IN  /\ Range(req[r].shown) = {p \in wanted : before(p) \in first..(first + PageLimit - 1)}
        /\ Increasing(req[r].shown, Rank)
        /\ req[r].count = Cardinality(wanted)

ExactRandom(r) ==
    LET own == {p \in DOMAIN product : product[p].visible /\ product[p].category = req[r].slug}
    IN  /\ Range(req[r].shown) \subseteq own
        /\ Len(req[r].shown) = Min({PageLimit, Cardinality(own)})

ExactExport(r) ==
    /\ Range(req[r].shown) = {p \in DOMAIN product : product[p].category \in Below(r)}
    /\ Increasing(req[r].shown, IdOf)

Exact(r) ==
    /\ req[r].kind = "random" => ExactRandom(r)
    /\ req[r].kind = "export" => ExactExport(r)
    /\ req[r].kind \in {"name", "ranked"} => ExactListing(r)

\* If nothing was written while a request was under way, its answer is right:
\* the Prisma form and the SQL form of the filter, the page and the total, the
\* ids and the rows all fit together, in every sort.
UndisturbedExact ==
    [][\A r \in Requests :
          UnderWay(r) /\ req'[r].pc = "answered" /\ req'[r].kind # "none" /\ ~req[r].disturbed
              => Exact(r)']_listingVars

\* Whatever was written meanwhile - the rows are fetched by id, without a look
\* at isVisible - a visitor sees no product twice, and none that was hidden all
\* through the request.
ShownWasVisible ==
    \A r \in Requests : req[r].pc = "answered" /\ ~req[r].admin =>
        /\ Range(req[r].shown) \subseteq req[r].seen
        /\ IsInjective(req[r].shown) /\ Len(req[r].shown) <= PageLimit
=============================================================================
