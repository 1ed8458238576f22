CONSTANTS
    c1 = c1
    c2 = c2
    r1 = r1
    Categories <- MCCategories
    NoCategory = NoCategory
    Products <- MCProducts
    Rank <- MCRank
    PageLimit = 2
    Pages <- MCPages
    Requests <- MCRequests
    MaxWrites = 2
SPECIFICATION ListingSpec
SYMMETRY SameCategories
INVARIANTS
    ShownWasVisible
PROPERTIES
    UndisturbedExact
\* When the request is answered and the writes are used up, nothing is left.
CHECK_DEADLOCK FALSE
