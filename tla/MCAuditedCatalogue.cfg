CONSTANTS
    p1 = p1
    p2 = p2
    p3 = p3
    v1 = v1
    v2 = v2
    v3 = v3
    a1 = a1
    a2 = a2
    part = part
    k1 = k1
    k2 = k2
    c1 = c1
    c2 = c2
    t1 = t1
    t2 = t2
    m1 = m1
    m2 = m2
    alice = alice
    bob = bob
    r1 = r1
    r2 = r2
    NoRow = NoRow
    NoRequest = NoRequest
    NoActor = NoActor
    Rows <- MCRows
    InitialRows <- MCInitialRows
    Names <- MCNames
    NameOf <- MCNameOf
    OwnerOf <- MCOwnerOf
    Admins <- MCAdmins
    Requests <- TwoRequests
    AdminOf <- OneEach
    Products <- MCProducts
    Variants <- MCVariants
    Attributes <- MCAttributes
    Categories <- MCCategories
    Templates <- MCTemplates
    Collections <- MCCollections
    Tags <- MCTags
    AttributeParts <- MCAttributeParts
    Menu <- FullMenu
    MaxCrashes = 1
SPECIFICATION Spec
INVARIANTS
    LogExplainsRows
    ContentExplained
    EventsMatchItems
PROPERTIES
    ImplementsStore
    EveryCommandEnds
\* When every request has been made there is nothing left to do.
CHECK_DEADLOCK FALSE
