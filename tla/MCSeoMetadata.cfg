CONSTANTS
    r1 = r1
    r2 = r2
    s1 = s1
    s2 = s2
    w1 = w1
    w2 = w2
    p1 = p1
    Rows <- MCRows
    Slugs <- MCSlugs
    Writers <- MCWriters
    Earlier = Earlier
    Pages <- MCPages
    Template = Template
    NoRow = NoRow
    NoSlug = NoSlug
    NoMeta = NoMeta
    Blank = Blank
    Unread = Unread
    NoOne = NoOne
    MaxMoves = 2
SPECIFICATION Spec
SYMMETRY Interchangeable
INVARIANTS
    OverridePreferred
    OwnWords
    LogExplainsMetadata
\* Once every request is answered nothing is left to do.
CHECK_DEADLOCK FALSE
