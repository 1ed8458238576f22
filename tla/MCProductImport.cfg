CONSTANTS
    i1 = i1
    i2 = i2
    a = a
    b = b
    s1 = s1
    NoSource = NoSource
    NoBatch = NoBatch
    Concurrency = 2
    MaxCrashes = 1
    Imports <- MCImports
    File <- MCFiles
    Attributes <- MCAttributes
SPECIFICATION Spec
INVARIANTS
    LogExplainsProducts
    ImportsPrefix
    SummaryTrue
    StreamWellFormed
    RepeatNeedsDelete
PROPERTIES
    ReportedIsFinal
    LateWorkConfined
    EveryImportEnds
    WorkersStop
\* Once every import has ended and every product is deleted there is nothing to do.
CHECK_DEADLOCK FALSE
