CONSTANTS
    Concurrency = 3
    MaxItems = 6
SPECIFICATION CallSpec
INVARIANTS
    EachItemOnce
    PromiseSound
PROPERTIES
    ImplementsMap
    Settles
\* The call is over when every worker has returned or thrown.
CHECK_DEADLOCK FALSE
