CONSTANTS
    e1 = e1
    e2 = e2
    e3 = e3
    door = door
    handle = handle
    Events <- MCEvents
    EntityOf <- MCEntityOf
    Matching <- MCEvents
    Limit = 1
    MaxClock = 2
    MaxAsks = 4
SPECIFICATION Spec
SYMMETRY SameRow
INVARIANTS
    SeenInOrder
    WalkComplete
    GapsOverlapped
    FlagsHonest
    
\* When every event is written and every page read there is nothing left to do.
CHECK_DEADLOCK FALSE
