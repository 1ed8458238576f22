CONSTANTS
    e1 = e1
    e2 = e2
    e3 = e3
    door = door
    handle = handle
    Events <- MCEvents
    EntityOf <- MCEntityOf
    Matching <- MCEvents
    Limit = 1
    MaxClock = 1
    MaxAsks = 4
SPECIFICATION Spec
SYMMETRY SameRow
INVARIANT OlderPageHasNothingNew
CHECK_DEADLOCK FALSE
