CONSTANTS
    c1 = c1
    c2 = c2
    c3 = c3
    r1 = r1
    r2 = r2
    q1 = q1
    Categories <- MCThree
    NoCategory = NoCategory
    Commands <- MCOne
    Queries <- MCQueries
SPECIFICATION Spec
PROPERTIES
    HierarchyAnswered
\* When the commands and the query are done, nothing is left to do.
CHECK_DEADLOCK FALSE
