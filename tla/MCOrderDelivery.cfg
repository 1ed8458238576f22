CONSTANTS
    o1 = o1
    c1 = c1
    c2 = c2
    c3 = c3
    Orders <- MCOrders
    Chats <- MCChats
    MaxTries = 2
SPECIFICATION Spec
SYMMETRY Interchangeable
PROPERTIES
    ImplementsInbox
\* Once every attempt is answered nothing is left to do.
CHECK_DEADLOCK FALSE
