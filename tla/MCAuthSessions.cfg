CONSTANTS
    admin = admin
    guest = guest
    c1 = c1
    c2 = c2
    r1 = r1
    r2 = r2
    r3 = r3
    r4 = r4
    NoToken = NoToken
    NoUser = NoUser
    NoClient = NoClient
    Users <- MCUsers
    InitialUsers <- MCAdmins
    Admins <- MCAdmins
    Clients <- MCClients
    Requests <- FourRequests
    AccessTTL = 1
    RefreshTTL = 2
    MaxClock = 2
SPECIFICATION Spec
SYMMETRY Interchangeable
INVARIANTS
    UnovertakenRefreshRotates
    SessionUsable
PROPERTIES
    OpenedByPasswordOrRace
\* When every request has been made there is nothing left to do.
CHECK_DEADLOCK FALSE
