---------------------------- MODULE AuthSessions ----------------------------
(***************************************************************************)
(* Sign-up, sign-in, refresh and logout: AuthService, AuthController and   *)
(* UsersService (src/src/auth, src/src/users), with the browsers that hold  *)
(* the cookies.                                                            *)
(*                                                                         *)
(* A request reads the user row, signs a token pair, and stores the hash   *)
(* of the refresh token, with an await before each, so requests of one     *)
(* user interleave.  A user row holds one refresh token.  A JWT is a       *)
(* function of its claims and its second of issue, so the pair signed for  *)
(* user u at second t is <<u, t>>, and so is what its hash is compared to:  *)
(* signing twice within a second gives the same token.                     *)
(***************************************************************************)
EXTENDS Integers, FiniteSets

CONSTANTS
    Users,         \* the people, by email
    InitialUsers,  \* those who have a row at the start (the seeded ones)
    Admins,        \* those whose roles include ADMIN
    Clients,       \* browsers, each with one cookie jar
    Requests,      \* requests to the auth controller, each made at most once
    NoToken, NoUser, NoClient,
    AccessTTL, RefreshTTL,  \* ACCESS_TOKEN_TTL and REFRESH_TOKEN_TTL
    MaxClock                \* bound on time

ASSUME UsersAssumption ==
    /\ InitialUsers \subseteq Users /\ Admins \subseteq Users
    /\ NoUser \notin Users /\ NoClient \notin Clients
ASSUME TimeAssumption ==
    AccessTTL \in Nat /\ RefreshTTL \in Nat /\ MaxClock \in Nat

Tokens == Users \X (0..MaxClock)
ASSUME TokenAssumption == NoToken \notin Tokens

Owner(token) == token[1]
IssuedAt(token) == token[2]

VARIABLES
    clock,
    exists,     \* the users that have a row
    stored,     \* stored[u]: the refresh token whose hash the row holds
    created,    \* created[u]: how many user.created events the audit log has
    jar,        \* jar[c]: the token pair in the browser's cookies
    req,        \* req[r]: where request r is, see Request
    \* history, read by no action
    writes,     \* writes[u]: how often stored[u] has been written
    disturbed   \* the users one of whose requests raced another, whose answer
                \* was lost, or whose browser went over to somebody else

db == <<exists, stored, created>>
vars == <<clock, exists, stored, created, jar, req, writes, disturbed>>

Request ==
    [pc        : {"new", "sent", "hashed", "read", "signed", "stored", "done"},
     kind      : {"signup", "signin", "refresh", "logout"},
     client    : Clients \cup {NoClient},
     target    : Users \cup {NoUser},       \* the user it is about
     presented : Tokens \cup {NoToken},     \* the token it came with
     signed    : Tokens \cup {NoToken},     \* the token pair it answers with
     seen      : Nat]                       \* history: writes[target] at its read

Blank(label) ==
    [pc |-> label, kind |-> "signin", client |-> NoClient, target |-> NoUser,
     presented |-> NoToken, signed |-> NoToken, seen |-> 0]

Init ==
    /\ clock = 0
    /\ exists = InitialUsers
    /\ stored = [u \in Users |-> NoToken]
    /\ created = [u \in Users |-> 0]
    /\ jar = [c \in Clients |-> NoToken]
    /\ req = [r \in Requests |-> Blank("new")]
    /\ writes = [u \in Users |-> 0]
    /\ disturbed = {}
-----------------------------------------------------------------------------
\* Request r's record is replaced.
Becomes(r, new) == req' = [req EXCEPT ![r] = new]

InFlight(u) == {r \in Requests : req[r].target = u /\ req[r].pc # "done"}

\* A cookie and the JWT in it are good for the same time.
Unexpired(token, ttl) == token # NoToken /\ clock < IssuedAt(token) + ttl

\* Browser c sends r, about user u, with what is in its jar.
Send(r, c, k, u) ==
    /\ req[r].pc = "new"
    /\ Becomes(r, [pc |-> "sent", kind |-> k, client |-> c, target |-> u,
                   presented |-> jar[c], signed |-> NoToken, seen |-> 0])
    /\ disturbed' = IF InFlight(u) = {} THEN disturbed ELSE disturbed \cup {u}
    /\ UNCHANGED <<clock, db, jar, writes>>

SendSignIn(r, c, u) == Send(r, c, "signin", u)

\* RtGuard answers 401 to anything but an unexpired refresh token.
SendRefresh(r, c) ==
    Unexpired(jar[c], RefreshTTL) /\ Send(r, c, "refresh", Owner(jar[c]))
SendLogout(r, c) ==
    Unexpired(jar[c], RefreshTTL) /\ Send(r, c, "logout", Owner(jar[c]))

\* @Admin(): AtGuard and RolesGuard look at the access token alone.
SendSignUp(r, c, u) ==
    /\ Unexpired(jar[c], AccessTTL) /\ Owner(jar[c]) \in Admins
    /\ Send(r, c, "signup", u)

\* signIn reads the row and checks the password against it; a wrong password is
\* Refuse.
ReadSignIn(r) ==
    LET u == req[r].target IN
    /\ req[r].pc = "sent" /\ req[r].kind = "signin"
    /\ u \in exists
    /\ Becomes(r, [req[r] EXCEPT !.pc = "read", !.seen = writes[u]])
    /\ UNCHANGED <<clock, db, jar, writes, disturbed>>

\* The stored hash is not looked at.
ReadRefresh_BugAnyToken(r) ==
    LET u == req[r].target IN
    /\ req[r].pc = "sent" /\ req[r].kind = "refresh"
    /\ u \in exists
    /\ Becomes(r, [req[r] EXCEPT !.pc = "read", !.seen = writes[u]])
    /\ UNCHANGED <<clock, db, jar, writes, disturbed>>

\* Any token will do while some session is open.
ReadRefresh_BugSetOnly(r) ==
    LET u == req[r].target IN
    /\ req[r].pc = "sent" /\ req[r].kind = "refresh"
    /\ u \in exists /\ stored[u] # NoToken
    /\ Becomes(r, [req[r] EXCEPT !.pc = "read", !.seen = writes[u]])
    /\ UNCHANGED <<clock, db, jar, writes, disturbed>>

\* refreshTokens reads the row and checks the token against the stored hash.
ReadRefresh(r) ==
    LET u == req[r].target IN
    /\ req[r].pc = "sent" /\ req[r].kind = "refresh"
    /\ u \in exists
    /\ stored[u] # NoToken /\ stored[u] = req[r].presented
    /\ Becomes(r, [req[r] EXCEPT !.pc = "read", !.seen = writes[u]])
    /\ UNCHANGED <<clock, db, jar, writes, disturbed>>

\* logout only looks whether the user exists; it will write null.
ReadLogout(r) ==
    LET u == req[r].target IN
    /\ req[r].pc = "sent" /\ req[r].kind = "logout"
    /\ u \in exists
    /\ Becomes(r, [req[r] EXCEPT !.pc = "signed", !.seen = writes[u]])
    /\ UNCHANGED <<clock, db, jar, writes, disturbed>>

\* signUp finds no such user, and hashes the password.
ReadSignUp(r) ==
    /\ req[r].pc = "sent" /\ req[r].kind = "signup"
    /\ req[r].target \notin exists
    /\ Becomes(r, [req[r] EXCEPT !.pc = "hashed"])
    /\ UNCHANGED <<clock, db, jar, writes, disturbed>>

\* UsersService.createOne: the row and its audit event in one transaction.  The
\* unique index on email refuses a user who has come to exist since the read.
CreateUser(r) ==
    LET u == req[r].target IN
    /\ req[r].pc = "hashed" /\ u \notin exists
    /\ exists' = exists \cup {u}
    /\ created' = [created EXCEPT ![u] = @ + 1]
    /\ Becomes(r, [req[r] EXCEPT !.pc = "read", !.seen = writes[u]])
    /\ UNCHANGED <<clock, stored, jar, writes, disturbed>>

\* 400 or 403, and the cookies stay: the password may be wrong, the token does not
\* match, a user is there who should not be or the other way round, or the
\* transaction rolled back.
Unwanted(r) ==
    LET u == req[r].target IN
    \/ req[r].pc = "hashed"
    \/ /\ req[r].pc = "sent"
       /\ \/ req[r].kind = "signin"
          \/ req[r].kind = "refresh" /\ (u \notin exists \/ stored[u] = NoToken \/ stored[u] # req[r].presented)
          \/ req[r].kind = "logout" /\ u \notin exists
          \/ req[r].kind = "signup" /\ u \in exists

Refuse(r) ==
    /\ Unwanted(r)
    /\ Becomes(r, Blank("done"))
    /\ UNCHANGED <<clock, db, jar, writes, disturbed>>

\* generateTokens; updateRefreshToken has yet to hash and to store.
Sign(r) ==
    /\ req[r].pc = "read"
    /\ Becomes(r, [req[r] EXCEPT !.pc = "signed", !.signed = <<req[r].target, clock>>])
    /\ UNCHANGED <<clock, db, jar, writes, disturbed>>

\* A refresh does not store what it signed.
Store_BugKeepsOld(r) ==
    LET u == req[r].target IN
    /\ req[r].pc = "signed"
    /\ stored' = [stored EXCEPT ![u] = IF req[r].kind = "refresh" THEN @ ELSE req[r].signed]
    /\ writes' = [writes EXCEPT ![u] = @ + 1]
    /\ Becomes(r, [req[r] EXCEPT !.pc = "stored"])
    /\ UNCHANGED <<clock, exists, created, jar, disturbed>>

\* UsersService.updateOne: whatever the row holds by now is overwritten, with
\* null by a logout.
Store(r) ==
    LET u == req[r].target IN
    /\ req[r].pc = "signed"
    /\ stored' = [stored EXCEPT ![u] = req[r].signed]
    /\ writes' = [writes EXCEPT ![u] = @ + 1]
    /\ Becomes(r, [req[r] EXCEPT !.pc = "stored"])
    /\ UNCHANGED <<clock, exists, created, jar, disturbed>>

\* The answer arrives: its cookies replace the browser's, or clear them.
Deliver(r) ==
    LET c == req[r].client
        previous == {Owner(t) : t \in {jar[c]} \ {NoToken}}
    IN
    /\ req[r].pc = "stored"
    /\ jar' = [jar EXCEPT ![c] = req[r].signed]
    /\ disturbed' = disturbed \cup (previous \ {req[r].target})
    /\ Becomes(r, Blank("done"))
    /\ UNCHANGED <<clock, db, writes>>

\* The process restarts, the database refuses, or the connection breaks: the
\* request gets no further, and what it has written stays.
Drop(r) ==
    /\ req[r].pc \notin {"new", "done"}
    /\ disturbed' = IF req[r].pc = "stored"
                    THEN disturbed \cup {req[r].target} ELSE disturbed
    /\ Becomes(r, Blank("done"))
    /\ UNCHANGED <<clock, db, jar, writes>>

Tick ==
    /\ clock < MaxClock
    /\ clock' = clock + 1
    /\ UNCHANGED <<db, jar, req, writes, disturbed>>

Serve(r) ==
    \/ ReadSignIn(r) \/ ReadRefresh(r) \/ ReadLogout(r) \/ ReadSignUp(r)
    \/ CreateUser(r) \/ Refuse(r)
    \/ Sign(r) \/ Store(r) \/ Deliver(r)

Next ==
    \/ \E r \in Requests, c \in Clients :
          \/ SendRefresh(r, c) \/ SendLogout(r, c)
          \/ \E u \in Users : SendSignIn(r, c, u) \/ SendSignUp(r, c, u)
    \/ \E r \in Requests : Serve(r) \/ Drop(r)
    \/ Tick

Spec == Init /\ [][Next]_vars
-----------------------------------------------------------------------------
\* Every variable has its type, and a token is only ever stored for its owner.
TypeOK ==
    /\ clock \in 0..MaxClock
    /\ exists \subseteq Users
    /\ stored \in [Users -> Tokens \cup {NoToken}]
    /\ \A u \in Users : stored[u] # NoToken => Owner(stored[u]) = u
    /\ created \in [Users -> Nat]
    /\ jar \in [Clients -> Tokens \cup {NoToken}]
    /\ req \in [Requests -> Request]
    /\ writes \in [Users -> Nat]
    /\ disturbed \subseteq Users

\* Two sign-ups of one email, both past the "User already exists" check, make
\* one row and one user.created event.
UserOnce ==
    \A u \in Users :
        created[u] = IF u \in exists \ InitialUsers THEN 1 ELSE 0

\* A refresh that nobody has overtaken since it read the row is about to replace
\* exactly the token it was given: nothing but a write in between, which it does
\* not look for, can make it undo a logout or another rotation.
UnovertakenRefreshRotates ==
    \A r \in Requests :
        LET u == req[r].target IN
        /\ req[r].kind = "refresh" /\ req[r].pc \in {"read", "signed"}
        /\ req[r].seen = writes[u]
        => stored[u] = req[r].presented /\ stored[u] # NoToken

\* A session that was closed, or never opened, is opened only by a request that
\* checked a password, created the user, or was overtaken by the closing.
OpenedByPasswordOrRace ==
    [][\A u \in Users : stored[u] = NoToken /\ stored'[u] # NoToken =>
          \E r \in Requests :
              /\ req[r].target = u /\ req[r].pc = "signed" /\ req'[r].pc = "stored"
              /\ req[r].kind \in {"signin", "signup"} \/ req[r].seen < writes[u]]_vars

\* Unless something disturbed the user's session, its token is in some browser
\* whenever no request of the user's is under way: rotation locks nobody out.
SessionUsable ==
    \A u \in Users \ disturbed :
        InFlight(u) = {} /\ stored[u] # NoToken =>
            \E c \in Clients : jar[c] = stored[u]
=============================================================================
