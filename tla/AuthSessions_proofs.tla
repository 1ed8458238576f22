------------------------- MODULE AuthSessions_proofs -------------------------
(***************************************************************************)
(* What the refresh-token rotation guarantees of a user's session, for any *)
(* number of users, browsers and requests, any lifetimes of the tokens and *)
(* any bound on time.                                                      *)
(***************************************************************************)
EXTENDS AuthSessions, TLAPS

\* A request past its guard is about a user; it knows how often the user's token
\* had been written when it read the row; and it signs for that user alone.
RequestOK(r) ==
    LET u == req[r].target IN
    /\ req[r].pc \notin {"new", "done"} => u \in Users /\ req[r].client \in Clients
    /\ req[r].pc = "hashed" => req[r].kind = "signup"
    /\ req[r].pc = "read" => req[r].kind # "logout"
    /\ req[r].pc = "signed" =>
          /\ req[r].signed # NoToken => Owner(req[r].signed) = u
          /\ req[r].kind = "logout" => req[r].signed = NoToken
    /\ req[r].pc \in {"sent", "hashed", "read"} => req[r].signed = NoToken
    /\ req[r].pc \in {"read", "signed"} => req[r].seen <= writes[u]

\* UnovertakenRefreshRotates, for one request.
Rotates(r) ==
    LET u == req[r].target IN
    req[r].kind = "refresh" /\ req[r].pc \in {"read", "signed"} /\ req[r].seen = writes[u]
        => stored[u] = req[r].presented /\ stored[u] # NoToken

InitialThere == InitialUsers \subseteq exists

SessionInv ==
    /\ TypeOK
    /\ UserOnce /\ InitialThere
    /\ \A r \in Requests : RequestOK(r) /\ Rotates(r)

LEMMA RequestRecord ==
    ASSUME TypeOK, NEW r \in Requests, NEW new, Becomes(r, new), new \in Request
    PROVE  /\ req'[r] = new
           /\ \A s \in Requests : s # r => req'[s] = req[s]
           /\ req' \in [Requests -> Request]
BY DEF TypeOK, Becomes

LEMMA BlankDone ==
    /\ Blank("done") \in Request /\ Blank("done").pc = "done"
    /\ Blank("new") \in Request /\ Blank("new").pc = "new"
BY DEF Blank, Request

\* A step of one request that leaves the stored tokens alone.
LEMMA RequestStep ==
    ASSUME SessionInv, NEW r \in Requests, NEW new, Becomes(r, new), new \in Request,
           UNCHANGED <<clock, exists, stored, created, writes>>,
           jar' \in [Clients -> Tokens \cup {NoToken}], disturbed' \subseteq Users,
           RequestOK(r)', Rotates(r)'
    PROVE  SessionInv'
<1>1. TypeOK
  BY DEF SessionInv
<1>2. /\ req' \in [Requests -> Request] /\ \A s \in Requests : s # r => req'[s] = req[s]
  BY <1>1, RequestRecord
<1>3. TypeOK'
  BY <1>1, <1>2 DEF TypeOK
<1>4. UserOnce' /\ InitialThere'
  BY DEF SessionInv, UserOnce, InitialThere
<1>5. \A s \in Requests : s # r => RequestOK(s)' /\ Rotates(s)'
  BY <1>2 DEF SessionInv, RequestOK, Rotates
<1> QED BY <1>3, <1>4, <1>5 DEF SessionInv

LEMMA Ended ==
    ASSUME NEW r \in Requests, req'[r].pc = "done"
    PROVE  RequestOK(r)' /\ Rotates(r)'
BY DEF RequestOK, Rotates

LEMMA SendKeeps ==
    ASSUME SessionInv, NEW r \in Requests, NEW c \in Clients, NEW k, NEW u \in Users,
           k \in {"signup", "signin", "refresh", "logout"}, Send(r, c, k, u)
    PROVE  SessionInv'
<1> DEFINE new == [pc |-> "sent", kind |-> k, client |-> c, target |-> u,
                   presented |-> jar[c], signed |-> NoToken, seen |-> 0]
<1>1. TypeOK /\ Becomes(r, new)
  BY DEF SessionInv, Send
<1>2. new \in Request /\ new.pc = "sent" /\ new.target = u /\ new.signed = NoToken /\ new.client = c
  BY <1>1 DEF Request, TypeOK
<1> HIDE DEF new
<1>3. req'[r] = new
  BY <1>1, <1>2, RequestRecord
<1>4. RequestOK(r)' /\ Rotates(r)'
  BY <1>2, <1>3 DEF RequestOK, Rotates
<1>5. UNCHANGED <<clock, exists, stored, created, writes, jar>> /\ disturbed' \subseteq Users
  BY <1>1 DEF Send, db, TypeOK
<1> QED BY <1>1, <1>2, <1>4, <1>5, RequestStep DEF TypeOK

\* Reading the row of a user, whatever for.
LEMMA ReadingKeeps ==
    ASSUME SessionInv, NEW r \in Requests,
           ReadSignIn(r) \/ ReadRefresh(r) \/ ReadLogout(r) \/ ReadSignUp(r)
    PROVE  SessionInv'
<1> DEFINE u == req[r].target
<1>1. TypeOK /\ RequestOK(r) /\ req[r] \in Request /\ req[r].pc = "sent"
      /\ u \in Users /\ req[r].signed = NoToken /\ writes[u] \in Nat
  BY DEF SessionInv, TypeOK, RequestOK, ReadSignIn, ReadRefresh, ReadLogout, ReadSignUp
<1>2. UNCHANGED <<clock, exists, stored, created, writes, jar, disturbed>>
  BY DEF ReadSignIn, ReadRefresh, ReadLogout, ReadSignUp, db
<1>3. PICK label \in {"hashed", "read", "signed"}, n \in {req[r].seen, writes[u]} :
        /\ Becomes(r, [req[r] EXCEPT !.pc = label, !.seen = n])
        /\ label # "hashed" => n = writes[u]
        /\ label = "hashed" => req[r].kind = "signup"
        /\ label = "read" => req[r].kind # "logout"
        /\ req[r].kind = "refresh" => stored[u] = req[r].presented /\ stored[u] # NoToken
  <2>1. CASE ReadSignIn(r)
    BY <2>1 DEF ReadSignIn
  <2>2. CASE ReadRefresh(r)
    BY <2>2 DEF ReadRefresh
  <2>3. CASE ReadLogout(r)
    BY <2>3 DEF ReadLogout
  <2>4. CASE ReadSignUp(r)
    <3>1. [req[r] EXCEPT !.pc = "hashed"] = [req[r] EXCEPT !.pc = "hashed", !.seen = req[r].seen]
      BY <1>1 DEF Request
    <3> QED BY <2>4, <3>1 DEF ReadSignUp
  <2> QED BY <2>1, <2>2, <2>3, <2>4
<1> DEFINE new == [req[r] EXCEPT !.pc = label, !.seen = n]
<1>4. /\ new \in Request /\ new.pc = label /\ new.seen = n /\ new.target = u
      /\ new.kind = req[r].kind /\ new.signed = req[r].signed /\ new.presented = req[r].presented
      /\ new.client = req[r].client
  BY <1>1 DEF Request
<1> HIDE DEF new
<1>5. req'[r] = new
  BY <1>1, <1>3, <1>4, RequestRecord DEF new
<1>6. RequestOK(r)' /\ Rotates(r)'
  BY <1>1, <1>2, <1>3, <1>4, <1>5 DEF RequestOK, Rotates
<1> QED BY <1>1, <1>2, <1>3, <1>4, <1>6, RequestStep DEF TypeOK, new

LEMMA CreateUserKeeps ==
    ASSUME SessionInv, NEW r \in Requests, CreateUser(r)
    PROVE  SessionInv'
<1> DEFINE u == req[r].target
           new == [req[r] EXCEPT !.pc = "read", !.seen = writes[u]]
<1>1. TypeOK /\ UserOnce /\ RequestOK(r) /\ req[r] \in Request /\ req[r].pc = "hashed"
      /\ u \in Users /\ writes[u] \in Nat /\ req[r].kind = "signup" /\ req[r].signed = NoToken
  BY DEF SessionInv, TypeOK, RequestOK, CreateUser
<1>2. /\ Becomes(r, new) /\ u \notin exists
      /\ exists' = exists \cup {u} /\ created' = [created EXCEPT ![u] = @ + 1]
      /\ UNCHANGED <<clock, stored, jar, writes, disturbed>>
  BY DEF CreateUser
<1>3. /\ new \in Request /\ new.pc = "read" /\ new.seen = writes[u] /\ new.target = u
      /\ new.kind = "signup" /\ new.signed = NoToken /\ new.client = req[r].client
  BY <1>1 DEF Request
<1> HIDE DEF new
<1>4. /\ req'[r] = new /\ \A s \in Requests : s # r => req'[s] = req[s]
      /\ req' \in [Requests -> Request]
  BY <1>1, <1>2, <1>3, RequestRecord
<1>5. created \in [Users -> Nat] /\ created[u] = 0
  BY <1>1, <1>2 DEF UserOnce, TypeOK
<1>6. TypeOK'
  BY <1>1, <1>2, <1>4, <1>5 DEF TypeOK
<1>7. UserOnce'
  <2>1. u \notin InitialUsers
    BY <1>1, <1>2 DEF SessionInv, InitialThere
  <2> QED BY <1>1, <1>2, <1>5, <2>1 DEF UserOnce
<1>8. RequestOK(r)' /\ Rotates(r)'
  BY <1>1, <1>2, <1>3, <1>4 DEF RequestOK, Rotates
<1>9. \A s \in Requests : s # r => RequestOK(s)' /\ Rotates(s)'
  BY <1>2, <1>4 DEF SessionInv, RequestOK, Rotates
<1>10. InitialThere'
  BY <1>2 DEF SessionInv, InitialThere
<1> QED BY <1>6, <1>7, <1>8, <1>9, <1>10 DEF SessionInv

LEMMA SignKeeps ==
    ASSUME SessionInv, NEW r \in Requests, Sign(r)
    PROVE  SessionInv'
<1> DEFINE u == req[r].target
           new == [req[r] EXCEPT !.pc = "signed", !.signed = <<u, clock>>]
<1>1. TypeOK /\ RequestOK(r) /\ Rotates(r) /\ req[r] \in Request /\ req[r].pc = "read"
      /\ u \in Users /\ clock \in 0..MaxClock /\ req[r].kind # "logout"
  BY DEF SessionInv, TypeOK, RequestOK, Sign
<1>2. Becomes(r, new) /\ UNCHANGED <<clock, exists, stored, created, writes, jar, disturbed>>
  BY DEF Sign, db
<1>3. <<u, clock>> \in Tokens /\ Owner(<<u, clock>>) = u
  BY <1>1 DEF Tokens, Owner
<1>4. /\ new \in Request /\ new.pc = "signed" /\ new.seen = req[r].seen /\ new.target = u
      /\ new.kind = req[r].kind /\ new.signed = <<u, clock>> /\ new.presented = req[r].presented
      /\ new.client = req[r].client
  BY <1>1, <1>3 DEF Request
<1> HIDE DEF new
<1>5. req'[r] = new
  BY <1>1, <1>2, <1>4, RequestRecord
<1>6. RequestOK(r)' /\ Rotates(r)'
  BY <1>1, <1>2, <1>3, <1>4, <1>5 DEF RequestOK, Rotates
<1> QED BY <1>1, <1>2, <1>4, <1>6, RequestStep DEF TypeOK

LEMMA StoreKeeps ==
    ASSUME SessionInv, NEW r \in Requests, Store(r)
    PROVE  SessionInv'
<1> DEFINE u == req[r].target
           new == [req[r] EXCEPT !.pc = "stored"]
<1>1. TypeOK /\ RequestOK(r) /\ req[r] \in Request /\ req[r].pc = "signed" /\ u \in Users
      /\ req[r].signed \in Tokens \cup {NoToken}
      /\ (req[r].signed # NoToken => Owner(req[r].signed) = u)
  BY DEF SessionInv, TypeOK, RequestOK, Store, Request
<1>2. /\ Becomes(r, new) /\ UNCHANGED <<clock, exists, created, jar, disturbed>>
      /\ stored' = [stored EXCEPT ![u] = req[r].signed]
      /\ writes' = [writes EXCEPT ![u] = @ + 1]
  BY DEF Store
<1>3. new \in Request /\ new.pc = "stored" /\ new.target = u /\ new.client = req[r].client
  BY <1>1 DEF Request
<1> HIDE DEF new
<1>4. /\ req'[r] = new /\ \A s \in Requests : s # r => req'[s] = req[s]
      /\ req' \in [Requests -> Request]
  BY <1>1, <1>2, <1>3, RequestRecord
<1>5. writes \in [Users -> Nat] /\ stored \in [Users -> Tokens \cup {NoToken}]
      /\ req \in [Requests -> Request]
  BY <1>1 DEF TypeOK
<1>6. TypeOK'
  BY <1>1, <1>2, <1>4, <1>5 DEF TypeOK
<1>7. UserOnce' /\ InitialThere'
  BY <1>2 DEF SessionInv, UserOnce, InitialThere
<1>8. RequestOK(r)' /\ Rotates(r)'
  BY <1>1, <1>3, <1>4 DEF RequestOK, Rotates
<1>9. ASSUME NEW s \in Requests, s # r PROVE RequestOK(s)' /\ Rotates(s)'
  <2>1. req'[s] = req[s] /\ RequestOK(s) /\ Rotates(s) /\ req[s].seen \in Nat
    BY <1>4, <1>5, <1>9 DEF SessionInv, Request
  <2>2. CASE req[s].pc \in {"read", "signed"}
    <3>1. req[s].target \in Users /\ req[s].seen <= writes[req[s].target]
      BY <2>1, <2>2 DEF RequestOK
    <3>2. CASE req[s].target = u
      <4>1. req[s].seen <= writes'[u] /\ req[s].seen # writes'[u]
        BY <1>1, <1>2, <1>5, <2>1, <3>1, <3>2
      <4> QED BY <2>1, <3>2, <4>1 DEF RequestOK, Rotates
    <3>3. CASE req[s].target # u
      <4>1. /\ writes'[req[s].target] = writes[req[s].target]
            /\ stored'[req[s].target] = stored[req[s].target]
        BY <1>2, <1>5, <3>1, <3>3
      <4> QED BY <2>1, <4>1 DEF RequestOK, Rotates
    <3> QED BY <3>2, <3>3
  <2>3. CASE req[s].pc \notin {"read", "signed"}
    BY <2>1, <2>3 DEF RequestOK, Rotates
  <2> QED BY <2>2, <2>3
<1> QED BY <1>6, <1>7, <1>8, <1>9 DEF SessionInv

\* The request is over: refused, answered or lost.
LEMMA EndKeeps ==
    ASSUME SessionInv, NEW r \in Requests, Refuse(r) \/ Deliver(r) \/ Drop(r)
    PROVE  SessionInv'
<1>1. TypeOK /\ req[r] \in Request
  BY DEF SessionInv, TypeOK
<1>2. Becomes(r, Blank("done")) /\ UNCHANGED <<clock, exists, stored, created, writes>>
  BY DEF Refuse, Deliver, Drop, db
<1>3. req'[r].pc = "done"
  BY <1>1, <1>2, BlankDone, RequestRecord
<1>4. jar' \in [Clients -> Tokens \cup {NoToken}] /\ disturbed' \subseteq Users
  <2>1. CASE Refuse(r)
    BY <1>1, <2>1 DEF Refuse, TypeOK
  <2>2. CASE Deliver(r)
    <3>1. req[r].signed \in Tokens \cup {NoToken} /\ req[r].client \in Clients
      BY <1>1, <2>2 DEF Request, Deliver, SessionInv, RequestOK
    <3>2. jar \in [Clients -> Tokens \cup {NoToken}]
      BY <1>1 DEF TypeOK
    <3>3. {Owner(t) : t \in {jar[req[r].client]} \ {NoToken}} \subseteq Users
      BY <3>1, <3>2 DEF Tokens, Owner
    <3>4. /\ jar' = [jar EXCEPT ![req[r].client] = req[r].signed]
          /\ disturbed' \subseteq disturbed \cup {Owner(t) : t \in {jar[req[r].client]} \ {NoToken}}
      BY <2>2 DEF Deliver
    <3> QED BY <1>1, <3>1, <3>2, <3>3, <3>4 DEF TypeOK
  <2>3. CASE Drop(r)
    BY <1>1, <2>3 DEF Drop, TypeOK, SessionInv, RequestOK
  <2> QED BY <2>1, <2>2, <2>3
<1>5. RequestOK(r)' /\ Rotates(r)'
  BY <1>3, Ended
<1> QED BY <1>2, <1>4, <1>5, BlankDone, RequestStep
-----------------------------------------------------------------------------
\* What rotation rests on: whoever has read the row knows how often its token had
\* been written, and has replaced it by nothing yet.
THEOREM SessionsConsistent == Spec => []SessionInv
<1>1. Init => SessionInv
  <2> SUFFICES ASSUME Init PROVE SessionInv
    OBVIOUS
  <2>1. /\ req = [r \in Requests |-> Blank("new")] /\ exists = InitialUsers
        /\ created = [u \in Users |-> 0] /\ stored = [u \in Users |-> NoToken]
    BY DEF Init
  <2>2. TypeOK
    BY <2>1, BlankDone, UsersAssumption, TimeAssumption DEF Init, TypeOK
  <2>3. UserOnce /\ InitialThere
    BY <2>1 DEF UserOnce, InitialThere
  <2>4. \A r \in Requests : RequestOK(r) /\ Rotates(r)
    BY <2>1, BlankDone DEF RequestOK, Rotates
  <2> QED BY <2>2, <2>3, <2>4 DEF SessionInv
<1>2. SessionInv /\ [Next]_vars => SessionInv'
  <2> SUFFICES ASSUME SessionInv, [Next]_vars PROVE SessionInv'
    OBVIOUS
  <2>1. ASSUME NEW r \in Requests, NEW c \in Clients,
               \/ SendRefresh(r, c) \/ SendLogout(r, c)
               \/ \E u \in Users : SendSignIn(r, c, u) \/ SendSignUp(r, c, u)
        PROVE  SessionInv'
    <3>1. Unexpired(jar[c], RefreshTTL) => Owner(jar[c]) \in Users
      BY DEF Unexpired, SessionInv, TypeOK, Tokens, Owner
    <3> QED BY <2>1, <3>1, SendKeeps DEF SendRefresh, SendLogout, SendSignIn, SendSignUp
  <2>2. ASSUME NEW r \in Requests, Serve(r) \/ Drop(r) PROVE SessionInv'
    BY <2>2, ReadingKeeps, CreateUserKeeps, SignKeeps, StoreKeeps, EndKeeps DEF Serve
  <2>3. CASE Tick
    <3>1. clock' \in 0..MaxClock
      BY <2>3, TimeAssumption DEF Tick, SessionInv, TypeOK
    <3>2. UNCHANGED <<exists, stored, created, jar, req, writes, disturbed>>
      BY <2>3 DEF Tick, db
    <3> QED BY <3>1, <3>2 DEF SessionInv, TypeOK, UserOnce, InitialThere, RequestOK, Rotates
  <2>4. CASE UNCHANGED vars
    BY <2>4 DEF vars, SessionInv, TypeOK, UserOnce, InitialThere, RequestOK, Rotates
  <2> QED BY <2>1, <2>2, <2>3, <2>4 DEF Next
<1> QED BY <1>1, <1>2, PTL DEF Spec

\* The variables keep their types, and a user's row only ever holds a token of that
\* user's.
THEOREM TokensTyped == Spec => []TypeOK
<1>1. SessionInv => TypeOK
  BY DEF SessionInv
<1> QED BY <1>1, SessionsConsistent, PTL

\* Concurrent sign-ups of one email make one user and one event.
THEOREM UsersCreatedOnce == Spec => []UserOnce
<1>1. SessionInv => UserOnce
  BY DEF SessionInv
<1> QED BY <1>1, SessionsConsistent, PTL

\* Only a write after its read can make a refresh replace anything but the token it
\* was given.
THEOREM RefreshRotates == Spec => []UnovertakenRefreshRotates
<1>1. SessionInv => UnovertakenRefreshRotates
  BY DEF SessionInv, Rotates, UnovertakenRefreshRotates
<1> QED BY <1>1, SessionsConsistent, PTL

\* A closed session is opened only by a password, a new user, or a refresh that the
\* closing overtook.
THEOREM SessionsOpenedRightly == Spec => OpenedByPasswordOrRace
<1> DEFINE Opened(u) == stored[u] = NoToken /\ stored'[u] # NoToken =>
              \E r \in Requests :
                  /\ req[r].target = u /\ req[r].pc = "signed" /\ req'[r].pc = "stored"
                  /\ req[r].kind \in {"signin", "signup"} \/ req[r].seen < writes[u]
<1>1. SessionInv /\ [Next]_vars => [\A u \in Users : Opened(u)]_vars
  <2> SUFFICES ASSUME SessionInv, Next, NEW u \in Users,
                      stored[u] = NoToken, stored'[u] # NoToken
               PROVE  \E r \in Requests :
                          /\ req[r].target = u /\ req[r].pc = "signed" /\ req'[r].pc = "stored"
                          /\ req[r].kind \in {"signin", "signup"} \/ req[r].seen < writes[u]
    OBVIOUS
  <2>1. PICK r \in Requests : Store(r)
    BY DEF Next, Serve, SendRefresh, SendLogout, SendSignIn, SendSignUp, Send, ReadSignIn,
           ReadRefresh, ReadLogout, ReadSignUp, CreateUser, Refuse, Sign, Deliver, Drop,
           Tick, db
  <2>2. TypeOK /\ RequestOK(r) /\ Rotates(r) /\ req[r] \in Request
    BY DEF SessionInv, TypeOK
  <2>3. req[r].pc = "signed" /\ stored' = [stored EXCEPT ![req[r].target] = req[r].signed]
    BY <2>1 DEF Store
  <2>4. req[r].target = u /\ req[r].signed # NoToken
    BY <2>2, <2>3 DEF TypeOK
  <2>5. req'[r].pc = "stored"
    <3> DEFINE new == [req[r] EXCEPT !.pc = "stored"]
    <3>1. new \in Request /\ new.pc = "stored" /\ Becomes(r, new)
      BY <2>1, <2>2 DEF Request, Store
    <3> HIDE DEF new
    <3> QED BY <2>2, <3>1, RequestRecord
  <2>6. req[r].kind \in {"signin", "signup", "refresh"}
    BY <2>2, <2>3, <2>4 DEF RequestOK, Request
  <2>7. req[r].kind = "refresh" => req[r].seen < writes[u]
    <3>1. req[r].seen \in Nat /\ writes[u] \in Nat /\ req[r].seen <= writes[u]
      BY <2>2, <2>3, <2>4 DEF RequestOK, Request, TypeOK
    <3>2. req[r].kind = "refresh" => req[r].seen # writes[u]
      BY <2>2, <2>3, <2>4 DEF Rotates
    <3> QED BY <3>1, <3>2
  <2> QED BY <2>3, <2>4, <2>5, <2>6, <2>7
<1> QED BY <1>1, SessionsConsistent, PTL DEF Spec, OpenedByPasswordOrRace
-----------------------------------------------------------------------------
\* Why an undisturbed user can go on: at most one request is about the user, an
\* answer on its way carries what the row holds, and what the row holds is in a
\* browser or on its way there.
Usable(u) ==
    /\ \A r, s \in InFlight(u) : r = s
    /\ \A r \in InFlight(u) : req[r].pc = "stored" => req[r].signed = stored[u]
    /\ stored[u] # NoToken =>
          \/ \E c \in Clients : jar[c] = stored[u]
          \/ \E r \in InFlight(u) : req[r].pc = "stored"

UsableInv == \A u \in Users \ disturbed : Usable(u)

\* A step of request r moves at most r between the sets of requests under way.
LEMMA InFlightStep ==
    ASSUME TypeOK, NEW r \in Requests, NEW new, Becomes(r, new), new \in Request, NEW u \in Users
    PROVE  /\ \A s \in Requests : s # r => (s \in InFlight(u)' <=> s \in InFlight(u))
           /\ r \in InFlight(u)' <=> new.target = u /\ new.pc # "done"
           /\ InFlight(u) \subseteq Requests /\ InFlight(u)' \subseteq Requests
           /\ req'[r] = new /\ \A s \in Requests : s # r => req'[s] = req[s]
BY RequestRecord DEF InFlight

LEMMA SendUsable ==
    ASSUME SessionInv, UsableInv, NEW r \in Requests, NEW c \in Clients, NEW k, NEW u \in Users,
           k \in {"signup", "signin", "refresh", "logout"}, Send(r, c, k, u)
    PROVE  UsableInv'
<1> DEFINE new == [pc |-> "sent", kind |-> k, client |-> c, target |-> u,
                   presented |-> jar[c], signed |-> NoToken, seen |-> 0]
<1>1. TypeOK /\ Becomes(r, new) /\ req[r].pc = "new" /\ UNCHANGED <<stored, jar>>
  BY DEF SessionInv, Send, db
<1>2. new \in Request /\ new.pc = "sent" /\ new.target = u
  BY <1>1 DEF Request, TypeOK
<1> HIDE DEF new
<1>3. SUFFICES ASSUME NEW v \in Users, v \notin disturbed' PROVE Usable(v)'
  BY DEF UsableInv
<1>4. v \notin disturbed /\ Usable(v) /\ (v = u => InFlight(u) = {})
  BY <1>3 DEF Send, UsableInv
<1> QED BY <1>1, <1>2, <1>4, InFlightStep DEF Usable

\* A request of the user's goes on towards storing a token, or is turned away.
LEMMA ServeUsable ==
    ASSUME SessionInv, UsableInv, NEW r \in Requests, NEW new, Becomes(r, new), new \in Request,
           UNCHANGED <<stored, jar, disturbed>>, req[r].pc # "stored", new.pc # "stored",
           new.pc = "done" \/ (new.target = req[r].target /\ req[r].pc # "done")
    PROVE  UsableInv'
<1>1. SUFFICES ASSUME NEW u \in Users, u \notin disturbed PROVE Usable(u)'
  BY DEF UsableInv
<1>2. TypeOK /\ Usable(u)
  BY <1>1 DEF UsableInv, SessionInv
<1>3. r \in InFlight(u)' => r \in InFlight(u)
  BY <1>2, InFlightStep DEF InFlight
<1> QED BY <1>2, <1>3, InFlightStep DEF Usable

LEMMA StoreUsable ==
    ASSUME SessionInv, UsableInv, NEW r \in Requests, Store(r)
    PROVE  UsableInv'
<1> DEFINE u == req[r].target
           new == [req[r] EXCEPT !.pc = "stored"]
<1>1. /\ TypeOK /\ Becomes(r, new) /\ UNCHANGED <<jar, disturbed>>
      /\ req[r].pc = "signed" /\ req[r] \in Request /\ u \in Users
      /\ stored' = [stored EXCEPT ![u] = req[r].signed]
  BY DEF SessionInv, Store, TypeOK, RequestOK
<1>2. /\ new \in Request /\ new.pc = "stored" /\ new.target = u /\ new.signed = req[r].signed
      /\ r \in InFlight(u)
  BY <1>1 DEF Request, InFlight
<1> HIDE DEF new
<1>3. SUFFICES ASSUME NEW v \in Users, v \notin disturbed PROVE Usable(v)'
  BY <1>1 DEF UsableInv
<1>4. Usable(v) /\ stored' \in [Users -> Tokens \cup {NoToken}]
  BY <1>1, <1>3 DEF UsableInv, TypeOK, Request
<1>5. CASE v = u
  <2>1. stored'[u] = req[r].signed
    BY <1>1 DEF TypeOK
  <2>2. InFlight(u)' = {r}
    BY <1>1, <1>2, <1>4, <1>5, InFlightStep DEF Usable
  <2> QED BY <1>1, <1>2, <1>5, <2>1, <2>2, InFlightStep DEF Usable
<1>6. CASE v # u
  <2>1. stored'[v] = stored[v]
    BY <1>1, <1>6 DEF TypeOK
  <2>2. r \notin InFlight(v) /\ r \notin InFlight(v)'
    BY <1>1, <1>2, <1>6, InFlightStep DEF InFlight
  <2> QED BY <1>1, <1>2, <1>4, <2>1, <2>2, InFlightStep DEF Usable
<1> QED BY <1>5, <1>6

\* The answer puts the row's token into a browser; if that browser held somebody
\* else's, that somebody is disturbed.
LEMMA DeliverUsable ==
    ASSUME SessionInv, UsableInv, NEW r \in Requests, Deliver(r)
    PROVE  UsableInv'
<1> DEFINE c == req[r].client
           previous == {Owner(t) : t \in {jar[c]} \ {NoToken}}
<1>1. /\ TypeOK /\ Becomes(r, Blank("done")) /\ UNCHANGED stored
      /\ req[r].pc = "stored" /\ req[r].target \in Users /\ c \in Clients
      /\ jar' = [jar EXCEPT ![c] = req[r].signed]
      /\ disturbed' = disturbed \cup (previous \ {req[r].target})
  BY DEF SessionInv, Deliver, RequestOK, db
<1>2. jar \in [Clients -> Tokens \cup {NoToken}] /\ jar'[c] = req[r].signed
      /\ \A d \in Clients : d # c => jar'[d] = jar[d]
  BY <1>1 DEF TypeOK
<1>3. SUFFICES ASSUME NEW u \in Users, u \notin disturbed' PROVE Usable(u)'
  BY DEF UsableInv
<1>4. u \notin disturbed /\ Usable(u)
  BY <1>1, <1>3 DEF UsableInv
<1>5. r \notin InFlight(u)'
  BY <1>1, BlankDone, InFlightStep
<1>6. ASSUME stored[u] # NoToken
      PROVE  (\E d \in Clients : jar'[d] = stored[u])
                \/ (\E s \in InFlight(u)' : req'[s].pc = "stored")
  <2>1. CASE req[r].target = u
    <3>1. r \in InFlight(u) /\ req[r].signed = stored[u]
      BY <1>1, <1>4, <2>1 DEF Usable, InFlight
    <3> QED BY <1>1, <1>2, <3>1
  <2>2. CASE req[r].target # u
    <3>1. jar[c] # stored[u]
      <4>1. Owner(stored[u]) = u /\ u \notin previous
        BY <1>1, <1>3, <1>6, <2>2 DEF TypeOK
      <4> QED BY <1>6, <4>1
    <3>2. r \notin InFlight(u)
      BY <2>2 DEF InFlight
    <3> QED BY <1>1, <1>2, <1>4, <1>6, <3>1, <3>2, BlankDone, InFlightStep DEF Usable
  <2> QED BY <2>1, <2>2
<1> QED BY <1>1, <1>4, <1>5, <1>6, BlankDone, InFlightStep DEF Usable

\* An answer that is lost disturbs its user; a request that is lost earlier leaves
\* the row as it was.
LEMMA DropUsable ==
    ASSUME SessionInv, UsableInv, NEW r \in Requests, Drop(r)
    PROVE  UsableInv'
<1>1. TypeOK /\ Becomes(r, Blank("done")) /\ UNCHANGED <<stored, jar>>
  BY DEF SessionInv, Drop, db
<1>2. SUFFICES ASSUME NEW u \in Users, u \notin disturbed' PROVE Usable(u)'
  BY DEF UsableInv
<1>3. Usable(u) /\ (r \in InFlight(u) => req[r].pc # "stored")
  BY <1>2 DEF UsableInv, Drop, InFlight
<1>4. r \notin InFlight(u)'
  BY <1>1, BlankDone, InFlightStep
<1> QED BY <1>1, <1>3, <1>4, BlankDone, InFlightStep DEF Usable

LEMMA ServesUsable ==
    ASSUME SessionInv, UsableInv, NEW r \in Requests, Serve(r)
    PROVE  UsableInv'
<1>1. TypeOK /\ req[r] \in Request /\ RequestOK(r)
  BY DEF SessionInv, TypeOK
<1>2. ASSUME NEW label \in {"hashed", "read", "signed"}, NEW n \in Nat, NEW t \in Tokens \cup {NoToken},
             req[r].pc \in {"sent", "hashed", "read"}, UNCHANGED <<stored, jar, disturbed>>,
             Becomes(r, [req[r] EXCEPT !.pc = label, !.seen = n, !.signed = t])
      PROVE  UsableInv'
  <2> DEFINE new == [req[r] EXCEPT !.pc = label, !.seen = n, !.signed = t]
  <2>1. new \in Request /\ new.pc = label /\ new.target = req[r].target
    BY <1>1, <1>2 DEF Request
  <2> HIDE DEF new
  <2> QED BY <1>2, <2>1, ServeUsable DEF new
<1>3. CASE ReadSignIn(r) \/ ReadRefresh(r) \/ ReadLogout(r) \/ ReadSignUp(r) \/ CreateUser(r)
  <2>1. /\ req[r].pc \in {"sent", "hashed"} /\ req[r].target \in Users
        /\ writes[req[r].target] \in Nat /\ req[r].seen \in Nat
        /\ req[r].signed \in Tokens \cup {NoToken}
    BY <1>1, <1>3 DEF ReadSignIn, ReadRefresh, ReadLogout, ReadSignUp, CreateUser, RequestOK, TypeOK, Request
  <2>2. \A label \in {"hashed", "read", "signed"}, n \in Nat :
          [req[r] EXCEPT !.pc = label, !.seen = n] =
              [req[r] EXCEPT !.pc = label, !.seen = n, !.signed = req[r].signed]
    BY <1>1 DEF Request
  <2>3. [req[r] EXCEPT !.pc = "hashed"] = [req[r] EXCEPT !.pc = "hashed", !.seen = req[r].seen]
    BY <1>1 DEF Request
  <2>4. UNCHANGED <<stored, jar, disturbed>>
    BY <1>3 DEF ReadSignIn, ReadRefresh, ReadLogout, ReadSignUp, CreateUser, db
  <2>5. PICK label \in {"hashed", "read", "signed"}, n \in {req[r].seen, writes[req[r].target]} :
            Becomes(r, [req[r] EXCEPT !.pc = label, !.seen = n])
    BY <1>3, <2>3 DEF ReadSignIn, ReadRefresh, ReadLogout, ReadSignUp, CreateUser
  <2>6. Becomes(r, [req[r] EXCEPT !.pc = label, !.seen = n, !.signed = req[r].signed])
    BY <2>1, <2>2, <2>5
  <2> QED BY <1>2, <2>1, <2>4, <2>6
<1>4. CASE Sign(r)
  <2> DEFINE t == <<req[r].target, clock>>
  <2>1. req[r].pc = "read" /\ t \in Tokens /\ req[r].seen \in Nat
    BY <1>1, <1>4 DEF Sign, RequestOK, TypeOK, Tokens, Request
  <2>2. [req[r] EXCEPT !.pc = "signed", !.signed = t] =
            [req[r] EXCEPT !.pc = "signed", !.seen = req[r].seen, !.signed = t]
    BY <1>1 DEF Request
  <2> QED BY <1>2, <1>4, <2>1, <2>2 DEF Sign, db
<1>5. CASE Refuse(r)
  BY <1>5, BlankDone, ServeUsable DEF Refuse, Unwanted, db
<1> QED BY <1>3, <1>4, <1>5, StoreUsable, DeliverUsable DEF Serve

LEMMA UsableStep == SessionInv /\ UsableInv /\ [Next]_vars => UsableInv'
<1> SUFFICES ASSUME SessionInv, UsableInv, [Next]_vars PROVE UsableInv'
  OBVIOUS
<1>1. ASSUME NEW r \in Requests, NEW c \in Clients,
             \/ SendRefresh(r, c) \/ SendLogout(r, c)
             \/ \E u \in Users : SendSignIn(r, c, u) \/ SendSignUp(r, c, u)
      PROVE  UsableInv'
  <2>1. Unexpired(jar[c], RefreshTTL) => Owner(jar[c]) \in Users
    BY DEF Unexpired, SessionInv, TypeOK, Tokens, Owner
  <2> QED BY <1>1, <2>1, SendUsable DEF SendRefresh, SendLogout, SendSignIn, SendSignUp
<1>2. ASSUME NEW r \in Requests, Serve(r) \/ Drop(r) PROVE UsableInv'
  BY <1>2, ServesUsable, DropUsable
<1>3. CASE Tick \/ UNCHANGED vars
  BY <1>3 DEF Tick, vars, db, UsableInv, Usable, InFlight
<1> QED BY <1>1, <1>2, <1>3 DEF Next

\* Rotation locks nobody out: whoever is not disturbed and has no request under way
\* has the row's token in a browser.
THEOREM SessionsStayUsable == Spec => []SessionUsable
<1>1. Init => UsableInv
  <2> SUFFICES ASSUME Init, NEW u \in Users PROVE Usable(u)
    BY DEF UsableInv
  <2>1. InFlight(u) = {}
    BY UsersAssumption DEF Init, InFlight, Blank
  <2>2. stored[u] = NoToken
    BY DEF Init
  <2> QED BY <2>1, <2>2 DEF Usable
<1>2. UsableInv => SessionUsable
  BY DEF UsableInv, Usable, SessionUsable
<1> QED BY <1>1, <1>2, UsableStep, SessionsConsistent, PTL DEF Spec
=============================================================================
