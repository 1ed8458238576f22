----------------------------- MODULE OrderDelivery -----------------------------
(***************************************************************************)
(* TgBotService (src/src/tg-bot): an order or a feedback is posted to every *)
(* chat of TELEGRAM_CHAT_IDS at once, Promise.all waits for the answers,   *)
(* and the customer is told.  The first post that is rejected rejects the  *)
(* whole while the others are still out.  A post has no time limit, and a  *)
(* customer may leave and send the order again meanwhile.                  *)
(***************************************************************************)
EXTENDS Naturals

CONSTANTS
    Orders, Chats,
    MaxTries   \* bound: how often an order is sent

ASSUME MaxTriesAssumption == MaxTries \in Nat

VARIABLES
    pc,        \* the server's side of an attempt
    gone,      \* the attempts whose customers no longer wait
    transit,   \* transit[a][c]: the message is on its way to Telegram
    answer,    \* answer[a][c]: what came back, "none" until then
    inbox      \* inbox[c][a]: how often the message is in the chat

vars == <<pc, gone, transit, answer, inbox>>

Attempts == Orders \X (1 .. MaxTries)

Init ==
    /\ pc = [a \in Attempts |-> "idle"]
    /\ gone = {}
    /\ transit = [a \in Attempts |-> [c \in Chats |-> FALSE]]
    /\ answer = [a \in Attempts |-> [c \in Chats |-> "none"]]
    /\ inbox = [c \in Chats |-> [a \in Attempts |-> 0]]
-----------------------------------------------------------------------------
\* A customer who was told of a failure, or who waits no longer, sends it again.
MaySend(o, n) ==
    /\ pc[<<o, n>>] = "idle"
    /\ n > 1 => pc[<<o, n - 1>>] = "failed" \/ <<o, n - 1>> \in gone

\* callback, feedback: chatIds.map starts all the posts before anything else runs.
Send(o, n) ==
    /\ MaySend(o, n)
    /\ pc' = [pc EXCEPT ![<<o, n>>] = "sending"]
    /\ transit' = [transit EXCEPT ![<<o, n>>] = [c \in Chats |-> TRUE]]
    /\ UNCHANGED <<gone, answer, inbox>>

\* ThrottlerGuard (five in a minute) or the validation of the body answers instead.
Refuse(o, n) ==
    /\ MaySend(o, n)
    /\ pc' = [pc EXCEPT ![<<o, n>>] = "failed"]
    /\ UNCHANGED <<gone, transit, answer, inbox>>

\* Telegram takes the message, or it is lost on the way.
Arrive(a, c) ==
    /\ transit[a][c]
    /\ transit' = [transit EXCEPT ![a][c] = FALSE]
    /\ inbox' = [inbox EXCEPT ![c][a] = @ + 1]
    /\ UNCHANGED <<pc, gone, answer>>

Lose(a, c) ==
    /\ transit[a][c]
    /\ transit' = [transit EXCEPT ![a][c] = FALSE]
    /\ UNCHANGED <<pc, gone, answer, inbox>>

\* What can come back: ok of a message that is in the chat; `ok: false` of one that
\* is not; an error status or a broken connection at any time.
MayAnswer(a, c, x) ==
    /\ pc[a] # "idle" /\ answer[a][c] = "none"
    /\ x = "ok" => inbox[c][a] # 0
    /\ x = "not ok" => inbox[c][a] = 0 /\ ~transit[a][c]

Delivered_BugAny(responses) == \E c \in Chats : responses[c] = "ok"

\* sendToChats: none of the responses says `ok: false`.
Delivered(responses) == \A c \in Chats : responses[c] = "ok"

\* Promise.all and what follows it: rejected by the first error, decided by the
\* last response.
Settled(responses) ==
    IF \E c \in Chats : responses[c] = "error" THEN "failed"
    ELSE IF \E c \in Chats : responses[c] = "none" THEN "sending"
    ELSE IF Delivered(responses) THEN "success" ELSE "failed"

\* An answer that comes after the promise is settled changes nothing.
Answer(a, c, x) ==
    LET responses == [answer[a] EXCEPT ![c] = x] IN
    /\ MayAnswer(a, c, x)
    /\ answer' = [answer EXCEPT ![a] = responses]
    /\ pc' = [pc EXCEPT ![a] = IF @ = "sending" THEN Settled(responses) ELSE @]
    /\ UNCHANGED <<gone, transit, inbox>>

\* A customer leaves; the server does not notice.
Leave(a) ==
    /\ pc[a] = "sending" /\ a \notin gone
    /\ gone' = gone \cup {a}
    /\ UNCHANGED <<pc, transit, answer, inbox>>

\* The server is restarted: the connections break, the posts may be on their way.
Crash ==
    /\ \E a \in Attempts : pc[a] = "sending"
    /\ pc' = [a \in Attempts |-> IF pc[a] = "sending" THEN "failed" ELSE pc[a]]
    /\ UNCHANGED <<gone, transit, answer, inbox>>

Next ==
    \/ \E o \in Orders, n \in 1 .. MaxTries : Send(o, n) \/ Refuse(o, n)
    \/ \E a \in Attempts, c \in Chats :
          Arrive(a, c) \/ Lose(a, c) \/ \E x \in {"ok", "not ok", "error"} : Answer(a, c, x)
    \/ \E a \in Attempts : Leave(a)
    \/ Crash

Spec == Init /\ [][Next]_vars
-----------------------------------------------------------------------------
\* What the customer of an attempt knows.
View == [idle |-> "unsent", sending |-> "waiting", failed |-> "failure", success |-> "success"]
Told(a) == IF a \in gone THEN "nothing" ELSE View[pc[a]]

Inbox == INSTANCE OrderInbox WITH told <- [a \in Attempts |-> Told(a)]

\* A success is told only when every chat has the message, no attempt posts it
\* twice, and only a customer who was told of none makes it be there twice: the
\* deliveries, partly failed, late or repeated, implement the inbox.
ImplementsInbox == Inbox!Spec
=============================================================================
