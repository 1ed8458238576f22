------------------------------ MODULE OrderInbox ------------------------------
(***************************************************************************)
(* What a customer who sends an order, and the staff who read the Telegram *)
(* chats, may believe of it: "success" means that it is in every chat, an  *)
(* attempt is in no chat twice, and an order that is there twice was sent  *)
(* again by a customer who was not told of a success.                      *)
(***************************************************************************)
EXTENDS Naturals

CONSTANTS Orders, Chats, MaxTries

VARIABLES
    inbox,  \* inbox[c][a]: how often attempt a's message is in chat c
    told    \* what attempt a's customer knows of it

vars == <<inbox, told>>

Attempts == Orders \X (1 .. MaxTries)

Init ==
    /\ inbox = [c \in Chats |-> [a \in Attempts |-> 0]]
    /\ told = [a \in Attempts |-> "unsent"]

\* An order is sent, the first time or after it was not said to have arrived.  It
\* may be turned away at once.
Send(o, n) ==
    /\ told[<<o, n>>] = "unsent"
    /\ n > 1 => told[<<o, n - 1>>] \in {"failure", "nothing"}
    /\ \E answer \in {"waiting", "failure"} :
          told' = [told EXCEPT ![<<o, n>>] = answer]
    /\ UNCHANGED inbox

\* A message arrives: once, and never after it was said to be everywhere.
Arrive(a, c) ==
    /\ told[a] \in {"waiting", "failure", "nothing"}
    /\ inbox[c][a] = 0
    /\ inbox' = [inbox EXCEPT ![c][a] = 1]
    /\ UNCHANGED told

Succeed(a) ==
    /\ told[a] = "waiting"
    /\ \A c \in Chats : inbox[c][a] = 1
    /\ told' = [told EXCEPT ![a] = "success"]
    /\ UNCHANGED inbox

\* The customers in `as` are told of a failure, or nothing: they leave, or are cut
\* off.  Their messages may be in any of the chats, or come to be.
Fail(as) ==
    /\ \A a \in as : told[a] = "waiting"
    /\ \E answer \in {"failure", "nothing"} :
          told' = [a \in Attempts |-> IF a \in as THEN answer ELSE told[a]]
    /\ UNCHANGED inbox

Next ==
    \/ \E o \in Orders, n \in 1 .. MaxTries : Send(o, n)
    \/ \E a \in Attempts, c \in Chats : Arrive(a, c)
    \/ \E a \in Attempts : Succeed(a)
    \/ \E as \in SUBSET Attempts : Fail(as)

Spec == Init /\ [][Next]_vars
=============================================================================
