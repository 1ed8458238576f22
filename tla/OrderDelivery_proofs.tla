------------------------- MODULE OrderDelivery_proofs -------------------------
(***************************************************************************)
(* The deliveries implement the inbox, for any number of orders, chats and *)
(* tries.  What is needed of a post: nothing of it exists before it is     *)
(* sent, its message is on its way only until it is in the chat, and an ok *)
(* answer is about a message that is there.                                *)
(***************************************************************************)
EXTENDS OrderDelivery, TLAPS

States == {"idle", "sending", "failed", "success"}
Answers == {"none", "ok", "not ok", "error"}

TypeOK ==
    /\ pc \in [Attempts -> States]
    /\ gone \subseteq Attempts
    /\ transit \in [Attempts -> [Chats -> BOOLEAN]]
    /\ answer \in [Attempts -> [Chats -> Answers]]
    /\ inbox \in [Chats -> [Attempts -> Nat]]

\* One post: what its server knows, is it on its way, what came back, how often it
\* is in its chat.
PostOK(state, sent, back, copies) ==
    /\ copies = 0 \/ copies = 1
    /\ state = "idle" => copies = 0 /\ ~sent /\ back = "none"
    /\ sent => copies = 0
    /\ back = "ok" => copies = 1
    /\ state = "success" => back = "ok"

Posts == \A a \in Attempts, c \in Chats :
            PostOK(pc[a], transit[a][c], answer[a][c], inbox[c][a])

IInv == TypeOK /\ Posts /\ \A a \in gone : pc[a] # "idle"

\* The promise settles, and a success needs an ok of every chat.
LEMMA SettledIs ==
  ASSUME NEW responses
  PROVE  /\ Settled(responses) \in States \ {"idle"}
         /\ Settled(responses) = "success" => \A c \in Chats : responses[c] = "ok"
  BY DEF Settled, States, Delivered

\* What an answer does to its attempt.
AnswerEffect(b, d, x) ==
    /\ pc' \in [Attempts -> States]
    /\ answer' \in [Attempts -> [Chats -> Answers]]
    /\ pc[b] # "idle" /\ pc'[b] # "idle"
    /\ pc[b] # "sending" => pc'[b] = pc[b]
    /\ pc[b] = "sending" /\ pc'[b] = "success" => \A c \in Chats : answer'[b][c] = "ok"
    /\ \A a \in Attempts : a # b => pc'[a] = pc[a] /\ answer'[a] = answer[a]
    /\ \A c \in Chats : answer'[b][c] = IF c = d THEN x ELSE answer[b][c]
    /\ answer[b][d] = "none"
    /\ x = "ok" => inbox[d][b] # 0

\* It does so in every typed state.
LEMMA AnswerIs ==
  ASSUME TypeOK, NEW b \in Attempts, NEW d \in Chats,
         NEW x \in {"ok", "not ok", "error"}, Answer(b, d, x)
  PROVE  AnswerEffect(b, d, x)
<1> DEFINE responses == [answer[b] EXCEPT ![d] = x]
           state == IF pc[b] = "sending" THEN Settled(responses) ELSE pc[b]
<1>1. /\ pc[b] # "idle" /\ answer[b][d] = "none"
      /\ x = "ok" => inbox[d][b] # 0
      /\ answer' = [answer EXCEPT ![b] = responses]
      /\ pc' = [pc EXCEPT ![b] = state]
  BY DEF Answer, MayAnswer, TypeOK
<1>2. responses \in [Chats -> Answers] /\ \A c \in Chats : responses[c] = IF c = d THEN x ELSE answer[b][c]
  BY DEF TypeOK, Answers
<1>3. Settled(responses) \in States \ {"idle"} /\ (Settled(responses) = "success" => \A c \in Chats : responses[c] = "ok")
  BY SettledIs
<1>4. pc[b] \in States
  BY DEF TypeOK
<1>5. /\ state \in States \ {"idle"}
      /\ pc[b] # "sending" => state = pc[b]
      /\ pc[b] = "sending" /\ state = "success" => \A c \in Chats : responses[c] = "ok"
  <2> HIDE DEF responses
  <2>1. QED
    BY <1>1, <1>3, <1>4
<1> HIDE DEF responses, state
<1>6. /\ pc' \in [Attempts -> States] /\ pc'[b] = state
      /\ \A a \in Attempts : a # b => pc'[a] = pc[a]
  BY <1>1, <1>5 DEF TypeOK
<1>7. /\ answer' \in [Attempts -> [Chats -> Answers]] /\ answer'[b] = responses
      /\ \A a \in Attempts : a # b => answer'[a] = answer[a]
  BY <1>1, <1>2 DEF TypeOK
<1>8. QED
  BY <1>1, <1>2, <1>5, <1>6, <1>7 DEF AnswerEffect

\* Every step keeps the types.
LEMMA TypesKept == TypeOK /\ [Next]_vars => TypeOK'
<1> SUFFICES ASSUME TypeOK, [Next]_vars PROVE TypeOK'
  OBVIOUS
<1>1. CASE UNCHANGED vars
  BY <1>1 DEF vars, TypeOK
<1>2. ASSUME NEW o \in Orders, NEW n \in 1 .. MaxTries, Send(o, n) PROVE TypeOK'
  BY <1>2 DEF Send, TypeOK, States
<1>3. ASSUME NEW o \in Orders, NEW n \in 1 .. MaxTries, Refuse(o, n) PROVE TypeOK'
  BY <1>3 DEF Refuse, TypeOK, States
<1>4. ASSUME NEW a \in Attempts, NEW c \in Chats, Arrive(a, c) PROVE TypeOK'
  <2>1. inbox' \in [Chats -> [Attempts -> Nat]] /\ transit' \in [Attempts -> [Chats -> BOOLEAN]]
    BY <1>4 DEF Arrive, TypeOK
  <2>2. QED
    BY <1>4, <2>1 DEF Arrive, TypeOK
<1>5. ASSUME NEW a \in Attempts, NEW c \in Chats, Lose(a, c) PROVE TypeOK'
  BY <1>5 DEF Lose, TypeOK
<1>6. ASSUME NEW a \in Attempts, NEW c \in Chats,
             NEW x \in {"ok", "not ok", "error"}, Answer(a, c, x)
      PROVE  TypeOK'
  <2>1. pc' \in [Attempts -> States] /\ answer' \in [Attempts -> [Chats -> Answers]]
    BY <1>6, AnswerIs DEF AnswerEffect
  <2>2. UNCHANGED <<gone, transit, inbox>>
    BY <1>6 DEF Answer
  <2>3. QED
    BY <2>1, <2>2 DEF TypeOK
<1>7. ASSUME NEW a \in Attempts, Leave(a) PROVE TypeOK'
  BY <1>7 DEF Leave, TypeOK
<1>8. ASSUME Crash PROVE TypeOK'
  BY <1>8 DEF Crash, TypeOK, States
<1>9. QED
  BY <1>1, <1>2, <1>3, <1>4, <1>5, <1>6, <1>7, <1>8 DEF Next

\* Every step leaves every post as it should be.
LEMMA PostsKept == IInv /\ [Next]_vars => Posts'
<1> SUFFICES ASSUME IInv, [Next]_vars PROVE Posts'
  OBVIOUS
<1>0. TypeOK /\ Posts
  BY DEF IInv
<1> HIDE DEF IInv
<1>1. CASE UNCHANGED vars
  BY <1>0, <1>1 DEF vars, Posts
<1>2. ASSUME NEW o \in Orders, NEW n \in 1 .. MaxTries, Send(o, n) PROVE Posts'
  <2> DEFINE b == <<o, n>>
  <2>1. b \in Attempts /\ pc[b] = "idle"
    BY <1>0, <1>2 DEF Attempts, Send, MaySend
  <2> HIDE DEF b
  <2>2. /\ UNCHANGED <<answer, inbox>>
        /\ \A a \in Attempts : a # b => pc'[a] = pc[a] /\ transit'[a] = transit[a]
        /\ pc'[b] = "sending"
    BY <1>0, <1>2, <2>1 DEF Send, TypeOK, b
  <2>3. QED
    BY <1>0, <2>1, <2>2 DEF Posts, PostOK
<1>3. ASSUME NEW o \in Orders, NEW n \in 1 .. MaxTries, Refuse(o, n) PROVE Posts'
  <2> DEFINE b == <<o, n>>
  <2>1. b \in Attempts /\ pc[b] = "idle"
    BY <1>0, <1>3 DEF Attempts, Refuse, MaySend
  <2> HIDE DEF b
  <2>2. /\ UNCHANGED <<transit, answer, inbox>>
        /\ \A a \in Attempts : a # b => pc'[a] = pc[a]
        /\ pc'[b] = "failed"
    BY <1>0, <1>3, <2>1 DEF Refuse, TypeOK, b
  <2>3. QED
    BY <1>0, <2>1, <2>2 DEF Posts, PostOK
<1>4. ASSUME NEW b \in Attempts, NEW d \in Chats, Arrive(b, d) PROVE Posts'
  <2>1. /\ transit[b][d] /\ inbox[d][b] = 0 /\ pc[b] # "idle"
        /\ answer[b][d] # "ok" /\ pc[b] # "success"
    <3>1. transit[b][d] /\ PostOK(pc[b], transit[b][d], answer[b][d], inbox[d][b])
      BY <1>0, <1>4 DEF Arrive, Posts
    <3>2. QED
      BY <3>1 DEF PostOK
  <2>2. /\ UNCHANGED <<pc, answer>>
        /\ transit' = [transit EXCEPT ![b][d] = FALSE]
        /\ inbox' = [inbox EXCEPT ![d][b] = 1]
    BY <1>4, <2>1 DEF Arrive
  <2> SUFFICES ASSUME NEW a \in Attempts, NEW c \in Chats
               PROVE  PostOK(pc[a], transit'[a][c], answer[a][c], inbox'[c][a])
    BY <2>2 DEF Posts
  <2>3. PostOK(pc[a], transit[a][c], answer[a][c], inbox[c][a])
    BY <1>0 DEF Posts
  <2>4. CASE a = b /\ c = d
    <3>1. transit'[a][c] = FALSE /\ inbox'[c][a] = 1
      BY <1>0, <2>2, <2>4 DEF TypeOK
    <3>2. QED
      BY <2>1, <2>3, <2>4, <3>1 DEF PostOK
  <2>5. CASE ~(a = b /\ c = d)
    <3>1. transit'[a][c] = transit[a][c] /\ inbox'[c][a] = inbox[c][a]
      BY <1>0, <2>2, <2>5 DEF TypeOK
    <3>2. QED
      BY <2>3, <3>1
  <2>6. QED
    BY <2>4, <2>5
<1>5. ASSUME NEW b \in Attempts, NEW d \in Chats, Lose(b, d) PROVE Posts'
  <2>1. /\ UNCHANGED <<pc, answer, inbox>>
        /\ \A a \in Attempts, c \in Chats :
               a # b \/ c # d => transit'[a][c] = transit[a][c]
        /\ ~transit'[b][d]
    BY <1>0, <1>5 DEF Lose, TypeOK
  <2>2. QED
    BY <1>0, <2>1 DEF Posts, PostOK
<1>6. ASSUME NEW b \in Attempts, NEW d \in Chats,
             NEW x \in {"ok", "not ok", "error"}, Answer(b, d, x)
      PROVE  Posts'
  <2>1. UNCHANGED <<transit, inbox>>
    BY <1>6 DEF Answer
  <2>e. AnswerEffect(b, d, x)
    BY <1>0, <1>6, AnswerIs
  <2> SUFFICES ASSUME NEW a \in Attempts, NEW c \in Chats
               PROVE  PostOK(pc'[a], transit[a][c], answer'[a][c], inbox[c][a])
    BY <1>0, <2>1 DEF Posts
  <2>2. PostOK(pc[a], transit[a][c], answer[a][c], inbox[c][a]) /\ transit[a][c] \in BOOLEAN
    BY <1>0 DEF Posts, TypeOK
  <2>3. CASE a # b
    <3>1. pc'[a] = pc[a] /\ answer'[a] = answer[a]
      BY <2>e, <2>3 DEF AnswerEffect
    <3>2. QED
      BY <2>2, <3>1
  <2>4. CASE a = b
    <3>1. /\ pc[a] # "idle" /\ pc'[a] # "idle"
          /\ pc[a] # "sending" => pc'[a] = pc[a]
          /\ pc[a] = "sending" /\ pc'[a] = "success" => answer'[a][c] = "ok"
          /\ c # d => answer'[a][c] = answer[a][c]
          /\ c = d => /\ answer'[a][c] = x /\ answer[a][c] = "none"
                      /\ x = "ok" => inbox[c][a] # 0
      BY <2>e, <2>4 DEF AnswerEffect
    <3>2. answer'[a][c] = "ok" => inbox[c][a] = 1
      BY <2>2, <3>1 DEF PostOK
    <3>3. pc'[a] = "success" => answer'[a][c] = "ok"
      BY <2>2, <3>1 DEF PostOK
    <3>4. QED
      BY <2>2, <3>1, <3>2, <3>3 DEF PostOK
  <2>5. QED
    BY <2>3, <2>4
<1>7. ASSUME NEW b \in Attempts, Leave(b) PROVE Posts'
  BY <1>0, <1>7 DEF Leave, Posts
<1>8. ASSUME Crash PROVE Posts'
  <2>1. /\ UNCHANGED <<transit, answer, inbox>>
        /\ \A a \in Attempts : pc'[a] = pc[a] \/ pc'[a] = "failed"
        /\ \A a \in Attempts : pc'[a] = "idle" => pc[a] = "idle"
    BY <1>0, <1>8 DEF Crash, TypeOK
  <2>2. QED
    BY <1>0, <2>1 DEF Posts, PostOK
<1>9. QED
  BY <1>1, <1>2, <1>3, <1>4, <1>5, <1>6, <1>7, <1>8 DEF Next

\* Types, posts, and that nobody leaves before sending.
THEOREM PostsConsistent == Spec => []IInv
<1>1. Init => IInv
  BY DEF Init, IInv, TypeOK, Posts, PostOK, States, Answers
<1>2. IInv /\ [Next]_vars => IInv'
  <2> SUFFICES ASSUME IInv, [Next]_vars PROVE \A a \in gone' : pc'[a] # "idle"
    BY TypesKept, PostsKept DEF IInv
  <2> USE DEF IInv
  <2>1. CASE UNCHANGED vars
    BY <2>1 DEF vars
  <2>2. ASSUME NEW o \in Orders, NEW n \in 1 .. MaxTries, Send(o, n) \/ Refuse(o, n)
        PROVE  \A a \in gone' : pc'[a] # "idle"
    BY <2>2 DEF Send, Refuse, TypeOK
  <2>3. ASSUME NEW a \in Attempts, NEW c \in Chats, Arrive(a, c) \/ Lose(a, c)
        PROVE  \A b \in gone' : pc'[b] # "idle"
    BY <2>3 DEF Arrive, Lose
  <2>4. ASSUME NEW b \in Attempts, NEW d \in Chats,
               NEW x \in {"ok", "not ok", "error"}, Answer(b, d, x)
        PROVE  \A a \in gone' : pc'[a] # "idle"
    <3>1. gone' = gone /\ gone \subseteq Attempts
      BY <2>4 DEF Answer, TypeOK
    <3>2. AnswerEffect(b, d, x)
      BY <2>4, AnswerIs
    <3>3. pc'[b] # "idle" /\ \A a \in Attempts : a # b => pc'[a] = pc[a]
      BY <3>2 DEF AnswerEffect
    <3>4. QED
      BY <3>1, <3>3
  <2>5. ASSUME NEW a \in Attempts, Leave(a) PROVE \A b \in gone' : pc'[b] # "idle"
    BY <2>5 DEF Leave
  <2>6. ASSUME Crash PROVE \A a \in gone' : pc'[a] # "idle"
    BY <2>6 DEF Crash, TypeOK
  <2>7. QED
    BY <2>1, <2>2, <2>3, <2>4, <2>5, <2>6 DEF Next
<1>3. QED
  BY <1>1, <1>2, PTL DEF Spec

\* What customers know, as a function of the attempts.
Knows == [a \in Attempts |-> Told(a)]

\* What a customer knows changes only with the attempt's state or when he leaves.
LEMMA KnowsIs ==
  ASSUME TypeOK, NEW a \in Attempts
  PROVE  /\ a \in gone => Knows[a] = "nothing"
         /\ a \notin gone =>
              /\ pc[a] = "idle" => Knows[a] = "unsent"
              /\ pc[a] = "sending" => Knows[a] = "waiting"
              /\ pc[a] = "failed" => Knows[a] = "failure"
              /\ pc[a] = "success" => Knows[a] = "success"
  BY DEF Knows, Told, View, TypeOK

\* An attempt whose state and customer stay the same is as well known as before.
LEMMA KnowsSame ==
  ASSUME NEW a \in Attempts, pc'[a] = pc[a], a \in gone' <=> a \in gone
  PROVE  Knows'[a] = Knows[a]
  BY DEF Knows, Told

\* Any one attempt, or some at once, change what is known.
LEMMA KnowsChange ==
  ASSUME NEW b \in Attempts, \A a \in Attempts : a # b => Knows'[a] = Knows[a]
  PROVE  Knows' = [Knows EXCEPT ![b] = Knows'[b]]
<1> DEFINE new == Knows'[b]
<1>1. Knows' = [a \in Attempts |-> Knows'[a]] /\ Knows = [a \in Attempts |-> Knows[a]]
  BY DEF Knows
<1>2. \A a \in Attempts : Knows'[a] = [Knows EXCEPT ![b] = new][a]
  BY <1>1
<1>3. QED
  BY <1>1, <1>2

\* The deliveries implement the inbox: an order is said to be sent only when every
\* chat has it, once per attempt, and it is repeated only by a customer who does not
\* know that.
THEOREM InboxImplemented == Spec => ImplementsInbox
<1>1. Init => Inbox!Init
  BY DEF Init, Inbox!Init, Inbox!Attempts, Attempts, Told, View
<1>2. IInv /\ [Next]_vars => [Inbox!Next]_(Inbox!vars)
  <2> SUFFICES ASSUME IInv, [Next]_vars
               PROVE  Inbox!Next \/ (Knows' = Knows /\ inbox' = inbox)
    BY DEF Inbox!vars, Knows
  <2>0. TypeOK /\ TypeOK' /\ Posts /\ Inbox!Attempts = Attempts
    BY TypesKept DEF IInv, Inbox!Attempts, Attempts
  <2>1. CASE UNCHANGED vars
    BY <2>1 DEF vars, Knows, Told
  <2>2. ASSUME NEW o \in Orders, NEW n \in 1 .. MaxTries, Send(o, n) \/ Refuse(o, n)
        PROVE  Inbox!Send(o, n)
    <3> DEFINE b == <<o, n>>
               before == <<o, n - 1>>
    <3>1. b \in Attempts /\ pc[b] = "idle" /\ b \notin gone /\ b \notin gone'
      BY <2>2 DEF Attempts, Send, Refuse, MaySend, IInv
    <3>2. /\ UNCHANGED <<gone, inbox>>
          /\ pc'[b] \in {"sending", "failed"}
          /\ \A a \in Attempts : a # b => pc'[a] = pc[a]
      BY <2>0, <2>2, <3>1 DEF Send, Refuse, TypeOK
    <3>3. n > 1 => before \in Attempts /\ (pc[before] = "failed" \/ before \in gone)
      BY <2>2, MaxTriesAssumption DEF Send, Refuse, MaySend, Attempts
    <3>4. n > 1 => Knows[before] \in {"failure", "nothing"}
      BY <2>0, <3>3, KnowsIs
    <3>5. Knows[b] = "unsent"
      BY <2>0, <3>1, KnowsIs
    <3>6. Knows'[b] \in {"waiting", "failure"}
      BY <2>0, <3>1, <3>2, KnowsIs DEF Knows, Told, View
    <3> HIDE DEF b, before
    <3>7. \A a \in Attempts : a # b => Knows'[a] = Knows[a]
      BY <3>2, KnowsSame
    <3>8. Knows' = [Knows EXCEPT ![b] = Knows'[b]]
      BY <3>1, <3>7, KnowsChange
    <3>9. QED
      BY <3>2, <3>4, <3>5, <3>6, <3>8 DEF Inbox!Send, Knows, b, before
  <2>3. ASSUME NEW b \in Attempts, NEW d \in Chats, Arrive(b, d)
        PROVE  Inbox!Arrive(b, d)
    <3>1. /\ transit[b][d] /\ UNCHANGED <<pc, gone>>
          /\ PostOK(pc[b], transit[b][d], answer[b][d], inbox[d][b])
      BY <2>0, <2>3 DEF Arrive, Posts
    <3>2. inbox[d][b] = 0 /\ pc[b] # "idle" /\ pc[b] # "success"
      BY <3>1 DEF PostOK
    <3>3. inbox' = [inbox EXCEPT ![d][b] = 1]
      BY <2>3, <3>2 DEF Arrive
    <3>4. pc[b] \in {"sending", "failed"}
      BY <2>0, <3>2 DEF TypeOK, States
    <3>5. Knows[b] \in {"waiting", "failure", "nothing"}
      BY <2>0, <3>4, KnowsIs
    <3>6. Knows' = Knows
      BY <3>1 DEF Knows, Told
    <3>7. QED
      BY <3>2, <3>3, <3>5, <3>6 DEF Inbox!Arrive, Knows
  <2>4. ASSUME NEW b \in Attempts, NEW d \in Chats, Lose(b, d)
        PROVE  Knows' = Knows /\ inbox' = inbox
    BY <2>4 DEF Lose, Knows, Told
  <2>5. ASSUME NEW b \in Attempts, NEW d \in Chats,
               NEW x \in {"ok", "not ok", "error"}, Answer(b, d, x)
        PROVE  Inbox!Succeed(b) \/ Inbox!Fail({b}) \/ (Knows' = Knows /\ inbox' = inbox)
    <3>1. UNCHANGED <<gone, transit, inbox>>
      BY <2>5 DEF Answer
    <3>2. AnswerEffect(b, d, x)
      BY <2>0, <2>5, AnswerIs
    <3>3. /\ pc'[b] \in States /\ pc[b] # "idle" /\ pc'[b] # "idle"
          /\ pc[b] # "sending" => pc'[b] = pc[b]
          /\ pc[b] = "sending" /\ pc'[b] = "success" => \A c \in Chats : answer'[b][c] = "ok"
          /\ \A a \in Attempts : a # b => pc'[a] = pc[a]
      BY <3>2 DEF AnswerEffect
    <3>4. \A a \in Attempts : a # b => Knows'[a] = Knows[a]
      BY <3>1, <3>3, KnowsSame
    <3>5. CASE pc'[b] = pc[b] \/ b \in gone
      <4>1. Knows'[b] = Knows[b]
        BY <3>1, <3>5 DEF Knows, Told
      <4>2. \A a \in Attempts : Knows'[a] = Knows[a]
        BY <3>4, <4>1
      <4>3. QED
        BY <3>1, <4>2 DEF Knows
    <3>6. CASE pc'[b] # pc[b] /\ b \notin gone
      <4>1. pc[b] = "sending" /\ Knows[b] = "waiting"
        BY <2>0, <3>3, <3>6, KnowsIs
      <4>2. Knows' = [Knows EXCEPT ![b] = Knows'[b]]
        BY <3>4, KnowsChange
      <4>3. pc'[b] \in {"failed", "success"}
        BY <3>3, <3>6, <4>1 DEF States
      <4>4. CASE pc'[b] = "failed"
        <5>1. Knows'[b] = "failure"
          <6>1. Knows'[b] = Told(b)'
            BY DEF Knows
          <6>2. Told(b)' = View["failed"]
            BY <3>1, <3>6, <4>4 DEF Told, View
          <6>3. View["failed"] = "failure"
            BY DEF View
          <6>4. QED
            BY <6>1, <6>2, <6>3
        <5>2. Knows' = [a \in Attempts |-> IF a \in {b} THEN "failure" ELSE Knows[a]]
          BY <4>2, <5>1 DEF Knows
        <5>3. QED
          BY <2>0, <3>1, <4>1, <5>2 DEF Inbox!Fail, Knows
      <4>5. CASE pc'[b] = "success"
        <5>1. Knows'[b] = "success"
          <6>1. Knows'[b] = Told(b)'
            BY DEF Knows
          <6>2. Told(b)' = View["success"]
            BY <3>1, <3>6, <4>5 DEF Told, View
          <6>3. View["success"] = "success"
            BY DEF View
          <6>4. QED
            BY <6>1, <6>2, <6>3
        <5>2. ASSUME NEW c \in Chats PROVE inbox[c][b] = 1
          <6>1. answer'[b][c] = "ok"
            BY <3>3, <4>1, <4>5
          <6>2. PostOK(pc'[b], transit'[b][c], answer'[b][c], inbox'[c][b])
            BY PostsKept DEF Posts
          <6>3. QED
            BY <3>1, <6>1, <6>2 DEF PostOK
        <5>3. QED
          BY <3>1, <4>1, <4>2, <5>1, <5>2 DEF Inbox!Succeed, Knows
      <4>6. QED
        BY <4>3, <4>4, <4>5
    <3>7. QED
      BY <3>5, <3>6
  <2>6. ASSUME NEW b \in Attempts, Leave(b) PROVE Inbox!Fail({b})
    <3>1. pc[b] = "sending" /\ b \notin gone /\ gone' = gone \cup {b} /\ UNCHANGED <<pc, inbox>>
      BY <2>6 DEF Leave
    <3>2. Knows[b] = "waiting"
      BY <2>0, <3>1, KnowsIs
    <3>3. Knows' = [a \in Attempts |-> IF a \in {b} THEN "nothing" ELSE Knows[a]]
      BY <3>1 DEF Knows, Told
    <3>4. QED
      BY <2>0, <3>1, <3>2, <3>3 DEF Inbox!Fail, Knows
  <2>7. ASSUME Crash PROVE Inbox!Fail({a \in Attempts : pc[a] = "sending" /\ a \notin gone})
    <3> DEFINE cut == {a \in Attempts : pc[a] = "sending" /\ a \notin gone}
    <3>1. /\ UNCHANGED <<gone, inbox>>
          /\ \A a \in Attempts : pc'[a] = IF pc[a] = "sending" THEN "failed" ELSE pc[a]
      BY <2>7 DEF Crash
    <3>2. \A a \in cut : Knows[a] = "waiting"
      BY <2>0, KnowsIs
    <3>3. \A a \in Attempts : Told(a)' = IF a \in cut THEN "failure" ELSE Told(a)
      BY <3>1 DEF Told, View
    <3>4. Knows' = [a \in Attempts |-> IF a \in cut THEN "failure" ELSE Knows[a]]
      BY <3>3 DEF Knows
    <3>5. cut \subseteq Attempts
      OBVIOUS
    <3> HIDE DEF cut
    <3>6. Inbox!Fail(cut)
      BY <2>0, <3>1, <3>2, <3>4, <3>5 DEF Inbox!Fail, Knows
    <3>7. QED
      BY <3>6 DEF cut
  <2>8. QED
    <3>1. Inbox!Attempts = Attempts
      BY <2>0
    <3>2. ASSUME NEW as \in SUBSET Attempts, Inbox!Fail(as) PROVE Inbox!Next
      BY <3>1, <3>2 DEF Inbox!Next
    <3>3. QED
      BY <2>1, <2>2, <2>3, <2>4, <2>5, <2>6, <2>7, <3>1, <3>2 DEF Next, Inbox!Next
<1>3. QED
  BY <1>1, <1>2, PostsConsistent, PTL DEF Spec, ImplementsInbox, Inbox!Spec
=============================================================================
