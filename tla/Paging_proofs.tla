--------------------------- MODULE Paging_proofs ---------------------------
(***************************************************************************)
(* The two reads of the program that give out pages.                       *)
(*                                                                         *)
(* The audit log: for any number of events, entities and requests, any     *)
(* page size and any bound on time, the pages are in order, leave out only *)
(* what was being written while they were read, reach the end when they    *)
(* say so, and keep the promises of their flags; and the ids of one row's  *)
(* events follow its commits.                                              *)
(*                                                                         *)
(* The products: for any number of products, categories, requests and      *)
(* writes, any ranking and any page size, a request that nothing was       *)
(* written under gets the page, the rows and the total of the database as  *)
(* it is, and one that something was written under still shows a visitor   *)
(* nothing twice and nothing that was hidden all the while.                *)
(***************************************************************************)
EXTENDS AuditLogPaging, ProductListing, FiniteSetTheorems, SequenceTheorems, TLAPS

-----------------------------------------------------------------------------
\* Sorting.

\* A finite set with a strict total order can be written down in that order:
\* every element at the place that the number above it gives it.
LEMMA SortedExists ==
    ASSUME NEW S, IsFiniteSet(S), NEW R,
           \A x \in S : <<x, x>> \notin R,
           \A x, y \in S : x # y => <<x, y>> \in R \/ <<y, x>> \in R,
           \A x, y, z \in S : <<x, y>> \in R /\ <<y, z>> \in R => <<x, z>> \in R
    PROVE  \E s \in SetToSeqs(S) : \A i, j \in DOMAIN s : i < j => <<s[i], s[j]>> \in R
<1> DEFINE n == Cardinality(S)
           above(x) == {y \in S : <<y, x>> \in R}
           place == [x \in S |-> Cardinality(above(x)) + 1]
<1>1. n \in Nat /\ IsFiniteSet(1..n) /\ Cardinality(1..n) = n
  BY FS_CardinalityType, FS_Interval
<1>2. ASSUME NEW x \in S PROVE place[x] \in 1..n
  <2>1. above(x) \in SUBSET S /\ x \in S \ above(x)
    OBVIOUS
  <2>2. /\ IsFiniteSet(above(x)) /\ Cardinality(above(x)) <= n
        /\ Cardinality(above(x)) # n
    BY <2>1, FS_Subset
  <2>3. Cardinality(above(x)) \in Nat
    BY <2>2, FS_CardinalityType
  <2> QED BY <1>1, <2>2, <2>3
<1>3. ASSUME NEW x \in S, NEW y \in S, <<x, y>> \in R PROVE place[x] < place[y]
  <2>1. above(x) \in SUBSET above(y) /\ x \in above(y) \ above(x)
    BY <1>3
  <2>2. IsFiniteSet(above(y)) /\ IsFiniteSet(above(x))
    <3>1. above(x) \in SUBSET S /\ above(y) \in SUBSET S
      OBVIOUS
    <3> QED BY <3>1, FS_Subset
  <2>3. /\ Cardinality(above(x)) <= Cardinality(above(y))
        /\ Cardinality(above(x)) # Cardinality(above(y))
    BY <2>1, <2>2, FS_Subset
  <2>4. Cardinality(above(x)) \in Nat /\ Cardinality(above(y)) \in Nat
    BY <2>2, FS_CardinalityType
  <2> QED BY <2>3, <2>4
<1> HIDE DEF place
<1>4. place \in [S -> 1..n]
  BY <1>2 DEF place
<1>5. \A x, y \in S : place[x] = place[y] => x = y
  <2> SUFFICES ASSUME NEW x \in S, NEW y \in S, place[x] = place[y], x # y PROVE FALSE
    OBVIOUS
  <2>1. place[x] < place[y] \/ place[y] < place[x]
    BY <1>3
  <2> QED BY <1>1, <1>2, <2>1
<1>6. place \in Surjection(S, 1..n)
  <2>1. place \in Injection(S, 1..n)
    BY <1>4, <1>5 DEF Injection, IsInjective
  <2> QED BY <1>1, <2>1, FS_Injection
<1> DEFINE s == [i \in 1..n |-> CHOOSE x \in S : place[x] = i]
<1>7. ASSUME NEW i \in 1..n PROVE s[i] \in S /\ place[s[i]] = i
  BY <1>6 DEF Surjection
<1>8. s \in [1..n -> S] /\ DOMAIN s = 1..n
  BY <1>7
<1> HIDE DEF s
<1>9. s \in SetToSeqs(S)
  BY <1>7, <1>8 DEF SetToSeqs
<1>10. ASSUME NEW i \in 1..n, NEW j \in 1..n, i < j PROVE <<s[i], s[j]>> \in R
  <2>1. s[i] \in S /\ s[j] \in S /\ place[s[i]] = i /\ place[s[j]] = j
    BY <1>7
  <2>2. ~(<<s[j], s[i]>> \in R)
    BY <1>1, <1>3, <1>10, <2>1
  <2> QED BY <1>1, <1>10, <2>1, <2>2
<1> QED BY <1>8, <1>9, <1>10

\* The order of the pages is strict and total on rows that all have a stamp of
\* their own.
Ordered(S) ==
    /\ IsFiniteSet(S)
    /\ \A x \in S : ~NewerThan(x, x)
    /\ \A x, y \in S : x # y => NewerThan(x, y) \/ NewerThan(y, x)
    /\ \A x, y, z \in S : NewerThan(x, y) /\ NewerThan(y, z) => NewerThan(x, z)

LEMMA NewestFirstSorts ==
    ASSUME NEW S, Ordered(S)
    PROVE  /\ NewestFirst(S) \in Seq(S) /\ Len(NewestFirst(S)) = Cardinality(S)
           /\ Cardinality(S) \in Nat
           /\ ToSet(NewestFirst(S)) = S
           /\ \A i, j \in 1..Len(NewestFirst(S)) :
                 i < j => NewerThan(NewestFirst(S)[i], NewestFirst(S)[j])
<1> DEFINE n == Cardinality(S)
           s == NewestFirst(S)
           R == {p \in S \X S : NewerThan(p[1], p[2])}
<1>1. IsFiniteSet(S) /\ n \in Nat /\ IsFiniteSet(1..n) /\ Cardinality(1..n) = n
  BY FS_CardinalityType, FS_Interval DEF Ordered
<1>2. \A x, y \in S : <<x, y>> \in R <=> NewerThan(x, y)
  OBVIOUS
<1> HIDE DEF R
<1>3. PICK f \in SetToSeqs(S) : \A i, j \in DOMAIN f : i < j => <<f[i], f[j]>> \in R
  BY <1>1, <1>2, SortedExists DEF Ordered
<1>4. \A g \in SetToSeqs(S) : g \in [1..n -> S] /\ DOMAIN g = 1..n
  BY DEF SetToSeqs
<1>5. \A i, j \in DOMAIN f : i < j => NewerThan(f[i], f[j])
  BY <1>2, <1>3, <1>4
<1>6. s \in SetToSeqs(S) /\ \A i, j \in DOMAIN s : i < j => NewerThan(s[i], s[j])
  BY <1>5 DEF NewestFirst
<1> HIDE DEF s
<1>7. s \in [1..n -> S] /\ DOMAIN s = 1..n
  BY <1>4, <1>6
<1>8. s \in Seq(S) /\ Len(s) = n
  BY <1>1, <1>7
<1>9. ToSet(s) = S
  <2>1. s \in Injection(1..n, S)
    BY <1>6, <1>7 DEF SetToSeqs, Injection, IsInjective
  <2>2. s \in Surjection(1..n, S)
    BY <1>1, <2>1, FS_Injection
  <2> QED BY <1>7, <2>2 DEF Surjection, ToSet
<1> QED BY <1>1, <1>6, <1>7, <1>8, <1>9 DEF s

\* What findMany returns: of the rows, those nearest to the cursor, in order;
\* what is left over, if anything, is on the far side of the page.
LEMMA PageNearest ==
    ASSUME NEW rows, Ordered(rows), NEW d \in {"older", "newer"}
    PROVE  LET p == Page(rows, d) IN
           /\ p \in Seq(rows)
           /\ \A i, j \in 1..Len(p) : i < j => NewerThan(p[i], p[j])
           /\ rows # {} => p # <<>>
           /\ \A e \in rows \ ToSet(p) :
                 IF d = "older" THEN NewerThan(Last(p), e) ELSE NewerThan(e, Head(p))
           /\ More(rows) <=> rows \ ToSet(p) # {}
<1> DEFINE s == NewestFirst(rows)
           len == Cardinality(rows)
           n == IF len < Limit THEN len ELSE Limit
           skip == IF d = "older" THEN 0 ELSE len - n
           p == Page(rows, d)
<1>1. /\ s \in Seq(rows) /\ Len(s) = len /\ len \in Nat /\ ToSet(s) = rows
      /\ \A i, j \in 1..len : i < j => NewerThan(s[i], s[j])
      /\ \A x \in rows : ~NewerThan(x, x)
  BY NewestFirstSorts DEF Ordered
<1>2. /\ n \in 0..len /\ skip \in 0..(len - n) /\ Limit \in Nat \ {0}
      /\ n = len \/ n = Limit
      /\ len > Limit <=> n # len
      /\ n = 0 <=> len = 0
      /\ d = "older" => skip = 0
      /\ d = "newer" => skip = len - n
  BY <1>1, PagingAssumption
<1>3. \A i \in 1..len : s[i] \in rows
  BY <1>1
<1>4. p = SubSeq(s, skip + 1, skip + n)
  <2>1. CASE d = "older"
    <3>1. skip + 1 = 1 /\ skip + n = n
      BY <1>2, <2>1
    <3> QED BY <1>1, <2>1, <3>1 DEF Page
  <2>2. CASE d = "newer"
    <3>1. skip + 1 = len - n + 1 /\ skip + n = len
      BY <1>1, <1>2, <2>2
    <3> QED BY <1>1, <2>2, <3>1 DEF Page
  <2> QED BY <2>1, <2>2
<1> HIDE DEF s, n, skip, p
<1>5. p \in Seq(rows) /\ Len(p) = n /\ \A i \in 1..n : p[i] = s[skip + i]
  <2>1. \A i \in (skip + 1)..(skip + n) : s[i] \in rows
    BY <1>1, <1>2, <1>3
  <2>2. skip + 1 \in Int /\ skip + n \in Int
    BY <1>1, <1>2
  <2>3. /\ p \in Seq(rows)
        /\ Len(p) = IF skip + 1 <= skip + n THEN (skip + n) - (skip + 1) + 1 ELSE 0
        /\ \A i \in 1..((skip + n) - (skip + 1) + 1) : p[i] = s[(skip + 1) + i - 1]
    BY ONLY <1>4, <2>1, <2>2, SubSeqProperties
  <2>4. (skip + n) - (skip + 1) + 1 = n /\ \A i \in 1..n : (skip + 1) + i - 1 = skip + i
    BY <1>1, <1>2
  <2>5. Len(p) = n
    BY <1>1, <1>2, <2>3
  <2> QED BY <2>3, <2>4, <2>5
<1>6. \A i, j \in 1..n : i < j => NewerThan(p[i], p[j])
  <2> SUFFICES ASSUME NEW i \in 1..n, NEW j \in 1..n, i < j
               PROVE  NewerThan(s[skip + i], s[skip + j])
    BY <1>5
  <2>1. skip + i \in 1..len /\ skip + j \in 1..len /\ skip + i < skip + j
    BY <1>1, <1>2
  <2> QED BY <1>1, <2>1
<1>7. rows # {} => p # <<>>
  <2>1. rows # {} => len # 0
    BY <1>1 DEF ToSet
  <2> QED BY <1>2, <1>5, <2>1
<1>8. ToSet(p) = {s[i] : i \in (skip + 1)..(skip + n)}
  <2>1. DOMAIN p = 1..n
    BY <1>5
  <2>2. ToSet(p) = {s[skip + i] : i \in 1..n}
    BY <1>5, <2>1 DEF ToSet
  <2>3. \A k \in (skip + 1)..(skip + n) : k - skip \in 1..n /\ skip + (k - skip) = k
    BY <1>1, <1>2
  <2>4. \A i \in 1..n : skip + i \in (skip + 1)..(skip + n)
    BY <1>1, <1>2
  <2> QED BY <2>2, <2>3, <2>4
<1>9. ASSUME NEW k \in 1..len, k \notin (skip + 1)..(skip + n) PROVE s[k] \in rows \ ToSet(p)
  <2> SUFFICES ASSUME NEW i \in (skip + 1)..(skip + n), s[k] = s[i] PROVE FALSE
    BY <1>3, <1>8
  <2>1. i \in 1..len /\ (i < k \/ k < i)
    BY <1>1, <1>2, <1>9
  <2> QED BY <1>1, <1>3, <2>1
<1>10. ASSUME NEW e \in rows \ ToSet(p)
       PROVE  /\ n # len
              /\ IF d = "older" THEN NewerThan(Last(p), e) ELSE NewerThan(e, Head(p))
  <2>1. PICK k \in 1..len : e = s[k]
    <3>1. DOMAIN s = 1..len
      BY <1>1
    <3> QED BY <1>1, <3>1 DEF ToSet
  <2>2. k \notin (skip + 1)..(skip + n)
    BY <1>8, <2>1
  <2>3. n # len /\ n # 0
    BY <1>1, <1>2, <2>2
  <2>4. CASE d = "older"
    <3>1. Last(p) = s[n] /\ n \in 1..len /\ n < k
      BY <1>1, <1>2, <1>5, <2>2, <2>3, <2>4 DEF Last
    <3> QED BY <1>1, <2>1, <2>3, <2>4, <3>1
  <2>5. CASE d = "newer"
    <3>1. Head(p) = s[skip + 1] /\ skip + 1 \in 1..len /\ k < skip + 1
      BY <1>1, <1>2, <1>5, <2>2, <2>3, <2>5
    <3> QED BY <1>1, <2>1, <2>3, <2>5, <3>1
  <2> QED BY <2>4, <2>5
<1>11. More(rows) <=> n # len
  BY <1>2 DEF More
<1>12. n # len => \E k \in 1..len : k \notin (skip + 1)..(skip + n)
  <2> SUFFICES ASSUME n # len PROVE \E k \in 1..len : k \notin (skip + 1)..(skip + n)
    OBVIOUS
  <2>1. CASE d = "older"
    <3>1. len \in 1..len /\ len \notin (skip + 1)..(skip + n)
      BY <1>1, <1>2, <2>1
    <3> QED BY <3>1
  <2>2. CASE d = "newer"
    <3>1. 1 \in 1..len /\ 1 \notin (skip + 1)..(skip + n)
      BY <1>1, <1>2, <2>2
    <3> QED BY <3>1
  <2> QED BY <2>1, <2>2
<1>13. More(rows) <=> rows \ ToSet(p) # {}
  BY <1>9, <1>10, <1>11, <1>12
<1> QED BY <1>5, <1>6, <1>7, <1>10, <1>13 DEF p

-----------------------------------------------------------------------------
\* The invariants.

TypeInv ==
    /\ clock \in 0..MaxClock
    /\ tx \in [Events -> Transaction]
    /\ nextId \in Nat \ {0}
    /\ committed \in Seq(Events)
    /\ seen \in Seq(Events) /\ answer \in Answer /\ asks \in 0..MaxAsks
    /\ before \in SUBSET Events /\ overlapped \in SUBSET Events

\* What is stamped was stamped in the past, and with an id of its own.
StampInv ==
    /\ \A e \in Events :
          /\ tx[e].began <= clock /\ tx[e].at <= clock /\ tx[e].id < nextId
          /\ tx[e].pc \in {"new", "open", "locked"} => tx[e].id = 0
          /\ tx[e].pc = "inserted" => tx[e].id # 0
    /\ \A e \in Visible : tx[e].pc = "done" /\ tx[e].id # 0
    /\ \A e, f \in Events : tx[e].id = tx[f].id /\ tx[e].id # 0 => e = f

\* One transaction at a time has a row, so what it inserts comes after all that
\* is committed about the row.
LockInv ==
    /\ \A e, f \in Events :
          /\ EntityOf[e] = EntityOf[f]
          /\ tx[e].pc \in {"locked", "inserted"} /\ tx[f].pc \in {"locked", "inserted"}
          => e = f
    /\ \A e \in Visible, f \in Events :
          EntityOf[e] = EntityOf[f] /\ tx[f].pc = "inserted" => tx[e].id < tx[f].id

\* What the reader has is in the log.
ShownInv ==
    /\ ToSet(seen) \subseteq Visible \cap Matching
    /\ ToSet(answer.page) \subseteq Visible \cap Matching
    /\ before \subseteq Visible \cap Matching
    /\ answer.pc # "none" => asks # 0
    /\ asks = 0 => seen = <<>> /\ before = {}

\* A transaction that no query has met began after all that is shown was
\* stamped: its event will be newer.  All else that is not shown is newer than
\* the newest event shown, or older than the oldest.
GapInv ==
    /\ \A e \in Open \ overlapped, f \in ToSet(seen) :
          /\ tx[f].at <= tx[e].began
          /\ tx[e].pc = "inserted" => NewerThan(e, f)
    /\ seen # <<>> =>
          \A e \in (Visible \cap Matching) \ ToSet(seen) :
             e \in overlapped \/ NewerThan(e, Head(seen)) \/ NewerThan(Last(seen), e)

\* What is still to be shown of the first page's moment is older than what is shown.
WalkInv ==
    /\ \A e \in before \ ToSet(seen) : seen # <<>> /\ NewerThan(Last(seen), e)
    /\ answer.pc # "none" /\ answer.direction = "older" /\ ~answer.older =>
          before \subseteq ToSet(seen)

\* Rows are never taken from the log: what a flag was raised for is still there.
FlagInv ==
    /\ answer.direction = "older" /\ answer.older =>
          seen # <<>> /\ Beyond(Last(seen), "older") # {}
    /\ answer.direction = "newer" /\ answer.newer =>
          seen # <<>> /\ Beyond(Head(seen), "newer") # {}
    /\ answer.promised => answer.page # <<>>
    /\ asks > 1 /\ answer.page # <<>> =>
          IF answer.direction = "older" THEN Beyond(Head(answer.page), "newer") # {}
                                        ELSE Beyond(Last(answer.page), "older") # {}
    /\ FlagsHonest

PagingInv ==
    /\ TypeInv /\ StampInv /\ LockInv /\ IdsFollowCommits
    /\ ShownInv /\ SeenInOrder /\ GapInv /\ WalkInv /\ FlagInv

-----------------------------------------------------------------------------
\* Facts of one state.

\* What is visible has a place in the log of its own.
LEMMA VisibleOrdered ==
    ASSUME TypeInv, StampInv, NEW S \in SUBSET Visible
    PROVE  Ordered(S) /\ S \subseteq Events
<1>1. Visible \subseteq Events
  BY DEF TypeInv, Visible, ToSet
<1>2. IsFiniteSet(S)
  BY <1>1, FS_Subset, PagingAssumption
<1>3. /\ \A x \in S : tx[x].at \in Nat /\ tx[x].id \in Nat
      /\ \A x, y \in S : tx[x].id = tx[y].id => x = y
  BY <1>1 DEF TypeInv, Transaction, StampInv
<1>4. \A x \in S : ~NewerThan(x, x)
  BY <1>3 DEF NewerThan
<1>5. \A x, y \in S : x # y => NewerThan(x, y) \/ NewerThan(y, x)
  BY <1>3 DEF NewerThan
<1>6. \A x, y, z \in S : NewerThan(x, y) /\ NewerThan(y, z) => NewerThan(x, z)
  BY <1>3 DEF NewerThan
<1> QED BY <1>1, <1>2, <1>4, <1>5, <1>6 DEF Ordered

\* The elements of a sequence, of its ends, and of two put together.
LEMMA Elements ==
    ASSUME NEW S, NEW s \in Seq(S)
    PROVE  /\ ToSet(s) \subseteq S /\ DOMAIN s = 1..Len(s) /\ Len(s) \in Nat
           /\ \A i \in 1..Len(s) : s[i] \in ToSet(s)
           /\ ToSet(s) = {} <=> s = <<>>
           /\ s # <<>> => /\ Head(s) \in ToSet(s) /\ Last(s) \in ToSet(s)
                          /\ Head(s) = s[1] /\ Last(s) = s[Len(s)] /\ Len(s) > 0
<1>1. DOMAIN s = 1..Len(s) /\ Len(s) \in Nat /\ \A i \in 1..Len(s) : s[i] \in S
  OBVIOUS
<1>2. s # <<>> => Len(s) > 0 /\ 1 \in 1..Len(s) /\ Len(s) \in 1..Len(s) /\ Head(s) = s[1]
  OBVIOUS
<1>3. s = <<>> => ToSet(s) = {}
  BY DEF ToSet
<1> QED BY <1>1, <1>2, <1>3 DEF ToSet, Last

LEMMA Together ==
    ASSUME NEW S, NEW s \in Seq(S), NEW t \in Seq(S)
    PROVE  /\ s \o t \in Seq(S) /\ Len(s \o t) = Len(s) + Len(t)
           /\ ToSet(s \o t) = ToSet(s) \cup ToSet(t)
           /\ \A i \in 1..Len(s) : (s \o t)[i] = s[i]
           /\ \A i \in 1..(Len(s) + Len(t)) :
                 i > Len(s) => i - Len(s) \in 1..Len(t) /\ (s \o t)[i] = t[i - Len(s)]
           /\ s # <<>> => s \o t # <<>> /\ Head(s \o t) = Head(s)
           /\ t # <<>> => s \o t # <<>> /\ Last(s \o t) = Last(t)
           /\ s = <<>> => s \o t = t
           /\ t = <<>> => s \o t = s
<1>1. /\ s \o t \in Seq(S) /\ Len(s \o t) = Len(s) + Len(t)
      /\ Len(s) \in Nat /\ Len(t) \in Nat
      /\ \A i \in 1..Len(s) : (s \o t)[i] = s[i]
      /\ \A i \in 1..(Len(s) + Len(t)) :
            i > Len(s) => i - Len(s) \in 1..Len(t) /\ (s \o t)[i] = t[i - Len(s)]
  BY ConcatProperties
<1>2. ToSet(s \o t) = ToSet(s) \cup ToSet(t)
  <2>1. Range(s \o t) = Range(s) \cup Range(t)
    BY RangeConcatenation
  <2> QED BY <2>1 DEF Range, ToSet
<1>3. s # <<>> => s \o t # <<>> /\ Head(s \o t) = Head(s)
  BY <1>1, HeadTailProperties
<1>4. t # <<>> => s \o t # <<>> /\ Last(s \o t) = Last(t)
  <2> SUFFICES ASSUME t # <<>> PROVE s \o t # <<>> /\ Last(s \o t) = Last(t)
    OBVIOUS
  <2>1. Len(t) > 0
    OBVIOUS
  <2>2. /\ Len(s) + Len(t) \in 1..(Len(s) + Len(t)) /\ Len(s) + Len(t) > Len(s)
        /\ (Len(s) + Len(t)) - Len(s) = Len(t)
    BY <1>1, <2>1
  <2>3. (s \o t)[Len(s \o t)] = t[Len(t)] /\ Len(s \o t) > 0
    BY <1>1, <2>2
  <2>4. s \o t # <<>>
    BY <1>1, <2>3
  <2> QED BY <2>3, <2>4 DEF Last
<1>5. (s = <<>> => s \o t = t) /\ (t = <<>> => s \o t = s)
  OBVIOUS
<1> QED BY <1>1, <1>2, <1>3, <1>4, <1>5

LEMMA AppendElements ==
    ASSUME NEW S, NEW s \in Seq(S), NEW e \in S
    PROVE  /\ Append(s, e) \in Seq(S) /\ ToSet(Append(s, e)) = ToSet(s) \cup {e}
           /\ DOMAIN Append(s, e) = 1..(Len(s) + 1) /\ DOMAIN s = 1..Len(s) /\ Len(s) \in Nat
           /\ Append(s, e)[Len(s) + 1] = e
           /\ \A i \in 1..Len(s) : Append(s, e)[i] = s[i]
<1> DEFINE more == Append(s, e)
<1>1. /\ more \in Seq(S) /\ Len(more) = Len(s) + 1 /\ Len(s) \in Nat
      /\ more[Len(s) + 1] = e
      /\ \A i \in 1..Len(s) : more[i] = s[i]
  OBVIOUS
<1>2. DOMAIN more = 1..(Len(s) + 1) /\ DOMAIN s = 1..Len(s)
  BY <1>1
<1> HIDE DEF more
<1>3. DOMAIN more = DOMAIN s \cup {Len(s) + 1}
  BY <1>1, <1>2
<1>4. ToSet(more) = ToSet(s) \cup {e}
  BY <1>1, <1>2, <1>3 DEF ToSet
<1> QED BY <1>1, <1>2, <1>4 DEF more

-----------------------------------------------------------------------------
\* The writers.

Writer == \/ \E e \in Events :
                BeginTx(e) \/ LockRow(e) \/ InsertEvent(e) \/ CommitTx(e) \/ RollbackTx(e)
          \/ Tick

\* What a writer's step does to the reader's world: the reader stays where it
\* is, what is visible stays as it is, and what becomes visible was inserted
\* before.
Quiet ==
    /\ UNCHANGED reading
    /\ \A e \in Visible : e \in Visible' /\ tx'[e].at = tx[e].at /\ tx'[e].id = tx[e].id
    /\ \A e \in Visible' \ Visible :
          /\ e \in Events /\ tx[e].pc = "inserted"
          /\ tx'[e].at = tx[e].at /\ tx'[e].id = tx[e].id

\* A transaction goes on: its stamp stays.
LEMMA Moved ==
    ASSUME TypeInv, NEW e \in Events, NEW b \in 0..MaxClock,
           NEW pc \in {"new", "open", "locked", "inserted", "done"},
           \/ tx' = [tx EXCEPT ![e].pc = pc]
           \/ tx' = [tx EXCEPT ![e].pc = pc, ![e].began = b]
    PROVE  /\ tx' \in [Events -> Transaction]
           /\ tx'[e].pc = pc /\ tx'[e].began \in {tx[e].began, b}
           /\ \A x \in Events \ {e} : tx'[x] = tx[x]
           /\ \A x \in Events : tx'[x].at = tx[x].at /\ tx'[x].id = tx[x].id
<1>1. tx \in [Events -> Transaction] /\ tx[e] \in Transaction
  BY DEF TypeInv
<1>2. CASE tx' = [tx EXCEPT ![e].pc = pc]
  <2>1. tx'[e] = [tx[e] EXCEPT !.pc = pc] /\ \A x \in Events \ {e} : tx'[x] = tx[x]
    BY <1>1, <1>2
  <2>2. /\ tx'[e] \in Transaction /\ tx'[e].pc = pc /\ tx'[e].began = tx[e].began
        /\ tx'[e].at = tx[e].at /\ tx'[e].id = tx[e].id
    BY <1>1, <2>1 DEF Transaction
  <2> QED BY <1>1, <1>2, <2>1, <2>2
<1>3. CASE tx' = [tx EXCEPT ![e].pc = pc, ![e].began = b]
  <2>1. /\ tx'[e] = [tx[e] EXCEPT !.pc = pc, !.began = b]
        /\ \A x \in Events \ {e} : tx'[x] = tx[x]
    BY <1>1, <1>3
  <2>2. /\ tx'[e] \in Transaction /\ tx'[e].pc = pc /\ tx'[e].began = b
        /\ tx'[e].at = tx[e].at /\ tx'[e].id = tx[e].id
    BY <1>1, <2>1 DEF Transaction
  <2> QED BY <1>1, <1>3, <2>1, <2>2
<1> QED BY <1>2, <1>3

LEMMA TypeStepWriter ==
    ASSUME TypeInv, StampInv, Writer
    PROVE  TypeInv' /\ Quiet
<1> USE DEF TypeInv
<1>1. ASSUME NEW e \in Events, NEW pc \in {"new", "open", "locked", "inserted", "done"},
             tx' = [tx EXCEPT ![e].pc = pc] \/ tx' = [tx EXCEPT ![e].pc = pc, ![e].began = clock],
             UNCHANGED <<clock, nextId, committed, reading>>
      PROVE  TypeInv' /\ Quiet
  <2>1. /\ tx' \in [Events -> Transaction]
        /\ \A x \in Events : tx'[x].at = tx[x].at /\ tx'[x].id = tx[x].id
    BY <1>1, Moved
  <2>2. Visible' = Visible /\ Visible \subseteq Events
    BY <1>1 DEF Visible, ToSet
  <2> QED BY <1>1, <2>1, <2>2 DEF Quiet, reading
<1>2. ASSUME NEW e \in Events, BeginTx(e) \/ LockRow(e) \/ RollbackTx(e)
      PROVE  TypeInv' /\ Quiet
  BY <1>1, <1>2 DEF BeginTx, LockRow, RollbackTx
<1>3. ASSUME NEW e \in Events, InsertEvent(e) PROVE TypeInv' /\ Quiet
  <2>1. PICK now \in {tx[e].began, clock} :
          tx' = [tx EXCEPT ![e].pc = "inserted", ![e].at = now, ![e].id = nextId]
    BY <1>3 DEF InsertEvent
  <2>2. now \in 0..MaxClock /\ nextId \in Nat /\ nextId' \in Nat \ {0}
    BY <1>3, <2>1 DEF InsertEvent, Transaction
  <2>3. tx' \in [Events -> Transaction]
    BY <2>1, <2>2 DEF Transaction
  <2>4. TypeInv'
    BY <1>3, <2>2, <2>3 DEF InsertEvent, reading
  <2>5. e \notin Visible
    BY <1>3 DEF InsertEvent, StampInv
  <2>6. Visible' = Visible /\ UNCHANGED reading
    BY <1>3 DEF InsertEvent, Visible
  <2>7. Visible \subseteq Events
    BY DEF Visible, ToSet
  <2> QED BY <2>1, <2>4, <2>5, <2>6, <2>7 DEF Quiet
<1>4. ASSUME NEW e \in Events, CommitTx(e) PROVE TypeInv' /\ Quiet
  <2>1. /\ committed' = Append(committed, e) /\ tx[e].pc = "inserted"
        /\ tx' = [tx EXCEPT ![e].pc = "done"] /\ UNCHANGED <<clock, nextId, reading>>
    BY <1>4 DEF CommitTx
  <2>2. Visible' = Visible \cup {e} /\ committed' \in Seq(Events) /\ Visible \subseteq Events
    BY <2>1, AppendElements, Elements DEF Visible
  <2>3. tx' \in [Events -> Transaction]
    BY <2>1 DEF Transaction
  <2>4. \A x \in Events : tx'[x].at = tx[x].at /\ tx'[x].id = tx[x].id
    BY <2>1 DEF Transaction
  <2> QED BY <2>1, <2>2, <2>3, <2>4 DEF Quiet, reading
<1>6. CASE Tick
  <2>1. clock' \in 0..MaxClock
    BY <1>6, PagingAssumption DEF Tick
  <2> QED BY <1>6, <2>1 DEF Tick, Quiet, Visible, reading, writing
<1> QED BY <1>2, <1>3, <1>4, <1>6 DEF Writer

LEMMA StampStepWriter ==
    ASSUME TypeInv, StampInv, Writer
    PROVE  StampInv'
<1> USE DEF TypeInv
<1>0. /\ Visible \subseteq Events
      /\ \A e \in Events : /\ tx[e].began \in Nat /\ tx[e].at \in Nat /\ tx[e].id \in Nat
      /\ clock \in Nat /\ nextId \in Nat
  BY DEF Visible, ToSet, Transaction
<1>1. ASSUME NEW e \in Events, BeginTx(e) PROVE StampInv'
  BY <1>0, <1>1 DEF BeginTx, Visible, reading, Transaction, StampInv
<1>2. ASSUME NEW e \in Events, LockRow(e) PROVE StampInv'
  BY <1>0, <1>2 DEF LockRow, Visible, reading, Transaction, StampInv
<1>3. ASSUME NEW e \in Events, InsertEvent(e) PROVE StampInv'
  <2>1. PICK now \in {tx[e].began, clock} :
          tx' = [tx EXCEPT ![e].pc = "inserted", ![e].at = now, ![e].id = nextId]
    BY <1>3 DEF InsertEvent
  <2>2. /\ now <= clock /\ nextId \in Nat /\ nextId # 0 /\ nextId' = nextId + 1
        /\ clock' = clock /\ e \notin Visible /\ Visible' = Visible /\ tx[e].pc = "locked"
    BY <1>0, <1>3, <2>1 DEF InsertEvent, StampInv, Visible
  <2>3. /\ tx'[e] = [tx[e] EXCEPT !.pc = "inserted", !.at = now, !.id = nextId]
        /\ \A x \in Events \ {e} : tx'[x] = tx[x]
    BY <2>1
  <2>4. /\ tx'[e].pc = "inserted" /\ tx'[e].at = now /\ tx'[e].id = nextId
        /\ tx'[e].began = tx[e].began
    BY <2>3 DEF Transaction
  <2>5. \A x, y \in Events : tx'[x].id = tx'[y].id /\ tx'[x].id # 0 => x = y
    <3> SUFFICES ASSUME NEW x \in Events, NEW y \in Events, tx'[x].id = tx'[y].id,
                        tx'[x].id # 0
                 PROVE  x = y
      OBVIOUS
    <3>1. \A z \in Events \ {e} : tx'[z].id = tx[z].id /\ tx[z].id # nextId
      BY <1>0, <2>3 DEF StampInv
    <3>2. x = e <=> y = e
      BY <2>4, <3>1
    <3> QED BY <2>3, <3>1, <3>2 DEF StampInv
  <2>6. \A x \in Events :
          /\ tx'[x].began <= clock' /\ tx'[x].at <= clock' /\ tx'[x].id < nextId'
          /\ tx'[x].pc \in {"new", "open", "locked"} => tx'[x].id = 0
          /\ tx'[x].pc = "inserted" => tx'[x].id # 0
    <3>1. ASSUME NEW x \in Events \ {e}
          PROVE  /\ tx'[x].began <= clock' /\ tx'[x].at <= clock' /\ tx'[x].id < nextId'
                 /\ tx'[x].pc \in {"new", "open", "locked"} => tx'[x].id = 0
                 /\ tx'[x].pc = "inserted" => tx'[x].id # 0
      BY <1>0, <2>2, <2>3 DEF StampInv
    <3>2. /\ tx'[e].began <= clock' /\ tx'[e].at <= clock' /\ tx'[e].id < nextId'
          /\ tx'[e].pc = "inserted" /\ tx'[e].id # 0
      BY <1>0, <2>2, <2>4 DEF StampInv
    <3> QED BY <3>1, <3>2
  <2>7. \A x \in Visible : tx'[x].pc = "done" /\ tx'[x].id # 0
    BY <1>0, <2>2, <2>3 DEF StampInv
  <2> QED BY <2>2, <2>5, <2>6, <2>7 DEF StampInv
<1>4. ASSUME NEW e \in Events, CommitTx(e) PROVE StampInv'
  <2>1. /\ committed' = Append(committed, e) /\ tx[e].pc = "inserted"
        /\ tx' = [tx EXCEPT ![e].pc = "done"] /\ UNCHANGED <<clock, nextId>>
    BY <1>4 DEF CommitTx
  <2>2. Visible' = Visible \cup {e}
    BY <2>1, AppendElements DEF Visible
  <2>3. /\ \A x \in Events : /\ tx'[x].at = tx[x].at /\ tx'[x].id = tx[x].id
                             /\ tx'[x].began = tx[x].began
        /\ tx'[e].pc = "done" /\ \A x \in Events \ {e} : tx'[x].pc = tx[x].pc
    BY <2>1 DEF Transaction
  <2> QED BY <1>0, <2>1, <2>2, <2>3 DEF StampInv
<1>5. ASSUME NEW e \in Events, RollbackTx(e) PROVE StampInv'
  BY <1>0, <1>5 DEF RollbackTx, Visible, reading, Transaction, StampInv
<1>6. CASE Tick
  BY <1>0, <1>6 DEF Tick, Visible, writing, StampInv
<1> QED BY <1>1, <1>2, <1>3, <1>4, <1>5, <1>6 DEF Writer

LEMMA LockStepWriter ==
    ASSUME TypeInv, StampInv, LockInv, IdsFollowCommits, Writer
    PROVE  LockInv' /\ IdsFollowCommits'
<1> USE DEF TypeInv
<1>0. /\ Visible \subseteq Events
      /\ \A e \in Events : tx[e].id \in Nat
      /\ nextId \in Nat
      /\ \A i \in DOMAIN committed : committed[i] \in Visible
  BY DEF Visible, ToSet, Transaction
<1>1. ASSUME NEW e \in Events, NEW pc, pc \in {"open", "locked", "done"},
             tx' = [tx EXCEPT ![e].pc = pc] \/ tx' = [tx EXCEPT ![e].pc = pc, ![e].began = clock],
             pc = "locked" => \A f \in Events \ {e} :
                EntityOf[f] = EntityOf[e] => tx[f].pc \notin {"locked", "inserted"},
             UNCHANGED committed
      PROVE  LockInv' /\ IdsFollowCommits'
  <2>1. /\ \A x \in Events : tx'[x].id = tx[x].id
        /\ tx'[e].pc = pc /\ \A x \in Events \ {e} : tx'[x].pc = tx[x].pc
    BY <1>1, Moved
  <2>2. Visible' = Visible
    BY <1>1 DEF Visible
  <2>3. LockInv'
    <3>1. \A x, y \in Events :
            /\ EntityOf[x] = EntityOf[y]
            /\ tx'[x].pc \in {"locked", "inserted"} /\ tx'[y].pc \in {"locked", "inserted"}
            => x = y
      BY <1>1, <2>1 DEF LockInv
    <3>2. \A x \in Visible, y \in Events :
            EntityOf[x] = EntityOf[y] /\ tx'[y].pc = "inserted" => tx'[x].id < tx'[y].id
      BY <1>0, <1>1, <2>1 DEF LockInv
    <3> QED BY <2>2, <3>1, <3>2 DEF LockInv
  <2>4. IdsFollowCommits'
    BY <1>0, <1>1, <2>1 DEF IdsFollowCommits
  <2> QED BY <2>3, <2>4
<1>2. ASSUME NEW e \in Events, BeginTx(e) PROVE LockInv' /\ IdsFollowCommits'
  BY <1>1, <1>2 DEF BeginTx
<1>3. ASSUME NEW e \in Events, LockRow(e) PROVE LockInv' /\ IdsFollowCommits'
  <2>1. \A f \in Events \ {e} :
          EntityOf[f] = EntityOf[e] => tx[f].pc \notin {"locked", "inserted"}
    BY <1>3 DEF LockRow, Open
  <2> QED BY <1>1, <1>3, <2>1 DEF LockRow
<1>4. ASSUME NEW e \in Events, RollbackTx(e) PROVE LockInv' /\ IdsFollowCommits'
  BY <1>1, <1>4 DEF RollbackTx
<1>5. ASSUME NEW e \in Events, InsertEvent(e) PROVE LockInv' /\ IdsFollowCommits'
  <2>1. PICK now \in {tx[e].began, clock} :
          tx' = [tx EXCEPT ![e].pc = "inserted", ![e].at = now, ![e].id = nextId]
    BY <1>5 DEF InsertEvent
  <2>2. /\ tx'[e] = [tx[e] EXCEPT !.pc = "inserted", !.at = now, !.id = nextId]
        /\ \A x \in Events \ {e} : tx'[x] = tx[x]
    BY <2>1
  <2>3. tx'[e].pc = "inserted" /\ tx'[e].id = nextId /\ tx[e].pc = "locked"
    BY <1>5, <2>2 DEF Transaction, InsertEvent
  <2>4. Visible' = Visible /\ e \notin Visible /\ committed' = committed
    BY <1>5 DEF InsertEvent, StampInv, Visible
  <2>5. \A x, y \in Events :
          /\ EntityOf[x] = EntityOf[y]
          /\ tx'[x].pc \in {"locked", "inserted"} /\ tx'[y].pc \in {"locked", "inserted"}
          => x = y
    BY <2>2, <2>3 DEF LockInv
  <2>6. \A x \in Visible, y \in Events :
          EntityOf[x] = EntityOf[y] /\ tx'[y].pc = "inserted" => tx'[x].id < tx'[y].id
    <3>1. \A x \in Visible : x \in Events \ {e} /\ tx'[x].id = tx[x].id /\ tx[x].id < nextId
      BY <1>0, <2>2, <2>4 DEF StampInv
    <3>2. ASSUME NEW x \in Visible, NEW y \in Events \ {e},
                 EntityOf[x] = EntityOf[y], tx'[y].pc = "inserted"
          PROVE  tx'[x].id < tx'[y].id
      <4>1. tx'[y] = tx[y]
        BY <2>2
      <4> QED BY <3>1, <3>2, <4>1 DEF LockInv
    <3> QED BY <2>3, <3>1, <3>2
  <2>7. IdsFollowCommits'
    BY <1>0, <2>2, <2>4 DEF IdsFollowCommits
  <2> QED BY <2>4, <2>5, <2>6, <2>7 DEF LockInv
<1>6. ASSUME NEW e \in Events, CommitTx(e) PROVE LockInv' /\ IdsFollowCommits'
  <2>1. /\ committed' = Append(committed, e) /\ tx[e].pc = "inserted"
        /\ tx' = [tx EXCEPT ![e].pc = "done"]
    BY <1>6 DEF CommitTx
  <2>2. Visible' = Visible \cup {e}
    BY <2>1, AppendElements DEF Visible
  <2>3. /\ \A x \in Events : tx'[x].id = tx[x].id
        /\ tx'[e].pc = "done" /\ \A x \in Events \ {e} : tx'[x].pc = tx[x].pc
    BY <2>1 DEF Transaction
  <2>4. \A x, y \in Events :
          /\ EntityOf[x] = EntityOf[y]
          /\ tx'[x].pc \in {"locked", "inserted"} /\ tx'[y].pc \in {"locked", "inserted"}
          => x = y
    BY <2>3 DEF LockInv
  <2>5. \A x \in Visible \cup {e}, y \in Events :
          EntityOf[x] = EntityOf[y] /\ tx'[y].pc = "inserted" => tx'[x].id < tx'[y].id
    BY <1>0, <2>1, <2>3 DEF LockInv
  <2>6. /\ DOMAIN committed' = 1..(Len(committed) + 1) /\ DOMAIN committed = 1..Len(committed)
        /\ Len(committed) \in Nat /\ committed'[Len(committed) + 1] = e
        /\ \A i \in 1..Len(committed) : committed'[i] = committed[i]
    BY <2>1, AppendElements
  <2>7. ASSUME NEW i \in DOMAIN committed', NEW j \in DOMAIN committed', i < j,
               EntityOf[committed'[i]] = EntityOf[committed'[j]]
        PROVE  tx'[committed'[i]].id < tx'[committed'[j]].id
    <3>1. i \in 1..Len(committed) /\ (j \in 1..Len(committed) \/ j = Len(committed) + 1)
      BY <2>6, <2>7
    <3>2. CASE j \in 1..Len(committed)
      BY <1>0, <2>3, <2>6, <2>7, <3>1, <3>2 DEF IdsFollowCommits
    <3>3. CASE j = Len(committed) + 1
      BY <1>0, <2>1, <2>3, <2>6, <2>7, <3>1, <3>3 DEF LockInv
    <3> QED BY <3>1, <3>2, <3>3
  <2> QED BY <2>2, <2>4, <2>5, <2>7 DEF LockInv, IdsFollowCommits
<1>7. CASE Tick
  BY <1>7 DEF Tick, writing, LockInv, IdsFollowCommits, Visible
<1> QED BY <1>2, <1>3, <1>4, <1>5, <1>6, <1>7 DEF Writer

-----------------------------------------------------------------------------
\* The reader, while others write.

LEMMA QuietOrder ==
    ASSUME Quiet, NEW e \in Visible, NEW f \in Visible
    PROVE  NewerThan(e, f)' <=> NewerThan(e, f)
  BY DEF Quiet, NewerThan

\* What was beyond a cursor still is.
LEMMA QuietBeyond ==
    ASSUME Quiet, NEW c \in Visible, NEW d, Beyond(c, d) # {}
    PROVE  Beyond(c, d)' # {}
<1>1. PICK e \in Visible \cap Matching :
        IF d = "older" THEN NewerThan(c, e) ELSE NewerThan(e, c)
  BY DEF Beyond
<1>2. e \in Visible' /\ (NewerThan(c, e)' <=> NewerThan(c, e))
                     /\ (NewerThan(e, c)' <=> NewerThan(e, c))
  BY QuietOrder DEF Quiet
<1>3. e \in Beyond(c, d)'
  BY <1>1, <1>2 DEF Beyond
<1> QED BY <1>3

LEMMA ShownStepWriter ==
    ASSUME TypeInv, ShownInv, SeenInOrder, WalkInv, FlagInv, Quiet
    PROVE  ShownInv' /\ SeenInOrder' /\ WalkInv' /\ FlagInv'
<1>1. seen' = seen /\ answer' = answer /\ asks' = asks /\ before' = before
  BY DEF Quiet, reading
<1>2. ShownInv'
  <2>1. Visible \subseteq Visible'
    BY DEF Quiet
  <2> QED BY <1>1, <2>1 DEF ShownInv
<1>3. /\ ToSet(seen) \subseteq Visible /\ ToSet(answer.page) \subseteq Visible
      /\ before \subseteq Visible
      /\ seen \in Seq(Events) /\ answer.page \in Seq(Events)
  BY DEF ShownInv, TypeInv, Answer
<1>4. /\ \A i \in DOMAIN seen : seen[i] \in Visible
      /\ seen # <<>> => Head(seen) \in Visible /\ Last(seen) \in Visible
      /\ answer.page # <<>> => Head(answer.page) \in Visible /\ Last(answer.page) \in Visible
  BY <1>3, Elements
<1>5. SeenInOrder'
  BY <1>1, <1>4, QuietOrder DEF SeenInOrder
<1>6. WalkInv'
  <2>1. \A e \in before \ ToSet(seen) : seen # <<>> /\ NewerThan(Last(seen), e)'
    BY <1>1, <1>3, <1>4, QuietOrder DEF WalkInv
  <2> QED BY <1>1, <2>1 DEF WalkInv
<1>7. FlagInv'
  <2>1. answer.direction = "older" /\ answer.older =>
          seen # <<>> /\ Beyond(Last(seen), "older")' # {}
    BY <1>1, <1>4, QuietBeyond DEF FlagInv
  <2>2. answer.direction = "newer" /\ answer.newer =>
          seen # <<>> /\ Beyond(Head(seen), "newer")' # {}
    BY <1>1, <1>4, QuietBeyond DEF FlagInv
  <2>3. asks > 1 /\ answer.page # <<>> =>
          IF answer.direction = "older" THEN Beyond(Head(answer.page), "newer")' # {}
                                        ELSE Beyond(Last(answer.page), "older")' # {}
    BY <1>1, <1>4, QuietBeyond DEF FlagInv
  <2>4. FlagsHonest'
    BY <1>1 DEF FlagInv, FlagsHonest
  <2> QED BY <1>1, <2>1, <2>2, <2>3, <2>4 DEF FlagInv
<1> QED BY <1>2, <1>5, <1>6, <1>7

LEMMA GapStepWriter ==
    ASSUME TypeInv, StampInv, ShownInv, GapInv, Writer, Quiet
    PROVE  GapInv'
<1>1. /\ seen' = seen /\ overlapped' = overlapped
      /\ ToSet(seen) \subseteq Visible /\ Visible \subseteq Events
      /\ seen # <<>> => Head(seen) \in ToSet(seen) /\ Last(seen) \in ToSet(seen)
  <2>1. seen \in Seq(Events) /\ committed \in Seq(Events)
    BY DEF TypeInv
  <2> QED BY <2>1, Elements DEF Quiet, reading, ShownInv, Visible
<1>2. \A f \in ToSet(seen) : tx'[f].at = tx[f].at /\ tx'[f].id = tx[f].id
  BY <1>1 DEF Quiet
<1>3. \A e \in Events : /\ tx[e].began \in Nat /\ tx[e].at \in Nat /\ tx[e].id \in Nat
                        /\ tx[e].at <= clock /\ tx[e].id < nextId
  BY DEF TypeInv, Transaction, StampInv
<1>4. clock \in Nat /\ nextId \in Nat
  BY DEF TypeInv
\* Transactions that no query has met.
<1> DEFINE Unmet(e) == \A f \in ToSet(seen) :
               /\ tx'[f].at <= tx'[e].began
               /\ tx'[e].pc = "inserted" => NewerThan(e, f)'
<1>5. ASSUME NEW e \in Open' \ overlapped, e \in Open, tx'[e] = tx[e] PROVE Unmet(e)
  <2>1. e \in Events
    BY DEF Open
  <2>2. \A f \in ToSet(seen) : /\ tx[f].at <= tx[e].began
                               /\ tx[e].pc = "inserted" => NewerThan(e, f)
    BY <1>5 DEF GapInv
  <2> QED BY <1>2, <1>5, <2>2 DEF NewerThan
<1>6. ASSUME NEW e \in Open' \ overlapped PROVE Unmet(e)
  <2>0. e \in Events /\ tx'[e].pc \in {"open", "locked", "inserted"}
    BY DEF Open
  <2>1. ASSUME NEW g \in Events, BeginTx(g) PROVE Unmet(e)
    <3>1. CASE g = e
      <4>1. tx'[e].pc = "open" /\ tx'[e].began = clock
        BY <2>1, <3>1 DEF BeginTx, TypeInv, Transaction
      <4> QED BY <1>1, <1>2, <1>3, <4>1
    <3>2. CASE g # e
      <4>1. tx'[e] = tx[e]
        BY <2>0, <2>1, <3>2 DEF BeginTx, TypeInv
      <4> QED BY <1>5, <2>0, <4>1 DEF Open
    <3> QED BY <3>1, <3>2
  <2>2. ASSUME NEW g \in Events, LockRow(g) PROVE Unmet(e)
    <3>1. CASE g = e
      <4>1. tx'[e].pc = "locked" /\ tx'[e].began = tx[e].began /\ e \in Open
        BY <2>0, <2>2, <3>1 DEF LockRow, TypeInv, Transaction, Open
      <4> QED BY <1>1, <1>2, <4>1 DEF GapInv
    <3>2. CASE g # e
      <4>1. tx'[e] = tx[e]
        BY <2>0, <2>2, <3>2 DEF LockRow, TypeInv
      <4> QED BY <1>5, <2>0, <4>1 DEF Open
    <3> QED BY <3>1, <3>2
  <2>3. ASSUME NEW g \in Events, InsertEvent(g) PROVE Unmet(e)
    <3>1. CASE g = e
      <4>1. PICK now \in {tx[e].began, clock} :
              tx' = [tx EXCEPT ![e].pc = "inserted", ![e].at = now, ![e].id = nextId]
        BY <2>3, <3>1 DEF InsertEvent
      <4>2. tx'[e] = [tx[e] EXCEPT !.pc = "inserted", !.at = now, !.id = nextId]
        BY <2>0, <4>1 DEF TypeInv
      <4>3. /\ tx'[e].at = now /\ tx'[e].id = nextId /\ tx'[e].began = tx[e].began
            /\ tx[e].pc = "locked" /\ e \in Open
        BY <2>0, <2>3, <3>1, <4>2 DEF TypeInv, Transaction, InsertEvent, Open
      <4>4. ASSUME NEW f \in ToSet(seen)
            PROVE  tx'[f].at <= tx'[e].began /\ NewerThan(e, f)'
        <5>1. tx[f].at <= tx[e].began /\ f \in Events
          BY <1>1, <4>3 DEF GapInv
        <5>2. tx[f].at <= now /\ tx[f].id < nextId /\ now \in Nat /\ tx[f].at \in Nat
          BY <1>3, <1>4, <2>0, <5>1
        <5> QED BY <1>2, <1>3, <1>4, <4>3, <5>1, <5>2 DEF NewerThan
      <4> QED BY <4>4
    <3>2. CASE g # e
      <4>1. tx'[e] = tx[e]
        BY <2>0, <2>3, <3>2 DEF InsertEvent, TypeInv
      <4> QED BY <1>5, <2>0, <4>1 DEF Open
    <3> QED BY <3>1, <3>2
  <2>4. ASSUME NEW g \in Events, CommitTx(g) \/ RollbackTx(g) PROVE Unmet(e)
    <3>1. tx'[g].pc = "done" /\ (g # e => tx'[e] = tx[e])
      BY <2>0, <2>4 DEF CommitTx, RollbackTx, TypeInv, Transaction
    <3> QED BY <1>5, <2>0, <3>1 DEF Open
  <2>5. CASE Tick
    <3>1. tx'[e] = tx[e]
      BY <2>5 DEF Tick, writing
    <3> QED BY <1>5, <2>0, <3>1 DEF Open
  <2> QED BY <2>1, <2>2, <2>3, <2>4, <2>5 DEF Writer
\* Events that are not shown.
<1>7. ASSUME seen # <<>>, NEW e \in (Visible' \cap Matching) \ ToSet(seen)
      PROVE  e \in overlapped \/ NewerThan(e, Head(seen))' \/ NewerThan(Last(seen), e)'
  <2>1. CASE e \in Visible
    BY <1>1, <1>7, <2>1, QuietOrder DEF GapInv
  <2>2. CASE e \notin Visible
    <3>1. /\ tx[e].pc = "inserted" /\ e \in Open
          /\ tx'[e].at = tx[e].at /\ tx'[e].id = tx[e].id
      BY <2>2 DEF Quiet, Open
    <3>2. e \in overlapped \/ NewerThan(e, Head(seen))
      BY <1>1, <1>7, <3>1 DEF GapInv
    <3> QED BY <1>1, <1>2, <1>7, <3>1, <3>2 DEF NewerThan
  <2> QED BY <2>1, <2>2
<1> QED BY <1>1, <1>6, <1>7 DEF GapInv

-----------------------------------------------------------------------------
\* The reader's own steps.

InOrder(s) == \A i, j \in 1..Len(s) : i < j => NewerThan(s[i], s[j])

\* In order, the first is the newest and the last the oldest.
LEMMA EndsInOrder ==
    ASSUME NEW S, NEW s \in Seq(S), s # <<>>, InOrder(s), NEW x \in ToSet(s)
    PROVE  /\ x = Last(s) \/ NewerThan(x, Last(s))
           /\ x = Head(s) \/ NewerThan(Head(s), x)
<1>1. /\ DOMAIN s = 1..Len(s) /\ Len(s) \in Nat /\ Len(s) > 0
      /\ Head(s) = s[1] /\ Last(s) = s[Len(s)]
  BY Elements
<1>2. PICK i \in 1..Len(s) : x = s[i]
  BY <1>1 DEF ToSet
<1>3. /\ i = Len(s) \/ i < Len(s)
      /\ i = 1 \/ 1 < i
      /\ 1 \in 1..Len(s) /\ Len(s) \in 1..Len(s)
  <2>1. Len(s) \in Nat /\ Len(s) > 0
    BY <1>1
  <2> QED BY ONLY <2>1, i \in 1..Len(s)
<1> QED BY <1>1, <1>2, <1>3 DEF InOrder

LEMMA InOrderTogether ==
    ASSUME NEW S, NEW s \in Seq(S), NEW t \in Seq(S), InOrder(s), InOrder(t),
           \A x \in ToSet(s), y \in ToSet(t) : NewerThan(x, y)
    PROVE  InOrder(s \o t)
<1>1. Len(s) \in Nat /\ Len(t) \in Nat /\ Len(s \o t) = Len(s) + Len(t)
  BY Elements, Together
<1>2. SUFFICES ASSUME NEW i \in 1..(Len(s) + Len(t)), NEW j \in 1..(Len(s) + Len(t)), i < j
               PROVE  NewerThan((s \o t)[i], (s \o t)[j])
  BY <1>1 DEF InOrder
<1>3. CASE j <= Len(s)
  <2>1. i \in 1..Len(s) /\ j \in 1..Len(s)
    BY <1>1, <1>2, <1>3
  <2>2. (s \o t)[i] = s[i] /\ (s \o t)[j] = s[j]
    BY <2>1, Together
  <2> QED BY <1>2, <2>1, <2>2 DEF InOrder
<1>4. CASE i <= Len(s) /\ j > Len(s)
  <2>1. i \in 1..Len(s)
    BY <1>1, <1>4
  <2>2. (s \o t)[i] = s[i] /\ j - Len(s) \in 1..Len(t) /\ (s \o t)[j] = t[j - Len(s)]
    BY <1>4, <2>1, Together
  <2>3. s[i] \in ToSet(s) /\ t[j - Len(s)] \in ToSet(t)
    BY <2>1, <2>2, Elements
  <2> QED BY <2>2, <2>3
<1>5. CASE i > Len(s)
  <2>1. j > Len(s) /\ i - Len(s) < j - Len(s)
    BY <1>1, <1>2, <1>5
  <2>2. /\ i - Len(s) \in 1..Len(t) /\ (s \o t)[i] = t[i - Len(s)]
        /\ j - Len(s) \in 1..Len(t) /\ (s \o t)[j] = t[j - Len(s)]
    BY <1>5, <2>1, Together
  <2> QED BY <2>1, <2>2 DEF InOrder
<1> QED BY <1>1, <1>3, <1>4, <1>5

LEMMA SeenIsInOrder ==
    ASSUME TypeInv
    PROVE  /\ SeenInOrder <=> InOrder(seen)
           /\ DOMAIN seen = 1..Len(seen)
<1>1. seen \in Seq(Events)
  BY DEF TypeInv
<1>2. DOMAIN seen = 1..Len(seen)
  BY <1>1, Elements
<1> QED BY <1>2 DEF SeenInOrder, InOrder

\* While the reader reads, the log and its order do not change.
LogStays == UNCHANGED <<clock, tx, nextId, committed>>

LEMMA LogStill ==
    ASSUME LogStays
    PROVE  /\ Visible' = Visible /\ Open' = Open
           /\ StampInv => StampInv'
           /\ LockInv => LockInv'
           /\ IdsFollowCommits => IdsFollowCommits'
           /\ \A e, f : NewerThan(e, f)' <=> NewerThan(e, f)
<1>1. Visible' = Visible /\ Open' = Open
  BY DEF LogStays, Visible, Open
<1>2. \A e, f : NewerThan(e, f)' <=> NewerThan(e, f)
  BY DEF LogStays, NewerThan
<1>3. StampInv => StampInv'
  BY <1>1 DEF LogStays, StampInv
<1>4. LockInv => LockInv'
  BY <1>1 DEF LogStays, LockInv
<1>5. IdsFollowCommits => IdsFollowCommits'
  BY DEF LogStays, IdsFollowCommits
<1> QED BY <1>1, <1>2, <1>3, <1>4, <1>5

\* The page that findAll returns for some rows.
PageFits(p, rows, d) ==
    /\ p \in Seq(rows) /\ InOrder(p)
    /\ rows # {} => p # <<>>
    /\ \A e \in rows \ ToSet(p) :
          IF d = "older" THEN NewerThan(Last(p), e) ELSE NewerThan(e, Head(p))
    /\ More(rows) <=> rows \ ToSet(p) # {}

LEMMA PageFitsRows ==
    ASSUME TypeInv, StampInv, NEW d \in {"older", "newer"}, NEW rows \in SUBSET Visible
    PROVE  PageFits(Page(rows, d), rows, d) /\ Page(rows, d) \in Seq(Events)
<1>1. Ordered(rows) /\ rows \subseteq Events
  BY VisibleOrdered
<1>2. PageFits(Page(rows, d), rows, d)
  BY <1>1, PageNearest DEF PageFits, InOrder
<1>3. \A s \in Seq(rows) : s \in Seq(Events)
  BY <1>1
<1> QED BY <1>2, <1>3 DEF PageFits

LEMMA FirstPageStep ==
    ASSUME PagingInv, FirstPage
    PROVE  PagingInv'
<1> USE DEF PagingInv
<1>1. LogStays /\ asks = 0 /\ asks' = 1 /\ MaxAsks > 0 /\ overlapped' = overlapped \cup Open
  BY DEF FirstPage, LogStays, writing
<1>2. PICK rows, p : rows = Visible \cap Matching /\ p = Page(rows, "older")
  OBVIOUS
<1>3. /\ answer' = [pc |-> "given", direction |-> "older", page |-> p,
                    newer |-> FALSE, older |-> More(rows), promised |-> FALSE]
      /\ seen' = p /\ before' = rows
  BY <1>2 DEF FirstPage
<1>4. PageFits(p, rows, "older") /\ p \in Seq(Events) /\ rows \subseteq Events
  BY <1>2, PageFitsRows, VisibleOrdered
<1>5. /\ p \in Seq(rows) /\ InOrder(p) /\ ToSet(p) \subseteq rows
      /\ rows # {} => p # <<>>
      /\ \A e \in rows \ ToSet(p) : NewerThan(Last(p), e)
      /\ More(rows) <=> rows \ ToSet(p) # {}
  BY <1>4, Elements DEF PageFits
<1>6. /\ Visible' = Visible /\ Open' = Open
      /\ \A e, f : NewerThan(e, f)' <=> NewerThan(e, f)
      /\ StampInv' /\ LockInv' /\ IdsFollowCommits'
  BY <1>1, LogStill
<1>7. TypeInv'
  <2>1. answer' \in Answer
    BY <1>3, <1>4 DEF Answer, More
  <2>2. Open \subseteq Events
    BY DEF Open
  <2>3. asks' \in 0..MaxAsks
    BY <1>1, PagingAssumption
  <2> QED BY <1>1, <1>3, <1>4, <2>1, <2>2, <2>3 DEF TypeInv, LogStays
<1>8. ShownInv'
  <2>1. answer'.page = p /\ asks' # 0
    BY <1>1, <1>3
  <2>2. ToSet(p) \subseteq Visible' \cap Matching /\ rows \subseteq Visible' \cap Matching
    BY <1>2, <1>5, <1>6
  <2> QED BY <1>3, <2>1, <2>2 DEF ShownInv
<1>9. SeenInOrder'
  <2>1. DOMAIN p = 1..Len(p)
    BY <1>4
  <2> QED BY <1>3, <1>5, <1>6, <2>1 DEF SeenInOrder, InOrder
<1>10. GapInv'
  <2>1. Open' \ overlapped' = {}
    BY <1>1, <1>6
  <2>2. \A e \in rows \ ToSet(p) : NewerThan(Last(p), e)'
    BY <1>5, <1>6
  <2> QED BY <1>2, <1>3, <1>6, <2>1, <2>2 DEF GapInv
<1>11. WalkInv'
  <2>1. \A e \in rows \ ToSet(p) : p # <<>> /\ NewerThan(Last(p), e)'
    BY <1>5, <1>6
  <2>2. answer'.older = More(rows)
    BY <1>3
  <2> QED BY <1>3, <1>5, <2>1, <2>2 DEF WalkInv
<1>12. FlagInv'
  <2>1. /\ answer'.direction = "older" /\ answer'.older = More(rows) /\ answer'.newer = FALSE
        /\ answer'.promised = FALSE
    BY <1>3
  <2>2. More(rows) => p # <<>> /\ Beyond(Last(p), "older")' # {}
    <3> SUFFICES ASSUME More(rows) PROVE p # <<>> /\ Beyond(Last(p), "older")' # {}
      OBVIOUS
    <3>1. PICK e \in rows : NewerThan(Last(p), e)
      BY <1>5
    <3>2. e \in Beyond(Last(p), "older")'
      BY <1>2, <1>6, <3>1 DEF Beyond
    <3> QED BY <1>5, <3>1, <3>2
  <2> QED BY <1>1, <1>3, <2>1, <2>2 DEF FlagInv, FlagsHonest
<1> QED BY <1>6, <1>7, <1>8, <1>9, <1>10, <1>11, <1>12

\* What a request with a cursor does, either way.
LEMMA AskFacts ==
    ASSUME PagingInv, NEW d \in {"older", "newer"}, NEW cursor, Ask(d, cursor)
    PROVE  \E p \in Seq(Events) :
           /\ PageFits(p, Beyond(cursor, d), d)
           /\ answer'.page = p /\ answer'.pc = "queried" /\ answer'.direction = d
           /\ d = "older" =>
                 /\ seen' = seen \o p
                 /\ ~answer'.newer /\ (answer'.older <=> More(Beyond(cursor, d)))
                 /\ answer'.promised => answer.direction = "older" /\ answer.older
           /\ d = "newer" =>
                 /\ seen' = p \o seen
                 /\ ~answer'.older /\ (answer'.newer <=> More(Beyond(cursor, d)))
                 /\ answer'.promised => answer.direction = "newer" /\ answer.newer
           /\ asks' # 0 /\ before' = before /\ overlapped' = overlapped \cup Open
           /\ LogStays /\ TypeInv'
<1> USE DEF PagingInv
<1> DEFINE rows == Beyond(cursor, d)
           p == Page(rows, d)
           promised == /\ answer.direction = d
                       /\ IF d = "older" THEN answer.older ELSE answer.newer
<1>1. /\ LogStays /\ asks < MaxAsks /\ asks' = asks + 1
      /\ before' = before /\ overlapped' = overlapped \cup Open
      /\ seen' = IF d = "older" THEN seen \o p ELSE p \o seen
  BY DEF Ask, LogStays, writing
<1>2. answer' = [pc |-> "queried", direction |-> d, page |-> p,
                 newer |-> d = "newer" /\ More(rows), older |-> d = "older" /\ More(rows),
                 promised |-> promised]
  BY DEF Ask
<1>3. rows \in SUBSET Visible
  BY DEF Beyond
<1>4. PageFits(p, rows, d) /\ p \in Seq(Events)
  BY <1>3, PageFitsRows
<1> HIDE DEF rows, p, promised
<1>5. /\ answer'.page = p /\ answer'.pc = "queried" /\ answer'.direction = d
      /\ answer'.newer = (d = "newer" /\ More(rows))
      /\ answer'.older = (d = "older" /\ More(rows))
      /\ answer'.promised = promised
  BY <1>2
<1>6. TypeInv'
  <2>1. promised \in BOOLEAN
    BY DEF promised, TypeInv, Answer
  <2>2. answer' \in Answer
    BY <1>2, <1>4, <2>1 DEF Answer
  <2>3. seen' \in Seq(Events) /\ Open \subseteq Events
    BY <1>1, <1>4, Together DEF TypeInv, Open
  <2>4. asks' \in 0..MaxAsks
    BY <1>1, PagingAssumption DEF TypeInv
  <2> QED BY <1>1, <2>2, <2>3, <2>4 DEF TypeInv, LogStays
<1>7. asks' # 0
  BY <1>1 DEF TypeInv
<1>8. d = "older" =>
        /\ seen' = seen \o p /\ ~answer'.newer /\ (answer'.older <=> More(rows))
        /\ answer'.promised => answer.direction = "older" /\ answer.older
  BY <1>1, <1>5 DEF promised
<1>9. d = "newer" =>
        /\ seen' = p \o seen /\ ~answer'.older /\ (answer'.newer <=> More(rows))
        /\ answer'.promised => answer.direction = "newer" /\ answer.newer
  BY <1>1, <1>5 DEF promised
<1> QED BY <1>1, <1>4, <1>5, <1>6, <1>7, <1>8, <1>9 DEF rows

\* The next older page goes to the end.
LEMMA AskOlderStep ==
    ASSUME PagingInv, AskOlder
    PROVE  PagingInv'
<1> USE DEF PagingInv
<1>1. PICK old, cursor, rows :
        old = seen /\ cursor = Last(seen) /\ rows = Beyond(cursor, "older")
  OBVIOUS
<1>2. old # <<>> /\ old \in Seq(Events) /\ Ask("older", cursor) /\ answer.pc = "given"
  BY <1>1 DEF AskOlder, TypeInv, Ask
<1>3. PICK p \in Seq(Events) :
        /\ PageFits(p, rows, "older") /\ seen' = old \o p
        /\ answer'.page = p /\ answer'.pc = "queried" /\ answer'.direction = "older"
        /\ ~answer'.newer /\ (answer'.older <=> More(rows))
        /\ answer'.promised => answer.direction = "older" /\ answer.older
        /\ asks' # 0 /\ before' = before /\ overlapped' = overlapped \cup Open
        /\ LogStays /\ TypeInv'
  BY <1>1, <1>2, AskFacts
<1>4. /\ Visible' = Visible /\ Open' = Open
      /\ \A e, f : NewerThan(e, f)' <=> NewerThan(e, f)
      /\ StampInv' /\ LockInv' /\ IdsFollowCommits'
  BY <1>3, LogStill
<1>5. /\ ToSet(old) \subseteq Visible \cap Matching
      /\ cursor \in ToSet(old) /\ cursor = Last(old)
      /\ InOrder(old)
  BY <1>1, <1>2, Elements, SeenIsInOrder DEF ShownInv
<1>6. /\ rows \subseteq Visible \cap Matching
      /\ \A e \in Visible \cap Matching : e \in rows <=> NewerThan(cursor, e)
  BY <1>1 DEF Beyond
<1>7. /\ p \in Seq(rows) /\ InOrder(p) /\ ToSet(p) \subseteq rows
      /\ rows # {} => p # <<>>
      /\ \A e \in rows \ ToSet(p) : p # <<>> /\ NewerThan(Last(p), e)
      /\ More(rows) <=> rows \ ToSet(p) # {}
  BY <1>3, Elements DEF PageFits
<1>8. \A x, y, z \in Visible : NewerThan(x, y) /\ NewerThan(y, z) => NewerThan(x, z)
  BY VisibleOrdered DEF Ordered
<1>9. \A x \in ToSet(old), y \in ToSet(p) : NewerThan(x, y)
  BY <1>2, <1>5, <1>6, <1>7, <1>8, EndsInOrder
<1>10. /\ old \o p \in Seq(Events) /\ ToSet(old \o p) = ToSet(old) \cup ToSet(p)
       /\ old \o p # <<>> /\ Head(old \o p) = Head(old)
       /\ Last(old \o p) = IF p = <<>> THEN Last(old) ELSE Last(p)
  <2>1. p = <<>> => old \o p = old
    BY <1>2, Together
  <2>2. p # <<>> => Last(old \o p) = Last(p)
    BY <1>2, Together
  <2>3. /\ old \o p \in Seq(Events) /\ ToSet(old \o p) = ToSet(old) \cup ToSet(p)
        /\ old \o p # <<>> /\ Head(old \o p) = Head(old)
    BY <1>2, Together
  <2> QED BY <2>1, <2>2, <2>3
<1>11. \A e \in (Visible \cap Matching) \ ToSet(old \o p) :
          NewerThan(cursor, e) => NewerThan(Last(old \o p), e)
  BY <1>6, <1>7, <1>10
<1>12. ShownInv'
  <2>1. ToSet(p) \subseteq Visible' \cap Matching
    BY <1>4, <1>6, <1>7
  <2>2. ToSet(old \o p) \subseteq Visible' \cap Matching
    BY <1>4, <1>5, <1>10, <2>1
  <2>3. before \subseteq Visible' \cap Matching
    BY <1>4 DEF ShownInv
  <2> QED BY <1>3, <2>1, <2>2, <2>3 DEF ShownInv
<1>13. SeenInOrder'
  <2>1. InOrder(old \o p)
    BY <1>2, <1>3, <1>5, <1>7, <1>9, InOrderTogether
  <2>2. DOMAIN (old \o p) = 1..Len(old \o p)
    BY <1>10, Elements
  <2> QED BY <1>3, <1>4, <2>1, <2>2 DEF SeenInOrder, InOrder
<1>14. GapInv'
  <2>1. Open' \ overlapped' = {}
    BY <1>3, <1>4
  <2>2. ASSUME NEW e \in (Visible \cap Matching) \ ToSet(old \o p)
        PROVE  \/ e \in overlapped' \/ NewerThan(e, Head(old \o p))'
               \/ NewerThan(Last(old \o p), e)'
    <3>1. e \in overlapped \/ NewerThan(e, Head(old)) \/ NewerThan(cursor, e)
      BY <1>1, <1>2, <1>10 DEF GapInv
    <3> QED BY <1>3, <1>4, <1>10, <1>11, <3>1
  <2> QED BY <1>3, <1>4, <2>1, <2>2 DEF GapInv
<1>15. WalkInv'
  <2>1. before \subseteq Visible \cap Matching
    BY DEF ShownInv
  <2>2. \A e \in before \ ToSet(old) : NewerThan(cursor, e)
    BY <1>1 DEF WalkInv
  <2>3. \A e \in before \ ToSet(old \o p) : NewerThan(Last(old \o p), e)'
    BY <1>4, <1>10, <1>11, <2>1, <2>2
  <2>4. ~More(rows) => before \subseteq ToSet(old \o p)
    BY <1>6, <1>7, <1>10, <2>1, <2>2
  <2> QED BY <1>3, <1>10, <2>3, <2>4 DEF WalkInv
<1>16. FlagInv'
  <2>1. More(rows) => Beyond(Last(old \o p), "older")' # {}
    <3> SUFFICES ASSUME More(rows) PROVE Beyond(Last(old \o p), "older")' # {}
      OBVIOUS
    <3>1. PICK e \in rows \ ToSet(p) : NewerThan(Last(p), e) /\ p # <<>>
      BY <1>7
    <3>2. e \in Beyond(Last(old \o p), "older")'
      BY <1>4, <1>6, <1>10, <3>1 DEF Beyond
    <3> QED BY <3>2
  <2>2. answer'.promised => p # <<>>
    BY <1>1, <1>3, <1>7 DEF FlagInv
  <2>3. p # <<>> => Beyond(Head(p), "newer")' # {}
    <3> SUFFICES ASSUME p # <<>> PROVE Beyond(Head(p), "newer")' # {}
      OBVIOUS
    <3>1. Head(p) \in ToSet(p)
      BY Elements
    <3>2. cursor \in Beyond(Head(p), "newer")'
      BY <1>4, <1>5, <1>9, <3>1 DEF Beyond
    <3> QED BY <3>2
  <2>4. FlagsHonest'
    BY <1>3 DEF FlagsHonest
  <2> QED BY <1>3, <1>10, <2>1, <2>2, <2>3, <2>4 DEF FlagInv
<1> QED BY <1>3, <1>4, <1>12, <1>13, <1>14, <1>15, <1>16
\* The next newer page goes to the top.
LEMMA AskNewerStep ==
    ASSUME PagingInv, AskNewer
    PROVE  PagingInv'
<1> USE DEF PagingInv
<1>1. PICK old, cursor, rows :
        old = seen /\ cursor = Head(seen) /\ rows = Beyond(cursor, "newer")
  OBVIOUS
<1>2. old # <<>> /\ old \in Seq(Events) /\ Ask("newer", cursor) /\ answer.pc = "given"
  BY <1>1 DEF AskNewer, TypeInv, Ask
<1>3. PICK p \in Seq(Events) :
        /\ PageFits(p, rows, "newer") /\ seen' = p \o old
        /\ answer'.page = p /\ answer'.pc = "queried" /\ answer'.direction = "newer"
        /\ ~answer'.older /\ (answer'.newer <=> More(rows))
        /\ answer'.promised => answer.direction = "newer" /\ answer.newer
        /\ asks' # 0 /\ before' = before /\ overlapped' = overlapped \cup Open
        /\ LogStays /\ TypeInv'
  BY <1>1, <1>2, AskFacts
<1>4. /\ Visible' = Visible /\ Open' = Open
      /\ \A e, f : NewerThan(e, f)' <=> NewerThan(e, f)
      /\ StampInv' /\ LockInv' /\ IdsFollowCommits'
  BY <1>3, LogStill
<1>5. /\ ToSet(old) \subseteq Visible \cap Matching
      /\ cursor \in ToSet(old) /\ cursor = Head(old)
      /\ InOrder(old)
  BY <1>1, <1>2, Elements, SeenIsInOrder DEF ShownInv
<1>6. /\ rows \subseteq Visible \cap Matching
      /\ \A e \in Visible \cap Matching : e \in rows <=> NewerThan(e, cursor)
  BY <1>1 DEF Beyond
<1>7. /\ p \in Seq(rows) /\ InOrder(p) /\ ToSet(p) \subseteq rows
      /\ rows # {} => p # <<>>
      /\ \A e \in rows \ ToSet(p) : p # <<>> /\ NewerThan(e, Head(p))
      /\ More(rows) <=> rows \ ToSet(p) # {}
  BY <1>3, Elements DEF PageFits
<1>8. \A x, y, z \in Visible : NewerThan(x, y) /\ NewerThan(y, z) => NewerThan(x, z)
  BY VisibleOrdered DEF Ordered
<1>9. \A x \in ToSet(p), y \in ToSet(old) : NewerThan(x, y)
  BY <1>2, <1>5, <1>6, <1>7, <1>8, EndsInOrder
<1>10. /\ p \o old \in Seq(Events) /\ ToSet(p \o old) = ToSet(old) \cup ToSet(p)
       /\ p \o old # <<>> /\ Last(p \o old) = Last(old)
       /\ Head(p \o old) = IF p = <<>> THEN Head(old) ELSE Head(p)
  <2>1. p = <<>> => p \o old = old
    BY <1>2, Together
  <2>2. p # <<>> => Head(p \o old) = Head(p)
    BY <1>2, Together
  <2>3. /\ p \o old \in Seq(Events) /\ ToSet(p \o old) = ToSet(old) \cup ToSet(p)
        /\ p \o old # <<>> /\ Last(p \o old) = Last(old)
    BY <1>2, Together
  <2> QED BY <2>1, <2>2, <2>3
<1>11. \A e \in (Visible \cap Matching) \ ToSet(p \o old) :
          NewerThan(e, cursor) => NewerThan(e, Head(p \o old))
  BY <1>6, <1>7, <1>10
<1>12. ShownInv'
  <2>1. ToSet(p) \subseteq Visible' \cap Matching
    BY <1>4, <1>6, <1>7
  <2>2. ToSet(p \o old) \subseteq Visible' \cap Matching
    BY <1>4, <1>5, <1>10, <2>1
  <2>3. before \subseteq Visible' \cap Matching
    BY <1>4 DEF ShownInv
  <2> QED BY <1>3, <2>1, <2>2, <2>3 DEF ShownInv
<1>13. SeenInOrder'
  <2>1. InOrder(p \o old)
    BY <1>2, <1>3, <1>5, <1>7, <1>9, InOrderTogether
  <2>2. DOMAIN (p \o old) = 1..Len(p \o old)
    BY <1>10, Elements
  <2> QED BY <1>3, <1>4, <2>1, <2>2 DEF SeenInOrder, InOrder
<1>14. GapInv'
  <2>1. Open' \ overlapped' = {}
    BY <1>3, <1>4
  <2>2. ASSUME NEW e \in (Visible \cap Matching) \ ToSet(p \o old)
        PROVE  \/ e \in overlapped' \/ NewerThan(e, Head(p \o old))'
               \/ NewerThan(Last(p \o old), e)'
    <3>1. e \in overlapped \/ NewerThan(e, cursor) \/ NewerThan(Last(old), e)
      BY <1>1, <1>2, <1>10 DEF GapInv
    <3> QED BY <1>3, <1>4, <1>10, <1>11, <3>1
  <2> QED BY <1>3, <1>4, <2>1, <2>2 DEF GapInv
<1>15. WalkInv'
  <2>1. \A e \in before \ ToSet(old) : NewerThan(Last(old), e)
    BY <1>1 DEF WalkInv
  <2>2. \A e \in before \ ToSet(p \o old) : NewerThan(Last(p \o old), e)'
    BY <1>4, <1>10, <2>1
  <2> QED BY <1>3, <1>10, <2>2 DEF WalkInv
<1>16. FlagInv'
  <2>1. More(rows) => Beyond(Head(p \o old), "newer")' # {}
    <3> SUFFICES ASSUME More(rows) PROVE Beyond(Head(p \o old), "newer")' # {}
      OBVIOUS
    <3>1. PICK e \in rows \ ToSet(p) : NewerThan(e, Head(p)) /\ p # <<>>
      BY <1>7
    <3>2. e \in Beyond(Head(p \o old), "newer")'
      BY <1>4, <1>6, <1>10, <3>1 DEF Beyond
    <3> QED BY <3>2
  <2>2. answer'.promised => p # <<>>
    BY <1>1, <1>3, <1>7 DEF FlagInv
  <2>3. p # <<>> => Beyond(Last(p), "older")' # {}
    <3> SUFFICES ASSUME p # <<>> PROVE Beyond(Last(p), "older")' # {}
      OBVIOUS
    <3>1. Last(p) \in ToSet(p)
      BY Elements
    <3>2. cursor \in Beyond(Last(p), "older")'
      BY <1>4, <1>5, <1>9, <3>1 DEF Beyond
    <3> QED BY <3>2
  <2>4. FlagsHonest'
    BY <1>3 DEF FlagsHonest
  <2> QED BY <1>3, <1>10, <2>1, <2>2, <2>3, <2>4 DEF FlagInv
<1> QED BY <1>3, <1>4, <1>12, <1>13, <1>14, <1>15, <1>16

\* Looking to the other side of the page changes a flag and nothing else.
LEMMA ProbeStep ==
    ASSUME PagingInv, Probe
    PROVE  PagingInv'
<1> USE DEF PagingInv
<1>1. /\ LogStays /\ answer.pc = "queried"
      /\ seen' = seen /\ asks' = asks /\ before' = before /\ overlapped' = overlapped
  BY DEF Probe, LogStays, writing
<1>2. PICK page : page = answer.page
  OBVIOUS
<1>3. PICK b \in BOOLEAN :
        \/ /\ answer.direction = "older" /\ answer' = [answer EXCEPT !.pc = "given", !.newer = b]
           /\ page # <<>> => b = (Beyond(Head(page), "newer") # {})
        \/ /\ answer.direction # "older" /\ answer' = [answer EXCEPT !.pc = "given", !.older = b]
           /\ page # <<>> => b = (Beyond(Last(page), "older") # {})
  <2>1. CASE answer.direction = "older"
    BY <1>2, <2>1 DEF Probe
  <2>2. CASE answer.direction # "older"
    BY <1>2, <2>2 DEF Probe
  <2> QED BY <2>1, <2>2
<1>4. /\ Visible' = Visible /\ Open' = Open
      /\ \A e, f : NewerThan(e, f)' <=> NewerThan(e, f)
      /\ StampInv' /\ LockInv' /\ IdsFollowCommits'
  BY <1>1, LogStill
<1>5. answer \in Answer
  BY DEF TypeInv
<1>6. /\ answer' \in Answer /\ answer'.pc = "given" /\ answer'.page = page
      /\ answer'.direction = answer.direction /\ answer'.promised = answer.promised
      /\ answer.direction = "older" => answer'.older = answer.older /\ answer'.newer = b
      /\ answer.direction # "older" => answer'.newer = answer.newer /\ answer'.older = b
  BY <1>2, <1>3, <1>5 DEF Answer
<1>7. TypeInv'
  BY <1>1, <1>6 DEF TypeInv, LogStays
<1>8. ShownInv'
  BY <1>1, <1>2, <1>4, <1>6 DEF ShownInv
<1>9. SeenInOrder'
  BY <1>1, <1>4 DEF SeenInOrder
<1>10. GapInv'
  <2>1. /\ tx' = tx
        /\ \A e, f : NewerThan(e, f)' <=> NewerThan(e, f)
    BY <1>1, <1>4 DEF LogStays
  <2> QED BY <1>1, <1>4, <2>1 DEF GapInv
<1>11. WalkInv'
  BY <1>1, <1>4, <1>6 DEF WalkInv
<1>12. FlagInv'
  <2>1. \A c, d : Beyond(c, d)' = Beyond(c, d)
    BY <1>4 DEF Beyond
  <2>2. answer'.promised => answer'.page # <<>>
    BY <1>2, <1>6 DEF FlagInv
  <2>3. asks' > 1 /\ page # <<>> =>
          IF answer'.direction = "older" THEN Beyond(Head(page), "newer") # {} /\ answer'.newer
                                         ELSE Beyond(Last(page), "older") # {} /\ answer'.older
    BY <1>1, <1>2, <1>3, <1>6 DEF FlagInv
  <2>4. FlagsHonest'
    BY <1>6, <2>2, <2>3 DEF FlagsHonest
  <2>5. answer'.direction = "older" /\ answer'.older =>
          seen # <<>> /\ Beyond(Last(seen), "older") # {}
    BY <1>6 DEF FlagInv
  <2>6. answer'.direction = "newer" /\ answer'.newer =>
          seen # <<>> /\ Beyond(Head(seen), "newer") # {}
    BY <1>6 DEF FlagInv
  <2> QED BY <1>1, <1>6, <2>1, <2>2, <2>3, <2>4, <2>5, <2>6 DEF FlagInv
<1> QED BY <1>4, <1>7, <1>8, <1>9, <1>10, <1>11, <1>12

-----------------------------------------------------------------------------
LEMMA PagingInit == Init => PagingInv
<1> SUFFICES ASSUME Init PROVE PagingInv
  OBVIOUS
<1>1. /\ clock = 0 /\ nextId = 1 /\ asks = 0 /\ before = {} /\ overlapped = {}
      /\ committed = <<>> /\ seen = <<>> /\ Visible = {} /\ ToSet(seen) = {}
  BY DEF Init, Visible, ToSet
<1>2. \A e \in Events : tx[e] = [pc |-> "new", began |-> 0, at |-> 0, id |-> 0]
  BY DEF Init
<1>3. /\ answer.pc = "none" /\ answer.direction = "older" /\ answer.page = <<>>
      /\ answer.newer = FALSE /\ answer.older = FALSE /\ answer.promised = FALSE
  BY DEF Init
<1>4. ToSet(answer.page) = {}
  BY <1>3 DEF ToSet
<1>5. TypeInv
  <2>1. <<>> \in Seq(Events) /\ 0 \in 0..MaxClock /\ 0 \in 0..MaxAsks
    BY PagingAssumption
  <2>2. answer \in Answer /\ tx \in [Events -> Transaction]
    BY <2>1 DEF Init, Answer, Transaction
  <2> QED BY <1>1, <2>1, <2>2 DEF TypeInv
<1>6. StampInv
  BY <1>1, <1>2 DEF StampInv
<1>7. LockInv /\ IdsFollowCommits
  <2>1. DOMAIN committed = {}
    BY <1>1
  <2> QED BY <1>1, <1>2, <2>1 DEF LockInv, IdsFollowCommits
<1>8. ShownInv /\ WalkInv
  BY <1>1, <1>3, <1>4 DEF ShownInv, WalkInv
<1>9. SeenInOrder
  <2>1. DOMAIN seen = {}
    BY <1>1
  <2> QED BY <2>1 DEF SeenInOrder
<1>10. GapInv
  BY <1>1 DEF GapInv
<1>11. FlagInv
  BY <1>1, <1>3 DEF FlagInv, FlagsHonest
<1> QED BY <1>5, <1>6, <1>7, <1>8, <1>9, <1>10, <1>11 DEF PagingInv

LEMMA PagingStep == PagingInv /\ [Next]_vars => PagingInv'
<1> SUFFICES ASSUME PagingInv, [Next]_vars PROVE PagingInv'
  OBVIOUS
<1>1. CASE Writer
  <2>1. TypeInv' /\ Quiet /\ StampInv' /\ LockInv' /\ IdsFollowCommits'
    BY <1>1, TypeStepWriter, StampStepWriter, LockStepWriter DEF PagingInv
  <2>2. ShownInv' /\ SeenInOrder' /\ WalkInv' /\ FlagInv'
    BY <2>1, ShownStepWriter DEF PagingInv
  <2>3. GapInv'
    BY <1>1, <2>1, GapStepWriter DEF PagingInv
  <2> QED BY <2>1, <2>2, <2>3 DEF PagingInv
<1>2. CASE FirstPage \/ AskOlder \/ AskNewer \/ Probe
  BY <1>2, FirstPageStep, AskOlderStep, AskNewerStep, ProbeStep
<1>3. CASE UNCHANGED vars
  <2>1. LogStays /\ UNCHANGED reading
    BY <1>3 DEF vars, writing, LogStays
  <2>2. /\ Visible' = Visible /\ Open' = Open
        /\ \A e, f : NewerThan(e, f)' <=> NewerThan(e, f)
        /\ StampInv' /\ LockInv' /\ IdsFollowCommits'
    BY <2>1, LogStill DEF PagingInv
  <2>3. \A c, d : Beyond(c, d)' = Beyond(c, d)
    BY <2>2 DEF Beyond
  <2>4. TypeInv' /\ ShownInv' /\ SeenInOrder' /\ WalkInv'
    BY <2>1, <2>2 DEF PagingInv, TypeInv, ShownInv, SeenInOrder, WalkInv, LogStays, reading
  <2>5. GapInv'
    <3>1. tx' = tx
      BY <2>1 DEF LogStays
    <3> QED BY <2>1, <2>2, <3>1 DEF PagingInv, GapInv, reading
  <2>6. FlagInv'
    BY <2>1, <2>3 DEF PagingInv, FlagInv, FlagsHonest, reading
  <2> QED BY <2>2, <2>4, <2>5, <2>6 DEF PagingInv
<1> QED BY <1>1, <1>2, <1>3 DEF Next, Writer

\* What holds of every reachable state, in terms of the invariants.
LEMMA GapsFromInv == PagingInv => GapsOverlapped
<1> SUFFICES ASSUME PagingInv, seen # <<>>, NEW e \in (Visible \cap Matching) \ ToSet(seen),
                    NewerThan(Head(seen), e), NewerThan(e, Last(seen))
             PROVE  e \in overlapped
  BY DEF GapsOverlapped
<1> USE DEF PagingInv
<1>1. Head(seen) \in Visible /\ Last(seen) \in Visible
  <2>1. seen \in Seq(Events)
    BY DEF TypeInv
  <2> QED BY <2>1, Elements DEF ShownInv
<1>2. Ordered(Visible)
  BY VisibleOrdered
<1>3. ~NewerThan(e, Head(seen)) /\ ~NewerThan(Last(seen), e)
  BY <1>1, <1>2 DEF Ordered
<1> QED BY <1>3 DEF GapInv

LEMMA PagingCorrect == Spec => []PagingInv
<1> QED
  BY PagingInit, PagingStep, PTL DEF Spec

\* The pages a reader has put one under or over the other are in strict order,
\* so no event is shown twice, however the log grew meanwhile.
THEOREM PagesInOrder == Spec => []SeenInOrder
<1>1. PagingInv => SeenInOrder
  BY DEF PagingInv
<1> QED
  BY <1>1, PagingCorrect, PTL

\* Only what was being written while a page was read can be missing between the
\* newest and the oldest event shown.
THEOREM GapsAreOverlaps == Spec => []GapsOverlapped
<1> QED
  BY GapsFromInv, PagingCorrect, PTL

\* The walk that ends has shown all that was there when it began.
THEOREM WalksAreComplete == Spec => []WalkComplete
<1>1. PagingInv => WalkComplete
  BY DEF PagingInv, WalkInv, WalkComplete
<1> QED
  BY <1>1, PagingCorrect, PTL

\* What a flag promises is there, and the way back is always known.
THEOREM FlagsAreHonest == Spec => []FlagsHonest
<1>1. PagingInv => FlagsHonest
  BY DEF PagingInv, FlagInv
<1> QED
  BY <1>1, PagingCorrect, PTL

\* The row's lock makes the ids of one row's events follow its commits.
THEOREM IdsFollowTheLock == Spec => []IdsFollowCommits
<1>1. PagingInv => IdsFollowCommits
  BY DEF PagingInv
<1> QED
  BY <1>1, PagingCorrect, PTL

-----------------------------------------------------------------------------
\* Pages of products.

\* Rows that a ranking tells apart, sorted: all of them, each once, by rank.
LEMMA SortByIs ==
    ASSUME NEW S, IsFiniteSet(S), NEW rank,
           \A x \in S : rank[x] \in Nat,
           \A x, y \in S : rank[x] = rank[y] => x = y
    PROVE  LET s == SortBy(rank, S) IN
           /\ s \in Seq(S) /\ Len(s) = Cardinality(S) /\ Cardinality(S) \in Nat
           /\ Range(s) = S /\ IsInjective(s) /\ Increasing(s, rank)
<1> DEFINE n == Cardinality(S)
           s == SortBy(rank, S)
           R == {p \in S \X S : rank[p[1]] < rank[p[2]]}
<1>1. n \in Nat /\ IsFiniteSet(1..n) /\ Cardinality(1..n) = n
  BY FS_CardinalityType, FS_Interval
<1>2. \A x, y \in S : <<x, y>> \in R <=> rank[x] < rank[y]
  OBVIOUS
<1> HIDE DEF R
<1>3. PICK f \in SetToSeqs(S) : \A i, j \in DOMAIN f : i < j => <<f[i], f[j]>> \in R
  <2>1. \A x \in S : <<x, x>> \notin R
    BY <1>2
  <2>2. \A x, y \in S : x # y => <<x, y>> \in R \/ <<y, x>> \in R
    BY <1>2
  <2>3. \A x, y, z \in S : <<x, y>> \in R /\ <<y, z>> \in R => <<x, z>> \in R
    BY <1>2
  <2> QED BY <2>1, <2>2, <2>3, SortedExists
<1>4. \A g \in SetToSeqs(S) : g \in [1..n -> S] /\ DOMAIN g = 1..n
  BY DEF SetToSeqs
<1>5. Increasing(f, rank)
  BY <1>2, <1>3, <1>4 DEF Increasing
<1>6. s \in SetToSeqs(S) /\ Increasing(s, rank)
  BY <1>5 DEF SortBy
<1> HIDE DEF s
<1>7. s \in [1..n -> S] /\ DOMAIN s = 1..n
  BY <1>4, <1>6
<1>8. s \in Seq(S) /\ Len(s) = n
  BY <1>1, <1>7
<1>9. IsInjective(s)
  BY <1>6, <1>7 DEF SetToSeqs, IsInjective
<1>10. Range(s) = S
  <2>1. s \in Injection(1..n, S)
    BY <1>7, <1>9 DEF Injection
  <2>2. s \in Surjection(1..n, S)
    BY <1>1, <2>1, FS_Injection
  <2> QED BY <1>7, <2>2 DEF Surjection, Range
<1> QED BY <1>1, <1>6, <1>8, <1>9, <1>10 DEF s

\* A row of a sorted list has as many before it as its place says.
LEMMA CountBefore ==
    ASSUME NEW S, IsFiniteSet(S), NEW rank, NEW s \in Seq(S),
           \A x \in S : rank[x] \in Nat,
           Range(s) = S, IsInjective(s), Increasing(s, rank),
           NEW i \in 1..Len(s)
    PROVE  Cardinality({x \in S : rank[x] < rank[s[i]]}) = i - 1
<1> DEFINE B == {x \in S : rank[x] < rank[s[i]]}
           f == [j \in 1..(i - 1) |-> s[j]]
<1>1. DOMAIN s = 1..Len(s) /\ Len(s) \in Nat /\ \A j \in 1..Len(s) : s[j] \in S
  OBVIOUS
<1>2. \A j \in 1..Len(s) : rank[s[j]] < rank[s[i]] <=> j < i
  <2> SUFFICES ASSUME NEW j \in 1..Len(s)
               PROVE  rank[s[j]] < rank[s[i]] <=> j < i
    OBVIOUS
  <2>1. rank[s[j]] \in Nat /\ rank[s[i]] \in Nat
    BY <1>1
  <2>2. (j < i => rank[s[j]] < rank[s[i]]) /\ (i < j => rank[s[i]] < rank[s[j]])
    BY <1>1 DEF Increasing
  <2> QED BY <2>1, <2>2
<1>3. \A x \in B : \E j \in 1..(i - 1) : s[j] = x
  <2> SUFFICES ASSUME NEW x \in B PROVE \E j \in 1..(i - 1) : s[j] = x
    OBVIOUS
  <2>1. PICK j \in 1..Len(s) : s[j] = x
    BY <1>1 DEF Range
  <2> QED BY <1>1, <1>2, <2>1
<1>4. \A j \in 1..(i - 1) : s[j] \in B
  BY <1>1, <1>2
<1> HIDE DEF B
<1>5. f \in [1..(i - 1) -> B] /\ \A j, k \in 1..(i - 1) : f[j] = f[k] => j = k
  BY <1>1, <1>4 DEF IsInjective
<1>6. f \in Bijection(1..(i - 1), B)
  BY <1>3, <1>5 DEF Bijection, Injection, Surjection, IsInjective
<1>7. ExistsBijection(1..(i - 1), B) /\ i - 1 \in Nat
  BY <1>6 DEF ExistsBijection
<1> QED BY <1>7, FS_CountingElements DEF B

LEMMA MinOfTwo ==
    ASSUME NEW a \in Nat, NEW b \in Nat
    PROVE  Min({a, b}) = IF a <= b THEN a ELSE b
<1> DEFINE m == IF a <= b THEN a ELSE b
<1>1. m \in {a, b} /\ \A y \in {a, b} : m =< y
  OBVIOUS
<1>2. \A x \in {a, b} : (\A y \in {a, b} : x =< y) => x = m
  OBVIOUS
<1> HIDE DEF m
<1>3. Min({a, b}) = m
  BY <1>1, <1>2 DEF Min
<1> QED BY <1>3 DEF m

\* OFFSET (n - 1) * limit, LIMIT limit.
LEMMA PageOfIs ==
    ASSUME NEW S, NEW s \in Seq(S), NEW n \in Nat \ {0}
    PROVE  LET p == PageOf(s, n)
               first == (n - 1) * PageLimit
           IN
           /\ p \in Seq(S) /\ Len(p) <= PageLimit /\ first \in Nat
           /\ \A i \in 1..Len(p) : first + i \in 1..Len(s) /\ p[i] = s[first + i]
           /\ \A k \in 1..Len(s) :
                 k - 1 \in first..(first + PageLimit - 1) => k - first \in 1..Len(p)
<1>1. PageLimit \in Nat \ {0} /\ Len(s) \in Nat
  BY ListingAssumption
<1>2. PICK first \in Nat : first = (n - 1) * PageLimit
  <2>1. n - 1 \in Nat
    OBVIOUS
  <2>2. \A a, b \in Nat : a * b \in Nat
    OBVIOUS
  <2> QED BY <1>1, <2>1, <2>2
<1>3. n * PageLimit = first + PageLimit
  BY <1>1, <1>2
<1> DEFINE last == IF first + PageLimit <= Len(s) THEN first + PageLimit ELSE Len(s)
           p == SubSeq(s, first + 1, last)
<1>4. PageOf(s, n) = p
  <2>1. Min({n * PageLimit, Len(s)}) = last
    BY <1>1, <1>3, MinOfTwo
  <2> QED BY <1>2, <2>1 DEF PageOf
<1>5. last \in Nat /\ last <= Len(s) /\ last <= first + PageLimit
  BY <1>1
<1> HIDE DEF p
<1>6. /\ p \in Seq(S)
      /\ Len(p) = IF first + 1 <= last THEN last - first ELSE 0
      /\ \A i \in 1..Len(p) : p[i] = s[first + i]
  <2>1. first + 1 \in Int /\ last \in Int
    BY <1>5
  <2>2. \A i \in (first + 1)..last : s[i] \in S
    BY <1>1, <1>5
  <2> HIDE DEF last
  <2>3. /\ p \in Seq(S)
        /\ Len(p) = IF first + 1 <= last THEN last - (first + 1) + 1 ELSE 0
        /\ \A i \in 1..(last - (first + 1) + 1) : p[i] = s[(first + 1) + i - 1]
    BY <2>1, <2>2, SubSeqProperties DEF p
  <2>4. last - (first + 1) + 1 = last - first /\ \A i \in Nat : (first + 1) + i - 1 = first + i
    BY <2>1
  <2>5. Len(p) = IF first + 1 <= last THEN last - first ELSE 0
    BY <2>3, <2>4
  <2>6. \A i \in 1..Len(p) : i \in Nat /\ i \in 1..(last - (first + 1) + 1)
    BY <1>5, <2>4, <2>5
  <2> QED BY <2>3, <2>4, <2>5, <2>6
<1>7. Len(p) <= PageLimit
  BY <1>1, <1>5, <1>6
<1>8. \A i \in 1..Len(p) : first + i \in 1..Len(s)
  BY <1>1, <1>5, <1>6
<1>9. \A k \in 1..Len(s) :
          k - 1 \in first..(first + PageLimit - 1) => k - first \in 1..Len(p)
  BY <1>1, <1>6
<1> QED BY <1>2, <1>4, <1>6, <1>7, <1>8, <1>9

\* A page of a sorted list: of its rows those that have as many before them as the
\* page's number says, in order.
LEMMA PageSorted ==
    ASSUME NEW S, IsFiniteSet(S), NEW rank, NEW s \in Seq(S),
           \A x \in S : rank[x] \in Nat,
           Range(s) = S, IsInjective(s), Increasing(s, rank),
           NEW n \in Nat \ {0}
    PROVE  LET p == PageOf(s, n)
               first == (n - 1) * PageLimit
           IN
           /\ p \in Seq(S) /\ Len(p) <= PageLimit
           /\ IsInjective(p) /\ Increasing(p, rank)
           /\ Range(p) = {x \in S : Cardinality({y \in S : rank[y] < rank[x]})
                                       \in first..(first + PageLimit - 1)}
<1>0. PageLimit \in Nat \ {0} /\ Len(s) \in Nat /\ DOMAIN s = 1..Len(s)
  BY ListingAssumption
<1>1. PICK p \in Seq(S), first \in Nat :
          /\ p = PageOf(s, n) /\ first = (n - 1) * PageLimit /\ Len(p) <= PageLimit
          /\ \A i \in 1..Len(p) : first + i \in 1..Len(s) /\ p[i] = s[first + i]
          /\ \A k \in 1..Len(s) :
                k - 1 \in first..(first + PageLimit - 1) => k - first \in 1..Len(p)
  BY PageOfIs
<1>2. DOMAIN p = 1..Len(p) /\ Len(p) \in Nat
  OBVIOUS
<1>3. IsInjective(p)
  <2> SUFFICES ASSUME NEW i \in 1..Len(p), NEW j \in 1..Len(p), p[i] = p[j]
               PROVE  i = j
    BY <1>2 DEF IsInjective
  <2>1. first + i \in DOMAIN s /\ first + j \in DOMAIN s /\ s[first + i] = s[first + j]
    BY <1>0, <1>1
  <2>2. first + i = first + j
    BY <2>1 DEF IsInjective
  <2> QED BY <1>1, <2>2
<1>4. Increasing(p, rank)
  <2> SUFFICES ASSUME NEW i \in 1..Len(p), NEW j \in 1..Len(p), i < j
               PROVE  rank[p[i]] < rank[p[j]]
    BY <1>2 DEF Increasing
  <2>1. first + i < first + j /\ first + i \in DOMAIN s /\ first + j \in DOMAIN s
    BY <1>0, <1>1
  <2>2. rank[s[first + i]] < rank[s[first + j]]
    BY <2>1 DEF Increasing
  <2> QED BY <1>1, <2>2
<1> DEFINE ahead(x) == Cardinality({y \in S : rank[y] < rank[x]})
           on(x) == ahead(x) \in first..(first + PageLimit - 1)
<1>5. ASSUME NEW k \in 1..Len(s)
      PROVE  ahead(s[k]) = k - 1
  <2>1. Cardinality({y \in S : rank[y] < rank[s[k]]}) = k - 1
    BY CountBefore
  <2> QED BY <2>1
<1> HIDE DEF ahead
<1>6. \A k \in 1..Len(s) : on(s[k]) <=> k - 1 \in first..(first + PageLimit - 1)
  BY <1>5
<1> HIDE DEF on
<1>7. Range(p) = {x \in S : on(x)}
  <2>1. ASSUME NEW i \in 1..Len(p)
        PROVE  p[i] \in S /\ on(p[i])
    <3>1. first + i \in 1..Len(s) /\ p[i] = s[first + i] /\ i <= PageLimit
      BY <1>0, <1>1
    <3>2. (first + i) - 1 \in first..(first + PageLimit - 1)
      BY <1>0, <3>1
    <3> QED BY <1>6, <3>1, <3>2
  <2>2. ASSUME NEW x \in S, on(x)
        PROVE  \E i \in 1..Len(p) : p[i] = x
    <3>1. PICK k \in 1..Len(s) : s[k] = x
      BY <1>0 DEF Range
    <3>2. k - first \in 1..Len(p)
      BY <1>1, <1>6, <2>2, <3>1
    <3>3. first + (k - first) = k
      OBVIOUS
    <3>4. p[k - first] = x
      BY <1>1, <3>1, <3>2, <3>3
    <3> QED BY <3>2, <3>4
  <2> QED BY <1>2, <2>1, <2>2 DEF Range
<1> QED BY <1>1, <1>3, <1>4, <1>7 DEF on, ahead

LEMMA RangeFinite ==
    ASSUME NEW S, NEW s \in Seq(S)
    PROVE  /\ IsFiniteSet(Range(s)) /\ Range(s) \subseteq S
           /\ Cardinality(Range(s)) \in Nat /\ Cardinality(Range(s)) <= Len(s)
           /\ IsInjective(s) => Cardinality(Range(s)) = Len(s)
<1>1. Len(s) \in Nat /\ DOMAIN s = 1..Len(s) /\ s \in [1..Len(s) -> S]
  OBVIOUS
<1>2. IsFiniteSet(1..Len(s)) /\ Cardinality(1..Len(s)) = Len(s)
  BY <1>1, FS_Interval
<1>3. s \in Surjection(1..Len(s), Range(s))
  BY <1>1 DEF Surjection, Range
<1>4. /\ IsFiniteSet(Range(s)) /\ Cardinality(Range(s)) <= Len(s)
      /\ Cardinality(Range(s)) = Len(s) <=> s \in Injection(1..Len(s), Range(s))
  BY <1>2, <1>3, FS_Surjection
<1>5. IsInjective(s) => s \in Injection(1..Len(s), Range(s))
  BY <1>1, <1>3 DEF Injection, IsInjective, Surjection
<1> QED BY <1>1, <1>4, <1>5, FS_CardinalityType DEF Range

\* findProductsByIdsInOrder: the rows there are, in the order of the ids.
LEMMA KeptIs ==
    ASSUME NEW S, NEW ids \in Seq(S), IsInjective(ids), NEW T
    PROVE  LET place == Inverse(ids, DOMAIN ids, Range(ids))
               kept == SortBy(place, Range(ids) \cap T)
           IN
           /\ kept \in Seq(S) /\ Len(kept) <= Len(ids)
           /\ IsInjective(kept) /\ Range(kept) = Range(ids) \cap T
           /\ Range(ids) \subseteq T => Len(kept) = Len(ids)
           /\ \A rank : Increasing(ids, rank) => Increasing(kept, rank)
<1> DEFINE place == Inverse(ids, DOMAIN ids, Range(ids))
           K == Range(ids) \cap T
           kept == SortBy(place, K)
<1>1. Len(ids) \in Nat /\ DOMAIN ids = 1..Len(ids)
  OBVIOUS
<1>2. \A x \in Range(ids) : place[x] \in 1..Len(ids) /\ ids[place[x]] = x
  <2> SUFFICES ASSUME NEW x \in Range(ids)
               PROVE  place[x] \in 1..Len(ids) /\ ids[place[x]] = x
    OBVIOUS
  <2>1. place[x] = CHOOSE i \in DOMAIN ids : x \in Range(ids) => ids[i] = x
    BY DEF Inverse
  <2>2. \E i \in DOMAIN ids : ids[i] = x
    BY DEF Range
  <2> QED BY <1>1, <2>1, <2>2
<1> HIDE DEF place
<1>3. \A i \in 1..Len(ids) : ids[i] \in Range(ids) /\ place[ids[i]] = i
  <2>1. \A i \in 1..Len(ids) : ids[i] \in Range(ids)
    BY <1>1 DEF Range
  <2> QED BY <1>1, <1>2, <2>1 DEF IsInjective
<1>4. IsFiniteSet(K) /\ Cardinality(K) <= Cardinality(Range(ids)) /\ Cardinality(K) \in Nat
  <2>1. IsFiniteSet(Range(ids)) /\ K \in SUBSET Range(ids)
    BY RangeFinite
  <2>2. IsFiniteSet(K) /\ Cardinality(K) <= Cardinality(Range(ids))
    BY <2>1, FS_Subset
  <2> QED BY <2>2, FS_CardinalityType
<1>5. Cardinality(Range(ids)) = Len(ids) /\ Range(ids) \subseteq S
  BY RangeFinite
<1>6. (\A x \in K : place[x] \in Nat) /\ \A x, y \in K : place[x] = place[y] => x = y
  BY <1>2
<1>7. /\ kept \in Seq(K) /\ Len(kept) = Cardinality(K)
      /\ Range(kept) = K /\ IsInjective(kept) /\ Increasing(kept, place)
  BY <1>4, <1>6, SortByIs
<1> HIDE DEF kept, K
<1>8. kept \in Seq(S)
  <2>1. \A i \in 1..Len(kept) : kept[i] \in S
    BY <1>5, <1>7 DEF K
  <2> QED BY <1>7, <2>1
<1>9. K \subseteq Range(ids) /\ (Range(ids) \subseteq T => K = Range(ids))
  BY DEF K
<1>10. ASSUME NEW rank, Increasing(ids, rank)
       PROVE  Increasing(kept, rank)
  <2> SUFFICES ASSUME NEW i \in DOMAIN kept, NEW j \in DOMAIN kept, i < j
               PROVE  rank[kept[i]] < rank[kept[j]]
    BY DEF Increasing
  <2>1. kept[i] \in K /\ kept[j] \in K /\ place[kept[i]] < place[kept[j]]
    BY <1>7 DEF Increasing
  <2>2. PICK a, b \in 1..Len(ids) : a = place[kept[i]] /\ b = place[kept[j]]
    BY <1>2, <1>9, <2>1
  <2>3. ids[a] = kept[i] /\ ids[b] = kept[j] /\ a < b
    BY <1>2, <1>9, <2>1, <2>2
  <2>4. rank[ids[a]] < rank[ids[b]]
    BY <1>1, <1>10, <2>3 DEF Increasing
  <2> QED BY <2>3, <2>4
<1> QED BY <1>4, <1>5, <1>7, <1>8, <1>9, <1>10 DEF kept, place, K

-----------------------------------------------------------------------------
Seeable(prod) == {p \in DOMAIN prod : prod[p].visible}
BelowIn(t, c) == IF c \in DOMAIN t THEN Subtree(t, c) ELSE {}

Wanted(t, prod, q) ==
    {p \in DOMAIN prod : /\ q.admin \/ prod[p].visible
                         /\ q.slug \notin DOMAIN t \/ prod[p].category \in BelowIn(t, q.slug)}

Own(prod, c) == {p \in DOMAIN prod : prod[p].visible /\ prod[p].category = c}
Listed(t, prod, c) == {p \in DOMAIN prod : prod[p].category \in BelowIn(t, c)}

PageRight(wanted, n, s) ==
    LET first == (n - 1) * PageLimit IN
    /\ Range(s) = {p \in wanted : Cardinality({x \in wanted : Rank[x] < Rank[p]})
                                      \in first..(first + PageLimit - 1)}
    /\ Increasing(s, Rank)

RandomRight(own, s) == Range(s) \subseteq own /\ Len(s) = Min({PageLimit, Cardinality(own)})

\* Of a request as it stands, whatever was written meanwhile: it has a page of
\* ids, it knows what could be seen, and gives a visitor nothing else.
Careful(prod, q) ==
    /\ IsInjective(q.ids) /\ Len(q.ids) <= PageLimit
    /\ q.pc \notin {"idle", "answered"} => Seeable(prod) \subseteq q.seen /\ q.kind \in Kinds
    /\ q.kind = "export" => q.admin
    /\ ~q.admin => /\ Range(q.ids) \subseteq q.seen /\ Range(q.shown) \subseteq q.seen
                   /\ IsInjective(q.shown) /\ Len(q.shown) <= PageLimit

\* Of a request since which nothing was written: what its statements have
\* returned is what they would return now.
Fetching(t, prod, q) ==
    /\ q.kind # "export"
    /\ q.kind = "random" => q.todo = {"rows"} /\ RandomRight(Own(prod, q.slug), q.ids)
    /\ q.kind \in {"name", "ranked"} =>
          /\ q.filter = BelowIn(t, q.slug)
          /\ "rows" \in q.todo => PageRight(Wanted(t, prod, q), q.page, q.ids)
          /\ "rows" \notin q.todo => PageRight(Wanted(t, prod, q), q.page, q.shown)
          /\ "count" \notin q.todo => q.count = Cardinality(Wanted(t, prod, q))

Right(t, prod, q) ==
    /\ q.kind = "random" => RandomRight(Own(prod, q.slug), q.shown)
    /\ q.kind = "export" => /\ Range(q.shown) = Listed(t, prod, q.slug)
                            /\ Increasing(q.shown, IdOf)
    /\ q.kind \in {"name", "ranked"} =>
          /\ PageRight(Wanted(t, prod, q), q.page, q.shown)
          /\ q.count = Cardinality(Wanted(t, prod, q))

Fresh(t, prod, q) ==
    /\ q.pc \in {"pick", "filter", "where", "rank", "find"} => q.shown = <<>>
    /\ q.pc = "pick" => q.kind = "random"
    /\ q.pc \in {"where", "rank"} => q.kind = "ranked"
    /\ q.pc \in {"where", "rank", "find"} => q.filter = BelowIn(t, q.slug)
    /\ q.pc = "rank" => q.where = BelowIn(t, q.slug)
    /\ q.pc = "fetch" => Fetching(t, prod, q)
    /\ q.pc = "answered" => Right(t, prod, q)

ListingInv ==
    /\ ListingTypeOK
    /\ \A r \in Requests :
          /\ Careful(product, req[r])
          /\ UnderWay(r) /\ ~req[r].disturbed => Fresh(tree, product, req[r])

\* A statement of request r leaves it careful and, as long as nothing is
\* written, fresh.
Advance(r, new) ==
    /\ Become(r, new)
    /\ Careful(product, new)
    /\ UnderWay(r) /\ new.kind # "none" => new.disturbed = req[r].disturbed
    /\ ~new.disturbed /\ new.kind # "none" => Fresh(tree, product, new)

LEMMA TreeFacts ==
    ASSUME ListingTypeOK, NEW c
    PROVE  /\ DOMAIN tree \subseteq Categories /\ NoCategory \notin DOMAIN tree
           /\ BelowIn(tree, c) \in SUBSET Categories
           /\ BelowIn(tree, c) = {} <=> c \notin DOMAIN tree
           /\ Descendants(c) = BelowIn(tree, c)
<1>1. DOMAIN tree \subseteq Categories
  BY DEF ListingTypeOK, Trees
<1>2. BelowIn(tree, c) \subseteq DOMAIN tree
  BY DEF BelowIn, Subtree
<1>3. c \in DOMAIN tree => c \in BelowIn(tree, c)
  BY DEF BelowIn, Subtree
<1>4. c \notin DOMAIN tree => BelowIn(tree, c) = {}
  BY DEF BelowIn
<1> QED BY <1>1, <1>2, <1>3, <1>4, NoCategoryAssumption DEF Descendants, BelowIn

LEMMA RankedIs ==
    ASSUME NEW S \in SUBSET Products
    PROVE  /\ IsFiniteSet(S) /\ Cardinality(S) \in Nat
           /\ Ranked(S) \in Seq(S) /\ Range(Ranked(S)) = S
           /\ IsInjective(Ranked(S)) /\ Increasing(Ranked(S), Rank)
<1>1. IsFiniteSet(S) /\ Cardinality(S) \in Nat
  BY ListingAssumption, FS_Subset, FS_CardinalityType
<1>2. \A x \in S : Rank[x] \in Nat
  BY ListingAssumption
<1>3. \A x, y \in S : Rank[x] = Rank[y] => x = y
  BY ListingAssumption DEF IsInjective
<1> QED BY <1>1, <1>2, <1>3, SortByIs DEF Ranked

LEMMA ByIdIs ==
    ASSUME NEW S \in SUBSET Products
    PROVE  /\ ById(S) \in Seq(Products) /\ Range(ById(S)) = S
           /\ Len(ById(S)) = Cardinality(S) /\ IsInjective(ById(S))
           /\ Increasing(ById(S), IdOf)
<1>1. IsFiniteSet(S)
  BY ListingAssumption, FS_Subset
<1>2. \A x \in S : IdOf[x] \in Nat /\ IdOf[x] = x
  BY ListingAssumption DEF IdOf
<1>3. /\ ById(S) \in Seq(S) /\ Range(ById(S)) = S /\ Len(ById(S)) = Cardinality(S)
      /\ IsInjective(ById(S)) /\ Increasing(ById(S), IdOf)
  BY <1>1, <1>2, SortByIs DEF ById
<1> HIDE DEF ById
<1>4. ById(S) \in Seq(Products)
  BY <1>3
<1> QED BY <1>3, <1>4

LEMMA RankedPage ==
    ASSUME NEW S \in SUBSET Products, NEW n \in Nat \ {0}
    PROVE  LET p == PageOf(Ranked(S), n) IN
           /\ p \in Seq(Products) /\ Len(p) <= PageLimit /\ IsInjective(p)
           /\ Range(p) \subseteq S /\ PageRight(S, n, p)
<1> DEFINE s == Ranked(S)
           p == PageOf(s, n)
<1>1. /\ IsFiniteSet(S) /\ s \in Seq(S) /\ Range(s) = S
      /\ IsInjective(s) /\ Increasing(s, Rank)
  BY RankedIs
<1>2. \A x \in S : Rank[x] \in Nat
  BY ListingAssumption
<1> HIDE DEF s
<1>3. /\ p \in Seq(S) /\ Len(p) <= PageLimit
      /\ IsInjective(p) /\ Increasing(p, Rank)
      /\ Range(p) = {x \in S : Cardinality({y \in S : Rank[y] < Rank[x]})
                                  \in ((n - 1) * PageLimit)..((n - 1) * PageLimit + PageLimit - 1)}
  BY <1>1, <1>2, PageSorted
<1> HIDE DEF p
<1>4. p \in Seq(Products)
  BY <1>3
<1>5. PageRight(S, n, p)
  BY <1>3 DEF PageRight
<1> QED BY <1>3, <1>4, <1>5 DEF p, s

LEMMA MatchesIs ==
    ASSUME ListingTypeOK, NEW r \in Requests, NEW ids
    PROVE  /\ Matches(r, ids) \in SUBSET Products /\ Matches(r, ids) \subseteq DOMAIN product
           /\ ~req[r].admin => Matches(r, ids) \subseteq Seeable(product)
           /\ ids = BelowIn(tree, req[r].slug)
                => Matches(r, ids) = Wanted(tree, product, req[r])
<1>1. DOMAIN product \subseteq Products
  BY DEF ListingTypeOK
<1>2. ~req[r].admin => Matches(r, ids) \subseteq Seeable(product)
  BY DEF Matches, IsVisible, Seeable
<1>3. ASSUME ids = BelowIn(tree, req[r].slug)
      PROVE  Matches(r, ids) = Wanted(tree, product, req[r])
  <2> DEFINE D == BelowIn(tree, req[r].slug)
  <2>1. D = {} <=> req[r].slug \notin DOMAIN tree
    BY TreeFacts
  <2> HIDE DEF D
  <2>2. \A p \in DOMAIN product :
            (ids = {} \/ product[p].category \in ids)
               <=> (req[r].slug \notin DOMAIN tree \/ product[p].category \in D)
    BY <1>3, <2>1 DEF D
  <2> QED BY <2>2 DEF Matches, IsVisible, InCategory, Wanted, D
<1> QED BY <1>1, <1>2, <1>3 DEF Matches

LEMMA SameWanted ==
    ASSUME NEW t, NEW prod, NEW q, NEW n, n.admin = q.admin, n.slug = q.slug
    PROVE  Wanted(t, prod, n) = Wanted(t, prod, q)
BY DEF Wanted

LEMMA EmptyShown ==
    /\ <<>> \in Seq(Products) /\ Len(<<>>) = 0 /\ Range(<<>>) = {} /\ IsInjective(<<>>)
    /\ NoRequest \in Answering
<1>1. <<>> \in Seq(Products) /\ Len(<<>>) = 0 /\ DOMAIN <<>> = {}
  OBVIOUS
<1>2. NoRequest \in Answering
  BY DEF NoRequest, Answering
<1> QED BY <1>1, <1>2 DEF Range, IsInjective

-----------------------------------------------------------------------------
\* One statement of a request.

LEMMA AskAdvances ==
    ASSUME ListingTypeOK, NEW r \in Requests, AskProducts(r)
    PROVE  \E new \in Answering : Advance(r, new)
<1> DEFINE there == {p \in DOMAIN product : product[p].visible}
<1>0. PICK kind \in Kinds, slug \in Categories \cup {NoCategory}, admin \in BOOLEAN,
           n \in Pages :
          /\ kind \in {"random", "export"} => slug \in DOMAIN tree /\ n = 1
          /\ kind = "random" => ~admin
          /\ kind = "export" => admin
          /\ Become(r, [NoRequest EXCEPT
                          !.pc = IF kind = "random" THEN "pick"
                                 ELSE IF slug = NoCategory /\ kind = "ranked" THEN "rank"
                                 ELSE IF slug = NoCategory THEN "find"
                                 ELSE "filter",
                          !.kind = kind, !.slug = slug, !.admin = admin,
                          !.page = n, !.todo = {"rows", "count"}, !.seen = there])
  BY DEF AskProducts
<1>1. PICK pc \in {"pick", "rank", "find", "filter"} :
          pc = IF kind = "random" THEN "pick"
               ELSE IF slug = NoCategory /\ kind = "ranked" THEN "rank"
               ELSE IF slug = NoCategory THEN "find"
               ELSE "filter"
  OBVIOUS
<1> DEFINE new == [NoRequest EXCEPT
                     !.pc = pc, !.kind = kind, !.slug = slug, !.admin = admin,
                     !.page = n, !.todo = {"rows", "count"},
                     !.seen = there]
<1>2. /\ new.pc = pc /\ new.kind = kind /\ new.slug = slug /\ new.filter = {}
      /\ new.where = {} /\ new.ids = <<>> /\ new.shown = <<>>
      /\ new.seen = Seeable(product) /\ new.disturbed = FALSE
  BY DEF NoRequest, Seeable
<1>3. new.admin = admin
  BY DEF NoRequest
<1>4. new \in Answering
  <2>1. there \in SUBSET Products /\ n \in Nat \ {0}
    BY ListingAssumption DEF ListingTypeOK
  <2> HIDE DEF there
  <2>2. PICK none \in Answering : none = NoRequest
    BY EmptyShown
  <2>3. /\ {"rows", "count"} \in SUBSET {"rows", "count"}
        /\ pc \in {"idle", "pick", "filter", "where", "rank", "find", "fetch", "endless",
                   "answered"}
    OBVIOUS
  <2> QED BY <2>1, <2>2, <2>3 DEF Answering
<1> HIDE DEF new
<1>5. Careful(product, new)
  BY <1>0, <1>2, <1>3, EmptyShown, ListingAssumption DEF Careful
<1>6. Fresh(tree, product, new)
  <2>1. pc \in {"rank", "find"} => slug = NoCategory
    BY <1>1
  <2>2. BelowIn(tree, NoCategory) = {}
    BY TreeFacts
  <2> QED BY <1>0, <1>1, <1>2, <2>1, <2>2 DEF Fresh
<1>7. UnderWay(r) => FALSE
  BY DEF AskProducts, UnderWay
<1>8. Become(r, new)
  BY <1>0, <1>1 DEF new
<1> QED BY <1>2, <1>4, <1>5, <1>6, <1>7, <1>8 DEF Advance

LEMMA StuckAdvances ==
    ASSUME ListingTypeOK, NEW r \in Requests, Careful(product, req[r]), UnderWay(r), Stuck(r)
    PROVE  \E new \in Answering : Advance(r, new)
<1>1. PICK q \in Answering : q = req[r]
  BY DEF ListingTypeOK
<1> DEFINE new == [q EXCEPT !.pc = "endless"]
<1>2. new \in Answering /\ Become(r, new)
  BY <1>1 DEF Stuck, Answering
<1>3. /\ new.pc = "endless" /\ new.kind = q.kind /\ new.ids = q.ids /\ new.shown = q.shown
      /\ new.seen = q.seen /\ new.disturbed = q.disturbed
  BY DEF Answering
<1>4. new.admin = q.admin
  BY DEF Answering
<1> HIDE DEF new
<1>5. Careful(product, new)
  BY <1>1, <1>3, <1>4 DEF Careful, UnderWay
<1>6. Fresh(tree, product, new)
  BY <1>3 DEF Fresh
<1> QED BY <1>1, <1>2, <1>3, <1>5, <1>6 DEF Advance

LEMMA FilterAdvances ==
    ASSUME ListingInv, NEW r \in Requests, ReadFilter(r)
    PROVE  \E new \in Answering : Advance(r, new)
<1>0. ListingTypeOK /\ Careful(product, req[r]) /\ UnderWay(r)
  BY DEF ListingInv, ReadFilter, UnderWay
<1>1. PICK q \in Answering : q = req[r]
  BY <1>0 DEF ListingTypeOK
<1>2. CASE Stuck(r)
  BY <1>0, <1>2, StuckAdvances
<1>3. CASE ~Stuck(r)
  <2> DEFINE D == BelowIn(tree, q.slug)
             next == IF q.kind = "ranked" THEN "where" ELSE "find"
             new == [q EXCEPT !.filter = D, !.pc = next]
  <2>1. D \in SUBSET Categories /\ Become(r, new)
    BY <1>0, <1>1, <1>3, TreeFacts DEF ReadFilter
  <2> HIDE DEF D
  <2>2. new \in Answering
    BY <2>1 DEF Answering
  <2>3. /\ new.pc = next /\ new.kind = q.kind /\ new.ids = q.ids /\ new.shown = q.shown
        /\ new.seen = q.seen /\ new.disturbed = q.disturbed /\ new.filter = D
        /\ new.slug = q.slug
    BY DEF Answering
  <2>4. new.admin = q.admin
    BY DEF Answering
  <2> HIDE DEF new
  <2>5. Careful(product, new)
    BY <1>0, <1>1, <2>3, <2>4 DEF Careful, UnderWay
  <2>6. ~q.disturbed => Fresh(tree, product, new)
    <3>1. ~q.disturbed => q.shown = <<>>
      BY <1>0, <1>1 DEF ListingInv, Fresh, ReadFilter
    <3> QED BY <2>3, <3>1 DEF Fresh, D
  <2> QED BY <1>1, <2>1, <2>2, <2>3, <2>5, <2>6 DEF Advance
<1> QED BY <1>2, <1>3

LEMMA WhereAdvances ==
    ASSUME ListingInv, NEW r \in Requests, ReadWhere(r)
    PROVE  \E new \in Answering : Advance(r, new)
<1>0. ListingTypeOK /\ Careful(product, req[r]) /\ UnderWay(r)
  BY DEF ListingInv, ReadWhere, UnderWay
<1>1. PICK q \in Answering : q = req[r]
  BY <1>0 DEF ListingTypeOK
<1>2. CASE Stuck(r)
  BY <1>0, <1>2, StuckAdvances
<1>3. CASE ~Stuck(r)
  <2> DEFINE D == BelowIn(tree, q.slug)
             new == [q EXCEPT !.where = D, !.pc = "rank"]
  <2>1. D \in SUBSET Categories /\ Become(r, new)
    BY <1>0, <1>1, <1>3, TreeFacts DEF ReadWhere
  <2> HIDE DEF D
  <2>2. new \in Answering
    BY <2>1 DEF Answering
  <2>3. /\ new.pc = "rank" /\ new.kind = q.kind /\ new.ids = q.ids /\ new.shown = q.shown
        /\ new.seen = q.seen /\ new.disturbed = q.disturbed /\ new.where = D
        /\ new.filter = q.filter /\ new.slug = q.slug
    BY DEF Answering
  <2>4. new.admin = q.admin
    BY DEF Answering
  <2> HIDE DEF new
  <2>5. Careful(product, new)
    BY <1>0, <1>1, <2>3, <2>4 DEF Careful, UnderWay
  <2>6. ~q.disturbed => Fresh(tree, product, new)
    <3>1. ~q.disturbed => q.shown = <<>> /\ q.kind = "ranked" /\ q.filter = D
      BY <1>0, <1>1 DEF ListingInv, Fresh, ReadWhere, D
    <3> QED BY <2>3, <3>1 DEF Fresh, D
  <2> QED BY <1>1, <2>1, <2>2, <2>3, <2>5, <2>6 DEF Advance
<1> QED BY <1>2, <1>3

LEMMA FindAdvances ==
    ASSUME ListingInv, NEW r \in Requests, FindByName(r)
    PROVE  \E new \in Answering : Advance(r, new)
<1>0. ListingTypeOK /\ Careful(product, req[r]) /\ UnderWay(r)
  BY DEF ListingInv, FindByName, UnderWay
<1>1. PICK q \in Answering : q = req[r]
  BY <1>0 DEF ListingTypeOK
<1> DEFINE found == Matches(r, q.filter)
           p == PageOf(Ranked(found), q.page)
           new == [q EXCEPT !.shown = p, !.todo = {"count"}, !.pc = "fetch"]
<1>2. Become(r, new) /\ q.kind = "name"
  BY <1>1 DEF FindByName
<1>3. /\ found \in SUBSET Products
      /\ ~q.admin => found \subseteq Seeable(product)
      /\ q.filter = BelowIn(tree, q.slug) => found = Wanted(tree, product, q)
  BY <1>0, <1>1, MatchesIs
<1> HIDE DEF found
<1>4. /\ p \in Seq(Products) /\ Len(p) <= PageLimit /\ IsInjective(p)
      /\ Range(p) \subseteq found /\ PageRight(found, q.page, p)
  <2>1. q.page \in Nat \ {0}
    BY DEF Answering
  <2> QED BY <1>3, <2>1, RankedPage
<1> HIDE DEF p
<1>5. new \in Answering
  BY <1>4 DEF Answering
<1>6. /\ new.pc = "fetch" /\ new.kind = q.kind /\ new.ids = q.ids /\ new.shown = p
      /\ new.seen = q.seen /\ new.disturbed = q.disturbed /\ new.filter = q.filter
      /\ new.slug = q.slug /\ new.page = q.page /\ new.todo = {"count"}
  BY DEF Answering
<1>7. new.admin = q.admin
  BY DEF Answering
<1> HIDE DEF new
<1>8. Careful(product, new)
  BY <1>0, <1>1, <1>3, <1>4, <1>6, <1>7 DEF Careful, UnderWay
<1>9. ~q.disturbed => Fresh(tree, product, new)
  <2>1. ~q.disturbed => q.filter = BelowIn(tree, q.slug)
    BY <1>0, <1>1 DEF ListingInv, Fresh, FindByName
  <2>2. Wanted(tree, product, new) = Wanted(tree, product, q)
    BY <1>6, <1>7, SameWanted
  <2>3. ~q.disturbed => Fetching(tree, product, new)
    BY <1>2, <1>3, <1>4, <1>6, <2>1, <2>2 DEF Fetching
  <2> QED BY <1>6, <2>3 DEF Fresh
<1> QED BY <1>1, <1>2, <1>5, <1>6, <1>8, <1>9 DEF Advance

LEMMA RankAdvances ==
    ASSUME ListingInv, NEW r \in Requests, RankIds(r)
    PROVE  \E new \in Answering : Advance(r, new)
<1>0. ListingTypeOK /\ Careful(product, req[r]) /\ UnderWay(r)
  BY DEF ListingInv, RankIds, UnderWay
<1>1. PICK q \in Answering : q = req[r]
  BY <1>0 DEF ListingTypeOK
<1> DEFINE found == Matches(r, q.where)
           p == PageOf(Ranked(found), q.page)
           left == IF p = <<>> THEN {"count"} ELSE {"rows", "count"}
           new == [q EXCEPT !.ids = p, !.pc = "fetch", !.todo = left]
<1>2. Become(r, new)
  BY <1>1 DEF RankIds
<1>3. /\ found \in SUBSET Products
      /\ ~q.admin => found \subseteq Seeable(product)
      /\ q.where = BelowIn(tree, q.slug) => found = Wanted(tree, product, q)
  BY <1>0, <1>1, MatchesIs
<1> HIDE DEF found
<1>4. /\ p \in Seq(Products) /\ Len(p) <= PageLimit /\ IsInjective(p)
      /\ Range(p) \subseteq found /\ PageRight(found, q.page, p)
  <2>1. q.page \in Nat \ {0}
    BY DEF Answering
  <2> QED BY <1>3, <2>1, RankedPage
<1> HIDE DEF p
<1>5. /\ left \in SUBSET {"rows", "count"} /\ "count" \in left
      /\ "rows" \notin left => p = <<>>
  OBVIOUS
<1> HIDE DEF left
<1>6. new \in Answering
  BY <1>4, <1>5 DEF Answering
<1>7. /\ new.pc = "fetch" /\ new.kind = q.kind /\ new.ids = p /\ new.shown = q.shown
      /\ new.seen = q.seen /\ new.disturbed = q.disturbed /\ new.filter = q.filter
      /\ new.slug = q.slug /\ new.page = q.page /\ new.todo = left
  BY DEF Answering
<1>8. new.admin = q.admin
  BY DEF Answering
<1> HIDE DEF new
<1>9. Careful(product, new)
  BY <1>0, <1>1, <1>3, <1>4, <1>7, <1>8 DEF Careful, UnderWay
<1>10. ~q.disturbed => Fresh(tree, product, new)
  <2>1. ~q.disturbed => /\ q.filter = BelowIn(tree, q.slug) /\ q.where = BelowIn(tree, q.slug)
                        /\ q.kind = "ranked" /\ q.shown = <<>>
    BY <1>0, <1>1 DEF ListingInv, Fresh, RankIds
  <2>2. Wanted(tree, product, new) = Wanted(tree, product, q)
    BY <1>7, <1>8, SameWanted
  <2>3. ~q.disturbed => Fetching(tree, product, new)
    BY <1>3, <1>4, <1>5, <1>7, <2>1, <2>2 DEF Fetching
  <2> QED BY <1>7, <2>3 DEF Fresh
<1> QED BY <1>1, <1>2, <1>6, <1>7, <1>9, <1>10 DEF Advance

LEMMA PickAdvances ==
    ASSUME ListingInv, NEW r \in Requests, PickRandom(r)
    PROVE  \E new \in Answering : Advance(r, new)
<1>0. ListingTypeOK /\ Careful(product, req[r]) /\ UnderWay(r)
  BY DEF ListingInv, PickRandom, UnderWay
<1>1. PICK q \in Answering : q = req[r]
  BY <1>0 DEF ListingTypeOK
<1> DEFINE own == Own(product, q.slug)
           most == Min({PageLimit, Cardinality(own)})
<1>2. PICK S \in kSubset(most, own) :
          Become(r, [q EXCEPT !.ids = ById(S), !.todo = {"rows"},
                              !.pc = IF S = {} THEN "answered" ELSE "fetch"])
  <2>1. own = {p \in DOMAIN product : IsVisible(p) /\ product[p].category = q.slug}
    BY DEF Own, IsVisible
  <2> QED BY <1>1, <2>1 DEF PickRandom
<1>3. S \subseteq own /\ Cardinality(S) = most
  BY DEF kSubset
<1>4. own \in SUBSET Products /\ own \subseteq Seeable(product)
  BY <1>0 DEF Own, Seeable, ListingTypeOK
<1>5. most <= PageLimit
  <2>1. Cardinality(own) \in Nat
    BY <1>4, RankedIs
  <2> QED BY <2>1, ListingAssumption, MinOfTwo
<1>6. /\ ById(S) \in Seq(Products) /\ Range(ById(S)) = S
      /\ Len(ById(S)) = most /\ IsInjective(ById(S))
  BY <1>3, <1>4, ByIdIs
<1> DEFINE next == IF S = {} THEN "answered" ELSE "fetch"
           new == [q EXCEPT !.ids = ById(S), !.todo = {"rows"}, !.pc = next]
<1>7. new \in Answering
  BY <1>6 DEF Answering
<1>8. /\ new.pc = next /\ new.kind = q.kind /\ new.ids = ById(S) /\ new.shown = q.shown
      /\ new.seen = q.seen /\ new.disturbed = q.disturbed
      /\ new.slug = q.slug /\ new.todo = {"rows"}
  BY DEF Answering
<1>9. new.admin = q.admin
  BY DEF Answering
<1>10. Become(r, new)
  BY <1>2
<1> HIDE DEF new, own, most
<1>11. Careful(product, new)
  BY <1>0, <1>1, <1>3, <1>4, <1>5, <1>6, <1>8, <1>9 DEF Careful, UnderWay
<1>12. ~q.disturbed => Fresh(tree, product, new)
  <2>1. ~q.disturbed => q.kind = "random" /\ q.shown = <<>>
    BY <1>0, <1>1 DEF ListingInv, Fresh, PickRandom
  <2>2. RandomRight(own, ById(S))
    BY <1>3, <1>6 DEF RandomRight, most
  <2>3. S = {} => RandomRight(own, <<>>)
    <3>1. S = {} => most = 0
      BY <1>3, FS_EmptySet
    <3> QED BY <3>1, EmptyShown DEF RandomRight, most
  <2>4. ~q.disturbed /\ S # {} => Fetching(tree, product, new)
    BY <1>8, <2>1, <2>2 DEF Fetching, own
  <2>5. ~q.disturbed /\ S = {} => Right(tree, product, new)
    BY <1>8, <2>1, <2>3 DEF Right, own
  <2> QED BY <1>8, <2>4, <2>5 DEF Fresh
<1> QED BY <1>1, <1>7, <1>8, <1>10, <1>11, <1>12 DEF Advance

LEMMA ExportAdvances ==
    ASSUME ListingInv, NEW r \in Requests, ExportRows(r)
    PROVE  \E new \in Answering : Advance(r, new)
<1>0. ListingTypeOK /\ Careful(product, req[r]) /\ UnderWay(r)
  BY DEF ListingInv, ExportRows, UnderWay
<1>1. PICK q \in Answering : q = req[r]
  BY <1>0 DEF ListingTypeOK
<1> DEFINE rows == {p \in DOMAIN product : product[p].category \in q.filter}
           new == [q EXCEPT !.shown = ById(rows), !.pc = "answered"]
<1>2. Become(r, new) /\ q.kind = "export"
  BY <1>1 DEF ExportRows
<1>3. rows \in SUBSET Products
  BY <1>0 DEF ListingTypeOK
<1>4. q.filter = BelowIn(tree, q.slug) => rows = Listed(tree, product, q.slug)
  BY DEF Listed
<1> HIDE DEF rows
<1>5. /\ ById(rows) \in Seq(Products) /\ Range(ById(rows)) = rows
      /\ Increasing(ById(rows), IdOf)
  BY <1>3, ByIdIs
<1>6. new \in Answering
  BY <1>5 DEF Answering
<1>7. /\ new.pc = "answered" /\ new.kind = q.kind /\ new.ids = q.ids
      /\ new.shown = ById(rows) /\ new.seen = q.seen /\ new.disturbed = q.disturbed
      /\ new.slug = q.slug
  BY DEF Answering
<1>8. new.admin = q.admin
  BY DEF Answering
<1> HIDE DEF new
<1>9. Careful(product, new)
  BY <1>0, <1>1, <1>2, <1>7, <1>8 DEF Careful, UnderWay
<1>10. ~q.disturbed => Fresh(tree, product, new)
  <2>1. ~q.disturbed => q.filter = BelowIn(tree, q.slug)
    BY <1>0, <1>1 DEF ListingInv, Fresh, ExportRows
  <2>2. ~q.disturbed => Right(tree, product, new)
    BY <1>2, <1>4, <1>5, <1>7, <2>1 DEF Right
  <2> QED BY <1>7, <2>2 DEF Fresh
<1> QED BY <1>1, <1>2, <1>6, <1>7, <1>9, <1>10 DEF Advance

\* The rows of ids that are all still there are theirs, in order.
LEMMA KeptRight ==
    ASSUME NEW ids \in Seq(Products), IsInjective(ids), NEW T, NEW S \in SUBSET T, NEW n
    PROVE  LET kept == SortBy(Inverse(ids, DOMAIN ids, Range(ids)), Range(ids) \cap T) IN
           /\ PageRight(S, n, ids) => PageRight(S, n, kept)
           /\ RandomRight(S, ids) => RandomRight(S, kept)
<1> DEFINE kept == SortBy(Inverse(ids, DOMAIN ids, Range(ids)), Range(ids) \cap T)
<1>1. /\ Range(kept) = Range(ids) \cap T
      /\ Range(ids) \subseteq T => Len(kept) = Len(ids)
      /\ Increasing(ids, Rank) => Increasing(kept, Rank)
  BY KeptIs
<1> HIDE DEF kept
<1>2. PageRight(S, n, ids) => PageRight(S, n, kept)
  BY <1>1 DEF PageRight
<1>3. RandomRight(S, ids) => RandomRight(S, kept)
  BY <1>1 DEF RandomRight
<1> QED BY <1>2, <1>3 DEF kept

LEMMA FetchAdvances ==
    ASSUME ListingInv, NEW r \in Requests, FetchRows(r)
    PROVE  \E new \in Answering : Advance(r, new)
<1>0. ListingTypeOK /\ Careful(product, req[r]) /\ UnderWay(r)
  BY DEF ListingInv, FetchRows, Done, UnderWay
<1>1. PICK q \in Answering : q = req[r]
  BY <1>0 DEF ListingTypeOK
<1> DEFINE kept == SortBy(Inverse(q.ids, DOMAIN q.ids, Range(q.ids)),
                          Range(q.ids) \cap DOMAIN product)
           next == IF q.todo = {"rows"} THEN "answered" ELSE q.pc
           mid == [q EXCEPT !.shown = kept]
           new == [mid EXCEPT !.todo = @ \ {"rows"},
                              !.pc = IF q.todo = {"rows"} THEN "answered" ELSE @]
<1>2. q.pc = "fetch" /\ "rows" \in q.todo /\ Become(r, new)
  BY <1>1 DEF FetchRows, Done
<1>3. q.ids \in Seq(Products) /\ IsInjective(q.ids) /\ Len(q.ids) <= PageLimit
  BY <1>0, <1>1 DEF Answering, Careful
<1>4. /\ kept \in Seq(Products) /\ Len(kept) <= Len(q.ids)
      /\ IsInjective(kept) /\ Range(kept) = Range(q.ids) \cap DOMAIN product
  BY <1>3, KeptIs
<1>5. /\ Own(product, q.slug) \in SUBSET DOMAIN product
      /\ Wanted(tree, product, q) \in SUBSET DOMAIN product
  BY DEF Own, Wanted
<1>6. /\ PageRight(Wanted(tree, product, q), q.page, q.ids)
            => PageRight(Wanted(tree, product, q), q.page, kept)
      /\ RandomRight(Own(product, q.slug), q.ids) => RandomRight(Own(product, q.slug), kept)
  BY <1>3, <1>5, KeptRight
<1>7. Len(kept) \in Nat /\ Len(q.ids) \in Nat /\ PageLimit \in Nat
  BY <1>3, <1>4, ListingAssumption
<1> HIDE DEF kept
<1>8. new \in Answering
  BY <1>4 DEF Answering
<1>9. /\ new.pc = next /\ new.kind = q.kind /\ new.ids = q.ids /\ new.shown = kept
      /\ new.seen = q.seen /\ new.disturbed = q.disturbed /\ new.filter = q.filter
      /\ new.slug = q.slug /\ new.page = q.page /\ new.todo = q.todo \ {"rows"}
      /\ new.count = q.count
  BY DEF Answering
<1>10. new.admin = q.admin
  BY DEF Answering
<1> HIDE DEF new
<1>11. Careful(product, new)
  <2>1. Len(kept) <= PageLimit
    BY <1>3, <1>4, <1>7
  <2> QED BY <1>0, <1>1, <1>2, <1>4, <1>9, <1>10, <2>1 DEF Careful, UnderWay
<1>12. ~q.disturbed => Fresh(tree, product, new)
  <2>1. ~q.disturbed => Fetching(tree, product, q)
    BY <1>0, <1>1, <1>2 DEF ListingInv, Fresh
  <2>2. Wanted(tree, product, new) = Wanted(tree, product, q)
    BY <1>9, <1>10, SameWanted
  <2>3. q.todo = {"rows"} => "count" \notin q.todo
    OBVIOUS
  <2>4. ~q.disturbed /\ next # "answered" => Fetching(tree, product, new)
    BY <1>2, <1>6, <1>9, <2>1, <2>2 DEF Fetching
  <2>5. ~q.disturbed /\ next = "answered" => Right(tree, product, new)
    BY <1>2, <1>6, <1>9, <2>1, <2>2, <2>3 DEF Fetching, Right
  <2> QED BY <1>2, <1>9, <2>4, <2>5 DEF Fresh
<1> QED BY <1>1, <1>2, <1>8, <1>9, <1>11, <1>12 DEF Advance

LEMMA CountAdvances ==
    ASSUME ListingInv, NEW r \in Requests, CountAll(r)
    PROVE  \E new \in Answering : Advance(r, new)
<1>0. ListingTypeOK /\ Careful(product, req[r]) /\ UnderWay(r)
  BY DEF ListingInv, CountAll, Done, UnderWay
<1>1. PICK q \in Answering : q = req[r]
  BY <1>0 DEF ListingTypeOK
<1> DEFINE found == Matches(r, q.filter)
           total == Cardinality(found)
           next == IF q.todo = {"count"} THEN "answered" ELSE q.pc
           mid == [q EXCEPT !.count = total]
           new == [mid EXCEPT !.todo = @ \ {"count"},
                              !.pc = IF q.todo = {"count"} THEN "answered" ELSE @]
<1>2. q.pc = "fetch" /\ "count" \in q.todo /\ Become(r, new)
  BY <1>1 DEF CountAll, Done
<1>3. /\ found \in SUBSET Products
      /\ q.filter = BelowIn(tree, q.slug) => found = Wanted(tree, product, q)
  BY <1>0, <1>1, MatchesIs
<1> HIDE DEF found
<1>4. total \in Nat
  BY <1>3, RankedIs
<1> HIDE DEF total
<1>5. new \in Answering
  BY <1>4 DEF Answering
<1>6. /\ new.pc = next /\ new.kind = q.kind /\ new.ids = q.ids /\ new.shown = q.shown
      /\ new.seen = q.seen /\ new.disturbed = q.disturbed /\ new.filter = q.filter
      /\ new.slug = q.slug /\ new.page = q.page /\ new.todo = q.todo \ {"count"}
      /\ new.count = total
  BY DEF Answering
<1>7. new.admin = q.admin
  BY DEF Answering
<1> HIDE DEF new
<1>8. Careful(product, new)
  BY <1>0, <1>1, <1>2, <1>6, <1>7 DEF Careful, UnderWay
<1>9. ~q.disturbed => Fresh(tree, product, new)
  <2>1. ~q.disturbed => Fetching(tree, product, q)
    BY <1>0, <1>1, <1>2 DEF ListingInv, Fresh
  <2>2. Wanted(tree, product, new) = Wanted(tree, product, q)
    BY <1>6, <1>7, SameWanted
  <2>3. ~q.disturbed => q.kind # "random"
    BY <1>2, <2>1 DEF Fetching
  <2>4. q.todo = {"count"} => "rows" \notin q.todo
    OBVIOUS
  <2>5. ~q.disturbed /\ q.kind \in {"name", "ranked"}
            => total = Cardinality(Wanted(tree, product, q))
    BY <1>3, <2>1 DEF Fetching, total
  <2>6. ~q.disturbed /\ next # "answered" => Fetching(tree, product, new)
    BY <1>2, <1>6, <2>1, <2>2, <2>3, <2>5 DEF Fetching
  <2>7. ~q.disturbed /\ next = "answered" => Right(tree, product, new)
    BY <1>2, <1>6, <2>1, <2>2, <2>3, <2>4, <2>5 DEF Fetching, Right
  <2> QED BY <1>2, <1>6, <2>6, <2>7 DEF Fresh
<1> QED BY <1>1, <1>2, <1>5, <1>6, <1>8, <1>9 DEF Advance

LEMMA FailAdvances ==
    ASSUME NEW r \in Requests, Fail(r)
    PROVE  \E new \in Answering : Advance(r, new)
<1> DEFINE new == [NoRequest EXCEPT !.pc = "answered"]
<1>1. PICK none \in Answering : none = NoRequest
  BY EmptyShown
<1>2. new \in Answering /\ Become(r, new)
  BY <1>1 DEF Answering, Fail
<1>3. /\ new.pc = "answered" /\ new.kind = "none" /\ new.ids = <<>> /\ new.shown = <<>>
      /\ new.seen = {}
  BY DEF NoRequest
<1> HIDE DEF new
<1>4. Careful(product, new)
  BY <1>3, EmptyShown, ListingAssumption DEF Careful
<1> QED BY <1>2, <1>3, <1>4 DEF Advance

LEMMA RequestAdvances ==
    ASSUME ListingInv, NEW r \in Requests, Request(r)
    PROVE  \E new \in Answering : Advance(r, new)
BY AskAdvances, FilterAdvances, WhereAdvances, FindAdvances, RankAdvances, PickAdvances,
   ExportAdvances, FetchAdvances, CountAdvances, FailAdvances DEF Request, ListingInv

-----------------------------------------------------------------------------
\* One write.

LEMMA TreesStay ==
    ASSUME tree \in Trees, NEW c
    PROVE  /\ DeleteRow(tree, c) \in Trees
           /\ \A p \in Parents(tree) : MoveRow(tree, c, p) \in Trees
<1>1. PICK L \in SUBSET Categories : tree \in [L -> L \cup {NoCategory}]
  BY DEF Trees
<1>2. ASSUME NEW p \in Parents(tree) PROVE MoveRow(tree, c, p) \in [L -> L \cup {NoCategory}]
  BY <1>1 DEF MoveRow, Parents
<1>3. DeleteRow(tree, c) \in [L \ {c} -> (L \ {c}) \cup {NoCategory}]
  BY <1>1 DEF DeleteRow
<1> QED BY <1>2, <1>3 DEF Trees

\* It disturbs the requests under way, which see what it makes visible.
LEMMA WriteStays ==
    ASSUME ListingInv, NEW t \in Trees, NEW prod, DOMAIN prod \subseteq Products,
           prod \in [DOMAIN prod -> Product], Write(t, prod)
    PROVE  /\ ListingInv'
           /\ \A r \in Requests : req'[r].pc = req[r].pc
<1>1. /\ tree' = t /\ product' = prod
      /\ req' = [r \in Requests |->
                   IF UnderWay(r)
                   THEN [req[r] EXCEPT !.disturbed = TRUE, !.seen = @ \cup Seeable(prod)]
                   ELSE req[r]]
  BY DEF Write, Seeable
<1>2. ASSUME NEW r \in Requests
      PROVE  /\ req'[r] \in Answering /\ req'[r].pc = req[r].pc
             /\ Careful(prod, req'[r])
             /\ req[r].pc \notin {"idle", "answered"} => req'[r].disturbed
  <2>1. PICK q \in Answering : q = req[r]
    BY DEF ListingInv, ListingTypeOK
  <2>2. Careful(product, q)
    BY <2>1 DEF ListingInv
  <2>3. CASE ~UnderWay(r)
    <3>1. req'[r] = q /\ q.pc \in {"idle", "answered"}
      BY <1>1, <2>1, <2>3 DEF UnderWay
    <3> QED BY <2>1, <2>2, <3>1 DEF Careful
  <2>4. CASE UnderWay(r)
    <3> DEFINE new == [q EXCEPT !.disturbed = TRUE, !.seen = @ \cup Seeable(prod)]
    <3>1. req'[r] = new
      BY <1>1, <2>1, <2>4
    <3>2. Seeable(prod) \in SUBSET Products
      BY DEF Seeable
    <3>3. new \in Answering
      BY <3>2 DEF Answering
    <3>4. /\ new.pc = q.pc /\ new.kind = q.kind /\ new.ids = q.ids /\ new.shown = q.shown
          /\ new.seen = q.seen \cup Seeable(prod)
      BY DEF Answering
    <3>5. new.admin = q.admin /\ new.disturbed
      BY DEF Answering
    <3> HIDE DEF new
    <3>6. Careful(prod, new)
      BY <2>2, <3>4, <3>5 DEF Careful
    <3> QED BY <2>1, <3>1, <3>3, <3>4, <3>5, <3>6
  <2> QED BY <2>3, <2>4
<1>3. ListingTypeOK'
  <2>1. req' \in [Requests -> Answering]
    BY <1>1, <1>2
  <2> QED BY <1>1, <2>1 DEF ListingTypeOK
<1>4. ASSUME NEW r \in Requests
      PROVE  /\ Careful(product, req[r])'
             /\ (UnderWay(r) /\ ~req[r].disturbed => Fresh(tree, product, req[r]))'
  BY <1>1, <1>2 DEF UnderWay
<1> QED BY <1>2, <1>3, <1>4 DEF ListingInv

Administer == UpdateProduct \/ DeleteProduct \/ UpdateCategory \/ DeleteCategory

LEMMA AdministerStays ==
    ASSUME ListingInv, Administer
    PROVE  /\ ListingInv'
           /\ \A r \in Requests : req'[r].pc = req[r].pc
<1>0. ListingTypeOK
  BY DEF ListingInv
<1>1. /\ tree \in Trees /\ Parents(tree) \subseteq Categories \cup {NoCategory}
      /\ DOMAIN product \subseteq Products /\ product \in [DOMAIN product -> Product]
  BY <1>0, TreeFacts DEF ListingTypeOK, Parents
<1>2. CASE UpdateProduct
  <2>1. PICK p \in DOMAIN product, v \in BOOLEAN, c \in Parents(tree) :
            Write(tree, [product EXCEPT ![p] = [visible |-> v, category |-> c]])
    BY <1>2 DEF UpdateProduct
  <2> DEFINE prod == [product EXCEPT ![p] = [visible |-> v, category |-> c]]
  <2>2. [visible |-> v, category |-> c] \in Product
    BY <1>1 DEF Product
  <2>3. DOMAIN prod = DOMAIN product /\ prod \in [DOMAIN prod -> Product]
    BY <1>1, <2>2
  <2> HIDE DEF prod
  <2> QED BY <1>1, <2>1, <2>3, WriteStays DEF prod
<1>3. CASE DeleteProduct
  <2>1. PICK p \in DOMAIN product : Write(tree, [x \in DOMAIN product \ {p} |-> product[x]])
    BY <1>3 DEF DeleteProduct
  <2> DEFINE prod == [x \in DOMAIN product \ {p} |-> product[x]]
  <2>2. DOMAIN prod \subseteq DOMAIN product /\ prod \in [DOMAIN prod -> Product]
    BY <1>1
  <2> QED BY <1>1, <2>1, <2>2, WriteStays
<1>4. CASE UpdateCategory
  <2>1. PICK c \in DOMAIN tree, p \in Parents(tree) : Write(MoveRow(tree, c, p), product)
    BY <1>4 DEF UpdateCategory
  <2>2. MoveRow(tree, c, p) \in Trees
    BY <1>1, TreesStay
  <2> QED BY <1>1, <2>1, <2>2, WriteStays
<1>5. CASE DeleteCategory
  <2> DEFINE left(c) == [p \in DOMAIN product |->
                  IF product[p].category = c THEN [product[p] EXCEPT !.category = NoCategory]
                                             ELSE product[p]]
  <2>1. PICK c \in DOMAIN tree : Write(DeleteRow(tree, c), left(c))
    BY <1>5 DEF DeleteCategory
  <2>2. DOMAIN left(c) = DOMAIN product /\ left(c) \in [DOMAIN left(c) -> Product]
    BY <1>1 DEF Product
  <2>3. DeleteRow(tree, c) \in Trees
    BY <1>1, TreesStay
  <2> HIDE DEF left
  <2> QED BY <1>1, <2>1, <2>2, <2>3, WriteStays
<1> QED BY <1>2, <1>3, <1>4, <1>5 DEF Administer

-----------------------------------------------------------------------------
LEMMA AdvanceStays ==
    ASSUME ListingInv, NEW r \in Requests, NEW new \in Answering, Advance(r, new)
    PROVE  ListingInv'
<1>1. tree' = tree /\ product' = product /\ req' = [req EXCEPT ![r] = new]
  BY DEF Advance, Become
<1>2. ListingTypeOK /\ req \in [Requests -> Answering]
  BY DEF ListingInv, ListingTypeOK
<1>3. ListingTypeOK'
  <2>1. req' \in [Requests -> Answering]
    BY <1>1, <1>2
  <2> QED BY <1>1, <1>2, <2>1 DEF ListingTypeOK
<1>4. ASSUME NEW x \in Requests
      PROVE  /\ Careful(product, req[x])'
             /\ (UnderWay(x) /\ ~req[x].disturbed => Fresh(tree, product, req[x]))'
  <2>1. CASE x # r
    <3>1. req'[x] = req[x]
      BY <1>1, <1>2, <2>1
    <3> QED BY <1>1, <3>1 DEF ListingInv, UnderWay
  <2>2. CASE x = r
    <3>1. req'[x] = new
      BY <1>1, <1>2, <2>2
    <3>2. new.pc \notin {"idle", "answered"} => new.kind # "none"
      BY DEF Advance, Careful, Kinds
    <3> QED BY <1>1, <3>1, <3>2 DEF Advance, UnderWay
  <2> QED BY <2>1, <2>2
<1> QED BY <1>3, <1>4 DEF ListingInv

LEMMA ListingStarts == ListingInit => ListingInv
<1> SUFFICES ASSUME ListingInit PROVE ListingInv
  OBVIOUS
<1>1. tree \in Trees
  BY DEF ListingInit
<1>2. Parents(tree) \subseteq Categories \cup {NoCategory}
  BY <1>1 DEF Trees, Parents
<1>3. DOMAIN product = Products /\ product \in [Products -> Product]
  BY <1>2 DEF ListingInit, Product
<1>4. req \in [Requests -> Answering] /\ \A r \in Requests : req[r] = NoRequest
  BY EmptyShown DEF ListingInit
<1>5. ListingTypeOK
  BY <1>1, <1>3, <1>4 DEF ListingTypeOK
<1>6. ASSUME NEW r \in Requests
      PROVE  Careful(product, req[r]) /\ ~UnderWay(r)
  <2>1. req[r].pc = "idle" /\ req[r].kind = "none" /\ req[r].ids = <<>> /\ req[r].shown = <<>>
    BY <1>4 DEF NoRequest
  <2> QED BY <2>1, EmptyShown, ListingAssumption DEF Careful, UnderWay
<1> QED BY <1>5, <1>6 DEF ListingInv

LEMMA ListingStays == ListingInv /\ [ListingNext]_listingVars => ListingInv'
<1> SUFFICES ASSUME ListingInv, [ListingNext]_listingVars PROVE ListingInv'
  OBVIOUS
<1>1. CASE Administer
  BY <1>1, AdministerStays
<1>2. ASSUME NEW r \in Requests, Request(r) PROVE ListingInv'
  BY <1>2, RequestAdvances, AdvanceStays
<1>3. CASE UNCHANGED listingVars
  BY <1>3 DEF ListingInv, ListingTypeOK, UnderWay, listingVars
<1> QED BY <1>1, <1>2, <1>3 DEF ListingNext, Administer

\* At every moment each request is careful, and fresh while nothing is written.
THEOREM ListingCareful == ListingSpec => []ListingInv
BY ListingStarts, ListingStays, PTL DEF ListingSpec

\* ShownWasVisible: a visitor's page has no product twice, at most PageLimit of
\* them, and none that was hidden all through the request.
THEOREM NothingHiddenShown == ListingSpec => []ShownWasVisible
<1>1. ListingInv => ShownWasVisible
  BY DEF ListingInv, Careful, ShownWasVisible
<1> QED BY <1>1, ListingCareful, PTL

\* What Right says of a request is what Exact says.
LEMMA RightIsExact ==
    ASSUME ListingInv, [ListingNext]_listingVars, NEW r \in Requests,
           UnderWay(r), req'[r].pc = "answered", req'[r].kind # "none", ~req[r].disturbed
    PROVE  Exact(r)'
<1>1. ~Administer /\ ~UNCHANGED listingVars
  BY AdministerStays DEF UnderWay, listingVars
<1>2. PICK x \in Requests : Request(x)
  BY <1>1 DEF ListingNext, Administer
<1>3. PICK new \in Answering : Advance(x, new)
  BY <1>2, RequestAdvances
<1>4. tree' = tree /\ product' = product /\ req' = [req EXCEPT ![x] = new]
  BY <1>3 DEF Advance, Become
<1>5. x = r /\ req'[r] = new
  BY <1>4 DEF ListingInv, ListingTypeOK, UnderWay
<1>6. Right(tree, product, new)
  BY <1>3, <1>5 DEF Advance, Fresh
<1>7. Right(tree', product', req'[r])
  BY <1>4, <1>5, <1>6
<1>8. (Right(tree, product, req[r]) => Exact(r))'
  BY DEF Right, Exact, ExactRandom, ExactExport, ExactListing, Below, BelowIn, Own,
         Listed, Wanted, PageRight, RandomRight
<1> QED BY <1>7, <1>8

\* UndisturbedExact: an answer that nothing was written under is the page, the
\* rows and the total of the database as it is.
THEOREM UndisturbedIsExact == ListingSpec => UndisturbedExact
<1>1. ListingInv /\ [ListingNext]_listingVars
        => [\A r \in Requests :
              UnderWay(r) /\ req'[r].pc = "answered" /\ req'[r].kind # "none" /\ ~req[r].disturbed
                  => Exact(r)']_listingVars
  BY RightIsExact
<1> QED BY <1>1, ListingCareful, PTL DEF ListingSpec, UndisturbedExact
=============================================================================
