------------------------ MODULE CategoryTree_proofs ------------------------
(***************************************************************************)
(* For any number of categories, commands and queries: the tree keeps its  *)
(* type, only an update that hangs a category below itself closes a cycle, *)
(* and the recursive queries that return, return the path to the root and  *)
(* the subtree.  What rests on the algebra of the tree is proved first, of *)
(* trees in general.                                                       *)
(***************************************************************************)
EXTENDS CategoryTree, SequenceTheorems, TLAPS

-----------------------------------------------------------------------------
\* Creating a category closes no cycle: nothing is below it yet.
LEMMA InsertAcyclic ==
    ASSUME NEW t \in Trees, Acyclic(t), NEW c \in Categories \ DOMAIN t, NEW p \in Parents(t)
    PROVE  Acyclic(InsertRow(t, c, p))
<1> DEFINE u == InsertRow(t, c, p)
<1>1. /\ DOMAIN u = DOMAIN t \cup {c}
      /\ u[c] = p
      /\ \A x \in DOMAIN t : u[x] = t[x] /\ t[x] \in Parents(t) /\ x # c
  BY DEF InsertRow, Trees, Parents
<1>2. p # c
  BY NoCategoryAssumption DEF Parents
<1> HIDE DEF u
<1>3. SUFFICES ASSUME NEW S \in SUBSET DOMAIN u, S # {}, \A x \in S : u[x] \in S
               PROVE  FALSE
  BY DEF Acyclic, u
<1>4. c \notin S \/ p \in S \ {c}
  BY <1>1, <1>2, <1>3
<1>5. S \ {c} # {}
  BY <1>3, <1>4
<1>6. \A x \in S \ {c} : t[x] \in S \ {c}
  BY <1>1, <1>3, NoCategoryAssumption DEF Parents
<1>7. S \ {c} \in SUBSET DOMAIN t
  BY <1>1
<1> QED
  BY <1>5, <1>6, <1>7 DEF Acyclic

\* Nor does deleting one: its children become roots.
LEMMA DeleteAcyclic ==
    ASSUME NEW t \in Trees, Acyclic(t), NEW c \in DOMAIN t
    PROVE  Acyclic(DeleteRow(t, c))
<1> DEFINE u == DeleteRow(t, c)
<1>1. /\ DOMAIN u = DOMAIN t \ {c}
      /\ \A x \in DOMAIN u : u[x] = NoCategory \/ u[x] = t[x]
  BY DEF DeleteRow
<1>2. DOMAIN t \subseteq Categories
  BY DEF Trees
<1> HIDE DEF u
<1>3. SUFFICES ASSUME NEW S \in SUBSET DOMAIN u, S # {}, \A x \in S : u[x] \in S
               PROVE  FALSE
  BY DEF Acyclic, u
<1>4. NoCategory \notin S
  BY <1>1, <1>2, NoCategoryAssumption
<1>5. \A x \in S : t[x] \in S
  BY <1>1, <1>3, <1>4
<1>6. S \in SUBSET DOMAIN t
  BY <1>1
<1> QED
  BY <1>3, <1>5, <1>6 DEF Acyclic

\* Moving a category anywhere but below itself closes none, either: take away
\* a set that has the category and all below it but not the new parent, and a
\* cycle of the new tree would be one of the old.
LEMMA MoveAcyclic ==
    ASSUME NEW t \in Trees, Acyclic(t), NEW c \in DOMAIN t, NEW p \in Parents(t),
           p \notin Subtree(t, c)
    PROVE  Acyclic(MoveRow(t, c, p))
<1> DEFINE u == MoveRow(t, c, p)
<1>1. /\ DOMAIN u = DOMAIN t
      /\ u[c] = p
      /\ \A x \in DOMAIN t : x # c => u[x] = t[x]
  BY DEF MoveRow
<1>2. DOMAIN t \subseteq Categories
  BY DEF Trees
<1> HIDE DEF u
<1>3. SUFFICES ASSUME NEW S \in SUBSET DOMAIN u, S # {}, \A x \in S : u[x] \in S
               PROVE  FALSE
  BY DEF Acyclic, u
<1>4. S \in SUBSET DOMAIN t
  BY <1>1
<1>5. CASE c \notin S
  <2>1. \A x \in S : t[x] \in S
    BY <1>1, <1>3, <1>4, <1>5
  <2> QED
    BY <1>3, <1>4, <2>1 DEF Acyclic
<1>6. CASE c \in S
  <2>1. p \in S
    BY <1>1, <1>3, <1>6
  <2>2. PICK D \in SUBSET DOMAIN t : c \in D /\ ClosedBelow(t, D) /\ p \notin D
    BY <1>4, <2>1 DEF Subtree
  <2>3. \A x \in S \ D : t[x] \in S \ D
    BY <1>1, <1>3, <1>4, <2>2 DEF ClosedBelow, Children
  <2>4. S \ D # {} /\ S \ D \in SUBSET DOMAIN t
    BY <1>4, <2>1, <2>2
  <2> QED
    BY <2>3, <2>4 DEF Acyclic
<1> QED
  BY <1>5, <1>6

-----------------------------------------------------------------------------
\* The commands leave a tree whose parents exist: deleting is what would not,
\* were it not for SetNull.
LEMMA TreesStay ==
    ASSUME NEW t \in Trees
    PROVE  /\ DOMAIN t \subseteq Categories
           /\ \A c \in Categories, p \in Parents(t) : InsertRow(t, c, p) \in Trees
           /\ \A c \in DOMAIN t, p \in Parents(t) : MoveRow(t, c, p) \in Trees
           /\ \A c \in DOMAIN t : DeleteRow(t, c) \in Trees
<1>1. PICK L \in SUBSET Categories : t \in [L -> L \cup {NoCategory}]
  BY DEF Trees
<1>2. DOMAIN t = L
  BY <1>1
<1>3. ASSUME NEW c \in Categories, NEW p \in Parents(t)
      PROVE  InsertRow(t, c, p) \in Trees
  <2> DEFINE M == L \cup {c}
  <2>1. InsertRow(t, c, p) \in [M -> M \cup {NoCategory}]
    BY <1>1, <1>2 DEF InsertRow, Parents
  <2>2. M \in SUBSET Categories
    BY <1>1
  <2> HIDE DEF M
  <2> QED
    BY <2>1, <2>2 DEF Trees
<1>4. ASSUME NEW c \in DOMAIN t, NEW p \in Parents(t)
      PROVE  MoveRow(t, c, p) \in Trees
  <2>1. MoveRow(t, c, p) \in [L -> L \cup {NoCategory}]
    BY <1>1, <1>2 DEF MoveRow, Parents
  <2> QED
    BY <2>1 DEF Trees
<1>5. ASSUME NEW c \in DOMAIN t
      PROVE  DeleteRow(t, c) \in Trees
  <2> DEFINE M == L \ {c}
  <2>1. DeleteRow(t, c) \in [M -> M \cup {NoCategory}]
    BY <1>1, <1>2 DEF DeleteRow
  <2>2. M \in SUBSET Categories
    BY <1>1
  <2> HIDE DEF M
  <2> QED
    BY <2>1, <2>2 DEF Trees
<1> QED
  BY <1>1, <1>2, <1>3, <1>4, <1>5

LEMMA NoQueryTyped == NoQuery \in Query
<1>1. <<>> \in Trees
  <2>1. {} \in SUBSET Categories /\ <<>> \in [{} -> {} \cup {NoCategory}]
    OBVIOUS
  <2> QED BY <2>1 DEF Trees
<1> QED BY <1>1 DEF NoQuery, Query

\* What a statement may find has the type of a round.
LEMMA JoinedTyped ==
    ASSUME NEW qry \in Query
    PROVE  Joined(qry) \in SUBSET DOMAIN qry.snapshot /\ DOMAIN qry.snapshot \subseteq Categories
<1>1. qry.snapshot \in Trees
  BY DEF Query
<1> QED BY <1>1, TreesStay DEF Joined, Children

LEMMA ReaderTyped ==
    ASSUME TypeOK, NEW q \in Queries, Reader(q)
    PROVE  \E new \in Query : Become(q, new)
<1> DEFINE now == query[q]
<1>1. now \in Query /\ tree \in Trees /\ DOMAIN tree \subseteq Categories
  BY TreesStay DEF TypeOK
<1>2. ASSUME NEW c \in Categories, NEW k \in {"hierarchy", "descendants"}
      PROVE  [NoQuery EXCEPT !.pc = "looked up", !.kind = k, !.start = c] \in Query
  BY NoQueryTyped DEF Query
<1>3. CASE AskHierarchy(q) \/ AskDescendants(q)
  BY <1>1, <1>2, <1>3 DEF AskHierarchy, AskDescendants
<1>4. CASE Start(q)
  <2> DEFINE found == {now.start} \cap DOMAIN tree
             rows == IF found = {} THEN <<>> ELSE <<found>>
  <2>1. found \in SUBSET Categories
    BY <1>1
  <2> HIDE DEF found
  <2>2. <<found>> \in Seq(SUBSET Categories) /\ <<>> \in Seq(SUBSET Categories)
    BY <2>1
  <2>3. rows \in Seq(SUBSET Categories)
    BY <2>2
  <2> HIDE DEF rows
  <2>4. [now EXCEPT !.pc = "running", !.snapshot = tree, !.rows = rows, !.work = found] \in Query
    BY <1>1, <2>1, <2>3 DEF Query
  <2> QED BY <1>4, <2>4 DEF Start, found, rows
<1>5. CASE Round(q)
  <2> DEFINE new == Joined(now)
             rows == IF new \subseteq AllRows(now) THEN now.rows ELSE Append(now.rows, new)
  <2>1. new \in SUBSET Categories /\ now.rows \in Seq(SUBSET Categories)
    BY <1>1, JoinedTyped DEF Query
  <2>2. rows \in Seq(SUBSET Categories)
    BY <2>1
  <2> HIDE DEF rows
  <2>3. [now EXCEPT !.work = new, !.rows = rows] \in Query
    BY <1>1, <2>1, <2>2 DEF Query
  <2> QED BY <1>5, <2>3 DEF Round, rows
<1>6. CASE Return(q)
  <2>1. [now EXCEPT !.pc = "answered"] \in Query
    BY <1>1 DEF Query
  <2> QED BY <1>6, <2>1 DEF Return
<1> QED BY <1>3, <1>4, <1>5, <1>6 DEF Reader, Statement

LEMMA TypeInit == Init => TypeOK
<1> SUFFICES ASSUME Init PROVE TypeOK
  OBVIOUS
<1>1. tree \in Trees /\ DOMAIN tree \subseteq Categories
  BY TreesStay DEF Init
<1>2. query \in [Queries -> Query]
  BY NoQueryTyped DEF Init
<1> QED
  BY <1>1, <1>2 DEF Init, TypeOK, NoCommand

LEMMA TypeStep == TypeOK /\ [Next]_vars => TypeOK'
<1> SUFFICES ASSUME TypeOK, [Next]_vars PROVE TypeOK'
  OBVIOUS
<1> USE DEF TypeOK
<1>1. ASSUME NEW r \in Commands, NEW op \in {"create", "update", "delete"},
             NEW c \in Categories \cup {NoCategory}, NEW p \in Categories \cup {NoCategory},
             op = "create" \/ c \in Categories, Ask(r, op, c, p)
      PROVE  TypeOK'
  BY <1>1 DEF Ask
<1>2. DOMAIN tree \subseteq Categories /\ Parents(tree) \subseteq Categories \cup {NoCategory}
  BY TreesStay DEF Parents
<1>3. ASSUME NEW r \in Commands, AskCreate(r) PROVE TypeOK'
  BY <1>1, <1>2, <1>3 DEF AskCreate
<1>4. ASSUME NEW r \in Commands, AskUpdate(r) PROVE TypeOK'
  BY <1>1, <1>2, <1>4 DEF AskUpdate
<1>5. ASSUME NEW r \in Commands, AskDelete(r) PROVE TypeOK'
  BY <1>1, <1>2, <1>5 DEF AskDelete
<1>6. ASSUME NEW r \in Commands, NEW t \in Trees, Finish(r, t),
             used' \in SUBSET Categories, DOMAIN t \subseteq used'
      PROVE  TypeOK'
  BY <1>6 DEF Finish, NoCommand
<1>7. ASSUME NEW r \in Commands, Create(r) PROVE TypeOK'
  <2>1. PICK c \in Categories \ used : Finish(r, InsertRow(tree, c, cmd[r].parent))
                                       /\ used' = used \cup {c}
    BY <1>7 DEF Create
  <2>2. InsertRow(tree, c, cmd[r].parent) \in Trees
    BY <1>7, TreesStay DEF Create
  <2>3. DOMAIN InsertRow(tree, c, cmd[r].parent) \subseteq used'
    BY <2>1 DEF InsertRow
  <2> QED
    BY <1>6, <2>1, <2>2, <2>3
<1>8. ASSUME NEW r \in Commands, Update(r) PROVE TypeOK'
  <2>1. MoveRow(tree, cmd[r].row, cmd[r].parent) \in Trees
    BY <1>8, TreesStay DEF Update
  <2>2. DOMAIN MoveRow(tree, cmd[r].row, cmd[r].parent) \subseteq used
    BY DEF MoveRow
  <2> QED
    BY <1>6, <1>8, <2>1, <2>2 DEF Update
<1>9. ASSUME NEW r \in Commands, Delete(r) PROVE TypeOK'
  <2>1. DeleteRow(tree, cmd[r].row) \in Trees
    BY <1>9, TreesStay DEF Delete
  <2>2. DOMAIN DeleteRow(tree, cmd[r].row) \subseteq used
    BY DEF DeleteRow
  <2> QED
    BY <1>6, <1>9, <2>1, <2>2 DEF Delete
<1>10. ASSUME NEW r \in Commands, Refuse(r) PROVE TypeOK'
  BY <1>6, <1>10 DEF Refuse
<1>11. ASSUME NEW q \in Queries, Reader(q) PROVE TypeOK'
  <2>1. PICK new \in Query : Become(q, new)
    BY <1>11, ReaderTyped
  <2> QED
    BY <2>1 DEF Become
<1>12. CASE UNCHANGED vars
  BY <1>12 DEF vars
<1> QED
  BY <1>3, <1>4, <1>5, <1>7, <1>8, <1>9, <1>10, <1>11, <1>12 DEF Next, Command, vars

\* The tree, the ids given out and the requests keep their types; above all,
\* every parent exists, however commands overlap.
THEOREM TreeTypeCorrect == Spec => []TypeOK
<1> QED
  BY TypeInit, TypeStep, PTL DEF Spec

\* A cycle is closed by an update of a category, and by one whose new parent
\* is in the category's own subtree when it commits.
THEOREM OnlyUpdatesCloseCycles == Spec => CyclesOnlyByUpdates
<1> DEFINE Blamed == \E r \in Commands : ClosesCycle(r) /\ Update(r)
<1>1. ASSUME TypeOK, [Next]_vars, Acyclic(tree), ~Acyclic(tree') PROVE Blamed
  <2>1. tree' # tree
    BY <1>1
  <2>2. PICK r \in Commands : Create(r) \/ Update(r) \/ Delete(r)
    BY <1>1, <2>1 DEF Next, Command, AskCreate, AskUpdate, AskDelete, Ask, Refuse, Finish,
       Reader, Statement, AskHierarchy, AskDescendants, Start, Round, Return, Become, vars
  <2>3. ~Create(r)
    <3> SUFFICES ASSUME Create(r) PROVE FALSE
      OBVIOUS
    <3>1. PICK c \in Categories \ used : tree' = InsertRow(tree, c, cmd[r].parent)
      BY DEF Create, Finish
    <3>2. c \in Categories \ DOMAIN tree /\ tree \in Trees /\ cmd[r].parent \in Parents(tree)
      BY <1>1 DEF TypeOK, Create
    <3> QED
      BY <1>1, <3>1, <3>2, InsertAcyclic
  <2>4. ~Delete(r)
    BY <1>1, DeleteAcyclic DEF Delete, Finish, TypeOK
  <2>5. Update(r)
    BY <2>2, <2>3, <2>4
  <2>6. cmd[r].parent \in Subtree(tree, cmd[r].row)
    BY <1>1, <2>5, MoveAcyclic DEF Update, Finish, TypeOK
  <2> QED
    BY <2>5, <2>6 DEF ClosesCycle, Update, Finish
<1>2. TypeOK /\ [Next]_vars => [Acyclic(tree) /\ ~Acyclic(tree') => Blamed]_vars
  BY <1>1
<1> QED
  BY <1>2, TypeInit, TypeStep, PTL DEF Spec, CyclesOnlyByUpdates
-----------------------------------------------------------------------------
\* What a recursive query has found so far, on its snapshot t.

\* Upwards, one category a round: each round's is the parent of the one before.
\* The next round starts from the last one found; or there was none above it; or
\* the rows are a cycle and what leads into it, where no round finds anything new.
Upwards(t, start, rows, work) ==
    LET all == UNION Range(rows) IN
    /\ rows # <<>> /\ rows[1] = {start}
    /\ \A i \in 1..Len(rows) : \E x \in DOMAIN t : rows[i] = {x}
    /\ \A i \in 1..(Len(rows) - 1) : {t[x] : x \in rows[i]} = rows[i + 1]
    /\ \/ work = rows[Len(rows)]
       \/ work = {} /\ \A x \in rows[Len(rows)] : t[x] = NoCategory
       \/ work # {} /\ work \subseteq all /\ \A x \in all : t[x] \in all

\* Downwards: all of it is below the start, and what is not found yet is below
\* the rows still to be worked on.
Downwards(t, start, rows, work) ==
    LET all == UNION Range(rows) IN
    /\ start \in all /\ work \subseteq all /\ all \subseteq Subtree(t, start)
    /\ Children(t, all \ work) \subseteq all

FoundSoFar(qry) ==
    IF qry.start \notin DOMAIN qry.snapshot THEN qry.rows = <<>> /\ qry.work = {}
    ELSE IF qry.kind = "hierarchy"
         THEN Upwards(qry.snapshot, qry.start, qry.rows, qry.work)
         ELSE Downwards(qry.snapshot, qry.start, qry.rows, qry.work)

QueryInv ==
    \A q \in Queries :
        /\ query[q].pc \in {"running", "answered"} => FoundSoFar(query[q])
        /\ query[q].pc = "answered" => query[q].work = {}

\* The subtree of a row is closed, has the row, and is the least such set.
LEMMA SubtreeLeast ==
    ASSUME NEW t, NEW c \in DOMAIN t
    PROVE  /\ Subtree(t, c) \subseteq DOMAIN t
           /\ c \in Subtree(t, c) /\ ClosedBelow(t, Subtree(t, c))
           /\ \A S \in SUBSET DOMAIN t :
                 c \in S /\ ClosedBelow(t, S) => Subtree(t, c) \subseteq S
<1>1. ASSUME NEW x \in Children(t, Subtree(t, c)) PROVE x \in Subtree(t, c)
  <2>1. x \in DOMAIN t /\ t[x] \in Subtree(t, c)
    BY DEF Children
  <2>2. ASSUME NEW S \in SUBSET DOMAIN t, c \in S, ClosedBelow(t, S) PROVE x \in S
    <3>1. t[x] \in S
      BY <2>1, <2>2 DEF Subtree
    <3> QED BY <2>1, <2>2, <3>1 DEF ClosedBelow, Children
  <2> QED BY <2>1, <2>2 DEF Subtree
<1> QED BY <1>1 DEF Subtree, ClosedBelow

\* One round more adds its set to the rows, and nothing else.
LEMMA RowsAppended ==
    ASSUME NEW rows \in Seq(SUBSET Categories), NEW new \in SUBSET Categories
    PROVE  /\ UNION Range(Append(rows, new)) = (UNION Range(rows)) \cup new
           /\ Len(Append(rows, new)) = Len(rows) + 1
           /\ Append(rows, new)[Len(rows) + 1] = new
           /\ \A i \in 1..Len(rows) : Append(rows, new)[i] = rows[i]
<1> DEFINE more == Append(rows, new)
<1>1. /\ more \in Seq(SUBSET Categories) /\ Len(more) = Len(rows) + 1
      /\ more[Len(rows) + 1] = new
      /\ \A i \in 1..Len(rows) : more[i] = rows[i]
  OBVIOUS
<1>2. DOMAIN more = 1..(Len(rows) + 1) /\ DOMAIN rows = 1..Len(rows) /\ Len(rows) \in Nat
  BY <1>1
<1> HIDE DEF more
<1>3. DOMAIN more = DOMAIN rows \cup {Len(rows) + 1}
  BY <1>2
<1>4. UNION Range(more) = (UNION Range(rows)) \cup new
  BY <1>1, <1>2, <1>3 DEF Range
<1> QED BY <1>1, <1>4 DEF more

LEMMA OneRow ==
    ASSUME NEW new \in SUBSET Categories
    PROVE  /\ <<new>> # <<>> /\ Len(<<new>>) = 1 /\ <<new>>[1] = new
           /\ UNION Range(<<new>>) = new
<1>1. DOMAIN <<new>> = {1} /\ <<new>>[1] = new
  OBVIOUS
<1> QED BY <1>1 DEF Range

\* The start alone, with the round below it still to come.
LEMMA DownwardsStart ==
    ASSUME NEW t, NEW c \in DOMAIN t, NEW rows, UNION Range(rows) = {c}
    PROVE  Downwards(t, c, rows, {c})
<1>1. Children(t, {c} \ {c}) = {}
  BY DEF Children
<1> QED BY <1>1, SubtreeLeast DEF Downwards

\* The first statement of the recursive query.
LEMMA StartFinds ==
    ASSUME NEW qry \in Query, NEW found, found = {qry.start} \cap DOMAIN qry.snapshot,
           qry.rows = IF found = {} THEN <<>> ELSE <<found>>, qry.work = found
    PROVE  FoundSoFar(qry)
<1>1. CASE qry.start \notin DOMAIN qry.snapshot
  BY <1>1 DEF FoundSoFar
<1>2. CASE qry.start \in DOMAIN qry.snapshot
  <2> DEFINE t == qry.snapshot
  <2>1. t \in Trees /\ DOMAIN t \subseteq Categories
    BY TreesStay DEF Query
  <2>2. found = {qry.start} /\ qry.rows = <<found>> /\ found \in SUBSET Categories
    BY <1>2, <2>1
  <2>3. /\ qry.rows # <<>> /\ Len(qry.rows) = 1 /\ qry.rows[1] = found
        /\ UNION Range(qry.rows) = found
    BY <2>2, OneRow
  <2>4. CASE qry.kind = "hierarchy"
    BY <1>2, <2>2, <2>3, <2>4 DEF FoundSoFar, Upwards
  <2>5. CASE qry.kind # "hierarchy"
    <3>1. PICK c, rows : c = qry.start /\ rows = qry.rows /\ found = {c}
      BY <2>2
    <3>2. c \in DOMAIN t /\ UNION Range(rows) = found
      BY <1>2, <2>3, <3>1
    <3> HIDE DEF t
    <3>3. Downwards(t, c, rows, found)
      BY ONLY <3>1, <3>2, DownwardsStart
    <3> QED BY <1>2, <2>5, <3>1, <3>3 DEF FoundSoFar, t
  <2> QED BY <2>4, <2>5
<1> QED BY <1>1, <1>2

\* A round upwards.
LEMMA UpwardsRound ==
    ASSUME NEW t \in Trees, NEW rows \in Seq(SUBSET Categories), NEW start,
           NEW work \in SUBSET Categories, Upwards(t, start, rows, work), work # {}
    PROVE  LET new == {t[x] : x \in work} \cap DOMAIN t IN
           Upwards(t, start,
                   IF new \subseteq UNION Range(rows) THEN rows ELSE Append(rows, new), new)
<1> DEFINE n == Len(rows)
           all == UNION Range(rows)
           new == {t[x] : x \in work} \cap DOMAIN t
           rows2 == IF new \subseteq all THEN rows ELSE Append(rows, new)
<1>1. /\ n \in Nat \ {0} /\ DOMAIN t \subseteq Categories /\ new \in SUBSET Categories
      /\ \A x \in DOMAIN t : t[x] \in DOMAIN t \cup {NoCategory}
  <2>1. n \in Nat \ {0}
    BY DEF Upwards
  <2>2. \A x \in DOMAIN t : t[x] \in DOMAIN t \cup {NoCategory}
    BY DEF Trees
  <2> QED BY <2>1, <2>2, TreesStay
<1>2. /\ rows # <<>> /\ rows[1] = {start}
      /\ \A i \in 1..n : \E x \in DOMAIN t : rows[i] = {x}
      /\ \A i \in 1..(n - 1) : {t[x] : x \in rows[i]} = rows[i + 1]
  BY DEF Upwards
<1>3. /\ \A x \in all : \E i \in 1..n : x \in rows[i]
      /\ \A i \in 1..n : rows[i] \subseteq all
      /\ all \subseteq DOMAIN t
  <2>1. DOMAIN rows = 1..n
    OBVIOUS
  <2> QED BY <1>2, <2>1 DEF Range
<1>4. \/ work = rows[n]
      \/ work \subseteq all /\ \A x \in all : t[x] \in all
  BY DEF Upwards
<1> SUFFICES Upwards(t, start, rows2, new)
  OBVIOUS
<1>5. ASSUME new \subseteq all, \A x \in all : t[x] \in all, new # {}
      PROVE  Upwards(t, start, rows2, new)
  <2>1. rows2 = rows
    BY <1>5
  <2> HIDE DEF rows2, new
  <2> QED BY <1>2, <1>5, <2>1 DEF Upwards
<1>6. CASE work = rows[n]
  <2>1. PICK y \in DOMAIN t : rows[n] = {y}
    BY <1>1, <1>2
  <2>2. new = {t[y]} \cap DOMAIN t
    BY <1>6, <2>1
  <2> HIDE DEF new
  <2>3. CASE new = {}
    <3>1. t[y] = NoCategory
      BY <1>1, <2>2, <2>3
    <3>2. rows2 = rows /\ \A x \in rows[n] : t[x] = NoCategory
      BY <2>1, <2>3, <3>1
    <3> HIDE DEF rows2
    <3> QED BY <1>2, <2>3, <3>2 DEF Upwards
  <2>4. CASE new # {} /\ new \subseteq all
    <3> SUFFICES ASSUME NEW x \in all PROVE t[x] \in all
      BY <1>5, <2>4
    <3>1. PICK i \in 1..n : x \in rows[i]
      BY <1>3
    <3>2. CASE i = n
      BY <2>1, <2>2, <2>4, <3>1, <3>2
    <3>3. CASE i # n
      <4>1. i \in 1..(n - 1) /\ i + 1 \in 1..n
        BY <1>1, <3>3
      <4>2. t[x] \in rows[i + 1]
        BY <1>2, <3>1, <4>1
      <4> QED BY <1>3, <4>1, <4>2
    <3> QED BY <3>2, <3>3
  <2>5. CASE ~(new \subseteq all)
    <3>1. new = {t[y]} /\ t[y] \in DOMAIN t
      BY <2>2, <2>5
    <3>2. rows2 = Append(rows, new)
      BY <2>5
    <3>3. /\ Len(rows2) = n + 1 /\ rows2[n + 1] = new
          /\ \A i \in 1..n : rows2[i] = rows[i]
      <4>1. /\ Len(Append(rows, new)) = n + 1 /\ Append(rows, new)[n + 1] = new
            /\ \A i \in 1..n : Append(rows, new)[i] = rows[i]
        BY <1>1, RowsAppended
      <4> QED BY <3>2, <4>1
    <3>4. rows2 # <<>>
      BY <1>1, <3>2
    <3> HIDE DEF rows2, n
    <3>5. rows2[1] = {start} /\ new = rows2[Len(rows2)]
      <4>1. 1 \in 1..n
        BY <1>1
      <4> QED BY <1>2, <3>3, <4>1
    <3>6. ASSUME NEW i \in 1..Len(rows2) PROVE \E x \in DOMAIN t : rows2[i] = {x}
      <4>1. i \in 1..n \/ i = n + 1
        BY <1>1, <3>3
      <4> QED BY <1>2, <3>1, <3>3, <4>1
    <3>7. ASSUME NEW i \in 1..(Len(rows2) - 1) PROVE {t[x] : x \in rows2[i]} = rows2[i + 1]
      <4>1. i \in 1..n
        BY <1>1, <3>3
      <4>2. CASE i = n
        BY <2>1, <3>1, <3>3, <4>1, <4>2
      <4>3. CASE i # n
        <5>1. i \in 1..(n - 1) /\ i + 1 \in 1..n
          BY <1>1, <4>1, <4>3
        <5> QED BY <1>2, <3>3, <4>1, <5>1
      <4> QED BY <4>2, <4>3
    <3> QED BY <3>4, <3>5, <3>6, <3>7 DEF Upwards
  <2> QED BY <2>3, <2>4, <2>5
<1>7. CASE work \subseteq all /\ \A x \in all : t[x] \in all
  <2>1. PICK x \in work : x \in all /\ t[x] \in all
    BY <1>7
  <2>2. t[x] \in new
    BY <1>3, <2>1
  <2>3. new \subseteq all
    BY <1>7
  <2> QED BY <1>5, <1>7, <2>2, <2>3
<1> QED BY <1>4, <1>6, <1>7

\* A round downwards.
LEMMA DownwardsRound ==
    ASSUME NEW t \in Trees, NEW rows \in Seq(SUBSET Categories), NEW start \in DOMAIN t,
           NEW work \in SUBSET Categories, Downwards(t, start, rows, work)
    PROVE  LET new == Children(t, work) IN
           Downwards(t, start,
                     IF new \subseteq UNION Range(rows) THEN rows ELSE Append(rows, new), new)
<1> DEFINE all == UNION Range(rows)
           new == Children(t, work)
           rows2 == IF new \subseteq all THEN rows ELSE Append(rows, new)
           below == Subtree(t, start)
<1>1. new \in SUBSET Categories
  BY TreesStay DEF Children
<1>2. new \subseteq below
  BY SubtreeLeast DEF Downwards, ClosedBelow, Children
<1>3. UNION Range(rows2) = all \cup new
  <2> HIDE DEF new
  <2>1. CASE new \subseteq all
    BY <2>1
  <2>2. CASE ~(new \subseteq all)
    <3>1. rows2 = Append(rows, new)
      BY <2>2
    <3> QED BY <1>1, <3>1, RowsAppended
  <2> QED BY <2>1, <2>2
<1>4. ASSUME NEW x \in Children(t, (all \cup new) \ new) PROVE x \in all \cup new
  <2>1. x \in DOMAIN t /\ t[x] \in all
    BY DEF Children
  <2>2. CASE t[x] \in work
    BY <2>1, <2>2 DEF Children
  <2>3. CASE t[x] \notin work
    BY <2>1, <2>3 DEF Children, Downwards
  <2> QED BY <2>2, <2>3
<1>5. start \in all /\ all \subseteq below
  BY DEF Downwards
<1> HIDE DEF new, rows2, below, all
<1>6. Downwards(t, start, rows2, new)
  BY <1>2, <1>3, <1>4, <1>5 DEF Downwards, below
<1> QED BY <1>6 DEF rows2, new, all

\* A reader's step leaves FoundSoFar as it should be; commands do not touch the
\* snapshots.
LEMMA QueryStep == TypeOK /\ QueryInv /\ [Next]_vars => QueryInv'
<1> SUFFICES ASSUME TypeOK, QueryInv, [Next]_vars PROVE QueryInv'
  OBVIOUS
<1> DEFINE Fine(qry) ==
        /\ qry.pc \in {"running", "answered"} => FoundSoFar(qry)
        /\ qry.pc = "answered" => qry.work = {}
<1>1. CASE UNCHANGED query
  BY <1>1 DEF QueryInv
<1>2. ASSUME NEW q \in Queries, NEW new \in Query, Become(q, new), Fine(new)
      PROVE  QueryInv'
  <2> HIDE DEF Fine
  <2>1. \A p \in Queries : Fine(query[p])
    BY DEF QueryInv, Fine
  <2>2. query' = [query EXCEPT ![q] = new] /\ query \in [Queries -> Query]
    BY <1>2 DEF Become, TypeOK
  <2>3. \A p \in Queries : Fine(query'[p])
    BY <1>2, <2>1, <2>2
  <2> QED BY <2>3 DEF QueryInv, Fine
<1>3. ASSUME NEW q \in Queries, Reader(q) PROVE QueryInv'
  <2>1. PICK new \in Query : Become(q, new)
    BY <1>3, ReaderTyped
  <2>0. PICK old \in Query : old = query[q]
    BY DEF TypeOK
  <2>2. /\ query' = [query EXCEPT ![q] = new] /\ query'[q] = new
        /\ query \in [Queries -> Query] /\ old = query[q] /\ old \in Query
    BY <2>0, <2>1 DEF Become, TypeOK
  <2>3. Fine(old)
    BY <2>0 DEF QueryInv
  <2>4. CASE AskHierarchy(q) \/ AskDescendants(q)
    <3>1. new.pc = "looked up"
      BY <2>2, <2>4 DEF AskHierarchy, AskDescendants, Become, NoQuery
    <3> QED BY <1>2, <2>1, <3>1
  <2>5. CASE Start(q)
    <3> DEFINE found == {old.start} \cap DOMAIN tree
               rows == IF found = {} THEN <<>> ELSE <<found>>
    <3>1. new = [old EXCEPT !.pc = "running", !.snapshot = tree,
                            !.rows = rows, !.work = found]
      BY <2>2, <2>5 DEF Start, Become
    <3> HIDE DEF rows
    <3>2. /\ new.work = found /\ new.rows = rows /\ new.pc = "running"
          /\ new.snapshot = tree /\ new.start = old.start
      BY <2>2, <3>1 DEF Query
    <3> QED BY <1>2, <2>1, <3>2, StartFinds DEF rows
  <2>6. CASE Round(q)
    <3> DEFINE joined == Joined(old)
               rows == IF joined \subseteq AllRows(old) THEN old.rows
                       ELSE Append(old.rows, joined)
    <3>1. old.pc = "running" /\ old.work # {} /\ FoundSoFar(old)
      BY <2>2, <2>3, <2>6 DEF Round
    <3>2. new = [old EXCEPT !.work = joined, !.rows = rows]
      BY <2>2, <2>6 DEF Round, Become
    <3> HIDE DEF joined, rows
    <3>3. /\ new.work = joined /\ new.rows = rows /\ new.pc = "running"
          /\ new.snapshot = old.snapshot /\ new.start = old.start /\ new.kind = old.kind
      BY <2>2, <3>1, <3>2 DEF Query
    <3>4. /\ old.snapshot \in Trees /\ old.rows \in Seq(SUBSET Categories)
          /\ old.work \in SUBSET Categories /\ old.start \in DOMAIN old.snapshot
      BY <2>2, <3>1 DEF Query, FoundSoFar
    <3>5. CASE old.kind = "hierarchy"
      <4>1. joined = {old.snapshot[x] : x \in old.work} \cap DOMAIN old.snapshot
        BY <3>5 DEF joined, Joined
      <4>2. Upwards(old.snapshot, old.start, rows, joined)
        BY <3>1, <3>4, <3>5, <4>1, UpwardsRound DEF FoundSoFar, rows, AllRows
      <4> QED BY <1>2, <2>1, <3>3, <3>4, <3>5, <4>2 DEF FoundSoFar
    <3>6. CASE old.kind # "hierarchy"
      <4>1. joined = Children(old.snapshot, old.work)
        BY <3>6 DEF joined, Joined
      <4>2. Downwards(old.snapshot, old.start, rows, joined)
        BY <3>1, <3>4, <3>6, <4>1, DownwardsRound DEF FoundSoFar, rows, AllRows
      <4> QED BY <1>2, <2>1, <3>3, <3>4, <3>6, <4>2 DEF FoundSoFar
    <3> QED BY <3>5, <3>6
  <2>7. CASE Return(q)
    <3>1. old.pc = "running" /\ old.work = {} /\ FoundSoFar(old)
      BY <2>2, <2>3, <2>7 DEF Return
    <3>2. new = [old EXCEPT !.pc = "answered"]
      BY <2>2, <2>7 DEF Return, Become
    <3>3. /\ new.work = old.work /\ new.rows = old.rows
          /\ new.snapshot = old.snapshot /\ new.start = old.start /\ new.kind = old.kind
      BY <2>2, <3>2 DEF Query
    <3> QED BY <1>2, <2>1, <3>1, <3>3 DEF FoundSoFar
  <2> QED BY <1>3, <2>4, <2>5, <2>6, <2>7 DEF Reader, Statement
<1> QED
  BY <1>1, <1>3 DEF Next, Command, AskCreate, AskUpdate, AskDelete, Ask, Create, Update,
     Delete, Refuse, Finish, vars

LEMMA QueryInit == Init => QueryInv
  BY DEF Init, QueryInv, NoQuery

\* Read backwards, the rounds of an answered query are the path.
LEMMA HierarchyFromRounds == TypeOK /\ QueryInv => HierarchyIsPath
<1> SUFFICES ASSUME TypeOK, QueryInv, NEW q \in Queries,
                    query[q].pc = "answered", query[q].kind = "hierarchy"
    PROVE  LET t == query[q].snapshot
               path == Path(query[q])
           IN  IF query[q].start \in DOMAIN t
               THEN /\ path # <<>> /\ Last(path) = {query[q].start}
                    /\ \A x \in Head(path) : t[x] = NoCategory
                    /\ \A i \in 1..(Len(path) - 1) : {t[x] : x \in path[i + 1]} = path[i]
               ELSE path = <<>>
  BY DEF HierarchyIsPath
<1> DEFINE t == query[q].snapshot
           rows == query[q].rows
           path == Path(query[q])
           n == Len(rows)
<1>1. rows \in Seq(SUBSET Categories)
  BY DEF TypeOK, Query
<1>2. query[q].work = {} /\ FoundSoFar(query[q])
  BY DEF QueryInv
<1>3. path = [i \in 1..n |-> rows[(n - i) + 1]]
  BY DEF Path, Reverse
<1>4. CASE query[q].start \notin DOMAIN t
  <2>1. rows = <<>>
    BY <1>2, <1>4 DEF FoundSoFar
  <2>2. path = <<>>
    BY <1>3, <2>1
  <2> QED BY <1>4, <2>2
<1>5. CASE query[q].start \in DOMAIN t
  <2>1. Upwards(t, query[q].start, rows, query[q].work)
    BY <1>2, <1>5 DEF FoundSoFar
  <2>2. /\ rows # <<>> /\ rows[1] = {query[q].start}
        /\ \A i \in 1..n : \E x \in DOMAIN t : rows[i] = {x}
        /\ \A i \in 1..(n - 1) : {t[x] : x \in rows[i]} = rows[i + 1]
    BY <2>1 DEF Upwards
  <2> HIDE DEF rows, path, n, t
  <2>3. n \in Nat \ {0}
    BY <1>1, <2>2 DEF n
  <2>4. \A x \in rows[n] : t[x] = NoCategory
    <3>1. \/ query[q].work = rows[n]
          \/ \A x \in rows[n] : t[x] = NoCategory
          \/ query[q].work # {}
      BY <2>1 DEF Upwards, rows, t, n
    <3>2. \E x \in DOMAIN t : rows[n] = {x}
      BY <2>2, <2>3
    <3> QED BY <1>2, <3>1, <3>2
  <2>5. path \in Seq(SUBSET Categories) /\ Len(path) = n
    <3>1. \A i \in 1..n : (n - i) + 1 \in 1..n
      BY <2>3
    <3>2. \A i \in 1..n : rows[i] \in SUBSET Categories
      BY <1>1 DEF n
    <3>3. path \in [1..n -> SUBSET Categories]
      BY <1>3, <3>1, <3>2
    <3> QED BY <2>3, <3>3
  <2>6. path # <<>> /\ path[n] = {query[q].start} /\ path[1] = rows[n]
    <3>1. 1 \in 1..n /\ n \in 1..n /\ (n - n) + 1 = 1 /\ (n - 1) + 1 = n
      BY <2>3
    <3> QED BY <1>3, <2>2, <2>3, <2>5, <3>1
  <2>7. ASSUME NEW i \in 1..(n - 1) PROVE {t[x] : x \in path[i + 1]} = path[i]
    <3>1. /\ i \in 1..n /\ i + 1 \in 1..n
          /\ n - i \in 1..(n - 1) /\ (n - (i + 1)) + 1 = n - i
      BY <2>3
    <3>2. path[i + 1] = rows[n - i] /\ path[i] = rows[(n - i) + 1]
      BY <1>3, <3>1
    <3> QED BY <2>2, <3>1, <3>2
  <2>8. Last(path) = {query[q].start} /\ Head(path) = rows[n]
    BY <2>5, <2>6 DEF Last
  <2> QED BY <1>5, <2>4, <2>5, <2>6, <2>7, <2>8 DEF t, path
<1> QED BY <1>4, <1>5 DEF t, path

\* With nothing left to work on, the rows are closed, so they are all below.
LEMMA DescendantsFromRounds == TypeOK /\ QueryInv => DescendantsExact
<1> SUFFICES ASSUME TypeOK, QueryInv, NEW q \in Queries,
                    query[q].pc = "answered", query[q].kind = "descendants"
    PROVE  AllRows(query[q]) = IF query[q].start \in DOMAIN query[q].snapshot
                               THEN Subtree(query[q].snapshot, query[q].start) ELSE {}
  BY DEF DescendantsExact
<1> DEFINE t == query[q].snapshot
           all == AllRows(query[q])
           below == Subtree(t, query[q].start)
<1>1. query[q].work = {} /\ FoundSoFar(query[q])
  BY DEF QueryInv
<1>2. CASE query[q].start \notin DOMAIN t
  <2>1. query[q].rows = <<>>
    BY <1>1, <1>2 DEF FoundSoFar
  <2>2. all = {}
    BY <2>1 DEF AllRows, Range
  <2> QED BY <1>2, <2>2
<1>3. CASE query[q].start \in DOMAIN t
  <2>1. Downwards(t, query[q].start, query[q].rows, query[q].work)
    BY <1>1, <1>3 DEF FoundSoFar
  <2>2. all \subseteq below /\ below \subseteq DOMAIN t /\ query[q].start \in all
    BY <1>3, <2>1, SubtreeLeast DEF Downwards, AllRows
  <2>3. ClosedBelow(t, all)
    <3>1. all \ query[q].work = all
      BY <1>1
    <3> QED BY <2>1, <3>1 DEF Downwards, ClosedBelow, AllRows
  <2>4. below \subseteq all
    BY <1>3, <2>2, <2>3, SubtreeLeast
  <2> QED BY <1>3, <2>2, <2>4
<1> QED BY <1>2, <1>3

\* An answered hierarchy is the path from a root to the category, at one moment.
THEOREM HierarchiesArePaths == Spec => []HierarchyIsPath
<1> QED
  BY TypeInit, TypeStep, QueryInit, QueryStep, HierarchyFromRounds, PTL DEF Spec

\* An answered list of descendants is the whole subtree and nothing else.
THEOREM DescendantsAreExact == Spec => []DescendantsExact
<1> QED
  BY TypeInit, TypeStep, QueryInit, QueryStep, DescendantsFromRounds, PTL DEF Spec
=============================================================================
