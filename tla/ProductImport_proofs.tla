------------------------- MODULE ProductImport_proofs -------------------------
(***************************************************************************)
(* First the map (MapWithConcurrency), for every pool width and every      *)
(* bound on the length of the list.  A call's record satisfies PoolOK when *)
(* it is created, and the two steps of its workers preserve it: these      *)
(* lemmas are about any call, those of the imports too.  CallInv is then   *)
(* inductive.  That the counter is ahead of every held item is what keeps  *)
(* two workers from sharing one, and that items are left over only if      *)
(* every worker threw needs the count of the workers that are gone.        *)
(*                                                                         *)
(* Then the import: what ProductImport's run checks of small files holds of *)
(* any number of imports, of any files, and whatever the administrator     *)
(* deletes.  A step is put under one of the kinds below (StepIs), which    *)
(* forget attributes, images and checks; each part of the invariant IInv is *)
(* then preserved kind by kind, first for the import that moves, then for  *)
(* the others, for a deletion and for a restart.  The parts are            *)
(*   Position   where the generator stands, what it has created, and when  *)
(*              its workers may be busy                                    *)
(*   LogRight   the log explains the products, whose slugs differ          *)
(*   Summaries  a summary event is there only of an import that got through *)
(*   Stream     what the client has read                                   *)
(*   Counts     which rows are in, tied to the pool's resolved items       *)
(***************************************************************************)
EXTENDS ProductImport, MapWithConcurrency, FiniteSetTheorems, SequenceTheorems, TLAPS

\* The set of workers a call creates is finite.
LEMMA SpawnedFinite ==
  ASSUME NEW n \in Nat
  PROVE  IsFiniteSet(Spawned(n)) /\ IsFiniteSet(Workers)
<1>1. IsFiniteSet(Workers)
  BY FS_Interval, ConcurrencyAssumption DEF Workers
<1>2. Spawned(n) \in SUBSET Workers
  BY DEF Spawned
<1>3. QED
  BY <1>1, <1>2, FS_Subset

\* What StartPool returns, field by field.
LEMMA StartFields ==
  ASSUME NEW n \in Nat
  PROVE  /\ StartPool(n) \in PoolRecords
         /\ StartPool(n).size = n
         /\ StartPool(n).nextIndex = IF n <= Concurrency THEN n ELSE Concurrency
         /\ StartPool(n).held =
               [w \in Workers |-> IF w \in Spawned(n) THEN w ELSE NoItem]
         /\ StartPool(n).resolved = {}
         /\ StartPool(n).rejected = {}
         /\ StartPool(n).promise = IF n = 0 THEN "resolved" ELSE "pending"
  BY ConcurrencyAssumption DEF StartPool, PoolRecords, Workers, NoItem

\* A call starts well: its workers hold the first items, one each.
LEMMA StartPoolOK ==
  ASSUME NEW n \in Nat
  PROVE  PoolOK(StartPool(n))
<1> DEFINE p == StartPool(n)
<1>1. /\ p \in PoolRecords
      /\ p.size = n
      /\ p.nextIndex = IF n <= Concurrency THEN n ELSE Concurrency
      /\ p.held = [w \in Workers |-> IF w \in Spawned(n) THEN w ELSE NoItem]
      /\ p.resolved = {}
      /\ p.rejected = {}
      /\ p.promise = IF n = 0 THEN "resolved" ELSE "pending"
  BY StartFields
<1> HIDE DEF p
<1>2. Busy(p) = Spawned(n)
  BY <1>1 DEF Busy, Spawned, Workers, NoItem
<1>3. \A w \in Busy(p) : p.held[w] = w
  BY <1>1, <1>2 DEF Spawned
<1>4. Held(p) = 1..p.nextIndex
  BY <1>1, <1>2, <1>3, ConcurrencyAssumption DEF Held, Spawned, Workers
<1>5. ItemsOnce(p)
  BY <1>1, <1>3, <1>4, ConcurrencyAssumption DEF ItemsOnce
<1>6. PromiseTrue(p)
  BY <1>1, <1>2 DEF PromiseTrue, Spawned, Workers
<1>7. GoneHaveThrown(p)
  <2>1. Gone(p) = {}
    BY <1>1, <1>2 DEF Gone
  <2>2. QED
    BY <1>1, <1>2, <2>1, FS_EmptySet DEF GoneHaveThrown
<1>8. QED
  BY <1>1, <1>5, <1>6, <1>7 DEF PoolOK, p

\* What ResolveItem returns, field by field.
LEMMA ResolveFields ==
  ASSUME NEW p \in PoolRecords, NEW w \in Busy(p)
  PROVE  /\ ResolveItem(p, w) \in PoolRecords
         /\ ResolveItem(p, w).size = p.size
         /\ ResolveItem(p, w).nextIndex =
               IF HasNext(p) THEN p.nextIndex + 1 ELSE p.nextIndex
         /\ ResolveItem(p, w).held = [p.held EXCEPT ![w] = Taken(p)]
         /\ ResolveItem(p, w).resolved = p.resolved \cup {p.held[w]}
         /\ ResolveItem(p, w).rejected = p.rejected
         /\ ResolveItem(p, w).promise =
               IF p.promise = "pending" /\ Busy(p) = {w} /\ ~HasNext(p)
               THEN "resolved" ELSE p.promise
<1>1. w \in Workers /\ p.held \in [Workers -> Nat]
  BY DEF Busy, PoolRecords
<1>2. Taken(p) \in Nat
  BY DEF Taken, PoolRecords, HasNext, NoItem
<1>3. p.held[w] \in Nat
  BY <1>1
<1> DEFINE q == ResolveItem(p, w)
<1>4. /\ q.nextIndex \in Nat
      /\ q.held \in [Workers -> Nat]
      /\ q.resolved \in SUBSET Nat
      /\ q.promise \in {"pending", "resolved", "rejected"}
  BY <1>1, <1>2, <1>3 DEF ResolveItem, PoolRecords
<1>5. QED
  BY <1>4 DEF ResolveItem, PoolRecords

\* What RejectItem returns, field by field.
LEMMA RejectFields ==
  ASSUME NEW p \in PoolRecords, NEW w \in Busy(p)
  PROVE  /\ RejectItem(p, w) \in PoolRecords
         /\ RejectItem(p, w).size = p.size
         /\ RejectItem(p, w).nextIndex = p.nextIndex
         /\ RejectItem(p, w).held = [p.held EXCEPT ![w] = NoItem]
         /\ RejectItem(p, w).resolved = p.resolved
         /\ RejectItem(p, w).rejected = p.rejected \cup {p.held[w]}
         /\ RejectItem(p, w).promise =
               IF p.promise = "pending" THEN "rejected" ELSE p.promise
<1>1. w \in Workers /\ p.held \in [Workers -> Nat]
  BY DEF Busy, PoolRecords
<1>2. p.held[w] \in Nat
  BY <1>1
<1> DEFINE q == RejectItem(p, w)
<1>3. /\ q.held \in [Workers -> Nat]
      /\ q.rejected \in SUBSET Nat
      /\ q.promise \in {"pending", "resolved", "rejected"}
  BY <1>1, <1>2 DEF RejectItem, PoolRecords, NoItem
<1>4. QED
  BY <1>3 DEF RejectItem, PoolRecords

\* A mapper call that returns keeps the call's record consistent.
LEMMA ResolveItemOK ==
  ASSUME NEW p, PoolOK(p), NEW w \in Busy(p)
  PROVE  PoolOK(ResolveItem(p, w))
<1> DEFINE q == ResolveItem(p, w)
           i == p.held[w]
<1>1. p \in PoolRecords
  BY DEF PoolOK
<1>2. /\ q \in PoolRecords
      /\ q.size = p.size
      /\ q.nextIndex = IF HasNext(p) THEN p.nextIndex + 1 ELSE p.nextIndex
      /\ q.held = [p.held EXCEPT ![w] = Taken(p)]
      /\ q.resolved = p.resolved \cup {i}
      /\ q.rejected = p.rejected
      /\ q.promise = IF p.promise = "pending" /\ Busy(p) = {w} /\ ~HasNext(p)
                     THEN "resolved" ELSE p.promise
  BY <1>1, ResolveFields
<1> HIDE DEF q
<1>3. /\ w \in Workers /\ Busy(p) \subseteq Workers
      /\ p.held \in [Workers -> Nat]
      /\ p.size \in Nat /\ p.nextIndex \in Nat
      /\ p.rejected \subseteq Nat /\ p.resolved \subseteq Nat
      /\ p.promise \in {"pending", "resolved", "rejected"}
      /\ i \in Held(p)
  BY <1>1 DEF Busy, PoolRecords, Held
<1>4. ItemsOnce(p) /\ PromiseTrue(p) /\ GoneHaveThrown(p)
  BY DEF PoolOK
<1>5. \A v \in Workers : q.held[v] = IF v = w THEN Taken(p) ELSE p.held[v]
  BY <1>2, <1>3
<1>6. i # NoItem /\ \A v \in Busy(p) : v # w => p.held[v] # i
  BY <1>3, <1>4 DEF Busy, ItemsOnce
<1>7. CASE HasNext(p)
  <2>1. Taken(p) = p.nextIndex + 1 /\ q.nextIndex = p.nextIndex + 1
    BY <1>2, <1>7 DEF Taken
  <2>2. Busy(q) = Busy(p)
    BY <1>3, <1>5, <2>1 DEF Busy, NoItem
  <2>3. Held(q) = (Held(p) \ {i}) \cup {p.nextIndex + 1}
    BY <1>3, <1>5, <1>6, <2>1, <2>2 DEF Held
  <2>4. \A v \in Busy(p) : p.held[v] \in 1..p.nextIndex
    BY <1>4 DEF ItemsOnce, Held
  <2>5. \A u, v \in Busy(q) : u # v => q.held[u] # q.held[v]
    <3>1. SUFFICES ASSUME NEW u \in Busy(p), NEW v \in Busy(p), u # v
                   PROVE  q.held[u] # q.held[v]
      BY <2>2
    <3>2. p.held[u] # p.held[v]
      BY <1>4, <3>1 DEF ItemsOnce
    <3>3. p.held[u] # p.nextIndex + 1 /\ p.held[v] # p.nextIndex + 1
      BY <1>3, <2>4
    <3>4. QED
      BY <1>3, <1>5, <2>1, <3>1, <3>2, <3>3
  <2>6. 1..q.nextIndex = 1..p.nextIndex \cup {p.nextIndex + 1}
    BY <1>3, <2>1
  <2>7. ~(p.nextIndex + 1 \in 1..p.nextIndex)
    BY <1>3
  <2>8. q.nextIndex <= q.size
    BY <1>2, <1>3, <1>7, <2>1 DEF HasNext
  <2>9. Held(q) \cup q.resolved \cup q.rejected = 1..q.nextIndex
    BY <1>2, <1>3, <1>4, <2>3, <2>6 DEF ItemsOnce
  <2>10. Held(q) \cap (q.resolved \cup q.rejected) = {}
    BY <1>2, <1>3, <1>4, <2>3, <2>7 DEF ItemsOnce
  <2>11. q.resolved \cap q.rejected = {}
    BY <1>2, <1>3, <1>4 DEF ItemsOnce
  <2>12. ItemsOnce(q)
    BY <2>5, <2>8, <2>9, <2>10, <2>11 DEF ItemsOnce
  <2>13. PromiseTrue(q)
    <3>1. q.promise = p.promise
      BY <1>2, <1>7
    <3>2. p.promise # "resolved"
      BY <1>4 DEF PromiseTrue
    <3>3. QED
      BY <1>2, <1>4, <3>1, <3>2 DEF PromiseTrue
  <2>14. GoneHaveThrown(q)
    BY <1>2, <1>4, <1>7, <2>2 DEF GoneHaveThrown, Gone
  <2>15. QED
    BY <1>2, <2>12, <2>13, <2>14 DEF PoolOK, q
<1>8. CASE ~HasNext(p)
  <2>1. Taken(p) = NoItem /\ q.nextIndex = p.nextIndex
    BY <1>2, <1>8 DEF Taken
  <2>2. Busy(q) = Busy(p) \ {w}
    BY <1>3, <1>5, <2>1 DEF Busy
  <2>3. Held(q) = Held(p) \ {i}
    BY <1>3, <1>5, <1>6, <2>2 DEF Held
  <2>4. ItemsOnce(q)
    BY <1>2, <1>3, <1>4, <1>5, <2>1, <2>2, <2>3 DEF ItemsOnce
  <2>5. ~HasNext(q)
    BY <1>2, <1>8, <2>1 DEF HasNext
  <2>6. GoneHaveThrown(q)
    BY <1>2, <1>4, <2>2, <2>5 DEF GoneHaveThrown
  <2>7. p.promise # "resolved"
    BY <1>4 DEF PromiseTrue
  <2>8. ASSUME q.promise = "resolved" PROVE PromiseTrue(q)
    <3>1. p.promise = "pending" /\ Busy(p) = {w}
      BY <1>2, <2>7, <2>8
    <3>2. Busy(q) = {} /\ Held(q) = {}
      BY <2>2, <3>1 DEF Held
    <3>3. p.rejected = {} /\ q.rejected = {}
      BY <1>2, <1>4, <3>1 DEF PromiseTrue
    <3>4. q.resolved = 1..q.nextIndex
      BY <2>4, <3>2, <3>3 DEF ItemsOnce
    <3>5. q.nextIndex = q.size
      BY <1>2, <1>3, <2>4, <2>5 DEF ItemsOnce, HasNext
    <3>6. QED
      BY <2>8, <3>2, <3>3, <3>4, <3>5 DEF PromiseTrue
  <2>9. ASSUME q.promise # "resolved" PROVE PromiseTrue(q)
    BY <1>2, <1>4, <2>9 DEF PromiseTrue
  <2>10. QED
    BY <1>2, <2>4, <2>6, <2>8, <2>9 DEF PoolOK, q
<1>9. QED
  BY <1>7, <1>8 DEF q

\* A mapper call that throws keeps the call's record consistent.
LEMMA RejectItemOK ==
  ASSUME NEW p, PoolOK(p), NEW w \in Busy(p)
  PROVE  PoolOK(RejectItem(p, w))
<1> DEFINE q == RejectItem(p, w)
           i == p.held[w]
<1>1. p \in PoolRecords
  BY DEF PoolOK
<1>2. /\ q \in PoolRecords
      /\ q.size = p.size
      /\ q.nextIndex = p.nextIndex
      /\ q.held = [p.held EXCEPT ![w] = NoItem]
      /\ q.resolved = p.resolved
      /\ q.rejected = p.rejected \cup {i}
      /\ q.promise = IF p.promise = "pending" THEN "rejected" ELSE p.promise
  BY <1>1, RejectFields
<1> HIDE DEF q
<1>3. /\ w \in Workers /\ Busy(p) \subseteq Workers
      /\ p.held \in [Workers -> Nat]
      /\ p.size \in Nat /\ p.nextIndex \in Nat
      /\ p.rejected \subseteq Nat /\ p.resolved \subseteq Nat
      /\ p.promise \in {"pending", "resolved", "rejected"}
      /\ i \in Held(p)
  BY <1>1 DEF Busy, PoolRecords, Held
<1>4. ItemsOnce(p) /\ PromiseTrue(p) /\ GoneHaveThrown(p)
  BY DEF PoolOK
<1>5. \A v \in Workers : q.held[v] = IF v = w THEN NoItem ELSE p.held[v]
  BY <1>2, <1>3
<1>6. i # NoItem /\ \A v \in Busy(p) : v # w => p.held[v] # i
  BY <1>3, <1>4 DEF Busy, ItemsOnce
<1>7. Busy(q) = Busy(p) \ {w}
  BY <1>3, <1>5 DEF Busy
<1>8. Held(q) = Held(p) \ {i}
  BY <1>3, <1>5, <1>6, <1>7 DEF Held
<1>9. ItemsOnce(q)
  BY <1>2, <1>3, <1>4, <1>5, <1>7, <1>8 DEF ItemsOnce
<1>10. PromiseTrue(q)
  BY <1>2, <1>3, <1>4 DEF PromiseTrue
<1>11. GoneHaveThrown(q)
  <2>1. Busy(q) \subseteq Spawned(q.size)
    BY <1>2, <1>4, <1>7 DEF GoneHaveThrown
  <2>2. ASSUME HasNext(q)
        PROVE  Cardinality(q.rejected) = Cardinality(Gone(q))
    <3>1. Cardinality(p.rejected) = Cardinality(Gone(p))
      BY <1>2, <1>4, <2>2 DEF GoneHaveThrown, HasNext
    <3>2. Gone(q) = Gone(p) \cup {w} /\ ~(w \in Gone(p))
      BY <1>2, <1>4, <1>7 DEF Gone, GoneHaveThrown
    <3>3. IsFiniteSet(Gone(p))
      BY <1>3, SpawnedFinite, FS_Subset DEF Gone
    <3>4. IsFiniteSet(p.rejected)
      <4>1. p.rejected \in SUBSET (1..p.nextIndex)
        BY <1>4 DEF ItemsOnce
      <4>2. IsFiniteSet(1..p.nextIndex)
        BY <1>3, FS_Interval
      <4>3. QED
        BY <4>1, <4>2, FS_Subset
    <3>5. ~(i \in p.rejected)
      BY <1>3, <1>4 DEF ItemsOnce
    <3>6. Cardinality(p.rejected \cup {i}) = Cardinality(p.rejected) + 1
      BY <3>4, <3>5, FS_AddElement
    <3>7. Cardinality(Gone(p) \cup {w}) = Cardinality(Gone(p)) + 1
      BY <3>2, <3>3, FS_AddElement
    <3>8. QED
      BY <1>2, <3>1, <3>2, <3>6, <3>7
  <2>3. QED
    BY <2>1, <2>2 DEF GoneHaveThrown
<1>12. QED
  BY <1>2, <1>9, <1>10, <1>11 DEF PoolOK, q
-----------------------------------------------------------------------------
CallInv == PoolOK(call) /\ call.size <= MaxItems

\* The call's record is consistent in every reachable state.
THEOREM Consistent == CallSpec => []CallInv
<1>1. CallInit => CallInv
  <2> SUFFICES ASSUME NEW n \in 0..MaxItems, call = StartPool(n) PROVE CallInv
    BY DEF CallInit
  <2>1. n \in Nat /\ n <= MaxItems
    BY MaxItemsAssumption
  <2>2. PoolOK(call) /\ call.size = n
    BY <2>1, StartPoolOK, StartFields
  <2>3. QED
    BY <2>1, <2>2 DEF CallInv
<1>2. CallInv /\ [CallNext]_call => CallInv'
  <2> SUFFICES ASSUME CallInv, [CallNext]_call PROVE CallInv'
    OBVIOUS
  <2>1. CASE UNCHANGED call
    BY <2>1 DEF CallInv
  <2>2. ASSUME NEW w \in Workers, Resolve(w) PROVE CallInv'
    <3>1. PoolOK(call') /\ call'.size = call.size
      BY <2>2, ResolveItemOK, ResolveFields DEF Resolve, CallInv, PoolOK
    <3>2. QED
      BY <3>1 DEF CallInv
  <2>3. ASSUME NEW w \in Workers, Reject(w) PROVE CallInv'
    <3>1. PoolOK(call') /\ call'.size = call.size
      BY <2>3, RejectItemOK, RejectFields DEF Reject, CallInv, PoolOK
    <3>2. QED
      BY <3>1 DEF CallInv
  <2>4. QED
    BY <2>1, <2>2, <2>3 DEF CallNext
<1>3. QED
  BY <1>1, <1>2, PTL DEF CallSpec

\* The record keeps its type, and the list never grows.
THEOREM TypeCorrect == CallSpec => []TypeOK
<1>1. CallInv => TypeOK
  BY DEF CallInv, PoolOK, TypeOK, PoolRecords, ItemsOnce
<1>2. QED
  BY <1>1, Consistent, PTL

\* No item is mapped twice and none the counter has passed is skipped.
THEOREM ItemsMappedOnce == CallSpec => []EachItemOnce
<1>1. CallInv => EachItemOnce
  BY DEF CallInv, PoolOK, EachItemOnce
<1>2. QED
  BY <1>1, Consistent, PTL

\* The caller is told that the list is done only when it is, and that it failed
\* only when an item did.
THEOREM PromiseCorrect == CallSpec => []PromiseSound
<1>1. CallInv => PromiseSound
  BY DEF CallInv, PoolOK, PromiseSound
<1>2. QED
  BY <1>1, Consistent, PTL

\* After a failure the surviving workers go on to the end of the list.
THEOREM FailureDoesNotStop == CallSpec => []LeftOverOnlyIfAllFailed
<1>1. CallInv => LeftOverOnlyIfAllFailed
  <2> SUFFICES ASSUME CallInv, Busy(call) = {}, HasNext(call)
               PROVE  Cardinality(call.rejected) = Cardinality(Spawned(call.size))
    BY DEF LeftOverOnlyIfAllFailed
  <2>1. Gone(call) = Spawned(call.size)
    BY DEF Gone
  <2>2. QED
    BY <2>1 DEF CallInv, PoolOK, GoneHaveThrown
<1>2. QED
  BY <1>1, Consistent, PTL

\* The caller's answer never changes.
THEOREM AnswerFinal == CallSpec => SettledOnce
<1>1. CallInv /\ [CallNext]_call =>
        [call.promise # "pending" => call'.promise = call.promise]_call
  <2> SUFFICES ASSUME CallInv, [CallNext]_call, call.promise # "pending"
               PROVE  call'.promise = call.promise
    OBVIOUS
  <2>1. ASSUME NEW w \in Workers, Resolve(w)
        PROVE  call'.promise = call.promise
    BY <2>1, ResolveFields DEF Resolve, CallInv, PoolOK
  <2>2. ASSUME NEW w \in Workers, Reject(w)
        PROVE  call'.promise = call.promise
    BY <2>2, RejectFields DEF Reject, CallInv, PoolOK
  <2>3. QED
    BY <2>1, <2>2 DEF CallNext
<1>2. QED
  BY <1>1, Consistent, PTL DEF CallSpec, SettledOnce

\* What the workers hold when one of them, having finished, has taken an item or
\* returned: everybody else still holds what they held.
LEMMA HeldAfterResolve ==
  ASSUME NEW p, PoolOK(p), NEW w \in Busy(p)
  PROVE  Held(ResolveItem(p, w)) =
           (Held(p) \ {p.held[w]}) \cup (IF HasNext(p) THEN {p.nextIndex + 1} ELSE {})
<1> DEFINE q == ResolveItem(p, w)
<1>1. p \in PoolRecords /\ w \in Workers /\ w \in Busy(p)
  BY DEF PoolOK, Busy
<1>2. q.held = [p.held EXCEPT ![w] = Taken(p)] /\ p.held \in [Workers -> Nat]
  BY <1>1, ResolveFields DEF PoolRecords
<1> HIDE DEF q
<1>3. /\ q.held[w] = Taken(p)
      /\ \A v \in Workers : v # w => q.held[v] = p.held[v]
  BY <1>1, <1>2
<1>4. p.nextIndex \in Nat
  BY <1>1 DEF PoolRecords
<1>5. \A v \in Busy(p) : v # w => p.held[v] # p.held[w]
  BY <1>1 DEF PoolOK, ItemsOnce
<1>6. CASE HasNext(p)
  <2>1. q.held[w] = p.nextIndex + 1 /\ p.nextIndex + 1 # NoItem
    BY <1>3, <1>4, <1>6 DEF Taken, NoItem
  <2>2. Busy(q) = Busy(p)
    BY <1>1, <1>3, <2>1 DEF Busy
  <2>3. Held(q) = (Held(p) \ {p.held[w]}) \cup {p.nextIndex + 1}
    BY <1>1, <1>3, <1>5, <2>1, <2>2 DEF Held, Busy
  <2>4. QED
    BY <1>6, <2>3 DEF q
<1>7. CASE ~HasNext(p)
  <2>1. q.held[w] = NoItem
    BY <1>3, <1>7 DEF Taken
  <2>2. Busy(q) = Busy(p) \ {w}
    BY <1>1, <1>3, <2>1 DEF Busy
  <2>3. Held(q) = Held(p) \ {p.held[w]}
    BY <1>1, <1>3, <1>5, <2>2 DEF Held, Busy
  <2>4. QED
    BY <1>7, <2>3 DEF q
<1>8. QED
  BY <1>6, <1>7

\* A worker that has thrown holds nothing any more.
LEMMA HeldAfterReject ==
  ASSUME NEW p, PoolOK(p), NEW w \in Busy(p)
  PROVE  Held(RejectItem(p, w)) = Held(p) \ {p.held[w]}
<1> DEFINE q == RejectItem(p, w)
<1>1. p \in PoolRecords /\ w \in Workers /\ w \in Busy(p)
  BY DEF PoolOK, Busy
<1>2. q.held = [p.held EXCEPT ![w] = NoItem] /\ p.held \in [Workers -> Nat]
  BY <1>1, RejectFields DEF PoolRecords
<1> HIDE DEF q
<1>3. /\ q.held[w] = NoItem
      /\ \A v \in Workers : v # w => q.held[v] = p.held[v]
  BY <1>1, <1>2
<1>4. \A v \in Busy(p) : v # w => p.held[v] # p.held[w]
  BY <1>1 DEF PoolOK, ItemsOnce
<1>5. Busy(q) = Busy(p) \ {w}
  BY <1>1, <1>3 DEF Busy
<1>6. Held(q) = Held(p) \ {p.held[w]}
  BY <1>1, <1>3, <1>4, <1>5 DEF Held, Busy
<1>7. QED
  BY <1>6 DEF q

\* The list is done with the item of w exactly when w is the last busy worker,
\* finds no other item, and nobody has thrown.
LEMMA LastResolves ==
  ASSUME NEW p, PoolOK(p), NEW w \in Busy(p)
  PROVE  (p.promise = "pending" /\ Busy(p) = {w} /\ ~HasNext(p))
            <=> p.resolved \cup {p.held[w]} = 1..p.size
<1> DEFINE i == p.held[w]
<1>1. /\ p \in PoolRecords
      /\ ItemsOnce(p)
      /\ PromiseTrue(p)
      /\ p.size \in Nat /\ p.nextIndex \in Nat /\ p.nextIndex <= p.size
      /\ p.promise \in {"pending", "resolved", "rejected"}
  BY DEF PoolOK, PoolRecords, ItemsOnce
<1>2. i \in Held(p) /\ i \notin p.resolved /\ i \notin p.rejected
  BY <1>1 DEF Held, ItemsOnce
<1>3. /\ Held(p) \cup p.resolved \cup p.rejected = 1..p.nextIndex
      /\ Held(p) \cap (p.resolved \cup p.rejected) = {}
      /\ p.resolved \cap p.rejected = {}
  BY <1>1 DEF ItemsOnce
<1>4. ASSUME p.promise = "pending", Busy(p) = {w}, ~HasNext(p)
      PROVE  p.resolved \cup {i} = 1..p.size
  <2>1. Held(p) = {i} /\ p.rejected = {} /\ p.nextIndex = p.size
    BY <1>1, <1>4 DEF Held, PromiseTrue, HasNext
  <2>2. QED
    BY <1>3, <2>1
<1>5. ASSUME p.resolved \cup {i} = 1..p.size
      PROVE  p.promise = "pending" /\ Busy(p) = {w} /\ ~HasNext(p)
  <2>1. 1..p.nextIndex \subseteq 1..p.size
    BY <1>1
  <2>2. p.rejected \subseteq p.resolved \cup {i} /\ Held(p) \subseteq p.resolved \cup {i}
    BY <1>3, <1>5, <2>1
  <2>3. p.rejected = {} /\ Held(p) = {i}
    BY <1>2, <1>3, <2>2
  <2>4. \A v \in Busy(p) : p.held[v] = i
    BY <2>3 DEF Held
  <2>5. Busy(p) = {w}
    BY <1>1, <2>4 DEF ItemsOnce
  <2>6. p.promise = "pending"
    BY <1>1, <2>3, <2>5 DEF PromiseTrue
  <2>7. ~HasNext(p)
    <3>1. SUFFICES ASSUME p.nextIndex < p.size PROVE FALSE
      BY DEF HasNext
    <3>2. p.size \in p.resolved \cup {i}
      BY <1>1, <1>5, <3>1
    <3>3. p.size \in 1..p.nextIndex
      BY <1>2, <1>3, <3>2
    <3>4. QED
      BY <1>1, <3>1, <3>3
  <2>8. QED
    BY <2>5, <2>6, <2>7
<1>6. QED
  BY <1>4, <1>5

\* A call begins with the first items held, as many as there are workers.
LEMMA HeldAtStart ==
  ASSUME NEW n \in Nat
  PROVE  Held(StartPool(n)) = 1..StartPool(n).nextIndex
<1> DEFINE p == StartPool(n)
<1>1. /\ p.held = [w \in Workers |-> IF w \in Spawned(n) THEN w ELSE NoItem]
      /\ p.nextIndex = IF n <= Concurrency THEN n ELSE Concurrency
  BY StartFields
<1> HIDE DEF p
<1>2. Busy(p) = Spawned(n)
  BY <1>1, ConcurrencyAssumption DEF Busy, Spawned, Workers, NoItem
<1>3. \A w \in Busy(p) : p.held[w] = w
  BY <1>1, <1>2 DEF Spawned
<1>4. Held(p) = Busy(p)
  BY <1>3 DEF Held
<1>5. Spawned(n) = 1..p.nextIndex
  BY <1>1, ConcurrencyAssumption DEF Spawned, Workers
<1>6. QED
  BY <1>2, <1>4, <1>5 DEF p

\* The workers and their counter implement the map without workers: every step
\* of a worker is the step of the item it holds.
THEOREM MapImplemented == CallSpec => ImplementsMap
<1>1. CallInit => Map!Init
  <2> SUFFICES ASSUME NEW n \in 0..MaxItems, call = StartPool(n) PROVE Map!Init
    BY DEF CallInit
  <2>1. n \in Nat
    BY MaxItemsAssumption
  <2>2. /\ call.size = n
        /\ call.nextIndex = IF n <= Concurrency THEN n ELSE Concurrency
        /\ call.resolved = {} /\ call.rejected = {}
        /\ call.promise = IF n = 0 THEN "resolved" ELSE "pending"
    BY <2>1, StartFields
  <2>3. Held(call) = 1..call.nextIndex
    BY <2>1, HeldAtStart
  <2>4. QED
    BY <2>2, <2>3 DEF Map!Init
<1>2. CallInv /\ [CallNext]_call => [Map!Next]_(Map!vars)
  <2> SUFFICES ASSUME CallInv, [CallNext]_call PROVE [Map!Next]_(Map!vars)
    OBVIOUS
  <2>1. CASE UNCHANGED call
    BY <2>1 DEF Map!vars, Held, Busy
  <2>2. ASSUME NEW w \in Workers, Resolve(w) PROVE Map!Next
    <3> DEFINE i == call.held[w]
    <3>1. /\ w \in Busy(call) /\ PoolOK(call) /\ call \in PoolRecords
          /\ i \in Held(call)
      BY <2>2 DEF Resolve, CallInv, PoolOK, Held
    <3>2. /\ call'.size = call.size
          /\ call'.nextIndex = IF HasNext(call) THEN call.nextIndex + 1 ELSE call.nextIndex
          /\ call'.resolved = call.resolved \cup {i}
          /\ call'.rejected = call.rejected
          /\ call'.promise = IF call.promise = "pending" /\ Busy(call) = {w} /\ ~HasNext(call)
                             THEN "resolved" ELSE call.promise
      BY <2>2, <3>1, ResolveFields DEF Resolve
    <3>3. Held(call') = (Held(call) \ {i}) \cup (IF HasNext(call) THEN {call.nextIndex + 1} ELSE {})
      BY <2>2, <3>1, HeldAfterResolve DEF Resolve
    <3>4. call'.promise = IF call'.resolved = 1..call.size THEN "resolved" ELSE call.promise
      BY <3>1, <3>2, LastResolves
    <3> HIDE DEF i
    <3>5. Held(call)' = (Held(call) \ {i}) \cup Map!Successor
      BY <3>3 DEF Map!Successor, HasNext, Held, Busy
    <3>6. Map!Succeed(i)
      BY <3>1, <3>2, <3>4, <3>5 DEF Map!Succeed, HasNext
    <3>7. QED
      BY <3>1, <3>6 DEF Map!Next
  <2>3. ASSUME NEW w \in Workers, Reject(w) PROVE Map!Next
    <3> DEFINE i == call.held[w]
    <3>1. /\ w \in Busy(call) /\ PoolOK(call) /\ call \in PoolRecords
          /\ i \in Held(call)
      BY <2>3 DEF Reject, CallInv, PoolOK, Held
    <3>2. /\ call'.size = call.size
          /\ call'.nextIndex = call.nextIndex
          /\ call'.resolved = call.resolved
          /\ call'.rejected = call.rejected \cup {i}
          /\ call'.promise = IF call.promise = "pending" THEN "rejected" ELSE call.promise
      BY <2>3, <3>1, RejectFields DEF Reject
    <3>3. Held(call') = Held(call) \ {i}
      BY <2>3, <3>1, HeldAfterReject DEF Reject
    <3>4. call.promise # "resolved"
      \* a resolved call has no busy worker left
      BY <3>1 DEF PoolOK, PromiseTrue
    <3>5. call'.promise = "rejected"
      BY <3>1, <3>2, <3>4 DEF PoolRecords
    <3> HIDE DEF i
    <3>6. Held(call)' = Held(call) \ {i}
      BY <3>3 DEF Held, Busy
    <3>7. Map!Fail(i)
      BY <3>1, <3>2, <3>5, <3>6 DEF Map!Fail
    <3>8. QED
      BY <3>1, <3>7 DEF Map!Next
  <2>4. QED
    BY <2>1, <2>2, <2>3 DEF CallNext
<1>3. QED
  BY <1>1, <1>2, Consistent, PTL DEF CallSpec, ImplementsMap, Map!Spec
-----------------------------------------------------------------------------
\* The import.

Working == {"idle", "params", "create", "attrs", "map", "refetch"}
Labels == Working \cup {"summary", "closing"} \cup Ended

Messages == [type : {"progress", "done", "error"}, current : Nat]

Functions ==
    /\ pc = [i \in Imports |-> pc[i]] /\ group = [i \in Imports |-> group[i]]
    /\ pool = [i \in Imports |-> pool[i]] /\ made = [i \in Imports |-> made[i]]
    /\ events = [i \in Imports |-> events[i]]

Typed(i) ==
    /\ pc[i] \in Labels
    /\ group[i] \in Nat /\ group[i] \in Groups(i)
    /\ PoolOK(pool[i])
    /\ made[i] \in Seq(ProductIds)
    /\ events[i] \in Seq(Messages)

Types ==
    /\ Functions
    /\ products \subseteq ProductIds
    /\ variants = [p \in ProductIds |-> variants[p]]
    /\ \A p \in ProductIds : variants[p] \in [RowsOf(p) -> Nat]
    /\ \A i \in Imports : Typed(i)
-----------------------------------------------------------------------------
(* The kinds of steps, and what each does to what the properties are about. *)

SameRows == UNCHANGED <<products, variants, auditLog>>

Others(i) == \A j \in Imports : j # i =>
    /\ pc'[j] = pc[j] /\ group'[j] = group[j] /\ pool'[j] = pool[j]
    /\ made'[j] = made[j] /\ events'[j] = events[j]

\* Attributes, images, checks: nothing that is told or kept.
Stays(i) ==
    /\ pc'[i] = pc[i] \/ (pc[i] = "params" /\ pc'[i] = "create")
    /\ group'[i] = group[i] /\ pool'[i] = pool[i] /\ made'[i] = made[i]
    /\ events'[i] = events[i] /\ SameRows

Begins(i) ==
    /\ pc[i] = "idle" /\ pc'[i] = "params" /\ group'[i] = 1
    /\ pool'[i] = pool[i] /\ made'[i] = made[i] /\ events'[i] = events[i] /\ SameRows

Fails(i) ==
    /\ pc[i] \in Working \ {"map"} /\ pc'[i] = "error"
    /\ events'[i] = Append(events[i], Error)
    /\ group'[i] = group[i] /\ pool'[i] = pool[i] /\ made'[i] = made[i] /\ SameRows

Creates(i) ==
    /\ pc[i] = "create"
    /\ \/ pc'[i] = "attrs" /\ events'[i] = events[i]
       \/ pc'[i] = "error" /\ events'[i] = Append(events[i], Error)
    /\ SlugOf(Current(i)) \notin {SlugOf(p) : p \in products}
    /\ products' = products \cup {Current(i)}
    /\ auditLog' = auditLog \cup {Created(Current(i))}
    /\ variants' = variants
    /\ group'[i] = group[i] /\ pool'[i] = pool[i] /\ made'[i] = made[i]

Maps(i) ==
    /\ pc[i] = "attrs" /\ pc'[i] = "map"
    /\ pool'[i] = StartPool(Len(File[i][group[i]].rows))
    /\ group'[i] = group[i] /\ made'[i] = made[i] /\ events'[i] = events[i] /\ SameRows

Adds(i, w) ==
    /\ Current(i) \in products
    /\ variants' = [variants EXCEPT ![Current(i)][pool[i].held[w]] = @ + 1]

Inserts(i, w) ==
    /\ w \in Busy(pool[i]) /\ Adds(i, w)
    /\ pool'[i] = ResolveItem(pool[i], w)
    /\ pc'[i] = IF pool[i].promise = "pending" /\ pool'[i].promise = "resolved"
                THEN "refetch" ELSE pc[i]
    /\ products' = products /\ auditLog' = auditLog
    /\ group'[i] = group[i] /\ made'[i] = made[i] /\ events'[i] = events[i]

Rejects(i, w) ==
    /\ w \in Busy(pool[i])
    /\ pool'[i] = RejectItem(pool[i], w)
    /\ IF pool[i].promise = "pending"
       THEN pc'[i] = "error" /\ events'[i] = Append(events[i], Error)
       ELSE pc'[i] = pc[i] /\ events'[i] = events[i]
    /\ Adds(i, w) \/ variants' = variants
    /\ products' = products /\ auditLog' = auditLog
    /\ group'[i] = group[i] /\ made'[i] = made[i]

Reports(i) ==
    /\ pc[i] = "refetch" /\ Current(i) \in products
    /\ made'[i] = Append(made[i], Current(i))
    /\ events'[i] = Append(events[i], Progress(group[i]))
    /\ IF group[i] < Len(File[i])
       THEN pc'[i] = "params" /\ group'[i] = group[i] + 1
       ELSE pc'[i] = "summary" /\ group'[i] = group[i]
    /\ pool'[i] = pool[i] /\ SameRows

Summarises(i) ==
    /\ pc[i] = "summary" /\ pc'[i] = "closing" /\ events'[i] = events[i]
    /\ auditLog' = auditLog \/ auditLog' = auditLog \cup {Imported(i, made[i])}
    /\ products' = products /\ variants' = variants
    /\ group'[i] = group[i] /\ pool'[i] = pool[i] /\ made'[i] = made[i]

Finishes(i) ==
    /\ pc[i] = "closing" /\ pc'[i] = "done"
    /\ events'[i] = Append(events[i], Done(Len(made[i])))
    /\ group'[i] = group[i] /\ pool'[i] = pool[i] /\ made'[i] = made[i] /\ SameRows

Deletes(p) ==
    /\ p \in products
    /\ products' = products \ {p}
    /\ variants' = [variants EXCEPT ![p] = [r \in RowsOf(p) |-> 0]]
    /\ auditLog' = auditLog \cup {Deleted(p)}
    /\ UNCHANGED <<pc, group, pool, made, events>>

Crashes ==
    /\ \A i \in Imports :
          /\ pc'[i] = IF pc[i] \in Ended \cup {"idle"} THEN pc[i] ELSE "lost"
          /\ pool'[i] = StartPool(0)
    /\ SameRows /\ UNCHANGED <<group, made, events>>

Moves(i) ==
    \/ Stays(i) \/ Begins(i) \/ Fails(i) \/ Creates(i) \/ Maps(i)
    \/ Reports(i) \/ Summarises(i) \/ Finishes(i)
    \/ \E w \in Workers : Inserts(i, w) \/ Rejects(i, w)

\* A step of the generator that is not a worker's.
LEMMA GeneratorMoves ==
  ASSUME Types, NEW i \in Imports, Begin(i) \/ Refuse(i) \/ Fetch(i) \/ Step(i)
  PROVE  Moves(i) /\ Others(i) /\ Functions'
<1> USE DEF Types, Functions, Others, Moves, Goto, Send
<1>1. CASE Begin(i)
  BY <1>1 DEF Begin, Begins, EnterGroup, SameRows, db
<1>2. CASE Refuse(i)
  BY <1>2 DEF Refuse, Fail, Fails, SameRows, db, Working
<1>3. CASE FindAttribute(i)
  BY <1>3 DEF FindAttribute, Fail, Fails, Stays, SameRows, db, Working
<1>4. CASE CreateAttribute(i)
  BY <1>4 DEF CreateAttribute, Fail, Fails, Stays, SameRows, Working
<1>5. CASE FetchProductImage(i)
  BY <1>5 DEF FetchProductImage, Fail, Fails, Stays, SameRows, db, Working
<1>6. CASE CreateProduct(i)
  BY <1>6 DEF CreateProduct, InsertProduct, Creates
<1>7. CASE CreateProductFails(i)
  BY <1>7 DEF CreateProductFails, InsertProduct, Creates, Fail, Fails, SameRows, db, Working
<1>8. CASE FetchRow(i)
  BY <1>8 DEF FetchRow, Fail, Fails, Maps, Stays, SameRows, db, Working
<1>9. CASE Report(i)
  BY <1>9 DEF Report, Reports, EnterGroup, SameRows, db
<1>10. CASE ReportFails(i)
  BY <1>10 DEF ReportFails, Fail, Fails, SameRows, db, Working
<1>11. CASE Finish(i)
  BY <1>11 DEF Finish, Finishes, SameRows, db
<1>12. CASE Summarise(i)
  BY <1>12 DEF Summarise, Summarises
<1>13. QED
  BY <1>1, <1>2, <1>3, <1>4, <1>5, <1>6, <1>7, <1>8, <1>9, <1>10, <1>11, <1>12 DEF Step, Fetch

\* A worker's step.
LEMMA WorkerMoves ==
  ASSUME Types, NEW i \in Imports, NEW w \in Workers, Work(i, w)
  PROVE  Moves(i) /\ Others(i) /\ Functions'
<1> USE DEF Types, Functions, Others, Moves, Goto, Send
<1>1. CASE CheckProduct(i, w)
  BY <1>1 DEF CheckProduct, Stays, SameRows, db
<1>2. CASE InsertVariant(i, w)
  BY <1>2 DEF InsertVariant, Inserts, Adds
<1>3. CASE FailVariant(i, w)
  BY <1>3 DEF FailVariant, Fail, Rejects, Adds
<1>4. QED
  BY <1>1, <1>2, <1>3 DEF Work

\* Every step is one import's, an administrator's, a restart, or nothing to us.
LEMMA StepIs ==
  ASSUME Types, [Next]_vars
  PROVE  /\ Functions'
         /\ \/ \E i \in Imports : Moves(i) /\ Others(i)
            \/ \E p \in ProductIds : Deletes(p)
            \/ Crashes
            \/ SameRows /\ UNCHANGED <<pc, group, pool, made, events>>
<1>1. CASE UNCHANGED vars
  BY <1>1 DEF vars, SameRows, Types, Functions
<1>2. ASSUME NEW i \in Imports, Begin(i) \/ Refuse(i) \/ Fetch(i) \/ Step(i)
      PROVE  Moves(i) /\ Others(i) /\ Functions'
  BY <1>2, GeneratorMoves
<1>3. ASSUME NEW i \in Imports, NEW w \in Workers, Work(i, w)
      PROVE  Moves(i) /\ Others(i) /\ Functions'
  BY <1>3, WorkerMoves
<1>4. ASSUME NEW p \in ProductIds, DeleteProduct(p)
      PROVE  Deletes(p) /\ Functions'
  BY <1>4 DEF DeleteProduct, Deletes, Types, Functions
<1>5. ASSUME Crash PROVE Crashes /\ Functions'
  BY <1>5 DEF Crash, Crashes, SameRows, db, Types, Functions
<1>6. QED
  BY <1>1, <1>2, <1>3, <1>4, <1>5 DEF Next
-----------------------------------------------------------------------------
\* The events of the log are told apart by what they are about.
LEMMA EventsApart ==
  /\ \A p, q : Created(p) = Created(q) => p = q
  /\ \A p, q : Deleted(p) = Deleted(q) => p = q
  /\ \A p, q : Created(p) # Deleted(q)
  /\ \A p, i, ps : Created(p) # Imported(i, ps) /\ Deleted(p) # Imported(i, ps)
<1>1. ASSUME NEW p, NEW q, Created(p) = Created(q) PROVE p = q
  <2>1. Created(p).products = Created(q).products
    BY <1>1
  <2>2. <<p>> = <<q>>
    BY <2>1 DEF Created
  <2>3. QED
    BY <2>2
<1>2. ASSUME NEW p, NEW q, Deleted(p) = Deleted(q) PROVE p = q
  <2>1. Deleted(p).products = Deleted(q).products
    BY <1>2
  <2>2. <<p>> = <<q>>
    BY <2>1 DEF Deleted
  <2>3. QED
    BY <2>2
<1>3. ASSUME NEW p, NEW q PROVE Created(p) # Deleted(q)
  <2>1. Created(p).action = "product.created" /\ Deleted(q).action = "product.deleted"
    BY DEF Created, Deleted
  <2>2. QED
    BY <2>1
<1>4. ASSUME NEW p, NEW i, NEW ps PROVE Created(p) # Imported(i, ps) /\ Deleted(p) # Imported(i, ps)
  <2>1. /\ Created(p).action = "product.created" /\ Deleted(p).action = "product.deleted"
        /\ Imported(i, ps).action = "products.imported"
    BY DEF Created, Deleted, Imported
  <2>2. QED
    BY <2>1
<1>5. QED
  BY <1>1, <1>2, <1>3, <1>4

\* Names of products tell import and group.
LEMMA NamesApart ==
  /\ \A i \in Imports : \A g \in Groups(i) :
        <<i, g>> \in ProductIds /\ ImportOf(<<i, g>>) = i /\ GroupOf(<<i, g>>) = g
  /\ \A p \in ProductIds : \E i \in Imports : \E g \in Groups(i) : p = <<i, g>>
  /\ \A i, j, g, h : <<i, g>> = <<j, h>> => i = j /\ g = h
  BY DEF ProductIds, ImportOf, GroupOf

\* Where an import stands: what it has created and reported, and when its workers
\* may be at work.
Position(i) ==
    /\ pc[i] = "idle" => group[i] = 1
    /\ \A g \in Groups(i) : Created(<<i, g>>) \in auditLog =>
          g < group[i] \/ (g = group[i] /\ pc[i] \notin {"idle", "params", "create"})
    /\ pc[i] \in Working \cup {"error"} => Len(made[i]) = group[i] - 1
    /\ pc[i] \in {"summary", "closing", "done"} =>
          Len(made[i]) = group[i] /\ group[i] = Len(File[i])
    /\ Len(made[i]) \in {group[i] - 1, group[i]}
    /\ \A n \in 1 .. Len(made[i]) : made[i][n] = <<i, n>> /\ Created(<<i, n>>) \in auditLog
    /\ pool[i].promise = "pending" => pc[i] = "map"
    /\ Busy(pool[i]) # {} => pc[i] \in {"map", "error"}

\* The log is right about the products there are, and their slugs differ.
LogRight ==
    /\ LogExplainsProducts
    /\ \A p, q \in products : SlugOf(p) = SlugOf(q) => p = q

\* An import that has reported the whole of its file, and not ended with an error.
Through(i) == pc[i] \in {"closing", "done", "lost"} /\ Len(made[i]) = Len(File[i])

\* The summary events are right, and nobody has written one who did not get through.
Summaries ==
    \A d \in auditLog : d.action = "products.imported" =>
        \A i \in Imports : d.batch = i => Through(i) /\ d.products = made[i]

\* The stream of an import.
Stream(i) ==
    /\ \A k \in 1 .. Len(made[i]) : events[i][k] = Progress(k)
    /\ Len(events[i]) = Len(made[i]) + (IF pc[i] \in {"done", "error"} THEN 1 ELSE 0)
    /\ pc[i] = "error" => events[i][Len(made[i]) + 1] = Error
    /\ pc[i] = "done" => events[i][Len(made[i]) + 1] = Done(Len(made[i]))

\* The types hold on, import by import.
LEMMA TypedKept ==
  ASSUME Types, NEW i \in Imports, Moves(i), Position(i)
  PROVE  Typed(i)' /\ products' \subseteq ProductIds
<1> USE DEF Typed
<1>0. Typed(i) /\ Current(i) \in ProductIds /\ products \subseteq ProductIds
  BY NamesApart DEF Types, Current
<1>1. CASE Stays(i)
  BY <1>0, <1>1 DEF Stays, SameRows, Labels, Working
<1>2. CASE Begins(i)
  BY <1>0, <1>2, FileAssumption DEF Begins, SameRows, Labels, Working, Groups
<1>3. CASE Fails(i)
  BY <1>0, <1>3 DEF Fails, SameRows, Labels, Working, Ended, Error, Messages
<1>4. CASE Creates(i)
  <2>1. pc'[i] \in Labels /\ Error \in Messages
    BY <1>4 DEF Creates, Labels, Working, Ended, Error, Messages
  <2>2. events'[i] \in Seq(Messages)
    <3>1. events'[i] = events[i] \/ events'[i] = Append(events[i], Error)
      BY <1>4 DEF Creates
    <3> DEFINE e == events[i]
    <3>2. e \in Seq(Messages)
      BY <1>0
    <3> HIDE DEF e
    <3>3. Append(e, Error) \in Seq(Messages)
      BY <2>1, <3>2
    <3>4. QED
      BY <3>1, <3>2, <3>3 DEF e
  <2>3. QED
    BY <1>0, <1>4, <2>1, <2>2 DEF Creates
<1>5. CASE Maps(i)
  BY <1>0, <1>5, StartPoolOK, FileAssumption DEF Maps, SameRows, Labels, Working
<1>6. CASE Reports(i)
  BY <1>0, <1>6 DEF Reports, SameRows, Labels, Working, Groups, Progress, Messages
<1>7. CASE Finishes(i)
  BY <1>0, <1>7 DEF Finishes, SameRows, Labels, Ended, Done, Messages
<1>8. ASSUME NEW w \in Workers, Inserts(i, w) PROVE Typed(i)' /\ products' \subseteq ProductIds
  BY <1>0, <1>8, ResolveItemOK DEF Inserts, Labels, Working
<1>9. ASSUME NEW w \in Workers, Rejects(i, w) PROVE Typed(i)' /\ products' \subseteq ProductIds
  <2>1. PoolOK(pool'[i])
    BY <1>0, <1>9, RejectItemOK DEF Rejects
  <2>2. pc'[i] \in Labels
    BY <1>0, <1>9 DEF Rejects, Labels, Ended
  <2>3. Error \in Messages
    BY DEF Error, Messages
  <2>4. events'[i] \in Seq(Messages)
    <3>1. CASE pool[i].promise = "pending"
      <4>1. events'[i] = Append(events[i], Error)
        BY <1>9, <3>1 DEF Rejects
      <4>2. QED
        BY <1>0, <2>3, <4>1
    <3>2. CASE pool[i].promise # "pending"
      BY <1>0, <1>9, <3>2 DEF Rejects
    <3>3. QED
      BY <3>1, <3>2
  <2>5. QED
    BY <1>0, <1>9, <2>1, <2>2, <2>4 DEF Rejects
<1>10. CASE Summarises(i)
  BY <1>0, <1>10 DEF Summarises, Labels
<1>11. QED
  BY <1>1, <1>2, <1>3, <1>4, <1>5, <1>6, <1>7, <1>8, <1>9, <1>10 DEF Moves

\* What a step of import i leaves of another import's state.
LEMMA OtherTyped ==
  ASSUME NEW i \in Imports, NEW j \in Imports, i # j, Others(i), Typed(j)
  PROVE  Typed(j)'
  BY DEF Others, Typed

\* No step but a worker's and a deletion changes the counts of variants.
LEMMA VariantsTyped ==
  ASSUME Types, [Next]_vars
  PROVE  /\ variants' = [p \in ProductIds |-> variants'[p]]
         /\ \A p \in ProductIds : variants'[p] \in [RowsOf(p) -> Nat]
<1> USE DEF Types
<1>1. CASE variants' = variants
  BY <1>1
<1>2. ASSUME NEW i \in Imports, NEW w \in Workers, Adds(i, w)
      PROVE  /\ variants' = [p \in ProductIds |-> variants'[p]]
             /\ \A p \in ProductIds : variants'[p] \in [RowsOf(p) -> Nat]
  <2> DEFINE r == pool[i].held[w]
             q == Current(i)
  <2>1. variants' = [variants EXCEPT ![q][r] = @ + 1] /\ q \in ProductIds
    BY <1>2 DEF Adds
  <2> HIDE DEF r, q
  <2>2. \A p \in ProductIds : p # q => variants'[p] = variants[p]
    BY <2>1
  <2>3. variants'[q] = [variants[q] EXCEPT ![r] = @ + 1]
    BY <2>1
  <2>4. variants'[q] \in [RowsOf(q) -> Nat]
    <3>1. variants[q] \in [RowsOf(q) -> Nat]
      BY <2>1
    <3> DEFINE v == variants[q]
    <3> HIDE DEF v
    <3>2. v \in [RowsOf(q) -> Nat] /\ variants'[q] = [v EXCEPT ![r] = @ + 1]
      BY <2>3, <3>1 DEF v
    <3>3. CASE r \in RowsOf(q)
      BY <3>2, <3>3
    <3>4. CASE r \notin RowsOf(q)
      <4>1. [v EXCEPT ![r] = @ + 1] = v
        BY <3>2, <3>4
      <4>2. QED
        BY <3>2, <4>1
    <3>5. QED
      BY <3>3, <3>4
  <2>5. variants' = [p \in ProductIds |-> variants'[p]]
    BY <2>1
  <2>6. QED
    BY <2>2, <2>4, <2>5
<1>3. ASSUME NEW q \in ProductIds, Deletes(q)
      PROVE  /\ variants' = [p \in ProductIds |-> variants'[p]]
             /\ \A p \in ProductIds : variants'[p] \in [RowsOf(p) -> Nat]
  BY <1>3 DEF Deletes
<1>4. QED
  BY <1>1, <1>2, <1>3, StepIs DEF Moves, Stays, Begins, Fails, Creates, Maps, Inserts, Rejects,
     Reports, Summarises, Finishes, Crashes, SameRows
-----------------------------------------------------------------------------
\* What a step of an import adds to the log: its product's creation, when it creates
\* it, and perhaps its summary.
LEMMA LogGrows ==
  ASSUME NEW i \in Imports, Moves(i)
  PROVE  /\ auditLog \subseteq auditLog'
         /\ \A p : Created(p) \in auditLog' =>
                Created(p) \in auditLog \/ (Creates(i) /\ p = Current(i))
         /\ \A p : Deleted(p) \in auditLog' => Deleted(p) \in auditLog
<1>1. \/ auditLog' = auditLog
      \/ Creates(i) /\ auditLog' = auditLog \cup {Created(Current(i))}
      \/ auditLog' = auditLog \cup {Imported(i, made[i])}
  BY DEF Moves, Stays, Begins, Fails, Creates, Maps, Inserts, Rejects, Reports, Summarises,
     Finishes, SameRows
<1>2. QED
  BY <1>1, EventsApart

\* What a worker leaves of its pool, as far as Position goes.
LEMMA PoolMoves ==
  ASSUME NEW p, PoolOK(p), NEW w \in Busy(p)
  PROVE  /\ ResolveItem(p, w).promise = "resolved" => Busy(ResolveItem(p, w)) = {}
         /\ ResolveItem(p, w).promise = "pending" => p.promise = "pending"
         /\ RejectItem(p, w).promise # "pending"
<1>1. p \in PoolRecords
  BY DEF PoolOK
<1>2. PoolOK(ResolveItem(p, w))
  BY ResolveItemOK
<1>3. QED
  BY <1>1, <1>2, ResolveFields, RejectFields DEF PoolOK, PromiseTrue

\* The step of an import keeps its own position.
LEMMA OwnPosition ==
  ASSUME Types, NEW i \in Imports, Position(i), LogRight, Moves(i)
  PROVE  Position(i)'
<1> USE DEF Position
<1>0. Typed(i)
  BY DEF Types
<1>a. /\ auditLog \subseteq auditLog'
      /\ \A g \in Groups(i) : Created(<<i, g>>) \in auditLog' =>
            Created(<<i, g>>) \in auditLog \/ (Creates(i) /\ g = group[i])
  BY LogGrows, NamesApart DEF Current
<1>1. CASE Stays(i)
  BY <1>0, <1>a, <1>1 DEF Stays, Typed, Creates, Working, Labels
<1>2. CASE Begins(i)
  BY <1>0, <1>a, <1>2 DEF Begins, Typed, Creates, Working
<1>3. CASE Fails(i)
  BY <1>0, <1>a, <1>3 DEF Fails, Typed, Creates, Working
<1>4. CASE Creates(i)
  BY <1>0, <1>a, <1>4 DEF Creates, Typed, Working
<1>5. CASE Maps(i)
  BY <1>0, <1>a, <1>5 DEF Maps, Typed, Creates, Working
<1>7. CASE Finishes(i)
  BY <1>0, <1>a, <1>7 DEF Finishes, SameRows, Typed, Creates, Working
<1>6. CASE Summarises(i)
  BY <1>0, <1>a, <1>6 DEF Summarises, Typed, Creates, Working
<1>8. ASSUME NEW w \in Workers, Inserts(i, w) PROVE Position(i)'
  BY <1>0, <1>a, <1>8, PoolMoves DEF Inserts, Typed, Creates, Working
<1>9. ASSUME NEW w \in Workers, Rejects(i, w) PROVE Position(i)'
  BY <1>0, <1>a, <1>9, PoolMoves DEF Rejects, Typed, Creates, Working
<1>10. CASE Reports(i)
  <2>1. /\ pc[i] = "refetch" /\ Len(made[i]) = group[i] - 1
        /\ pool[i].promise # "pending" /\ Busy(pool[i]) = {}
    BY <1>10 DEF Reports, Working
  <2>2. Created(<<i, group[i]>>) \in auditLog
    BY <1>0, <1>10, NamesApart DEF Reports, LogRight, LogExplainsProducts, Current, Typed
  <2> DEFINE m == made[i]
             g == group[i]
  <2>3. /\ m \in Seq(ProductIds) /\ Current(i) \in ProductIds /\ g \in Groups(i) /\ Len(m) = g - 1
        /\ Current(i) = <<i, g>> /\ made'[i] = Append(m, Current(i)) /\ g \in Nat
    BY <1>0, <1>10, <2>1, NamesApart DEF Reports, Typed, Current
  <2>4. \A n \in 1 .. Len(m) : m[n] = <<i, n>> /\ Created(<<i, n>>) \in auditLog'
    BY <1>a
  <2> HIDE DEF m
  <2>5. /\ Len(made'[i]) = g /\ made'[i][g] = Current(i)
        /\ \A n \in 1 .. g - 1 : made'[i][n] = m[n]
    BY <2>3
  <2>6. \A n \in 1 .. g : made'[i][n] = <<i, n>> /\ Created(<<i, n>>) \in auditLog'
    <3>1. ASSUME NEW n \in 1 .. g PROVE n \in 1 .. g - 1 \/ n = g
      BY <2>3
    <3>2. Created(<<i, g>>) \in auditLog'
      BY <1>a, <2>2
    <3>3. QED
      BY <2>3, <2>4, <2>5, <3>1, <3>2
  <2>7. /\ pool'[i] = pool[i] /\ ~Creates(i) /\ pc[i] \notin {"idle", "params", "create"}
        /\ \/ pc'[i] = "params" /\ group'[i] = g + 1
           \/ pc'[i] = "summary" /\ group'[i] = g /\ g = Len(File[i])
    BY <1>10, <2>1, <2>3, FileAssumption DEF Reports, Creates, Groups
  <2> HIDE DEF g
  <2>8. \A h \in Groups(i) : Created(<<i, h>>) \in auditLog' => h <= g
    <3>1. \A h \in Groups(i) : Created(<<i, h>>) \in auditLog => h < g \/ h = g
      BY DEF g
    <3>2. QED
      BY <1>a, <2>3, <2>7, <3>1 DEF Groups
  <2>9. CASE pc'[i] = "params" /\ group'[i] = g + 1
    BY <2>1, <2>3, <2>5, <2>6, <2>7, <2>8, <2>9 DEF Working, Groups
  <2>10. CASE pc'[i] = "summary" /\ group'[i] = g /\ g = Len(File[i])
    BY <2>1, <2>3, <2>5, <2>6, <2>7, <2>8, <2>10 DEF Working, Groups
  <2>11. QED
    BY <2>7, <2>9, <2>10
<1>11. QED
  BY <1>1, <1>2, <1>3, <1>4, <1>5, <1>6, <1>7, <1>8, <1>9, <1>10 DEF Moves

\* And everybody else's.
LEMMA OtherPosition ==
  ASSUME Types, NEW i \in Imports, NEW j \in Imports, i # j, Position(j), Moves(i), Others(i)
  PROVE  Position(j)'
<1>1. /\ auditLog \subseteq auditLog'
      /\ \A g \in Groups(j) : Created(<<j, g>>) \in auditLog' => Created(<<j, g>>) \in auditLog
  BY LogGrows, NamesApart DEF Current
<1>2. QED
  BY <1>1 DEF Others, Position

\* An import that has ended says and makes nothing more.
LEMMA EndedStays ==
  ASSUME NEW i \in Imports, Position(i), Moves(i), pc[i] \in Ended
  PROVE  pc'[i] = pc[i] /\ made'[i] = made[i] /\ events'[i] = events[i] /\ group'[i] = group[i]
  BY DEF Moves, Stays, Begins, Fails, Creates, Maps, Inserts, Rejects, Reports, Summarises,
         Finishes,
         Ended, Working, Position

\* The log stays right through an import's step.
LEMMA LogRightKept ==
  ASSUME Types, NEW i \in Imports, Position(i), LogRight, Moves(i)
  PROVE  LogRight'
<1> USE DEF LogRight, LogExplainsProducts
<1>1. CASE SameRows
  BY <1>1 DEF SameRows
<1>2. CASE Creates(i)
  <2>1. Current(i) \in ProductIds
    BY NamesApart DEF Types, Typed, Current
  <2>2. Created(Current(i)) \notin auditLog
    BY <1>2 DEF Types, Typed, Position, Creates, Current
  <2>3. /\ products' = products \cup {Current(i)}
        /\ auditLog' = auditLog \cup {Created(Current(i))}
        /\ SlugOf(Current(i)) \notin {SlugOf(p) : p \in products}
    BY <1>2 DEF Creates
  <2>4. /\ \A p : Deleted(p) \in auditLog' <=> Deleted(p) \in auditLog
        /\ \A p : Created(p) \in auditLog' <=> Created(p) \in auditLog \/ p = Current(i)
    BY <2>3, EventsApart
  <2>5. LogExplainsProducts'
    BY <2>1, <2>2, <2>3, <2>4
  <2>6. \A p, q \in products' : SlugOf(p) = SlugOf(q) => p = q
    BY <2>3
  <2>7. QED
    BY <2>5, <2>6
<1>3. CASE Summarises(i)
  <2>1. products' = products
    BY <1>3 DEF Summarises
  <2>2. /\ \A p : Deleted(p) \in auditLog' <=> Deleted(p) \in auditLog
        /\ \A p : Created(p) \in auditLog' <=> Created(p) \in auditLog
    BY <1>3, EventsApart DEF Summarises
  <2>3. QED
    BY <2>1, <2>2
<1>4. ASSUME NEW w \in Workers, Inserts(i, w) \/ Rejects(i, w) PROVE LogRight'
  BY <1>4 DEF Inserts, Rejects
<1>5. QED
  BY <1>1, <1>2, <1>3, <1>4 DEF Moves, Stays, Begins, Fails, Maps, Reports, Finishes

\* Who got through stays there.
LEMMA ThroughStays ==
  ASSUME NEW i \in Imports, Position(i), Moves(i), Through(i)
  PROVE  Through(i)' /\ made'[i] = made[i]
<1>1. CASE pc[i] = "closing"
  BY <1>1 DEF Moves, Stays, Begins, Fails, Creates, Maps, Inserts, Rejects, Reports, Summarises,
     Finishes, Working, Position, Through
<1>2. CASE pc[i] \in Ended
  BY <1>2, EndedStays DEF Through
<1>3. QED
  BY <1>1, <1>2 DEF Through, Ended

\* The summaries stay right through an import's step.
LEMMA SummariesKept ==
  ASSUME NEW i \in Imports, Position(i), Summaries, Moves(i), Others(i)
  PROVE  Summaries'
<1> USE DEF Summaries
<1>1. \A d \in auditLog : d.action = "products.imported" =>
         \A j \in Imports : d.batch = j => Through(j)' /\ d.products = made'[j]
  BY ThroughStays DEF Others, Through
<1>2. ASSUME NEW d \in auditLog', d \notin auditLog, d.action = "products.imported"
      PROVE  \A j \in Imports : d.batch = j => Through(j)' /\ d.products = made'[j]
  <2>1. Created(Current(i)).action = "product.created"
    BY DEF Created
  <2>2. Summarises(i) /\ d = Imported(i, made[i])
    BY <1>2, <2>1 DEF Moves, Stays, Begins, Fails, Creates, Maps, Inserts, Rejects, Reports,
       Finishes, SameRows, Summarises
  <2>3. d.batch = i /\ d.products = made[i]
    BY <2>2 DEF Imported
  <2>4. Through(i)' /\ made'[i] = made[i]
    BY <2>2 DEF Summarises, Position, Through
  <2>5. QED
    BY <2>2, <2>3, <2>4
<1>3. QED
  BY <1>1, <1>2

\* The stream of an import, through a step of its own.
LEMMA OwnStream ==
  ASSUME Types, NEW i \in Imports, Position(i), Stream(i), Moves(i)
  PROVE  Stream(i)'
<1> DEFINE e == events[i]
           m == made[i]
<1>0. /\ e \in Seq(Messages) /\ m \in Seq(ProductIds) /\ Current(i) \in ProductIds
      /\ Len(e) \in Nat /\ Len(m) \in Nat /\ group[i] \in Nat
  <2>1. e \in Seq(Messages) /\ m \in Seq(ProductIds) /\ group[i] \in Nat /\ group[i] \in Groups(i)
    BY DEF Types, Typed
  <2>2. Current(i) \in ProductIds
    BY <2>1, NamesApart DEF Current
  <2> HIDE DEF e, m
  <2>3. QED
    BY <2>1, <2>2
<1> USE DEF Stream
<1>1. CASE Stays(i) \/ Begins(i) \/ Maps(i) \/ Summarises(i)
  BY <1>1 DEF Stays, Begins, Maps, Summarises, Working
<1>2. ASSUME NEW w \in Workers, Inserts(i, w) PROVE Stream(i)'
  BY <1>2 DEF Inserts, Position
<1>3. CASE /\ pc[i] \in Working /\ pc'[i] = "error" /\ made'[i] = made[i]
           /\ events'[i] = Append(e, Error)
  <2>1. Error \in Messages
    BY DEF Error, Messages
  <2>2. Len(e) = Len(m)
    <3>1. pc[i] \notin {"done", "error"}
      BY <1>3 DEF Working
    <3>2. Len(e) = Len(m) + 0
      BY <3>1
    <3> HIDE DEF e, m, Stream
    <3>3. QED
      BY <1>0, <3>2
  <2> HIDE DEF e
  <2>3. /\ Len(events'[i]) = Len(m) + 1 /\ events'[i][Len(m) + 1] = Error
        /\ \A k \in 1 .. Len(m) : events'[i][k] = e[k]
    BY <1>0, <1>3, <2>1, <2>2
  <2>4. QED
    BY <1>0, <1>3, <2>3 DEF e
<1>4. ASSUME NEW w \in Workers, Rejects(i, w) PROVE Stream(i)'
  <2>1. CASE pool[i].promise = "pending"
    BY <1>3, <1>4, <2>1 DEF Rejects, Position, Working
  <2>2. CASE pool[i].promise # "pending"
    BY <1>4, <2>2 DEF Rejects
  <2>3. QED
    BY <2>1, <2>2
<1>5. CASE Reports(i)
  <2> DEFINE c == Progress(group[i])
  <2>1. c \in Messages
    BY <1>0 DEF Progress, Messages
  <2>2. /\ Len(e) = Len(m) /\ group[i] = Len(m) + 1 /\ pc'[i] \notin {"done", "error"}
        /\ events'[i] = Append(e, c) /\ made'[i] = Append(m, Current(i))
    BY <1>0, <1>5 DEF Reports, Position, Working
  <2> HIDE DEF e, c, m
  <2>3. /\ Len(events'[i]) = Len(m) + 1 /\ Len(made'[i]) = Len(m) + 1
        /\ events'[i][Len(m) + 1] = c
        /\ \A k \in 1 .. Len(m) : events'[i][k] = e[k]
    BY <1>0, <2>1, <2>2
  <2>4. \A k \in 1 .. Len(m) : events'[i][k] = Progress(k)
    BY <2>3 DEF e, m
  <2>5. c = Progress(Len(m) + 1)
    BY <2>2 DEF c
  <2>6. \A k \in 1 .. Len(m) + 1 : events'[i][k] = Progress(k)
    <3>1. ASSUME NEW k \in 1 .. Len(m) + 1 PROVE k \in 1 .. Len(m) \/ k = Len(m) + 1
      BY <1>0
    <3>2. QED
      BY <2>3, <2>4, <2>5, <3>1
  <2>7. QED
    BY <1>0, <2>2, <2>3, <2>6
<1>6. CASE Finishes(i)
  <2> DEFINE c == Done(Len(m))
  <2>1. c \in Messages
    BY <1>0 DEF Done, Messages
  <2>2. /\ Len(e) = Len(m) /\ made'[i] = m /\ events'[i] = Append(e, c) /\ pc'[i] = "done"
    BY <1>0, <1>6 DEF Finishes
  <2> HIDE DEF e, c
  <2>3. /\ Len(events'[i]) = Len(m) + 1 /\ events'[i][Len(m) + 1] = c
        /\ \A k \in 1 .. Len(m) : events'[i][k] = e[k]
    BY <1>0, <2>1, <2>2
  <2>4. QED
    BY <1>0, <2>2, <2>3 DEF e, c
<1>7. CASE Creates(i)
  <2>1. CASE pc'[i] = "attrs" /\ events'[i] = events[i]
    BY <1>7, <2>1 DEF Creates
  <2>2. CASE pc'[i] = "error" /\ events'[i] = Append(e, Error)
    BY <1>3, <1>7, <2>2 DEF Creates, Working
  <2>3. QED
    BY <1>7, <2>1, <2>2 DEF Creates
<1>8. QED
  BY <1>1, <1>2, <1>3, <1>4, <1>5, <1>6, <1>7 DEF Moves, Fails

\* The variants an import has made of its rows.  While workers are busy, the rows in
\* are those whose mapper call has returned and some of those whose call has thrown;
\* nothing is there of a deleted product.
OnWork(i) == pc[i] = "map" \/ Busy(pool[i]) # {}

RowOK(i, g, r) ==
    /\ variants[<<i, g>>][r] \in {0, 1}
    /\ <<i, g>> \notin products => variants[<<i, g>>][r] = 0
    /\ <<i, g>> \in products /\ g <= Len(made[i]) => variants[<<i, g>>][r] = 1
    /\ g = group[i] /\ pc[i] = "attrs" => variants[<<i, g>>][r] = 0
    /\ g = group[i] /\ <<i, g>> \in products /\ OnWork(i) =>
          /\ r \in pool[i].resolved => variants[<<i, g>>][r] = 1
          /\ variants[<<i, g>>][r] = 1 => r \in pool[i].resolved \cup pool[i].rejected
    /\ g = group[i] /\ <<i, g>> \in products /\ pc[i] = "refetch" => variants[<<i, g>>][r] = 1

Counts(i) ==
    /\ OnWork(i) => pool[i].size = Len(File[i][group[i]].rows)
    /\ \A g \in Groups(i) : \A r \in Rows(i, g) : RowOK(i, g, r)

\* A worker that is busy holds a row of its product that is not in yet.
LEMMA HeldRow ==
  ASSUME Types, NEW i \in Imports, Counts(i), NEW w \in Busy(pool[i])
  PROVE  /\ pool[i].held[w] \in Rows(i, group[i])
         /\ pool[i].held[w] \notin pool[i].resolved \cup pool[i].rejected
         /\ OnWork(i)
<1>1. PoolOK(pool[i]) /\ w \in Workers
  BY DEF Types, Typed, Busy
<1>2. /\ pool[i].held[w] \in Held(pool[i])
      /\ pool[i].size \in Nat /\ pool[i].nextIndex \in Nat
  BY <1>1 DEF Held, PoolOK, PoolRecords
<1>3. /\ pool[i].held[w] \in 1 .. pool[i].nextIndex
      /\ pool[i].held[w] \notin pool[i].resolved \cup pool[i].rejected
      /\ pool[i].nextIndex <= pool[i].size
  BY <1>1, <1>2 DEF PoolOK, ItemsOnce
<1>4. OnWork(i)
  BY DEF OnWork
<1>5. QED
  BY <1>2, <1>3, <1>4 DEF Counts, Rows

\* A worker has put one more row of its import's product in, and its mapper call has
\* returned, or thrown all the same.
LEMMA AddCounts ==
  ASSUME Types, NEW i \in Imports, Position(i), Counts(i), NEW w \in Busy(pool[i]), Adds(i, w),
         PoolOK(pool'[i]), pool'[i].size = pool[i].size,
         pool'[i].resolved \subseteq pool[i].resolved \cup {pool[i].held[w]},
         pool'[i].resolved \cup pool'[i].rejected
            = pool[i].resolved \cup pool[i].rejected \cup {pool[i].held[w]},
         products' = products, group'[i] = group[i], made'[i] = made[i],
         pc'[i] \in {"map", "error", "refetch"},
         pc'[i] = "refetch" => pool'[i].promise = "resolved"
  PROVE  Counts(i)'
<1> DEFINE c == pool[i].held[w]
           v == variants[Current(i)]
<1>1. /\ PoolOK(pool[i]) /\ pool[i] \in PoolRecords /\ group[i] \in Groups(i)
      /\ Current(i) \in ProductIds /\ RowsOf(Current(i)) = Rows(i, group[i])
      /\ Current(i) = <<i, group[i]>> /\ group[i] \in Nat
  BY NamesApart DEF Types, Typed, PoolOK, Current, RowsOf
<1>2. w \in Busy(pool[i]) /\ Current(i) \in products
  BY DEF Adds
<1>3. c \in Rows(i, group[i]) /\ c \notin pool[i].resolved \cup pool[i].rejected /\ OnWork(i)
  BY <1>2, HeldRow
<1>4. /\ variants = [p \in ProductIds |-> variants[p]]
      /\ v \in [Rows(i, group[i]) -> Nat]
  BY <1>1 DEF Types
<1>5. variants' = [variants EXCEPT ![Current(i)][c] = @ + 1]
  BY DEF Adds
<1>9. /\ pool'[i].size = pool[i].size
      /\ pool'[i].resolved \subseteq pool[i].resolved \cup {c}
      /\ pool'[i].resolved \cup pool'[i].rejected = pool[i].resolved \cup pool[i].rejected \cup {c}
      /\ PoolOK(pool'[i])
  OBVIOUS
<1> HIDE DEF c, v
<1>6. /\ variants'[Current(i)] = [v EXCEPT ![c] = @ + 1]
      /\ \A p \in ProductIds : p # Current(i) => variants'[p] = variants[p]
  BY <1>1, <1>4, <1>5 DEF v
<1>7. /\ variants'[Current(i)][c] = v[c] + 1
      /\ \A r \in Rows(i, group[i]) : r # c => variants'[Current(i)][r] = v[r]
  BY <1>3, <1>4, <1>6
<1>8. v[c] = 0
  <2>1. RowOK(i, group[i], c) /\ <<i, group[i]>> \in products
    BY <1>1, <1>2, <1>3 DEF Counts
  <2>2. QED
    BY <1>1, <1>3, <2>1 DEF RowOK, v
<1>10. /\ pool[i].size = Len(File[i][group[i]].rows) /\ pc[i] \in {"map", "error"}
       /\ Len(made[i]) = group[i] - 1
  BY <1>2, <1>3 DEF Counts, Position, Working
<1>11. /\ products' = products /\ group'[i] = group[i] /\ made'[i] = made[i]
       /\ pc'[i] \in {"map", "error", "refetch"}
       /\ pc'[i] = "refetch" => pool'[i].promise = "resolved"
  OBVIOUS
<1>12. ASSUME NEW r \in Rows(i, group[i]) PROVE RowOK(i, group[i], r)'
  <2>1. RowOK(i, group[i], r)
    BY <1>1 DEF Counts
  <2>2. /\ r \in pool[i].resolved => v[r] = 1
        /\ v[r] = 1 => r \in pool[i].resolved \cup pool[i].rejected
    BY <1>1, <1>2, <1>3, <2>1 DEF RowOK, v
  <2>3. v[r] \in {0, 1}
    BY <1>1, <2>1 DEF RowOK, v
  <2>4. /\ r \in pool'[i].resolved => variants'[Current(i)][r] = 1
        /\ variants'[Current(i)][r] = 1 => r \in pool'[i].resolved \cup pool'[i].rejected
        /\ variants'[Current(i)][r] \in {0, 1}
    BY <1>7, <1>8, <1>9, <2>2, <2>3
  <2>5. pc'[i] = "refetch" => r \in pool'[i].resolved
    BY <1>9, <1>10, <1>11 DEF PoolOK, PromiseTrue, Rows
  <2>6. QED
    BY <1>1, <1>2, <1>10, <1>11, <2>4, <2>5 DEF RowOK
<1>13. ASSUME NEW g \in Groups(i), g # group[i], NEW r \in Rows(i, g) PROVE RowOK(i, g, r)'
  <2>1. <<i, g>> \in ProductIds /\ <<i, g>> # Current(i)
    BY <1>1, <1>13, NamesApart
  <2>2. variants'[<<i, g>>] = variants[<<i, g>>]
    BY <1>6, <2>1
  <2>3. RowOK(i, g, r)
    BY DEF Counts
  <2>4. QED
    BY <1>11, <1>13, <2>2, <2>3 DEF RowOK
<1>14. QED
  BY <1>9, <1>10, <1>11, <1>12, <1>13 DEF Counts

\* The mapper call returns.
LEMMA InsertCounts ==
  ASSUME Types, NEW i \in Imports, Position(i), Counts(i), NEW w \in Workers, Inserts(i, w)
  PROVE  Counts(i)'
<1> DEFINE q == pool[i]
<1>1. q \in PoolRecords /\ PoolOK(q) /\ w \in Busy(q) /\ pool'[i] = ResolveItem(q, w)
  BY DEF Types, Typed, PoolOK, Inserts
<1> HIDE DEF q
<1>2. /\ PoolOK(pool'[i])
      /\ pool'[i].size = q.size
      /\ pool'[i].resolved = q.resolved \cup {q.held[w]}
      /\ pool'[i].rejected = q.rejected
  <2>1. PoolOK(ResolveItem(q, w))
    BY <1>1, ResolveItemOK
  <2>2. /\ ResolveItem(q, w).size = q.size
        /\ ResolveItem(q, w).resolved = q.resolved \cup {q.held[w]}
        /\ ResolveItem(q, w).rejected = q.rejected
    BY <1>1, ResolveFields
  <2>3. QED
    BY <1>1, <2>1, <2>2
<1>3. pc[i] \in {"map", "error"}
  BY <1>1 DEF Position, q
<1>4. /\ Adds(i, w) /\ products' = products /\ group'[i] = group[i] /\ made'[i] = made[i]
      /\ pc'[i] \in {"map", "error", "refetch"}
      /\ pc'[i] = "refetch" => pool'[i].promise = "resolved"
  BY <1>3 DEF Inserts
<1>5. /\ w \in Busy(pool[i]) /\ PoolOK(pool'[i]) /\ pool'[i].size = pool[i].size
      /\ pool'[i].resolved \subseteq pool[i].resolved \cup {pool[i].held[w]}
      /\ pool'[i].resolved \cup pool'[i].rejected
            = pool[i].resolved \cup pool[i].rejected \cup {pool[i].held[w]}
  BY <1>1, <1>2 DEF q
<1>6. QED
  BY <1>4, <1>5, AddCounts

\* The mapper call throws.
LEMMA RejectCounts ==
  ASSUME Types, NEW i \in Imports, Position(i), Counts(i), NEW w \in Workers, Rejects(i, w)
  PROVE  Counts(i)'
<1> DEFINE q == pool[i]
<1>1. q \in PoolRecords /\ PoolOK(q) /\ w \in Busy(q) /\ pool'[i] = RejectItem(q, w)
  BY DEF Types, Typed, PoolOK, Rejects
<1> HIDE DEF q
<1>2. /\ PoolOK(pool'[i])
      /\ pool'[i].size = q.size
      /\ pool'[i].resolved = q.resolved
      /\ pool'[i].rejected = q.rejected \cup {q.held[w]}
  <2>1. PoolOK(RejectItem(q, w))
    BY <1>1, RejectItemOK
  <2>2. /\ RejectItem(q, w).size = q.size
        /\ RejectItem(q, w).resolved = q.resolved
        /\ RejectItem(q, w).rejected = q.rejected \cup {q.held[w]}
    BY <1>1, RejectFields
  <2>3. QED
    BY <1>1, <2>1, <2>2
<1>3. pc[i] \in {"map", "error"} /\ OnWork(i)
  BY <1>1 DEF Position, OnWork, q
<1>4. /\ products' = products /\ group'[i] = group[i] /\ made'[i] = made[i]
      /\ pc'[i] \in {pc[i], "error"}
  BY <1>3 DEF Rejects
<1>5. CASE Adds(i, w)
  <2>1. /\ w \in Busy(pool[i]) /\ PoolOK(pool'[i]) /\ pool'[i].size = pool[i].size
        /\ pool'[i].resolved \subseteq pool[i].resolved \cup {pool[i].held[w]}
        /\ pool'[i].resolved \cup pool'[i].rejected
              = pool[i].resolved \cup pool[i].rejected \cup {pool[i].held[w]}
    BY <1>1, <1>2 DEF q
  <2>2. pc'[i] \in {"map", "error", "refetch"} /\ pc'[i] # "refetch"
    BY <1>3, <1>4
  <2>3. QED
    BY <1>4, <1>5, <2>1, <2>2, AddCounts
<1>6. CASE variants' = variants
  <2>1. ASSUME NEW g \in Groups(i), NEW r \in Rows(i, g) PROVE RowOK(i, g, r)'
    <3>1. RowOK(i, g, r)
      BY DEF Counts
    <3>2. /\ r \in q.resolved => r \in pool'[i].resolved
          /\ r \in q.resolved \cup q.rejected => r \in pool'[i].resolved \cup pool'[i].rejected
          /\ r \in pool'[i].resolved => r \in q.resolved
      BY <1>2
    <3>3. QED
      BY <1>3, <1>4, <1>6, <3>1, <3>2 DEF RowOK, q
  <2>2. QED
    BY <1>2, <1>3, <1>4, <2>1 DEF Counts, q
<1>7. QED
  BY <1>5, <1>6 DEF Rejects

\* The other steps of an import.
LEMMA OwnCounts ==
  ASSUME Types, NEW i \in Imports, Position(i), LogRight, Counts(i), Moves(i)
  PROVE  Counts(i)'
<1>0. /\ group[i] \in Groups(i) /\ group[i] \in Nat /\ made[i] \in Seq(ProductIds)
      /\ Current(i) \in ProductIds /\ Current(i) = <<i, group[i]>>
      /\ \A g \in Groups(i) : g \in Nat
  BY NamesApart DEF Types, Typed, Current, Groups
<1>1. CASE Stays(i)
  BY <1>1 DEF Stays, SameRows, Counts, RowOK, OnWork
<1>2. CASE Begins(i) \/ Fails(i) \/ Summarises(i) \/ Finishes(i)
  <2>1. /\ Busy(pool[i]) = {} /\ pool'[i] = pool[i] /\ made'[i] = made[i] /\ group'[i] = group[i]
        /\ products' = products /\ variants' = variants
        /\ pc'[i] \in {"params", "error", "closing", "done"}
    BY <1>2 DEF Begins, Fails, Summarises, Finishes, SameRows, Position, Working
  <2>2. ~OnWork(i)' /\ pc'[i] \notin {"attrs", "refetch"}
    BY <2>1 DEF OnWork
  <2>3. QED
    BY <2>1, <2>2 DEF Counts, RowOK
<1>3. CASE Creates(i)
  <2>1. /\ Busy(pool[i]) = {} /\ pool'[i] = pool[i] /\ made'[i] = made[i] /\ group'[i] = group[i]
        /\ products' = products \cup {Current(i)} /\ variants' = variants
        /\ pc'[i] \in {"attrs", "error"}
        /\ Len(made[i]) = group[i] - 1 /\ Created(Current(i)) \notin auditLog
    BY <1>0, <1>3 DEF Creates, Position, Working
  <2>2. ~OnWork(i)'
    BY <2>1 DEF OnWork
  <2>3. Current(i) \notin products
    BY <2>1 DEF LogRight, LogExplainsProducts
  <2>4. ASSUME NEW g \in Groups(i), NEW r \in Rows(i, g) PROVE RowOK(i, g, r)'
    <3>1. RowOK(i, g, r)
      BY DEF Counts
    <3>2. CASE g = group[i]
      BY <1>0, <2>1, <2>2, <2>3, <3>1, <3>2 DEF RowOK
    <3>3. CASE g # group[i]
      <4>1. <<i, g>> \in products' <=> <<i, g>> \in products
        BY <1>0, <2>1, <3>3
      <4>2. QED
        BY <2>1, <2>2, <3>1, <3>3, <4>1 DEF RowOK
    <3>4. QED
      BY <3>2, <3>3
  <2>5. QED
    BY <2>2, <2>4 DEF Counts
<1>4. CASE Maps(i)
  <2> DEFINE n == Len(File[i][group[i]].rows)
  <2>1. /\ pc[i] = "attrs" /\ pc'[i] = "map" /\ pool'[i] = StartPool(n)
        /\ made'[i] = made[i] /\ group'[i] = group[i]
        /\ products' = products /\ variants' = variants /\ Len(made[i]) = group[i] - 1
    BY <1>4 DEF Maps, SameRows, Position, Working
  <2>2. n \in Nat
    BY <1>0, FileAssumption
  <2> HIDE DEF n
  <2>3. pool'[i].size = n /\ pool'[i].resolved = {}
    BY <2>1, <2>2, StartFields
  <2>4. ASSUME NEW g \in Groups(i), NEW r \in Rows(i, g) PROVE RowOK(i, g, r)'
    <3>1. RowOK(i, g, r)
      BY DEF Counts
    <3>2. QED
      BY <2>1, <2>3, <3>1 DEF RowOK
  <2>5. QED
    BY <2>1, <2>3, <2>4 DEF Counts, n
<1>5. CASE Reports(i)
  <2>1. /\ Busy(pool[i]) = {} /\ pool'[i] = pool[i] /\ pc[i] = "refetch"
        /\ pc'[i] \in {"params", "summary"}
        /\ products' = products /\ variants' = variants /\ Len(made[i]) = group[i] - 1
        /\ made'[i] = Append(made[i], Current(i))
    BY <1>5 DEF Reports, SameRows, Position, Working
  <2>2. ~OnWork(i)' /\ Len(made'[i]) = group[i]
    BY <1>0, <2>1 DEF OnWork
  <2>3. ASSUME NEW g \in Groups(i), NEW r \in Rows(i, g) PROVE RowOK(i, g, r)'
    <3>1. RowOK(i, g, r)
      BY DEF Counts
    <3>2. g <= group[i] => g = group[i] \/ g <= Len(made[i])
      BY <1>0, <2>1
    <3>3. QED
      BY <2>1, <2>2, <3>1, <3>2 DEF RowOK
  <2>4. QED
    BY <2>2, <2>3 DEF Counts
<1>6. ASSUME NEW w \in Workers, Inserts(i, w) PROVE Counts(i)'
  BY <1>6, InsertCounts
<1>7. ASSUME NEW w \in Workers, Rejects(i, w) PROVE Counts(i)'
  BY <1>7, RejectCounts
<1>8. QED
  BY <1>1, <1>2, <1>3, <1>4, <1>5, <1>6, <1>7 DEF Moves

\* Another import's step leaves an import's rows and stream alone.
LEMMA OtherCounts ==
  ASSUME Types, NEW i \in Imports, NEW j \in Imports, i # j, Counts(j), Stream(j),
         Moves(i), Others(i)
  PROVE  Counts(j)' /\ Stream(j)'
<1>1. /\ pc'[j] = pc[j] /\ group'[j] = group[j] /\ pool'[j] = pool[j]
      /\ made'[j] = made[j] /\ events'[j] = events[j]
  BY DEF Others
<1>2. ASSUME NEW g \in Groups(j)
      PROVE  /\ <<j, g>> \in products' <=> <<j, g>> \in products
             /\ variants'[<<j, g>>] = variants[<<j, g>>]
  <2>1. <<j, g>> \in ProductIds /\ <<j, g>> # Current(i)
    BY NamesApart DEF Current
  <2>2. products' = products \/ products' = products \cup {Current(i)}
    BY DEF Moves, Stays, Begins, Fails, Creates, Maps, Inserts, Rejects, Reports, Summarises,
         Finishes,
       SameRows
  <2>3. CASE variants' = variants
    BY <2>1, <2>2, <2>3
  <2>4. ASSUME NEW w \in Workers, Adds(i, w)
        PROVE  variants'[<<j, g>>] = variants[<<j, g>>]
    <3> DEFINE c == Current(i)
               r == pool[i].held[w]
    <3>1. /\ variants' = [variants EXCEPT ![c][r] = @ + 1]
          /\ variants = [p \in ProductIds |-> variants[p]]
      BY <2>4 DEF Adds, Types
    <3>2. <<j, g>> # c
      BY <2>1
    <3> HIDE DEF c, r
    <3>3. QED
      BY <2>1, <3>1, <3>2
  <2>5. QED
    BY <2>1, <2>2, <2>3, <2>4 DEF Moves, Stays, Begins, Fails, Creates, Maps, Inserts, Rejects,
       Reports, Summarises,
       Finishes, SameRows
<1>3. ASSUME NEW g \in Groups(j), NEW r \in Rows(j, g) PROVE RowOK(j, g, r)'
  <2>1. RowOK(j, g, r)
    BY DEF Counts
  <2>2. QED
    BY <1>1, <1>2, <2>1 DEF RowOK, OnWork
<1>4. Counts(j)'
  BY <1>1, <1>3 DEF Counts, OnWork
<1>5. Stream(j)'
  BY <1>1 DEF Stream
<1>6. QED
  BY <1>4, <1>5

\* A deletion by an administrator.
LEMMA DeletesKeep ==
  ASSUME Types, NEW p \in ProductIds, LogRight, Deletes(p)
  PROVE  /\ products' \subseteq ProductIds
         /\ LogRight'
         /\ Summaries => Summaries'
         /\ \A i \in Imports : /\ Typed(i)'
                               /\ Position(i) => Position(i)'
                               /\ Stream(i) => Stream(i)'
                               /\ Counts(i) => Counts(i)'
<1>1. /\ products' = products \ {p} /\ p \in products
      /\ pc' = pc /\ group' = group /\ pool' = pool /\ made' = made /\ events' = events
  BY DEF Deletes
<1>2. /\ \A q : Created(q) \in auditLog' <=> Created(q) \in auditLog
      /\ \A q : Deleted(q) \in auditLog' <=> Deleted(q) \in auditLog \/ q = p
  BY EventsApart DEF Deletes
<1>3. LogRight'
  BY <1>1, <1>2 DEF LogRight, LogExplainsProducts
<1>4. Summaries => Summaries'
  <2>1. Deleted(p).action = "product.deleted"
    BY DEF Deleted
  <2>2. QED
    BY <1>1, <2>1 DEF Summaries, Through, Deletes
<1>5. ASSUME NEW i \in Imports
      PROVE  Typed(i)' /\ (Position(i) => Position(i)') /\ (Stream(i) => Stream(i)')
  BY <1>1, <1>2 DEF Types, Typed, Position, Stream
<1>6. \A q \in ProductIds : q # p => variants'[q] = variants[q]
  BY DEF Deletes, Types
<1>7. \A r \in RowsOf(p) : variants'[p][r] = 0
  BY DEF Deletes, Types
<1>8. ASSUME NEW i \in Imports, Counts(i), NEW g \in Groups(i), NEW r \in Rows(i, g)
      PROVE  RowOK(i, g, r)'
  <2>1. /\ RowOK(i, g, r) /\ <<i, g>> \in ProductIds
        /\ RowsOf(<<i, g>>) = Rows(i, g)
    BY <1>8, NamesApart DEF Counts, RowsOf
  <2>2. CASE <<i, g>> = p
    <3>1. <<i, g>> \notin products' /\ variants'[<<i, g>>][r] = 0
      BY <1>1, <1>7, <2>1, <2>2
    <3>2. QED
      BY <3>1 DEF RowOK
  <2>3. CASE <<i, g>> # p
    <3>1. /\ <<i, g>> \in products' <=> <<i, g>> \in products
          /\ variants'[<<i, g>>] = variants[<<i, g>>]
      BY <1>1, <1>6, <2>1, <2>3
    <3>2. QED
      BY <1>1, <2>1, <3>1 DEF RowOK, OnWork
  <2>4. QED
    BY <2>2, <2>3
<1>9. \A i \in Imports : Counts(i) => Counts(i)'
  <2>1. SUFFICES ASSUME NEW i \in Imports, Counts(i) PROVE Counts(i)'
    OBVIOUS
  <2>2. \A g \in Groups(i) : \A r \in Rows(i, g) : RowOK(i, g, r)'
    BY <1>8, <2>1
  <2>3. QED
    BY <1>1, <2>1, <2>2 DEF Counts, OnWork
<1>10. QED
  BY <1>1, <1>3, <1>4, <1>5, <1>9 DEF Types

\* No worker outlives a restart.
LEMMA NoPool == Busy(StartPool(0)) = {} /\ StartPool(0).promise # "pending" /\ PoolOK(StartPool(0))
<1>1. StartPool(0).promise = "resolved" /\ PoolOK(StartPool(0))
  BY StartFields, StartPoolOK
<1>2. QED
  BY <1>1 DEF PoolOK, PromiseTrue

\* A restart.
LEMMA CrashesKeep ==
  ASSUME Types, LogRight, Crashes
  PROVE  /\ products' \subseteq ProductIds
         /\ LogRight'
         /\ Summaries => Summaries'
         /\ \A i \in Imports : /\ Typed(i)'
                               /\ Position(i) => Position(i)'
                               /\ Stream(i) => Stream(i)'
                               /\ Position(i) /\ Counts(i) => Counts(i)'
<1>1. /\ products' = products /\ auditLog' = auditLog /\ variants' = variants
      /\ group' = group /\ made' = made /\ events' = events
  BY DEF Crashes, SameRows
<1>2. ASSUME NEW i \in Imports
      PROVE  /\ \/ pc'[i] = pc[i] /\ pc[i] \in Ended \cup {"idle"}
                \/ pc'[i] = "lost" /\ pc[i] \in Working \cup {"summary", "closing"}
             /\ Busy(pool'[i]) = {} /\ pool'[i].promise # "pending" /\ PoolOK(pool'[i])
  <2>1. pool'[i] = StartPool(0) /\ pc[i] \in Labels
    BY DEF Crashes, Types, Typed
  <2>2. pc'[i] = IF pc[i] \in Ended \cup {"idle"} THEN pc[i] ELSE "lost"
    BY DEF Crashes
  <2>3. QED
    BY <2>1, <2>2, NoPool DEF Labels
<1>3. LogRight'
  BY <1>1 DEF LogRight, LogExplainsProducts
<1>4. Summaries => Summaries'
  BY <1>1, <1>2 DEF Summaries, Through
<1>5. ASSUME NEW i \in Imports PROVE Typed(i)'
  BY <1>1, <1>2 DEF Types, Typed, Labels, Ended
<1>6. ASSUME NEW i \in Imports, Position(i) PROVE Position(i)'
  <2>1. /\ pc'[i] = "idle" => group[i] = 1
        /\ pc'[i] \in {"idle", "params", "create"} => pc[i] \in {"idle", "params", "create"}
        /\ pc'[i] \in Working \cup {"error"} => pc[i] \in Working \cup {"error"}
        /\ pc'[i] \in {"summary", "closing", "done"} => pc[i] \in {"summary", "closing", "done"}
    BY <1>2, <1>6 DEF Position, Working, Ended
  <2>2. QED
    BY <1>1, <1>2, <1>6, <2>1 DEF Position
<1>7. ASSUME NEW i \in Imports, Stream(i) PROVE Stream(i)'
  BY <1>1, <1>2, <1>7 DEF Stream, Ended, Working
<1>8. ASSUME NEW i \in Imports, Position(i), Counts(i) PROVE Counts(i)'
  <2>1. ~OnWork(i)' /\ pc'[i] \notin {"attrs", "refetch"}
    BY <1>2 DEF OnWork, Ended
  <2>2. QED
    BY <1>1, <1>8, <2>1 DEF Counts, RowOK
<1>9. QED
  BY <1>1, <1>3, <1>4, <1>5, <1>6, <1>7, <1>8 DEF Types
-----------------------------------------------------------------------------
\* The inductive invariant.
IInv ==
    /\ Types
    /\ LogRight
    /\ Summaries
    /\ \A i \in Imports : Position(i) /\ Stream(i) /\ Counts(i)

LEMMA InitHolds == Init => IInv
<1>0. SUFFICES ASSUME Init PROVE IInv
  OBVIOUS
<1>1. /\ products = {} /\ auditLog = {}
      /\ \A p \in ProductIds : \A r \in RowsOf(p) : variants[p][r] = 0
      /\ \A p \in ProductIds : variants[p] \in [RowsOf(p) -> Nat]
      /\ variants = [p \in ProductIds |-> variants[p]]
  BY <1>0 DEF Init
<1>2. /\ Functions
      /\ \A i \in Imports : /\ pc[i] = "idle" /\ group[i] = 1 /\ pool[i] = StartPool(0)
                            /\ made[i] = <<>> /\ events[i] = <<>>
  BY <1>0 DEF Init, Functions
<1>3. ASSUME NEW i \in Imports PROVE Typed(i)
  <2>1. 1 \in Groups(i)
    BY FileAssumption DEF Groups
  <2>2. QED
    <3>1. PoolOK(pool[i])
      BY <1>2, NoPool
    <3>2. pc[i] \in Labels /\ group[i] \in Groups(i) /\ group[i] \in Nat
      BY <1>2, <2>1 DEF Labels, Working
    <3>3. made[i] \in Seq(ProductIds) /\ events[i] \in Seq(Messages)
      <4>1. <<>> \in Seq(ProductIds) /\ <<>> \in Seq(Messages)
        OBVIOUS
      <4>2. QED
        BY <1>2, <4>1
    <3>4. QED
      BY <3>1, <3>2, <3>3 DEF Typed
<1>4. ASSUME NEW i \in Imports PROVE Position(i)
  <2>1. Busy(pool[i]) = {} /\ pool[i].promise # "pending"
    BY <1>2, NoPool
  <2>2. pc[i] = "idle" /\ group[i] = 1 /\ Len(made[i]) = 0
    BY <1>2
  <2>3. QED
    BY <1>1, <2>1, <2>2 DEF Position
<1>5. ASSUME NEW i \in Imports PROVE Stream(i)
  <2>1. Len(made[i]) = 0 /\ Len(events[i]) = 0 /\ pc[i] = "idle"
    BY <1>2
  <2>2. QED
    BY <2>1 DEF Stream
<1>6. ASSUME NEW i \in Imports PROVE Counts(i)
  <2>1. ~OnWork(i) /\ Len(made[i]) = 0 /\ pc[i] = "idle"
    BY <1>2, NoPool DEF OnWork
  <2>2. ASSUME NEW g \in Groups(i), NEW r \in Rows(i, g) PROVE RowOK(i, g, r)
    <3>1. <<i, g>> \in ProductIds /\ RowsOf(<<i, g>>) = Rows(i, g)
      BY NamesApart DEF RowsOf
    <3>2. QED
      BY <1>1, <2>1, <3>1 DEF RowOK
  <2>3. QED
    BY <2>1, <2>2 DEF Counts
<1>7. LogRight /\ Summaries
  BY <1>1 DEF LogRight, LogExplainsProducts, Summaries
<1>8. QED
  BY <1>1, <1>2, <1>3, <1>4, <1>5, <1>6, <1>7 DEF IInv, Types

LEMMA NextKeeps == IInv /\ [Next]_vars => IInv'
<1>0. SUFFICES ASSUME IInv, [Next]_vars PROVE IInv'
  OBVIOUS
<1>1. /\ Types /\ LogRight /\ Summaries
      /\ \A i \in Imports : Position(i) /\ Stream(i) /\ Counts(i)
  BY <1>0 DEF IInv
<1>2. Functions'
  BY <1>0, <1>1, StepIs
<1>3. /\ variants' = [p \in ProductIds |-> variants'[p]]
      /\ \A p \in ProductIds : variants'[p] \in [RowsOf(p) -> Nat]
  BY <1>0, <1>1, VariantsTyped
<1> DEFINE Kept == /\ products' \subseteq ProductIds
                   /\ LogRight'
                   /\ Summaries'
                   /\ \A i \in Imports : Typed(i)' /\ Position(i)' /\ Stream(i)' /\ Counts(i)'
<1>4. ASSUME NEW i \in Imports, Moves(i), Others(i) PROVE Kept
  <2>1. Typed(i)' /\ Position(i)' /\ Stream(i)' /\ Counts(i)' /\ products' \subseteq ProductIds
    BY <1>1, <1>4, TypedKept, OwnPosition, OwnStream, OwnCounts
  <2>2. LogRight' /\ Summaries'
    BY <1>1, <1>4, LogRightKept, SummariesKept
  <2>3. ASSUME NEW j \in Imports, i # j
        PROVE  Typed(j)' /\ Position(j)' /\ Stream(j)' /\ Counts(j)'
    <3>1. Typed(j)'
      BY <1>1, <1>4, <2>3, OtherTyped DEF Types
    <3>2. Position(j)' /\ Stream(j)' /\ Counts(j)'
      BY <1>1, <1>4, <2>3, OtherPosition, OtherCounts
    <3>3. QED
      BY <3>1, <3>2
  <2>4. QED
    BY <2>1, <2>2, <2>3
<1>5. ASSUME NEW p \in ProductIds, Deletes(p) PROVE Kept
  BY <1>1, <1>5, DeletesKeep
<1>6. ASSUME Crashes PROVE Kept
  BY <1>1, <1>6, CrashesKeep
<1>7. ASSUME SameRows, UNCHANGED <<pc, group, pool, made, events>> PROVE Kept
  <2>1. /\ products' = products /\ LogRight' /\ Summaries'
    BY <1>1, <1>7 DEF SameRows, LogRight, LogExplainsProducts, Summaries, Through
  <2>2. ASSUME NEW i \in Imports PROVE Typed(i)' /\ Position(i)' /\ Stream(i)' /\ Counts(i)'
    <3>1. Typed(i)' /\ Position(i)' /\ Stream(i)'
      BY <1>1, <1>7 DEF SameRows, Types, Typed, Position, Stream
    <3>2. Counts(i)'
      BY <1>1, <1>7 DEF SameRows, Counts, RowOK, OnWork
    <3>3. QED
      BY <3>1, <3>2
  <2>3. products' \subseteq ProductIds
    BY <1>1, <2>1 DEF Types
  <2>4. QED
    BY <2>1, <2>2, <2>3
<1>8. Kept
  BY <1>0, <1>1, <1>4, <1>5, <1>6, <1>7, StepIs
<1>9. QED
  BY <1>2, <1>3, <1>8 DEF IInv, Types

\* The invariant of imports: rows, log, counters, stream and workers agree in every
\* state of every set of files.
THEOREM ImportsConsistent == Spec => []IInv
  BY InitHolds, NextKeeps, PTL DEF Spec

\* "Per product audit events are authoritative": whatever failed, crashed or was
\* deleted between an import's transactions, the products are the log's.
THEOREM LogExplains == Spec => []LogExplainsProducts
<1>1. IInv => LogExplainsProducts
  BY DEF IInv, LogRight
<1>2. QED
  BY <1>1, ImportsConsistent, PTL

\* An import leaves a prefix of its file, each row of it once.
THEOREM PrefixImported == Spec => []ImportsPrefix
<1>1. IInv => ImportsPrefix
  <2>1. SUFFICES ASSUME IInv, NEW i \in Imports
                 PROVE  /\ \A n \in 1..Len(made[i]) :
                              /\ made[i][n] = <<i, n>>
                              /\ <<i, n>> \in products =>
                                    \A r \in Rows(i, n) : variants[<<i, n>>][r] = 1
                        /\ \A g \in Groups(i) :
                              /\ Created(<<i, g>>) \in auditLog => g <= Len(made[i]) + 1
                              /\ \A r \in Rows(i, g) : variants[<<i, g>>][r] <= 1
    BY DEF ImportsPrefix
  <2>2. /\ Position(i) /\ Counts(i) /\ group[i] \in Groups(i) /\ group[i] \in Nat
        /\ made[i] \in Seq(ProductIds) /\ Len(made[i]) \in Nat
    BY <2>1 DEF IInv, Types, Typed
  <2>3. ASSUME NEW n \in 1..Len(made[i])
        PROVE  /\ n \in Groups(i) /\ n <= Len(made[i]) /\ made[i][n] = <<i, n>>
    <3>1. Len(made[i]) \in {group[i] - 1, group[i]} /\ group[i] \in 1..Len(File[i])
      BY <2>2 DEF Position, Groups
    <3>2. n \in Groups(i) /\ n <= Len(made[i])
      BY <2>2, <3>1, FileAssumption DEF Groups
    <3>3. QED
      BY <2>2, <3>2 DEF Position
  <2>4. ASSUME NEW n \in 1..Len(made[i]), <<i, n>> \in products, NEW r \in Rows(i, n)
        PROVE  variants[<<i, n>>][r] = 1
    BY <2>2, <2>3, <2>4 DEF Counts, RowOK
  <2>5. ASSUME NEW g \in Groups(i) PROVE Created(<<i, g>>) \in auditLog => g <= Len(made[i]) + 1
    BY <2>2, <2>5 DEF Position, Groups
  <2>6. ASSUME NEW g \in Groups(i), NEW r \in Rows(i, g) PROVE variants[<<i, g>>][r] <= 1
    BY <2>2 DEF Counts, RowOK
  <2>7. QED
    BY <2>3, <2>4, <2>5, <2>6
<1>2. QED
  BY <1>1, ImportsConsistent, PTL

\* The summary event lists what its batch created, and only of an import that went
\* through its whole file.
THEOREM SummaryIsTrue == Spec => []SummaryTrue
<1>1. IInv => SummaryTrue
  <2>1. SUFFICES ASSUME IInv, NEW i \in Imports, NEW d \in auditLog,
                        d.action = "products.imported", d.batch = i
                 PROVE  /\ pc[i] \in {"closing", "done", "lost"}
                        /\ d.products = [g \in Groups(i) |-> <<i, g>>]
                        /\ \A g \in Groups(i) : Created(<<i, g>>) \in auditLog
    BY DEF SummaryTrue
  <2>2. Through(i) /\ d.products = made[i]
    BY <2>1 DEF IInv, Summaries
  <2>3. /\ Position(i) /\ made[i] \in Seq(ProductIds)
    BY <2>1 DEF IInv, Types, Typed
  <2>4. Len(made[i]) = Len(File[i]) /\ Groups(i) = 1..Len(made[i])
    BY <2>2 DEF Through, Groups
  <2>5. made[i] = [g \in 1..Len(made[i]) |-> made[i][g]]
    BY <2>3
  <2>6. \A g \in Groups(i) : made[i][g] = <<i, g>> /\ Created(<<i, g>>) \in auditLog
    BY <2>3, <2>4 DEF Position
  <2>7. QED
    BY <2>2, <2>4, <2>5, <2>6 DEF Through
<1>2. QED
  BY <1>1, ImportsConsistent, PTL

\* The same product is never imported twice, unless somebody deletes it in between.
THEOREM RepeatedImport == Spec => []RepeatNeedsDelete
<1>1. IInv => RepeatNeedsDelete
  <2>1. SUFFICES ASSUME IInv, NEW i \in Imports, NEW j \in Imports, i # j,
                        NEW g \in Groups(i), NEW h \in Groups(j),
                        pc[i] = "done", pc[j] = "done", SlugOf(<<i, g>>) = SlugOf(<<j, h>>),
                        \A p \in {<<i, g>>, <<j, h>>} : Deleted(p) \notin auditLog
                 PROVE  FALSE
    BY DEF RepeatNeedsDelete
  <2>2. /\ Position(i) /\ Position(j) /\ LogRight
        /\ made[i] \in Seq(ProductIds) /\ made[j] \in Seq(ProductIds)
    BY <2>1 DEF IInv, Types, Typed
  <2>3. Created(<<i, g>>) \in auditLog /\ Created(<<j, h>>) \in auditLog
    BY <2>1, <2>2 DEF Position, Groups
  <2>4. <<i, g>> \in products /\ <<j, h>> \in products
    BY <2>1, <2>2, <2>3, NamesApart DEF LogRight, LogExplainsProducts
  <2>5. <<i, g>> = <<j, h>>
    BY <2>1, <2>2, <2>4 DEF LogRight
  <2>6. QED
    BY <2>1, <2>5
<1>2. QED
  BY <1>1, ImportsConsistent, PTL

\* What has been reported is final: no worker of any map touches its variants.
THEOREM ReportsFinal == Spec => ReportedIsFinal
<1> DEFINE A == \A i \in Imports : \A n \in 1..Len(made[i]) :
                   <<i, n>> \in products' => variants'[<<i, n>>] = variants[<<i, n>>]
<1>1. IInv /\ [Next]_vars => A
  <2>1. SUFFICES ASSUME IInv, [Next]_vars, NEW i \in Imports, NEW n \in 1..Len(made[i]),
                        <<i, n>> \in products'
                 PROVE  variants'[<<i, n>>] = variants[<<i, n>>]
    OBVIOUS
  <2>2. Types /\ \A j \in Imports : Position(j) /\ Typed(j)
    BY <2>1 DEF IInv, Types
  <2>3. n \in Groups(i) /\ <<i, n>> \in ProductIds
    <3>1. Len(made[i]) \in {group[i] - 1, group[i]} /\ group[i] \in 1..Len(File[i])
      BY <2>2 DEF Position, Groups, Typed
    <3>2. Len(made[i]) \in Nat
      BY <2>2 DEF Typed
    <3>3. n \in Groups(i)
      BY <3>1, <3>2, FileAssumption DEF Groups
    <3>4. QED
      BY <3>3, NamesApart
  <2>4. CASE variants' = variants
    BY <2>4
  <2>5. ASSUME NEW p \in ProductIds, Deletes(p) PROVE variants'[<<i, n>>] = variants[<<i, n>>]
    BY <2>1, <2>2, <2>3, <2>5 DEF Deletes, Types
  <2>6. ASSUME NEW j \in Imports, NEW w \in Busy(pool[j]), Adds(j, w)
        PROVE  variants'[<<i, n>>] = variants[<<i, n>>]
    <3> DEFINE c == Current(j)
               r == pool[j].held[w]
    <3>1. /\ variants' = [variants EXCEPT ![c][r] = @ + 1]
          /\ variants = [p \in ProductIds |-> variants[p]]
      BY <2>2, <2>6 DEF Adds, Types
    <3>2. Len(made[j]) = group[j] - 1 /\ group[j] \in Nat
      BY <2>2, <2>6 DEF Position, Typed, Working
    <3>3. <<i, n>> # c
      BY <3>2 DEF Current
    <3> HIDE DEF c, r
    <3>4. QED
      BY <2>3, <3>1, <3>3
  <2>7. QED
    BY <2>1, <2>2, <2>4, <2>5, <2>6, StepIs DEF Moves, Stays, Begins, Fails, Creates, Maps,
       Inserts, Rejects, Reports, Summarises, Finishes, Crashes, SameRows
<1>2. QED
  BY <1>1, ImportsConsistent, PTL DEF Spec, ReportedIsFinal

\* After an import has ended its stream is still, and the workers it leaves behind
\* change the variants of the product in hand and of no other.
THEOREM LateWork == Spec => LateWorkConfined
<1> DEFINE Confined(i) ==
       /\ events'[i] = events[i] /\ made'[i] = made[i]
       /\ \A g \in Groups(i) :
             /\ <<i, g>> \in products' => <<i, g>> \in products
             /\ variants'[<<i, g>>] # variants[<<i, g>>] /\ <<i, g>> \in products'
                  => g = group[i] /\ pc[i] = "error"
<1>1. IInv /\ [Next]_vars => \A i \in Imports : pc[i] \in Ended => Confined(i)
  <2>1. SUFFICES ASSUME IInv, [Next]_vars, NEW i \in Imports, pc[i] \in Ended
                 PROVE  Confined(i)
    OBVIOUS
  <2>2. Types /\ \A j \in Imports : Position(j) /\ Typed(j)
    BY <2>1 DEF IInv, Types
  <2>3. CASE UNCHANGED <<events, made, products, variants>>
    BY <2>3
  <2>4. ASSUME NEW p \in ProductIds, Deletes(p) PROVE Confined(i)
    <3>1. /\ products' = products \ {p} /\ events' = events /\ made' = made
          /\ \A q \in ProductIds : q # p => variants'[q] = variants[q]
      BY <2>2, <2>4 DEF Deletes, Types
    <3>2. QED
      BY <3>1, NamesApart
  <2>5. ASSUME NEW j \in Imports, Moves(j), Others(j) PROVE Confined(i)
    <3>1. events'[i] = events[i] /\ made'[i] = made[i]
      BY <2>1, <2>2, <2>5, EndedStays DEF Others
    <3>2. ASSUME NEW g \in Groups(i), <<i, g>> \in products' PROVE <<i, g>> \in products
      <4>1. products' = products \/ (Creates(j) /\ products' = products \cup {Current(j)})
        BY <2>5 DEF Moves, Stays, Begins, Fails, Creates, Maps, Inserts, Rejects, Reports, Summarises,
           Finishes, SameRows
      <4>2. Creates(j) => j # i
        BY <2>1 DEF Creates, Ended
      <4>3. j # i => <<i, g>> # Current(j)
        BY DEF Current
      <4>4. QED
        BY <3>2, <4>1, <4>2, <4>3
    <3>3. ASSUME NEW g \in Groups(i), variants'[<<i, g>>] # variants[<<i, g>>]
          PROVE  g = group[i] /\ pc[i] = "error"
      <4>1. PICK w \in Busy(pool[j]) : Adds(j, w)
        BY <2>5, <3>3 DEF Moves, Stays, Begins, Fails, Creates, Maps, Inserts, Rejects, Reports,
           Summarises,
           Finishes, SameRows
      <4> DEFINE c == Current(j)
                 r == pool[j].held[w]
      <4>2. /\ variants' = [variants EXCEPT ![c][r] = @ + 1]
            /\ variants = [p \in ProductIds |-> variants[p]]
        BY <2>2, <4>1 DEF Adds, Types
      <4>3. <<i, g>> \in ProductIds
        BY NamesApart
      <4> HIDE DEF c, r
      <4>4. <<i, g>> = c
        BY <3>3, <4>2, <4>3
      <4>5. i = j /\ g = group[i]
        BY <4>4 DEF c, Current
      <4>6. pc[j] \in {"map", "error"}
        BY <2>2, <4>1 DEF Position
      <4>7. QED
        BY <2>1, <4>5, <4>6 DEF Ended
    <3>4. QED
      BY <3>1, <3>2, <3>3
  <2>6. CASE Crashes
    BY <2>3, <2>6 DEF Crashes, SameRows
  <2>7. CASE SameRows /\ UNCHANGED <<pc, group, pool, made, events>>
    BY <2>3, <2>7 DEF SameRows
  <2>8. QED
    BY <2>1, <2>2, <2>4, <2>5, <2>6, <2>7, StepIs
<1>2. QED
  BY <1>1, ImportsConsistent, PTL DEF Spec, LateWorkConfined

\* The client reads progress 1, 2, ... and at most one closing event, `done` only after
\* the last product.
THEOREM StreamReads == Spec => []StreamWellFormed
<1>1. IInv => StreamWellFormed
  <2>1. SUFFICES ASSUME IInv, NEW i \in Imports
                 PROVE  LET n == Len(made[i]) IN
                        /\ SubSeq(events[i], 1, n) = [k \in 1..n |-> Progress(k)]
                        /\ pc[i] = "done" =>
                              /\ Tail(SubSeq(events[i], n, Len(events[i]))) = <<Done(n)>>
                              /\ n = Len(File[i])
                        /\ pc[i] = "error" => Len(events[i]) = n + 1 /\ events[i][n + 1] = Error
                        /\ pc[i] \notin {"done", "error"} => Len(events[i]) = n
    BY DEF StreamWellFormed
  <2> DEFINE n == Len(made[i])
             e == events[i]
  <2>2. /\ Position(i) /\ Stream(i) /\ n \in Nat /\ e \in Seq(Messages)
        /\ group[i] \in Groups(i)
    BY <2>1 DEF IInv, Types, Typed
  <2>3. /\ \A k \in 1..n : e[k] = Progress(k)
        /\ pc[i] \in {"done", "error"} => Len(e) = n + 1
        /\ pc[i] \notin {"done", "error"} => Len(e) = n
        /\ pc[i] = "error" => e[n + 1] = Error
        /\ pc[i] = "done" => e[n + 1] = Done(n)
    <3>1. Len(e) = n + (IF pc[i] \in {"done", "error"} THEN 1 ELSE 0)
      BY <2>2 DEF Stream
    <3>2. /\ \A k \in 1..n : e[k] = Progress(k)
          /\ pc[i] = "error" => e[n + 1] = Error
          /\ pc[i] = "done" => e[n + 1] = Done(n)
      BY <2>2 DEF Stream
    <3> HIDE DEF n, e
    <3>3. CASE pc[i] \in {"done", "error"}
      BY <2>2, <3>1, <3>2, <3>3
    <3>4. CASE pc[i] \notin {"done", "error"}
      <4>1. Len(e) = n + 0
        BY <3>1, <3>4
      <4>2. QED
        BY <2>2, <3>2, <3>4, <4>1
    <3>5. QED
      BY <3>3, <3>4
  <2>4. pc[i] = "done" => n = Len(File[i]) /\ n >= 1
    BY <2>2, FileAssumption DEF Position
  <2> HIDE DEF n, e
  <2>5. SubSeq(e, 1, n) = [k \in 1..n |-> Progress(k)]
    <3>1. SubSeq(e, 1, n) = [k \in 1..n |-> e[k]]
      BY <2>2, <2>3
    <3>2. QED
      BY <2>3, <3>1
  <2>6. ASSUME pc[i] = "done" PROVE Tail(SubSeq(e, n, Len(e))) = <<Done(n)>>
    <3>1. Len(e) = n + 1 /\ e[n + 1] = Done(n) /\ n >= 1 /\ e[n] \in Messages
      BY <2>2, <2>3, <2>4, <2>6
    <3> DEFINE t == SubSeq(e, n, n + 1)
    <3>2. t \in Seq(Messages) /\ Len(t) = 2 /\ t[2] = e[n + 1]
      BY <2>2, <3>1, SubSeqProperties
    <3> HIDE DEF t
    <3>3. Tail(t) \in Seq(Messages) /\ Len(Tail(t)) = 1 /\ Tail(t)[1] = t[2]
      <4>1. t # <<>>
        <5>1. Len(t) = 2
          BY <3>2
        <5>2. Len(<<>>) = 0
          OBVIOUS
        <5>3. t = <<>> => Len(t) = 0
          BY <5>2
        <5>4. QED
          BY <5>1, <5>3
      <4>2. QED
        BY <3>2, <4>1, HeadTailProperties
    <3>4. Tail(t) = <<Tail(t)[1]>>
      <4> DEFINE u == Tail(t)
      <4> HIDE DEF u
      <4>1. u \in Seq(Messages) /\ Len(u) = 1
        BY <3>3 DEF u
      <4>2. u = [k \in 1..1 |-> u[k]]
        BY <4>1
      <4>3. \A k \in 1..1 : u[k] = u[1]
        OBVIOUS
      <4>4. u = [k \in 1..1 |-> u[1]]
        BY <4>2, <4>3
      <4>5. QED
        BY <4>4 DEF u
    <3>5. QED
      BY <3>1, <3>2, <3>3, <3>4 DEF t
  <2>7. QED
    BY <2>3, <2>4, <2>5, <2>6 DEF n, e
<1>2. QED
  BY <1>1, ImportsConsistent, PTL
=============================================================================
