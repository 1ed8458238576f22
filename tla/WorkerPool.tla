----------------------------- MODULE WorkerPool -----------------------------
(***************************************************************************)
(* The state of one call of mapWithConcurrency (src/src/utils/index.ts)    *)
(* and the steps its workers take, as operators on a record, so that the   *)
(* stand-alone specification MapWithConcurrency and the product import,    *)
(* which runs one such call per product, share one definition.             *)
(*                                                                         *)
(* Item i of the model is items[i - 1] of the code.  A call's record has   *)
(*   size       items.length                                               *)
(*   nextIndex  the shared counter of the same name                        *)
(*   held       the item each worker awaits the mapper on, NoItem when the *)
(*              worker was not created or has returned or thrown           *)
(*   resolved   the items whose mapper call returned                       *)
(*   rejected   the items whose mapper call threw                          *)
(*   promise    what `await Promise.all(workers)` gives its caller         *)
(*                                                                         *)
(* In this and the other modules, a definition whose name ends in _Bug... is *)
(* the one that follows it with a plausible mistake in the code.  No         *)
(* specification uses it: it shows that the property the mistake breaks can  *)
(* be broken (see the README).                                               *)
(***************************************************************************)
EXTENDS Integers, FiniteSets

CONSTANT Concurrency  \* the `concurrency` argument

ASSUME ConcurrencyAssumption == Concurrency \in Nat \ {0}

Workers == 1..Concurrency
NoItem == 0

\* Math.min(concurrency, items.length)
Spawned(n) == {w \in Workers : w <= n}

\* The workers are created in a row and each runs synchronously to its first
\* `await mapper(...)`, so worker w holds item w before anything else happens.
\* An empty list resolves at once.
StartPool(n) ==
    [size      |-> n,
     nextIndex |-> IF n <= Concurrency THEN n ELSE Concurrency,
     held      |-> [w \in Workers |-> IF w \in Spawned(n) THEN w ELSE NoItem],
     resolved  |-> {},
     rejected  |-> {},
     promise   |-> IF n = 0 THEN "resolved" ELSE "pending"]

Busy(pool) == {w \in Workers : pool.held[w] # NoItem}
Held(pool) == {pool.held[w] : w \in Busy(pool)}

\* `while (nextIndex < items.length) { const current = nextIndex++; ... }`
HasNext(pool) == pool.nextIndex < pool.size
Taken_BugNoIncrement(pool) == IF HasNext(pool) THEN pool.nextIndex ELSE NoItem
Taken(pool) == IF HasNext(pool) THEN pool.nextIndex + 1 ELSE NoItem

\* The last worker to return resolves the call even if another has thrown.
ResolveItem_BugForgetsError(pool, w) ==
    [pool EXCEPT
        !.resolved  = @ \cup {pool.held[w]},
        !.held[w]   = Taken(pool),
        !.nextIndex = IF HasNext(pool) THEN @ + 1 ELSE @,
        !.promise   = IF Busy(pool) = {w} /\ ~HasNext(pool) THEN "resolved" ELSE @]

\* Nobody resolves the call.
ResolveItem_BugNeverSettles(pool, w) ==
    [pool EXCEPT
        !.resolved  = @ \cup {pool.held[w]},
        !.held[w]   = Taken(pool),
        !.nextIndex = IF HasNext(pool) THEN @ + 1 ELSE @]

\* Worker w's mapper call returns: the worker takes the next item or returns,
\* and the last of the workers to return resolves Promise.all.
ResolveItem(pool, w) ==
    [size      |-> pool.size,
     nextIndex |-> IF HasNext(pool) THEN pool.nextIndex + 1 ELSE pool.nextIndex,
     held      |-> [pool.held EXCEPT ![w] = Taken(pool)],
     resolved  |-> pool.resolved \cup {pool.held[w]},
     rejected  |-> pool.rejected,
     promise   |-> IF /\ pool.promise = "pending"
                      /\ Busy(pool) = {w} /\ ~HasNext(pool)
                   THEN "resolved" ELSE pool.promise]

\* The error is caught inside the worker.
RejectItem_BugSwallowed(pool, w) ==
    [pool EXCEPT !.rejected = @ \cup {pool.held[w]}, !.held[w] = NoItem]

\* Worker w's mapper call throws: the worker is gone, and the first throw
\* rejects Promise.all.  Nothing stops the other workers.
RejectItem(pool, w) ==
    [size      |-> pool.size,
     nextIndex |-> pool.nextIndex,
     held      |-> [pool.held EXCEPT ![w] = NoItem],
     resolved  |-> pool.resolved,
     rejected  |-> pool.rejected \cup {pool.held[w]},
     promise   |-> IF pool.promise = "pending" THEN "rejected" ELSE pool.promise]
-----------------------------------------------------------------------------
\* The type of a call's record.
PoolRecords ==
    [size      : Nat,
     nextIndex : Nat,
     held      : [Workers -> Nat],
     resolved  : SUBSET Nat,
     rejected  : SUBSET Nat,
     promise   : {"pending", "resolved", "rejected"}]

\* The workers, all incrementing one counter, never share an item, never skip
\* one, and never run one again.
ItemsOnce(pool) ==
    /\ pool.nextIndex <= pool.size
    /\ Held(pool) \cup pool.resolved \cup pool.rejected = 1..pool.nextIndex
    /\ Held(pool) \cap (pool.resolved \cup pool.rejected) = {}
    /\ pool.resolved \cap pool.rejected = {}
    /\ \A v, w \in Busy(pool) : v # w => pool.held[v] # pool.held[w]

\* What the caller is told is true.
PromiseTrue(pool) ==
    /\ pool.promise = "resolved" =>
           pool.resolved = 1..pool.size /\ Busy(pool) = {}
    /\ pool.promise = "rejected" <=> pool.rejected # {}

\* The workers that were created and have returned or thrown.
Gone(pool) == Spawned(pool.size) \ Busy(pool)

\* While items are left, the workers that are gone are those that threw.
GoneHaveThrown(pool) ==
    /\ Busy(pool) \subseteq Spawned(pool.size)
    /\ HasNext(pool) => Cardinality(pool.rejected) = Cardinality(Gone(pool))

PoolOK(pool) == /\ pool \in PoolRecords
                /\ ItemsOnce(pool)
                /\ PromiseTrue(pool)
                /\ GoneHaveThrown(pool)
=============================================================================
