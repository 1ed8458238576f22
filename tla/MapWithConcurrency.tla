------------------------- MODULE MapWithConcurrency -------------------------
(***************************************************************************)
(* One call of mapWithConcurrency on a list of up to MaxItems items, with  *)
(* a mapper that may return or throw for any item and in any order.        *)
(***************************************************************************)
EXTENDS WorkerPool

CONSTANT MaxItems

ASSUME MaxItemsAssumption == MaxItems \in Nat

VARIABLE call

CallInit == \E n \in 0..MaxItems : call = StartPool(n)

Resolve(w) == /\ w \in Busy(call)
              /\ call' = ResolveItem(call, w)

Reject(w) == /\ w \in Busy(call)
             /\ call' = RejectItem(call, w)

CallNext == \E w \in Workers : Resolve(w) \/ Reject(w)

\* The mapper is a database transaction: it returns or throws eventually.
CallFairness == \A w \in Workers : WF_call(Resolve(w) \/ Reject(w))

CallSpec == CallInit /\ [][CallNext]_call /\ CallFairness
-----------------------------------------------------------------------------
\* The type of a call's record; a worker only ever holds an item of the list.
TypeOK == /\ call \in PoolRecords
          /\ call.size <= MaxItems
          /\ Held(call) \subseteq 1..call.size

\* The mapper is called once for every item the shared counter has passed and
\* for no other: `nextIndex++` before the await is what makes this so.
EachItemOnce == ItemsOnce(call)

\* What the caller is told is true: the call resolves only when the mapper has
\* returned for every item, and it is rejected exactly when it threw for one.
PromiseSound == PromiseTrue(call)

\* A failure does not stop the list: an item is left without a mapper call only
\* when every worker that was created has thrown.
LeftOverOnlyIfAllFailed ==
    Busy(call) = {} /\ HasNext(call) =>
        Cardinality(call.rejected) = Cardinality(Spawned(call.size))

\* Once the call has settled it stays settled, though workers may still be busy.
SettledOnce ==
    [][call.promise # "pending" => call'.promise = call.promise]_call

\* A call, seen without its workers, is a BoundedMap: they never do together
\* what one careful scheduler with Concurrency places would not have done.
Map == INSTANCE BoundedMap WITH
           Places  <- Concurrency,
           size    <- call.size,
           started <- call.nextIndex,
           running <- Held(call),
           done    <- call.resolved,
           failed  <- call.rejected,
           answer  <- call.promise

ImplementsMap == Map!Spec

\* The caller always gets its answer.
Settles == <>(call.promise # "pending")
=============================================================================
