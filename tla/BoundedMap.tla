----------------------------- MODULE BoundedMap -----------------------------
(***************************************************************************)
(* What a caller of mapWithConcurrency (src/src/utils/index.ts) may rely   *)
(* on, without workers or a shared counter.  Items are taken in the order  *)
(* of the list, at most Places at a time.  One that succeeds gives its     *)
(* place to the next; one that fails takes its place with it.  The caller  *)
(* hears of the first failure at once, and of success when all succeeded.  *)
(***************************************************************************)
EXTENDS Integers, FiniteSets

CONSTANTS Places, MaxItems

VARIABLES
    size,      \* the number of items
    started,   \* items 1..started have been given to the mapper
    running,   \* those it has not answered for
    done,      \* those it returned for
    failed,    \* those it threw for
    answer     \* what the caller was told

vars == <<size, started, running, done, failed, answer>>

Init ==
    /\ size \in 0..MaxItems
    /\ started = IF size <= Places THEN size ELSE Places
    /\ running = 1..started
    /\ done = {}
    /\ failed = {}
    /\ answer = IF size = 0 THEN "resolved" ELSE "pending"

\* The place of an item that succeeded goes to the next one, if there is one.
Successor == IF started < size THEN {started + 1} ELSE {}

Succeed(i) ==
    /\ i \in running
    /\ running' = (running \ {i}) \cup Successor
    /\ started' = IF started < size THEN started + 1 ELSE started
    /\ done' = done \cup {i}
    /\ answer' = IF done' = 1..size THEN "resolved" ELSE answer
    /\ UNCHANGED <<size, failed>>

Fail(i) ==
    /\ i \in running
    /\ running' = running \ {i}
    /\ failed' = failed \cup {i}
    /\ answer' = "rejected"
    /\ UNCHANGED <<size, started, done>>

Next == \E i \in running : Succeed(i) \/ Fail(i)

Spec == Init /\ [][Next]_vars
=============================================================================
