--------------------------- MODULE AuditLogPaging ---------------------------
(***************************************************************************)
(* Reading the audit log in pages (AuditLogService.findAll, the cursor)    *)
(* while transactions write it (AuditLogService.record inside a service's  *)
(* $transaction).                                                          *)
(*                                                                         *)
(* An event's place in the log is its key, createdAt and then id.  Both    *)
(* are drawn when the row is inserted or before (the id from a sequence,   *)
(* createdAt from now(), which the database reads as the start of the      *)
(* transaction and the client library as the time of the call: either is   *)
(* possible here), and the row is seen when its transaction commits.       *)
(* TIMESTAMP(3) and the cursor's ISO string both keep milliseconds, so a   *)
(* cursor is a key.                                                        *)
(***************************************************************************)
EXTENDS Naturals, Sequences, FiniteSets, SequencesExt

CONSTANTS
    Events,     \* the events that may be written, each by one transaction
    EntityOf,   \* the row an event is about, which its transaction locks
    Matching,   \* the events the reader's filters select
    Limit,      \* the page size the reader asks for
    MaxClock,   \* bound on time, in the milliseconds of createdAt
    MaxAsks     \* bound on the reader's requests

ASSUME PagingAssumption ==
    /\ IsFiniteSet(Events) /\ Matching \subseteq Events
    /\ Limit \in Nat \ {0} /\ MaxClock \in Nat /\ MaxAsks \in Nat

VARIABLES
    clock,
    tx,        \* tx[e]: the transaction that writes event e, see Transaction
    nextId,    \* the sequence of AuditLog.id
    committed, \* the events committed, in that order
    \* the reader: what is on the screen, newest first, and the answer in hand
    seen, answer, asks,
    \* history, read by no action
    before,    \* the events committed when the first page was read
    overlapped \* the events whose transaction was open during some query

writing == <<tx, nextId, committed>>
reading == <<seen, answer, asks, before, overlapped>>
vars == <<clock, writing, reading>>

Transaction ==
    [pc : {"new", "open", "locked", "inserted", "done"},
     began : 0..MaxClock, at : 0..MaxClock, id : Nat]

\* What findAll has to say: the page, and whether there is more either way.
Answer ==
    [pc : {"none", "queried", "given"}, direction : {"older", "newer"},
     page : Seq(Events), newer : BOOLEAN, older : BOOLEAN,
     promised : BOOLEAN]   \* history: the answer before said there was such a page

Init ==
    /\ clock = 0
    /\ tx = [e \in Events |-> [pc |-> "new", began |-> 0, at |-> 0, id |-> 0]]
    /\ nextId = 1
    /\ committed = <<>>
    /\ seen = <<>>
    /\ answer = [pc |-> "none", direction |-> "older", page |-> <<>>,
                 newer |-> FALSE, older |-> FALSE, promised |-> FALSE]
    /\ asks = 0
    /\ before = {} /\ overlapped = {}
-----------------------------------------------------------------------------
Visible == ToSet(committed)
Open == {e \in Events : tx[e].pc \in {"open", "locked", "inserted"}}

BeginTx(e) ==
    /\ tx[e].pc = "new"
    /\ tx' = [tx EXCEPT ![e].pc = "open", ![e].began = clock]
    /\ UNCHANGED <<clock, nextId, committed, reading>>

\* The event is recorded before the row is written.
LockRow_BugEventFirst(e) ==
    /\ tx[e].pc = "open"
    /\ tx' = [tx EXCEPT ![e].pc = "locked"]
    /\ UNCHANGED <<clock, nextId, committed, reading>>

\* The business write: it waits for the row's lock.
LockRow(e) ==
    /\ tx[e].pc = "open"
    /\ \A other \in Open \ {e} :
          EntityOf[other] = EntityOf[e] => tx[other].pc = "open"
    /\ tx' = [tx EXCEPT ![e].pc = "locked"]
    /\ UNCHANGED <<clock, nextId, committed, reading>>

\* record: tx.auditLog.create.
InsertEvent(e) ==
    /\ tx[e].pc = "locked"
    /\ \E now \in {tx[e].began, clock} :
          tx' = [tx EXCEPT ![e].pc = "inserted", ![e].at = now, ![e].id = nextId]
    /\ nextId' = nextId + 1
    /\ UNCHANGED <<clock, committed, reading>>

CommitTx(e) ==
    /\ tx[e].pc = "inserted"
    /\ tx' = [tx EXCEPT ![e].pc = "done"]
    /\ committed' = Append(committed, e)
    /\ UNCHANGED <<clock, nextId, reading>>

RollbackTx(e) ==
    /\ e \in Open
    /\ tx' = [tx EXCEPT ![e].pc = "done"]
    /\ UNCHANGED <<clock, nextId, committed, reading>>

Tick ==
    /\ clock < MaxClock
    /\ clock' = clock + 1
    /\ UNCHANGED <<writing, reading>>
-----------------------------------------------------------------------------
\* The order of the pages: createdAt, then id.
NewerThan(e, f) ==
    \/ tx[e].at > tx[f].at
    \/ tx[e].at = tx[f].at /\ tx[e].id > tx[f].id

\* The cursor's own row is taken along (lte, gte).
Beyond_BugInclusive(cursor, direction) ==
    {e \in Visible \cap Matching :
        IF direction = "older" THEN ~NewerThan(e, cursor) ELSE ~NewerThan(cursor, e)}

\* The cursor is a date.
Beyond_BugDateOnly(cursor, direction) ==
    {e \in Visible \cap Matching :
        IF direction = "older" THEN tx[cursor].at > tx[e].at ELSE tx[e].at > tx[cursor].at}

\* cursorBoundary, together with the filters: the rows to one side of a cursor.
Beyond(cursor, direction) ==
    {e \in Visible \cap Matching :
        IF direction = "older" THEN NewerThan(cursor, e) ELSE NewerThan(e, cursor)}

NewestFirst(set) ==
    CHOOSE s \in SetToSeqs(set) : \A i, j \in DOMAIN s : i < j => NewerThan(s[i], s[j])

\* A newer page, too, is ordered by descending date before it is cut.
Page_BugFarthest(rows, direction) ==
    LET s == NewestFirst(rows)
        n == IF Len(s) < Limit THEN Len(s) ELSE Limit
    IN SubSeq(s, 1, n)

\* findMany with limit + 1: the page nearest to the cursor, newest first, and
\* whether a row was left over.
Page(rows, direction) ==
    LET s == NewestFirst(rows)
        n == IF Len(s) < Limit THEN Len(s) ELSE Limit
    IN IF direction = "older" THEN SubSeq(s, 1, n) ELSE SubSeq(s, Len(s) - n + 1, Len(s))

\* A full page is taken for a sign of more.
More_BugFull(rows) == Cardinality(rows) >= Limit

More(rows) == Cardinality(rows) > Limit

\* findAll without a cursor is one query.
FirstPage ==
    /\ asks = 0 /\ MaxAsks > 0
    /\ LET rows == Visible \cap Matching IN
       /\ answer' = [pc |-> "given", direction |-> "older", page |-> Page(rows, "older"),
                     newer |-> FALSE, older |-> More(rows), promised |-> FALSE]
       /\ seen' = Page(rows, "older")
       /\ before' = rows
    /\ overlapped' = overlapped \cup Open
    /\ asks' = 1
    /\ UNCHANGED <<clock, writing>>

\* findAll with a cursor: first the page, from the cursor of the first or last row
\* seen ...
Ask(direction, cursor) ==
    LET rows == Beyond(cursor, direction) IN
    /\ answer.pc = "given" /\ asks < MaxAsks
    /\ answer' = [pc |-> "queried", direction |-> direction, page |-> Page(rows, direction),
                  newer |-> direction = "newer" /\ More(rows),
                  older |-> direction = "older" /\ More(rows),
                  promised |-> answer.direction = direction
                                 /\ (IF direction = "older" THEN answer.older ELSE answer.newer)]
    /\ seen' = IF direction = "older" THEN seen \o Page(rows, direction)
               ELSE Page(rows, direction) \o seen
    /\ overlapped' = overlapped \cup Open
    /\ asks' = asks + 1
    /\ UNCHANGED <<clock, writing, before>>

AskOlder == seen # <<>> /\ Ask("older", Last(seen))
AskNewer == seen # <<>> /\ Ask("newer", Head(seen))

\* ... then whether there is anything on its other side (existsAcrossBoundary,
\* from the page's row on that side, or from the cursor if the page is empty).
Probe ==
    /\ answer.pc = "queried"
    /\ LET page == answer.page IN
       IF answer.direction = "older"
       THEN LET anchor == IF page = <<>> THEN Last(seen) ELSE Head(page) IN
            answer' = [answer EXCEPT !.pc = "given", !.newer = Beyond(anchor, "newer") # {}]
       ELSE LET anchor == IF page = <<>> THEN Head(seen) ELSE Last(page) IN
            answer' = [answer EXCEPT !.pc = "given", !.older = Beyond(anchor, "older") # {}]
    /\ UNCHANGED <<clock, writing, seen, asks, before, overlapped>>

Next ==
    \/ \E e \in Events :
          BeginTx(e) \/ LockRow(e) \/ InsertEvent(e) \/ CommitTx(e) \/ RollbackTx(e)
    \/ Tick
    \/ FirstPage \/ AskOlder \/ AskNewer \/ Probe

Spec == Init /\ [][Next]_vars
-----------------------------------------------------------------------------
\* However many pages are put one under (or over) the other, and whatever was
\* written in between: newest first, and no event twice.
SeenInOrder ==
    \A i, j \in DOMAIN seen : i < j => NewerThan(seen[i], seen[j])

\* Once an older page says it is the last, all that was there when the first page
\* was read has been shown.
WalkComplete ==
    answer.pc = "given" /\ answer.direction = "older" /\ ~answer.older =>
        before \subseteq ToSet(seen)

\* Between the newest and the oldest event shown only those are missing whose
\* transaction was open while a page was read.
GapsOverlapped ==
    \A e \in (Visible \cap Matching) \ ToSet(seen) :
        seen # <<>> /\ NewerThan(Head(seen), e) /\ NewerThan(e, Last(seen)) =>
            e \in overlapped

\* A page that was promised is not empty, and a page that is not empty knows the
\* way back to where the reader came from.
FlagsHonest ==
    answer.pc = "given" /\ asks > 1 =>
        /\ answer.promised => answer.page # <<>>
        /\ answer.page # <<>> =>
              IF answer.direction = "older" THEN answer.newer ELSE answer.older

\* Events about one row lie in the log by id as they happened; a createdAt that was
\* drawn at the start of the transaction may say otherwise.
IdsFollowCommits ==
    \A i, j \in DOMAIN committed :
        i < j /\ EntityOf[committed[i]] = EntityOf[committed[j]] =>
            tx[committed[i]].id < tx[committed[j]].id

\* "does not include a newly inserted row in the next older page"
\* (audit-log.service.spec.ts): what an older page shows was there when the first
\* page was read.
OlderPageHasNothingNew ==
    answer.pc = "given" /\ answer.direction = "older" =>
        ToSet(answer.page) \subseteq before
=============================================================================
