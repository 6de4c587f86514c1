------------------------------- MODULE SyncPull -------------------------------
(***************************************************************************)
(* One device catching up by sync/service.py's pull_entries while others   *)
(* write.  A pull answers from two statements, one over sync_entries and   *)
(* one over space_entry_removals, each paged by `server_ts` after the one  *)
(* cursor; at READ COMMITTED each sees what is committed when it starts.   *)
(* A write is stamped with the server's clock, then waits for its row, and *)
(* becomes visible when its transaction commits, in any order.             *)
(*                                                                         *)
(* One space, of which the device's account is a member throughout, with   *)
(* its history floor.  SyncStore says which writes push and takedown make; *)
(* here a writer stands for either: it leaves a row in the space or out of *)
(* it, and records the departure it makes.  The `entry_type` filter and    *)
(* what entry_view trims are left out: the device asks for "all" and the   *)
(* trim does not change which rows are returned.  Its live socket is too:  *)
(* what a pull promises, it promises to a device that was offline.         *)
(***************************************************************************)
EXTENDS Integers, FiniteSets

CONSTANTS
    Keys,      \* (client_id, entry_type) pairs
    Mine,      \* those the device's own account wrote
    Earlier,   \* those already in the space when the device first pulls
    Writers,   \* connections pushing or taking down
    Floor,     \* the membership's history_from_ts, 0 for none
    Limit,     \* the pull's `limit`
    MaxWrites, \* bound: rows written
    MaxLost,   \* bound: answers that never reach the device
    MaxNow     \* bound: the server's millisecond clock stops at MaxNow

ASSUME PullConstants ==
    /\ IsFiniteSet(Keys) /\ Mine \subseteq Keys /\ Earlier \subseteq Keys
    /\ Floor \in Nat /\ Limit \in Nat \ {0}
    /\ MaxWrites \in Nat /\ MaxLost \in Nat /\ MaxNow \in Nat \ {0}

VARIABLES
    rows,      \* sync_entries, committed
    removals,  \* space_entry_removals, committed: server_ts, 0 for none
    txn,       \* each writer's uncommitted rows
    now,       \* _now_ms()
    pull,      \* the pull under way
    cursor,    \* the device's cursor
    held,      \* the entries on the device
    scanned,   \* history: the highest stamp a pull has returned or stepped over
    behind,    \* history: a row was committed at or below `scanned` or below its last stamp
    skewed,    \* history: a commit came between the two statements of a pull
    writes,    \* rows written, at most MaxWrites
    lost       \* answers lost, at most MaxLost

vars == <<rows, removals, txn, now, pull, cursor, held, scanned, behind, skewed, writes, lost>>
device == <<pull, cursor, held, scanned, lost>>
server == <<rows, removals, txn, now, behind, skewed, writes>>

Row == [ts: 0..MaxNow, shared: BOOLEAN]
Nothing == [ts |-> 0, shared |-> FALSE]

\* The cursor of a page that was not cut short.
CaughtUp == 0

NoPull == [open |-> FALSE, page |-> {}, found |-> [k \in Keys |-> Nothing], next |-> CaughtUp]

Init ==
    /\ rows = [k \in Keys |-> IF k \in Earlier THEN [ts |-> 1, shared |-> TRUE] ELSE Nothing]
    /\ removals = [k \in Keys |-> 0]
    /\ txn = [w \in Writers |-> [k \in Keys |-> Nothing]]
    /\ now = 1
    /\ pull = NoPull
    /\ cursor = 0
    /\ held = [k \in Keys |-> Nothing]
    /\ scanned = 0 /\ behind = FALSE /\ skewed = FALSE
    /\ writes = 0 /\ lost = 0

-----------------------------------------------------------------------------
(* Writers *)

Wrote(w) == {k \in Keys : txn[w][k].ts # 0}

\* Writes row k, stamped before it waited for the row's lock, and after the rows the
\* transaction wrote before; the row is locked from here to the commit.
Write(w, k, shared) ==
    /\ writes < MaxWrites
    /\ \A o \in Writers : k \notin Wrote(o)
    /\ \E stamp \in 1..now :
          /\ \A j \in Wrote(w) : txn[w][j].ts <= stamp
          /\ txn' = [txn EXCEPT ![w] = [txn[w] EXCEPT ![k] = [ts |-> stamp, shared |-> shared]]]
    /\ writes' = writes + 1
    /\ UNCHANGED <<rows, removals, now, behind, skewed, device>>

\* The rows become visible, with a record of each that leaves the space.
Commit(w) ==
    /\ Wrote(w) # {}
    /\ rows' = [k \in Keys |-> IF k \in Wrote(w) THEN txn[w][k] ELSE rows[k]]
    /\ removals' = [k \in Keys |->
         IF k \in Wrote(w) /\ rows[k].shared /\ ~txn[w][k].shared THEN txn[w][k].ts ELSE removals[k]]
    /\ txn' = [txn EXCEPT ![w] = [k \in Keys |-> Nothing]]
    /\ behind' = (behind \/ \E k \in Wrote(w) : txn[w][k].ts <= scanned \/ txn[w][k].ts < rows[k].ts)
    /\ skewed' = (skewed \/ pull.open)
    /\ UNCHANGED <<now, writes, device>>

Abort(w) ==
    /\ Wrote(w) # {}
    /\ txn' = [txn EXCEPT ![w] = [k \in Keys |-> Nothing]]
    /\ UNCHANGED <<rows, removals, now, behind, skewed, writes, device>>

Tick ==
    /\ now < MaxNow
    /\ now' = now + 1
    /\ UNCHANGED <<rows, removals, txn, behind, skewed, writes, device>>

-----------------------------------------------------------------------------
(* Pull *)

Highest(S, least) == CHOOSE t \in S \cup {least} : \A u \in S \cup {least} : u <= t

Stamps(S, stamp) == {stamp[k] : k \in S}

UpTo(S, stamp, t) == {k \in S : stamp[k] <= t}
Below(S, stamp, t) == {k \in S : stamp[k] < t}

\* The stamp of row Limit + 1 in order, the first that does not fit the page.
Boundary(S, stamp) ==
    CHOOSE t \in Stamps(S, stamp) :
        /\ Cardinality(Below(S, stamp, t)) <= Limit
        /\ Cardinality(UpTo(S, stamp, t)) > Limit

\* Mutant of Page: a page trimmed to nothing is returned as it is.
Page_Empty(S, stamp) ==
    IF Cardinality(S) <= Limit THEN [rows |-> S, next |-> CaughtUp]
    ELSE LET below == Below(S, stamp, Boundary(S, stamp))
         IN [rows |-> below, next |-> Highest(Stamps(below, stamp), cursor)]

\* Mutant of Page: the cursor steps past the timestamp it returned whole.
Page_OffByOne(S, stamp) ==
    IF Cardinality(S) <= Limit THEN [rows |-> S, next |-> CaughtUp]
    ELSE LET b == Boundary(S, stamp)
         IN [rows |-> UpTo(S, stamp, b), next |-> b + 1]

\* _page: at most Limit rows, never part of the rows of one stamp; a stamp with
\* more rows than that is returned whole.
Page(S, stamp) ==
    IF Cardinality(S) <= Limit THEN [rows |-> S, next |-> CaughtUp]
    ELSE LET b == Boundary(S, stamp)
             below == Below(S, stamp, b)
         IN IF below # {}
            THEN [rows |-> below, next |-> Highest(Stamps(below, stamp), 0)]
            ELSE [rows |-> UpTo(S, stamp, b), next |-> b]

Stamp == [k \in Keys |-> rows[k].ts]

Visible(k) == rows[k].ts # 0 /\ (k \in Mine \/ (rows[k].shared /\ rows[k].ts >= Floor))

\* The entries after the cursor, and the removals.
NewEntries == {k \in Keys : Visible(k) /\ rows[k].ts > cursor}
NewRemovals == {k \in Keys : removals[k] > cursor /\ removals[k] >= Floor}

\* Mutant of Merge: the entry stream's position alone.
Merge_EntriesOnly(entriesNext, removalsNext) == entriesNext

\* merge_cursors: the lower of the two truncation points.
Merge(entriesNext, removalsNext) ==
    IF entriesNext = CaughtUp THEN removalsNext
    ELSE IF removalsNext = CaughtUp \/ entriesNext <= removalsNext THEN entriesNext
    ELSE removalsNext

\* The first statement: a page of entries.
PullEntries ==
    /\ ~pull.open
    /\ LET page == Page(NewEntries, Stamp)
       IN /\ pull' = [open |-> TRUE, page |-> page.rows, next |-> page.next,
                       found |-> [k \in Keys |-> IF k \in page.rows THEN rows[k] ELSE Nothing]]
          /\ scanned' = Highest({rows[k].ts : k \in page.rows}, scanned)
    /\ UNCHANGED <<cursor, held, lost, server>>

\* What the device does with an answer: removals first, then entries.  A
\* removal takes an entry of its own out of the space, and drops another's.
Applied(gone) ==
    [k \in Keys |->
        IF k \in pull.page THEN pull.found[k]
        ELSE IF k \in gone THEN [held[k] EXCEPT !.shared = FALSE, !.ts = IF k \in Mine THEN held[k].ts ELSE 0]
        ELSE held[k]]

\* It resumes from next_cursor, or from the newest entry when there is none.
Resumed(next) ==
    IF next # CaughtUp THEN next ELSE Highest({pull.found[k].ts : k \in pull.page}, cursor)

\* The second statement, a page of removals, and the answer reaches the device.
PullRemovals ==
    /\ pull.open
    /\ LET page == Page(NewRemovals, removals)
           next == Merge(pull.next, page.next)
       IN /\ held' = Applied(page.rows)
          /\ cursor' = Resumed(next)
          /\ scanned' = Highest({removals[k] : k \in page.rows} \cup {cursor'}, scanned)
    /\ pull' = NoPull
    /\ UNCHANGED <<lost, server>>

\* The request or its answer is lost: the device asks again from its cursor.
PullLost ==
    /\ pull.open
    /\ lost < MaxLost
    /\ lost' = lost + 1
    /\ pull' = NoPull
    /\ UNCHANGED <<cursor, held, scanned, server>>

WriterStep(w) ==
    \/ \E k \in Keys, shared \in BOOLEAN : Write(w, k, shared)
    \/ Commit(w)
    \/ Abort(w)

Next ==
    \/ \E w \in Writers : WriterStep(w)
    \/ Tick
    \/ PullEntries
    \/ PullRemovals
    \/ PullLost

\* The device keeps asking, and a request that is not lost is answered.
Fairness == WF_vars(PullEntries) /\ WF_vars(PullRemovals)

Spec == Init /\ [][Next]_vars /\ Fairness

-----------------------------------------------------------------------------
(* Properties *)

\* Every variable has its type: a cursor is a stamp some row or record had.
TypeOK ==
    /\ rows \in [Keys -> Row]
    /\ removals \in [Keys -> 0..MaxNow]
    /\ txn \in [Writers -> [Keys -> Row]]
    /\ now \in 1..MaxNow
    /\ pull \in [open: BOOLEAN, page: SUBSET Keys, found: [Keys -> Row], next: 0..MaxNow]
    /\ cursor \in 0..MaxNow
    /\ held \in [Keys -> Row]
    /\ scanned \in 0..MaxNow
    /\ behind \in BOOLEAN /\ skewed \in BOOLEAN
    /\ writes \in 0..MaxWrites /\ lost \in 0..MaxLost

\* An entry out of the space, whose record the device's cursor has passed.
Withdrawn(k) == ~rows[k].shared /\ removals[k] \in Floor..cursor

\* "The cursor may only advance to a point both are complete to": the device
\* holds the last version of every entry it may see stamped at or before its
\* cursor, and no entry whose withdrawal is stamped at or before it.
Complete ==
    \A k \in Keys :
        /\ Visible(k) /\ rows[k].ts <= cursor => held[k] = rows[k]
        /\ Withdrawn(k) => ~held[k].shared

\* Paging, the merge of the two streams and lost answers never step the device
\* over anything, when no row is committed with a stamp a pull has passed or below
\* the row's last one, and nothing is committed between a pull's two statements.
CompleteToCursor == behind \/ skewed \/ Complete

\* The same for entries, whatever is committed behind the cursor.
CompleteUnlessSkewed == skewed \/ Complete

Converged == \A k \in Keys : held[k] = IF Visible(k) THEN rows[k] ELSE Nothing

\* A device that keeps pulling ends with exactly the entries it may see, with
\* the same two exceptions.
Converges == <>[](behind \/ skewed \/ Converged)
=============================================================================
