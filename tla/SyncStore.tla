------------------------------ MODULE SyncStore ------------------------------
(***************************************************************************)
(* The shared entry store: sync/service.py's push, spaces/service.py's     *)
(* remove_entry_from_space, and the membership rows both of them read.     *)
(*                                                                         *)
(* Every request is a PostgreSQL transaction at READ COMMITTED: a          *)
(* statement sees what is committed when it starts, plus the transaction's *)
(* own writes.  A push holds its account's advisory lock from its first    *)
(* statement to its commit; a takedown and a membership change take no     *)
(* lock but those PostgreSQL takes on the rows they write.  So a push is   *)
(* split where another transaction can come between two of its statements: *)
(* begin (lock, count), and for each entry look up its row, ask for the    *)
(* memberships, take the stamp, look for a rival, write; then commit.  The *)
(* write waits for whoever holds a row it needs, long after the stamp.     *)
(*                                                                         *)
(* Abstracted: ciphertext, wrapped keys, pin flag and device id, which no  *)
(* decision here reads (an oversized entry is a conflict that reads and    *)
(* writes nothing, so it has no action); blobs, which BlobStore models;    *)
(* `client_id` with `entry_type` is one member of Keys.                    *)
(***************************************************************************)
EXTENDS Integers, FiniteSets

CONSTANTS
    Users,           \* accounts
    Devices,         \* signed-in devices; each has one push request under way at most
    Spaces,
    Keys,            \* (client_id, entry_type) pairs
    DeviceUser,      \* the account a device is signed in to
    SpaceOwner,      \* the account that created a space
    MaxLive,         \* settings.max_entries_per_user
    TombstoneFactor, \* _TOMBSTONE_CAP_FACTOR
    MaxBatch,        \* settings.max_push_batch
    MaxStamp,        \* bound: client `updated_at` values are 1..MaxStamp
    MaxRequests,     \* bound: pushes, takedowns and departures begun
    MaxNow,          \* bound: the server's millisecond clock stops at MaxNow
    None             \* no takedown, no entry

ASSUME StoreConstants ==
    /\ IsFiniteSet(Keys)
    /\ DeviceUser \in [Devices -> Users]
    /\ SpaceOwner \in [Spaces -> Users]
    /\ MaxLive \in Nat /\ TombstoneFactor \in Nat
    /\ MaxBatch \in Nat /\ MaxStamp \in Nat
    /\ MaxRequests \in Nat /\ MaxNow \in Nat \ {0}

VARIABLES
    rows,       \* sync_entries, committed: one row per account and key
    removals,   \* space_entry_removals, committed: the record's server_ts, 0 for none
    members,    \* space_memberships: the accounts in each space, none once it is deleted
    now,        \* _now_ms()
    push,       \* each device's push transaction
    takedown,   \* each account's remove_entry_from_space transaction
    overlapped, \* history: some transaction ran while another was open
    stripped,   \* history: rows a takedown wrote over while a push already had its stamp for them
    requests    \* requests begun, at most MaxRequests

history == <<overlapped, stripped>>
vars == <<rows, removals, members, now, push, takedown, history, requests>>

-----------------------------------------------------------------------------
(* Rows, entries and transactions *)

Row == [state: {"absent", "live", "dead"}, updated: 0..MaxStamp,
        ts: 0..MaxNow, spaces: SUBSET Spaces]

NoRow == [state |-> "absent", updated |-> 0, ts |-> 0, spaces |-> {}]

Entry == [key: Keys, updated: 1..MaxStamp, dead: BOOLEAN, spaces: SUBSET Spaces]

PushTxn ==
    [pc: {"idle", "open", "found", "admitted", "stamped", "checked"},
     live: Int, tombstones: Int, count: 0..MaxBatch,
     entry: Entry \cup {None}, found: Row, stamp: 0..MaxNow,
     written: [Keys -> Row], left: [Spaces -> [Keys -> 0..MaxNow]]]

NoPush ==
    [pc |-> "idle", live |-> 0, tombstones |-> 0, count |-> 0,
     entry |-> None, found |-> NoRow, stamp |-> 0,
     written |-> [k \in Keys |-> NoRow], left |-> [s \in Spaces |-> [k \in Keys |-> 0]]]

Takedown == [space: Spaces, key: Keys, ts: 0..MaxNow,
             found: [Users -> Row]]

Exists(s) == SpaceOwner[s] \in members[s]

Busy == \/ \E d \in Devices : push[d].pc # "idle"
        \/ \E u \in Users : takedown[u] # None

Count(table, state) == Cardinality({k \in Keys : table[k].state = state})

\* What a transaction's own statements see: its writes over what is committed.
Overlay(txn, table) ==
    [k \in Keys |-> IF txn.written[k].state = "absent" THEN table[k] ELSE txn.written[k]]

\* The account's rows as the push open on device d sees them.
View(d) == Overlay(push[d], rows[DeviceUser[d]])

\* The ORM sends only the columns whose value differs from the one it loaded,
\* so a column set to its loaded value keeps what is in the table by then.
Column(new, loaded, current) == IF new = loaded THEN current ELSE new

Init ==
    /\ rows = [u \in Users |-> [k \in Keys |-> NoRow]]
    /\ removals = [s \in Spaces |-> [k \in Keys |-> 0]]
    /\ members = [s \in Spaces |-> {SpaceOwner[s]}]
    /\ now = 1
    /\ push = [d \in Devices |-> NoPush]
    /\ takedown = [u \in Users |-> None]
    /\ overlapped = FALSE /\ stripped = {}
    /\ requests = 0

-----------------------------------------------------------------------------
(* Push *)

\* A request arrives: within the bound, and noting whether another is open.
Arrive ==
    /\ requests < MaxRequests
    /\ requests' = requests + 1
    /\ overlapped' = (overlapped \/ Busy)
    /\ UNCHANGED stripped

\* Mutant of LockFree: the advisory lock is not taken.
LockFree_NoLock(d) == d \in Devices

LockFree(d) ==
    \A o \in Devices : DeviceUser[o] = DeviceUser[d] => push[o].pc = "idle"

\* An entry has its stamp and is still to be written.
Stamped(txn) == txn.pc \in {"stamped", "checked"}

\* Takes the account's advisory lock and counts its rows into the two budgets.
PushBegin(d) ==
    /\ push[d].pc = "idle"
    /\ LockFree(d)
    /\ LET table == rows[DeviceUser[d]]
       IN push' = [push EXCEPT ![d] =
            [NoPush EXCEPT !.pc = "open",
                           !.live = MaxLive - Count(table, "live"),
                           !.tombstones = TombstoneFactor * MaxLive - Count(table, "dead")]]
    /\ Arrive
    /\ UNCHANGED <<rows, removals, members, now, takedown>>

\* Mutant of PushLookup: the schema's batch limit is gone.
PushLookup_NoLimit(d, e) ==
    /\ push[d].pc = "open"
    /\ push' = [push EXCEPT ![d] =
         [push[d] EXCEPT !.pc = "found", !.count = push[d].count + 1,
                         !.entry = e, !.found = View(d)[e.key]]]
    /\ UNCHANGED <<rows, removals, members, now, takedown, history, requests>>

\* The batch's next entry: its row is read.
PushLookup(d, e) ==
    /\ push[d].pc = "open"
    /\ push[d].count < MaxBatch
    /\ push' = [push EXCEPT ![d] =
         [push[d] EXCEPT !.pc = "found", !.count = push[d].count + 1,
                         !.entry = e, !.found = View(d)[e.key]]]
    /\ UNCHANGED <<rows, removals, members, now, takedown, history, requests>>

Added(txn) == txn.entry.spaces \ txn.found.spaces
Dropped(txn) == txn.found.spaces \ txn.entry.spaces

\* Mutant of MayAdd: membership is asked for on insert only.
MayAdd_OnInsert(d) ==
    push[d].found.state = "absent" => \A s \in Added(push[d]) : DeviceUser[d] \in members[s]

MayAdd(d) == \A s \in Added(push[d]) : DeviceUser[d] \in members[s]

Buries(txn) == txn.entry.dead /\ txn.found.state = "live"
Revives(txn) == ~txn.entry.dead /\ txn.found.state = "dead"
Inserts(txn) == txn.found.state = "absent"

Stale(txn) == ~Inserts(txn) /\ ~Buries(txn) /\ txn.entry.updated <= txn.found.updated

\* Mutant of Rival: the update path does not look for a rival row.
Rival_OnInsert(d) ==
    /\ Inserts(push[d])
    /\ \E u \in Users \ {DeviceUser[d]} :
          rows[u][push[d].entry.key].spaces \cap Added(push[d]) # {}

\* _belongs_to_someone_else: another account's committed row with this key
\* already carries a space this push adds.
Rival(d) ==
    \E u \in Users \ {DeviceUser[d]} :
        rows[u][push[d].entry.key].spaces \cap Added(push[d]) # {}

\* Mutant of Full: bringing a deleted row back takes no live slot.
Full_FreeRevival(txn) ==
    Inserts(txn) /\ (IF txn.entry.dead THEN txn.tombstones ELSE txn.live) <= 0

\* account_full: a new or revived live row needs a live slot, a new tombstone a
\* tombstone slot.
Full(txn) ==
    \/ (Inserts(txn) \/ Revives(txn)) /\ ~txn.entry.dead /\ txn.live <= 0
    \/ Inserts(txn) /\ txn.entry.dead /\ txn.tombstones <= 0

\* This entry is over; the next one of the batch is looked up.
Ends(txn) == [txn EXCEPT !.pc = "open", !.entry = None, !.found = NoRow, !.stamp = 0]

\* The transaction is over, and its lock released.
Closed(d) ==
    /\ push' = [push EXCEPT ![d] = NoPush]
    /\ stripped' = {row \in stripped : row[1] # DeviceUser[d]}

\* 422 not_a_member: the whole batch is rolled back.
PushRefuse(d) ==
    /\ push[d].pc = "found"
    /\ ~MayAdd(d)
    /\ Closed(d)
    /\ UNCHANGED <<rows, removals, members, now, takedown, overlapped, requests>>

\* The caller may write into every space this entry is added to.
PushAdmit(d) ==
    /\ push[d].pc = "found"
    /\ MayAdd(d)
    /\ push' = [push EXCEPT ![d] = [push[d] EXCEPT !.pc = "admitted"]]
    /\ UNCHANGED <<rows, removals, members, now, takedown, history, requests>>

\* server_ts is taken: before the rival is looked for, and before the write and
\* what it waits for.
PushStamp(d) ==
    /\ push[d].pc = "admitted"
    /\ ~Stale(push[d])
    /\ push' = [push EXCEPT ![d] = [push[d] EXCEPT !.pc = "stamped", !.stamp = now]]
    /\ UNCHANGED <<rows, removals, members, now, takedown, history, requests>>

\* No rival, and a slot to spare.
PushCheck(d) ==
    /\ push[d].pc = "stamped"
    /\ ~Rival(d) /\ ~Full(push[d])
    /\ push' = [push EXCEPT ![d] = [push[d] EXCEPT !.pc = "checked"]]
    /\ UNCHANGED <<rows, removals, members, now, takedown, history, requests>>

\* stale_update, not_your_entry or account_full: this entry writes nothing.
PushConflict(d) ==
    /\ \/ push[d].pc = "admitted" /\ Stale(push[d])
       \/ push[d].pc = "stamped" /\ (Rival(d) \/ Full(push[d]))
    /\ push' = [push EXCEPT ![d] = Ends(push[d])]
    /\ UNCHANGED <<rows, removals, members, now, takedown, history, requests>>

\* Mutant of NewRow: an update does not restamp the row.
NewRow_StaleTs(d) ==
    LET txn == push[d]
        current == View(d)[txn.entry.key]
    IN [state |-> IF txn.entry.dead THEN "dead" ELSE "live",
        updated |-> txn.entry.updated,
        ts |-> IF Inserts(txn) THEN txn.stamp ELSE current.ts,
        spaces |-> Column(txn.entry.spaces, txn.found.spaces, current.spaces)]

\* Mutant of NewLeft: a tombstone that drops its spaces records nothing.
NewLeft_LiveOnly(txn) ==
    [s \in Spaces |-> IF ~txn.entry.dead /\ s \in Dropped(txn)
                      THEN [txn.left[s] EXCEPT ![txn.entry.key] = txn.stamp]
                      ELSE txn.left[s]]

\* The row this entry becomes, and the removal records of the spaces it left.
NewRow(d) ==
    LET txn == push[d]
        current == View(d)[txn.entry.key]
    IN [state |-> IF txn.entry.dead THEN "dead" ELSE "live",
        updated |-> txn.entry.updated,
        ts |-> Column(txn.stamp, txn.found.ts, current.ts),
        spaces |-> Column(txn.entry.spaces, txn.found.spaces, current.spaces)]

NewLeft(txn) ==
    [s \in Spaces |-> IF s \in Dropped(txn)
                      THEN [txn.left[s] EXCEPT ![txn.entry.key] = txn.stamp]
                      ELSE txn.left[s]]

\* Another transaction's uncommitted record for the same space and key: the
\* upsert waits on its row lock.
RecordLocked(d) ==
    \E o \in Devices \ {d}, s \in Dropped(push[d]) : push[o].left[s][push[d].entry.key] # 0

LiveTaken(txn) == IF ~txn.entry.dead /\ (Inserts(txn) \/ Revives(txn)) THEN 1 ELSE 0
TombstonesTaken(txn) ==
    IF Inserts(txn) /\ txn.entry.dead THEN 1 ELSE IF Revives(txn) THEN -1 ELSE 0

\* The entry is written into the transaction, with the stamp it took before it
\* waited, and takes its slots.
PushWrite(d) ==
    LET txn == push[d]
    IN /\ txn.pc = "checked"
       /\ ~RecordLocked(d)
       /\ push' = [push EXCEPT ![d] =
            [Ends(txn) EXCEPT
                        !.live = txn.live - LiveTaken(txn),
                        !.tombstones = txn.tombstones - TombstonesTaken(txn),
                        !.written = [txn.written EXCEPT ![txn.entry.key] = NewRow(d)],
                        !.left = NewLeft(txn)]]
       /\ UNCHANGED <<rows, removals, members, now, takedown, history, requests>>

\* The batch ends: its rows and records become visible, the lock is released.
PushCommit(d) ==
    /\ push[d].pc = "open"
    /\ rows' = [rows EXCEPT ![DeviceUser[d]] = View(d)]
    /\ removals' = [s \in Spaces |-> [k \in Keys |->
                      IF push[d].left[s][k] = 0 THEN removals[s][k] ELSE push[d].left[s][k]]]
    /\ Closed(d)
    /\ UNCHANGED <<members, now, takedown, overlapped, requests>>

\* The worker dies, the connection drops or PostgreSQL ends a deadlock: the
\* open transaction is gone with its lock.
PushAbort(d) ==
    /\ push[d].pc # "idle"
    /\ Closed(d)
    /\ UNCHANGED <<rows, removals, members, now, takedown, overlapped, requests>>

-----------------------------------------------------------------------------
(* remove_entry_from_space *)

Carriers(s, k) == {u \in Users : s \in rows[u][k].spaces}

\* The rows a caller may strip: all of them for the space's owner, their own
\* for another member.
Strippable(u, s, k) ==
    IF u = SpaceOwner[s] THEN Carriers(s, k) ELSE Carriers(s, k) \cap {u}

Authors(t) == {u \in Users : t.found[u].state # "absent"}

\* Reads the space, the caller's membership and the rows, and stamps the time.
TakedownRead(u, s, k) ==
    /\ takedown[u] = None
    /\ Exists(s) /\ u \in members[s]
    /\ Strippable(u, s, k) # {}
    /\ takedown' = [takedown EXCEPT ![u] =
         [space |-> s, key |-> k, ts |-> now,
          found |-> [o \in Users |-> IF o \in Strippable(u, s, k) THEN rows[o][k] ELSE NoRow]]]
    /\ Arrive
    /\ UNCHANGED <<rows, removals, members, now, push>>

\* Writes the record, then the rows read before, and commits; waits for a push
\* that has written one of them.
TakedownWrite(u) ==
    /\ takedown[u] # None
    /\ LET t == takedown[u]
       IN /\ \A d \in Devices :
               /\ DeviceUser[d] \in Authors(t) => push[d].written[t.key].state = "absent"
               /\ push[d].left[t.space][t.key] = 0
          /\ rows' = [o \in Users |->
               IF o \in Authors(t)
               THEN [rows[o] EXCEPT ![t.key] =
                       [rows[o][t.key] EXCEPT
                          !.spaces = t.found[o].spaces \ {t.space},
                          !.ts = Column(t.ts, t.found[o].ts, rows[o][t.key].ts)]]
               ELSE rows[o]]
          /\ removals' = [removals EXCEPT ![t.space] = [removals[t.space] EXCEPT ![t.key] = t.ts]]
          /\ stripped' = stripped \cup
               {<<DeviceUser[d], t.key>> : d \in {d \in Devices :
                   DeviceUser[d] \in Authors(t) /\ Stamped(push[d]) /\ push[d].entry.key = t.key}}
    /\ takedown' = [takedown EXCEPT ![u] = None]
    /\ UNCHANGED <<members, now, push, overlapped, requests>>

TakedownAbort(u) ==
    /\ takedown[u] # None
    /\ takedown' = [takedown EXCEPT ![u] = None]
    /\ UNCHANGED <<rows, removals, members, now, push, history, requests>>

-----------------------------------------------------------------------------
(* Membership and the clock *)

\* add_membership, reached from an accepted invite or an approved request.
Join(u, s) ==
    /\ Exists(s) /\ u \notin members[s]
    /\ members' = [members EXCEPT ![s] = members[s] \cup {u}]
    /\ UNCHANGED <<rows, removals, now, push, takedown, history, requests>>

\* remove_member: the owner cannot leave.
Leave(u, s) ==
    /\ u \in members[s] /\ u # SpaceOwner[s]
    /\ members' = [members EXCEPT ![s] = members[s] \ {u}]
    /\ Arrive
    /\ UNCHANGED <<rows, removals, now, push, takedown>>

\* delete_space: the memberships cascade; entries keep the space's id.
DeleteSpace(s) ==
    /\ Exists(s)
    /\ members' = [members EXCEPT ![s] = {}]
    /\ Arrive
    /\ UNCHANGED <<rows, removals, now, push, takedown>>

Tick ==
    /\ now < MaxNow
    /\ now' = now + 1
    /\ UNCHANGED <<rows, removals, members, push, takedown, history, requests>>

PushStep(d) ==
    \/ PushBegin(d)
    \/ \E e \in Entry : PushLookup(d, e)
    \/ PushRefuse(d)
    \/ PushAdmit(d)
    \/ PushStamp(d)
    \/ PushCheck(d)
    \/ PushConflict(d)
    \/ PushWrite(d)
    \/ PushCommit(d)
    \/ PushAbort(d)

TakedownStep(u) ==
    \/ \E s \in Spaces, k \in Keys : TakedownRead(u, s, k)
    \/ TakedownWrite(u)
    \/ TakedownAbort(u)

MembershipStep ==
    \/ \E u \in Users, s \in Spaces : Join(u, s) \/ Leave(u, s)
    \/ \E s \in Spaces : DeleteSpace(s)

Next ==
    \/ \E d \in Devices : PushStep(d)
    \/ \E u \in Users : TakedownStep(u)
    \/ MembershipStep
    \/ Tick

Spec == Init /\ [][Next]_vars

-----------------------------------------------------------------------------
(* Properties *)

\* Every variable has its type: a batch never passes MaxBatch entries, and a
\* push that has looked up a row holds the entry it looked up.
TypeOK ==
    /\ rows \in [Users -> [Keys -> Row]]
    /\ removals \in [Spaces -> [Keys -> 0..MaxNow]]
    /\ members \in [Spaces -> SUBSET Users]
    /\ now \in 1..MaxNow
    /\ push \in [Devices -> PushTxn]
    /\ \A d \in Devices : push[d].pc \notin {"idle", "open"} => push[d].entry \in Entry
    /\ takedown \in [Users -> Takedown \cup {None}]
    /\ overlapped \in BOOLEAN /\ stripped \subseteq Users \X Keys
    /\ requests \in 0..MaxRequests

\* No account holds more live rows than its cap, however its devices' pushes
\* interleave and whatever their batches insert, bury and revive.
LiveRowsCapped == \A u \in Users : Count(rows[u], "live") <= MaxLive

\* The live budget a push counts once and then tracks itself never promises
\* more than a fresh count of the rows it sees would, at any entry of a batch.
\* (It may promise less: an entry buried by the batch does not give its slot back.)
LiveRoomSafe ==
    \A d \in Devices : push[d].pc # "idle" => push[d].live <= MaxLive - Count(View(d), "live")

\* No two accounts hold a row under one key in one space.
NoRivals ==
    \A u, o \in Users, k \in Keys : u # o => rows[u][k].spaces \cap rows[o][k].spaces = {}

\* One entry, one author: the refusal of not_your_entry on insert and on update
\* keeps rival rows apart as long as no two transactions overlap.
OneAuthorPerSpace == ~overlapped => NoRivals

\* A row gains a space only while its account is a member ("Only members write
\* into a space"), as long as no two transactions overlap.
MembersOnly ==
    [][\A u \in Users, k \in Keys :
         ~overlapped' => \A s \in rows'[u][k].spaces \ rows[u][k].spaces : u \in members[s]]_vars

\* A step that takes an entry out of a space leaves a record of it that a device
\* which has pulled the row's last version still pulls.
Recorded ==
    \A u \in Users, k \in Keys : \A s \in rows[u][k].spaces \ rows'[u][k].spaces :
        removals'[s][k] # 0 /\ removals'[s][k] >= rows[u][k].ts

\* Un-sharing, deleting without the space and taking down all record the
\* departure in the transaction that makes it, as long as none overlap.
LeavingIsRecorded == [][overlapped' \/ Recorded]_vars

\* "The entry row itself carries a newer server_ts than any removal that
\* preceded it": an entry that is in a space is not older than the record of
\* its last departure, as long as no transactions overlap.
RowNotOlderThanRemoval ==
    ~overlapped =>
        \A u \in Users, s \in Spaces, k \in Keys :
            s \in rows[u][k].spaces => rows[u][k].ts >= removals[s][k]

\* server_ts is what devices page by.  A push moves a row's stamp back over nothing
\* but a takedown that committed between the push's own stamp and its write: the
\* account's other pushes wait for the lock, and a takedown for the row.
PushNeverRewinds ==
    [][\A u \in Users, k \in Keys :
         rows'[u][k].ts < rows[u][k].ts => takedown' # takedown \/ <<u, k>> \in stripped]_vars
=============================================================================
