------------------------------- MODULE BlobStore ------------------------------
(***************************************************************************)
(* One account's uploads: blobs/service.py, the part of sync/service.py's  *)
(* push that points an entry at a blob and lets go of the one it had, and  *)
(* the two hourly jobs of background.py that take storage back.            *)
(*                                                                         *)
(* Requests are transactions at READ COMMITTED.  request-upload and        *)
(* confirm-upload hold the account's quota lock, push its push lock;       *)
(* release and the jobs hold neither.  Each is split where another can     *)
(* come between what it reads and what it writes.  The object store is     *)
(* outside the transactions: what is done to it is not undone.             *)
(*                                                                         *)
(* Abstracted: every upload has size 1, so quota is a number of uploads;   *)
(* `created_at` is the age class the code's three cutoffs tell apart;      *)
(* which pushes SyncStore accepts is not asked again, any push may land.   *)
(***************************************************************************)
EXTENDS Integers, FiniteSets

CONSTANTS
    Blobs,       \* blob keys, each generated once
    Keys,        \* the account's entries
    Devices,     \* its devices, each with one request under way at most
    Quota,       \* profiles.blob_bytes_quota, in uploads
    MaxRequests, \* bound: requests begun
    MaxFailures, \* bound: object deletions the store refuses
    None         \* no blob, no entry

ASSUME BlobConstants ==
    /\ IsFiniteSet(Blobs)
    /\ Quota \in Nat /\ MaxRequests \in Nat /\ MaxFailures \in Nat
    /\ None \notin Blobs /\ None \notin Keys

VARIABLES
    blobs,    \* the blobs table: a row is pending until it is confirmed
    age,      \* each key's age: of its row, and of its presigned PUT URL
    objects,  \* the object store: nothing, what was declared or something else
    entries,  \* the blob each live entry references
    request,  \* each device's open request
    sweep,    \* _release_unreferenced_blobs: the keys it read, {} between runs
    cleanup,  \* _cleanup_orphan_blobs: rows to delete, and those whose object is gone
    doubled,  \* history: two entries referenced one blob
    raced,    \* history: two open transactions touched one blob
    begun,    \* requests begun, at most MaxRequests
    failures  \* refused deletions, at most MaxFailures

vars == <<blobs, age, objects, entries, request, sweep, cleanup, doubled, raced, begun, failures>>
jobs == <<sweep, cleanup, failures>>

\* A PUT URL and the bytes it reserves last 5 minutes, a pending row is an
\* orphan after an hour, a confirmed one is swept after 7 days.
Ages == <<"unborn", "fresh", "lapsed", "orphan", "old">>
AgeClass == {Ages[i] : i \in 1..5}

Request ==
    [op: {"none", "reserve", "confirm", "charge", "discard", "release", "push"},
     blob: Blobs \cup {None}, key: Keys \cup {None}, old: Blobs \cup {None}]

NoRequest == [op |-> "none", blob |-> None, key |-> None, old |-> None]

\* A key's object: nothing, what was declared, something else, or something else
\* put over what was declared.
Objects == {"none", "good", "bad", "replaced"}

\* What was declared has been put there, and the object is still there.
Landed(b) == objects[b] \in {"good", "replaced"}

Confirmed == {b \in Blobs : blobs[b] = "confirmed"}
Reserved == {b \in Blobs : blobs[b] = "pending" /\ age[b] = "fresh"}
Referenced == {entries[k] : k \in Keys} \ {None}

Init ==
    /\ blobs = [b \in Blobs |-> "absent"]
    /\ age = [b \in Blobs |-> "unborn"]
    /\ objects = [b \in Blobs |-> "none"]
    /\ entries = [k \in Keys |-> None]
    /\ request = [d \in Devices |-> NoRequest]
    /\ sweep = {}
    /\ cleanup = [todo |-> {}, gone |-> {}]
    /\ doubled = FALSE /\ raced = FALSE
    /\ begun = 0 /\ failures = 0

-----------------------------------------------------------------------------
(* Locks, and who touches what *)

\* Mutant of QuotaLockFree: the advisory lock is not taken.
QuotaLockFree_NoLock(d) == d \in Devices

QuotaLockFree(d) ==
    \A o \in Devices \ {d} : request[o].op \notin {"reserve", "confirm", "charge", "discard"}

PushLockFree(d) == \A o \in Devices \ {d} : request[o].op # "push"

\* The row of a blob an uncommitted push has released is locked.
Unlocked(b) == \A d \in Devices : request[d].old # b

Touched == (UNION {{request[d].blob, request[d].old} : d \in Devices})
              \cup sweep \cup cleanup.todo \cup cleanup.gone

Begin(d, r) ==
    /\ request[d].op = "none"
    /\ begun < MaxRequests
    /\ begun' = begun + 1
    /\ request' = [request EXCEPT ![d] = r]
    /\ raced' = (raced \/ (Touched \cap {r.blob, r.old}) \ {None} # {})

Proceed(d, op) == request' = [request EXCEPT ![d] = [request[d] EXCEPT !.op = op]]
End(d) == request' = [request EXCEPT ![d] = NoRequest]

-----------------------------------------------------------------------------
(* Uploading *)

\* request-upload: reservations count, so URLs handed out fit the quota together.
RequestUpload(d, b) ==
    /\ age[b] = "unborn" /\ b \notin Touched
    /\ QuotaLockFree(d)
    /\ Cardinality(Confirmed \cup Reserved) + 1 <= Quota
    /\ Begin(d, [NoRequest EXCEPT !.op = "reserve", !.blob = b])
    /\ UNCHANGED <<blobs, age, objects, entries, doubled, jobs>>

\* Mutant of RequestCommit: the row is written without its creation time.
RequestCommit_Unstamped(d) ==
    /\ request[d].op = "reserve"
    /\ blobs' = [blobs EXCEPT ![request[d].blob] = "pending"]
    /\ End(d)
    /\ UNCHANGED <<age, objects, entries, doubled, raced, begun, jobs>>

RequestCommit(d) ==
    /\ request[d].op = "reserve"
    /\ blobs' = [blobs EXCEPT ![request[d].blob] = "pending"]
    /\ age' = [age EXCEPT ![request[d].blob] = "fresh"]
    /\ End(d)
    /\ UNCHANGED <<objects, entries, doubled, raced, begun, jobs>>

\* The client PUTs through the URL while it lasts, row or no row, and over what
\* it has put before: the URL binds the length and not the checksum.
Upload(b) ==
    /\ age[b] = "fresh"
    /\ \E o \in {"good", IF Landed(b) THEN "replaced" ELSE "bad"} : objects' = [objects EXCEPT ![b] = o]
    /\ UNCHANGED <<blobs, age, entries, request, doubled, raced, begun, jobs>>

\* confirm-upload reads the pending row (a confirmed one is a no-op).
ConfirmRead(d, b) ==
    /\ blobs[b] = "pending"
    /\ QuotaLockFree(d)
    /\ Begin(d, [NoRequest EXCEPT !.op = "confirm", !.blob = b])
    /\ UNCHANGED <<blobs, age, objects, entries, doubled, jobs>>

Fits == Cardinality(Confirmed) + 1 <= Quota

\* It asks the store: nothing there, or no room, refuses; the declared object
\* goes on to be charged; any other is deleted, before its row is.
ConfirmHead(d) ==
    LET b == request[d].blob
    IN /\ request[d].op = "confirm"
       /\ \/ /\ objects[b] = "none" \/ (objects[b] = "good" /\ ~Fits)
             /\ End(d)
             /\ UNCHANGED objects
          \/ /\ objects[b] = "good" /\ Fits
             /\ Proceed(d, "charge")
             /\ UNCHANGED objects
          \/ /\ objects[b] \in {"bad", "replaced"}
             /\ Proceed(d, "discard")
             /\ objects' = [objects EXCEPT ![b] = "none"]
       /\ UNCHANGED <<blobs, age, entries, doubled, raced, begun, jobs>>

\* The row is charged, unless it has been deleted since (the update finds none).
ConfirmCommit(d) ==
    LET b == request[d].blob
    IN /\ request[d].op = "charge"
       /\ blobs' = [blobs EXCEPT ![b] = IF blobs[b] = "absent" THEN "absent" ELSE "confirmed"]
       /\ End(d)
       /\ UNCHANGED <<age, objects, entries, doubled, raced, begun, jobs>>

ConfirmDiscard(d) ==
    /\ request[d].op = "discard"
    /\ blobs' = [blobs EXCEPT ![request[d].blob] = "absent"]
    /\ End(d)
    /\ UNCHANGED <<age, objects, entries, doubled, raced, begun, jobs>>

-----------------------------------------------------------------------------
(* Letting go *)

\* Mutant of ReleaseRead: the live entry is not asked after.
ReleaseRead_Blind(d, b) ==
    /\ blobs[b] = "confirmed"
    /\ Begin(d, [NoRequest EXCEPT !.op = "release", !.blob = b])
    /\ UNCHANGED <<blobs, age, objects, entries, doubled, jobs>>

\* release_upload refuses while a live entry references the blob.
ReleaseRead(d, b) ==
    /\ blobs[b] = "confirmed"
    /\ b \notin Referenced
    /\ Begin(d, [NoRequest EXCEPT !.op = "release", !.blob = b])
    /\ UNCHANGED <<blobs, age, objects, entries, doubled, jobs>>

Release(S) == [b \in Blobs |-> IF b \in S /\ blobs[b] = "confirmed" THEN "pending" ELSE blobs[b]]

ReleaseCommit(d) ==
    /\ request[d].op = "release"
    /\ Unlocked(request[d].blob)
    /\ blobs' = Release({request[d].blob})
    /\ End(d)
    /\ UNCHANGED <<age, objects, entries, doubled, raced, begun, jobs>>

\* A push points entry k at blob b, or at none (a text or a tombstone).  A blob
\* new to the row must be the account's own and confirmed; the one it had is
\* released in the same transaction.
PushWrite(d, k, b) ==
    LET old == IF entries[k] = b THEN None ELSE entries[k]
    IN /\ PushLockFree(d)
       /\ b \in {None, entries[k]} \cup Confirmed
       /\ Begin(d, [op |-> "push", key |-> k, blob |-> b, old |-> old])
       /\ UNCHANGED <<blobs, age, objects, entries, doubled, jobs>>

PushCommit(d) ==
    /\ request[d].op = "push"
    /\ entries' = [entries EXCEPT ![request[d].key] = request[d].blob]
    /\ blobs' = Release({request[d].old})
    /\ doubled' = (doubled \/ \E k \in Keys \ {request[d].key} :
                                entries[k] # None /\ entries[k] = request[d].blob)
    /\ End(d)
    /\ UNCHANGED <<age, objects, raced, begun, jobs>>

\* The worker dies or the connection drops: the transaction is gone.
Abort(d) ==
    /\ request[d].op # "none"
    /\ End(d)
    /\ UNCHANGED <<blobs, age, objects, entries, doubled, raced, begun, jobs>>

-----------------------------------------------------------------------------
(* The hourly jobs, one after the other *)

Resting == sweep = {} /\ cleanup = [todo |-> {}, gone |-> {}]

RacedWith(S) == raced' = (raced \/ Touched \cap S # {})

SweepRead ==
    LET keys == {b \in Confirmed : age[b] = "old" /\ b \notin Referenced}
    IN /\ Resting
       /\ keys # {}
       /\ sweep' = keys
       /\ RacedWith(keys)
       /\ UNCHANGED <<blobs, age, objects, entries, request, cleanup, doubled, begun, failures>>

\* The update names the keys read and asks nothing again.
SweepWrite ==
    /\ sweep # {}
    /\ \A b \in sweep : Unlocked(b)
    /\ blobs' = Release(sweep)
    /\ sweep' = {}
    /\ UNCHANGED <<age, objects, entries, request, cleanup, doubled, raced, begun, failures>>

CleanupRead ==
    LET orphans == {b \in Blobs : blobs[b] = "pending" /\ age[b] \in {"orphan", "old"}}
    IN /\ Resting
       /\ orphans # {}
       /\ cleanup' = [todo |-> orphans, gone |-> {}]
       /\ RacedWith(orphans)
       /\ UNCHANGED <<blobs, age, objects, entries, request, sweep, doubled, begun, failures>>

CleanupObject ==
    /\ \E b \in cleanup.todo :
          /\ objects' = [objects EXCEPT ![b] = "none"]
          /\ cleanup' = [todo |-> cleanup.todo \ {b}, gone |-> cleanup.gone \cup {b}]
    /\ UNCHANGED <<blobs, age, entries, request, sweep, doubled, raced, begun, failures>>

\* The store refuses: the row is kept for the next hour.
CleanupFails ==
    /\ failures < MaxFailures
    /\ failures' = failures + 1
    /\ \E b \in cleanup.todo : cleanup' = [cleanup EXCEPT !.todo = cleanup.todo \ {b}]
    /\ UNCHANGED <<blobs, age, objects, entries, request, sweep, doubled, raced, begun>>

\* Mutant of CleanupCommit: the row whose object is gone is kept.
CleanupCommit_KeepsRow ==
    /\ cleanup.todo = {} /\ cleanup.gone # {}
    /\ cleanup' = [todo |-> {}, gone |-> {}]
    /\ UNCHANGED <<blobs, age, objects, entries, request, sweep, doubled, raced, begun, failures>>

\* One commit deletes the rows of every object that is gone, by key.
CleanupCommit ==
    /\ cleanup.todo = {} /\ cleanup.gone # {}
    /\ \A b \in cleanup.gone : Unlocked(b)
    /\ blobs' = [b \in Blobs |-> IF b \in cleanup.gone THEN "absent" ELSE blobs[b]]
    /\ cleanup' = [todo |-> {}, gone |-> {}]
    /\ UNCHANGED <<age, objects, entries, request, sweep, doubled, raced, begun, failures>>

\* The replica dies: what it did to the store stays done, its reads are gone.
JobCrash ==
    /\ ~Resting
    /\ failures < MaxFailures
    /\ failures' = failures + 1
    /\ sweep' = {} /\ cleanup' = [todo |-> {}, gone |-> {}]
    /\ UNCHANGED <<blobs, age, objects, entries, request, doubled, raced, begun>>

Grow(b) ==
    /\ \E i \in 2..4 : age[b] = Ages[i] /\ age' = [age EXCEPT ![b] = Ages[i + 1]]
    /\ UNCHANGED <<blobs, objects, entries, request, doubled, raced, begun, jobs>>

-----------------------------------------------------------------------------
RequestStep(d) ==
    \/ \E b \in Blobs : RequestUpload(d, b) \/ ConfirmRead(d, b) \/ ReleaseRead(d, b)
    \/ RequestCommit(d)
    \/ ConfirmHead(d) \/ ConfirmCommit(d) \/ ConfirmDiscard(d)
    \/ ReleaseCommit(d)
    \/ \E k \in Keys, b \in Blobs \cup {None} : PushWrite(d, k, b)
    \/ PushCommit(d)
    \/ Abort(d)

JobStep == SweepRead \/ SweepWrite \/ CleanupRead \/ CleanupObject \/ CleanupFails \/ CleanupCommit \/ JobCrash

Next ==
    \/ \E d \in Devices : RequestStep(d)
    \/ \E b \in Blobs : Upload(b) \/ Grow(b)
    \/ JobStep

\* Time passes, requests end one way or another, and the leader runs its jobs.
Fairness ==
    /\ \A b \in Blobs : WF_vars(Grow(b))
    /\ \A d \in Devices : WF_vars(Abort(d))
    /\ WF_vars(SweepRead) /\ WF_vars(SweepWrite)
    /\ WF_vars(CleanupRead) /\ WF_vars(CleanupObject) /\ WF_vars(CleanupCommit)

Spec == Init /\ [][Next]_vars /\ Fairness

-----------------------------------------------------------------------------
(* Properties *)

\* Every variable has its type: a row's key has been handed out.
TypeOK ==
    /\ blobs \in [Blobs -> {"absent", "pending", "confirmed"}]
    /\ age \in [Blobs -> AgeClass]
    /\ \A b \in Blobs : blobs[b] # "absent" => age[b] # "unborn"
    /\ objects \in [Blobs -> Objects]
    /\ entries \in [Keys -> Blobs \cup {None}]
    /\ request \in [Devices -> Request]
    /\ sweep \subseteq Blobs
    /\ cleanup \in [todo: SUBSET Blobs, gone: SUBSET Blobs]
    /\ doubled \in BOOLEAN /\ raced \in BOOLEAN
    /\ begun \in 0..MaxRequests /\ failures \in 0..MaxFailures

\* The account is never charged more than its quota, however its uploads lapse,
\* are released and confirmed again, and whatever its devices do at once.
ChargedWithinQuota == Cardinality(Confirmed) <= Quota

\* "A burst of requests cannot reserve more than the quota": when a URL is
\* handed out, it fits with what is charged and what is still reserved.
BurstWithinQuota ==
    [][\A b \in Blobs : blobs[b] = "absent" /\ blobs'[b] = "pending" =>
         Cardinality(Confirmed' \cup Reserved') <= Quota]_vars

\* The locks, the two checks and the reservations that count until their URL
\* lapses implement module Ledger: keys are handed out once and within the quota,
\* charged within it however late, and no release, job or crash takes room.
L == INSTANCE Ledger WITH
       known <- {b \in Blobs : age[b] # "unborn"}, reserved <- Reserved, charged <- Confirmed

KeepsLedger == L!Spec

\* A live entry's blob is charged for and an object is there which was found to be
\* the declared one, or was put over it: release, the two jobs and other entries'
\* pushes leave it alone, when no two entries share one blob and no two open
\* transactions touch it.
LiveEntriesKeepBlobs ==
    ~doubled /\ ~raced =>
        \A b \in Referenced : blobs[b] = "confirmed" /\ Landed(b)

\* "Self-healing instead of permanent": a blob no live entry references is in
\* time deleted, whatever left it there, unless an entry takes it up.
Reclaimed ==
    \A b \in Blobs :
        blobs[b] # "absent" /\ b \notin Referenced ~> blobs[b] = "absent" \/ b \in Referenced
=============================================================================
