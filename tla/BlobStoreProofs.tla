---------------------------- MODULE BlobStoreProofs ---------------------------
(***************************************************************************)
(* Proofs about BlobStore: what is charged stays within the quota, the     *)
(* URLs handed out fit it together, and live entries keep their blobs, for *)
(* any blobs, entries, devices, quota and bounds.                          *)
(*                                                                         *)
(* The quota alone is not inductive: confirm-upload counts in one step and *)
(* charges in another.  QuotaInv says what an open upload has found to fit *)
(* still fits, since those who could add to what is counted exclude each   *)
(* other and everybody else only takes away.                               *)
(***************************************************************************)
EXTENDS BlobStore, FiniteSetTheorems, TLAPS

Holds(d) == request[d].op \in {"reserve", "confirm", "charge", "discard"}

\* The holders of the account's quota lock exclude each other.
Locked == \A d, o \in Devices : Holds(d) /\ Holds(o) => d = o

\* What an upload was found to fit in is still free.
HonestCharge == \A d \in Devices : request[d].op = "charge" => Cardinality(Confirmed) + 1 <= Quota

HonestReserve ==
    \A d \in Devices :
        request[d].op = "reserve" => Cardinality(Confirmed \cup Reserved) + 1 <= Quota

\* An upload that holds the lock names its blob, a new one no row.
Named ==
    \A d \in Devices : Holds(d) \/ request[d].op = "release" => request[d].blob \in Blobs

QuotaInv == TypeOK /\ Named /\ Locked /\ HonestCharge /\ HonestReserve /\ ChargedWithinQuota

-----------------------------------------------------------------------------
(* Counting *)

\* A set of blobs within another is finite and has no more of them.
LEMMA FewerBlobs ==
    ASSUME NEW S, NEW T, S \subseteq T, T \subseteq Blobs
    PROVE  Cardinality(S) \in Nat /\ Cardinality(T) \in Nat /\ Cardinality(S) <= Cardinality(T)
<1>1. IsFiniteSet(T)
  BY FS_Subset, BlobConstants
<1>2. IsFiniteSet(S) /\ Cardinality(S) <= Cardinality(T)
  BY <1>1, FS_Subset
<1> QED
  BY <1>1, <1>2, FS_CardinalityType

\* One blob more makes at most one more.
LEMMA OneMoreBlob ==
    ASSUME NEW S \in SUBSET Blobs, NEW b \in Blobs
    PROVE  Cardinality(S) \in Nat /\ Cardinality(S \cup {b}) \in Nat
           /\ Cardinality(S \cup {b}) <= Cardinality(S) + 1
<1>1. IsFiniteSet(S)
  BY FS_Subset, BlobConstants
<1>2. Cardinality(S) \in Nat
  BY <1>1, FS_CardinalityType
<1>3. Cardinality(S \cup {b}) = (IF b \in S THEN Cardinality(S) ELSE Cardinality(S) + 1)
  BY <1>1, FS_AddElement
<1> QED
  BY <1>2, <1>3

-----------------------------------------------------------------------------
(* Types *)

\* A request begun is well typed, names what it is to name, and is counted.
LEMMA BeginTypes ==
    ASSUME TypeOK, Named, NEW d \in Devices, NEW r \in Request, Begin(d, r),
           r.op # "push" => r.blob \in Blobs
    PROVE  /\ request' \in [Devices -> Request] /\ Named'
           /\ begun' \in 0..MaxRequests /\ raced' \in BOOLEAN
<1>1. request' \in [Devices -> Request] /\ request' = [request EXCEPT ![d] = r]
  BY DEF TypeOK, Begin
<1>2. Named'
  BY <1>1 DEF TypeOK, Named, Holds
<1>3. begun' \in 0..MaxRequests
  BY BlobConstants DEF TypeOK, Begin
<1>4. raced' \in BOOLEAN
  BY DEF TypeOK, Begin
<1> QED
  BY <1>1, <1>2, <1>3, <1>4

\* BlobStore's type invariant is inductive: whatever steps are taken, rows, ages,
\* objects and requests keep their types and a row's key has been handed out.
LEMMA TypeStep ==
    ASSUME TypeOK, Named, [Next]_vars
    PROVE  TypeOK' /\ Named'
<1> USE BlobConstants
<1>1. CASE UNCHANGED vars
  BY <1>1 DEF TypeOK, Named, Holds, vars, jobs
<1>2. ASSUME NEW d \in Devices, NEW b \in Blobs, RequestUpload(d, b)
      PROVE  TypeOK' /\ Named'
  <2>1. Begin(d, [NoRequest EXCEPT !.op = "reserve", !.blob = b])
    BY <1>2 DEF RequestUpload
  <2> QED
    BY <1>2, <2>1, BeginTypes DEF TypeOK, RequestUpload, NoRequest, Request, jobs
<1>3. ASSUME NEW d \in Devices, NEW b \in Blobs, ConfirmRead(d, b)
      PROVE  TypeOK' /\ Named'
  <2>1. Begin(d, [NoRequest EXCEPT !.op = "confirm", !.blob = b])
    BY <1>3 DEF ConfirmRead
  <2> QED
    BY <1>3, <2>1, BeginTypes DEF TypeOK, ConfirmRead, NoRequest, Request, jobs
<1>4. ASSUME NEW d \in Devices, NEW b \in Blobs, ReleaseRead(d, b)
      PROVE  TypeOK' /\ Named'
  <2>1. Begin(d, [NoRequest EXCEPT !.op = "release", !.blob = b])
    BY <1>4 DEF ReleaseRead
  <2> QED
    BY <1>4, <2>1, BeginTypes DEF TypeOK, ReleaseRead, NoRequest, Request, jobs
<1>5. ASSUME NEW d \in Devices, RequestCommit(d)
      PROVE  TypeOK' /\ Named'
  BY <1>5 DEF TypeOK, Named, Holds, RequestCommit, End, NoRequest, Request, jobs, AgeClass, Ages
<1>6. ASSUME NEW d \in Devices, ConfirmHead(d)
      PROVE  TypeOK' /\ Named'
  BY <1>6 DEF TypeOK, Named, Holds, ConfirmHead, Proceed, End, NoRequest, Request, Objects, jobs
<1>7. ASSUME NEW d \in Devices, ConfirmCommit(d)
      PROVE  TypeOK' /\ Named'
  BY <1>7 DEF TypeOK, Named, Holds, ConfirmCommit, End, NoRequest, Request, jobs
<1>8. ASSUME NEW d \in Devices, ConfirmDiscard(d)
      PROVE  TypeOK' /\ Named'
  BY <1>8 DEF TypeOK, Named, Holds, ConfirmDiscard, End, NoRequest, Request, jobs
<1>9. ASSUME NEW d \in Devices, ReleaseCommit(d)
      PROVE  TypeOK' /\ Named'
  BY <1>9 DEF TypeOK, Named, Holds, ReleaseCommit, Release, End, NoRequest, Request, jobs
<1>10. ASSUME NEW d \in Devices, NEW k \in Keys, NEW b \in Blobs \cup {None}, PushWrite(d, k, b)
       PROVE  TypeOK' /\ Named'
  BY <1>10 DEF TypeOK, Named, Holds, PushWrite, Begin, NoRequest, Request, jobs
<1>11. ASSUME NEW d \in Devices, PushCommit(d)
       PROVE  TypeOK' /\ Named'
  <2>1. request[d].key \in Keys \cup {None} /\ request[d].blob \in Blobs \cup {None}
    BY DEF TypeOK, Request
  <2>2. entries' \in [Keys -> Blobs \cup {None}]
    BY <1>11, <2>1 DEF PushCommit, TypeOK
  <2>3. doubled' \in BOOLEAN
    BY <1>11 DEF PushCommit, TypeOK
  <2> QED
    BY <1>11, <2>2, <2>3 DEF TypeOK, Named, Holds, PushCommit, Release, End, NoRequest, Request, jobs
<1>12. ASSUME NEW d \in Devices, Abort(d)
       PROVE  TypeOK' /\ Named'
  BY <1>12 DEF TypeOK, Named, Holds, Abort, End, NoRequest, Request, jobs
<1>13. ASSUME NEW b \in Blobs, Upload(b) \/ Grow(b)
       PROVE  TypeOK' /\ Named'
  BY <1>13 DEF TypeOK, Named, Holds, Upload, Grow, Landed, Objects, jobs, AgeClass, Ages
<1>14. CASE JobStep
  <2>1. TypeOK' /\ request' = request
    <3>1. CASE SweepRead
      BY <3>1 DEF TypeOK, SweepRead, RacedWith, Confirmed
    <3>2. CASE SweepWrite
      BY <3>2 DEF TypeOK, SweepWrite, Release
    <3>3. CASE CleanupRead
      <4>1. cleanup' \in [todo: SUBSET Blobs, gone: SUBSET Blobs]
        BY <3>3 DEF CleanupRead
      <4> QED
        BY <3>3, <4>1 DEF TypeOK, CleanupRead, RacedWith
    <3>4. CASE CleanupObject
      BY <3>4 DEF TypeOK, CleanupObject, Objects
    <3>5. CASE CleanupFails
      BY <3>5 DEF TypeOK, CleanupFails
    <3>6. CASE CleanupCommit
      BY <3>6 DEF TypeOK, CleanupCommit
    <3>7. CASE JobCrash
      BY <3>7 DEF TypeOK, JobCrash
    <3> QED
      BY <1>14, <3>1, <3>2, <3>3, <3>4, <3>5, <3>6, <3>7 DEF JobStep
  <2> QED
    BY <2>1 DEF Named, Holds
<1> QED
  BY <1>1, <1>2, <1>3, <1>4, <1>5, <1>6, <1>7, <1>8, <1>9, <1>10, <1>11, <1>12, <1>13, <1>14
     DEF Next, RequestStep

-----------------------------------------------------------------------------
(* What is counted only grows under the lock *)

\* Nothing becomes charged or reserved.
Shrinks == Confirmed' \subseteq Confirmed /\ Confirmed' \cup Reserved' \subseteq Confirmed \cup Reserved

\* Nobody takes the lock, and nobody gets to charge or to reserve.
Calm ==
    \A d \in Devices :
        Holds(d)' => Holds(d) /\ (request'[d].op \in {"charge", "reserve"} => request'[d].op = request[d].op)

\* A step that counts nothing new and begins nothing under the lock leaves what
\* open uploads found free as it was.
LEMMA CalmStep ==
    ASSUME QuotaInv, TypeOK', Named', Shrinks, Calm
    PROVE  QuotaInv'
<1>1. Locked'
  BY DEF QuotaInv, Locked, Calm
<1>2. /\ Cardinality(Confirmed) \in Nat /\ Cardinality(Confirmed') \in Nat
      /\ Cardinality(Confirmed') <= Cardinality(Confirmed)
  BY FewerBlobs DEF Shrinks, Confirmed
<1>3. /\ Cardinality(Confirmed \cup Reserved) \in Nat /\ Cardinality(Confirmed' \cup Reserved') \in Nat
      /\ Cardinality(Confirmed' \cup Reserved') <= Cardinality(Confirmed \cup Reserved)
  BY FewerBlobs DEF Shrinks, Confirmed, Reserved
<1>4. ChargedWithinQuota'
  <2>1. Cardinality(Confirmed) <= Quota
    BY DEF QuotaInv, ChargedWithinQuota
  <2> QED
    BY <1>2, <2>1, BlobConstants DEF ChargedWithinQuota
<1>5. HonestCharge'
  <2> SUFFICES ASSUME NEW d \in Devices, request'[d].op = "charge"
               PROVE  Cardinality(Confirmed') + 1 <= Quota
    BY DEF HonestCharge
  <2>1. request[d].op = "charge"
    BY DEF Calm, Holds
  <2>2. Cardinality(Confirmed) + 1 <= Quota
    BY <2>1 DEF QuotaInv, HonestCharge
  <2> QED
    BY <1>2, <2>2, BlobConstants
<1>6. HonestReserve'
  <2> SUFFICES ASSUME NEW d \in Devices, request'[d].op = "reserve"
               PROVE  Cardinality(Confirmed' \cup Reserved') + 1 <= Quota
    BY DEF HonestReserve
  <2>1. request[d].op = "reserve"
    BY DEF Calm, Holds
  <2>2. Cardinality(Confirmed \cup Reserved) + 1 <= Quota
    BY <2>1 DEF QuotaInv, HonestReserve
  <2> QED
    BY <1>3, <2>2, BlobConstants
<1> QED
  BY <1>1, <1>4, <1>5, <1>6 DEF QuotaInv

\* The holder of the lock lets it go: nobody has it, so nothing is promised.
LEMMA ReleaseLock ==
    ASSUME QuotaInv, TypeOK', Named', ChargedWithinQuota',
           NEW d \in Devices, Holds(d), End(d)
    PROVE  QuotaInv'
<1>1. \A o \in Devices : ~Holds(o)'
  BY DEF QuotaInv, TypeOK, Locked, Holds, End, NoRequest
<1>2. Locked' /\ HonestCharge' /\ HonestReserve'
  BY <1>1 DEF Locked, HonestCharge, HonestReserve, Holds
<1> QED
  BY <1>2 DEF QuotaInv

-----------------------------------------------------------------------------
(* The steps *)

\* A request that takes the lock finds it free, and what it counts is counted
\* at once.
LEMMA TakeLock ==
    ASSUME QuotaInv, TypeOK', Named', NEW d \in Devices, NEW b \in Blobs,
           RequestUpload(d, b) \/ ConfirmRead(d, b)
    PROVE  QuotaInv'
<1>1. blobs' = blobs /\ age' = age
  BY DEF RequestUpload, ConfirmRead
<1>2. Confirmed' = Confirmed /\ Reserved' = Reserved
  BY <1>1 DEF Confirmed, Reserved
<1>3. QuotaLockFree(d)
  BY DEF RequestUpload, ConfirmRead
<1>4. \A o \in Devices \ {d} : request'[o] = request[o] /\ ~Holds(o)'
  BY <1>3 DEF QuotaInv, TypeOK, QuotaLockFree, RequestUpload, ConfirmRead, Begin, Holds
<1>5. Locked'
  BY <1>4 DEF Locked
<1>6. HonestCharge'
  <2>1. request'[d].op # "charge"
    <3>1. CASE RequestUpload(d, b)
      BY <3>1 DEF QuotaInv, TypeOK, RequestUpload, Begin, NoRequest
    <3>2. CASE ConfirmRead(d, b)
      BY <3>2 DEF QuotaInv, TypeOK, ConfirmRead, Begin, NoRequest
    <3> QED
      BY <3>1, <3>2
  <2> QED
    BY <1>4, <2>1 DEF HonestCharge, Holds
<1>7. HonestReserve'
  <2>1. CASE RequestUpload(d, b)
    <3>1. Cardinality(Confirmed' \cup Reserved') + 1 <= Quota
      BY <1>2, <2>1 DEF RequestUpload
    <3> QED
      BY <3>1 DEF HonestReserve
  <2>2. CASE ConfirmRead(d, b)
    BY <1>4, <2>2 DEF QuotaInv, TypeOK, HonestReserve, Holds, ConfirmRead, Begin, NoRequest
  <2> QED
    BY <2>1, <2>2
<1>8. ChargedWithinQuota'
  BY <1>2 DEF QuotaInv, ChargedWithinQuota
<1> QED
  BY <1>5, <1>6, <1>7, <1>8 DEF QuotaInv

\* confirm-upload asks the store and counts what is charged.
LEMMA HeadStep ==
    ASSUME QuotaInv, TypeOK', Named', NEW d \in Devices, ConfirmHead(d)
    PROVE  QuotaInv'
<1>1. blobs' = blobs /\ age' = age
  BY DEF ConfirmHead
<1>2. Confirmed' = Confirmed /\ Reserved' = Reserved
  BY <1>1 DEF Confirmed, Reserved
<1>3. Holds(d) /\ \A o \in Devices \ {d} : request'[o] = request[o]
  BY DEF QuotaInv, TypeOK, Holds, ConfirmHead, Proceed, End
<1>4. Locked'
  BY <1>3 DEF QuotaInv, Locked, Holds
<1>5. HonestCharge'
  <2>1. request'[d].op = "charge" => Fits
    BY DEF QuotaInv, TypeOK, ConfirmHead, Proceed, End, NoRequest, Request
  <2> QED
    BY <1>2, <1>3, <2>1 DEF QuotaInv, HonestCharge, Fits
<1>6. HonestReserve'
  <2>1. request'[d].op # "reserve"
    BY DEF QuotaInv, TypeOK, ConfirmHead, Proceed, End, NoRequest, Request
  <2> QED
    BY <1>2, <1>3, <2>1 DEF QuotaInv, HonestReserve
<1>7. ChargedWithinQuota'
  BY <1>2 DEF QuotaInv, ChargedWithinQuota
<1> QED
  BY <1>4, <1>5, <1>6, <1>7 DEF QuotaInv

\* The two commits that count a blob end the request that found it to fit.
LEMMA CountingCommit ==
    ASSUME QuotaInv, TypeOK', Named', NEW d \in Devices,
           RequestCommit(d) \/ ConfirmCommit(d)
    PROVE  QuotaInv'
<1>1. Holds(d) /\ End(d)
  BY DEF RequestCommit, ConfirmCommit, Holds
<1>2. request[d].blob \in Blobs
  BY <1>1 DEF QuotaInv, Named
<1>3. ChargedWithinQuota'
  <2>1. CASE RequestCommit(d)
    <3>1. Confirmed' \subseteq Confirmed
      BY <2>1 DEF QuotaInv, TypeOK, RequestCommit, Confirmed
    <3>2. /\ Cardinality(Confirmed) \in Nat /\ Cardinality(Confirmed') \in Nat
          /\ Cardinality(Confirmed') <= Cardinality(Confirmed)
      BY <3>1, FewerBlobs DEF Confirmed
    <3>3. Cardinality(Confirmed) <= Quota
      BY DEF QuotaInv, ChargedWithinQuota
    <3> QED
      BY <3>2, <3>3, BlobConstants DEF ChargedWithinQuota
  <2>2. CASE ConfirmCommit(d)
    <3>1. Confirmed' \subseteq Confirmed \cup {request[d].blob}
      BY <2>2 DEF QuotaInv, TypeOK, ConfirmCommit, Confirmed
    <3>2. Confirmed \in SUBSET Blobs
      BY DEF Confirmed
    <3>3. /\ Cardinality(Confirmed') \in Nat /\ Cardinality(Confirmed) \in Nat
          /\ Cardinality(Confirmed') <= Cardinality(Confirmed) + 1
      <4> DEFINE more == Confirmed \cup {request[d].blob}
      <4>1. /\ Cardinality(Confirmed) \in Nat /\ Cardinality(more) \in Nat
            /\ Cardinality(more) <= Cardinality(Confirmed) + 1
        BY <1>2, <3>2, OneMoreBlob
      <4>2. more \subseteq Blobs
        BY <1>2, <3>2
      <4>3. Cardinality(Confirmed') \in Nat /\ Cardinality(Confirmed') <= Cardinality(more)
        BY <3>1, <4>2, FewerBlobs
      <4> QED
        BY <4>1, <4>3
    <3>4. Cardinality(Confirmed) + 1 <= Quota
      BY <2>2 DEF QuotaInv, HonestCharge, ConfirmCommit
    <3> QED
      BY <3>3, <3>4, BlobConstants DEF ChargedWithinQuota
  <2> QED
    BY <2>1, <2>2
<1> QED
  BY <1>1, <1>3, ReleaseLock

\* Every other step takes away from what is counted, or leaves it.
LEMMA OtherSteps ==
    ASSUME QuotaInv, [Next]_vars,
           ~\E d \in Devices :
               \/ \E b \in Blobs : RequestUpload(d, b) \/ ConfirmRead(d, b)
               \/ ConfirmHead(d) \/ RequestCommit(d) \/ ConfirmCommit(d)
    PROVE  Shrinks /\ Calm
<1> DEFINE Same == blobs' = blobs /\ age' = age
           Fewer == /\ \A b \in Blobs : /\ blobs'[b] = "confirmed" => blobs[b] = "confirmed"
                                        /\ blobs'[b] = "pending" => blobs[b] \in {"pending", "confirmed"}
                                        /\ age'[b] = "fresh" => age[b] = "fresh"
<1>1. Same => Fewer
  OBVIOUS
<1>2. Fewer => Shrinks
  BY DEF Shrinks, Confirmed, Reserved
<1>3. \A S : blobs' = Release(S) /\ age' = age => Fewer
  BY DEF Release
<1>4. request' = request => Calm
  BY DEF Calm, Holds
<1>5. CASE UNCHANGED vars
  BY <1>1, <1>2, <1>4, <1>5 DEF vars, jobs
<1>6. ASSUME NEW d \in Devices, RequestStep(d)
      PROVE  Shrinks /\ Calm
  <2>1. ASSUME NEW b \in Blobs, ReleaseRead(d, b)
        PROVE  Shrinks /\ Calm
    <3>1. Calm
      BY <2>1 DEF QuotaInv, TypeOK, ReleaseRead, Begin, Calm, Holds, NoRequest
    <3> QED
      BY <2>1, <3>1, <1>1, <1>2 DEF ReleaseRead
  <2>2. ASSUME NEW k \in Keys, NEW b \in Blobs \cup {None}, PushWrite(d, k, b)
        PROVE  Shrinks /\ Calm
    <3>1. Calm
      BY <2>2 DEF QuotaInv, TypeOK, PushWrite, Begin, Calm, Holds
    <3> QED
      BY <2>2, <3>1, <1>1, <1>2 DEF PushWrite
  <2>3. ASSUME End(d)
        PROVE  Calm
    BY <2>3 DEF QuotaInv, TypeOK, End, Calm, Holds, NoRequest
  <2>4. CASE ConfirmDiscard(d)
    <3>1. Fewer
      BY <2>4 DEF QuotaInv, TypeOK, ConfirmDiscard
    <3> QED
      BY <2>3, <2>4, <3>1, <1>2 DEF ConfirmDiscard
  <2>5. CASE ReleaseCommit(d)
    BY <2>3, <2>5, <1>2, <1>3 DEF ReleaseCommit
  <2>6. CASE PushCommit(d)
    BY <2>3, <2>6, <1>2, <1>3 DEF PushCommit
  <2>7. CASE Abort(d)
    BY <2>3, <2>7, <1>1, <1>2 DEF Abort
  <2> QED
    BY <1>6, <2>1, <2>2, <2>4, <2>5, <2>6, <2>7 DEF RequestStep
<1>7. ASSUME NEW b \in Blobs, Upload(b)
      PROVE  Shrinks /\ Calm
  BY <1>7, <1>1, <1>2, <1>4 DEF Upload
<1>8. ASSUME NEW b \in Blobs, Grow(b)
      PROVE  Shrinks /\ Calm
  <2>1. Fewer
    BY <1>8 DEF QuotaInv, TypeOK, Grow, Ages
  <2> QED
    BY <1>8, <2>1, <1>2, <1>4 DEF Grow
<1>9. CASE JobStep
  <2>1. CASE CleanupCommit
    <3>1. Fewer
      BY <2>1 DEF QuotaInv, TypeOK, CleanupCommit
    <3> QED
      BY <2>1, <3>1, <1>2, <1>4 DEF CleanupCommit
  <2>2. CASE SweepWrite
    BY <2>2, <1>2, <1>3, <1>4 DEF SweepWrite
  <2>3. CASE SweepRead \/ CleanupRead \/ CleanupObject \/ CleanupFails \/ JobCrash
    BY <2>3, <1>1, <1>2, <1>4 DEF SweepRead, CleanupRead, CleanupObject, CleanupFails, JobCrash
  <2> QED
    BY <1>9, <2>1, <2>2, <2>3 DEF JobStep
<1> QED
  BY <1>5, <1>6, <1>7, <1>8, <1>9 DEF Next

-----------------------------------------------------------------------------
(* Theorems *)

\* A store with no rows has nothing charged, reserved or open.
LEMMA QuotaInit == ASSUME Init PROVE QuotaInv
<1>1. Confirmed = {}
  BY DEF Init, Confirmed
<1>2. Cardinality(Confirmed) = 0
  BY <1>1, FS_EmptySet
<1>3. TypeOK
  <2>1. age \in [Blobs -> AgeClass]
    <3>1. "unborn" = Ages[1]
      BY DEF Ages
    <3>2. "unborn" \in AgeClass
      BY <3>1 DEF AgeClass
    <3> QED
      BY <3>2 DEF Init
  <2>2. request \in [Devices -> Request]
    BY DEF Init, NoRequest, Request
  <2>3. begun \in 0..MaxRequests /\ failures \in 0..MaxFailures
    BY BlobConstants DEF Init
  <2> QED
    BY <2>1, <2>2, <2>3 DEF Init, TypeOK, Objects
<1> QED
  BY <1>2, <1>3, BlobConstants
     DEF Init, QuotaInv, Named, Locked, Holds, HonestCharge, HonestReserve, ChargedWithinQuota, NoRequest

\* Every step of requests, clients, time and jobs keeps QuotaInv.
LEMMA QuotaStep == ASSUME QuotaInv, [Next]_vars PROVE QuotaInv'
<1>1. TypeOK' /\ Named'
  BY TypeStep DEF QuotaInv
<1>2. CASE \E d \in Devices, b \in Blobs : RequestUpload(d, b) \/ ConfirmRead(d, b)
  BY <1>1, <1>2, TakeLock
<1>3. CASE \E d \in Devices : ConfirmHead(d)
  BY <1>1, <1>3, HeadStep
<1>4. CASE \E d \in Devices : RequestCommit(d) \/ ConfirmCommit(d)
  BY <1>1, <1>4, CountingCommit
<1>5. CASE ~\E d \in Devices :
               \/ \E b \in Blobs : RequestUpload(d, b) \/ ConfirmRead(d, b)
               \/ ConfirmHead(d) \/ RequestCommit(d) \/ ConfirmCommit(d)
  BY <1>1, <1>5, OtherSteps, CalmStep
<1> QED
  BY <1>2, <1>3, <1>4, <1>5

\* QuotaInv holds in every state: what an open upload found free is still free.
THEOREM BlobQuotaInvariant == Spec => []QuotaInv
<1>1. QuotaInv /\ [Next]_vars => QuotaInv'
  BY QuotaStep
<1> QED
  BY QuotaInit, <1>1, PTL DEF Spec

\* Every variable keeps its type, and a row's key has been handed out.
THEOREM BlobTypes == Spec => []TypeOK
<1>1. QuotaInv => TypeOK
  BY DEF QuotaInv
<1> QED
  BY BlobQuotaInvariant, <1>1, PTL

\* The account is never charged past its quota, for any number of devices,
\* blobs, releases, repeated confirmations, aborts and job crashes.
THEOREM NeverOvercharged == Spec => []ChargedWithinQuota
<1>1. QuotaInv => ChargedWithinQuota
  BY DEF QuotaInv
<1> QED
  BY BlobQuotaInvariant, <1>1, PTL

\* A row appears only in the commit of a request-upload.
LEMMA OnlyRequestsReserve ==
    ASSUME QuotaInv, [Next]_vars, NEW b \in Blobs, blobs[b] = "absent", blobs'[b] = "pending"
    PROVE  \E d \in Devices : RequestCommit(d)
<1>1. \A d \in Devices : ~ConfirmHead(d) /\ ~ConfirmCommit(d)
                         /\ \A c \in Blobs : ~RequestUpload(d, c) /\ ~ConfirmRead(d, c)
  BY DEF QuotaInv, TypeOK, ConfirmHead, ConfirmCommit, RequestUpload, ConfirmRead
<1>2. CASE ~\E d \in Devices : RequestCommit(d)
  BY <1>1, <1>2 DEF QuotaInv, TypeOK, Next, RequestStep, ReleaseRead, ConfirmDiscard, ReleaseCommit, Release,
     PushWrite, PushCommit, Abort, Upload, Grow, JobStep, SweepRead, SweepWrite, CleanupRead,
     CleanupObject, CleanupFails, CleanupCommit, JobCrash, vars
<1> QED
  BY <1>2

\* A burst of request-uploads reserves no more than the quota: each URL handed
\* out fits with what is charged and what is still reserved.
THEOREM BurstsFit == Spec => BurstWithinQuota
<1>1. ASSUME QuotaInv, [Next]_vars
      PROVE  [\A b \in Blobs : blobs[b] = "absent" /\ blobs'[b] = "pending" =>
                Cardinality(Confirmed' \cup Reserved') <= Quota]_vars
  <2> SUFFICES ASSUME NEW b \in Blobs, blobs[b] = "absent", blobs'[b] = "pending"
               PROVE  Cardinality(Confirmed' \cup Reserved') <= Quota
    OBVIOUS
  <2>1. PICK d \in Devices : RequestCommit(d)
    BY <1>1, OnlyRequestsReserve
  <2> DEFINE old == Confirmed \cup Reserved
             c == request[d].blob
  <2>2. c \in Blobs
    BY <1>1, <2>1 DEF QuotaInv, Named, Holds, RequestCommit
  <2>3. Confirmed' \cup Reserved' \subseteq old \cup {c}
    BY <1>1, <2>1 DEF QuotaInv, TypeOK, RequestCommit, Confirmed, Reserved
  <2>4. old \in SUBSET Blobs
    BY DEF Confirmed, Reserved
  <2>5. /\ Cardinality(old) \in Nat /\ Cardinality(old \cup {c}) \in Nat
        /\ Cardinality(old \cup {c}) <= Cardinality(old) + 1
    BY <2>2, <2>4, OneMoreBlob
  <2>6. /\ Cardinality(Confirmed' \cup Reserved') \in Nat
        /\ Cardinality(Confirmed' \cup Reserved') <= Cardinality(old \cup {c})
    <3>1. old \cup {c} \subseteq Blobs
      BY <2>2, <2>4
    <3> QED
      BY <2>3, <3>1, FewerBlobs
  <2>7. Cardinality(old) + 1 <= Quota
    BY <1>1, <2>1 DEF QuotaInv, HonestReserve, RequestCommit
  <2> QED
    BY <2>5, <2>6, <2>7, BlobConstants
<1> QED
  BY <1>1, BlobQuotaInvariant, PTL DEF Spec, BurstWithinQuota
-----------------------------------------------------------------------------
(***************************************************************************)
(* Live entries keep their blobs.  What a request or a job found of its    *)
(* blob is still so when it writes, as long as no two had a hand on one    *)
(* blob (Apart) and no two entries share one (Distinct).                   *)
(***************************************************************************)
Hand(d) == {request[d].blob, request[d].old} \ {None}
JobHand == sweep \cup cleanup.todo \cup cleanup.gone

\* No two have a hand on one blob.
Apart ==
    /\ \A d, o \in Devices : d # o => Hand(d) \cap Hand(o) = {}
    /\ \A d \in Devices : Hand(d) \cap JobHand = {}

PushAlone == \A d, o \in Devices : request[d].op = "push" /\ request[o].op = "push" => d = o

Distinct == \A k, l \in Keys : entries[k] = entries[l] /\ entries[k] # None => k = l

\* What a request found is still so when it writes.
Sound(q) ==
    /\ q.op = "none" => q.blob = None
    /\ q.op # "push" => q.old = None
    /\ q.op = "push" => q.key \in Keys
    /\ q.op = "push" /\ q.old # None => q.old = entries[q.key] /\ q.old # q.blob
    /\ q.op = "reserve" => age[q.blob] = "unborn"
    /\ q.op \in {"confirm", "charge", "discard"} => blobs[q.blob] # "confirmed"
    /\ q.op = "charge" /\ ~raced => Landed(q.blob)
    /\ q.op = "release" /\ ~raced => q.blob \notin Referenced
    /\ q.op = "push" /\ q.blob # None /\ ~raced /\ ~doubled => blobs[q.blob] = "confirmed"

\* So is what a job found; and what is charged is there.
JobSound ==
    /\ sweep \cap Referenced = {}
    /\ \A b \in cleanup.todo \cup cleanup.gone : blobs[b] # "confirmed"
    /\ \A b \in Blobs : blobs[b] = "confirmed" => Landed(b)

KeepInv ==
    /\ PushAlone
    /\ \A d \in Devices : Sound(request[d])
    /\ ~doubled => Distinct
    /\ ~raced => Apart /\ JobSound
    /\ ~raced /\ ~doubled => Referenced \subseteq Confirmed

\* Every hand counts as a touch.
LEMMA HandsTouch == JobHand \subseteq Touched /\ \A o \in Devices : Hand(o) \subseteq Touched
<1>1. ASSUME NEW o \in Devices PROVE Hand(o) \subseteq Touched
  <2>1. {request[o].blob, request[o].old} \in {{request[d].blob, request[d].old} : d \in Devices}
    OBVIOUS
  <2>2. {request[o].blob, request[o].old} \subseteq UNION {{request[d].blob, request[d].old} : d \in Devices}
    BY <2>1
  <2> QED
    BY <2>2 DEF Hand, Touched
<1>2. JobHand \subseteq Touched
  BY DEF JobHand, Touched
<1> QED
  BY <1>1, <1>2

\* The request that is begun has a hand on what nobody else had.
LEMMA Beginning ==
    ASSUME TypeOK, KeepInv, NEW d \in Devices, NEW r, Begin(d, r)
    PROVE  /\ request'[d] = r /\ \A o \in Devices \ {d} : request'[o] = request[o]
           /\ ~raced' /\ JobHand' = JobHand => ~raced /\ Apart'
<1>1. request'[d] = r /\ \A o \in Devices \ {d} : request'[o] = request[o]
  BY DEF TypeOK, Begin
<1>2. ASSUME ~raced', JobHand' = JobHand PROVE ~raced /\ Apart'
  <2>1. ~raced /\ Touched \cap ({r.blob, r.old} \ {None}) = {}
    BY <1>2 DEF Begin
  <2>2. JobHand \subseteq Touched /\ \A o \in Devices : Hand(o) \subseteq Touched
    BY HandsTouch
  <2>3. Hand(d)' = {r.blob, r.old} \ {None} /\ \A o \in Devices \ {d} : Hand(o)' = Hand(o)
    BY <1>1 DEF Hand
  <2>4. Apart
    BY <2>1 DEF KeepInv
  <2> QED
    BY <1>2, <2>1, <2>2, <2>3, <2>4 DEF Apart
<1> QED
  BY <1>1, <1>2

\* A request that ends lets go.
LEMMA Ending ==
    ASSUME TypeOK, NEW d \in Devices, End(d)
    PROVE  /\ request'[d] = NoRequest /\ \A o \in Devices \ {d} : request'[o] = request[o]
           /\ Sound(request[d])'
           /\ PushAlone => PushAlone'
           /\ Apart /\ JobHand' \subseteq JobHand => Apart'
<1>1. request'[d] = NoRequest /\ \A o \in Devices \ {d} : request'[o] = request[o]
  BY DEF TypeOK, End
<1>2. NoRequest.op = "none" /\ NoRequest.blob = None /\ NoRequest.old = None
  BY DEF NoRequest
<1>3. Sound(request[d])'
  BY <1>1, <1>2 DEF Sound
<1>4. PushAlone => PushAlone'
  BY <1>1, <1>2 DEF PushAlone
<1>5. Hand(d)' = {} /\ \A o \in Devices \ {d} : Hand(o)' = Hand(o)
  BY <1>1, <1>2 DEF Hand
<1> QED
  BY <1>1, <1>3, <1>4, <1>5 DEF Apart

\* Hands stay where they are when only the jobs let go.
LEMMA LettingGo ==
    ASSUME request' = request, JobHand' \subseteq JobHand
    PROVE  (Apart => Apart') /\ (PushAlone => PushAlone')
BY DEF Apart, Hand, PushAlone

\* A request of one of the kinds finds its blob as it is to be.
LEMMA KeepBegin ==
    ASSUME TypeOK, KeepInv, NEW d \in Devices, NEW r, Begin(d, r),
           UNCHANGED <<blobs, age, objects, entries, doubled, jobs>>,
           r.op = "push" => PushLockFree(d),
           Sound(r)
    PROVE  KeepInv'
<1>1. /\ request'[d] = r /\ \A o \in Devices \ {d} : request'[o] = request[o]
      /\ ~raced' => ~raced /\ Apart'
  BY Beginning DEF jobs, JobHand
<1>2. Referenced' = Referenced /\ Confirmed' = Confirmed
  BY DEF Referenced, Confirmed
<1>3. PushAlone'
  BY <1>1 DEF KeepInv, PushAlone, PushLockFree
<1>4. \A o \in Devices : Sound(request[o])'
  BY <1>1, <1>2 DEF KeepInv, Sound, Landed
<1>5. ~raced' => JobSound'
  BY <1>1, <1>2 DEF KeepInv, JobSound, Landed, jobs
<1>6. ~doubled' => Distinct'
  BY DEF KeepInv, Distinct
<1>7. ~raced' /\ ~doubled' => Referenced' \subseteq Confirmed'
  BY <1>1, <1>2 DEF KeepInv
<1> QED
  BY <1>1, <1>3, <1>4, <1>5, <1>6, <1>7 DEF KeepInv

LEMMA KeepBegins ==
    ASSUME TypeOK, KeepInv, NEW d \in Devices,
           \/ \E b \in Blobs : RequestUpload(d, b) \/ ConfirmRead(d, b) \/ ReleaseRead(d, b)
           \/ \E k \in Keys, b \in Blobs \cup {None} : PushWrite(d, k, b)
    PROVE  KeepInv'
<1>1. ASSUME NEW b \in Blobs, RequestUpload(d, b) PROVE KeepInv'
  <2>1. PICK r : r = [NoRequest EXCEPT !.op = "reserve", !.blob = b]
    OBVIOUS
  <2>2. r.op = "reserve" /\ r.blob = b /\ r.old = None
    BY <2>1 DEF NoRequest
  <2>3. Sound(r)
    BY <1>1, <2>2 DEF Sound, Landed, RequestUpload
  <2> QED
    BY <1>1, <2>1, <2>2, <2>3, KeepBegin DEF RequestUpload
<1>2. ASSUME NEW b \in Blobs, ConfirmRead(d, b) PROVE KeepInv'
  <2>1. PICK r : r = [NoRequest EXCEPT !.op = "confirm", !.blob = b]
    OBVIOUS
  <2>2. r.op = "confirm" /\ r.blob = b /\ r.old = None
    BY <2>1 DEF NoRequest
  <2>3. Sound(r)
    BY <1>2, <2>2 DEF Sound, Landed, ConfirmRead
  <2> QED
    BY <1>2, <2>1, <2>2, <2>3, KeepBegin DEF ConfirmRead
<1>3. ASSUME NEW b \in Blobs, ReleaseRead(d, b) PROVE KeepInv'
  <2>1. PICK r : r = [NoRequest EXCEPT !.op = "release", !.blob = b]
    OBVIOUS
  <2>2. r.op = "release" /\ r.blob = b /\ r.old = None
    BY <2>1 DEF NoRequest
  <2>3. Sound(r)
    BY <1>3, <2>2 DEF Sound, Landed, ReleaseRead
  <2> QED
    BY <1>3, <2>1, <2>2, <2>3, KeepBegin DEF ReleaseRead
<1>4. ASSUME NEW k \in Keys, NEW b \in Blobs \cup {None}, PushWrite(d, k, b) PROVE KeepInv'
  <2>1. PICK old : old = IF entries[k] = b THEN None ELSE entries[k]
    OBVIOUS
  <2>2. PICK r : r = [op |-> "push", key |-> k, blob |-> b, old |-> old]
    OBVIOUS
  <2>3. r.op = "push" /\ r.key = k /\ r.blob = b /\ r.old = old
    BY <2>2
  <2>4. r.blob # None /\ ~raced /\ ~doubled => blobs[r.blob] = "confirmed"
    <3>1. b # None /\ b = entries[k] => b \in Referenced
      BY DEF Referenced
    <3>2. b \in {None, entries[k]} \cup Confirmed
      BY <1>4 DEF PushWrite
    <3>3. ~raced /\ ~doubled => Referenced \subseteq Confirmed
      BY DEF KeepInv
    <3> QED
      BY <2>3, <3>1, <3>2, <3>3 DEF Confirmed
  <2>5. Sound(r)
    BY <2>1, <2>3, <2>4 DEF Sound, Landed
  <2> QED
    BY <1>4, <2>1, <2>2, <2>3, <2>5, KeepBegin DEF PushWrite
<1> QED
  BY <1>1, <1>2, <1>3, <1>4

\* An upload's own steps: its blob is nobody's, or not charged yet.
LEMMA KeepUpload ==
    ASSUME TypeOK, Named, Locked, KeepInv, NEW d \in Devices,
           RequestCommit(d) \/ ConfirmHead(d) \/ ConfirmCommit(d) \/ ConfirmDiscard(d)
    PROVE  KeepInv'
<1> DEFINE b == request[d].blob
<1>1. /\ Holds(d) /\ b \in Blobs /\ Sound(request[d])
      /\ \A o \in Devices \ {d} : ~Holds(o) /\ Sound(request[o])
  BY DEF RequestCommit, ConfirmHead, ConfirmCommit, ConfirmDiscard, Holds, Named, Locked, KeepInv
<1>2. /\ entries' = entries /\ Referenced' = Referenced /\ sweep' = sweep /\ cleanup' = cleanup
      /\ JobHand' = JobHand /\ raced' = raced /\ doubled' = doubled
      /\ \A c \in Blobs \ {b} : blobs'[c] = blobs[c] /\ age'[c] = age[c] /\ objects'[c] = objects[c]
  BY DEF TypeOK, RequestCommit, ConfirmHead, ConfirmCommit, ConfirmDiscard, jobs, Referenced, JobHand
<1>3. blobs[b] # "confirmed"
  BY <1>1 DEF TypeOK, Sound, Landed, RequestCommit, ConfirmHead, ConfirmCommit, ConfirmDiscard
<1>4. blobs'[b] = "confirmed" /\ ~raced => objects'[b] \in {"good", "replaced"} /\ b \notin JobHand
  <2>1. CASE ConfirmCommit(d)
    <3>1. ~raced => Landed(b)
      BY <1>1, <2>1 DEF Sound, Landed, ConfirmCommit
    <3>2. ~raced => b \notin JobHand
      BY <1>1, BlobConstants DEF KeepInv, Apart, Hand
    <3> QED
      BY <1>1, <2>1, <3>1, <3>2 DEF ConfirmCommit, Landed, TypeOK
  <2>2. CASE RequestCommit(d)
    BY <1>1, <2>2 DEF TypeOK, RequestCommit
  <2>3. CASE ConfirmHead(d)
    BY <1>3, <2>3 DEF ConfirmHead
  <2>4. CASE ConfirmDiscard(d)
    BY <1>1, <2>4 DEF TypeOK, ConfirmDiscard
  <2> QED
    BY <2>1, <2>2, <2>3, <2>4
<1>5. ~raced' => JobSound'
  <2> SUFFICES ASSUME ~raced' PROVE JobSound'
    OBVIOUS
  <2>1. ~raced /\ JobSound
    BY <1>2 DEF KeepInv
  <2>2. \A c \in Blobs : blobs'[c] = "confirmed" => Landed(c)'
    <3> SUFFICES ASSUME NEW c \in Blobs, blobs'[c] = "confirmed" PROVE Landed(c)'
      OBVIOUS
    <3>1. CASE c = b
      BY <1>4, <2>1, <3>1 DEF Landed
    <3>2. CASE c # b
      BY <1>2, <2>1, <3>2 DEF JobSound, Landed
    <3> QED
      BY <3>1, <3>2
  <2>3. \A c \in cleanup.todo \cup cleanup.gone : blobs'[c] # "confirmed"
    BY <1>2, <1>4, <2>1 DEF JobSound, JobHand, TypeOK
  <2> QED
    BY <1>2, <2>1, <2>2, <2>3 DEF JobSound
<1>6. ~doubled' => Distinct'
  BY <1>2 DEF KeepInv, Distinct
<1>7. ~raced' /\ ~doubled' => Referenced' \subseteq Confirmed'
  BY <1>2, <1>3 DEF KeepInv, Confirmed
<1>8. ASSUME NEW o \in Devices \ {d}, request'[o] = request[o] PROVE Sound(request[o])'
  <2>1. PICK q : q = request[o]
    OBVIOUS
  <2>2. Sound(q) /\ q.op \notin {"reserve", "confirm", "charge", "discard"} /\ q.blob \in Blobs \cup {None}
    BY <1>1, <2>1 DEF Holds, TypeOK, Request
  <2>3. q.op = "push" /\ q.blob # None /\ ~raced /\ ~doubled => blobs'[q.blob] = "confirmed"
    BY <1>2, <1>3, <2>2 DEF Sound, Landed
  <2>4. Sound(q)'
    BY <1>2, <2>2, <2>3 DEF Sound, Landed
  <2> QED
    BY <1>8, <2>1, <2>4
<1>9. CASE End(d)
  BY <1>2, <1>5, <1>6, <1>7, <1>8, <1>9, Ending DEF KeepInv
<1>10. ASSUME NEW op \in {"charge", "discard"}, Proceed(d, op), ConfirmHead(d),
              op = "charge" => objects[b] = "good" /\ objects' = objects
       PROVE  KeepInv'
  <2>1. PICK q : q = request'[d]
    OBVIOUS
  <2>2. /\ q.op = op /\ q.blob = b /\ q.old = request[d].old
        /\ \A o \in Devices \ {d} : request'[o] = request[o]
    BY <1>10, <2>1 DEF TypeOK, Proceed, Request
  <2>3. request[d].op = "confirm" /\ blobs' = blobs
    BY <1>10 DEF ConfirmHead
  <2>4. Sound(q)'
    BY <1>1, <1>2, <1>3, <1>10, <2>2, <2>3 DEF Sound, Landed
  <2>5. \A o \in Devices : Hand(o)' = Hand(o)
    BY <2>1, <2>2 DEF Hand
  <2>6. ~raced' => Apart'
    BY <1>2, <2>5 DEF KeepInv, Apart
  <2>7. PushAlone'
    BY <1>10, <2>1, <2>2 DEF KeepInv, PushAlone
  <2> QED
    BY <1>5, <1>6, <1>7, <1>8, <2>1, <2>2, <2>4, <2>6, <2>7 DEF KeepInv
<1> QED
  BY <1>9, <1>10 DEF RequestCommit, ConfirmHead, ConfirmCommit, ConfirmDiscard

\* A release finds its blob unreferenced still, and takes nobody else's.
LEMMA KeepRelease ==
    ASSUME TypeOK, Named, KeepInv, NEW d \in Devices, ReleaseCommit(d)
    PROVE  KeepInv'
<1> DEFINE b == request[d].blob
<1>1. /\ b \in Blobs /\ b # None /\ request[d].op = "release" /\ Sound(request[d]) /\ End(d)
      /\ entries' = entries /\ Referenced' = Referenced /\ JobHand' = JobHand /\ sweep' = sweep /\ cleanup' = cleanup
      /\ raced' = raced /\ doubled' = doubled /\ age' = age /\ objects' = objects
      /\ \A c \in Blobs : (blobs'[c] = "confirmed" => blobs[c] = "confirmed")
                          /\ (c # b => blobs'[c] = blobs[c])
  BY BlobConstants DEF TypeOK, ReleaseCommit, Release, Named, KeepInv, jobs, Referenced, JobHand
<1>2. ASSUME NEW o \in Devices \ {d} PROVE Sound(request[o])'
  <2>1. PICK q : q = request[o] /\ q = request'[o]
    BY <1>1, Ending
  <2>2. Sound(q) /\ q.blob \in Blobs \cup {None} /\ (q.op = "push" \/ Holds(o) \/ q.op = "release" \/ q.op = "none")
    BY <2>1 DEF KeepInv, TypeOK, Request, Holds
  <2>3. ~raced => q.blob # b
    BY <1>1, <2>1 DEF KeepInv, Apart, Hand
  <2>4. q.op \in {"confirm", "charge", "discard"} => blobs'[q.blob] # "confirmed"
    BY <1>1, <2>1, <2>2 DEF Sound, Landed, Named, Holds
  <2>5. Sound(q)'
    BY <1>1, <2>2, <2>3, <2>4 DEF Sound, Landed
  <2> QED
    BY <2>1, <2>5
<1>3. ~raced' => JobSound'
  BY <1>1 DEF KeepInv, JobSound, Landed, TypeOK
<1>4. ~doubled' => Distinct'
  BY <1>1 DEF KeepInv, Distinct
<1>5. ~raced' /\ ~doubled' => Referenced' \subseteq Confirmed'
  BY <1>1 DEF KeepInv, Confirmed, Sound, Landed
<1> QED
  BY <1>1, <1>2, <1>3, <1>4, <1>5, Ending DEF KeepInv

\* A push takes up a blob that is still charged and lets go of one that no
\* other entry has.
LEMMA KeepPush ==
    ASSUME TypeOK, Named, KeepInv, NEW d \in Devices, PushCommit(d)
    PROVE  KeepInv'
<1> DEFINE b == request[d].blob
           old == request[d].old
           key == request[d].key
<1>1. /\ request[d].op = "push" /\ Sound(request[d]) /\ End(d) /\ key \in Keys
      /\ b \in Blobs \cup {None} /\ old \in Blobs \cup {None}
  BY DEF TypeOK, Request, PushCommit, KeepInv, Sound, Landed
<1>2. /\ entries'[key] = b /\ \A k \in Keys \ {key} : entries'[k] = entries[k]
      /\ Referenced' \subseteq Referenced \cup {b}
  BY <1>1 DEF TypeOK, PushCommit, Referenced
<1>3. /\ JobHand' = JobHand /\ sweep' = sweep /\ cleanup' = cleanup
      /\ raced' = raced /\ age' = age /\ objects' = objects
      /\ \A c \in Blobs : (blobs'[c] = "confirmed" => blobs[c] = "confirmed")
                          /\ (c # old => blobs'[c] = blobs[c])
  BY DEF TypeOK, PushCommit, Release, jobs, JobHand
<1>4. ~doubled' => /\ ~doubled
                   /\ \A k \in Keys \ {key} : entries[k] # None => entries[k] # b
  BY DEF PushCommit
<1>5. ~doubled' => Distinct'
  BY <1>1, <1>2, <1>4 DEF KeepInv, Distinct
<1>6. ~raced => b \notin JobHand
  BY BlobConstants, <1>1 DEF KeepInv, Apart, Hand, JobHand, TypeOK
<1>7. ASSUME NEW o \in Devices \ {d} PROVE Sound(request[o])'
  <2>1. PICK q : q = request[o] /\ q = request'[o]
    BY <1>1, Ending
  <2>2. /\ Sound(q) /\ q.blob \in Blobs \cup {None} /\ q.op # "push"
        /\ (Holds(o) \/ q.op = "release") => q.blob \in Blobs
    <3>1. Sound(q) /\ q \in Request
      BY <2>1 DEF KeepInv, TypeOK
    <3>2. q.op # "push" /\ ((Holds(o) \/ q.op = "release") => q.blob \in Blobs)
      BY <1>1, <2>1 DEF KeepInv, PushAlone, Named
    <3> QED
      BY <3>1, <3>2 DEF Request
  <2>3. ~raced /\ q.op = "release" => q.blob # b
    BY <1>1, <2>1, <2>2, BlobConstants DEF KeepInv, Apart, Hand
  <2>4. q.op \in {"confirm", "charge", "discard"} => blobs'[q.blob] # "confirmed"
    BY <1>3, <2>1, <2>2 DEF Sound, Landed, Holds
  <2>5. Sound(q)'
    BY <1>2, <1>3, <2>2, <2>3, <2>4 DEF Sound, Landed
  <2> QED
    BY <2>1, <2>5
<1>8. ~raced' => JobSound'
  BY <1>2, <1>3, <1>6 DEF KeepInv, JobSound, Landed, JobHand, TypeOK
<1>9. ASSUME ~raced', ~doubled', NEW c \in Referenced' PROVE c \in Confirmed'
  <2>1. PICK k \in Keys : c = entries'[k] /\ c # None
    BY DEF Referenced
  <2>2. ~raced /\ ~doubled /\ Referenced \subseteq Confirmed /\ Distinct
    BY <1>3, <1>4, <1>9 DEF KeepInv
  <2>3. blobs[c] = "confirmed" /\ c \in Blobs /\ c # old
    <3>1. CASE k = key
      BY <1>1, <1>2, <2>1, <2>2, <3>1 DEF Sound, Landed
    <3>2. CASE k # key
      <4>1. entries[k] = c /\ c \in Referenced
        BY <1>2, <2>1, <3>2 DEF Referenced
      <4> QED
        BY <1>1, <2>1, <2>2, <3>2, <4>1 DEF Sound, Landed, Distinct, Confirmed
    <3> QED
      BY <3>1, <3>2
  <2> QED
    BY <1>3, <2>3 DEF Confirmed
<1> QED
  BY <1>1, <1>3, <1>5, <1>7, <1>8, <1>9, Ending DEF KeepInv

\* What touches no row and no entry, and of the store and the ages only what
\* nobody relies on.
LEMMA KeepAside ==
    ASSUME TypeOK, KeepInv, request' = request, blobs' = blobs, entries' = entries,
           raced' = raced, doubled' = doubled, sweep' = sweep, cleanup' = cleanup,
           \A b \in Blobs : /\ Landed(b) => Landed(b)'
                            /\ age[b] = "unborn" => age'[b] = "unborn",
           Named
    PROVE  KeepInv'
<1>1. Referenced' = Referenced /\ Confirmed' = Confirmed /\ JobHand' = JobHand
  BY DEF Referenced, Confirmed, JobHand
<1>2. \A d \in Devices : Sound(request[d])'
  <2> SUFFICES ASSUME NEW d \in Devices PROVE Sound(request[d])'
    OBVIOUS
  <2>1. PICK q : q = request[d]
    OBVIOUS
  <2>2. Sound(q) /\ (q.op \in {"reserve", "charge"} => q.blob \in Blobs)
    BY <2>1 DEF KeepInv, Named, Holds
  <2>3. Sound(q)'
    BY <1>1, <2>2 DEF Sound, Landed
  <2> QED
    BY <2>1, <2>3
<1>3. JobSound => JobSound'
  BY <1>1 DEF JobSound, Landed
<1>4. Distinct => Distinct'
  BY DEF Distinct
<1> QED
  BY <1>1, <1>2, <1>3, <1>4, LettingGo DEF KeepInv

\* The jobs read what nobody else has a hand on, and write what nobody
\* references.
LEMMA KeepJobs ==
    ASSUME TypeOK, Named, KeepInv, JobStep
    PROVE  KeepInv'
<1> DEFINE Gone == {b \in Blobs : blobs'[b] # blobs[b]}
<1>1. /\ request' = request /\ entries' = entries /\ doubled' = doubled /\ age' = age
      /\ Referenced' = Referenced /\ (raced => raced')
  <2>1. CASE SweepRead \/ CleanupRead
    BY <2>1 DEF SweepRead, CleanupRead, RacedWith, Referenced
  <2>2. CASE SweepWrite \/ CleanupObject \/ CleanupFails \/ CleanupCommit \/ JobCrash
    BY <2>2 DEF SweepWrite, CleanupObject, CleanupFails, CleanupCommit, JobCrash, Referenced
  <2> QED
    BY <2>1, <2>2 DEF JobStep
<1>2. /\ Gone \subseteq JobHand
      /\ \A b \in Blobs : blobs'[b] = "confirmed" => blobs[b] = "confirmed"
      /\ ~raced => Gone \cap Referenced = {} \/ \A b \in Gone : blobs[b] # "confirmed"
  <2>1. CASE SweepWrite
    BY <2>1 DEF SweepWrite, Release, JobHand, KeepInv, JobSound, Landed
  <2>2. CASE CleanupCommit
    BY <2>2 DEF CleanupCommit, JobHand, KeepInv, JobSound, Landed
  <2>3. CASE blobs' = blobs
    BY <2>3
  <2> QED
    BY <2>1, <2>2, <2>3 DEF JobStep, SweepRead, CleanupRead, CleanupObject, CleanupFails, JobCrash
<1>3. \A b \in Blobs : objects'[b] # objects[b] => b \in cleanup.todo
  BY DEF JobStep, SweepRead, SweepWrite, CleanupRead, CleanupObject, CleanupFails, CleanupCommit, JobCrash, TypeOK
<1>4. ~raced' => Apart'
  <2>1. ASSUME NEW keys, RacedWith(keys), JobHand' = keys, ~raced' PROVE Apart'
    <3>1. ~raced /\ Touched \cap keys = {} /\ \A d \in Devices : Hand(d) \subseteq Touched
      BY <2>1, HandsTouch DEF RacedWith
    <3> QED
      BY <1>1, <2>1, <3>1 DEF KeepInv, Apart, Hand
  <2>2. CASE SweepRead
    BY <2>1, <2>2 DEF SweepRead, Resting, JobHand
  <2>3. CASE CleanupRead
    BY <2>1, <2>3 DEF CleanupRead, Resting, JobHand
  <2>4. CASE SweepWrite \/ CleanupObject \/ CleanupFails \/ CleanupCommit \/ JobCrash
    <3>1. JobHand' \subseteq JobHand /\ raced' = raced
      BY <2>4 DEF TypeOK, SweepWrite, CleanupObject, CleanupFails, CleanupCommit, JobCrash, JobHand
    <3> QED
      BY <1>1, <3>1, LettingGo DEF KeepInv
  <2> QED
    BY <2>2, <2>3, <2>4 DEF JobStep
<1>5. \A d \in Devices : Sound(request[d])'
  <2> SUFFICES ASSUME NEW d \in Devices PROVE Sound(request[d])'
    OBVIOUS
  <2>1. PICK q : q = request[d]
    OBVIOUS
  <2>2. /\ Sound(q) /\ q.blob \in Blobs \cup {None}
        /\ q.op \in {"reserve", "confirm", "charge", "discard"} => q.blob \in Blobs
    BY <2>1 DEF KeepInv, Named, Holds, TypeOK, Request
  <2>3. ~raced /\ q.blob # None => q.blob \notin JobHand
    BY <2>1 DEF KeepInv, Apart, Hand
  <2>4. q.op \in {"confirm", "charge", "discard"} => blobs'[q.blob] # "confirmed"
    BY <1>2, <2>2 DEF Sound, Landed
  <2>5. ~raced' /\ q.op = "charge" => Landed(q.blob)'
    BY <1>1, <1>3, <2>2, <2>3, BlobConstants DEF Sound, Landed, JobHand
  <2>6. ~raced' /\ ~doubled' /\ q.op = "push" /\ q.blob # None => blobs'[q.blob] = "confirmed"
    BY <1>1, <1>2, <2>2, <2>3 DEF Sound, Landed
  <2>7. Sound(q)'
    BY <1>1, <2>2, <2>4, <2>5, <2>6 DEF Sound, Landed
  <2> QED
    BY <1>1, <2>1, <2>7
<1>6. ~raced' => JobSound'
  <2> SUFFICES ASSUME ~raced' PROVE JobSound'
    OBVIOUS
  <2>1. ~raced /\ JobSound
    BY <1>1 DEF KeepInv
  <2>2. sweep' \cap Referenced' = {}
    BY <1>1, <2>1 DEF JobSound, Landed, JobStep, SweepRead, SweepWrite, CleanupRead, CleanupObject, CleanupFails,
                      CleanupCommit, JobCrash
  <2>3. \A b \in cleanup'.todo \cup cleanup'.gone : b \in Blobs /\ blobs[b] # "confirmed"
    BY <2>1 DEF TypeOK, JobSound, Landed, JobStep, SweepRead, SweepWrite, CleanupRead, CleanupObject, CleanupFails,
                CleanupCommit, JobCrash
  <2>4. \A b \in Blobs : blobs'[b] = "confirmed" => Landed(b)'
    BY <1>2, <1>3, <2>1 DEF JobSound, Landed
  <2> QED
    BY <1>2, <2>2, <2>3, <2>4 DEF JobSound, Landed
<1>7. ~raced' /\ ~doubled' => Referenced' \subseteq Confirmed'
  BY <1>1, <1>2 DEF KeepInv, Confirmed
<1>8. PushAlone' /\ (~doubled' => Distinct')
  BY <1>1 DEF KeepInv, PushAlone, Distinct
<1> QED
  BY <1>4, <1>5, <1>6, <1>7, <1>8 DEF KeepInv

LEMMA KeepStep ==
    ASSUME QuotaInv, KeepInv, [Next]_vars
    PROVE  KeepInv'
<1>0. TypeOK /\ Named /\ Locked
  BY DEF QuotaInv
<1>1. CASE UNCHANGED vars
  BY <1>0, <1>1, KeepAside DEF vars, jobs, Landed
<1>2. ASSUME NEW d \in Devices, RequestStep(d) PROVE KeepInv'
  <2>1. CASE Abort(d)
    <3>1. End(d) /\ KeepInv /\ UNCHANGED <<blobs, age, objects, entries, doubled, raced, jobs>>
      BY <2>1 DEF Abort
    <3>2. Referenced' = Referenced /\ Confirmed' = Confirmed /\ JobHand' = JobHand
      BY <3>1 DEF Referenced, Confirmed, JobHand, jobs
    <3>3. /\ request'[d] = NoRequest /\ \A o \in Devices \ {d} : request'[o] = request[o]
          /\ Sound(request[d])' /\ (PushAlone => PushAlone') /\ (Apart => Apart')
      BY <1>0, <3>1, <3>2, Ending
    <3>4. \A o \in Devices : Sound(request[o])'
      BY <3>1, <3>2, <3>3 DEF KeepInv, Sound, Landed
    <3>5. (JobSound => JobSound') /\ (Distinct => Distinct')
      BY <3>1, <3>2 DEF JobSound, Landed, Distinct, jobs
    <3> QED
      BY <3>1, <3>2, <3>3, <3>4, <3>5 DEF KeepInv
  <2> QED
    BY <1>0, <1>2, <2>1, KeepBegins, KeepUpload, KeepRelease, KeepPush DEF RequestStep
<1>3. ASSUME NEW b \in Blobs, Upload(b) \/ Grow(b) PROVE KeepInv'
  <2>1. \A c \in Blobs : /\ Landed(c) => Landed(c)'
                         /\ age[c] = "unborn" => age'[c] = "unborn"
    BY <1>0, <1>3 DEF TypeOK, Upload, Grow, Ages, Landed
  <2> QED
    BY <1>0, <1>3, <2>1, KeepAside DEF Upload, Grow, jobs
<1> QED
  BY <1>0, <1>1, <1>2, <1>3, KeepJobs DEF Next

LEMMA KeepInit == ASSUME Init PROVE KeepInv
<1>1. /\ NoRequest.op = "none" /\ NoRequest.blob = None /\ NoRequest.old = None
      /\ Referenced = {}
  BY DEF NoRequest, Init, Referenced
<1>2. \A d \in Devices : Sound(request[d]) /\ Hand(d) = {}
  BY <1>1 DEF Init, Sound, Landed, Hand
<1> QED
  BY <1>1, <1>2 DEF Init, KeepInv, PushAlone, Distinct, Apart, JobSound, Landed

\* Release, the sweep, the cleanup and every push leave alone the blob of a live
\* entry, for any blobs, entries and devices, unless two open transactions
\* touched one blob or two entries shared one.
THEOREM LiveEntriesKept == Spec => []LiveEntriesKeepBlobs
<1>1. QuotaInv /\ KeepInv /\ [Next]_vars => (QuotaInv /\ KeepInv)'
  BY QuotaStep, KeepStep
<1>2. KeepInv => LiveEntriesKeepBlobs
  BY DEF KeepInv, JobSound, Landed, Confirmed, LiveEntriesKeepBlobs
<1> QED
  BY QuotaInit, KeepInit, <1>1, <1>2, PTL DEF Spec
-----------------------------------------------------------------------------
(***************************************************************************)
(* BlobStore implements Ledger: a request-upload that commits is Reserve,  *)
(* a confirm-upload that finds its row is Charge, and every other step     *)
(* gives room back or takes none.                                          *)
(***************************************************************************)
Known == {b \in Blobs : age[b] # "unborn"}

\* A key is handed out by a request-upload that commits, and never again.
LEMMA OnlyRequestsHandOut ==
    ASSUME TypeOK, [Next]_vars, ~\E d \in Devices : RequestCommit(d)
    PROVE  Known' = Known
<1>1. CASE age' = age
  BY <1>1 DEF Known
<1>2. ASSUME NEW b \in Blobs, Grow(b)
      PROVE  Known' = Known
  <2>1. age[b] # "unborn" /\ age' = [age EXCEPT ![b] = age'[b]] /\ age'[b] # "unborn"
    BY <1>2 DEF TypeOK, Grow, Ages
  <2> QED
    BY <2>1 DEF Known, TypeOK
<1>3. CASE UNCHANGED vars
  BY <1>1, <1>3 DEF vars
<1>4. ASSUME NEW d \in Devices, RequestStep(d)
      PROVE  Known' = Known
  BY <1>1, <1>4 DEF RequestStep, RequestUpload, ConfirmRead, ReleaseRead, ConfirmHead, ConfirmCommit,
     ConfirmDiscard, ReleaseCommit, PushWrite, PushCommit, Abort
<1>5. CASE JobStep
  BY <1>1, <1>5 DEF JobStep, SweepRead, SweepWrite, CleanupRead, CleanupObject, CleanupFails,
     CleanupCommit, JobCrash
<1>6. ASSUME NEW b \in Blobs, Upload(b)
      PROVE  Known' = Known
  BY <1>1, <1>6 DEF Upload
<1> QED
  BY <1>2, <1>3, <1>4, <1>5, <1>6 DEF Next

\* A request-upload that commits: the key is new, and it fits with all that counts.
LEMMA CommitReserves ==
    ASSUME QuotaInv, KeepInv, NEW d \in Devices, RequestCommit(d)
    PROVE  \E b \in Blobs : L!Reserve(b)
<1>0. PICK b \in Blobs : b = request[d].blob
  BY DEF QuotaInv, Named, Holds, RequestCommit
<1> DEFINE counted == Confirmed \cup Reserved
<1>1. TypeOK /\ request[d].op = "reserve" /\ b \in Blobs
  BY <1>0 DEF QuotaInv, Named, Holds, RequestCommit
<1>2. age[b] = "unborn" /\ blobs[b] = "absent"
  BY <1>0, <1>1 DEF KeepInv, Sound, Landed, TypeOK
<1>3. /\ blobs' = [blobs EXCEPT ![b] = "pending"] /\ age' = [age EXCEPT ![b] = "fresh"]
  BY <1>0 DEF RequestCommit
<1>4. Known' = Known \cup {b}
  BY <1>1, <1>2, <1>3 DEF Known, TypeOK
<1>5. Reserved' = Reserved \cup {b} /\ Confirmed' = Confirmed
  BY <1>1, <1>2, <1>3 DEF Reserved, Confirmed, TypeOK
<1>6. Cardinality(counted) + 1 <= Quota
  BY <1>1 DEF QuotaInv, HonestReserve
<1>7. /\ Cardinality(counted) \in Nat /\ Cardinality(counted \cup {b}) \in Nat
      /\ Cardinality(counted \cup {b}) <= Cardinality(counted) + 1
  BY <1>1, OneMoreBlob DEF Confirmed, Reserved
<1>8. L!FitsQuota(Confirmed \cup Reserved \cup {b})
  BY <1>6, <1>7, BlobConstants DEF L!FitsQuota, L!Cardinality, Cardinality
<1> QED
  BY <1>1, <1>2, <1>4, <1>5, <1>8 DEF L!Reserve, Known

\* A confirm-upload that commits: the row it read is charged and fits, or has gone.
LEMMA CommitCharges ==
    ASSUME QuotaInv, KeepInv, NEW d \in Devices, ConfirmCommit(d)
    PROVE  L!LetGo \/ \E b \in Blobs : L!Charge(b)
<1>0. PICK b \in Blobs : b = request[d].blob
  BY DEF QuotaInv, Named, Holds, ConfirmCommit
<1>1. TypeOK /\ request[d].op = "charge" /\ b \in Blobs /\ blobs[b] # "confirmed"
  BY <1>0 DEF QuotaInv, Named, Holds, ConfirmCommit, KeepInv, Sound, Landed
<1>2. /\ blobs' = [blobs EXCEPT ![b] = IF blobs[b] = "absent" THEN "absent" ELSE "confirmed"]
      /\ age' = age
  BY <1>0 DEF ConfirmCommit
<1>3. CASE blobs[b] = "absent"
  <2>1. Confirmed' = Confirmed /\ Reserved' = Reserved
    BY <1>1, <1>2, <1>3 DEF Confirmed, Reserved, TypeOK
  <2> QED
    BY <1>1, <1>2, <2>1 DEF L!LetGo
<1>4. CASE blobs[b] # "absent"
  <2>1. Confirmed' = Confirmed \cup {b} /\ Reserved' = Reserved \ {b} /\ b \notin Confirmed
    BY <1>1, <1>2, <1>4 DEF Confirmed, Reserved, TypeOK
  <2>2. age[b] # "unborn"
    BY <1>1, <1>4 DEF TypeOK
  <2>3. Cardinality(Confirmed) + 1 <= Quota
    BY <1>1 DEF QuotaInv, HonestCharge
  <2>4. /\ Cardinality(Confirmed) \in Nat /\ Cardinality(Confirmed \cup {b}) \in Nat
        /\ Cardinality(Confirmed \cup {b}) <= Cardinality(Confirmed) + 1
    BY <1>1, OneMoreBlob DEF Confirmed
  <2>5. L!FitsQuota(Confirmed \cup {b})
    BY <2>3, <2>4, BlobConstants DEF L!FitsQuota, L!Cardinality, Cardinality
  <2> QED
    BY <1>1, <1>2, <2>1, <2>2, <2>5 DEF L!Charge
<1> QED
  BY <1>3, <1>4

\* What takes nothing and hands nothing out lets go.
LEMMA ShrinkLetsGo == ASSUME Shrinks, Known' = Known PROVE L!LetGo
<1>1. Reserved' \cap Confirmed' = {}
  BY DEF Reserved, Confirmed
<1> QED
  BY <1>1 DEF Shrinks, Known, L!LetGo

(* For any quota, blobs, devices and failures, the locks, the two checks   *)
(* and reservations that lapse keep the ledger of the account's quota.     *)
THEOREM ImplementsLedger == Spec => KeepsLedger
<1>1. ASSUME Init PROVE L!Init
  BY <1>1 DEF Init, L!Init, Confirmed, Reserved
<1>2. ASSUME QuotaInv, KeepInv, [Next]_vars PROVE L!Next
  <2>1. CASE \E d \in Devices : RequestCommit(d)
    <3>1. PICK d \in Devices : RequestCommit(d)
      BY <2>1
    <3>2. \E b \in Blobs : L!Reserve(b)
      BY <1>2, <3>1, CommitReserves
    <3> QED
      BY <3>2 DEF L!Next
  <2>2. CASE \E d \in Devices : ConfirmCommit(d)
    <3>1. L!LetGo \/ \E b \in Blobs : L!Charge(b)
      BY <1>2, <2>2, CommitCharges
    <3> QED
      BY <3>1 DEF L!Next
  <2>3. CASE ~\E d \in Devices : RequestCommit(d) \/ ConfirmCommit(d)
    <3>1. Known' = Known
      BY <1>2, <2>3, OnlyRequestsHandOut DEF QuotaInv
    <3>2. Shrinks
      <4>1. CASE \E d \in Devices : ConfirmHead(d) \/ \E b \in Blobs : RequestUpload(d, b) \/ ConfirmRead(d, b)
        <5>1. blobs' = blobs /\ age' = age
          BY <4>1 DEF ConfirmHead, RequestUpload, ConfirmRead
        <5> QED
          BY <5>1 DEF Shrinks, Confirmed, Reserved
      <4>2. CASE ~\E d \in Devices : ConfirmHead(d) \/ \E b \in Blobs : RequestUpload(d, b) \/ ConfirmRead(d, b)
        BY <1>2, <2>3, <4>2, OtherSteps
      <4> QED
        BY <4>1, <4>2
    <3>3. L!LetGo
      BY <3>1, <3>2, ShrinkLetsGo
    <3> QED
      BY <3>3 DEF L!Next
  <2> QED
    BY <2>1, <2>2, <2>3
<1>3. QuotaInv /\ KeepInv /\ [Next]_vars => (QuotaInv /\ KeepInv)'
  BY QuotaStep, KeepStep
<1>4. QuotaInv /\ KeepInv /\ [Next]_vars => [L!Next]_(L!vars)
  BY <1>2
<1>5. Init => L!Init
  BY <1>1
<1>6. Init => QuotaInv /\ KeepInv
  BY QuotaInit, KeepInit
<1> QED
  BY <1>3, <1>4, <1>5, <1>6, PTL DEF Spec, KeepsLedger, L!Spec
=============================================================================
