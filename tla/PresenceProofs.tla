---------------------------- MODULE PresenceProofs ---------------------------
(***************************************************************************)
(* Proofs about Presence: for any number of devices, replicas, sockets and *)
(* faults, the two Redis structures and everybody's place stay well-formed,*)
(* and no space is told the user has gone while a socket is open.          *)
(***************************************************************************)
EXTENDS Presence, TLAPS, FiniteSetTheorems

Phases == {"new", "adding", "setting", "announcing", "open", "refreshing",
           "asking", "removing", "deleting", "parting", "done"}
Stages == {"following", "resting", "scanning", "condemned", "asking", "telling"}

Active(s) == socket[s].phase \notin {"new", "done"}

\* An endpoint under way has a device.
Named == \A s \in Sockets : Active(s) => socket[s].device \in Devices

\* What an endpoint has stated of its device stands.
Asserted ==
    \A s \in Sockets :
        /\ socket[s].phase \in {"setting", "announcing", "open", "refreshing"} => socket[s].device \in devices
        /\ socket[s].phase \in {"announcing", "open", "refreshing"} => socket[s].device \in keys

\* Who is about to say goodbye has yet to look at the key of every open socket.
Goodbyes ==
    \A s, t \in Sockets :
        Leaving(s) /\ socket[s].silent = FALSE /\ Open(t) =>
            socket[s].phase = "asking" /\ socket[t].device \in socket[s].ask

\* So has a sweep that evicted a device; and a device it condemned has no key.
Verdicts ==
    \A r \in Replicas :
        /\ sweep[r].stage = "condemned" => sweep[r].device \notin keys
        /\ sweep[r].stage = "asking" =>
              /\ sweep[r].evicted = TRUE
              /\ \A t \in Sockets : Open(t) => socket[t].device \in sweep[r].ask

Truths == Asserted /\ Goodbyes /\ Verdicts

Inv == /\ TypeOK /\ Named
       /\ ~excused => ~Crossing /\ Truths

(***************************************************************************)
(* Counting                                                                *)
(***************************************************************************)
\* Two finite sets of no more than one element between them.
LEMMA NoMoreThanOne ==
    ASSUME NEW B, NEW E, IsFiniteSet(B), IsFiniteSet(E), ~(Cardinality(B) + Cardinality(E) > 1)
    PROVE  /\ \A x, y \in B : x = y
           /\ \A x, y \in E : x = y
           /\ B = {} \/ E = {}
<1>1. Cardinality(B) \in Nat /\ Cardinality(E) \in Nat
  BY FS_CardinalityType
<1>2. (Cardinality(B) = 0 <=> B = {}) /\ (Cardinality(E) = 0 <=> E = {})
  BY FS_EmptySet
<1>3. B = {} \/ E = {}
  BY <1>1, <1>2
<1>4. (Cardinality(B) = 1 => \E x : B = {x}) /\ (Cardinality(E) = 1 => \E x : E = {x})
  BY FS_Singleton
<1>5. (Cardinality(B) = 0 \/ Cardinality(B) = 1) /\ (Cardinality(E) = 0 \/ Cardinality(E) = 1)
  BY <1>1
<1> QED
  BY <1>2, <1>3, <1>4, <1>5

(* Without Crossing, one endpoint at most comes or goes, or one sweep      *)
(* evicts, and no device has two sockets.                                  *)
LEMMA Alone ==
    ASSUME ~Crossing
    PROVE  /\ \A s, t \in Sockets : (Connecting(s) \/ Leaving(s)) /\ (Connecting(t) \/ Leaving(t)) => s = t
           /\ \A q, r \in Replicas :
                 /\ sweep[q].stage = "condemned" \/ sweep[q].evicted
                 /\ sweep[r].stage = "condemned" \/ sweep[r].evicted
                 => q = r
           /\ \A s \in Sockets, r \in Replicas :
                 ~((Connecting(s) \/ Leaving(s)) /\ (sweep[r].stage = "condemned" \/ sweep[r].evicted))
           /\ \A s, t \in Sockets : Active(s) /\ Active(t) /\ s # t => socket[s].device # socket[t].device
<1>1. IsFiniteSet(Sockets) /\ IsFiniteSet(Replicas)
  BY PresenceConstants, FS_Interval DEF Sockets, Replicas
<1>2. Busy \in SUBSET Sockets /\ Evicting \in SUBSET Replicas
  BY DEF Busy, Evicting
<1>3. IsFiniteSet(Busy) /\ IsFiniteSet(Evicting)
  BY <1>1, <1>2, FS_Subset
<1>4. ~(Cardinality(Busy) + Cardinality(Evicting) > 1)
  BY DEF Crossing
<1>5. /\ \A x, y \in Busy : x = y
      /\ \A x, y \in Evicting : x = y
      /\ Busy = {} \/ Evicting = {}
  BY <1>3, <1>4, NoMoreThanOne
<1>6. \A s, t \in Sockets : Active(s) /\ Active(t) /\ s # t => socket[s].device # socket[t].device
  BY DEF Crossing, Active
<1>7. \A s \in Sockets : Connecting(s) \/ Leaving(s) => s \in Busy
  BY DEF Busy
<1>8. \A r \in Replicas : sweep[r].stage = "condemned" \/ sweep[r].evicted => r \in Evicting
  BY DEF Evicting
<1> QED
  BY <1>5, <1>6, <1>7, <1>8

(***************************************************************************)
(* One endpoint, or one sweep, moves                                       *)
(***************************************************************************)
\* The endpoint of s becomes q, and no other changes.
Moves(s, q) ==
    /\ q \in Socket /\ socket' \in [Sockets -> Socket]
    /\ socket'[s] = q /\ \A t \in Sockets : t # s => socket'[t] = socket[t]

LEMMA GoesOK ==
    ASSUME TypeOK, NEW s \in Sockets, NEW from \in Phases, NEW to \in Phases, Goes(s, from, to)
    PROVE  \E q \in Socket :
              /\ Moves(s, q) /\ socket[s].phase = from /\ q.phase = to
              /\ q.device = socket[s].device /\ q.ask = socket[s].ask /\ q.silent = socket[s].silent
<1>1. PICK q : q = [socket[s] EXCEPT !.phase = to]
  OBVIOUS
<1>2. socket[s] \in Socket
  BY DEF TypeOK
<1>3. /\ q \in Socket /\ q.phase = to
      /\ q.device = socket[s].device /\ q.ask = socket[s].ask /\ q.silent = socket[s].silent
  BY <1>1, <1>2 DEF Socket, Phases
<1>4. socket' = [socket EXCEPT ![s] = q]
  BY <1>1 DEF Goes
<1>5. Moves(s, q)
  BY <1>3, <1>4 DEF TypeOK, Moves
<1> QED
  BY <1>3, <1>5 DEF Goes

LEMMA AsksOK ==
    ASSUME TypeOK, NEW s \in Sockets, NEW left \in SUBSET Devices, NEW silent \in BOOLEAN, Asks(s, left, silent)
    PROVE  \E q \in Socket :
              /\ Moves(s, q) /\ q.phase = IF left = {} THEN "removing" ELSE "asking"
              /\ q.device = socket[s].device /\ q.ask = left /\ q.silent = silent
<1>1. PICK q : q = [socket[s] EXCEPT !.phase = IF left = {} THEN "removing" ELSE "asking",
                                     !.ask = left, !.silent = silent]
  OBVIOUS
<1>2. socket[s] \in Socket
  BY DEF TypeOK
<1>3. /\ q \in Socket /\ q.phase = IF left = {} THEN "removing" ELSE "asking"
      /\ q.device = socket[s].device /\ q.ask = left /\ q.silent = silent
  BY <1>1, <1>2 DEF Socket
<1>4. socket' = [socket EXCEPT ![s] = q]
  BY <1>1 DEF Asks
<1>5. Moves(s, q)
  BY <1>3, <1>4 DEF TypeOK, Moves
<1> QED
  BY <1>3, <1>5

LEMMA ConnectOK ==
    ASSUME TypeOK, NEW s \in Sockets, NEW d \in Devices, connect(s, d)
    PROVE  \E q \in Socket : /\ Moves(s, q) /\ socket[s].phase = "new" /\ q.phase = "adding"
                             /\ q.device = d
<1>1. PICK q : q = [socket[s] EXCEPT !.phase = "adding", !.device = d]
  OBVIOUS
<1>2. socket[s] \in Socket /\ d \in 0..MaxDevices
  BY PresenceConstants DEF TypeOK, Devices
<1>3. q \in Socket /\ q.phase = "adding" /\ q.device = d
  BY <1>1, <1>2 DEF Socket
<1>4. socket' = [socket EXCEPT ![s] = q]
  BY <1>1 DEF connect
<1>5. Moves(s, q)
  BY <1>3, <1>4 DEF TypeOK, Moves
<1> QED
  BY <1>3, <1>5 DEF connect

\* The sweep of r becomes w, and no other changes.
Sweeping(r, w) ==
    /\ w \in Sweep /\ sweep' \in [Replicas -> Sweep]
    /\ sweep'[r] = w /\ \A q \in Replicas : q # r => sweep'[q] = sweep[q]

LEMMA SweptOK ==
    ASSUME TypeOK, NEW r \in Replicas, NEW w \in Sweep, Swept(r, w)
    PROVE  Sweeping(r, w)
BY DEF TypeOK, Swept, Sweeping

LEMMA RestingOK ==
    /\ Resting \in Sweep /\ Resting.stage = "resting" /\ Resting.evicted = FALSE
    /\ Following \in Sweep /\ Following.stage = "following" /\ Following.evicted = FALSE
<1>1. PICK f : f = Following
  OBVIOUS
<1>2. f \in Sweep /\ f.stage = "following" /\ f.evicted = FALSE
  BY <1>1, PresenceConstants DEF Following, Sweep
<1>3. PICK g : g = [f EXCEPT !.stage = "resting"]
  OBVIOUS
<1>4. g \in Sweep /\ g.stage = "resting" /\ g.evicted = FALSE
  BY <1>2, <1>3 DEF Sweep
<1> QED
  BY <1>1, <1>2, <1>3, <1>4 DEF Resting

(***************************************************************************)
(* Endpoints                                                               *)
(***************************************************************************)
Stated == {"setting", "announcing", "open", "refreshing"}
Opened == {"open", "refreshing"}
Parting == {"asking", "removing", "deleting", "parting"}

LEMMA MovesTypes ==
    ASSUME Inv, NEW s \in Sockets, NEW q \in Socket, Moves(s, q),
           q.phase \notin {"new", "done"} => q.device \in Devices
    PROVE  socket' \in [Sockets -> Socket] /\ Named'
BY DEF Inv, Moves, Named, Active

(* What holds of everybody is kept by one endpoint that states no more than*)
(* it has done, and spares the rows and keys of the others.                *)
LEMMA EndpointTruths ==
    ASSUME Inv, ~excused, NEW s \in Sockets, NEW q \in Socket, Moves(s, q), UNCHANGED sweep,
           \A t \in Sockets : t # s /\ socket[t].phase \in Stated => socket[t].device \in devices',
           \A t \in Sockets : t # s /\ socket[t].phase \in Stated \ {"setting"} => socket[t].device \in keys',
           q.phase \in Stated => q.device \in devices',
           q.phase \in Stated \ {"setting"} => q.device \in keys',
           q.phase \in Opened =>
               socket[s].phase \in {"announcing", "open", "refreshing"} /\ q.device = socket[s].device,
           q.phase \in Parting /\ q.silent = FALSE =>
               \A t \in Sockets : t # s /\ socket[t].phase \in Opened =>
                   q.phase = "asking" /\ socket[t].device \in q.ask,
           \A r \in Replicas : sweep[r].stage = "condemned" => sweep[r].device \notin keys'
    PROVE  Truths'
<1>0. /\ TypeOK /\ ~Crossing /\ Asserted /\ Goodbyes /\ Verdicts
      /\ sweep' = sweep
  BY DEF Inv, Truths
<1>1. socket'[s] = q /\ \A t \in Sockets : t # s => socket'[t] = socket[t]
  BY DEF Moves
<1>2. /\ \A t \in Sockets : (Connecting(s) \/ Leaving(s)) /\ (Connecting(t) \/ Leaving(t)) => s = t
      /\ \A r \in Replicas : ~((Connecting(s) \/ Leaving(s)) /\ (sweep[r].stage = "condemned" \/ sweep[r].evicted))
  BY <1>0, Alone
<1>3. Asserted'
  BY <1>1 DEF Asserted, Stated
<1>4. Goodbyes'
  <2> SUFFICES ASSUME NEW u \in Sockets, NEW t \in Sockets,
                      socket'[u].phase \in Parting, socket'[u].silent = FALSE, socket'[t].phase \in Opened
               PROVE  socket'[u].phase = "asking" /\ socket'[t].device \in socket'[u].ask
    BY DEF Goodbyes, Leaving, Open, Parting, Opened
  <2>1. CASE u = s
    <3>1. t # s
      BY <1>1, <2>1 DEF Parting, Opened
    <3> QED
      BY <1>1, <2>1, <3>1
  <2>2. CASE u # s /\ t = s
    <3>1. socket[u].phase \in Parting /\ socket[u].silent = FALSE /\ Leaving(u)
      BY <1>1, <2>2 DEF Parting, Leaving
    <3>2. socket[s].phase \in Opened
      BY <1>1, <1>2, <2>2, <3>1 DEF Opened, Connecting
    <3>3. socket[u].phase = "asking" /\ socket[s].device \in socket[u].ask
      BY <1>0, <3>1, <3>2 DEF Goodbyes, Open, Opened
    <3> QED
      BY <1>1, <2>2, <3>3
  <2>3. CASE u # s /\ t # s
    BY <1>0, <1>1, <2>3 DEF Goodbyes, Leaving, Open, Parting, Opened
  <2> QED
    BY <2>1, <2>2, <2>3
<1>5. Verdicts'
  <2> SUFFICES ASSUME NEW r \in Replicas, sweep[r].stage = "asking"
               PROVE  /\ sweep[r].evicted = TRUE
                      /\ \A t \in Sockets : socket'[t].phase \in Opened => socket'[t].device \in sweep[r].ask
    BY <1>0 DEF Verdicts, Open, Opened
  <2>1. sweep[r].evicted = TRUE
    BY <1>0 DEF Verdicts
  <2>2. ASSUME NEW t \in Sockets, socket'[t].phase \in Opened
        PROVE  socket'[t].device \in sweep[r].ask
    <3>1. socket[t].phase \in Opened /\ socket'[t].device = socket[t].device
      BY <1>1, <1>2, <2>1, <2>2 DEF Opened, Connecting
    <3> QED
      BY <1>0, <3>1 DEF Verdicts, Open, Opened
  <2> QED
    BY <2>1, <2>2
<1> QED
  BY <1>3, <1>4, <1>5 DEF Truths

\* What each step has to keep; it is Excuse that looks at Crossing.
Keeps == TypeOK' /\ Named' /\ (~excused' => Truths')

LEMMA PublishOK ==
    ASSUME TypeOK, NEW online \in BOOLEAN, publish_user_presence(online)
    PROVE  told' \in BOOLEAN /\ faults' \in 0..MaxFaults
BY PresenceConstants DEF TypeOK, publish_user_presence, Fault

LEMMA FaultOK ==
    ASSUME TypeOK, Fault
    PROVE  faults' \in 0..MaxFaults
BY PresenceConstants DEF TypeOK, Fault

LEMMA ConnectKeeps ==
    ASSUME Inv, NEW s \in Sockets, NEW d \in Devices, connect(s, d)
    PROVE  Keeps
<1>0. TypeOK /\ Named
  BY DEF Inv
<1>1. PICK q \in Socket : Moves(s, q) /\ socket[s].phase = "new" /\ q.phase = "adding" /\ q.device = d
  BY <1>0, ConnectOK
<1>2. socket' \in [Sockets -> Socket] /\ Named'
  BY <1>1, MovesTypes
<1>3. UNCHANGED <<devices, keys, told, lock, sweep, faults>> /\ excused' \in BOOLEAN /\ (~excused' => ~excused)
  BY DEF connect, Excuse
<1>4. TypeOK'
  BY <1>0, <1>2, <1>3 DEF TypeOK
<1>5. ASSUME ~excused' PROVE Truths'
  <2>1. ~excused /\ Asserted /\ Verdicts
    BY <1>3, <1>5 DEF Inv, Truths
  <2>2. UNCHANGED sweep
    BY <1>3
  <2>3. \A t \in Sockets : t # s /\ socket[t].phase \in Stated => socket[t].device \in devices'
    BY <1>3, <2>1 DEF Asserted, Stated
  <2>4. \A t \in Sockets : t # s /\ socket[t].phase \in Stated \ {"setting"} => socket[t].device \in keys'
    BY <1>3, <2>1 DEF Asserted, Stated
  <2>5. q.phase \notin Stated /\ q.phase \notin Opened /\ q.phase \notin Parting
    BY <1>1 DEF Stated, Opened, Parting
  <2>6. \A r \in Replicas : sweep[r].stage = "condemned" => sweep[r].device \notin keys'
    BY <1>3, <2>1 DEF Verdicts
  <2> QED
    BY <1>1, <2>1, <2>2, <2>3, <2>4, <2>5, <2>6, EndpointTruths
<1> QED
  BY <1>2, <1>4, <1>5 DEF Keeps

LEMMA AddDeviceKeeps ==
    ASSUME Inv, NEW s \in Sockets, AddDevice(s)
    PROVE  Keeps
<1>0. TypeOK /\ Named
  BY DEF Inv
<1>1. PICK q \in Socket :
        /\ Moves(s, q) /\ q.device = socket[s].device
        /\ \/ socket[s].phase = "adding" /\ q.phase = "setting"
           \/ socket[s].phase = "open" /\ q.phase = "refreshing"
  <2>1. CASE Goes(s, "adding", "setting")
    BY <1>0, <2>1, GoesOK DEF Phases
  <2>2. CASE Goes(s, "open", "refreshing")
    BY <1>0, <2>2, GoesOK DEF Phases
  <2> QED
    BY <2>1, <2>2 DEF AddDevice
<1>2. q.device \in Devices
  BY <1>0, <1>1 DEF Named, Active
<1>3. socket' \in [Sockets -> Socket] /\ Named'
  BY <1>1, <1>2, MovesTypes
<1>4. /\ UNCHANGED <<keys, told, lock, sweep, faults>> /\ devices' = devices \cup {socket[s].device}
      /\ excused' \in BOOLEAN /\ (~excused' => ~excused)
  BY DEF AddDevice, Excuse
<1>5. TypeOK'
  BY <1>0, <1>1, <1>2, <1>3, <1>4 DEF TypeOK
<1>6. ASSUME ~excused' PROVE Truths'
  <2>1. ~excused /\ Asserted /\ Goodbyes /\ Verdicts
    BY <1>4, <1>6 DEF Inv, Truths
  <2>2. UNCHANGED sweep
    BY <1>4
  <2>3. \A t \in Sockets : t # s /\ socket[t].phase \in Stated => socket[t].device \in devices'
    BY <1>4, <2>1 DEF Asserted, Stated
  <2>4. \A t \in Sockets : t # s /\ socket[t].phase \in Stated \ {"setting"} => socket[t].device \in keys'
    BY <1>4, <2>1 DEF Asserted, Stated
  <2>5. q.phase \in Stated => q.device \in devices'
    BY <1>1, <1>4
  <2>6. q.phase \in Stated \ {"setting"} => q.device \in keys'
    BY <1>1, <1>4, <2>1 DEF Asserted, Stated
  <2>7. q.phase \in Opened => socket[s].phase \in {"announcing", "open", "refreshing"}
    BY <1>1 DEF Opened
  <2>8. q.phase \notin Parting
    BY <1>1 DEF Parting
  <2>9. \A r \in Replicas : sweep[r].stage = "condemned" => sweep[r].device \notin keys'
    BY <1>4, <2>1 DEF Verdicts
  <2> QED
    BY <1>1, <2>1, <2>2, <2>3, <2>4, <2>5, <2>6, <2>7, <2>8, <2>9, EndpointTruths
<1> QED
  BY <1>3, <1>5, <1>6 DEF Keeps

LEMMA SetKeyKeeps ==
    ASSUME Inv, NEW s \in Sockets, SetKey(s)
    PROVE  Keeps
<1>0. TypeOK /\ Named
  BY DEF Inv
<1>1. PICK q \in Socket :
        /\ Moves(s, q) /\ q.device = socket[s].device
        /\ \/ socket[s].phase = "setting" /\ q.phase = "announcing"
           \/ socket[s].phase = "refreshing" /\ q.phase = "open"
  <2>1. CASE Goes(s, "setting", "announcing")
    BY <1>0, <2>1, GoesOK DEF Phases
  <2>2. CASE Goes(s, "refreshing", "open")
    BY <1>0, <2>2, GoesOK DEF Phases
  <2> QED
    BY <2>1, <2>2 DEF SetKey
<1>2. q.device \in Devices
  BY <1>0, <1>1 DEF Named, Active
<1>3. socket' \in [Sockets -> Socket] /\ Named'
  BY <1>1, <1>2, MovesTypes
<1>4. /\ UNCHANGED <<devices, told, lock, sweep, faults>> /\ keys' = keys \cup {socket[s].device}
      /\ excused' \in BOOLEAN /\ (~excused' => ~excused)
  BY DEF SetKey, Excuse
<1>5. TypeOK'
  BY <1>0, <1>1, <1>2, <1>3, <1>4 DEF TypeOK
<1>6. ASSUME ~excused' PROVE Truths'
  <2>1. ~excused /\ ~Crossing /\ Asserted /\ Goodbyes /\ Verdicts
    BY <1>4, <1>6 DEF Inv, Truths
  <2>2. UNCHANGED sweep
    BY <1>4
  <2>3. \A t \in Sockets : t # s /\ socket[t].phase \in Stated => socket[t].device \in devices'
    BY <1>4, <2>1 DEF Asserted, Stated
  <2>4. \A t \in Sockets : t # s /\ socket[t].phase \in Stated \ {"setting"} => socket[t].device \in keys'
    BY <1>4, <2>1 DEF Asserted, Stated
  <2>5. q.phase \in Stated => q.device \in devices'
    BY <1>1, <1>4, <2>1 DEF Asserted, Stated
  <2>6. q.device \in keys'
    BY <1>1, <1>4
  <2>7. q.phase \in Opened => socket[s].phase \in {"announcing", "open", "refreshing"}
    BY <1>1 DEF Opened
  <2>8. q.phase \notin Parting
    BY <1>1 DEF Parting
  <2>9. ASSUME NEW r \in Replicas, sweep[r].stage = "condemned" PROVE sweep[r].device \notin keys'
    <3>1. ~Connecting(s)
      BY <2>1, <2>9, Alone
    <3>2. socket[s].device \in keys
      BY <1>1, <2>1, <3>1 DEF Asserted, Connecting
    <3> QED
      BY <1>4, <2>1, <2>9, <3>2 DEF Verdicts
  <2> QED
    BY <1>1, <2>1, <2>2, <2>3, <2>4, <2>5, <2>6, <2>7, <2>8, <2>9, EndpointTruths
<1> QED
  BY <1>3, <1>5, <1>6 DEF Keeps

\* An endpoint that leaves Redis as it is.
LEMMA QuietTruths ==
    ASSUME Inv, ~excused, NEW s \in Sockets, NEW q \in Socket, Moves(s, q),
           UNCHANGED devices, UNCHANGED keys, UNCHANGED sweep,
           q.phase \in Stated =>
               /\ q.phase \in Opened /\ q.device = socket[s].device
               /\ socket[s].phase \in {"announcing", "open", "refreshing"},
           q.phase \in Parting /\ q.silent = FALSE =>
               \A t \in Sockets : t # s /\ socket[t].phase \in Opened =>
                   q.phase = "asking" /\ socket[t].device \in q.ask
    PROVE  Truths'
<1>1. Asserted /\ Verdicts
  BY DEF Inv, Truths
<1>2. \A t \in Sockets : t # s /\ socket[t].phase \in Stated => socket[t].device \in devices'
  BY <1>1 DEF Asserted, Stated
<1>3. \A t \in Sockets : t # s /\ socket[t].phase \in Stated \ {"setting"} => socket[t].device \in keys'
  BY <1>1 DEF Asserted, Stated
<1>4. q.phase \in Stated => q.device \in devices'
  BY <1>1 DEF Asserted, Stated
<1>5. q.phase \in Stated \ {"setting"} => q.device \in keys'
  BY <1>1 DEF Asserted, Stated
<1>6. q.phase \in Opened =>
         socket[s].phase \in {"announcing", "open", "refreshing"} /\ q.device = socket[s].device
  BY DEF Stated, Opened
<1>7. \A r \in Replicas : sweep[r].stage = "condemned" => sweep[r].device \notin keys'
  BY <1>1 DEF Verdicts
<1> QED
  BY <1>2, <1>3, <1>4, <1>5, <1>6, <1>7, EndpointTruths

LEMMA AssertFailsKeeps ==
    ASSUME Inv, NEW s \in Sockets, AssertFails(s)
    PROVE  Keeps
<1>0. TypeOK /\ Named
  BY DEF Inv
<1>1. PICK q \in Socket :
        /\ Moves(s, q) /\ q.device = socket[s].device
        /\ \/ q.phase = "done"
           \/ socket[s].phase = "refreshing" /\ q.phase = "open"
  <2>1. CASE Goes(s, "adding", "done")
    BY <1>0, <2>1, GoesOK DEF Phases
  <2>2. CASE Goes(s, "setting", "done")
    BY <1>0, <2>2, GoesOK DEF Phases
  <2>3. CASE Goes(s, "refreshing", "open")
    BY <1>0, <2>3, GoesOK DEF Phases
  <2> QED
    BY <2>1, <2>2, <2>3 DEF AssertFails
<1>2. q.phase \notin {"new", "done"} => q.device \in Devices
  BY <1>0, <1>1 DEF Named, Active
<1>3. socket' \in [Sockets -> Socket] /\ Named'
  BY <1>1, <1>2, MovesTypes
<1>4. /\ UNCHANGED <<devices, keys, told, lock, sweep>> /\ faults' \in 0..MaxFaults
      /\ excused' \in BOOLEAN /\ (~excused' => ~excused)
  BY <1>0, FaultOK DEF AssertFails, Excuse
<1>5. TypeOK'
  BY <1>0, <1>3, <1>4 DEF TypeOK
<1>6. ASSUME ~excused' PROVE Truths'
  BY <1>1, <1>4, <1>6, QuietTruths DEF Stated, Opened, Parting
<1> QED
  BY <1>3, <1>5, <1>6 DEF Keeps

LEMMA AnnounceOnlineKeeps ==
    ASSUME Inv, NEW s \in Sockets, AnnounceOnline(s)
    PROVE  Keeps
<1>0. TypeOK /\ Named
  BY DEF Inv
<1>1. PICK q \in Socket :
        /\ Moves(s, q) /\ q.device = socket[s].device
        /\ socket[s].phase = "announcing" /\ q.phase = "open"
  BY <1>0, GoesOK DEF Phases, AnnounceOnline
<1>2. q.device \in Devices
  BY <1>0, <1>1 DEF Named, Active
<1>3. socket' \in [Sockets -> Socket] /\ Named'
  BY <1>1, <1>2, MovesTypes
<1>4. told' \in BOOLEAN /\ faults' \in 0..MaxFaults
  BY <1>0, PublishOK DEF AnnounceOnline
<1>5. UNCHANGED <<devices, keys, lock, sweep>> /\ excused' \in BOOLEAN /\ (~excused' => ~excused)
  BY DEF AnnounceOnline, Excuse
<1>6. TypeOK'
  BY <1>0, <1>3, <1>4, <1>5 DEF TypeOK
<1>7. ASSUME ~excused' PROVE Truths'
  BY <1>1, <1>5, <1>7, QuietTruths DEF Stated, Opened, Parting
<1> QED
  BY <1>3, <1>6, <1>7 DEF Keeps

(* The set of devices, without the one that leaves, has every open socket  *)
(* to look for.                                                            *)
LEMMA DisconnectKeeps ==
    ASSUME Inv, NEW s \in Sockets, NEW reach \in BOOLEAN, disconnect(s, reach)
    PROVE  Keeps
<1>0. TypeOK /\ Named
  BY DEF Inv
<1>1. PICK left : left = devices \ {socket[s].device}
  OBVIOUS
<1>2. left \in SUBSET Devices
  BY <1>0, <1>1 DEF TypeOK
<1>3. PICK silent \in BOOLEAN : Asks(s, left, silent)
  <2>1. (~reach) \in BOOLEAN
    OBVIOUS
  <2>2. Asks(s, left, ~reach)
    BY <1>1 DEF disconnect
  <2> QED
    BY <2>1, <2>2
<1>4. PICK q \in Socket :
        /\ Moves(s, q) /\ q.phase = IF left = {} THEN "removing" ELSE "asking"
        /\ q.device = socket[s].device /\ q.ask = left
  BY <1>0, <1>2, <1>3, AsksOK
<1>5. q.device \in Devices /\ Active(s)
  BY <1>0, <1>4 DEF Named, Active, disconnect
<1>6. socket' \in [Sockets -> Socket] /\ Named'
  BY <1>4, <1>5, MovesTypes
<1>7. UNCHANGED <<devices, keys, told, lock, sweep, faults>> /\ excused' \in BOOLEAN /\ (~excused' => ~excused)
  BY DEF disconnect, Excuse
<1>8. TypeOK'
  BY <1>0, <1>6, <1>7 DEF TypeOK
<1>9. ASSUME ~excused' PROVE Truths'
  <2>1. ~excused /\ ~Crossing /\ Asserted
    BY <1>7, <1>9 DEF Inv, Truths
  <2>2. ASSUME NEW t \in Sockets, t # s, socket[t].phase \in Opened
        PROVE  q.phase = "asking" /\ socket[t].device \in q.ask
    <3>1. socket[t].device \in devices
      BY <2>1, <2>2 DEF Asserted, Opened
    <3>2. socket[t].device # socket[s].device
      BY <1>5, <2>1, <2>2, Alone DEF Active, Opened
    <3> QED
      BY <1>1, <1>4, <3>1, <3>2
  <2>3. q.phase \notin Stated
    BY <1>4 DEF Stated
  <2> QED
    BY <1>4, <1>7, <2>1, <2>2, <2>3, QuietTruths
<1> QED
  BY <1>6, <1>8, <1>9 DEF Keeps

(* A key that is there tells of another socket, or may: no goodbye.  One   *)
(* that is not is no open socket's.                                        *)
LEMMA AskNextKeeps ==
    ASSUME Inv, NEW s \in Sockets, NEW d \in Devices, AskNext(s, d)
    PROVE  Keeps
<1>0. TypeOK /\ Named
  BY DEF Inv
<1>1. socket[s] \in Socket /\ socket[s].phase = "asking" /\ d \in socket[s].ask
  BY <1>0 DEF TypeOK, AskNext
<1>2. PICK q \in Socket :
        /\ Moves(s, q) /\ q.device = socket[s].device
        /\ \/ d \in keys /\ q.phase \in Parting /\ q.silent = TRUE
           \/ /\ d \notin keys /\ q.silent = socket[s].silent /\ q.ask = socket[s].ask \ {d}
              /\ q.phase = IF q.ask = {} THEN "removing" ELSE "asking"
  <2>1. CASE d \in keys
    <3>1. Asks(s, {}, TRUE)
      BY <2>1 DEF AskNext
    <3>2. {} \in SUBSET Devices /\ TRUE \in BOOLEAN
      OBVIOUS
    <3> QED
      BY <1>0, <2>1, <3>1, <3>2, AsksOK DEF Parting
  <2>2. CASE d \notin keys
    <3>1. PICK left : left = socket[s].ask \ {d}
      OBVIOUS
    <3>2. Asks(s, left, socket[s].silent)
      BY <2>2, <3>1 DEF AskNext
    <3>3. left \in SUBSET Devices
      BY <1>1, <3>1 DEF Socket
    <3>4. socket[s].silent \in BOOLEAN
      BY <1>1 DEF Socket
    <3>5. PICK q \in Socket :
            /\ Moves(s, q) /\ q.phase = IF left = {} THEN "removing" ELSE "asking"
            /\ q.device = socket[s].device /\ q.ask = left /\ q.silent = socket[s].silent
      BY <1>0, <3>2, <3>3, <3>4, AsksOK
    <3> QED
      BY <2>2, <3>1, <3>5
  <2> QED
    BY <2>1, <2>2
<1>3. q.device \in Devices
  BY <1>0, <1>1, <1>2 DEF Named, Active
<1>4. socket' \in [Sockets -> Socket] /\ Named'
  BY <1>2, <1>3, MovesTypes
<1>5. UNCHANGED <<devices, keys, told, lock, sweep, faults>> /\ excused' \in BOOLEAN /\ (~excused' => ~excused)
  BY DEF AskNext, Excuse
<1>6. TypeOK'
  BY <1>0, <1>4, <1>5 DEF TypeOK
<1>7. ASSUME ~excused' PROVE Truths'
  <2>1. ~excused /\ Asserted /\ Goodbyes
    BY <1>5, <1>7 DEF Inv, Truths
  <2>2. ASSUME q.silent = FALSE, NEW t \in Sockets, t # s, socket[t].phase \in Opened
        PROVE  q.phase = "asking" /\ socket[t].device \in q.ask
    <3>1. socket[t].device \in keys
      BY <2>1, <2>2 DEF Asserted, Opened
    <3>2. d \notin keys /\ socket[s].silent = FALSE
      BY <1>2, <2>2
    <3>3. socket[t].device \in socket[s].ask
      BY <1>1, <2>1, <2>2, <3>2 DEF Goodbyes, Leaving, Open, Opened
    <3> QED
      BY <1>2, <3>1, <3>2, <3>3
  <2>3. q.phase \notin Stated
    BY <1>2 DEF Stated, Parting
  <2> QED
    BY <1>2, <1>5, <2>1, <2>2, <2>3, QuietTruths
<1> QED
  BY <1>4, <1>6, <1>7 DEF Keeps

LEMMA RemoveDeviceKeeps ==
    ASSUME Inv, NEW s \in Sockets, RemoveDevice(s)
    PROVE  Keeps
<1>0. TypeOK /\ Named
  BY DEF Inv
<1>1. PICK q \in Socket :
        /\ Moves(s, q) /\ q.device = socket[s].device /\ q.silent = socket[s].silent
        /\ socket[s].phase = "removing" /\ q.phase = "deleting"
  BY <1>0, GoesOK DEF Phases, RemoveDevice
<1>2. q.device \in Devices
  BY <1>0, <1>1 DEF Named, Active
<1>3. socket' \in [Sockets -> Socket] /\ Named'
  BY <1>1, <1>2, MovesTypes
<1>4. /\ UNCHANGED <<keys, told, lock, sweep, faults>> /\ devices' = devices \ {socket[s].device}
      /\ excused' \in BOOLEAN /\ (~excused' => ~excused)
  BY DEF RemoveDevice, Excuse
<1>5. TypeOK'
  BY <1>0, <1>3, <1>4 DEF TypeOK
<1>6. ASSUME ~excused' PROVE Truths'
  <2>1. ~excused /\ ~Crossing /\ Asserted /\ Goodbyes /\ Verdicts
    BY <1>4, <1>6 DEF Inv, Truths
  <2>2. ASSUME NEW t \in Sockets, t # s, socket[t].phase \in Stated PROVE socket[t].device \in devices'
    <3>1. socket[t].device # socket[s].device
      BY <1>1, <2>1, <2>2, Alone DEF Active, Stated
    <3> QED
      BY <1>4, <2>1, <2>2, <3>1 DEF Asserted, Stated
  <2>3. \A t \in Sockets : t # s /\ socket[t].phase \in Stated \ {"setting"} => socket[t].device \in keys'
    BY <1>4, <2>1 DEF Asserted, Stated
  <2>4. q.phase \notin Stated /\ q.phase \notin Opened
    BY <1>1 DEF Stated, Opened
  <2>5. q.silent = FALSE => \A t \in Sockets : socket[t].phase \notin Opened
    BY <1>1, <2>1 DEF Goodbyes, Leaving, Open, Opened
  <2>6. \A r \in Replicas : sweep[r].stage = "condemned" => sweep[r].device \notin keys'
    BY <1>4, <2>1 DEF Verdicts
  <2>7. UNCHANGED sweep
    BY <1>4
  <2> QED
    BY <1>1, <2>1, <2>2, <2>3, <2>4, <2>5, <2>6, <2>7, EndpointTruths
<1> QED
  BY <1>3, <1>5, <1>6 DEF Keeps

LEMMA DeleteKeyKeeps ==
    ASSUME Inv, NEW s \in Sockets, DeleteKey(s)
    PROVE  Keeps
<1>0. TypeOK /\ Named
  BY DEF Inv
<1>1. PICK q \in Socket :
        /\ Moves(s, q) /\ q.device = socket[s].device /\ q.silent = socket[s].silent
        /\ socket[s].phase = "deleting" /\ q.phase = "parting"
  BY <1>0, GoesOK DEF Phases, DeleteKey
<1>2. q.device \in Devices
  BY <1>0, <1>1 DEF Named, Active
<1>3. socket' \in [Sockets -> Socket] /\ Named'
  BY <1>1, <1>2, MovesTypes
<1>4. /\ UNCHANGED <<devices, told, lock, sweep, faults>> /\ keys' = keys \ {socket[s].device}
      /\ excused' \in BOOLEAN /\ (~excused' => ~excused)
  BY DEF DeleteKey, Excuse
<1>5. TypeOK'
  BY <1>0, <1>3, <1>4 DEF TypeOK
<1>6. ASSUME ~excused' PROVE Truths'
  <2>1. ~excused /\ ~Crossing /\ Asserted /\ Goodbyes /\ Verdicts
    BY <1>4, <1>6 DEF Inv, Truths
  <2>2. \A t \in Sockets : t # s /\ socket[t].phase \in Stated => socket[t].device \in devices'
    BY <1>4, <2>1 DEF Asserted, Stated
  <2>3. ASSUME NEW t \in Sockets, t # s, socket[t].phase \in Stated \ {"setting"} PROVE socket[t].device \in keys'
    <3>1. socket[t].device # socket[s].device
      BY <1>1, <2>1, <2>3, Alone DEF Active, Stated
    <3> QED
      BY <1>4, <2>1, <2>3, <3>1 DEF Asserted, Stated
  <2>4. q.phase \notin Stated /\ q.phase \notin Opened
    BY <1>1 DEF Stated, Opened
  <2>5. q.silent = FALSE => \A t \in Sockets : socket[t].phase \notin Opened
    BY <1>1, <2>1 DEF Goodbyes, Leaving, Open, Opened
  <2>6. \A r \in Replicas : sweep[r].stage = "condemned" => sweep[r].device \notin keys'
    BY <1>4, <2>1 DEF Verdicts
  <2>7. UNCHANGED sweep
    BY <1>4
  <2> QED
    BY <1>1, <2>1, <2>2, <2>3, <2>4, <2>5, <2>6, <2>7, EndpointTruths
<1> QED
  BY <1>3, <1>5, <1>6 DEF Keeps

LEMMA AnnounceOfflineKeeps ==
    ASSUME Inv, NEW s \in Sockets, AnnounceOffline(s)
    PROVE  Keeps
<1>0. TypeOK /\ Named
  BY DEF Inv
<1>1. PICK q \in Socket : Moves(s, q) /\ q.phase = "done"
  BY <1>0, GoesOK DEF Phases, AnnounceOffline
<1>2. socket' \in [Sockets -> Socket] /\ Named'
  BY <1>1, MovesTypes
<1>3. told' \in BOOLEAN /\ faults' \in 0..MaxFaults
  <2>1. CASE socket[s].silent
    BY <1>0, <2>1 DEF AnnounceOffline, TypeOK
  <2>2. CASE ~socket[s].silent
    <3>1. publish_user_presence(FALSE) /\ FALSE \in BOOLEAN
      BY <2>2 DEF AnnounceOffline
    <3> QED
      BY <1>0, <3>1, PublishOK
  <2> QED
    BY <2>1, <2>2
<1>4. UNCHANGED <<devices, keys, lock, sweep>> /\ excused' \in BOOLEAN /\ (~excused' => ~excused)
  BY DEF AnnounceOffline, Excuse
<1>5. TypeOK'
  BY <1>0, <1>2, <1>3, <1>4 DEF TypeOK
<1>6. ASSUME ~excused' PROVE Truths'
  BY <1>1, <1>4, <1>6, QuietTruths DEF Stated, Opened, Parting
<1> QED
  BY <1>2, <1>5, <1>6 DEF Keeps

LEMMA TeardownFailsKeeps ==
    ASSUME Inv, NEW s \in Sockets, TeardownFails(s)
    PROVE  Keeps
<1>0. TypeOK /\ Named
  BY DEF Inv
<1>1. PICK q \in Socket : Moves(s, q) /\ q.phase = "done"
  <2>1. CASE Goes(s, "asking", "done")
    BY <1>0, <2>1, GoesOK DEF Phases
  <2>2. CASE Goes(s, "removing", "done")
    BY <1>0, <2>2, GoesOK DEF Phases
  <2>3. CASE Goes(s, "deleting", "done")
    BY <1>0, <2>3, GoesOK DEF Phases
  <2> QED
    BY <2>1, <2>2, <2>3 DEF TeardownFails
<1>2. socket' \in [Sockets -> Socket] /\ Named'
  BY <1>1, MovesTypes
<1>3. /\ UNCHANGED <<devices, keys, told, lock, sweep>> /\ faults' \in 0..MaxFaults
      /\ excused' \in BOOLEAN /\ (~excused' => ~excused)
  BY <1>0, FaultOK DEF TeardownFails, Excuse
<1>4. TypeOK'
  BY <1>0, <1>2, <1>3 DEF TypeOK
<1>5. ASSUME ~excused' PROVE Truths'
  BY <1>1, <1>3, <1>5, QuietTruths DEF Stated, Opened, Parting
<1> QED
  BY <1>2, <1>4, <1>5 DEF Keeps

LEMMA DiesKeeps ==
    ASSUME Inv, NEW s \in Sockets, Dies(s)
    PROVE  Keeps
<1>0. TypeOK /\ Named
  BY DEF Inv
<1>1. PICK q \in Socket : Moves(s, q) /\ q.phase = "done"
  <2>1. Goes(s, socket[s].phase, "done") /\ socket[s].phase \in Phases
    BY <1>0 DEF Dies, Goes, TypeOK, Socket, Phases
  <2> QED
    BY <1>0, <2>1, GoesOK DEF Phases
<1>2. socket' \in [Sockets -> Socket] /\ Named'
  BY <1>1, MovesTypes
<1>3. /\ UNCHANGED <<devices, keys, told, lock, sweep, faults>>
      /\ excused' \in BOOLEAN /\ (~excused' => ~excused)
  BY DEF Dies, Excuse
<1>4. TypeOK'
  BY <1>0, <1>2, <1>3 DEF TypeOK
<1>5. ASSUME ~excused' PROVE Truths'
  BY <1>1, <1>3, <1>5, QuietTruths DEF Stated, Opened, Parting
<1> QED
  BY <1>2, <1>4, <1>5 DEF Keeps

(***************************************************************************)
(* Redis and the lock                                                      *)
(***************************************************************************)
\* A key may go once nothing has stated it, or with an excuse.
LEMMA RedisKeeps ==
    ASSUME Inv, UNCHANGED <<told, socket, sweep>>, faults' \in 0..MaxFaults, lock' \in 0..MaxReplicas,
           devices' \subseteq devices, keys' \subseteq keys, excused' \in BOOLEAN, ~excused' => ~excused,
           ~excused' => devices' = devices /\ \A s \in Sockets : Active(s) =>
                           (socket[s].device \in keys => socket[s].device \in keys')
    PROVE  Keeps
<1>0. TypeOK /\ Named
  BY DEF Inv
<1>1. TypeOK'
  BY <1>0 DEF TypeOK
<1>2. Named'
  BY <1>0 DEF Named, Active
<1>3. ASSUME ~excused' PROVE Truths'
  <2>1. Asserted /\ Goodbyes /\ Verdicts
    BY <1>3 DEF Inv, Truths
  <2>2. Asserted'
    BY <1>3, <2>1 DEF Asserted, Active
  <2>3. Goodbyes'
    BY <2>1 DEF Goodbyes, Leaving, Open
  <2>4. Verdicts'
    BY <2>1 DEF Verdicts, Open
  <2> QED
    BY <2>2, <2>3, <2>4 DEF Truths
<1> QED
  BY <1>1, <1>2, <1>3 DEF Keeps

LEMMA LapseKeeps ==
    ASSUME Inv, NEW d \in Devices, Lapse(d)
    PROVE  Keeps
<1>1. /\ UNCHANGED <<told, socket, sweep, faults, lock, devices>> /\ keys' = keys \ {d}
      /\ excused' \in BOOLEAN /\ (~excused' => ~excused)
  BY DEF Lapse, Excuse
<1>2. \A s \in Sockets : Active(s) => socket[s].device # d
  BY DEF Lapse, Gone, Active
<1>3. faults \in 0..MaxFaults /\ lock \in 0..MaxReplicas
  BY DEF Inv, TypeOK
<1> QED
  BY <1>1, <1>2, <1>3, RedisKeeps

LEMMA EvictKeeps ==
    ASSUME Inv, NEW d \in Devices, Evict(d)
    PROVE  Keeps
<1>1. /\ UNCHANGED <<told, socket, sweep, lock, devices>> /\ keys' = keys \ {d}
      /\ excused' \in BOOLEAN /\ excused'
  BY DEF Evict, Excuse
<1>2. faults' \in 0..MaxFaults /\ lock \in 0..MaxReplicas
  BY FaultOK DEF Inv, TypeOK, Evict
<1> QED
  BY <1>1, <1>2, RedisKeeps

LEMMA RestartKeeps ==
    ASSUME Inv, RedisRestart
    PROVE  Keeps
<1>1. /\ UNCHANGED <<told, socket, sweep, lock>> /\ keys' = {} /\ devices' = {}
      /\ excused' \in BOOLEAN /\ excused'
  BY DEF RedisRestart, Excuse
<1>2. faults' \in 0..MaxFaults /\ lock \in 0..MaxReplicas
  BY FaultOK DEF Inv, TypeOK, RedisRestart
<1> QED
  BY <1>1, <1>2, RedisKeeps

LEMMA LockLostKeeps ==
    ASSUME Inv, LockLost
    PROVE  Keeps
<1>1. /\ UNCHANGED <<devices, keys, told, socket, sweep>> /\ lock' = 0
      /\ excused' \in BOOLEAN /\ (~excused' => ~excused)
  BY DEF LockLost, Excuse
<1>2. faults' \in 0..MaxFaults /\ lock' \in 0..MaxReplicas
  BY <1>1, FaultOK, PresenceConstants DEF Inv, LockLost
<1> QED
  BY <1>1, <1>2, RedisKeeps

(***************************************************************************)
(* Sweeps                                                                  *)
(***************************************************************************)
LEMMA SweepTruths ==
    ASSUME Inv, ~excused, NEW r \in Replicas, NEW w \in Sweep, Sweeping(r, w),
           UNCHANGED keys, UNCHANGED socket,
           \A t \in Sockets : socket[t].phase \in Stated => socket[t].device \in devices',
           w.stage = "condemned" => w.device \notin keys,
           w.stage = "asking" =>
               /\ w.evicted = TRUE
               /\ \A t \in Sockets : socket[t].phase \in Opened => socket[t].device \in w.ask
    PROVE  Truths'
<1>0. Asserted /\ Goodbyes /\ Verdicts
  BY DEF Inv, Truths
<1>1. sweep'[r] = w /\ \A q \in Replicas : q # r => sweep'[q] = sweep[q]
  BY DEF Sweeping
<1>2. Asserted'
  BY <1>0 DEF Asserted, Stated
<1>3. Goodbyes'
  BY <1>0 DEF Goodbyes, Leaving, Open
<1>4. ASSUME NEW q \in Replicas
      PROVE  /\ sweep'[q].stage = "condemned" => sweep'[q].device \notin keys
             /\ sweep'[q].stage = "asking" =>
                  /\ sweep'[q].evicted = TRUE
                  /\ \A t \in Sockets : socket[t].phase \in Opened => socket[t].device \in sweep'[q].ask
  <2>1. CASE q = r
    BY <1>1, <2>1
  <2>2. CASE q # r
    BY <1>0, <1>1, <2>2 DEF Verdicts, Open, Opened
  <2> QED
    BY <2>1, <2>2
<1>5. Verdicts'
  BY <1>4 DEF Verdicts, Open, Opened
<1> QED
  BY <1>2, <1>3, <1>5 DEF Truths

\* The step of a sweep, with what else it changes.
LEMMA SweepKeeps ==
    ASSUME Inv, NEW r \in Replicas, NEW w \in Sweep, Swept(r, w),
           UNCHANGED <<keys, socket>>, devices' \subseteq devices, told' \in BOOLEAN,
           lock' \in 0..MaxReplicas, faults' \in 0..MaxFaults,
           excused' \in BOOLEAN, ~excused' => ~excused,
           ~excused' =>
               /\ \A t \in Sockets : socket[t].phase \in Stated => socket[t].device \in devices'
               /\ w.stage = "condemned" => w.device \notin keys
               /\ w.stage = "asking" =>
                    /\ w.evicted = TRUE
                    /\ \A t \in Sockets : socket[t].phase \in Opened => socket[t].device \in w.ask
    PROVE  Keeps
<1>0. TypeOK /\ Named
  BY DEF Inv
<1>1. Sweeping(r, w)
  BY <1>0, SweptOK
<1>2. TypeOK'
  BY <1>0, <1>1 DEF TypeOK, Sweeping
<1>3. Named'
  BY <1>0 DEF Named, Active
<1>4. ASSUME ~excused' PROVE Truths'
  BY <1>1, <1>4, SweepTruths
<1> QED
  BY <1>2, <1>3, <1>4 DEF Keeps

LEMMA StatedAreThere ==
    ASSUME Inv, ~excused
    PROVE  /\ \A t \in Sockets : socket[t].phase \in Stated => socket[t].device \in devices
           /\ \A t \in Sockets : socket[t].phase \in Opened => socket[t].device \in devices \cap keys
BY DEF Inv, Truths, Asserted, Stated, Opened

LEMMA ElectedKeeps ==
    ASSUME Inv, NEW r \in Replicas, run_maintenance(r)
    PROVE  Keeps
<1>1. /\ Swept(r, Resting) /\ lock' = r
      /\ UNCHANGED <<devices, keys, told, socket, faults>>
      /\ excused' \in BOOLEAN /\ (~excused' => ~excused)
  BY DEF run_maintenance, Excuse
<1>2. told \in BOOLEAN /\ faults \in 0..MaxFaults /\ r \in 0..MaxReplicas
  BY PresenceConstants DEF Inv, TypeOK, Replicas
<1>3. PICK w : w = Resting
  OBVIOUS
<1>4. w \in Sweep /\ w.stage = "resting"
  BY <1>3, RestingOK
<1> QED
  BY <1>1, <1>2, <1>3, <1>4, StatedAreThere, SweepKeeps

LEMMA SweepStartsKeeps ==
    ASSUME Inv, NEW r \in Replicas, sweep_presence(r)
    PROVE  Keeps
<1>1. PICK w : w = [sweep[r] EXCEPT !.stage = "scanning", !.todo = devices]
  OBVIOUS
<1>2. sweep[r] \in Sweep /\ devices \in SUBSET Devices
  BY DEF Inv, TypeOK
<1>3. w \in Sweep /\ w.stage = "scanning"
  BY <1>1, <1>2 DEF Sweep
<1>4. /\ Swept(r, w) /\ UNCHANGED <<devices, keys, told, socket, lock, faults>>
      /\ excused' \in BOOLEAN /\ (~excused' => ~excused)
  BY <1>1 DEF sweep_presence, Excuse
<1>5. told \in BOOLEAN /\ faults \in 0..MaxFaults /\ lock \in 0..MaxReplicas
  BY DEF Inv, TypeOK
<1> QED
  BY <1>3, <1>4, <1>5, StatedAreThere, SweepKeeps

LEMMA LookKeeps ==
    ASSUME Inv, NEW r \in Replicas, NEW d \in Devices, Look(r, d)
    PROVE  Keeps
<1>1. sweep[r] \in Sweep /\ sweep[r].stage = "scanning" /\ d \in 0..MaxDevices
  BY PresenceConstants DEF Inv, TypeOK, Look, Acts, Devices
<1>2. /\ UNCHANGED <<devices, keys, told, socket, lock, faults>>
      /\ excused' \in BOOLEAN /\ (~excused' => ~excused)
  BY DEF Look, Excuse
<1>3. told \in BOOLEAN /\ faults \in 0..MaxFaults /\ lock \in 0..MaxReplicas
  BY DEF Inv, TypeOK
<1>4. CASE d \in keys
  <2>1. PICK w : w = [sweep[r] EXCEPT !.todo = sweep[r].todo \ {d}]
    OBVIOUS
  <2>2. w \in Sweep /\ w.stage = "scanning"
    BY <1>1, <2>1 DEF Sweep
  <2>3. Swept(r, w)
    BY <1>4, <2>1 DEF Look
  <2> QED
    BY <1>2, <1>3, <2>2, <2>3, StatedAreThere, SweepKeeps
<1>5. CASE d \notin keys
  <2>1. PICK w : w = [sweep[r] EXCEPT !.todo = sweep[r].todo \ {d}, !.stage = "condemned", !.device = d]
    OBVIOUS
  <2>2. w \in Sweep /\ w.stage = "condemned" /\ w.device = d
    BY <1>1, <2>1 DEF Sweep
  <2>3. Swept(r, w)
    BY <1>5, <2>1 DEF Look
  <2> QED
    BY <1>2, <1>3, <1>5, <2>2, <2>3, StatedAreThere, SweepKeeps
<1> QED
  BY <1>4, <1>5

(* The condemned device is nobody's who is open or coming.                 *)
LEMMA EvictDeviceKeeps ==
    ASSUME Inv, NEW r \in Replicas, EvictDevice(r)
    PROVE  Keeps
<1>1. sweep[r] \in Sweep /\ sweep[r].stage = "condemned"
  BY DEF Inv, TypeOK, EvictDevice, Acts
<1>2. PICK w : w = [sweep[r] EXCEPT !.stage = "scanning", !.device = 0, !.evicted = TRUE]
  OBVIOUS
<1>3. w \in Sweep /\ w.stage = "scanning"
  <2>1. 0 \in 0..MaxDevices /\ TRUE \in BOOLEAN
    BY PresenceConstants
  <2> QED
    BY <1>1, <1>2, <2>1 DEF Sweep
<1>4. /\ Swept(r, w) /\ UNCHANGED <<keys, told, socket, lock, faults>>
      /\ devices' = devices \ {sweep[r].device}
      /\ excused' \in BOOLEAN /\ (~excused' => ~excused)
  BY <1>2 DEF EvictDevice, Excuse
<1>5. told \in BOOLEAN /\ faults \in 0..MaxFaults /\ lock \in 0..MaxReplicas
  BY DEF Inv, TypeOK
<1>6. ASSUME ~excused', NEW t \in Sockets, socket[t].phase \in Stated
      PROVE  socket[t].device \in devices'
  <2>1. ~excused /\ ~Crossing /\ Asserted /\ Verdicts
    BY <1>4, <1>6 DEF Inv, Truths
  <2>2. ~Connecting(t)
    BY <1>1, <2>1, Alone
  <2>3. socket[t].device \in devices /\ socket[t].device \in keys
    BY <1>6, <2>1, <2>2 DEF Asserted, Stated, Connecting
  <2>4. sweep[r].device \notin keys
    BY <1>1, <2>1 DEF Verdicts
  <2> QED
    BY <1>4, <2>3, <2>4
<1> QED
  BY <1>3, <1>4, <1>5, <1>6, SweepKeeps

(* A sweep that evicted has everybody in the set to look for.              *)
LEMMA ScannedKeeps ==
    ASSUME Inv, NEW r \in Replicas, Scanned(r)
    PROVE  Keeps
<1>1. sweep[r] \in Sweep /\ devices \in SUBSET Devices
  BY DEF Inv, TypeOK
<1>2. /\ UNCHANGED <<devices, keys, told, socket, lock, faults>>
      /\ excused' \in BOOLEAN /\ (~excused' => ~excused)
  BY DEF Scanned, Excuse
<1>3. told \in BOOLEAN /\ faults \in 0..MaxFaults /\ lock \in 0..MaxReplicas
  BY DEF Inv, TypeOK
<1>4. CASE sweep[r].evicted
  <2>1. PICK w : w = [sweep[r] EXCEPT !.stage = "asking", !.ask = devices]
    OBVIOUS
  <2>2. w \in Sweep /\ w.stage = "asking" /\ w.ask = devices /\ w.evicted = sweep[r].evicted
    BY <1>1, <2>1 DEF Sweep
  <2>3. w.evicted = TRUE
    <3>1. sweep[r].evicted \in BOOLEAN
      BY <1>1 DEF Sweep
    <3> QED
      BY <1>4, <2>2, <3>1
  <2>4. Swept(r, w)
    BY <1>4, <2>1 DEF Scanned
  <2> QED
    BY <1>2, <1>3, <2>2, <2>3, <2>4, StatedAreThere, SweepKeeps
<1>5. CASE ~sweep[r].evicted
  <2>1. PICK w : w = Resting
    OBVIOUS
  <2>2. w \in Sweep /\ w.stage = "resting"
    BY <2>1, RestingOK
  <2>3. Swept(r, w)
    BY <1>5, <2>1 DEF Scanned
  <2> QED
    BY <1>2, <1>3, <2>2, <2>3, StatedAreThere, SweepKeeps
<1> QED
  BY <1>4, <1>5

LEMMA SweepAsksKeeps ==
    ASSUME Inv, NEW r \in Replicas, NEW d \in Devices, user_is_online(r, d)
    PROVE  Keeps
<1>1. sweep[r] \in Sweep /\ sweep[r].stage = "asking"
  BY DEF Inv, TypeOK, user_is_online, Acts
<1>2. /\ UNCHANGED <<devices, keys, told, socket, lock, faults>>
      /\ excused' \in BOOLEAN /\ (~excused' => ~excused)
  BY DEF user_is_online, Excuse
<1>3. told \in BOOLEAN /\ faults \in 0..MaxFaults /\ lock \in 0..MaxReplicas
  BY DEF Inv, TypeOK
<1>4. CASE d \in keys
  <2>1. PICK w : w = Resting
    OBVIOUS
  <2>2. w \in Sweep /\ w.stage = "resting"
    BY <2>1, RestingOK
  <2>3. Swept(r, w)
    BY <1>4, <2>1 DEF user_is_online
  <2> QED
    BY <1>2, <1>3, <2>2, <2>3, StatedAreThere, SweepKeeps
<1>5. CASE d \notin keys
  <2>1. PICK w : w = [sweep[r] EXCEPT !.ask = sweep[r].ask \ {d}]
    OBVIOUS
  <2>2. /\ w \in Sweep /\ w.stage = "asking" /\ w.ask = sweep[r].ask \ {d}
        /\ w.evicted = sweep[r].evicted
    BY <1>1, <2>1 DEF Sweep
  <2>3. Swept(r, w)
    BY <1>5, <2>1 DEF user_is_online
  <2>4. ASSUME ~excused'
        PROVE  /\ w.evicted = TRUE
               /\ \A t \in Sockets : socket[t].phase \in Opened => socket[t].device \in w.ask
    <3>1. ~excused /\ Verdicts
      BY <1>2, <2>4 DEF Inv, Truths
    <3>2. /\ sweep[r].evicted = TRUE
          /\ \A t \in Sockets : socket[t].phase \in Opened => socket[t].device \in sweep[r].ask
      BY <1>1, <3>1 DEF Verdicts, Open, Opened
    <3>3. \A t \in Sockets : socket[t].phase \in Opened => socket[t].device # d
      BY <1>5, <3>1, StatedAreThere
    <3> QED
      BY <2>2, <3>2, <3>3
  <2> QED
    BY <1>2, <1>3, <2>2, <2>3, <2>4, StatedAreThere, SweepKeeps
<1> QED
  BY <1>4, <1>5

LEMMA SweepAnnouncesKeeps ==
    ASSUME Inv, NEW r \in Replicas, announce_user_offline(r)
    PROVE  Keeps
<1>1. /\ Swept(r, Resting) /\ UNCHANGED <<devices, keys, socket, lock>>
      /\ excused' \in BOOLEAN /\ (~excused' => ~excused)
  BY DEF announce_user_offline, Excuse
<1>2. told' \in BOOLEAN /\ faults' \in 0..MaxFaults
  <2>1. TypeOK /\ publish_user_presence(FALSE) /\ FALSE \in BOOLEAN
    BY DEF Inv, announce_user_offline
  <2> QED
    BY <2>1, PublishOK
<1>3. lock \in 0..MaxReplicas
  BY DEF Inv, TypeOK
<1>4. PICK w : w = Resting
  OBVIOUS
<1>5. w \in Sweep /\ w.stage = "resting"
  BY <1>4, RestingOK
<1> QED
  BY <1>1, <1>2, <1>3, <1>4, <1>5, StatedAreThere, SweepKeeps

LEMMA SweepFailsKeeps ==
    ASSUME Inv, NEW r \in Replicas, SweepFails(r)
    PROVE  Keeps
<1>1. /\ Swept(r, Resting) /\ UNCHANGED <<devices, keys, told, socket, lock>>
      /\ excused' \in BOOLEAN /\ (~excused' => ~excused)
  BY DEF SweepFails, Excuse
<1>2. told \in BOOLEAN /\ faults' \in 0..MaxFaults /\ lock \in 0..MaxReplicas
  BY FaultOK DEF Inv, TypeOK, SweepFails
<1>3. PICK w : w = Resting
  OBVIOUS
<1>4. w \in Sweep /\ w.stage = "resting"
  BY <1>3, RestingOK
<1> QED
  BY <1>1, <1>2, <1>3, <1>4, StatedAreThere, SweepKeeps

LEMMA CrashKeeps ==
    ASSUME Inv, NEW r \in Replicas, Crash(r)
    PROVE  Keeps
<1>1. /\ Swept(r, Following) /\ UNCHANGED <<devices, keys, told, socket>>
      /\ excused' \in BOOLEAN /\ (~excused' => ~excused)
  BY DEF Crash, Excuse
<1>2. told \in BOOLEAN /\ faults' \in 0..MaxFaults
  BY FaultOK DEF Inv, TypeOK, Crash
<1>3. lock' \in 0..MaxReplicas
  BY PresenceConstants DEF Inv, TypeOK, Crash
<1>4. PICK w : w = Following
  OBVIOUS
<1>5. w \in Sweep /\ w.stage = "following"
  BY <1>4, RestingOK
<1> QED
  BY <1>1, <1>2, <1>3, <1>4, <1>5, StatedAreThere, SweepKeeps

(***************************************************************************)
(* Every step                                                              *)
(***************************************************************************)
LEMMA InitInv == Init => Inv
<1> SUFFICES ASSUME Init PROVE Inv
  OBVIOUS
<1>1. NewSocket \in Socket /\ NewSocket.phase = "new"
  BY PresenceConstants DEF NewSocket, Socket
<1>2. TypeOK
  <2>1. socket \in [Sockets -> Socket]
    BY <1>1 DEF Init
  <2>2. sweep \in [Replicas -> Sweep]
    BY RestingOK DEF Init
  <2>3. lock \in 0..MaxReplicas /\ faults \in 0..MaxFaults
    BY PresenceConstants DEF Init
  <2>4. devices \subseteq Devices /\ keys \subseteq Devices /\ told \in BOOLEAN /\ excused \in BOOLEAN
    BY DEF Init
  <2> QED
    BY <2>1, <2>2, <2>3, <2>4 DEF TypeOK
<1>3. \A s \in Sockets : socket[s].phase = "new"
  BY <1>1 DEF Init
<1>4. \A r \in Replicas : sweep[r].stage = "following" /\ sweep[r].evicted = FALSE
  BY RestingOK DEF Init
<1>5. Named
  BY <1>3 DEF Named, Active
<1>6. ~Crossing
  <2>1. Busy = {}
    BY <1>3 DEF Busy, Connecting, Leaving
  <2>2. Evicting = {}
    BY <1>4 DEF Evicting
  <2>3. Cardinality(Busy) = 0 /\ Cardinality(Evicting) = 0
    BY <2>1, <2>2, FS_EmptySet
  <2> QED
    BY <1>3, <2>3 DEF Crossing
<1>7. Truths
  BY <1>3, <1>4 DEF Truths, Asserted, Goodbyes, Verdicts, Leaving
<1> QED
  BY <1>2, <1>5, <1>6, <1>7 DEF Inv

LEMMA NextKeeps ==
    ASSUME Inv, Next
    PROVE  Keeps
<1>1. ASSUME NEW s \in Sockets,
             Connect(s) \/ Asserts(s) \/ AssertFails(s) \/ disconnect(s, TRUE) \/ disconnect(s, FALSE)
             \/ Teardown(s) \/ TeardownFails(s) \/ Dies(s)
      PROVE  Keeps
  <2>1. CASE Connect(s)
    BY <2>1, ConnectKeeps DEF Connect
  <2>2. CASE Asserts(s)
    BY <2>2, AddDeviceKeeps, SetKeyKeeps, AnnounceOnlineKeeps DEF Asserts
  <2>3. CASE AssertFails(s)
    BY <2>3, AssertFailsKeeps
  <2>4. CASE disconnect(s, TRUE) \/ disconnect(s, FALSE)
    <3>1. TRUE \in BOOLEAN /\ FALSE \in BOOLEAN
      OBVIOUS
    <3> QED
      BY <2>4, <3>1, DisconnectKeeps
  <2>5. CASE Teardown(s)
    BY <2>5, AskNextKeeps, RemoveDeviceKeeps, DeleteKeyKeeps, AnnounceOfflineKeeps DEF Teardown
  <2>6. CASE TeardownFails(s)
    BY <2>6, TeardownFailsKeeps
  <2>7. CASE Dies(s)
    BY <2>7, DiesKeeps
  <2> QED
    BY <1>1, <2>1, <2>2, <2>3, <2>4, <2>5, <2>6, <2>7
<1>2. ASSUME NEW d \in Devices, Lapse(d) \/ Evict(d)
      PROVE  Keeps
  BY <1>2, LapseKeeps, EvictKeeps
<1>3. ASSUME NEW r \in Replicas, run_maintenance(r) \/ Sweeps(r) \/ SweepFails(r) \/ Crash(r)
      PROVE  Keeps
  <2>1. CASE Sweeps(r)
    BY <2>1, SweepStartsKeeps, EvictDeviceKeeps, ScannedKeeps, SweepAnnouncesKeeps, LookKeeps,
       SweepAsksKeeps DEF Sweeps
  <2> QED
    BY <1>3, <2>1, ElectedKeeps, SweepFailsKeeps, CrashKeeps
<1> QED
  BY <1>1, <1>2, <1>3, LockLostKeeps, RestartKeeps DEF Next

\* Every step looks at Crossing.
LEMMA NextLooks ==
    ASSUME Next
    PROVE  ~excused' => ~excused /\ ~Crossing'
<1>1. ASSUME NEW s \in Sockets,
             Connect(s) \/ Asserts(s) \/ AssertFails(s) \/ disconnect(s, TRUE) \/ disconnect(s, FALSE)
             \/ Teardown(s) \/ TeardownFails(s) \/ Dies(s)
      PROVE  ~excused' => ~excused /\ ~Crossing'
  BY <1>1 DEF Excuse, Connect, connect, Asserts, AddDevice, SetKey, AnnounceOnline, AssertFails, disconnect,
       Teardown, AskNext, RemoveDevice, DeleteKey, AnnounceOffline, TeardownFails, Dies
<1>2. ASSUME NEW d \in Devices, Lapse(d) \/ Evict(d)
      PROVE  ~excused' => ~excused /\ ~Crossing'
  BY <1>2 DEF Excuse, Lapse, Evict
<1>3. ASSUME NEW r \in Replicas, run_maintenance(r) \/ Sweeps(r) \/ SweepFails(r) \/ Crash(r)
      PROVE  ~excused' => ~excused /\ ~Crossing'
  BY <1>3 DEF Excuse, run_maintenance, Sweeps, sweep_presence, EvictDevice, Scanned, announce_user_offline,
       Look, user_is_online, SweepFails, Crash
<1>4. ASSUME LockLost \/ RedisRestart
      PROVE  ~excused' => ~excused /\ ~Crossing'
  BY <1>4 DEF Excuse, LockLost, RedisRestart
<1> QED
  BY <1>1, <1>2, <1>3, <1>4 DEF Next

LEMMA NextInv ==
    ASSUME Inv, [Next]_vars
    PROVE  Inv'
<1>1. CASE Next
  BY <1>1, NextKeeps, NextLooks DEF Inv, Keeps
<1>2. CASE UNCHANGED vars
  BY <1>2 DEF Inv, vars, TypeOK, Named, Active, Crossing, Busy, Evicting, Connecting, Leaving,
       Truths, Asserted, Goodbyes, Verdicts, Open
<1> QED
  BY <1>1, <1>2

(* Every state of every run is of its types, and while nothing excuses the *)
(* rest: an endpoint's device has its row and its key from the moment they *)
(* were stated, whoever is about to say goodbye has yet to look at the key *)
(* of each open socket, and so has a sweep that evicted a device.          *)
THEOREM PresenceInvariant == Spec => []Inv
<1>1. Init => Inv
  BY InitInv
<1>2. Inv /\ [Next]_vars => Inv'
  BY NextInv
<1> QED
  BY <1>1, <1>2, PTL DEF Spec

(* TypeOK, for any number of devices, replicas, sockets and faults.        *)
THEOREM PresenceTypes == Spec => []TypeOK
<1>1. Inv => TypeOK
  BY DEF Inv
<1> QED
  BY <1>1, PresenceInvariant, PTL

(***************************************************************************)
(* Whom the spaces hear of                                                 *)
(***************************************************************************)
\* The last goodbye: everybody else was looked for, and nobody was there.
LEMMA LastGoodbye ==
    ASSUME Inv, NEW s \in Sockets, AnnounceOffline(s), ~excused', socket[s].silent = FALSE
    PROVE  ~Live'
<1>1. TypeOK /\ Goodbyes
  BY DEF Inv, Truths, AnnounceOffline, Excuse
<1>2. socket[s].phase = "parting"
  BY DEF AnnounceOffline, Goes
<1>3. \A t \in Sockets : ~Open(t)
  BY <1>1, <1>2 DEF Goodbyes, Leaving
<1>4. PICK q \in Socket : Moves(s, q) /\ q.phase = "done"
  BY <1>1, GoesOK DEF Phases, AnnounceOffline
<1> QED
  BY <1>3, <1>4 DEF Live, Open, Moves

\* The sweep's: it found a key of nobody's in the set.
LEMMA SweepGoodbye ==
    ASSUME Inv, NEW r \in Replicas, announce_user_offline(r), ~excused'
    PROVE  ~Live'
<1>1. Verdicts
  BY DEF Inv, Truths, announce_user_offline, Excuse
<1>2. \A t \in Sockets : ~Open(t)
  BY <1>1 DEF Verdicts, announce_user_offline, Acts
<1> QED
  BY <1>2 DEF Live, Open, announce_user_offline

(* OfflineIsTrue, for any number of devices, replicas, sockets and faults: *)
(* no space is told the user has gone while one of the user's sockets is   *)
(* open, unless something Crossing or Excuse names came between.           *)
THEOREM PresenceOfflineIsTrue == Spec => OfflineIsTrue
<1>1. ASSUME Inv, Next, told, ~told', ~excused'
      PROVE  ~Live'
  <2>1. ASSUME NEW s \in Sockets,
               Connect(s) \/ Asserts(s) \/ AssertFails(s) \/ disconnect(s, TRUE) \/ disconnect(s, FALSE)
               \/ Teardown(s) \/ TeardownFails(s) \/ Dies(s)
        PROVE  AnnounceOffline(s)
    BY <1>1, <2>1 DEF Connect, connect, Asserts, AddDevice, SetKey, AnnounceOnline, publish_user_presence,
         AssertFails, disconnect, Teardown, AskNext, RemoveDevice, DeleteKey, TeardownFails, Dies
  <2>2. ASSUME NEW d \in Devices, Lapse(d) \/ Evict(d)
        PROVE  FALSE
    BY <1>1, <2>2 DEF Lapse, Evict
  <2>3. ASSUME NEW r \in Replicas, run_maintenance(r) \/ Sweeps(r) \/ SweepFails(r) \/ Crash(r)
        PROVE  announce_user_offline(r)
    BY <1>1, <2>3 DEF run_maintenance, Sweeps, sweep_presence, EvictDevice, Scanned, Look, user_is_online,
         SweepFails, Crash
  <2>4. ~LockLost /\ ~RedisRestart
    BY <1>1 DEF LockLost, RedisRestart
  <2>5. ASSUME NEW s \in Sockets, AnnounceOffline(s)
        PROVE  socket[s].silent = FALSE
    <3>1. socket[s].silent \in BOOLEAN
      BY <1>1 DEF Inv, TypeOK, Socket
    <3> QED
      BY <1>1, <2>5, <3>1 DEF AnnounceOffline
  <2> QED
    BY <1>1, <2>1, <2>2, <2>3, <2>4, <2>5, LastGoodbye, SweepGoodbye DEF Next
<1>2. Inv /\ [Next]_vars => [told /\ ~told' /\ ~excused' => ~Live']_vars
  BY <1>1
<1> QED
  BY <1>2, PresenceInvariant, PTL DEF Spec, OfflineIsTrue

(***************************************************************************)
(* Whose goodbye is owed                                                   *)
(***************************************************************************)
\* What the devices in the set are known for.
Kept ==
    /\ \A s \in Sockets :
         /\ socket[s].phase \in {"asking", "removing"} => socket[s].device \in devices
         /\ Leaving(s) /\ socket[s].silent = TRUE => \E d \in devices : d # socket[s].device
         /\ socket[s].phase = "asking" => socket[s].ask \subseteq devices \ {socket[s].device}
    /\ \A r \in Replicas :
         /\ sweep[r].stage = "asking" => sweep[r].ask \subseteq devices
         /\ sweep[r].stage = "following" => sweep[r].evicted = FALSE

Debts == Kept /\ (Live => told = TRUE) /\ (told = TRUE /\ ~Live => Owed)

(* An endpoint that takes no device from the set and tells nobody: it was  *)
(* open, or owed its goodbye, and still does or leaves its device behind.  *)
LEMMA EndpointDebts ==
    ASSUME Inv, ~excused, Debts, NEW s \in Sockets, NEW q \in Socket, Moves(s, q),
           UNCHANGED sweep, UNCHANGED told, devices \subseteq devices',
           q.phase \in Opened => socket[s].phase \in Opened,
           q.phase \in {"asking", "removing"} => q.device \in devices,
           q.phase = "asking" => q.ask \subseteq devices \ {q.device},
           q.phase \in Parting /\ q.silent = TRUE => \E d \in devices : d # q.device,
           socket[s].phase \in {"deleting", "parting"} /\ socket[s].silent = FALSE =>
               q.phase \in Parting /\ q.silent = FALSE
    PROVE  Debts'
<1>0. Kept /\ (Live => told = TRUE) /\ (told = TRUE /\ ~Live => Owed) /\ Asserted /\ TypeOK
  BY DEF Debts, Inv, Truths
<1>1. socket'[s] = q /\ \A t \in Sockets : t # s => socket'[t] = socket[t]
  BY DEF Moves
<1>2. Kept'
  <2>1. ASSUME NEW t \in Sockets
        PROVE  /\ socket'[t].phase \in {"asking", "removing"} => socket'[t].device \in devices'
               /\ socket'[t].phase \in Parting /\ socket'[t].silent = TRUE =>
                     \E d \in devices' : d # socket'[t].device
               /\ socket'[t].phase = "asking" => socket'[t].ask \subseteq devices' \ {socket'[t].device}
    <3>1. CASE t = s
      BY <1>1, <3>1
    <3>2. CASE t # s
      BY <1>0, <1>1, <3>2 DEF Kept, Leaving, Parting
    <3> QED
      BY <3>1, <3>2
  <2>2. \A r \in Replicas :
           /\ sweep'[r].stage = "asking" => sweep'[r].ask \subseteq devices'
           /\ sweep'[r].stage = "following" => sweep'[r].evicted = FALSE
    BY <1>0 DEF Kept
  <2> QED
    BY <2>1, <2>2 DEF Kept, Leaving, Parting
<1>3. Live' => Live
  BY <1>1 DEF Live, Open, Opened
<1>4. ASSUME told = TRUE, ~Live' PROVE Owed'
  <2>1. CASE socket[s].phase \in Opened \cup {"asking", "removing"}
    <3>1. socket[s].device \in devices
      BY <1>0, <2>1 DEF Asserted, Kept, Opened
    <3> QED
      BY <3>1 DEF Owed
  <2>2. CASE socket[s].phase \notin Opened \cup {"asking", "removing"}
    <3>1. ~Live
      BY <1>1, <1>4, <2>2 DEF Live, Open, Opened
    <3>2. Owed
      BY <1>0, <1>4, <3>1
    <3>3. CASE devices # {} \/ \E r \in Replicas : sweep[r].evicted
      BY <3>3 DEF Owed
    <3>4. CASE \E t \in Sockets : Leaving(t) /\ ~socket[t].silent
      <4>1. PICK t \in Sockets : Leaving(t) /\ socket[t].silent = FALSE
        BY <1>0, <3>4 DEF TypeOK, Socket
      <4>2. socket'[t].phase \in Parting /\ socket'[t].silent = FALSE
        BY <1>1, <2>2, <4>1 DEF Leaving, Parting
      <4>3. Leaving(t)' /\ ~socket'[t].silent
        BY <4>2 DEF Leaving, Parting
      <4> QED
        BY <4>3, Zenon DEF Owed
    <3> QED
      BY <3>2, <3>3, <3>4 DEF Owed
  <2> QED
    BY <2>1, <2>2
<1> QED
  BY <1>0, <1>2, <1>3, <1>4 DEF Debts

LEMMA AssertsDebts ==
    ASSUME Inv, ~excused, Debts, NEW s \in Sockets,
           Connect(s) \/ AddDevice(s) \/ SetKey(s) \/ AssertFails(s)
    PROVE  Debts'
<1>0. TypeOK
  BY DEF Inv
<1>1. PICK q \in Socket :
        /\ Moves(s, q) /\ q.phase \notin Parting
        /\ q.phase \in Opened => socket[s].phase \in Opened
        /\ socket[s].phase \notin Parting
  <2>1. CASE Connect(s)
    BY <1>0, <2>1, ConnectOK DEF Connect, Parting, Opened
  <2>2. CASE Goes(s, "adding", "setting")
    BY <1>0, <2>2, GoesOK DEF Phases, Parting, Opened
  <2>3. CASE Goes(s, "open", "refreshing")
    BY <1>0, <2>3, GoesOK DEF Phases, Parting, Opened
  <2>4. CASE Goes(s, "setting", "announcing")
    BY <1>0, <2>4, GoesOK DEF Phases, Parting, Opened
  <2>5. CASE Goes(s, "refreshing", "open")
    BY <1>0, <2>5, GoesOK DEF Phases, Parting, Opened
  <2>6. CASE Goes(s, "adding", "done")
    BY <1>0, <2>6, GoesOK DEF Phases, Parting, Opened
  <2>7. CASE Goes(s, "setting", "done")
    BY <1>0, <2>7, GoesOK DEF Phases, Parting, Opened
  <2> QED
    BY <2>1, <2>2, <2>3, <2>4, <2>5, <2>6, <2>7 DEF AddDevice, SetKey, AssertFails
<1>2. UNCHANGED sweep /\ UNCHANGED told /\ devices \subseteq devices'
  BY DEF Connect, connect, AddDevice, SetKey, AssertFails
<1> QED
  BY <1>1, <1>2, EndpointDebts DEF Parting

LEMMA AnnounceOnlineDebts ==
    ASSUME Inv, ~excused', Debts, NEW s \in Sockets, AnnounceOnline(s)
    PROVE  Debts'
<1>0. TypeOK /\ Kept
  BY DEF Inv, Debts
<1>1. PICK q \in Socket : Moves(s, q) /\ q.phase = "open"
  BY <1>0, GoesOK DEF Phases, AnnounceOnline
<1>2. told' = TRUE /\ UNCHANGED <<devices, sweep>>
  <2>1. told \in BOOLEAN
    BY <1>0 DEF TypeOK
  <2> QED
    BY <2>1 DEF AnnounceOnline, Excuse, publish_user_presence
<1>3. Live'
  BY <1>1 DEF Live, Open, Moves
<1>4. Kept'
  BY <1>0, <1>1, <1>2 DEF Kept, Moves, Leaving
<1> QED
  BY <1>2, <1>3, <1>4 DEF Debts

LEMMA DisconnectDebts ==
    ASSUME Inv, ~excused', Debts, NEW s \in Sockets, NEW reach \in BOOLEAN, disconnect(s, reach)
    PROVE  Debts'
<1>0. TypeOK
  BY DEF Inv
<1>1. PICK left : left = devices \ {socket[s].device}
  OBVIOUS
<1>2. left \in SUBSET Devices
  BY <1>0, <1>1 DEF TypeOK
<1>3. reach = TRUE /\ ~excused
  BY DEF disconnect, Excuse
<1>4. PICK silent \in BOOLEAN : silent = (~reach)
  OBVIOUS
<1>5. PICK q \in Socket :
        /\ Moves(s, q) /\ q.phase = IF left = {} THEN "removing" ELSE "asking"
        /\ q.device = socket[s].device /\ q.ask = left /\ q.silent = FALSE
  <2>1. Asks(s, left, silent)
    BY <1>1, <1>4 DEF disconnect
  <2>2. PICK q \in Socket :
          /\ Moves(s, q) /\ q.phase = IF left = {} THEN "removing" ELSE "asking"
          /\ q.device = socket[s].device /\ q.ask = left /\ q.silent = silent
    BY ONLY <1>0, <1>2, <2>1, AsksOK, s \in Sockets, silent \in BOOLEAN
  <2>3. silent = FALSE
    BY <1>3, <1>4
  <2> QED
    BY <2>2, <2>3
<1>6. socket[s].device \in devices /\ socket[s].phase = "open"
  BY <1>3 DEF Inv, Truths, Asserted, disconnect
<1>7. UNCHANGED sweep /\ UNCHANGED told /\ devices \subseteq devices'
  BY DEF disconnect
<1> QED
  BY <1>1, <1>3, <1>5, <1>6, <1>7, EndpointDebts DEF Opened, Parting

(* It keeps silent for a key it found, of a device that is in the set.     *)
LEMMA AskNextDebts ==
    ASSUME Inv, ~excused', Debts, NEW s \in Sockets, NEW d \in Devices, AskNext(s, d)
    PROVE  Debts'
<1>0. TypeOK /\ Kept /\ ~excused
  BY DEF Inv, Debts, AskNext, Excuse
<1>1. /\ socket[s] \in Socket /\ socket[s].phase = "asking" /\ d \in socket[s].ask
      /\ socket[s].device \in devices /\ socket[s].ask \subseteq devices \ {socket[s].device}
  BY <1>0 DEF TypeOK, AskNext, Kept
<1>2. UNCHANGED sweep /\ UNCHANGED told /\ devices \subseteq devices'
  BY DEF AskNext
<1>3. CASE d \in keys
  <2>1. Asks(s, {}, TRUE)
    BY <1>3 DEF AskNext
  <2>2. {} \in SUBSET Devices /\ TRUE \in BOOLEAN
    OBVIOUS
  <2>3. PICK q \in Socket :
          Moves(s, q) /\ q.phase = "removing" /\ q.device = socket[s].device /\ q.silent = TRUE
    BY <1>0, <2>1, <2>2, AsksOK
  <2> QED
    BY <1>0, <1>1, <1>2, <2>3, EndpointDebts DEF Opened, Parting
<1>4. CASE d \notin keys
  <2>1. PICK left : left = socket[s].ask \ {d}
    OBVIOUS
  <2>2. Asks(s, left, socket[s].silent)
    BY <1>4, <2>1 DEF AskNext
  <2>3. left \in SUBSET Devices /\ socket[s].silent \in BOOLEAN
    BY <1>1, <2>1 DEF Socket
  <2>4. PICK q \in Socket :
          /\ Moves(s, q) /\ q.phase = IF left = {} THEN "removing" ELSE "asking"
          /\ q.device = socket[s].device /\ q.ask = left /\ q.silent = socket[s].silent
    BY <1>0, <2>2, <2>3, AsksOK
  <2>5. q.silent = TRUE => \E e \in devices : e # q.device
    BY <1>0, <1>1, <2>4 DEF Kept, Leaving
  <2> QED
    BY <1>0, <1>1, <1>2, <2>1, <2>4, <2>5, EndpointDebts DEF Opened, Parting
<1> QED
  BY <1>3, <1>4

(* Its own device goes; that of the key it was silent for stays.           *)
LEMMA RemoveDeviceDebts ==
    ASSUME Inv, ~excused', Debts, NEW s \in Sockets, RemoveDevice(s)
    PROVE  Debts'
<1>0. TypeOK /\ Kept /\ ~excused /\ ~Crossing /\ (Live => told = TRUE)
  BY DEF Inv, Debts, RemoveDevice, Excuse
<1>1. PICK q \in Socket :
        /\ Moves(s, q) /\ q.device = socket[s].device /\ q.silent = socket[s].silent
        /\ socket[s].phase = "removing" /\ q.phase = "deleting"
  BY <1>0, GoesOK DEF Phases, RemoveDevice
<1>2. /\ UNCHANGED <<keys, told, lock, sweep, faults>> /\ devices' = devices \ {socket[s].device}
  BY DEF RemoveDevice
<1>3. socket'[s] = q /\ \A t \in Sockets : t # s => socket'[t] = socket[t]
  BY <1>1 DEF Moves
<1>4. \A t \in Sockets : t # s => socket[t].phase \notin Parting
  BY <1>0, <1>1, Alone DEF Leaving, Parting
<1>5. \A r \in Replicas : sweep[r].stage # "asking"
  BY <1>0, <1>1, Alone DEF Leaving, Inv, Truths, Verdicts
<1>6. q.silent = TRUE => \E d \in devices' : d # q.device
  BY <1>0, <1>1, <1>2 DEF Kept, Leaving
<1>7. Kept'
  <2>1. ASSUME NEW t \in Sockets
        PROVE  /\ socket'[t].phase \notin {"asking", "removing"}
               /\ socket'[t].phase \in Parting /\ socket'[t].silent = TRUE =>
                     \E d \in devices' : d # socket'[t].device
    <3>1. CASE t = s
      BY <1>1, <1>3, <1>6, <3>1
    <3>2. CASE t # s
      BY <1>3, <1>4, <3>2 DEF Parting
    <3> QED
      BY <3>1, <3>2
  <2>2. \A r \in Replicas :
           sweep'[r].stage # "asking" /\ (sweep'[r].stage = "following" => sweep'[r].evicted = FALSE)
    BY <1>0, <1>2, <1>5 DEF Kept
  <2> QED
    BY <2>1, <2>2 DEF Kept, Leaving, Parting
<1>8. Live' => told' = TRUE
  BY <1>0, <1>1, <1>2, <1>3 DEF Live, Open
<1>9. Owed'
  <2>1. q.silent \in BOOLEAN
    BY DEF Socket
  <2>2. CASE q.silent = TRUE
    BY <1>6, <2>2 DEF Owed
  <2>3. CASE q.silent = FALSE
    BY <1>1, <1>3, <2>3 DEF Owed, Leaving
  <2> QED
    BY <2>1, <2>2, <2>3
<1> QED
  BY <1>7, <1>8, <1>9 DEF Debts

LEMMA DeleteKeyDebts ==
    ASSUME Inv, ~excused', Debts, NEW s \in Sockets, DeleteKey(s)
    PROVE  Debts'
<1>0. TypeOK /\ Kept /\ ~excused
  BY DEF Inv, Debts, DeleteKey, Excuse
<1>1. PICK q \in Socket :
        /\ Moves(s, q) /\ q.device = socket[s].device /\ q.silent = socket[s].silent
        /\ socket[s].phase = "deleting" /\ q.phase = "parting"
  BY <1>0, GoesOK DEF Phases, DeleteKey
<1>2. q.silent = TRUE => \E d \in devices : d # q.device
  BY <1>0, <1>1 DEF Kept, Leaving
<1>3. UNCHANGED sweep /\ UNCHANGED told /\ devices \subseteq devices'
  BY DEF DeleteKey
<1> QED
  BY <1>0, <1>1, <1>2, <1>3, EndpointDebts DEF Opened, Parting

(* Cut short before its device is removed, it leaves that to the sweep;    *)
(* cut short after, it is excused.                                         *)
LEMMA CutShortDebts ==
    ASSUME Inv, ~excused', Debts, NEW s \in Sockets, TeardownFails(s) \/ Dies(s)
    PROVE  Debts'
<1>0. TypeOK /\ ~excused
  BY DEF Inv, TeardownFails, Dies, Excuse
<1>1. PICK q \in Socket :
        Moves(s, q) /\ q.phase = "done" /\ socket[s].phase \notin {"deleting", "parting"}
  <2>1. CASE TeardownFails(s)
    <3>1. Goes(s, "asking", "done") \/ Goes(s, "removing", "done") \/ Goes(s, "deleting", "done")
      BY <2>1 DEF TeardownFails
    <3>2. socket[s].phase # "deleting"
      BY <2>1 DEF TeardownFails, Excuse
    <3> QED
      BY <1>0, <3>1, <3>2, GoesOK DEF Phases, Goes
  <2>2. CASE Dies(s)
    <3>1. Goes(s, socket[s].phase, "done") /\ socket[s].phase \in Phases
      BY <1>0, <2>2 DEF Dies, Goes, TypeOK, Socket, Phases
    <3>2. socket[s].phase \notin {"deleting", "parting"}
      BY <2>2 DEF Dies, Excuse
    <3> QED
      BY <1>0, <3>1, <3>2, GoesOK DEF Phases
  <2> QED
    BY <2>1, <2>2
<1>2. UNCHANGED sweep /\ UNCHANGED told /\ devices \subseteq devices'
  BY DEF TeardownFails, Dies
<1> QED
  BY <1>0, <1>1, <1>2, EndpointDebts DEF Opened, Parting

LEMMA AnnounceOfflineDebts ==
    ASSUME Inv, ~excused', Debts, NEW s \in Sockets, AnnounceOffline(s)
    PROVE  Debts'
<1>0. TypeOK /\ Kept /\ ~excused /\ socket[s].silent \in BOOLEAN
  BY DEF Inv, Debts, AnnounceOffline, Excuse, TypeOK, Socket
<1>1. PICK q \in Socket : Moves(s, q) /\ q.phase = "done" /\ socket[s].phase = "parting"
  BY <1>0, GoesOK DEF Phases, AnnounceOffline
<1>2. UNCHANGED sweep /\ UNCHANGED devices
  BY DEF AnnounceOffline
<1>3. CASE socket[s].silent = TRUE
  <2>1. UNCHANGED told
    BY <1>3 DEF AnnounceOffline
  <2> QED
    BY <1>0, <1>1, <1>2, <1>3, <2>1, EndpointDebts DEF Opened, Parting
<1>4. CASE socket[s].silent = FALSE
  <2>1. told' = FALSE /\ ~Live'
    <3>1. told \in BOOLEAN /\ ~told'
      BY <1>0, <1>4 DEF TypeOK, AnnounceOffline, Excuse
    <3>2. told' \in {FALSE, told}
      BY <1>4 DEF AnnounceOffline, publish_user_presence
    <3> QED
      BY <1>4, <3>1, <3>2, LastGoodbye
  <2>2. Kept'
    BY <1>0, <1>1, <1>2 DEF Kept, Moves, Leaving
  <2> QED
    BY <2>1, <2>2 DEF Debts
<1> QED
  BY <1>0, <1>3, <1>4

(* A sweep that takes no device from the set, or has evicted one.          *)
LEMMA SweepDebts ==
    ASSUME Inv, ~excused, Debts, NEW r \in Replicas, NEW w \in Sweep, Sweeping(r, w),
           UNCHANGED <<socket, told, devices>>,
           w.stage = "asking" => w.ask \subseteq devices,
           w.stage = "following" => w.evicted = FALSE,
           sweep[r].evicted = TRUE => w.evicted = TRUE \/ devices # {}
    PROVE  Debts'
<1>0. Kept /\ (Live => told = TRUE) /\ (told = TRUE /\ ~Live => Owed) /\ TypeOK
  BY DEF Debts, Inv
<1>1. sweep'[r] = w /\ \A q \in Replicas : q # r => sweep'[q] = sweep[q]
  BY DEF Sweeping
<1>2. Kept'
  BY <1>0, <1>1 DEF Kept, Leaving
<1>3. Live' <=> Live
  BY DEF Live, Open
<1>4. Owed => Owed'
  <2>1. CASE devices # {} \/ \E s \in Sockets : Leaving(s) /\ ~socket[s].silent
    BY <2>1 DEF Owed, Leaving
  <2>2. CASE \E q \in Replicas : sweep[q].evicted
    <3>1. PICK q \in Replicas : sweep[q].evicted = TRUE
      BY <1>0, <2>2 DEF TypeOK, Sweep
    <3>2. CASE q = r
      <4>1. sweep'[q].evicted \/ devices' # {}
        BY <1>1, <3>1, <3>2
      <4> QED
        BY <4>1, Zenon DEF Owed
    <3>3. CASE q # r
      BY <1>1, <3>1, <3>3 DEF Owed
    <3> QED
      BY <3>2, <3>3
  <2> QED
    BY <2>1, <2>2 DEF Owed
<1> QED
  BY <1>0, <1>2, <1>3, <1>4 DEF Debts

(* An evicted device is replaced by a sweep that remembers it evicted.     *)
LEMMA EvictDeviceDebts ==
    ASSUME Inv, ~excused', Debts, NEW r \in Replicas, EvictDevice(r)
    PROVE  Debts'
<1>0. TypeOK /\ Kept /\ ~excused /\ ~Crossing /\ Verdicts /\ (Live => told = TRUE)
  BY DEF Inv, Debts, Truths, EvictDevice, Excuse
<1>1. sweep[r] \in Sweep /\ sweep[r].stage = "condemned"
  BY <1>0 DEF TypeOK, EvictDevice, Acts
<1>2. PICK w : w = [sweep[r] EXCEPT !.stage = "scanning", !.device = 0, !.evicted = TRUE]
  OBVIOUS
<1>3. w \in Sweep /\ w.stage = "scanning" /\ w.evicted = TRUE
  <2>1. 0 \in 0..MaxDevices /\ TRUE \in BOOLEAN
    BY PresenceConstants
  <2> QED
    BY <1>1, <1>2, <2>1 DEF Sweep
<1>4. Sweeping(r, w) /\ UNCHANGED <<told, socket>>
  BY <1>0, <1>2, <1>3, SweptOK DEF EvictDevice
<1>5. sweep'[r] = w /\ \A q \in Replicas : q # r => sweep'[q] = sweep[q]
  BY <1>4 DEF Sweeping
<1>6. \A s \in Sockets : socket[s].phase \notin Parting
  BY <1>0, <1>1, Alone DEF Leaving, Parting
<1>7. \A q \in Replicas : q # r => sweep[q].stage # "asking"
  BY <1>0, <1>1, Alone DEF Verdicts
<1>8. Kept'
  BY <1>0, <1>3, <1>4, <1>5, <1>6, <1>7 DEF Kept, Leaving, Parting
<1>9. Owed'
  BY <1>3, <1>5 DEF Owed
<1>10. Live' => told' = TRUE
  BY <1>0, <1>4 DEF Live, Open
<1> QED
  BY <1>8, <1>9, <1>10 DEF Debts

LEMMA ElectionDebts ==
    ASSUME Inv, ~excused', Debts, NEW r \in Replicas, run_maintenance(r) \/ SweepFails(r) \/ Crash(r)
    PROVE  Debts'
<1>0. TypeOK /\ Kept /\ ~excused
  BY DEF Inv, Debts, run_maintenance, SweepFails, Crash, Excuse
<1>1. sweep[r].evicted = FALSE
  <2>1. sweep[r].evicted \in BOOLEAN
    BY <1>0 DEF TypeOK, Sweep
  <2>2. CASE run_maintenance(r)
    BY <1>0, <2>2 DEF Kept, run_maintenance, Acts
  <2>3. CASE SweepFails(r) \/ Crash(r)
    BY <2>1, <2>3 DEF SweepFails, Crash, Excuse
  <2> QED
    BY <2>2, <2>3
<1>2. PICK w \in Sweep : Sweeping(r, w) /\ w.stage \in {"resting", "following"} /\ w.evicted = FALSE
  <2>1. CASE run_maintenance(r) \/ SweepFails(r)
    BY <1>0, <2>1, SweptOK, RestingOK DEF run_maintenance, SweepFails
  <2>2. CASE Crash(r)
    BY <1>0, <2>2, SweptOK, RestingOK DEF Crash
  <2> QED
    BY <2>1, <2>2
<1>3. UNCHANGED <<socket, told, devices>>
  BY DEF run_maintenance, SweepFails, Crash
<1> QED
  BY <1>0, <1>1, <1>2, <1>3, SweepDebts

LEMMA ScanDebts ==
    ASSUME Inv, ~excused', Debts, NEW r \in Replicas, sweep_presence(r) \/ Scanned(r)
    PROVE  Debts'
<1>0. TypeOK /\ Kept /\ ~excused
  BY DEF Inv, Debts, sweep_presence, Scanned, Excuse
<1>1. sweep[r] \in Sweep /\ devices \in SUBSET Devices
  BY <1>0 DEF TypeOK
<1>2. UNCHANGED <<socket, told, devices>>
  BY DEF sweep_presence, Scanned
<1>3. CASE sweep_presence(r)
  <2>1. PICK w : w = [sweep[r] EXCEPT !.stage = "scanning", !.todo = devices]
    OBVIOUS
  <2>2. w \in Sweep /\ w.stage = "scanning" /\ w.evicted = sweep[r].evicted
    BY <1>1, <2>1 DEF Sweep
  <2>3. Swept(r, w)
    BY <1>3, <2>1 DEF sweep_presence
  <2> QED
    BY <1>0, <1>2, <2>2, <2>3, SweptOK, SweepDebts
<1>4. CASE Scanned(r) /\ sweep[r].evicted
  <2>1. PICK w : w = [sweep[r] EXCEPT !.stage = "asking", !.ask = devices]
    OBVIOUS
  <2>2. w \in Sweep /\ w.stage = "asking" /\ w.ask = devices /\ w.evicted = sweep[r].evicted
    BY <1>1, <2>1 DEF Sweep
  <2>3. Swept(r, w)
    BY <1>4, <2>1 DEF Scanned
  <2> QED
    BY <1>0, <1>2, <2>2, <2>3, SweptOK, SweepDebts
<1>5. CASE Scanned(r) /\ ~sweep[r].evicted
  <2>1. PICK w : w = Resting
    OBVIOUS
  <2>2. w \in Sweep /\ w.stage = "resting"
    BY <2>1, RestingOK
  <2>3. Swept(r, w)
    BY <1>5, <2>1 DEF Scanned
  <2>4. sweep[r].evicted # TRUE
    BY <1>5
  <2> QED
    BY <1>0, <1>2, <2>2, <2>3, <2>4, SweptOK, SweepDebts
<1> QED
  BY <1>3, <1>4, <1>5

LEMMA LookDebts ==
    ASSUME Inv, ~excused', Debts, NEW r \in Replicas, NEW d \in Devices, Look(r, d) \/ user_is_online(r, d)
    PROVE  Debts'
<1>0. TypeOK /\ Kept /\ ~excused
  BY DEF Inv, Debts, Look, user_is_online, Excuse
<1>1. sweep[r] \in Sweep /\ d \in 0..MaxDevices
  BY <1>0, PresenceConstants DEF TypeOK, Devices
<1>2. UNCHANGED <<socket, told, devices>>
  BY DEF Look, user_is_online
<1>3. CASE Look(r, d) /\ d \in keys
  <2>1. PICK w : w = [sweep[r] EXCEPT !.todo = sweep[r].todo \ {d}]
    OBVIOUS
  <2>2. w \in Sweep /\ w.stage = "scanning" /\ w.evicted = sweep[r].evicted
    BY <1>1, <1>3, <2>1 DEF Sweep, Look, Acts
  <2>3. Swept(r, w)
    BY <1>3, <2>1 DEF Look
  <2> QED
    BY <1>0, <1>2, <2>2, <2>3, SweptOK, SweepDebts
<1>4. CASE Look(r, d) /\ d \notin keys
  <2>1. PICK w : w = [sweep[r] EXCEPT !.todo = sweep[r].todo \ {d}, !.stage = "condemned", !.device = d]
    OBVIOUS
  <2>2. w \in Sweep /\ w.stage = "condemned" /\ w.evicted = sweep[r].evicted
    BY <1>1, <2>1 DEF Sweep
  <2>3. Swept(r, w)
    BY <1>4, <2>1 DEF Look
  <2> QED
    BY <1>0, <1>2, <2>2, <2>3, SweptOK, SweepDebts
<1>5. CASE user_is_online(r, d) /\ d \in keys
  <2>1. PICK w : w = Resting
    OBVIOUS
  <2>2. w \in Sweep /\ w.stage = "resting"
    BY <2>1, RestingOK
  <2>3. Swept(r, w)
    BY <1>5, <2>1 DEF user_is_online
  <2>4. devices # {}
    BY <1>0, <1>5 DEF Kept, user_is_online, Acts
  <2> QED
    BY <1>0, <1>2, <2>2, <2>3, <2>4, SweptOK, SweepDebts
<1>6. CASE user_is_online(r, d) /\ d \notin keys
  <2>1. PICK w : w = [sweep[r] EXCEPT !.ask = sweep[r].ask \ {d}]
    OBVIOUS
  <2>2. /\ w \in Sweep /\ w.stage = "asking" /\ w.evicted = sweep[r].evicted
        /\ w.ask = sweep[r].ask \ {d} /\ sweep[r].stage = "asking"
    BY <1>1, <1>6, <2>1 DEF Sweep, user_is_online, Acts
  <2>3. Swept(r, w)
    BY <1>6, <2>1 DEF user_is_online
  <2>4. w.ask \subseteq devices
    BY <1>0, <2>2 DEF Kept
  <2> QED
    BY <1>0, <1>2, <2>2, <2>3, <2>4, SweptOK, SweepDebts
<1> QED
  BY <1>3, <1>4, <1>5, <1>6

LEMMA SweepAnnouncesDebts ==
    ASSUME Inv, ~excused', Debts, NEW r \in Replicas, announce_user_offline(r)
    PROVE  Debts'
<1>0. TypeOK /\ Kept
  BY DEF Inv, Debts
<1>1. Sweeping(r, Resting) /\ UNCHANGED <<devices, socket>>
  BY <1>0, SweptOK, RestingOK DEF announce_user_offline
<1>2. told' = FALSE
  <2>1. told \in BOOLEAN /\ ~told' /\ told' \in {FALSE, told}
    BY <1>0 DEF TypeOK, announce_user_offline, Excuse, publish_user_presence
  <2> QED
    BY <2>1
<1>3. sweep'[r].stage = "resting" /\ \A q \in Replicas : q # r => sweep'[q] = sweep[q]
  BY <1>1, RestingOK DEF Sweeping
<1>4. Kept'
  <2>1. \A q \in Replicas :
           /\ sweep'[q].stage = "asking" => sweep'[q].ask \subseteq devices
           /\ sweep'[q].stage = "following" => sweep'[q].evicted = FALSE
    BY <1>0, <1>3 DEF Kept
  <2> QED
    BY <1>0, <1>1, <2>1 DEF Kept, Leaving
<1> QED
  BY <1>2, <1>4, SweepGoodbye DEF Debts

LEMMA NextDebts ==
    ASSUME Inv, ~excused', Debts, [Next]_vars
    PROVE  Debts'
<1>1. ASSUME NEW s \in Sockets,
             Connect(s) \/ Asserts(s) \/ AssertFails(s) \/ disconnect(s, TRUE) \/ disconnect(s, FALSE)
             \/ Teardown(s) \/ TeardownFails(s) \/ Dies(s)
      PROVE  Debts'
  <2>1. CASE Connect(s) \/ AddDevice(s) \/ SetKey(s) \/ AssertFails(s)
    <3>1. ~excused
      BY <2>1 DEF Connect, connect, AddDevice, SetKey, AssertFails, Excuse
    <3> QED
      BY <2>1, <3>1, AssertsDebts
  <2>2. CASE AnnounceOnline(s)
    BY <2>2, AnnounceOnlineDebts
  <2>3. CASE disconnect(s, TRUE) \/ disconnect(s, FALSE)
    <3>1. TRUE \in BOOLEAN /\ FALSE \in BOOLEAN
      OBVIOUS
    <3> QED
      BY <2>3, <3>1, DisconnectDebts
  <2>4. CASE Teardown(s)
    BY <2>4, AskNextDebts, RemoveDeviceDebts, DeleteKeyDebts, AnnounceOfflineDebts DEF Teardown
  <2>5. CASE TeardownFails(s) \/ Dies(s)
    BY <2>5, CutShortDebts
  <2> QED
    BY <1>1, <2>1, <2>2, <2>3, <2>4, <2>5 DEF Asserts
<1>2. ASSUME NEW d \in Devices, Lapse(d) \/ Evict(d)
      PROVE  Debts'
  <2>1. UNCHANGED <<devices, told, socket, sweep>>
    BY <1>2 DEF Lapse, Evict
  <2> QED
    BY <2>1 DEF Debts, Kept, Live, Owed, Open, Leaving
<1>3. ASSUME NEW r \in Replicas, run_maintenance(r) \/ Sweeps(r) \/ SweepFails(r) \/ Crash(r)
      PROVE  Debts'
  <2>1. CASE run_maintenance(r) \/ SweepFails(r) \/ Crash(r)
    BY <2>1, ElectionDebts
  <2>2. CASE EvictDevice(r)
    BY <2>2, EvictDeviceDebts
  <2>3. CASE announce_user_offline(r)
    BY <2>3, SweepAnnouncesDebts
  <2>4. ASSUME NEW d \in Devices, Look(r, d) \/ user_is_online(r, d)
        PROVE  Debts'
    BY <2>4, LookDebts
  <2>5. CASE sweep_presence(r) \/ Scanned(r)
    BY <2>5, ScanDebts
  <2> QED
    BY <1>3, <2>1, <2>2, <2>3, <2>4, <2>5 DEF Sweeps
<1>4. CASE LockLost \/ UNCHANGED vars
  <2>1. UNCHANGED <<devices, told, socket, sweep>>
    BY <1>4 DEF LockLost, vars
  <2> QED
    BY <2>1 DEF Debts, Kept, Live, Owed, Open, Leaving
<1>5. ~RedisRestart
  BY DEF RedisRestart, Excuse
<1> QED
  BY <1>1, <1>2, <1>3, <1>4, <1>5 DEF Next

LEMMA InitDebts == Init => Debts
<1> SUFFICES ASSUME Init PROVE Debts
  OBVIOUS
<1>1. \A s \in Sockets : socket[s].phase = "new"
  BY DEF Init, NewSocket
<1>2. \A r \in Replicas : sweep[r].stage = "following" /\ sweep[r].evicted = FALSE
  BY RestingOK DEF Init
<1>3. Kept /\ ~Live /\ told = FALSE
  BY <1>1, <1>2 DEF Init, Kept, Leaving, Live, Open
<1> QED
  BY <1>3 DEF Debts

(* For any number of devices, replicas, sockets and faults: while nothing  *)
(* excuses the rest, no greeting and no goodbye is lost.                   *)
THEOREM PresenceToldOrOwed == Spec => []ToldOrOwed
<1>1. Init => Inv /\ Debts
  BY InitInv, InitDebts
<1>2. Inv /\ (~excused => Debts) /\ [Next]_vars => (~excused' => Debts')
  <2> SUFFICES ASSUME Inv, ~excused => Debts, [Next]_vars, ~excused' PROVE Debts'
    OBVIOUS
  <2>1. ~excused
    BY NextLooks DEF vars
  <2> QED
    BY <2>1, NextDebts
<1>3. Inv /\ (~excused => Debts) => ToldOrOwed
  BY DEF Debts, ToldOrOwed, Inv, TypeOK
<1>4. Init => (~excused => Debts)
  BY <1>1
<1> QED
  BY <1>2, <1>3, <1>4, PresenceInvariant, PTL DEF Spec
=============================================================================
