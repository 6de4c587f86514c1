------------------------------- MODULE Presence ------------------------------
(***************************************************************************)
(* Who is online: the two Redis structures realtime.py keeps per user (a   *)
(* set of devices and a key per device that lapses), what the user's       *)
(* spaces are told of it, the sweep of background.py that finishes what a  *)
(* dead socket could not, and the election of the replica that runs it.    *)
(*                                                                         *)
(* One user.  Every Redis command is a step of its own: neither the        *)
(* pipeline of _assert_presence nor anything else here is a transaction.   *)
(* A key is present or not; Lapse and Evict are its 300 seconds running    *)
(* out and the loss of one that is still being refreshed.  A space is told *)
(* what was published last.                                                *)
(***************************************************************************)
EXTENDS Naturals, FiniteSets

CONSTANTS
    MaxDevices, \* bound: the user's devices
    MaxReplicas,\* bound: processes running for leader
    MaxConnects,\* bound: sockets ever opened
    MaxFaults   \* bound: failures of Redis, of a replica, of its connection to PostgreSQL

ASSUME PresenceConstants ==
    /\ MaxDevices \in Nat /\ MaxReplicas \in Nat /\ MaxConnects \in Nat /\ MaxFaults \in Nat

VARIABLES
    devices,  \* Redis: user:{uid}:devices
    keys,     \* Redis: the devices whose presence:{uid}:{did} is there
    told,     \* what the user's spaces were last told
    socket,   \* each socket's endpoint
    lock,     \* the replica whose connection holds the advisory lock
    sweep,    \* each replica's sweep
    faults,
    excused   \* history: something below (Crossing, Excuse) came between

vars == <<devices, keys, told, socket, lock, sweep, faults, excused>>

\* Each is numbered in the order it first connects or is elected; 0 is none.
Sockets == 1..MaxConnects
Devices == 1..MaxDevices
Replicas == 1..MaxReplicas

NewSocket == [phase |-> "new", device |-> 0, ask |-> {}, silent |-> FALSE]
Socket == [phase: {"new", "adding", "setting", "announcing", "open", "refreshing",
                   "asking", "removing", "deleting", "parting", "done"},
           device: 0..MaxDevices, ask: SUBSET Devices, silent: BOOLEAN]

Following == [stage |-> "following", todo |-> {}, device |-> 0, evicted |-> FALSE, ask |-> {}]
Resting == [Following EXCEPT !.stage = "resting"]
Sweep == [stage: {"following", "resting", "scanning", "condemned", "asking", "telling"},
          todo: SUBSET Devices, device: 0..MaxDevices, evicted: BOOLEAN, ask: SUBSET Devices]

TypeOK ==
    /\ devices \subseteq Devices /\ keys \subseteq Devices /\ told \in BOOLEAN
    /\ socket \in [Sockets -> Socket]
    /\ lock \in 0..MaxReplicas
    /\ sweep \in [Replicas -> Sweep]
    /\ faults \in 0..MaxFaults /\ excused \in BOOLEAN

Init ==
    /\ devices = {} /\ keys = {} /\ told = FALSE
    /\ socket = [s \in Sockets |-> NewSocket]
    /\ lock = 0 /\ sweep = [r \in Replicas |-> Following]
    /\ faults = 0 /\ excused = FALSE

Open(s) == socket[s].phase \in {"open", "refreshing"}
Connecting(s) == socket[s].phase \in {"adding", "setting", "announcing"}
Leaving(s) == socket[s].phase \in {"asking", "removing", "deleting", "parting"}
Live == \E s \in Sockets: Open(s)
Gone(d) == \A s \in Sockets: socket[s].device = d => socket[s].phase \in {"done", "new"}

(***************************************************************************)
(* What nobody coordinates: two of the user's sockets coming or going at   *)
(* once, or one while a sweep is evicting, and two sockets of one device.  *)
(***************************************************************************)
Busy == {s \in Sockets : Connecting(s) \/ Leaving(s)}
Evicting == {r \in Replicas : sweep[r].stage = "condemned" \/ sweep[r].evicted}
Crossing ==
    \/ Cardinality(Busy) + Cardinality(Evicting) > 1
    \/ \E s, t \in Sockets: s # t /\ socket[s].device = socket[t].device
                            /\ socket[s].phase \notin {"new", "done"} /\ socket[t].phase \notin {"new", "done"}

Excuse(other) == excused' = (excused \/ other \/ Crossing')
Fault == faults < MaxFaults /\ faults' = faults + 1

(***************************************************************************)
(* The endpoint of a socket                                                *)
(***************************************************************************)
Goes(s, from, to) == socket[s].phase = from /\ socket' = [socket EXCEPT ![s].phase = to]

\* Mutation: the device's identifier is not kept.
connect_Anonymous(s, d) ==
    /\ Goes(s, "new", "adding") /\ \A t \in Sockets: t < s => socket[t].phase # "new"
    /\ UNCHANGED <<devices, keys, told, lock, sweep, faults>> /\ Excuse(FALSE)

connect(s, d) ==
    /\ socket[s].phase = "new" /\ \A t \in Sockets: t < s => socket[t].phase # "new"
    /\ \A e \in 1..(d - 1): \E t \in Sockets: socket[t].device = e
    /\ socket' = [socket EXCEPT ![s] = [@ EXCEPT !.phase = "adding", !.device = d]]
    /\ UNCHANGED <<devices, keys, told, lock, sweep, faults>> /\ Excuse(FALSE)

\* _assert_presence: SADD, then SET with a time to live, when connecting and at every pong.
AddDevice(s) ==
    /\ Goes(s, "adding", "setting") \/ Goes(s, "open", "refreshing")
    /\ devices' = devices \cup {socket[s].device}
    /\ UNCHANGED <<keys, told, lock, sweep, faults>> /\ Excuse(FALSE)

\* Mutation: a heartbeat only extends the key, as it once did.
SetKey_Extends(s) ==
    /\ Goes(s, "setting", "announcing") \/ Goes(s, "refreshing", "open")
    /\ keys' = IF socket[s].phase = "setting" THEN keys \cup {socket[s].device} ELSE keys
    /\ UNCHANGED <<devices, told, lock, sweep, faults>> /\ Excuse(FALSE)

SetKey(s) ==
    /\ Goes(s, "setting", "announcing") \/ Goes(s, "refreshing", "open")
    /\ keys' = keys \cup {socket[s].device}
    /\ UNCHANGED <<devices, told, lock, sweep, faults>> /\ Excuse(FALSE)

\* A failed assert ends the endpoint when connecting, and is shrugged off at a pong.
AssertFails(s) ==
    /\ Fault
    /\ \/ Goes(s, "adding", "done") \/ Goes(s, "setting", "done")
       \/ Goes(s, "refreshing", "open")
    /\ UNCHANGED <<devices, keys, told, lock, sweep>> /\ Excuse(FALSE)

publish_user_presence(online) ==
    \/ told' = online /\ UNCHANGED faults
    \/ Fault /\ UNCHANGED told

AnnounceOnline(s) ==
    /\ Goes(s, "announcing", "open")
    /\ publish_user_presence(TRUE)
    /\ UNCHANGED <<devices, keys, lock, sweep>> /\ Excuse(~told')

\* user_is_online, excluding the device that leaves: it has read the set and looks at the
\* keys of `left` one by one.
Asks(s, left, silent) ==
    socket' = [socket EXCEPT ![s] =
                 [@ EXCEPT !.phase = IF left = {} THEN "removing" ELSE "asking",
                           !.ask = left, !.silent = silent]]

\* Mutation: the leaving device is not excluded.
disconnect_Itself(s, reach) ==
    /\ socket[s].phase = "open"
    /\ Asks(s, devices, ~reach)
    /\ UNCHANGED <<devices, keys, told, lock, sweep, faults>> /\ Excuse(~reach)

\* The receive loop ends.  A socket the hub dropped for not reading is on no channel any
\* more, so its goodbye will reach nobody.
disconnect(s, reach) ==
    /\ socket[s].phase = "open"
    /\ Asks(s, devices \ {socket[s].device}, ~reach)
    /\ UNCHANGED <<devices, keys, told, lock, sweep, faults>> /\ Excuse(~reach)

\* Mutation: the keys of the other devices are not looked at.
AskNext_Alone(s, d) ==
    /\ socket[s].phase = "asking" /\ d \in socket[s].ask
    /\ Asks(s, socket[s].ask \ {d}, socket[s].silent)
    /\ UNCHANGED <<devices, keys, told, lock, sweep, faults>> /\ Excuse(FALSE)

AskNext(s, d) ==
    /\ socket[s].phase = "asking" /\ d \in socket[s].ask
    /\ IF d \in keys THEN Asks(s, {}, TRUE) ELSE Asks(s, socket[s].ask \ {d}, socket[s].silent)
    /\ UNCHANGED <<devices, keys, told, lock, sweep, faults>> /\ Excuse(FALSE)

RemoveDevice(s) ==
    /\ Goes(s, "removing", "deleting")
    /\ devices' = devices \ {socket[s].device}
    /\ UNCHANGED <<keys, told, lock, sweep, faults>> /\ Excuse(FALSE)

DeleteKey(s) ==
    /\ Goes(s, "deleting", "parting")
    /\ keys' = keys \ {socket[s].device}
    /\ UNCHANGED <<devices, told, lock, sweep, faults>> /\ Excuse(FALSE)

AnnounceOffline(s) ==
    /\ Goes(s, "parting", "done")
    /\ IF socket[s].silent THEN UNCHANGED <<told, faults>>
       ELSE publish_user_presence(FALSE)
    /\ UNCHANGED <<devices, keys, lock, sweep>> /\ Excuse(~socket[s].silent /\ told')

\* What was not done is left to the sweep, which finds nothing once the set has lost the device.
TeardownFails(s) ==
    /\ Fault
    /\ Goes(s, "asking", "done") \/ Goes(s, "removing", "done") \/ Goes(s, "deleting", "done")
    /\ UNCHANGED <<devices, keys, told, lock, sweep>> /\ Excuse(socket[s].phase = "deleting")

(***************************************************************************)
(* Redis                                                                   *)
(***************************************************************************)
Lapse(d) ==
    /\ d \in keys /\ Gone(d)
    /\ keys' = keys \ {d}
    /\ UNCHANGED <<devices, told, socket, lock, sweep, faults>> /\ Excuse(FALSE)

\* Evicted, or not refreshed in time.
Evict(d) ==
    /\ Fault /\ d \in keys /\ ~Gone(d)
    /\ keys' = keys \ {d}
    /\ UNCHANGED <<devices, told, socket, lock, sweep>> /\ Excuse(TRUE)

RedisRestart ==
    /\ Fault
    /\ devices' = {} /\ keys' = {}
    /\ UNCHANGED <<told, socket, lock, sweep>> /\ Excuse(TRUE)

(***************************************************************************)
(* The leader and its sweep                                                *)
(***************************************************************************)
Acts(r, from) == sweep[r].stage = from
Swept(r, new) == sweep' = [sweep EXCEPT ![r] = new]

run_maintenance(r) ==
    /\ Acts(r, "following") /\ \A q \in 1..(r - 1): ~Acts(q, "following")
    /\ lock = 0
    /\ lock' = r /\ Swept(r, Resting)
    /\ UNCHANGED <<devices, keys, told, socket, faults>> /\ Excuse(FALSE)

\* The connection goes and its lock with it; the loop does not look at it.
LockLost ==
    /\ Fault /\ lock # 0
    /\ lock' = 0
    /\ UNCHANGED <<devices, keys, told, socket, sweep>> /\ Excuse(FALSE)

sweep_presence(r) ==
    /\ Acts(r, "resting")
    /\ Swept(r, [sweep[r] EXCEPT !.stage = "scanning", !.todo = devices])
    /\ UNCHANGED <<devices, keys, told, socket, lock, faults>> /\ Excuse(FALSE)

Look(r, d) ==
    /\ Acts(r, "scanning") /\ d \in sweep[r].todo
    /\ Swept(r, IF d \in keys THEN [sweep[r] EXCEPT !.todo = @ \ {d}]
                ELSE [sweep[r] EXCEPT !.todo = @ \ {d}, !.stage = "condemned", !.device = d])
    /\ UNCHANGED <<devices, keys, told, socket, lock, faults>> /\ Excuse(FALSE)

\* SREM, and device:offline on the user's own channel.
\* Mutation: announced, and left in the set.
EvictDevice_Keeps(r) ==
    /\ Acts(r, "condemned")
    /\ Swept(r, [sweep[r] EXCEPT !.stage = "scanning", !.device = 0, !.evicted = TRUE])
    /\ UNCHANGED <<devices, keys, told, socket, lock, faults>> /\ Excuse(FALSE)

EvictDevice(r) ==
    /\ Acts(r, "condemned")
    /\ devices' = devices \ {sweep[r].device}
    /\ Swept(r, [sweep[r] EXCEPT !.stage = "scanning", !.device = 0, !.evicted = TRUE])
    /\ UNCHANGED <<keys, told, socket, lock, faults>> /\ Excuse(FALSE)

\* Mutation: only the device's own departure is announced.
Scanned_Ends(r) ==
    /\ Acts(r, "scanning") /\ sweep[r].todo = {}
    /\ Swept(r, Resting)
    /\ UNCHANGED <<devices, keys, told, socket, lock, faults>> /\ Excuse(FALSE)

Scanned(r) ==
    /\ Acts(r, "scanning") /\ sweep[r].todo = {}
    /\ Swept(r, IF sweep[r].evicted THEN [sweep[r] EXCEPT !.stage = "asking", !.ask = devices] ELSE Resting)
    /\ UNCHANGED <<devices, keys, told, socket, lock, faults>> /\ Excuse(FALSE)

user_is_online(r, d) ==
    /\ Acts(r, "asking") /\ d \in sweep[r].ask
    /\ Swept(r, IF d \in keys THEN Resting ELSE [sweep[r] EXCEPT !.ask = @ \ {d}])
    /\ UNCHANGED <<devices, keys, told, socket, lock, faults>> /\ Excuse(FALSE)

announce_user_offline(r) ==
    /\ Acts(r, "asking") /\ sweep[r].ask = {}
    /\ Swept(r, Resting)
    /\ publish_user_presence(FALSE)
    /\ UNCHANGED <<devices, keys, socket, lock>> /\ Excuse(told')

\* Redis fails: the sweep is given up until the next one.
SweepFails(r) ==
    /\ Fault /\ sweep[r].stage \in {"scanning", "condemned", "asking"}
    /\ Swept(r, Resting)
    /\ UNCHANGED <<devices, keys, told, socket, lock>> /\ Excuse(sweep[r].evicted)

\* A socket dies with its replica, or its endpoint is cancelled: nobody says goodbye.
Dies(s) ==
    /\ socket[s].phase \notin {"new", "done"}
    /\ socket' = [socket EXCEPT ![s].phase = "done"]
    /\ UNCHANGED <<devices, keys, told, lock, sweep, faults>>
    /\ Excuse(socket[s].phase \in {"deleting", "parting"})

\* A replica dies with its lock and its sweep, and comes back.
Crash(r) ==
    /\ Fault /\ ~Acts(r, "following")
    /\ lock' = IF lock = r THEN 0 ELSE lock
    /\ Swept(r, Following)
    /\ UNCHANGED <<devices, keys, told, socket>> /\ Excuse(sweep[r].evicted)

(***************************************************************************)
Connect(s) == \E d \in Devices: connect(s, d)
Asserts(s) == AddDevice(s) \/ SetKey(s) \/ AnnounceOnline(s)
Teardown(s) ==
    \/ (\E d \in Devices: AskNext(s, d)) \/ RemoveDevice(s) \/ DeleteKey(s) \/ AnnounceOffline(s)

Sweeps(r) ==
    \/ sweep_presence(r) \/ EvictDevice(r) \/ Scanned(r) \/ announce_user_offline(r)
    \/ \E d \in Devices: Look(r, d) \/ user_is_online(r, d)

Next ==
    \/ \E s \in Sockets: \/ Connect(s) \/ Asserts(s) \/ AssertFails(s)
                         \/ disconnect(s, TRUE) \/ disconnect(s, FALSE)
                         \/ Teardown(s) \/ TeardownFails(s) \/ Dies(s)
    \/ \E d \in Devices: Lapse(d) \/ Evict(d)
    \/ \E r \in Replicas: run_maintenance(r) \/ Sweeps(r) \/ SweepFails(r) \/ Crash(r)
    \/ LockLost \/ RedisRestart

\* Endpoints go on, clients answer pings, keys lapse, a replica is elected and sweeps.
Fairness ==
    /\ \A s \in Sockets: WF_vars(Asserts(s)) /\ WF_vars(Teardown(s))
    /\ \A d \in Devices: WF_vars(Lapse(d))
    /\ \A r \in Replicas: WF_vars(run_maintenance(r)) /\ WF_vars(Sweeps(r))

Spec == Init /\ [][Next]_vars /\ Fairness

(***************************************************************************)
(* Properties                                                              *)
(***************************************************************************)
(* A device whose socket stays open reads as online again and again,       *)
(* whatever Redis lost in between: every pong states it from scratch.      *)
Reasserted ==
    \A s \in Sockets: []<>(Open(s) => socket[s].device \in devices \cap keys)

(* A device without a socket is forgotten, whether its socket closed,      *)
(* failed half-way through its goodbye or died with its replica, and       *)
(* whoever leads or believes it does.                                      *)
Forgotten ==
    \A d \in Devices: Gone(d) ~> (d \notin devices \cup keys \/ ~Gone(d))

Owed ==
    \/ devices # {}
    \/ \E s \in Sockets : Leaving(s) /\ ~socket[s].silent
    \/ \E r \in Replicas : sweep[r].evicted

(* While nothing excuses the rest, the spaces are told of a user who is    *)
(* there; and of one who has gone whom they believe to be there somebody   *)
(* is about to tell them: an endpoint that will say goodbye, a sweep that  *)
(* evicted, or the next sweep, which has a device to find.                 *)
ToldOrOwed == excused \/ ((Live => told) /\ (told /\ ~Live => Owed))

(* The spaces end up told what is so: the goodbye of the last socket, or   *)
(* the sweep after one that could not say it.  Except after what Crossing  *)
(* and Excuse name.                                                        *)
ToldTruth == <>[](excused \/ told = Live)

(* Nobody is told the user has gone while one of the user's sockets is     *)
(* open, with the same exceptions.                                         *)
OfflineIsTrue == [][told /\ ~told' /\ ~excused' => ~Live']_vars
=============================================================================
