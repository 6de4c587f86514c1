------------------------------- MODULE HubProofs -----------------------------
(***************************************************************************)
(* Proofs about Hub: for any spaces, devices, bounds and faults, the hub's *)
(* tables are well typed, hold nothing whose endpoint has gone, follow the *)
(* memberships and show nobody a space it is not in, and every open socket *)
(* of a device that has been cut off is accounted for.                     *)
(***************************************************************************)
EXTENDS Hub, SequenceTheorems, TLAPS

(***************************************************************************)
(* Types                                                                   *)
(***************************************************************************)

\* What a message may name.
Sound(m) ==
    /\ m \in Message
    /\ m.event = "revoked" => m.about \subseteq revoked
    /\ m.event = "entry" => m.about \subseteq Spaces \cup Elsewhere

Types ==
    /\ TypeOK
    /\ \A i \in 1..Len(wire) : Sound(wire[i])
    /\ Sound(sending.message)
    /\ \A t \in Tasks : tasks[t].kind = "close" => tasks[t].device \in revoked

\* Types splits by who writes what.
RowsOK ==
    /\ space \in [Spaces -> {"new", "live", "deleted"}]
    /\ members \subseteq live /\ revoked \subseteq Devices /\ cache \subseteq Devices
    /\ requests \in 0..MaxRequests
WireOK == wire \in Seq(Message) /\ \A i \in 1..Len(wire) : Sound(wire[i])
SendingOK == sending \in Delivery /\ Sound(sending.message)
TasksOK == tasks \in [Tasks -> Task] /\ \A t \in Tasks : tasks[t].kind = "close" => tasks[t].device \in revoked
HubOK ==
    /\ phase \in [Sockets -> {"new", "checked", "serving", "resolved", "open", "rereading",
                              "ending", "done"}]
    /\ device \in [Sockets -> Devices \cup {None}]
    /\ seen \in [Sockets -> SUBSET Spaces]
    /\ bound \in [Sockets -> SUBSET Channels]
    /\ slots \subseteq Sockets /\ shut \subseteq Sockets
HistoryOK ==
    /\ faults \in 0..MaxFaults
    /\ lost \in BOOLEAN /\ overtaken \in BOOLEAN
    /\ cut \subseteq revoked /\ slipped \subseteq Sockets /\ orphans \subseteq Sockets

Parts == RowsOK /\ WireOK /\ SendingOK /\ TasksOK /\ HubOK /\ HistoryOK

LEMMA PartsTypes == Parts => TypeOK
BY DEF Parts, TypeOK, RowsOK, WireOK, SendingOK, TasksOK, HubOK, HistoryOK

LEMMA InitParts == Init => Parts
<1> SUFFICES ASSUME Init PROVE Parts
  OBVIOUS
<1>1. RowsOK
  BY HubConstants DEF Init, RowsOK, live
<1>0. HubOK
  BY DEF Init, HubOK
<1>6. HistoryOK
  <2>1. lost \in BOOLEAN /\ overtaken \in BOOLEAN
    BY DEF Init
  <2>2. faults \in 0..MaxFaults /\ cut \subseteq revoked /\ slipped \subseteq Sockets /\ orphans \subseteq Sockets
    BY HubConstants DEF Init
  <2> QED
    BY <2>1, <2>2 DEF HistoryOK
<1>2. WireOK
  BY DEF Init, WireOK
<1>3. Sound(Nothing)
  BY DEF Sound, Nothing, Message
<1>4. SendingOK
  BY <1>3 DEF Init, SendingOK, NoDelivery, Delivery, Sound
<1>5. TasksOK
  BY DEF Init, TasksOK, NoTask, Task
<1> QED
  BY <1>0, <1>1, <1>2, <1>4, <1>5, <1>6 DEF Parts

LEMMA AppendOK ==
    ASSUME NEW w \in Seq(Message), NEW m \in Message
    PROVE  /\ Append(w, m) \in Seq(Message) /\ Len(Append(w, m)) = Len(w) + 1
           /\ \A i \in 1..Len(w) : Append(w, m)[i] = w[i]
           /\ Append(w, m)[Len(w) + 1] = m
OBVIOUS

LEMMA TailOK ==
    ASSUME NEW w \in Seq(Message), w # <<>>
    PROVE  /\ Tail(w) \in Seq(Message) /\ Len(Tail(w)) = Len(w) - 1 /\ Len(w) \in Nat \ {0}
           /\ \A i \in 1..Len(Tail(w)) : Tail(w)[i] = w[i + 1]
           /\ Head(w) = w[1] /\ Head(w) \in Message
<1>1. Len(w) \in Nat \ {0}
  BY EmptySeq
<1> QED
  BY <1>1, HeadTailProperties

\* A message named so far stays sound while revocations grow.
LEMMA SoundStays ==
    ASSUME NEW m, Sound(m), revoked \subseteq revoked'
    PROVE  Sound(m)'
BY DEF Sound

\* Publishing a message that will be sound.
LEMMA PublishOK ==
    ASSUME Parts, NEW on \in {"user"} \cup Spaces, NEW event \in {"membership", "revoked", "entry"},
           NEW about \in SUBSET (Spaces \cup Elsewhere \cup Devices),
           Publishes(on, event, about), revoked \subseteq revoked',
           event = "revoked" => about \subseteq revoked',
           event = "entry" => about \subseteq Spaces \cup Elsewhere
    PROVE  WireOK' /\ SendingOK' /\ TasksOK' /\ HubOK' /\ HistoryOK' /\ requests' \in 0..MaxRequests
<1>1. PICK m : m = [on |-> on, event |-> event, about |-> about]
  OBVIOUS
<1>2. m \in Message /\ Sound(m)'
  BY <1>1 DEF Message, Sound
<1>3. wire' = Append(wire, m) \/ wire' = wire
  BY <1>1 DEF Publishes
<1>4. WireOK'
  <2>1. wire \in Seq(Message) /\ \A i \in 1..Len(wire) : Sound(wire[i])
    BY DEF Parts, WireOK
  <2>2. ASSUME NEW i \in 1..Len(wire) PROVE \A k : k = wire[i] => Sound(k)'
    BY <2>1, SoundStays
  <2>3. CASE wire' = Append(wire, m)
    <3>1. wire' \in Seq(Message) /\ Len(wire') = Len(wire) + 1
      BY <1>2, <2>1, <2>3, AppendOK
    <3>2. ASSUME NEW i \in 1..Len(wire') PROVE Sound(wire[i])'
      <4>1. CASE i \in 1..Len(wire)
        BY <1>2, <2>1, <2>2, <2>3, <4>1, AppendOK DEF Sound
      <4>2. CASE i = Len(wire) + 1
        BY <1>2, <2>1, <2>3, <4>2, AppendOK DEF Sound
      <4> QED
        BY <2>1, <3>1, <3>2, <4>1, <4>2
    <3> QED
      BY <3>1, <3>2 DEF WireOK
  <2>4. CASE wire' = wire
    BY <2>1, <2>2, <2>4 DEF WireOK, Sound
  <2> QED
    BY <1>3, <2>3, <2>4
<1>5. SendingOK' /\ TasksOK' /\ HubOK'
  BY DEF Publishes, Parts, SendingOK, TasksOK, HubOK, hub, Sound
<1>6. HistoryOK' /\ requests' \in 0..MaxRequests
  <2>1. requests' \in 0..MaxRequests /\ faults' \in 0..MaxFaults
    BY HubConstants DEF Publishes, Parts, RowsOK, HistoryOK, Fault
  <2>2. lost' = lost \/ lost' = TRUE
    BY DEF Publishes
  <2> QED
    BY <2>1, <2>2 DEF Publishes, Parts, HistoryOK
<1> QED
  BY <1>4, <1>5, <1>6

LEMMA RoutersTypes == ASSUME Parts, Routers PROVE Parts'
<1>0. RowsOK
  BY DEF Parts
<1>1. ASSUME NEW c \in Spaces, create_space(c) \/ join_space(c) \/ remove_member(c) PROVE Parts'
  <2>1. /\ space' \in [Spaces -> {"new", "live", "deleted"}] /\ members' \subseteq live'
        /\ revoked' = revoked /\ cache' = cache /\ Publishes("user", "membership", {c})
    BY <1>0, <1>1 DEF create_space, join_space, remove_member, RowsOK, live, door
  <2>2. {c} \in SUBSET (Spaces \cup Elsewhere \cup Devices)
    OBVIOUS
  <2>3. WireOK' /\ SendingOK' /\ TasksOK' /\ HubOK' /\ HistoryOK' /\ requests' \in 0..MaxRequests
    BY <2>1, <2>2, PublishOK
  <2> QED
    BY <1>0, <2>1, <2>3 DEF Parts, RowsOK
<1>2. ASSUME NEW c \in Spaces, delete_space(c) PROVE Parts'
  <2>1. RowsOK'
    BY <1>0, <1>2, HubConstants DEF delete_space, RowsOK, live, door
  <2>2. UNCHANGED <<revoked, wire, sending, tasks, hub, faults, history>>
    BY <1>2 DEF delete_space, bus, door
  <2> QED
    BY <2>1, <2>2 DEF Parts, WireOK, SendingOK, TasksOK, HubOK, HistoryOK, Sound, hub, history
<1>3. ASSUME NEW d \in Devices, revoke_device(d) PROVE Parts'
  <2>1. /\ space' = space /\ members' = members /\ revoked' = revoked \cup {d} /\ live' = live /\ cache' = cache
        /\ Publishes("user", "revoked", {d})
    BY <1>3 DEF revoke_device, live
  <2>2. {d} \in SUBSET (Spaces \cup Elsewhere \cup Devices)
    OBVIOUS
  <2>3. WireOK' /\ SendingOK' /\ TasksOK' /\ HubOK' /\ HistoryOK' /\ requests' \in 0..MaxRequests
    BY <2>1, <2>2, PublishOK
  <2> QED
    BY <1>0, <2>1, <2>3 DEF Parts, RowsOK
<1>4. ASSUME NEW c \in live, publish_sync_entry(c, live \cup Elsewhere) PROVE Parts'
  <2>1. /\ space' = space /\ members' = members /\ revoked' = revoked /\ live' = live /\ cache' = cache
        /\ Publishes(c, "entry", live \cup Elsewhere)
    BY <1>4 DEF publish_sync_entry, live, door
  <2>2. live \subseteq Spaces /\ c \in {"user"} \cup Spaces
    BY DEF live
  <2>3. WireOK' /\ SendingOK' /\ TasksOK' /\ HubOK' /\ HistoryOK' /\ requests' \in 0..MaxRequests
    BY <2>1, <2>2, PublishOK
  <2> QED
    BY <1>0, <2>1, <2>3 DEF Parts, RowsOK
<1> QED
  BY <1>1, <1>2, <1>3, <1>4 DEF Routers

\* Steps that leave the rows and the bus alone.
LEMMA LocalTypes ==
    ASSUME Parts, UNCHANGED <<stored, bus>>, HubOK', HistoryOK'
    PROVE  Parts'
BY DEF Parts, RowsOK, WireOK, SendingOK, TasksOK, Sound, stored, door, bus, live

\* Binding keeps the tables typed.
LEMMA BindOK ==
    ASSUME HubOK, HistoryOK, NEW s \in Sockets, NEW spaces \in SUBSET Spaces, bind_locked(s, spaces)
    PROVE  bound' \in [Sockets -> SUBSET Channels] /\ overtaken' \in BOOLEAN
<1>1. Wanted(spaces) \subseteq Channels
  BY DEF Wanted, Channels
<1>2. bound' \in [Sockets -> SUBSET Channels]
  BY <1>1 DEF bind_locked, HubOK
<1>3. overtaken' \in BOOLEAN
  BY DEF bind_locked
<1> QED
  BY <1>2, <1>3

LEMMA RebindOK ==
    ASSUME HubOK, HistoryOK, NEW s \in Sockets, NEW spaces \in SUBSET Spaces, rebind(s, spaces)
    PROVE  bound' \in [Sockets -> SUBSET Channels] /\ overtaken' \in BOOLEAN
<1>1. CASE bound[s] = {}
  BY <1>1 DEF rebind, HubOK, HistoryOK
<1>2. CASE bound[s] # {}
  BY <1>2, BindOK DEF rebind
<1> QED
  BY <1>1, <1>2

LEMMA EndpointTypes ==
    ASSUME Parts, NEW s \in Sockets, Endpoint(s) \/ (\E d \in Devices : authenticate(s, d)) PROVE Parts'
<1>0. RowsOK /\ HubOK /\ HistoryOK
  BY DEF Parts
<1>1. CASE \E d \in Devices : authenticate(s, d)
  <2>1. HubOK' /\ HistoryOK' /\ UNCHANGED <<stored, bus>>
    BY <1>0, <1>1 DEF authenticate, Become, HubOK, HistoryOK, history, stored, door
  <2> QED
    BY <2>1, LocalTypes
<1>2. CASE reserve_slot(s) \/ release_slot(s)
  <2>1. HubOK' /\ slipped' \subseteq Sockets
    BY <1>0, <1>2 DEF reserve_slot, release_slot, Returns, Become, HubOK, HistoryOK
  <2>2. UNCHANGED <<stored, bus, faults, lost, overtaken, cut, orphans>> /\ revoked' = revoked
    BY <1>2 DEF reserve_slot, release_slot, stored, door
  <2>3. HistoryOK'
    BY <1>0, <2>1, <2>2 DEF HistoryOK
  <2> QED
    BY <2>1, <2>2, <2>3, LocalTypes
<1>3. CASE resolve_channels(s)
  <2>1. HubOK' /\ HistoryOK' /\ UNCHANGED <<stored, bus>>
    BY <1>0, <1>3 DEF resolve_channels, Become, HubOK, HistoryOK, history, stored, door, RowsOK, live
  <2> QED
    BY <2>1, LocalTypes
<1>4. CASE ServeFails(s)
  <2>1. faults' \in 0..MaxFaults
    BY <1>0, <1>4, HubConstants DEF ServeFails, Fault, HistoryOK
  <2>2. HubOK' /\ HistoryOK' /\ UNCHANGED <<stored, bus>>
    BY <1>0, <1>4, <2>1 DEF ServeFails, Become, HubOK, HistoryOK, history, stored, door
  <2> QED
    BY <2>2, LocalTypes
<1>5. CASE register(s)
  <2>1. faults' \in 0..MaxFaults
    BY <1>0, <1>5, HubConstants DEF register, Fault, HistoryOK
  <2>2. bound' \in [Sockets -> SUBSET Channels] /\ overtaken' \in BOOLEAN
    BY <1>0, <1>5, BindOK DEF register, HubOK
  <2>3. HubOK' /\ HistoryOK' /\ UNCHANGED <<stored, bus>>
    BY <1>0, <1>5, <2>1, <2>2 DEF register, Become, HubOK, HistoryOK, stored, door
  <2> QED
    BY <2>3, LocalTypes
<1>6. CASE resubscribe(s)
  <2>1. bound' \in [Sockets -> SUBSET Channels] /\ overtaken' \in BOOLEAN
    BY <1>0, <1>6, RebindOK DEF resubscribe, HubOK
  <2>2. HubOK' /\ HistoryOK' /\ UNCHANGED <<stored, bus>>
    BY <1>0, <1>6, <2>1 DEF resubscribe, Become, HubOK, HistoryOK, stored, door
  <2> QED
    BY <2>2, LocalTypes
<1>7. CASE unregister(s) \/ Closes(s)
  <2>1. HubOK' /\ HistoryOK' /\ UNCHANGED <<stored, bus>>
    BY <1>0, <1>7 DEF unregister, Closes, Become, HubOK, HistoryOK, history, stored, door
  <2> QED
    BY <2>1, LocalTypes
<1>8. CASE ResubscribeFails(s)
  <2>1. faults' \in 0..MaxFaults
    BY <1>0, <1>8, HubConstants DEF ResubscribeFails, Fault, HistoryOK
  <2>2. HubOK' /\ HistoryOK' /\ UNCHANGED <<stored, bus>>
    BY <1>0, <1>8, <2>1 DEF ResubscribeFails, Become, HubOK, HistoryOK, history, stored, door
  <2> QED
    BY <2>2, LocalTypes
<1> QED
  BY <1>1, <1>2, <1>3, <1>4, <1>5, <1>6, <1>7, <1>8 DEF Endpoint

LEMMA LapseTypes == ASSUME Parts, NEW d \in Devices, Lapse(d) PROVE Parts'
<1>1. RowsOK'
  BY DEF Lapse, Parts, RowsOK, live
<1>2. UNCHANGED <<revoked, wire, sending, tasks, hub, faults, history>>
  BY DEF Lapse, bus
<1> QED
  BY <1>1, <1>2 DEF Parts, WireOK, SendingOK, TasksOK, HubOK, HistoryOK, Sound, hub, history

\* Steps that leave the rows alone.
LEMMA SameRows ==
    ASSUME Parts, UNCHANGED stored, WireOK', SendingOK', TasksOK', HubOK', HistoryOK'
    PROVE  Parts'
BY DEF Parts, RowsOK, stored, door, live

LEMMA WireStays == ASSUME Parts, UNCHANGED <<stored, wire>> PROVE WireOK'
BY DEF Parts, WireOK, Sound, stored, door

LEMMA SendingStays == ASSUME Parts, UNCHANGED <<stored, sending>> PROVE SendingOK'
BY DEF Parts, SendingOK, Sound, stored, door

LEMMA ScheduleOK ==
    ASSUME Parts, NEW kind \in {"resync", "close"}, NEW d \in Devices \cup {None},
           kind = "close" => d \in revoked, UNCHANGED stored, Schedules(kind, d)
    PROVE  TasksOK'
<1>1. PICK t \in Tasks : /\ tasks[t] = NoTask
                         /\ tasks' = [tasks EXCEPT ![t] = [NoTask EXCEPT !.kind = kind, !.stage = "start", !.device = d]]
  BY DEF Schedules, First
<1>2. PICK k : k = [NoTask EXCEPT !.kind = kind, !.stage = "start", !.device = d]
  OBVIOUS
<1>3. k \in Task /\ k.kind = kind /\ k.device = d
  BY <1>2 DEF NoTask, Task
<1> QED
  BY <1>1, <1>2, <1>3 DEF Parts, TasksOK, stored, door

LEMMA CutsOK ==
    ASSUME Parts, UNCHANGED stored, NEW ds \in SUBSET revoked, Cuts(ds)
    PROVE  cut' \subseteq revoked' /\ slipped' \subseteq Sockets
BY DEF Parts, HistoryOK, Cuts, stored, door

\* An entry is shown where it is shared and the socket is.
LEMMA TrimOK ==
    ASSUME Parts, NEW s \in Sockets, NEW m, Sound(m)
    PROVE  trim_entry_for(s, m) \in SUBSET (Spaces \cup Elsewhere)
BY DEF trim_entry_for, Sound

LEMMA DeliverTypes == ASSUME Parts, start_listener PROVE Parts'
<1>0. wire \in Seq(Message) /\ wire # <<>> /\ wire' = Tail(wire)
  BY DEF start_listener, Parts, WireOK
<1>1. WireOK'
  <2>1. wire' \in Seq(Message) /\ \A i \in 1..Len(wire') : wire'[i] = wire[i + 1] /\ i + 1 \in 1..Len(wire)
    BY <1>0, TailOK
  <2> QED
    BY <2>1 DEF WireOK, Parts, Sound, start_listener, stored, door
<1>2. PICK m : m = Head(wire)
  OBVIOUS
<1>3. Sound(m) /\ m \in Message
  <2>1. m = wire[1] /\ 1 \in 1..Len(wire)
    BY <1>0, <1>2, TailOK
  <2> QED
    BY <2>1 DEF Parts, WireOK, Sound
<1>4. SendingOK'
  <2>1. PICK w : w = [s \in Sockets |-> IF s \in On(m.on) THEN trim_entry_for(s, m) ELSE {}]
    OBVIOUS
  <2>2. w \in [Sockets -> SUBSET (Spaces \cup Elsewhere)]
    BY <1>3, <2>1, TrimOK
  <2>3. On(m.on) \subseteq Sockets
    BY DEF On
  <2>4. sending' = [on |-> TRUE, message |-> m, to |-> On(m.on), shown |-> w]
    BY <1>2, <2>1 DEF start_listener
  <2>5. sending' \in Delivery
    BY <1>3, <2>2, <2>3, <2>4 DEF Delivery
  <2> QED
    BY <1>3, <2>4, <2>5 DEF SendingOK, Sound, start_listener, stored, door
<1>5. TasksOK' /\ HubOK' /\ HistoryOK' /\ UNCHANGED stored
  BY DEF start_listener, Parts, TasksOK, HubOK, HistoryOK, stored, door, hub, history
<1> QED
  BY <1>1, <1>4, <1>5, SameRows

LEMMA NothingOK == Sound(Nothing)' /\ NoDelivery \in Delivery /\ NoDelivery.message = Nothing
<1>1. Sound(Nothing)'
  BY DEF Sound, Nothing, Message
<1>2. Nothing \in Message
  BY DEF Nothing, Message
<1> QED
  BY <1>1, <1>2 DEF NoDelivery, Delivery

LEMMA BroadcastTypes ==
    ASSUME Parts, NEW failed \in SUBSET Sockets, broadcast_local(failed) PROVE Parts'
<1>0. UNCHANGED stored /\ UNCHANGED wire
  BY DEF broadcast_local
<1>1. WireOK'
  BY <1>0, WireStays
<1>2. SendingOK'
  BY NothingOK DEF broadcast_local, SendingOK, Sound, stored, door
<1>3. HubOK'
  BY DEF broadcast_local, Parts, HubOK
<1>4. PICK m : m = sending.message
  OBVIOUS
<1>5. Sound(m) /\ m \in Message
  BY <1>4 DEF Parts, SendingOK, Sound
<1>6. faults' \in 0..MaxFaults
  BY HubConstants DEF broadcast_local, Fault, Parts, HistoryOK
<1>7. TasksOK' /\ lost' \in BOOLEAN /\ cut' \subseteq revoked' /\ slipped' \subseteq Sockets
  <2>0. tasks' = tasks => TasksOK'
    BY <1>0 DEF Parts, TasksOK, stored, door
  <2>1. CASE Schedules("resync", None) /\ UNCHANGED <<lost, cut, slipped>>
    BY <1>0, <2>1, ScheduleOK DEF Parts, HistoryOK, stored, door
  <2>2. CASE lost' = (lost \/ Deaf # {}) /\ UNCHANGED <<tasks, cut, slipped>>
    BY <1>0, <2>0, <2>2 DEF Parts, HistoryOK, stored, door
  <2>3. CASE /\ m.event = "revoked" /\ \E d \in m.about : Schedules("close", d)
             /\ UNCHANGED <<lost, cut, slipped>>
    <3>1. PICK d \in m.about : Schedules("close", d)
      BY <2>3
    <3>2. d \in revoked /\ d \in Devices
      BY <1>5, <2>3, <3>1 DEF Sound, Parts, RowsOK
    <3> QED
      BY <1>0, <2>3, <3>1, <3>2, ScheduleOK DEF Parts, HistoryOK, stored, door
  <2>4. CASE m.event = "revoked" /\ Cuts(m.about) /\ UNCHANGED <<tasks, lost>>
    <3>1. m.about \subseteq revoked
      BY <1>5, <2>4 DEF Sound
    <3> QED
      BY <1>0, <2>0, <2>4, <3>1, CutsOK DEF Parts, HistoryOK
  <2>5. CASE UNCHANGED <<tasks, lost, cut, slipped>>
    BY <1>0, <2>0, <2>5 DEF Parts, HistoryOK, stored, door
  <2> QED
    BY <1>4, <2>1, <2>2, <2>3, <2>4, <2>5 DEF broadcast_local
<1>8. HistoryOK'
  BY <1>6, <1>7 DEF broadcast_local, Parts, HistoryOK
<1> QED
  BY <1>0, <1>1, <1>2, <1>3, <1>7, <1>8, SameRows

LEMMA GapTypes == ASSUME Parts, ListenerGap PROVE Parts'
<1>1. WireOK' /\ UNCHANGED stored
  BY DEF ListenerGap, WireOK, stored, door
<1>2. SendingOK' /\ TasksOK' /\ HubOK'
  BY DEF ListenerGap, Parts, SendingOK, TasksOK, HubOK, Sound, stored, door, hub
<1>3. faults' \in 0..MaxFaults
  BY HubConstants DEF ListenerGap, Fault, Parts, HistoryOK
<1>4. HistoryOK'
  BY <1>3 DEF ListenerGap, Parts, HistoryOK, stored, door
<1> QED
  BY <1>1, <1>2, <1>4, SameRows

\* A task that goes on keeps its kind and device.
LEMMA OneTask ==
    ASSUME Parts, NEW t \in Tasks, NEW k \in Task,
           k.kind = "none" \/ (k.kind = tasks[t].kind /\ k.device = tasks[t].device),
           tasks' = [tasks EXCEPT ![t] = k], UNCHANGED stored
    PROVE  TasksOK'
BY DEF Parts, TasksOK, stored, door

LEMMA TaskEnds ==
    ASSUME Parts, NEW t \in Tasks, tasks' = [tasks EXCEPT ![t] = NoTask], UNCHANGED stored
    PROVE  TasksOK'
<1>1. NoTask \in Task /\ NoTask.kind = "none"
  BY DEF NoTask, Task
<1> QED
  BY <1>1 DEF Parts, TasksOK, stored, door

LEMMA TaskTypes == ASSUME Parts, NEW t \in Tasks, TaskStep(t) PROVE Parts'
<1>0. tasks \in [Tasks -> Task] /\ HubOK /\ HistoryOK /\ members \subseteq Spaces
  BY DEF Parts, TasksOK, RowsOK, live
<1>a. tasks[t] \in Task /\ NoTask \in Task /\ NoTask.kind = "none"
  BY <1>0 DEF NoTask, Task
<1>1. CASE resync_user_channels(t)
  <2>1. PICK k : k = [tasks[t] EXCEPT !.stage = "reading", !.todo = On("user")]
    OBVIOUS
  <2>2. k \in Task /\ k.kind = tasks[t].kind /\ k.device = tasks[t].device
    BY <1>a, <2>1 DEF Task, On
  <2>3. TasksOK'
    <3>1. tasks' = [tasks EXCEPT ![t] = NoTask] \/ tasks' = [tasks EXCEPT ![t] = k]
      BY <1>1, <2>1 DEF resync_user_channels
    <3>2. UNCHANGED stored
      BY <1>1 DEF resync_user_channels
    <3> QED
      BY <2>2, <3>1, <3>2, OneTask, TaskEnds
  <2>4. HubOK' /\ HistoryOK' /\ UNCHANGED <<stored, wire, sending>>
    BY <1>0, <1>1 DEF resync_user_channels, HubOK, HistoryOK, hub, stored, door
  <2> QED
    BY <2>3, <2>4, SameRows, WireStays, SendingStays
<1>2. CASE ResyncReads(t)
  <2>1. PICK k : k = [tasks[t] EXCEPT !.stage = "binding", !.spaces = members]
    OBVIOUS
  <2>2. k \in Task /\ k.kind = tasks[t].kind /\ k.device = tasks[t].device
    BY <1>0, <1>a, <2>1 DEF Task
  <2>3. TasksOK'
    BY <1>2, <2>1, <2>2, OneTask DEF ResyncReads
  <2>4. HubOK' /\ HistoryOK' /\ UNCHANGED <<stored, wire, sending>>
    BY <1>0, <1>2 DEF ResyncReads, HubOK, HistoryOK, hub, stored, door, history
  <2> QED
    BY <2>3, <2>4, SameRows, WireStays, SendingStays
<1>3. CASE ResyncFails(t)
  <2>1. TasksOK'
    <3>1. tasks' = [tasks EXCEPT ![t] = NoTask] /\ UNCHANGED stored
      BY <1>3 DEF ResyncFails
    <3> QED
      BY <3>1, TaskEnds
  <2>2. faults' \in 0..MaxFaults
    BY <1>0, <1>3, HubConstants DEF ResyncFails, Fault, HistoryOK
  <2>3. HubOK' /\ HistoryOK' /\ UNCHANGED <<stored, wire, sending>>
    BY <1>0, <1>3, <2>2 DEF ResyncFails, HubOK, HistoryOK, hub, stored, door
  <2> QED
    BY <2>1, <2>3, SameRows, WireStays, SendingStays
<1>4. CASE close_device_sockets(t)
  <2>1. TasksOK' /\ UNCHANGED stored
    <3>1. tasks' = [tasks EXCEPT ![t] = NoTask] /\ UNCHANGED stored
      BY <1>4 DEF close_device_sockets
    <3> QED
      BY <3>1, TaskEnds
  <2>2. {tasks[t].device} \subseteq revoked
    BY <1>4 DEF close_device_sockets, Runs, Parts, TasksOK
  <2>3. cut' \subseteq revoked' /\ slipped' \subseteq Sockets
    BY <1>4, <2>1, <2>2, CutsOK DEF close_device_sockets
  <2>4. UNCHANGED <<wire, sending, phase, device, seen, bound, slots, faults, lost, overtaken, orphans>>
        /\ shut' = shut \cup {s \in On("user") : device[s] = tasks[t].device}
    BY <1>4 DEF close_device_sockets
  <2>5. HubOK'
    BY <1>0, <2>4 DEF HubOK, On
  <2>6. HistoryOK'
    BY <1>0, <2>3, <2>4 DEF HistoryOK
  <2> QED
    BY <2>1, <2>4, <2>5, <2>6, SameRows, WireStays, SendingStays
<1>5. ASSUME NEW s \in Sockets, ResyncBinds(t, s) PROVE Parts'
  <2>1. PICK k : k = [tasks[t] EXCEPT !.todo = @ \ {s}]
    OBVIOUS
  <2>2. k \in Task /\ k.kind = tasks[t].kind /\ k.device = tasks[t].device
    BY <1>a, <2>1 DEF Task
  <2>3. TasksOK'
    <3>0. tasks[t].todo \ {s} = k.todo /\ k = [tasks[t] EXCEPT !.todo = tasks[t].todo \ {s}]
      BY <1>a, <2>1 DEF Task
    <3>1. tasks' = [tasks EXCEPT ![t] = NoTask] \/ tasks' = [tasks EXCEPT ![t] = k]
      <4>1. tasks' = [tasks EXCEPT ![t] = IF tasks[t].todo = {s} THEN NoTask
                                          ELSE [tasks[t] EXCEPT !.todo = tasks[t].todo \ {s}]]
        BY <1>5 DEF ResyncBinds
      <4> QED
        BY <3>0, <4>1
    <3>2. UNCHANGED stored
      BY <1>5 DEF ResyncBinds
    <3> QED
      BY <2>2, <3>1, <3>2, OneTask, TaskEnds
  <2>4. tasks[t].spaces \in SUBSET Spaces
    BY <1>a DEF Task
  <2>5. bound' \in [Sockets -> SUBSET Channels] /\ overtaken' \in BOOLEAN
    BY <1>0, <1>5, <2>4, RebindOK DEF ResyncBinds
  <2>6. HubOK' /\ HistoryOK' /\ UNCHANGED <<stored, wire, sending>>
    BY <1>0, <1>5, <2>5 DEF ResyncBinds, HubOK, HistoryOK, stored, door
  <2> QED
    BY <2>3, <2>6, SameRows, WireStays, SendingStays
<1> QED
  BY <1>1, <1>2, <1>3, <1>4, <1>5 DEF TaskStep

LEMMA StepParts == ASSUME Parts, [Next]_vars PROVE Parts'
<1>1. CASE UNCHANGED vars
  <2>1. HubOK' /\ HistoryOK' /\ UNCHANGED <<stored, bus>>
    BY <1>1 DEF vars, Parts, HubOK, HistoryOK, hub, history, stored, door
  <2> QED
    BY <2>1, LocalTypes
<1> QED
  BY <1>1, RoutersTypes, EndpointTypes, DeliverTypes, BroadcastTypes, GapTypes, TaskTypes, LapseTypes
  DEF Next, Listener

(* realtime.py: the hub's tables, the bus and the listener's tasks keep    *)
(* their types, and a revocation is only ever told of a revoked device.    *)
THEOREM HubTypes == Spec => []TypeOK
BY InitParts, StepParts, PartsTypes, PTL DEF Spec

(***************************************************************************)
(* Slots, and who has been cut off                                         *)
(***************************************************************************)
Serving == {"serving", "resolved", "open", "rereading", "ending"}

SlotInv ==
    \A s \in Sockets :
        /\ phase[s] \in Serving => s \in slots
        /\ bound[s] # {} =>
             /\ "user" \in bound[s]
             /\ \/ phase[s] \in {"open", "rereading"}
                \/ s \in orphans /\ phase[s] \in {"ending", "done"}

CutInv ==
    \A s \in Sockets : device[s] \in cut =>
        /\ InHandshake(s) => s \in slipped
        /\ bound[s] # {} => s \in shut \/ s \in slipped

\* A step after which a socket is bound only if it was.
Shrinks ==
    \A s \in Sockets : bound'[s] # {} => bound[s] # {} /\ "user" \in bound'[s]

\* Steps that move no endpoint.
LEMMA StillSlots ==
    ASSUME SlotInv, UNCHANGED <<phase, slots>>, orphans \subseteq orphans', Shrinks
    PROVE  SlotInv'
BY DEF SlotInv, Shrinks

LEMMA StillCut ==
    ASSUME CutInv, UNCHANGED <<phase, device, cut>>, slipped \subseteq slipped', shut \subseteq shut', Shrinks
    PROVE  CutInv'
BY DEF CutInv, Shrinks, InHandshake

LEMMA RebindShrinks ==
    ASSUME Parts, SlotInv, NEW s \in Sockets, NEW spaces \in SUBSET Spaces, rebind(s, spaces)
    PROVE  Shrinks
<1>1. \A q \in Sockets : bound[q] # {} => "user" \in bound[q]
  BY DEF SlotInv
<1>2. CASE bound[s] = {}
  BY <1>1, <1>2 DEF rebind, Shrinks
<1>3. CASE bound[s] # {}
  BY <1>1, <1>3 DEF rebind, bind_locked, Wanted, Always, Shrinks, Parts, HubOK
<1> QED
  BY <1>2, <1>3

LEMMA SameShrinks == ASSUME SlotInv, UNCHANGED bound PROVE Shrinks
BY DEF SlotInv, Shrinks

LEMMA EndpointSlots ==
    ASSUME Parts, SlotInv, CutInv, NEW s \in Sockets, Endpoint(s) \/ (\E d \in Devices : authenticate(s, d))
    PROVE  SlotInv' /\ CutInv'
<1>0. HubOK /\ HistoryOK /\ \A q \in Sockets : phase[q] \notin {"open", "rereading", "ending", "done"} => bound[q] = {}
  BY DEF Parts, SlotInv
<1>1. ASSUME NEW d \in Devices, authenticate(s, d) PROVE SlotInv' /\ CutInv'
  <2>1. phase[s] = "new" /\ bound[s] = {}
    BY <1>0, <1>1 DEF authenticate, First
  <2>2. phase' = [phase EXCEPT ![s] = "checked"] /\ device' = [device EXCEPT ![s] = d]
        /\ UNCHANGED <<bound, slots, shut, cut, orphans>>
    BY <1>1 DEF authenticate, Become
  <2>3. SlotInv'
    BY <1>0, <2>1, <2>2 DEF SlotInv, HubOK, Serving
  <2>4. slipped \subseteq slipped' /\ (d \in cut => s \in slipped')
    BY <1>1 DEF authenticate
  <2>5. CutInv'
    BY <1>0, <2>1, <2>2, <2>4 DEF CutInv, HubOK, InHandshake
  <2> QED
    BY <2>3, <2>5
<1>2. CASE reserve_slot(s) /\ Cardinality(slots) < MaxSockets
  BY <1>0, <1>2 DEF reserve_slot, Become, SlotInv, CutInv, HubOK, InHandshake, Serving
\* An endpoint that returns, unless it is an orphan's, leaves nothing behind.
<1>a. ASSUME Returns(s), phase[s] \in {"checked", "ending"}, slots' \in {slots, slots \ {s}},
             UNCHANGED <<bound, cut, orphans>>
      PROVE  SlotInv' /\ CutInv'
  <2>1. CASE bound[s] # {} \/ device[s] \notin cut
    BY <1>0, <1>a, <2>1 DEF Returns, Become, SlotInv, CutInv, HubOK, InHandshake, Serving
  <2>2. CASE ~(bound[s] # {} \/ device[s] \notin cut)
    <3>1. /\ phase' = [phase EXCEPT ![s] = "new"] /\ shut' = shut \ {s} /\ slipped' = slipped \ {s}
          /\ bound'[s] = {} /\ \A q \in Sockets \ {s} : device'[q] = device[q]
      BY <1>0, <1>a, <2>2 DEF Returns, Become, HubOK
    <3> QED
      BY <1>0, <1>a, <3>1 DEF SlotInv, CutInv, HubOK, InHandshake, Serving
  <2> QED
    BY <2>1, <2>2
<1>3. CASE resolve_channels(s)
  BY <1>0, <1>3 DEF resolve_channels, Become, SlotInv, CutInv, HubOK, InHandshake, history, Serving
<1>4. CASE ServeFails(s)
  BY <1>0, <1>4 DEF ServeFails, Become, SlotInv, CutInv, HubOK, InHandshake, history, Serving
<1>5. CASE register(s)
  <2>1. /\ phase[s] = "resolved" /\ s \in slots
        /\ bound' = [bound EXCEPT ![s] = Wanted(seen[s])] /\ "user" \in Wanted(seen[s])
        /\ shut \subseteq shut' /\ orphans \subseteq orphans' /\ UNCHANGED <<device, slots, cut, slipped>>
        /\ \/ phase' = [phase EXCEPT ![s] = "open"]
           \/ phase' = [phase EXCEPT ![s] = "ending"] /\ s \in orphans'
    BY <1>5 DEF register, bind_locked, Become, SlotInv, Wanted, Always, Serving
  <2>2. SlotInv'
    BY <1>0, <2>1 DEF SlotInv, HubOK, Serving
  <2>3. CutInv'
    BY <1>0, <2>1 DEF CutInv, HubOK, InHandshake
  <2> QED
    BY <2>2, <2>3
<1>6. CASE resubscribe(s)
  <2>1. Shrinks
    BY <1>0, <1>6, RebindShrinks DEF resubscribe, HubOK
  <2>2. /\ phase[s] = "rereading" /\ phase' = [phase EXCEPT ![s] = "open"]
        /\ UNCHANGED <<device, slots, shut, cut, slipped, orphans>>
    BY <1>6 DEF resubscribe, Become
  <2> QED
    BY <1>0, <2>1, <2>2 DEF SlotInv, CutInv, HubOK, InHandshake, Shrinks, Serving
<1>7. CASE unregister(s)
  BY <1>0, <1>7 DEF unregister, Become, SlotInv, CutInv, HubOK, InHandshake, history, Serving
<1>8. CASE release_slot(s) \/ (reserve_slot(s) /\ ~(Cardinality(slots) < MaxSockets))
  BY <1>a, <1>8 DEF release_slot, reserve_slot
<1>9. CASE Closes(s)
  BY <1>0, <1>9 DEF Closes, SlotInv, CutInv, InHandshake, history
<1>10. CASE ResubscribeFails(s)
  BY <1>0, <1>10 DEF ResubscribeFails, Become, SlotInv, CutInv, HubOK, InHandshake, history, Serving
<1> QED
  BY <1>1, <1>2, <1>3, <1>4, <1>5, <1>6, <1>7, <1>8, <1>9, <1>10 DEF Endpoint

LEMMA BroadcastSlots ==
    ASSUME Parts, SlotInv, CutInv, NEW failed \in SUBSET Sockets, broadcast_local(failed)
    PROVE  SlotInv' /\ CutInv'
<1>1. /\ bound' = [s \in Sockets |-> IF s \in failed THEN {} ELSE bound[s]]
      /\ shut \subseteq shut' /\ UNCHANGED <<phase, device, slots, orphans>>
  BY DEF broadcast_local
<1>2. Shrinks
  BY <1>1 DEF Shrinks, SlotInv
<1>3. SlotInv'
  BY <1>1, <1>2, StillSlots
<1>4. CASE UNCHANGED <<cut, slipped>>
  BY <1>1, <1>2, <1>3, <1>4, StillCut
<1>5. CASE ~UNCHANGED <<cut, slipped>>
  <2>1. Cuts(sending.message.about) /\ \A s \in Sockets : bound'[s] = {}
    BY <1>1, <1>5 DEF broadcast_local
  <2> QED
    BY <1>1, <1>3, <2>1 DEF CutInv, Cuts, InHandshake
<1> QED
  BY <1>4, <1>5

LEMMA TaskSlots ==
    ASSUME Parts, SlotInv, CutInv, NEW t \in Tasks, TaskStep(t)
    PROVE  SlotInv' /\ CutInv'
<1>1. CASE resync_user_channels(t) \/ ResyncReads(t) \/ ResyncFails(t)
  <2>1. UNCHANGED <<phase, device, bound, slots, shut, cut, slipped, orphans>>
    BY <1>1 DEF resync_user_channels, ResyncReads, ResyncFails, hub, history
  <2> QED
    BY <2>1, SameShrinks, StillSlots, StillCut
<1>2. CASE close_device_sockets(t)
  <2>1. /\ shut' = shut \cup {s \in On("user") : device[s] = tasks[t].device}
        /\ Cuts({tasks[t].device}) /\ UNCHANGED <<phase, device, bound, slots, orphans>>
    BY <1>2 DEF close_device_sockets
  <2>2. SlotInv'
    BY <2>1, SameShrinks, StillSlots
  <2>3. ASSUME NEW s \in Sockets, device[s] = tasks[t].device, bound[s] # {} PROVE s \in shut'
    BY <2>1, <2>3 DEF On, SlotInv
  <2>4. CutInv'
    BY <2>1, <2>3 DEF CutInv, Cuts, InHandshake
  <2> QED
    BY <2>2, <2>4
<1>3. ASSUME NEW s \in Sockets, ResyncBinds(t, s) PROVE SlotInv' /\ CutInv'
  <2>1. tasks[t].spaces \in SUBSET Spaces
    BY DEF Parts, TasksOK, Task
  <2>2. Shrinks
    BY <1>3, <2>1, RebindShrinks DEF ResyncBinds
  <2>3. UNCHANGED <<phase, device, slots, shut, cut, slipped, orphans>>
    BY <1>3 DEF ResyncBinds
  <2> QED
    BY <2>2, <2>3, StillSlots, StillCut
<1> QED
  BY <1>1, <1>2, <1>3 DEF TaskStep

LEMMA StepSlots == ASSUME Parts, SlotInv, CutInv, [Next]_vars PROVE SlotInv' /\ CutInv'
<1>1. CASE UNCHANGED vars \/ Routers \/ start_listener \/ ListenerGap \/ \E d \in Devices : Lapse(d)
  <2>1. UNCHANGED <<phase, device, bound, slots, shut, cut, slipped, orphans>>
    BY <1>1 DEF vars, hub, history, Routers, create_space, join_space, remove_member, delete_space,
                revoke_device, publish_sync_entry, Publishes, start_listener, ListenerGap, Lapse
  <2> QED
    BY <2>1, SameShrinks, StillSlots, StillCut
<1> QED
  BY <1>1, EndpointSlots, BroadcastSlots, TaskSlots DEF Next, Listener

LEMMA InitSlots == Init => SlotInv /\ CutInv
BY DEF Init, SlotInv, CutInv, InHandshake, Serving

LEMMA SpecSlots == Spec => [](Parts /\ SlotInv /\ CutInv)
BY InitParts, StepParts, InitSlots, StepSlots, PTL DEF Spec

(* realtime.py:398-442, 816-896: whatever is bound holds a slot, however   *)
(* the resyncs, drops and closings of a socket overlap, unless its first   *)
(* presence write failed.                                                  *)
THEOREM SpecNoGhosts == Spec => []NoGhosts
<1>1. SlotInv => NoGhosts
  BY DEF SlotInv, NoGhosts, Serving
<1> QED
  BY <1>1, SpecSlots, PTL

(* realtime.py:353-370: once a revocation has been acted on, a socket of   *)
(* the device that is in the hub has a closed transport, was in its        *)
(* handshake at that moment, or was let in later by an answer Redis kept.  *)
THEOREM SpecCutOff == Spec => []CutOff
<1>1. CutInv => CutOff
  BY DEF CutInv, CutOff
<1> QED
  BY <1>1, SpecSlots, PTL

(***************************************************************************)
(* Sockets follow their user's memberships                                 *)
(***************************************************************************)

\* A change nobody has read the memberships for yet.
Coming ==
    \/ \E i \in 1..Len(wire) : wire[i].event = "membership"
    \/ sending.message.event = "membership"
    \/ \E t \in Tasks : Runs(t, "resync", "start")

\* A resync that will put a socket right.
Rights(t, s) ==
    \/ Runs(t, "resync", "reading") /\ s \in tasks[t].todo
    \/ Runs(t, "resync", "binding") /\ s \in tasks[t].todo /\ Right(tasks[t].spaces)

FollowInv ==
    ~Missed => \A s \in Sockets :
        /\ bound[s] # {} => Right(bound[s] \ Always) \/ Coming \/ \E t \in Tasks : Rights(t, s)
        /\ phase[s] = "resolved" => Right(seen[s]) \/ Coming

LEMMA PendingSplit == \A s \in Sockets : Pending(s) <=> Coming \/ \E t \in Tasks : Rights(t, s)
BY DEF Pending, Coming, Rights

\* Once a change is on its way everything else may wait.
LEMMA ComingFollows == Coming' => FollowInv'
BY DEF FollowInv

LEMMA MissedFollows == Missed' => FollowInv'
BY DEF FollowInv

LEMMA WantedRight == ASSUME NEW x \in SUBSET Spaces PROVE Wanted(x) \ Always = x
BY HubConstants DEF Wanted, Always

\* A step that binds nothing new, reads nothing, and forgets nothing that is due.
LEMMA CalmFollows ==
    ASSUME FollowInv, Missed => Missed', \A x : Right(x) => Right(x)', Coming => Coming',
           \A s \in Sockets : bound'[s] # {} =>
               bound'[s] = bound[s] /\ \A t \in Tasks : Rights(t, s) => Coming' \/ Rights(t, s)',
           \A s \in Sockets : phase'[s] = "resolved" => phase[s] = "resolved" /\ seen'[s] = seen[s]
    PROVE  FollowInv'
<1> SUFFICES ASSUME ~Missed', ~Coming', NEW s \in Sockets
             PROVE  /\ bound'[s] # {} => Right(bound[s] \ Always)' \/ \E t \in Tasks : Rights(t, s)'
                    /\ phase'[s] = "resolved" => Right(seen[s])'
  BY DEF FollowInv
<1>1. ~Missed /\ ~Coming
  OBVIOUS
<1>2. ASSUME bound'[s] # {} PROVE Right(bound[s] \ Always)' \/ \E t \in Tasks : Rights(t, s)'
  <2>1. bound'[s] = bound[s] /\ (Right(bound[s] \ Always) \/ \E t \in Tasks : Rights(t, s))
    BY <1>1, <1>2 DEF FollowInv
  <2>2. CASE Right(bound[s] \ Always)
    <3>1. PICK x : x = bound[s] \ Always
      OBVIOUS
    <3>2. Right(x)' /\ bound'[s] \ Always = x
      BY <2>1, <2>2, <3>1 DEF Right, live
    <3> QED
      BY <3>2 DEF Right, live
  <2> QED
    BY <1>2, <2>1, <2>2
<1>3. ASSUME phase'[s] = "resolved" PROVE Right(seen[s])'
  <2>1. phase[s] = "resolved" /\ seen'[s] = seen[s] /\ Right(seen[s])
    BY <1>1, <1>3 DEF FollowInv
  <2>2. PICK x : x = seen[s]
    OBVIOUS
  <2>3. Right(x)' /\ seen'[s] = x
    BY <2>1, <2>2 DEF Right, live
  <2> QED
    BY <2>3 DEF Right, live
<1> QED
  BY <1>2, <1>3

LEMMA RightStays == ASSUME UNCHANGED <<members, space>> PROVE \A x : Right(x) <=> Right(x)'
BY DEF Right, live

\* Tasks and memberships that stay keep what they are due to do.
LEMMA RightsStay ==
    ASSUME UNCHANGED <<members, space, tasks>>
    PROVE  \A s \in Sockets, t \in Tasks : Rights(t, s) => Rights(t, s)'
BY DEF Rights, Runs, Right, live

\* What stays on the bus stays due.
LEMMA ComingStays == ASSUME UNCHANGED <<wire, sending, tasks>> PROVE Coming <=> Coming'
BY DEF Coming, Runs

LEMMA WireComing ==
    ASSUME Parts, NEW m \in Message, wire' = Append(wire, m), UNCHANGED <<sending, tasks>>
    PROVE  (Coming \/ m.event = "membership") => Coming'
<1>1. /\ Len(wire') = Len(wire) + 1 /\ Len(wire) \in Nat
      /\ \A i \in 1..Len(wire) : wire'[i] = wire[i]
      /\ wire'[Len(wire) + 1] = m
  BY AppendOK DEF Parts, WireOK
<1>2. ASSUME NEW i \in 1..Len(wire), wire[i].event = "membership" PROVE Coming'
  BY <1>1, <1>2 DEF Coming
<1>3. ASSUME m.event = "membership" PROVE Coming'
  BY <1>1, <1>3 DEF Coming
<1>4. ASSUME sending.message.event = "membership" \/ \E t \in Tasks : Runs(t, "resync", "start") PROVE Coming'
  BY <1>4 DEF Coming, Runs
<1> QED
  BY <1>2, <1>3, <1>4 DEF Coming

LEMMA RoutersFollow == ASSUME Parts, FollowInv, Routers PROVE FollowInv'
<1>1. ASSUME NEW c \in Spaces, create_space(c) \/ join_space(c) \/ remove_member(c) PROVE FollowInv'
  <2>1. Publishes("user", "membership", {c})
    BY <1>1 DEF create_space, join_space, remove_member
  <2>2. CASE lost'
    BY <2>2, MissedFollows DEF Missed
  <2>3. CASE wire' = Append(wire, [on |-> "user", event |-> "membership", about |-> {c}])
    <3>1. PICK m : m = [on |-> "user", event |-> "membership", about |-> {c}]
      OBVIOUS
    <3>2. m \in Message /\ m.event = "membership"
      BY <3>1 DEF Message
    <3>3. wire' = Append(wire, m) /\ UNCHANGED <<sending, tasks>>
      BY <2>1, <2>3, <3>1 DEF Publishes
    <3> QED
      BY <3>2, <3>3, WireComing, ComingFollows
  <2> QED
    BY <2>1, <2>2, <2>3 DEF Publishes
<1>2. ASSUME NEW c \in Spaces, delete_space(c) PROVE FollowInv'
  <2>1. /\ space' = [space EXCEPT ![c] = "deleted"] /\ members' = members \ {c}
        /\ UNCHANGED <<wire, sending, tasks, phase, seen, bound, lost, overtaken>>
    BY <1>2 DEF delete_space, bus, hub, history
  <2>2. live' = live \ {c}
    BY <2>1 DEF live, Parts, RowsOK
  <2>3. \A x : Right(x) => Right(x)'
    BY <2>1, <2>2 DEF Right
  <2>4. \A s \in Sockets, t \in Tasks : Rights(t, s) => Rights(t, s)'
    BY <2>1, <2>2 DEF Rights, Runs, Right
  <2>5. Coming <=> Coming'
    BY <2>1, ComingStays
  <2> QED
    BY <2>1, <2>3, <2>4, <2>5, CalmFollows DEF Missed
<1>3. ASSUME NEW on \in {"user"} \cup Spaces, NEW event \in {"revoked", "entry"},
             NEW about \in SUBSET (Spaces \cup Elsewhere \cup Devices),
             Publishes(on, event, about), UNCHANGED <<members, space>>
      PROVE  FollowInv'
  <2>1. UNCHANGED <<sending, tasks, phase, seen, bound, overtaken>>
    BY <1>3 DEF Publishes, hub
  <2>2. CASE lost'
    BY <2>2, MissedFollows DEF Missed
  <2>3. CASE ~lost' /\ wire' = Append(wire, [on |-> on, event |-> event, about |-> about])
    <3>1. [on |-> on, event |-> event, about |-> about] \in Message
      BY DEF Message
    <3>2. Coming => Coming'
      BY <2>1, <2>3, <3>1, WireComing
    <3>3. lost => lost'
      BY <1>3 DEF Publishes
    <3> QED
      BY <1>3, <2>1, <3>2, <3>3, RightStays, RightsStay, CalmFollows DEF Missed
  <2> QED
    BY <1>3, <2>2, <2>3 DEF Publishes
<1>4. ASSUME NEW d \in Devices, revoke_device(d) PROVE FollowInv'
  <2>1. {d} \in SUBSET (Spaces \cup Elsewhere \cup Devices) /\ "user" \in {"user"} \cup Spaces
    OBVIOUS
  <2>2. Publishes("user", "revoked", {d}) /\ UNCHANGED <<members, space>>
    BY <1>4 DEF revoke_device
  <2> QED
    BY <1>3, <2>1, <2>2
<1>5. ASSUME NEW c \in live, publish_sync_entry(c, live \cup Elsewhere) PROVE FollowInv'
  <2>1. live \cup Elsewhere \in SUBSET (Spaces \cup Elsewhere \cup Devices) /\ c \in {"user"} \cup Spaces
    BY DEF live
  <2>2. Publishes(c, "entry", live \cup Elsewhere) /\ UNCHANGED <<members, space>>
    BY <1>5 DEF publish_sync_entry
  <2>3. PICK about : about = live \cup Elsewhere
    OBVIOUS
  <2> QED
    BY <1>3, <2>1, <2>2, <2>3
<1> QED
  BY <1>1, <1>2, <1>4, <1>5 DEF Routers

\* Nothing but endpoints moves: memberships, bus and tasks stay.
LEMMA EndpointFollows ==
    ASSUME Parts, SlotInv, FollowInv, NEW s \in Sockets, Endpoint(s) \/ (\E d \in Devices : authenticate(s, d))
    PROVE  FollowInv'
<1>0. HubOK
  BY DEF Parts
<1>1. UNCHANGED <<members, space, wire, sending, tasks, lost>>
  BY DEF Endpoint, authenticate, reserve_slot, resolve_channels, ServeFails, register, resubscribe,
         ResubscribeFails, unregister, release_slot, Closes, stored, door, bus, history
<1>2. (\A x : Right(x) <=> Right(x)') /\ (Coming <=> Coming')
      /\ \A q \in Sockets, t \in Tasks : Rights(t, q) => Rights(t, q)'
  BY <1>1, RightStays, RightsStay, ComingStays
\* Another socket bound, or this one unbound.
<1>3. ASSUME \A q \in Sockets : bound'[q] # {} => bound'[q] = bound[q], overtaken => overtaken',
             \A q \in Sockets : phase'[q] = "resolved" => phase[q] = "resolved" /\ seen'[q] = seen[q]
      PROVE  FollowInv'
  BY <1>1, <1>2, <1>3, CalmFollows DEF Missed
<1>4. CASE \/ \E d \in Devices : authenticate(s, d)
           \/ reserve_slot(s) \/ ServeFails(s) \/ ResubscribeFails(s) \/ unregister(s)
           \/ release_slot(s) \/ Closes(s)
  <2>1. /\ \A q \in Sockets : bound'[q] # {} => bound'[q] = bound[q]
        /\ overtaken' = overtaken /\ seen' = seen
    BY <1>0, <1>4 DEF authenticate, reserve_slot, ServeFails, ResubscribeFails, unregister, release_slot, Closes,
                        history, HubOK
  <2>2. \A q \in Sockets : phase'[q] = "resolved" => phase[q] = "resolved"
    BY <1>0, <1>4 DEF authenticate, reserve_slot, ServeFails, ResubscribeFails, unregister, release_slot, Closes,
                        Returns, Become, HubOK
  <2> QED
    BY <1>3, <2>1, <2>2
<1>5. CASE resolve_channels(s)
  <2>1. Right(members)
    BY DEF Right, Parts, RowsOK
  <2>2. UNCHANGED <<bound, overtaken>> /\ seen' = [seen EXCEPT ![s] = members]
        /\ \A q \in Sockets \ {s} : phase'[q] = phase[q]
    BY <1>0, <1>5 DEF resolve_channels, Become, history, HubOK
  <2>3. seen'[s] = members /\ \A q \in Sockets \ {s} : seen'[q] = seen[q]
    BY <1>0, <2>2 DEF HubOK
  <2> SUFFICES ASSUME ~Missed', ~Coming', NEW q \in Sockets
               PROVE  /\ bound'[q] # {} => Right(bound[q] \ Always)' \/ \E t \in Tasks : Rights(t, q)'
                      /\ phase'[q] = "resolved" => Right(seen[q])'
    BY DEF FollowInv
  <2>4. ~Missed /\ ~Coming
    BY <1>1, <1>2, <2>2 DEF Missed
  <2>5. bound'[q] # {} => Right(bound[q] \ Always)' \/ \E t \in Tasks : Rights(t, q)'
    BY <1>1, <1>2, <2>2, <2>4 DEF FollowInv, Right, live
  <2>6. phase'[q] = "resolved" => Right(seen[q])'
    BY <1>1, <2>1, <2>2, <2>3, <2>4 DEF FollowInv, Right, live
  <2> QED
    BY <2>5, <2>6
<1>6. CASE register(s)
  <2>1. /\ phase[s] = "resolved" /\ bound' = [bound EXCEPT ![s] = Wanted(seen[s])]
        /\ overtaken => overtaken' /\ seen[s] \in SUBSET Spaces
    BY <1>0, <1>6 DEF register, bind_locked, HubOK
  <2>2. \A q \in Sockets : phase'[q] = "resolved" => phase[q] = "resolved" /\ seen'[q] = seen[q]
    BY <1>0, <1>6 DEF register, Become, HubOK
  <2> SUFFICES ASSUME ~Missed', ~Coming', NEW q \in Sockets
               PROVE  /\ bound'[q] # {} => Right(bound[q] \ Always)' \/ \E t \in Tasks : Rights(t, q)'
                      /\ phase'[q] = "resolved" => Right(seen[q])'
    BY DEF FollowInv
  <2>3. ~Missed /\ ~Coming
    BY <1>1, <1>2, <2>1 DEF Missed
  <2>4. q = s => Right(bound[q] \ Always)'
    <3>1. Right(seen[s])
      BY <2>1, <2>3 DEF FollowInv
    <3>2. q = s => bound'[q] \ Always = seen[s]
      BY <1>0, <2>1, WantedRight DEF HubOK
    <3> QED
      BY <1>1, <3>1, <3>2 DEF Right, live
  <2>5. q # s => bound'[q] = bound[q]
    BY <1>0, <2>1 DEF HubOK
  <2>6. q # s /\ bound'[q] # {} => Right(bound[q] \ Always)' \/ \E t \in Tasks : Rights(t, q)'
    BY <1>1, <1>2, <2>3, <2>5 DEF FollowInv, Right, live
  <2>7. phase'[q] = "resolved" => Right(seen[q])'
    BY <1>1, <2>2, <2>3 DEF FollowInv, Right, live
  <2> QED
    BY <2>4, <2>6, <2>7
<1>7. CASE resubscribe(s)
  <2>1. \A q \in Sockets : phase'[q] = "resolved" => phase[q] = "resolved" /\ seen'[q] = seen[q]
    BY <1>0, <1>7 DEF resubscribe, Become, HubOK
  <2>2. CASE UNCHANGED <<bound, overtaken>>
    BY <1>3, <2>1, <2>2
  <2>3. CASE bound[s] # {} /\ bind_locked(s, seen[s])
    <3>1. bound' = [bound EXCEPT ![s] = Wanted(seen[s])] /\ (overtaken => overtaken')
          /\ (~overtaken' => ~Right(bound[s] \ Always) \/ Right(seen[s]))
      BY <2>3 DEF bind_locked
    <3>2. seen[s] \in SUBSET Spaces
      BY <1>0 DEF HubOK
    <3> SUFFICES ASSUME ~Missed', ~Coming', NEW q \in Sockets
                 PROVE  /\ bound'[q] # {} => Right(bound[q] \ Always)' \/ \E t \in Tasks : Rights(t, q)'
                        /\ phase'[q] = "resolved" => Right(seen[q])'
      BY DEF FollowInv
    <3>3. ~Missed /\ ~Coming /\ (~Right(bound[s] \ Always) \/ Right(seen[s]))
      BY <1>1, <1>2, <3>1 DEF Missed
    <3>4. q # s => bound'[q] = bound[q]
      BY <1>0, <3>1 DEF HubOK
    <3>5. q # s /\ bound'[q] # {} => Right(bound[q] \ Always)' \/ \E t \in Tasks : Rights(t, q)'
      BY <1>1, <1>2, <3>3, <3>4 DEF FollowInv, Right, live
    <3>6. q = s => Right(bound[q] \ Always)' \/ \E t \in Tasks : Rights(t, q)'
      <4>1. q = s => bound'[q] \ Always = seen[s]
        BY <1>0, <3>1, <3>2, WantedRight DEF HubOK
      <4>2. CASE Right(seen[s])
        BY <1>1, <4>1, <4>2 DEF Right, live
      <4>3. CASE ~Right(bound[s] \ Always)
        BY <1>2, <2>3, <3>3, <4>3 DEF FollowInv
      <4> QED
        BY <3>3, <4>2, <4>3
    <3>7. phase'[q] = "resolved" => Right(seen[q])'
      BY <1>1, <2>1, <3>3 DEF FollowInv, Right, live
    <3> QED
      BY <3>5, <3>6, <3>7
  <2> QED
    BY <1>7, <2>2, <2>3 DEF resubscribe, rebind
<1> QED
  BY <1>4, <1>5, <1>6, <1>7 DEF Endpoint

LEMMA DeliverFollows == ASSUME Parts, FollowInv, start_listener PROVE FollowInv'
<1>1. /\ wire \in Seq(Message) /\ wire # <<>> /\ wire' = Tail(wire) /\ sending'.message = Head(wire)
      /\ sending.message.event # "membership"
      /\ UNCHANGED <<members, space, tasks, bound, phase, seen, lost, overtaken>>
  BY DEF start_listener, Parts, WireOK, NoDelivery, Nothing, stored, door, hub, history
<1>2. Coming => Coming'
  <2>1. ASSUME NEW i \in 1..Len(wire), wire[i].event = "membership" PROVE Coming'
    <3>1. CASE i = 1
      BY <1>1, <2>1, <3>1, TailOK DEF Coming
    <3>2. CASE i # 1
      <4>1. i - 1 \in 1..Len(wire') /\ wire'[i - 1] = wire[i]
        BY <1>1, <2>1, <3>2, TailOK
      <4> QED
        BY <2>1, <4>1 DEF Coming
    <3> QED
      BY <3>1, <3>2
  <2>2. (\E t \in Tasks : Runs(t, "resync", "start")) => Coming'
    BY <1>1 DEF Coming, Runs
  <2> QED
    BY <1>1, <2>1, <2>2 DEF Coming
<1> QED
  BY <1>1, <1>2, RightStays, RightsStay, CalmFollows DEF Missed

\* A task started in a free place takes nothing from the others.
LEMMA ScheduleKeeps ==
    ASSUME Parts, NEW kind, NEW d, Schedules(kind, d), UNCHANGED <<members, space>>
    PROVE  /\ \A s \in Sockets, t \in Tasks : Rights(t, s) => Rights(t, s)'
           /\ \A t \in Tasks : Runs(t, "resync", "start") => Runs(t, "resync", "start")'
           /\ kind = "resync" => \E t \in Tasks : Runs(t, "resync", "start")'
<1>1. PICK t \in Tasks : /\ tasks[t] = NoTask
                         /\ tasks' = [tasks EXCEPT ![t] = [NoTask EXCEPT !.kind = kind, !.stage = "start", !.device = d]]
  BY DEF Schedules, First
<1>2. \A u \in Tasks : u # t => tasks'[u] = tasks[u]
  BY <1>1 DEF Parts, TasksOK
<1>3. tasks[t].kind = "none" /\ tasks'[t].kind = kind /\ tasks'[t].stage = "start"
  BY <1>1 DEF Parts, TasksOK, NoTask
<1> QED
  BY <1>2, <1>3 DEF Rights, Runs, Right, live

LEMMA BroadcastFollows ==
    ASSUME Parts, FollowInv, NEW failed \in SUBSET Sockets, broadcast_local(failed) PROVE FollowInv'
<1>1. /\ bound' = [s \in Sockets |-> IF s \in failed THEN {} ELSE bound[s]]
      /\ sending' = NoDelivery /\ UNCHANGED <<members, space, wire, phase, seen, overtaken>>
      /\ \A s \in Sockets : bound'[s] # {} => bound'[s] = bound[s]
  BY DEF broadcast_local, stored, door
<1>2. \A x : Right(x) <=> Right(x)'
  BY <1>1, RightStays
<1>3. CASE sending.message.event = "membership" /\ Schedules("resync", None)
  BY <1>1, <1>3, ScheduleKeeps, ComingFollows DEF Coming
<1>4. CASE /\ \A s \in Sockets : bound'[s] = {}
           /\ lost' = (lost \/ Deaf # {}) /\ UNCHANGED tasks
  <2>1. CASE Deaf # {}
    BY <1>4, <2>1, MissedFollows DEF Missed
  <2>2. CASE Deaf = {}
    <3>1. \A s \in Sockets : phase[s] = "resolved" => Right(seen[s])
      BY <2>2 DEF Deaf
    <3>2. \A s \in Sockets : phase'[s] = "resolved" => Right(seen[s])'
      BY <1>1, <3>1 DEF Right, live
    <3> QED
      BY <1>4, <3>2 DEF FollowInv
  <2> QED
    BY <2>1, <2>2
<1>5. CASE /\ sending.message.event # "membership" /\ UNCHANGED lost
           /\ UNCHANGED tasks \/ \E d \in sending.message.about : Schedules("close", d)
  <2>1. /\ \A s \in Sockets, t \in Tasks : Rights(t, s) => Rights(t, s)'
        /\ \A t \in Tasks : Runs(t, "resync", "start") => Runs(t, "resync", "start")'
    BY <1>1, <1>5, ScheduleKeeps, RightsStay DEF Runs
  <2>2. Coming => Coming'
    BY <1>1, <1>5, <2>1 DEF Coming
  <2> QED
    BY <1>1, <1>2, <1>5, <2>1, <2>2, CalmFollows DEF Missed
<1>6. ASSUME {s \in Sockets \ failed : bound[s] # {}} = {} PROVE \A s \in Sockets : bound'[s] = {}
  BY <1>1, <1>6
<1> QED
  BY <1>3, <1>4, <1>5, <1>6 DEF broadcast_local

LEMMA TaskFollows ==
    ASSUME Parts, SlotInv, FollowInv, NEW t \in Tasks, TaskStep(t) PROVE FollowInv'
<1>0. tasks \in [Tasks -> Task] /\ tasks[t] \in Task /\ NoTask.kind = "none" /\ HubOK
  BY DEF Parts, TasksOK, NoTask
<1>1. UNCHANGED <<members, space, wire, sending, phase, seen>> /\ \A u \in Tasks : u # t => tasks'[u] = tasks[u]
  BY <1>0 DEF TaskStep, resync_user_channels, ResyncReads, ResyncFails, close_device_sockets, ResyncBinds,
              stored, door, hub, history
<1>2. \A x : Right(x) <=> Right(x)'
  BY <1>1, RightStays
<1>3. \A s \in Sockets, u \in Tasks : u # t /\ Rights(u, s) => Rights(u, s)'
  BY <1>1 DEF Rights, Runs, Right, live
<1>4. CASE resync_user_channels(t)
  <2>1. Runs(t, "resync", "start") /\ lost' = (lost \/ Deaf # {}) /\ UNCHANGED <<bound, overtaken>>
    BY <1>4 DEF resync_user_channels, hub
  <2>2. CASE Deaf # {}
    BY <2>1, <2>2, MissedFollows DEF Missed
  <2>3. CASE Deaf = {}
    <3>1. \A s \in Sockets : phase'[s] = "resolved" => Right(seen[s])'
      BY <1>1, <2>3 DEF Deaf, Right, live
    <3>2. ASSUME NEW s \in Sockets, bound'[s] # {} PROVE Rights(t, s)'
      <4>1. s \in On("user")
        BY <2>1, <3>2 DEF On, SlotInv
      <4>2. PICK k : k = [tasks[t] EXCEPT !.stage = "reading", !.todo = On("user")]
        OBVIOUS
      <4>3. k.kind = "resync" /\ k.stage = "reading" /\ s \in k.todo
        BY <1>0, <2>1, <4>1, <4>2 DEF Runs, Task
      <4>4. tasks' = [tasks EXCEPT ![t] = k]
        BY <1>4, <4>1, <4>2 DEF resync_user_channels
      <4> QED
        BY <1>0, <4>3, <4>4 DEF Rights, Runs
    <3> QED
      BY <3>1, <3>2 DEF FollowInv
  <2> QED
    BY <2>2, <2>3
<1>5. CASE ResyncReads(t)
  <2>1. PICK k : k = [tasks[t] EXCEPT !.stage = "binding", !.spaces = members]
    OBVIOUS
  <2>2. k.kind = tasks[t].kind /\ k.stage = "binding" /\ k.todo = tasks[t].todo /\ k.spaces = members
    BY <1>0, <2>1 DEF Task
  <2>3. /\ tasks'[t] = k /\ Runs(t, "resync", "reading")
        /\ UNCHANGED <<bound, lost, overtaken>>
    BY <1>0, <1>5, <2>1 DEF ResyncReads, hub, history
  <2>4. Right(members)'
    BY <1>1 DEF Right, live, Parts, RowsOK
  <2>5. \A s \in Sockets : Rights(t, s) => Rights(t, s)'
    BY <1>1, <2>2, <2>3, <2>4 DEF Rights, Runs, Right, live
  <2>6. Coming => Coming'
    BY <1>1, <2>3 DEF Coming, Runs
  <2> QED
    BY <1>1, <1>2, <1>3, <2>3, <2>5, <2>6, CalmFollows DEF Missed
<1>6. CASE ResyncFails(t)
  BY <1>6, MissedFollows DEF ResyncFails, Missed
<1>7. CASE close_device_sockets(t)
  <2>1. Runs(t, "close", "start") /\ UNCHANGED <<bound, lost, overtaken>>
    BY <1>7 DEF close_device_sockets
  <2>2. Coming => Coming'
    BY <1>1, <2>1 DEF Coming, Runs
  <2>3. \A s \in Sockets : ~Rights(t, s)
    BY <2>1 DEF Rights, Runs
  <2> QED
    BY <1>1, <1>2, <1>3, <2>1, <2>2, <2>3, CalmFollows DEF Missed
<1>8. ASSUME NEW s \in Sockets, ResyncBinds(t, s) PROVE FollowInv'
  <2>1. /\ Runs(t, "resync", "binding") /\ rebind(s, tasks[t].spaces) /\ lost' = lost
        /\ tasks[t].spaces \in SUBSET Spaces
    BY <1>0, <1>8 DEF ResyncBinds, Task
  <2>2. Coming => Coming'
    BY <1>1, <2>1 DEF Coming, Runs
  <2>3. \A q \in Sockets : q # s /\ Rights(t, q) => Rights(t, q)'
    <3>1. PICK k : k = [tasks[t] EXCEPT !.todo = tasks[t].todo \ {s}]
      OBVIOUS
    <3>2. k.kind = tasks[t].kind /\ k.stage = tasks[t].stage /\ k.spaces = tasks[t].spaces
          /\ k.todo = tasks[t].todo \ {s}
      BY <1>0, <3>1 DEF Task
    <3>3. tasks'[t] = IF tasks[t].todo = {s} THEN NoTask ELSE k
      BY <1>0, <1>8, <3>1 DEF ResyncBinds
    <3> QED
      BY <1>1, <2>1, <3>2, <3>3 DEF Rights, Runs, Right, live
  <2> SUFFICES ASSUME ~Missed', ~Coming', NEW q \in Sockets
               PROVE  /\ bound'[q] # {} => Right(bound[q] \ Always)' \/ \E u \in Tasks : Rights(u, q)'
                      /\ phase'[q] = "resolved" => Right(seen[q])'
    BY DEF FollowInv
  <2>4. ~Missed /\ ~Coming
    BY <2>1, <2>2 DEF Missed, rebind, bind_locked
  <2>5. phase'[q] = "resolved" => Right(seen[q])'
    BY <1>1, <2>4 DEF FollowInv, Right, live
  <2>6. q # s => bound'[q] = bound[q]
    BY <1>0, <2>1 DEF rebind, bind_locked, HubOK
  <2>7. q # s /\ bound'[q] # {} => Right(bound[q] \ Always)' \/ \E u \in Tasks : Rights(u, q)'
    BY <1>1, <1>3, <2>3, <2>4, <2>6 DEF FollowInv, Right, live
  <2>8. ASSUME bound'[s] # {} PROVE Right(bound[s] \ Always)' \/ \E u \in Tasks : Rights(u, s)'
    <3>1. /\ bound[s] # {} /\ bound' = [bound EXCEPT ![s] = Wanted(tasks[t].spaces)]
          /\ ~Right(bound[s] \ Always) \/ Right(tasks[t].spaces)
      BY <2>1, <2>8 DEF rebind, bind_locked, Missed
    <3>2. bound'[s] \ Always = tasks[t].spaces
      BY <1>0, <2>1, <3>1, WantedRight DEF HubOK
    <3>3. CASE Right(tasks[t].spaces)
      BY <1>1, <3>2, <3>3 DEF Right, live
    <3>4. CASE ~Right(tasks[t].spaces)
      <4>1. \E u \in Tasks : Rights(u, s)
        BY <2>4, <3>1, <3>4 DEF FollowInv
      <4>2. ~Rights(t, s)
        BY <2>1, <3>4 DEF Rights, Runs
      <4> QED
        BY <1>3, <4>1, <4>2
    <3> QED
      BY <3>3, <3>4
  <2> QED
    BY <2>5, <2>7, <2>8
<1> QED
  BY <1>4, <1>5, <1>6, <1>7, <1>8 DEF TaskStep

LEMMA StepFollows == ASSUME Parts, SlotInv, FollowInv, [Next]_vars PROVE FollowInv'
<1>1. CASE UNCHANGED vars
  <2>1. UNCHANGED <<members, space, wire, sending, tasks, phase, seen, bound, lost, overtaken>>
    BY <1>1 DEF vars, stored, door, bus, hub, history
  <2> QED
    BY <2>1, RightStays, RightsStay, ComingStays, CalmFollows DEF Missed
<1>2. CASE ListenerGap
  BY <1>2, MissedFollows DEF ListenerGap, Missed
<1>3. CASE \E d \in Devices : Lapse(d)
  <2>1. UNCHANGED <<members, space, wire, sending, tasks, phase, seen, bound, lost, overtaken>>
    BY <1>3 DEF Lapse, bus, hub, history
  <2> QED
    BY <2>1, RightStays, RightsStay, ComingStays, CalmFollows DEF Missed
<1> QED
  BY <1>1, <1>2, <1>3, RoutersFollow, EndpointFollows, DeliverFollows, BroadcastFollows, TaskFollows DEF Next, Listener

LEMMA InitFollows == Init => FollowInv
BY DEF Init, FollowInv

LEMMA SpecFollows == Spec => []FollowInv
<1>1. Init => FollowInv
  BY InitFollows
<1>2. Parts /\ SlotInv /\ FollowInv /\ [Next]_vars => FollowInv'
  BY StepFollows
<1> QED
  BY <1>1, <1>2, SpecSlots, PTL DEF Spec

(* realtime.py:299-351: whatever resyncs overlap with whatever connects,   *)
(* drops and resubscribes, a socket in the hub is on its user's spaces or  *)
(* will be put there, unless an event was lost or an older read bound last.*)
THEOREM SpecFollowed == Spec => []Followed
<1>1. FollowInv => Followed
  BY PendingSplit DEF FollowInv, Followed
<1> QED
  BY <1>1, SpecFollows, PTL

(***************************************************************************)
(* What is shown                                                           *)
(***************************************************************************)
ShownStep ==
    \A s \in Sockets :
        sending' # sending /\ ~Missed /\ ~Pending(s) => sending'.shown[s] \ members \subseteq Spaces \ live

LEMMA StepShown == ASSUME Parts, FollowInv, Next PROVE ShownStep
<1> SUFFICES ASSUME NEW s \in Sockets, sending' # sending, ~Missed, ~Pending(s)
             PROVE  sending'.shown[s] \ members \subseteq Spaces \ live
  BY DEF ShownStep
<1>1. CASE start_listener
  <2>1. PICK m : m = Head(wire)
    OBVIOUS
  <2>2. Sound(m)
    <3>1. m = wire[1] /\ 1 \in 1..Len(wire)
      BY <1>1, <2>1, TailOK DEF start_listener, Parts, WireOK
    <3> QED
      BY <3>1 DEF Parts, WireOK, Sound
  <2>3. sending'.shown[s] = IF s \in On(m.on) THEN trim_entry_for(s, m) ELSE {}
    BY <1>1, <2>1 DEF start_listener
  <2>4. sending'.shown[s] \subseteq bound[s] \cap (Spaces \cup Elsewhere)
    BY <2>2, <2>3 DEF trim_entry_for, Sound
  <2>5. sending'.shown[s] # {} => Right(bound[s] \ Always)
    BY <2>4, PendingSplit DEF FollowInv
  <2>6. bound[s] \subseteq Spaces \cup Always /\ (Spaces \cup Elsewhere) \cap Always = {}
    BY HubConstants DEF Parts, HubOK, Channels, Wanted, Always
  <2> QED
    BY <2>4, <2>5, <2>6 DEF Right
<1>2. CASE \E failed \in SUBSET Sockets : broadcast_local(failed)
  BY <1>2 DEF broadcast_local, NoDelivery
<1>3. CASE Routers \/ ListenerGap \/ \E d \in Devices : Lapse(d)
  BY <1>3 DEF Routers, create_space, join_space, remove_member, delete_space, revoke_device,
              publish_sync_entry, Publishes, ListenerGap, Lapse, bus
<1>4. CASE \E q \in Sockets : Endpoint(q) \/ (\E d \in Devices : authenticate(q, d))
  BY <1>4 DEF Endpoint, authenticate, reserve_slot, resolve_channels, ServeFails, register, resubscribe,
              ResubscribeFails, unregister, release_slot, Closes, bus
<1>5. CASE \E t \in Tasks : TaskStep(t)
  BY <1>5 DEF TaskStep, resync_user_channels, ResyncReads, ResyncFails, close_device_sockets, ResyncBinds
<1> QED
  BY <1>1, <1>2, <1>3, <1>4, <1>5 DEF Next, Listener

(* realtime.py:444-492: an entry reaches a socket naming only spaces its   *)
(* user is in, or that are gone, except while a departure is acted on.     *)
THEOREM SpecShown == Spec => ShownOnlyToMembers
<1>1. Parts /\ FollowInv /\ [Next]_vars => [ShownStep]_vars
  BY StepShown
<1>2. Spec => [][ShownStep]_vars
  BY <1>1, SpecSlots, SpecFollows, PTL DEF Spec
<1> QED
  BY <1>2, PTL DEF ShownOnlyToMembers, ShownStep

(***************************************************************************)
(* What RevokedLeaves rests on: a revoked device that Redis answers for no *)
(* more, with no socket in a slot and none between its check and the slot  *)
(* it asks for.                                                            *)
(***************************************************************************)
Departed(d) ==
    /\ d \in revoked /\ d \notin cache
    /\ \A s \in Sockets : device[s] = d => s \notin slots /\ phase[s] # "checked"

LEMMA RowsDeparted ==
    ASSUME NEW d \in Devices, Departed(d), Routers \/ \E e \in Devices : Lapse(e) PROVE Departed(d)'
<1>1. UNCHANGED <<device, slots, phase>>
  BY DEF Routers, create_space, join_space, remove_member, delete_space, revoke_device,
         publish_sync_entry, Publishes, Lapse, hub
<1>2. revoked \subseteq revoked' /\ cache' \subseteq cache
  BY DEF Routers, create_space, join_space, remove_member, delete_space, revoke_device,
         publish_sync_entry, Lapse, door
<1> QED
  BY <1>1, <1>2 DEF Departed

LEMMA EndpointDeparted ==
    ASSUME Parts, NEW d \in Devices, Departed(d), NEW s \in Sockets,
           Endpoint(s) \/ \E e \in Devices : authenticate(s, e)
    PROVE  Departed(d)'
<1>0. HubOK /\ revoked' = revoked /\ cache' = cache
  BY DEF Parts, Endpoint, authenticate, reserve_slot, resolve_channels, ServeFails, register,
         resubscribe, ResubscribeFails, unregister, release_slot, Closes, stored, door
<1>1. ASSUME NEW e \in Devices, authenticate(s, e) PROVE Departed(d)'
  <2>1. e # d
    BY <1>1 DEF authenticate, Departed
  <2>2. /\ device' = [device EXCEPT ![s] = e] /\ slots' = slots
        /\ \A t \in Sockets : t # s => phase'[t] = phase[t]
    BY <1>0, <1>1 DEF authenticate, Become, HubOK
  <2> QED
    BY <1>0, <2>1, <2>2 DEF Departed, HubOK
\* An endpoint that returns holds no device, or stays what it was without its slot.
<1>2. ASSUME Returns(s), slots' \subseteq slots PROVE Departed(d)'
  <2>1. /\ \A t \in Sockets : t # s => device'[t] = device[t] /\ phase'[t] = phase[t]
        /\ device'[s] \in {None, device[s]} /\ phase'[s] # "checked"
    BY <1>0, <1>2 DEF Returns, Become, HubOK
  <2> QED
    BY <1>0, <1>2, <2>1, HubConstants DEF Departed
<1>3. CASE reserve_slot(s) /\ Cardinality(slots) < MaxSockets
  <2>1. device' = device /\ device[s] # d
    BY <1>3 DEF reserve_slot, Departed
  <2>2. /\ slots' \subseteq slots \cup {s}
        /\ \A t \in Sockets : t # s => phase'[t] = phase[t]
    BY <1>0, <1>3 DEF reserve_slot, Become, HubOK
  <2> QED
    BY <1>0, <2>1, <2>2 DEF Departed
<1>4. CASE release_slot(s) \/ (reserve_slot(s) /\ ~(Cardinality(slots) < MaxSockets))
  BY <1>2, <1>4 DEF release_slot, reserve_slot
<1>5. CASE Closes(s)
  BY <1>0, <1>5 DEF Closes, Departed
<1>6. CASE \/ resolve_channels(s) \/ ServeFails(s) \/ register(s) \/ resubscribe(s)
           \/ ResubscribeFails(s) \/ unregister(s)
  <2>1. device' = device /\ slots' = slots
    BY <1>6 DEF resolve_channels, ServeFails, register, resubscribe, ResubscribeFails, unregister
  <2>2. \A t \in Sockets : phase'[t] = "checked" => phase[t] = "checked"
    BY <1>0, <1>6 DEF resolve_channels, ServeFails, register, resubscribe, ResubscribeFails, unregister,
                      Become, HubOK
  <2> QED
    BY <1>0, <2>1, <2>2 DEF Departed
<1> QED
  BY <1>1, <1>3, <1>4, <1>5, <1>6 DEF Endpoint

LEMMA StepDeparted ==
    ASSUME Parts, [Next]_vars, NEW d \in Devices, Departed(d) PROVE Departed(d)'
<1>1. CASE UNCHANGED <<device, slots, phase, revoked, cache>>
  BY <1>1 DEF Departed
<1>2. CASE Listener
  BY <1>1, <1>2 DEF Listener, start_listener, broadcast_local, ListenerGap, hub, stored, door
<1>3. CASE \E t \in Tasks : TaskStep(t)
  BY <1>1, <1>3 DEF TaskStep, resync_user_channels, ResyncReads, ResyncFails, close_device_sockets,
                    ResyncBinds, hub, stored, door
<1>4. CASE UNCHANGED vars
  BY <1>1, <1>4 DEF vars, hub, stored, door
<1> QED
  BY <1>2, <1>3, <1>4, RowsDeparted, EndpointDeparted DEF Next

(* realtime.py:202-210 and 730-756, dependencies.py:52-77: once Redis no   *)
(* longer answers for a revoked device, and it has no socket in a slot or  *)
(* on its way to one, it never has one again, whatever events were lost.   *)
THEOREM DepartedForGood == ASSUME NEW d \in Devices PROVE Spec => [](Departed(d) => []Departed(d))
<1>1. Parts /\ [Next]_vars /\ Departed(d) => Departed(d)'
  BY StepDeparted
<1> QED
  BY <1>1, SpecSlots, PTL DEF Spec
=============================================================================
