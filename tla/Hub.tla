--------------------------------- MODULE Hub ---------------------------------
(***************************************************************************)
(* The connection hub of one replica (realtime.py), seen by one user: the  *)
(* user's sockets, the channels each is on, the listener that hands Redis  *)
(* messages to them, and the routers that commit and then publish.         *)
(* Replicas share nothing but the database and Redis, and the hub treats   *)
(* users apart, so one of each shows every interleaving.                   *)
(*                                                                         *)
(* Everything in one process runs on one event loop: an action is what     *)
(* happens between two awaits that let another task run.  Redis delivers   *)
(* in the order it was given, to whoever is subscribed, and replays        *)
(* nothing.                                                                *)
(*                                                                         *)
(* Abstracted: the check of the device (module Devices) is the row's       *)
(* revoked flag and what Redis may answer in its place; presence (module   *)
(* Presence) is its failing or not; of the messages that move no socket    *)
(* only those that carry an entry are there.                               *)
(***************************************************************************)
EXTENDS Naturals, Sequences, FiniteSets

CONSTANTS
    Spaces,     \* spaces the user may be in
    Elsewhere,  \* spaces the user never is in
    Devices,    \* the user's devices
    MaxSockets, \* MAX_SOCKETS_PER_USER
    MaxConnects,\* bound: connections to this replica, but see Returns
    MaxRequests,\* bound: requests other routers serve meanwhile
    MaxTasks,   \* bound: resyncs and closings under way at once
    MaxFaults,  \* bound: Redis, database or transport failures
    None

ASSUME HubConstants ==
    /\ MaxSockets \in Nat \ {0}
    /\ MaxConnects \in Nat /\ MaxRequests \in Nat /\ MaxTasks \in Nat /\ MaxFaults \in Nat
    /\ Spaces \cap Elsewhere = {} /\ None \notin Devices
    /\ (Spaces \cup Elsewhere) \cap {"user", "broadcast"} = {} \* channels of other kinds

VARIABLES
    members,   \* rows: the spaces the user is in
    space,     \* rows: whether each space is yet to be created, live or deleted
    revoked,   \* rows: the devices revoked
    cache,     \* Redis: devices it may answer for, now or once a check under way has set the key
    requests,  \* requests served so far
    wire,      \* to be published, or published and not yet read by this replica's listener
    sending,   \* the message being delivered
    tasks,     \* resyncs and closings started by the listener
    phase,     \* how far each socket's endpoint has come
    device,    \* the device each socket authenticated as
    seen,      \* the spaces a socket's endpoint has read and not yet bound
    bound,     \* _ws_channels, and _channels turned round
    slots,     \* _user_sockets
    shut,      \* sockets whose transport is closed, by either side
    faults,    \* failures so far
    lost,      \* history: news of the user's spaces did not reach a socket it was for
    overtaken, \* history: an older read of the memberships was bound last
    cut,       \* history: devices whose sockets this replica has closed
    slipped,   \* history: sockets in the handshake at that moment, or let in by Redis since
    orphans    \* history: sockets whose presence failed right after they registered

door == <<revoked, cache>>
stored == <<members, space, door, requests>>
bus == <<wire, sending, tasks>>
hub == <<phase, device, seen, bound, slots, shut>>
history == <<lost, overtaken, cut, slipped, orphans>>
vars == <<stored, bus, hub, faults, history>>

\* Each is numbered in the order it comes.
Sockets == 1..MaxConnects
Tasks == 1..MaxTasks
First(ids, t) == t \in ids /\ \A u \in ids: t <= u

Always == {"user", "broadcast"}
Wanted(spaces) == Always \cup spaces
Channels == Wanted(Spaces)

\* A message on a channel: what it says and which space, device or spaces it names.
Message == [on: {"user"} \cup Spaces, event: {"membership", "revoked", "entry"},
            about: SUBSET (Spaces \cup Elsewhere \cup Devices)]
Nothing == [on |-> "user", event |-> "entry", about |-> {}]

\* What is being delivered: to which sockets, showing each the entry in which spaces.
Delivery == [on: BOOLEAN, message: Message, to: SUBSET Sockets,
             shown: [Sockets -> SUBSET (Spaces \cup Elsewhere)]]
NoDelivery == [on |-> FALSE, message |-> Nothing, to |-> {}, shown |-> [s \in Sockets |-> {}]]
NoTask == [kind |-> "none", stage |-> "none", device |-> None, todo |-> {}, spaces |-> {}]
Task == [kind: {"none", "resync", "close"}, stage: {"none", "start", "reading", "binding"},
         device: Devices \cup {None}, todo: SUBSET Sockets, spaces: SUBSET Spaces]

live == {c \in Spaces : space[c] = "live"}

TypeOK ==
    /\ space \in [Spaces -> {"new", "live", "deleted"}]
    /\ members \subseteq live
    /\ revoked \subseteq Devices /\ cache \subseteq Devices
    /\ requests \in 0..MaxRequests
    /\ wire \in Seq(Message)
    /\ sending \in Delivery
    /\ tasks \in [Tasks -> Task]
    /\ phase \in [Sockets -> {"new", "checked", "serving", "resolved", "open", "rereading",
                              "ending", "done"}]
    /\ device \in [Sockets -> Devices \cup {None}]
    /\ seen \in [Sockets -> SUBSET Spaces]
    /\ bound \in [Sockets -> SUBSET Channels]
    /\ slots \subseteq Sockets /\ shut \subseteq Sockets
    /\ faults \in 0..MaxFaults
    /\ lost \in BOOLEAN /\ overtaken \in BOOLEAN
    /\ cut \subseteq Devices /\ slipped \subseteq Sockets /\ orphans \subseteq Sockets

Init ==
    /\ space \in [Spaces -> {"new", "live"}] /\ members \in SUBSET live
    /\ revoked = {} /\ cache = Devices
    /\ requests = 0
    /\ wire = <<>> /\ sending = NoDelivery
    /\ tasks = [t \in Tasks |-> NoTask]
    /\ phase = [s \in Sockets |-> "new"] /\ device = [s \in Sockets |-> None]
    /\ seen = [s \in Sockets |-> {}] /\ bound = [s \in Sockets |-> {}]
    /\ slots = {} /\ shut = {}
    /\ faults = 0 /\ lost = FALSE /\ overtaken = FALSE /\ cut = {} /\ slipped = {} /\ orphans = {}

Fault == faults < MaxFaults /\ faults' = faults + 1

(***************************************************************************)
(* Routers                                                                 *)
(***************************************************************************)
\* A request commits (the conjunct beside this one), then publishes.  A failed publish is
\* swallowed: the request is answered all the same and the event is gone.
Publishes(on, event, about) ==
    /\ requests < MaxRequests /\ requests' = requests + 1
    /\ \/ wire' = Append(wire, [on |-> on, event |-> event, about |-> about])
          /\ UNCHANGED <<faults, lost>>
       \/ Fault /\ lost' = TRUE /\ UNCHANGED wire
    /\ UNCHANGED <<sending, tasks, hub, overtaken, cut, slipped, orphans>>

create_space(c) ==
    /\ space[c] = "new"
    /\ space' = [space EXCEPT ![c] = "live"] /\ members' = members \cup {c}
    /\ UNCHANGED door
    /\ Publishes("user", "membership", {c})

\* approve_join_request, accept_invite
join_space(c) ==
    /\ c \in live \ members
    /\ members' = members \cup {c}
    /\ UNCHANGED <<space, door>>
    /\ Publishes("user", "membership", {c})

remove_member(c) ==
    /\ c \in members
    /\ members' = members \ {c}
    /\ UNCHANGED <<space, door>>
    /\ Publishes("user", "membership", {c})

\* Mutant of delete_space: the memberships outlive the space.
delete_space_KeepsMembers(c) ==
    /\ c \in live
    /\ space' = [space EXCEPT ![c] = "deleted"] /\ UNCHANGED members
    /\ requests < MaxRequests /\ requests' = requests + 1
    /\ UNCHANGED <<door, bus, hub, faults, history>>

\* Published before the commit, and to the space's channel only.
delete_space(c) ==
    /\ c \in live
    /\ space' = [space EXCEPT ![c] = "deleted"] /\ members' = members \ {c}
    /\ requests < MaxRequests /\ requests' = requests + 1
    /\ UNCHANGED <<door, bus, hub, faults, history>>

\* Dropping the cached answer settles nothing: Redis may fail, or a check that read the row
\* before may set it again.
revoke_device(d) ==
    /\ d \notin revoked
    /\ revoked' = revoked \cup {d}
    /\ UNCHANGED <<members, space, cache>>
    /\ Publishes("user", "revoked", {d})

\* Another member's entry, shared with every space in `shared`, on one of their channels.
publish_sync_entry(c, shared) ==
    /\ c \in shared \cap live /\ shared \subseteq live \cup Elsewhere
    /\ UNCHANGED <<members, space, door>>
    /\ Publishes(c, "entry", shared)

(***************************************************************************)
(* The hub's tables.  Sockets on a channel are those whose set has it.     *)
(***************************************************************************)
On(channel) == {s \in Sockets : channel \in bound[s]}

Right(spaces) == spaces \cap live = members

\* Mutant of bind_locked: the new channels are added to the old ones.
bind_locked_Adds(s, spaces) ==
    /\ bound' = [bound EXCEPT ![s] = @ \cup Wanted(spaces)]
    /\ overtaken' = (overtaken \/ (bound[s] # {} /\ Right(bound[s] \ Always) /\ ~Right(spaces)))

\* _bind_locked: exactly these channels, in one step.
bind_locked(s, spaces) ==
    /\ bound' = [bound EXCEPT ![s] = Wanted(spaces)]
    /\ overtaken' = (overtaken \/ (bound[s] # {} /\ Right(bound[s] \ Always) /\ ~Right(spaces)))

\* Mutant of rebind: a socket that has gone is put back.
rebind_Always(s, spaces) == bind_locked(s, spaces)

rebind(s, spaces) ==
    IF bound[s] = {} THEN UNCHANGED <<bound, overtaken>> ELSE bind_locked(s, spaces)

(***************************************************************************)
(* One socket's endpoint                                                   *)
(***************************************************************************)
Become(s, p) == phase' = [phase EXCEPT ![s] = p]

\* Mutant of authenticate: nobody looks at the device.
authenticate_Unchecked(s, d) ==
    /\ First({q \in Sockets : phase[q] = "new"}, s)
    /\ Become(s, "checked")
    /\ device' = [device EXCEPT ![s] = d]
    /\ UNCHANGED <<stored, bus, seen, bound, slots, shut, faults, history>>

\* An answer Redis has is taken as it is; without one, or without Redis, the row decides.
\* A connection refused leaves nothing behind.
authenticate(s, d) ==
    /\ d \in revoked => d \in cache
    /\ First({q \in Sockets : phase[q] = "new"}, s)
    /\ Become(s, "checked")
    /\ device' = [device EXCEPT ![s] = d]
    /\ slipped' = IF d \in cut THEN slipped \cup {s} ELSE slipped
    /\ UNCHANGED <<stored, bus, seen, bound, slots, shut, faults, lost, overtaken, cut, orphans>>

\* The endpoint has returned.  The next connection may have its number, unless an orphan keeps
\* it; bound: and only once the device has been cut off, when coming back is what matters.
Returns(s) ==
    IF bound[s] # {} \/ device[s] \notin cut
    THEN Become(s, "done") /\ UNCHANGED <<device, shut, slipped>>
    ELSE /\ Become(s, "new")
         /\ device' = [device EXCEPT ![s] = None]
         /\ shut' = shut \ {s} /\ slipped' = slipped \ {s}

reserve_slot(s) ==
    /\ phase[s] = "checked"
    /\ IF Cardinality(slots) < MaxSockets
       THEN Become(s, "serving") /\ slots' = slots \cup {s} /\ UNCHANGED <<device, shut, slipped>>
       ELSE Returns(s) /\ UNCHANGED slots
    /\ UNCHANGED <<stored, bus, seen, bound, faults, lost, overtaken, cut, orphans>>

\* On connecting, and again when the client asks to resubscribe.
resolve_channels(s) ==
    /\ phase[s] = "serving" \/ (phase[s] = "open" /\ s \notin shut)
    /\ Become(s, IF phase[s] = "serving" THEN "resolved" ELSE "rereading")
    /\ seen' = [seen EXCEPT ![s] = members]
    /\ UNCHANGED <<stored, bus, device, bound, slots, shut, faults, history>>

\* auth_ok cannot be sent, or the database does not answer.
ServeFails(s) ==
    /\ phase[s] = "serving"
    /\ Become(s, "ending") /\ shut' = shut \cup {s}
    /\ IF s \in shut THEN UNCHANGED faults ELSE Fault
    /\ UNCHANGED <<stored, bus, device, seen, bound, slots, history>>

register(s) ==
    /\ phase[s] = "resolved"
    /\ bind_locked(s, seen[s])
    /\ seen' = [seen EXCEPT ![s] = {}]
    /\ UNCHANGED <<stored, bus, device, slots, lost, cut, slipped>>
    /\ \/ Become(s, "open") /\ UNCHANGED <<shut, faults, orphans>>
       \* The first _assert_presence raises, before the try that unregisters.
       \/ /\ Fault /\ Become(s, "ending")
          /\ shut' = shut \cup {s} /\ orphans' = orphans \cup {s}

resubscribe(s) ==
    /\ phase[s] = "rereading"
    /\ Become(s, "open")
    /\ rebind(s, seen[s])
    /\ seen' = [seen EXCEPT ![s] = {}]
    /\ UNCHANGED <<stored, bus, device, slots, shut, faults, lost, cut, slipped, orphans>>

\* The database does not answer the read of a resubscribe, which leaves the loop by the finally
\* and ends the endpoint.  Until then nothing of the socket has changed.
ResubscribeFails(s) ==
    /\ phase[s] = "open" /\ s \notin shut /\ Fault
    /\ Become(s, "ending")
    /\ shut' = shut \cup {s}
    /\ bound' = [bound EXCEPT ![s] = {}]
    /\ UNCHANGED <<stored, bus, device, seen, slots, history>>

unregister(s) ==
    /\ phase[s] = "open" /\ s \in shut
    /\ Become(s, "ending")
    /\ bound' = [bound EXCEPT ![s] = {}]
    /\ UNCHANGED <<stored, bus, device, seen, slots, shut, faults, history>>

\* Mutant of release_slot: the slot is never given back.
release_slot_Leaks(s) ==
    /\ phase[s] = "ending"
    /\ Become(s, "done")
    /\ UNCHANGED <<stored, bus, device, seen, bound, slots, shut, faults, history>>

release_slot(s) ==
    /\ phase[s] = "ending"
    /\ Returns(s)
    /\ slots' = slots \ {s}
    /\ UNCHANGED <<stored, bus, seen, bound, faults, lost, overtaken, cut, orphans>>

\* The token expires (close_at_expiry), or the client leaves.
Closes(s) ==
    /\ s \in slots /\ s \notin shut
    /\ shut' = shut \cup {s}
    /\ UNCHANGED <<stored, bus, phase, device, seen, bound, slots, faults, history>>

\* DEVICE_CACHE_SECONDS after the last check that had read the row before it was revoked.
Lapse(d) ==
    /\ d \in revoked \cap cache
    /\ cache' = cache \ {d}
    /\ UNCHANGED <<members, space, revoked, requests, bus, hub, faults, history>>

(***************************************************************************)
(* The listener                                                            *)
(***************************************************************************)
\* Mutant of trim_entry_for: everyone sees the author's view.
trim_entry_for_Whole(s, message) ==
    IF message.event = "entry" THEN message.about ELSE {}

\* An entry is trimmed to the spaces the socket is on.
trim_entry_for(s, message) ==
    IF message.event = "entry" THEN message.about \cap bound[s] ELSE {}

start_listener ==
    /\ wire # <<>> /\ sending = NoDelivery
    /\ wire' = Tail(wire)
    /\ LET message == Head(wire) IN
       sending' = [on |-> TRUE, message |-> message, to |-> On(message.on),
                   shown |-> [s \in Sockets |-> IF s \in On(message.on)
                                               THEN trim_entry_for(s, message) ELSE {}]]
    /\ UNCHANGED <<stored, tasks, hub, faults, history>>

\* Sockets whose set an event will not put right: they read before it and are not in the hub.
Deaf == {s \in Sockets : phase[s] = "resolved" /\ ~Right(seen[s])}

InHandshake(s) == phase[s] \in {"checked", "serving", "resolved"}

Cuts(ds) ==
    /\ cut' = cut \cup ds
    /\ slipped' = slipped \cup {s \in Sockets : device[s] \in ds /\ InHandshake(s)}

Schedules(kind, d) ==
    \E t \in Tasks:
        /\ First({u \in Tasks : tasks[u] = NoTask}, t)
        /\ tasks' = [tasks EXCEPT ![t] = [NoTask EXCEPT !.kind = kind, !.stage = "start", !.device = d]]

\* Some sends fail or time out; those sockets are dropped.  Then what the event asks for.
broadcast_local(failed) ==
    LET message == sending.message
        known == {s \in Sockets \ failed : bound[s] # {}}
    IN
    /\ sending.on
    /\ failed \subseteq sending.to /\ shut \cap sending.to \subseteq failed
    /\ IF failed \subseteq shut THEN UNCHANGED faults ELSE Fault
    /\ sending' = NoDelivery
    /\ bound' = [s \in Sockets |-> IF s \in failed THEN {} ELSE bound[s]]
    /\ shut' = shut \cup failed
    /\ UNCHANGED <<stored, wire, phase, device, seen, slots, overtaken, orphans>>
    /\ \/ /\ message.event = "membership" /\ known # {}
          /\ Schedules("resync", None)
          /\ UNCHANGED <<lost, cut, slipped>>
       \/ /\ message.event = "membership" /\ known = {}
          /\ lost' = (lost \/ Deaf # {})
          /\ UNCHANGED <<tasks, cut, slipped>>
       \/ /\ message.event = "revoked" /\ known # {}
          /\ \E d \in message.about: Schedules("close", d)
          /\ UNCHANGED <<lost, cut, slipped>>
       \/ /\ message.event = "revoked" /\ known = {}
          /\ Cuts(message.about)
          /\ UNCHANGED <<tasks, lost>>
       \/ /\ message.event = "entry"
          /\ UNCHANGED <<tasks, lost, cut, slipped>>

\* The subscription drops with what was on its way, and comes back.
ListenerGap ==
    /\ wire # <<>> /\ Fault
    /\ wire' = <<>> /\ lost' = TRUE
    /\ UNCHANGED <<stored, sending, tasks, hub, overtaken, cut, slipped, orphans>>

(***************************************************************************)
(* What the listener started, in any order                                 *)
(***************************************************************************)
Runs(t, kind, stage) == tasks[t].kind = kind /\ tasks[t].stage = stage

resync_user_channels(t) ==
    /\ Runs(t, "resync", "start")
    /\ tasks' = [tasks EXCEPT ![t] = IF On("user") = {} THEN NoTask
                                     ELSE [@ EXCEPT !.stage = "reading", !.todo = On("user")]]
    /\ lost' = (lost \/ Deaf # {})
    /\ UNCHANGED <<stored, wire, sending, hub, faults, overtaken, cut, slipped, orphans>>

ResyncReads(t) ==
    /\ Runs(t, "resync", "reading")
    /\ tasks' = [tasks EXCEPT ![t] = [@ EXCEPT !.stage = "binding", !.spaces = members]]
    /\ UNCHANGED <<stored, wire, sending, hub, faults, history>>

\* RESYNC_TIMEOUT or any other error: the sockets stay where they are.
ResyncFails(t) ==
    /\ Runs(t, "resync", "reading") /\ Fault
    /\ tasks' = [tasks EXCEPT ![t] = NoTask]
    /\ lost' = TRUE
    /\ UNCHANGED <<stored, wire, sending, hub, overtaken, cut, slipped, orphans>>

ResyncBinds(t, s) ==
    /\ Runs(t, "resync", "binding") /\ s \in tasks[t].todo
    /\ rebind(s, tasks[t].spaces)
    /\ tasks' = [tasks EXCEPT ![t] = IF @.todo = {s} THEN NoTask ELSE [@ EXCEPT !.todo = tasks[t].todo \ {s}]]
    /\ UNCHANGED <<stored, wire, sending, phase, device, seen, slots, shut, faults, lost, cut, slipped, orphans>>

close_device_sockets(t) ==
    LET d == tasks[t].device IN
    /\ Runs(t, "close", "start")
    /\ tasks' = [tasks EXCEPT ![t] = NoTask]
    /\ shut' = shut \cup {s \in On("user") : device[s] = d}
    /\ Cuts({d})
    /\ UNCHANGED <<stored, wire, sending, phase, device, seen, bound, slots, faults, lost, overtaken, orphans>>

Routers ==
    \/ \E c \in Spaces: create_space(c) \/ join_space(c) \/ remove_member(c) \/ delete_space(c)
    \/ \E d \in Devices: revoke_device(d)
    \/ \E c \in live: publish_sync_entry(c, live \cup Elsewhere)

Endpoint(s) ==
    \/ reserve_slot(s) \/ resolve_channels(s) \/ ServeFails(s) \/ register(s)
    \/ resubscribe(s) \/ ResubscribeFails(s) \/ unregister(s) \/ release_slot(s) \/ Closes(s)

Listener == start_listener \/ (\E failed \in SUBSET Sockets: broadcast_local(failed)) \/ ListenerGap

TaskStep(t) ==
    \/ resync_user_channels(t) \/ ResyncReads(t) \/ ResyncFails(t) \/ close_device_sockets(t)
    \/ \E s \in Sockets: ResyncBinds(t, s)

Next ==
    \/ Routers
    \/ Listener
    \/ \E d \in Devices: Lapse(d)
    \/ \E s \in Sockets: Endpoint(s) \/ (\E d \in Devices: authenticate(s, d))
    \/ \E t \in Tasks: TaskStep(t)

\* An endpoint in progress goes on and notices a closed transport, whichever step is next.
Proceeds(s) ==
    \/ reserve_slot(s) \/ (phase[s] = "serving" /\ resolve_channels(s)) \/ register(s)
    \/ resubscribe(s) \/ unregister(s) \/ release_slot(s)

\* A token expires, and so does an answer in Redis.
Fairness ==
    /\ \A s \in Sockets: WF_vars(Proceeds(s)) /\ WF_vars(Closes(s))
    /\ \A d \in Devices: WF_vars(Lapse(d))

Spec == Init /\ [][Next]_vars /\ Fairness

(***************************************************************************)
(* Properties                                                              *)
(***************************************************************************)
(* Nothing stays in the hub after its endpoint has gone: whatever is bound *)
(* holds a slot, although a resync may come back from the database after   *)
(* the socket closed (_rebind is a no-op then).  The one exception is a    *)
(* socket whose first presence write failed.                               *)
NoGhosts == \A s \in Sockets \ orphans: bound[s] # {} => s \in slots

\* A correction is due: a change is still to be announced, read, or bound on s.
Pending(s) ==
    \/ \E i \in 1..Len(wire): wire[i].event = "membership"
    \/ sending.message.event = "membership"
    \/ \E t \in Tasks:
          \/ Runs(t, "resync", "start")
          \/ Runs(t, "resync", "reading") /\ s \in tasks[t].todo
          \/ Runs(t, "resync", "binding") /\ s \in tasks[t].todo /\ Right(tasks[t].spaces)

Missed == lost \/ overtaken

(* A socket in the hub is on exactly its user's spaces (deleted ones       *)
(* aside), or a resync that will put it right is on its way: whoever       *)
(* leaves stops hearing, and whoever joins or creates starts to, without   *)
(* reconnecting.  Not so after an event was lost, a socket read before a   *)
(* change and registered after its resync, or an older read bound last.    *)
Followed ==
    \A s \in Sockets: bound[s] # {} /\ ~Missed => Right(bound[s] \ Always) \/ Pending(s)

(* An entry shared with several spaces reaches each socket naming only the *)
(* spaces its user is in, except while a departure is still being acted on.*)
ShownOnlyToMembers ==
    [][\A s \in Sockets:
          sending' # sending /\ ~Missed /\ ~Pending(s) =>
             sending'.shown[s] \ members \subseteq Spaces \ live]_vars

(* Once this replica has acted on a revocation, no socket of the device is *)
(* in the hub with its transport open, save one that was past its check    *)
(* and not yet registered at that moment, or that an answer left in Redis  *)
(* has let in since.                                                       *)
CutOff == \A s \in Sockets: device[s] \in cut /\ bound[s] # {} => s \in shut \/ s \in slipped

(* A revoked device (which stays revoked) ends without a slot, even if the *)
(* event was lost, its socket slipped through or it reconnects while Redis *)
(* still answers for it: no socket outlives its token, and an answer is    *)
(* not renewed, so it lapses within its minute.                            *)
RevokedLeaves ==
    \A d \in Devices: <>[](d \in revoked => \A s \in slots: device[s] # d)
=============================================================================
