# Formal models of the Orange Copy Paste backend

TLA+ models of the sync backend in `src/`: a FastAPI service over PostgreSQL,
Redis and an S3 store that keeps end-to-end encrypted clipboard entries and
notes, shares them in spaces and fans changes out over WebSockets. The server
never reads the content, so what it can get wrong is *which* rows exist, who
gets them, in what order, and what is charged and kept. That is what is modelled.

## The system

| part | code (`src/src/`) | state it keeps | operations |
|---|---|---|---|
| entry store | `sync/service.py`, `spaces/service.py` | `sync_entries`, `space_entry_removals` | push (batch of upserts), takedown, removal records |
| pull | `sync/service.py` | nothing on the server; a cursor and copies on each device | pull, merge of two cursors |
| blobs | `blobs/`, `background.py` | `blobs`, the object store | request, PUT, confirm, release, sweep, cleanup |
| spaces | `spaces/service.py`, `spaces/router.py` | `spaces`, `space_memberships` (floor, keyring) | create, update, join, leave, delete, distribute keys |
| invites, join requests | `spaces/invites.py`, `spaces/join_requests.py` | `space_invites`, `space_join_requests` | create, attach key, accept, decline, revoke; request, approve, decline |
| realtime hub | `realtime.py` | per replica: channels, sockets, slots | authenticate, register, rebind, unregister, resync, close, broadcast |
| presence | `realtime.py`, `background.py` | Redis: device set and TTL keys | assert, teardown, sweep |
| devices and keys | `auth/service.py`, `dependencies.py` | `devices`, `profiles`, Redis cache | register, revoke, check, store wraps and public keys |
| token verification | `auth/tokens.py` | per process: the provider's key set, the last forced refetch | verify, refetch |
| settings | `settings/service.py` | `user_settings` | compare-and-swap upsert |
| maintenance | `background.py` | an advisory lock | election, the hourly jobs |
| others | `admin/`, `announcements/`, `email.py`, `middleware.py`, `limiter.py`, `web/` | little or none | `PROJECT.json` says why each is left out |

How they interact. Every HTTP request is one PostgreSQL transaction at READ
COMMITTED (some are two: accepting an invite and approving a request commit the
membership first). Push takes an advisory lock on its account, request-upload and
confirm-upload another; nothing else takes a lock beyond those of the rows it
writes. After its commit a request publishes to Redis, every replica's listener
passes the message to its sockets, and nothing is replayed: what a device missed
it learns by pulling. Push calls into blobs (it releases the blob a row stops
pointing at); the maintenance loop reads entries to decide which blobs to let go.

What is hard here:

- rows are stamped with a clock when written, become visible when committed, and
  are paged by that stamp;
- a decision read in one statement (membership, a rival row, a live reference, a
  free byte) is used in a later one;
- two streams share one cursor, and one answer is read by two statements;
- an entry that leaves a space becomes invisible to the query that would tell a
  member it left;
- the object store is not part of any transaction;
- events are published after a commit, may be lost, and start work that runs in any order;
- presence is several Redis commands, none of them in a transaction with another;
- answers are cached (a device that may pass, a key set) while what they say changes;
- requests die half-way, answers are lost, the job runner crashes.

`PROJECT.json` lists each place under `hazards`, with the properties that cover it.

## Modules

| module | models | composed with |
|---|---|---|
| `SyncStore` | push, takedown, membership, the removal records | |
| `SyncPull` | one device's pulls while writers commit | a writer stands for what `SyncStore` lets push and takedown do to a row |
| `BlobStore` | uploads, quota, releases, the two blob jobs, and push as far as it touches blobs | a push stands for any push `SyncStore` accepts; implements `Ledger` |
| `Ledger` | the abstract specification of `BlobStore`'s quota | |
| `Spaces` | one space: settings, memberships, invites, join requests, key rings, deletion | its memberships are those `SyncStore` reads when it pushes and takes down |
| `Hub` | one replica's sockets, channels and slots, its listener, and the routers that publish | its memberships are those of `Spaces`, its revocations those of `Devices` |
| `Presence` | one user's device set and keys in Redis, what the spaces are told, the sweep and its leader | the sockets are those that `Hub` has registered |
| `Devices` | the profile, the device rows, the check at the door and its cache | |
| `Settings` | the settings blob, devices that merge and put, the upsert | implements `Register` |
| `Register` | the abstract specification of `Settings` | |
| `Tokens` | the key set, its refetch and its cooldown, over several threads | |
| `SyncStoreProofs`, `SyncPullProofs`, `BlobStoreProofs`, `SpacesProofs`, `HubProofs`, `PresenceProofs`, `DevicesProofs`, `AccountProofs` | theorems | |
| `MC...` | constants and symmetry for TLC | |

### SyncStore

A push transaction is a record per device: the two budgets of `_Room`, the rows
written so far and the removal records written so far (`written`, `left`), and
between look-up and write the entry with the row it found and the stamp it took.
Actions follow the statements another transaction can come between: `PushBegin`
(lock and count), `PushLookup` (the select), `PushAdmit` or `PushRefuse` (the
memberships; 422 rolls the whole batch back), `PushStamp` (`server_ts`), `PushCheck`
(the rival, the budgets), `PushWrite` and at the end of the batch `PushCommit`;
`PushConflict` is `stale_update` before the stamp and `not_your_entry` or
`account_full` after it, and `PushAbort` a dead worker or connection.
`TakedownRead` and `TakedownWrite` are the two halves of
`remove_entry_from_space`: what it read, and what it writes back.

The stamp comes first and the waits after it (`sync/service.py:192` and 264,
`spaces/service.py:589`): a push or a takedown that waited for the other's row writes
the older stamp over the newer one. `stripped` is a history variable, the rows whose push
had its stamp when a takedown wrote them. `PushNeverRewinds` says that this, and a
takedown itself, are the only ways for a row to go back.

Two details decide several properties and are in the model on purpose. The ORM
sends only the columns whose value changed from the one it *loaded*
(`Column`), so a stale value can survive or be overwritten column by column; and
an uncommitted row or record is locked, so a second writer waits
(`RecordLocked`, the guard of `TakedownWrite`).

Blobs, ciphertext, envelopes, pins and device ids decide nothing here and are
left out. `entry_too_large` reads and writes nothing and has no action.

`overlapped` is a history variable: some request began while another was open. The
store keeps several promises only for requests that do not overlap; those are
stated as `~overlapped => ...`; what happens without it is listed under
[Known gaps](#known-gaps).

### SyncPull

`PullEntries` and `PullRemovals` are the two statements of a pull; the second one
also delivers the answer to the device, which applies removals, then entries, and
resumes from `next_cursor`, or from the newest entry it received when there is
none (both as the tests and the comment on `PullResponse` describe the client).
`Page`, `Boundary` and `Merge` are `_page` and `merge_cursors`. A writer writes
rows with any stamp up to `now` (it took it before it waited) and commits them later, in
any order; `Abort` drops them.

`behind` and `skewed` are history variables naming the two things a pull is not
protected from: a row committed with a stamp that a pull has passed or that is below
the row's own last one, and a commit between its two statements. Everything else the module states must hold
(and is proved) in their absence. `CompleteUnlessSkewed` takes the first
exception away and is violated.

### BlobStore and Ledger

Every key is handed out once. `age` is the class that the code's three cutoffs
(five-minute URL and reservation, one-hour orphan, seven-day grace) tell apart,
and `Grow` is time passing. The quota lock covers request-upload and both halves
of confirm-upload; push holds its own; release and the jobs hold none, so each is
a read and a write with anything in between. A deletion in the store happens at
once and survives an `Abort` or a `JobCrash`. A URL takes any number of PUTs until it
expires, so a client may put something else over an object that was already good
(`replaced`): a confirmation finds it as wrong as a bad one, and after a confirmation
nobody looks. What is promised of a live entry is that what its client put last is there (`Landed`).

`raced` and `doubled` note that two open transactions touched one blob, and that
two entries came to share one: the conditions under which a live entry may lose
its image.

`Ledger` is what an account is promised of its quota: a key is reserved once and only if
it fits with all that is charged and reserved, a known key is charged only if it fits with
all that is charged, and everything else gives room back. It knows no locks, ages,
objects, requests or jobs. `BlobStore` implements it with `known` as the blobs that have
an age, `reserved` as the pending rows whose URL still works, and `charged` as the
confirmed rows.

### Spaces

`db` holds the committed rows. The space has its two policies, the rekey stamp and
the key fingerprint; a membership row has its floor, its wrap and `wrapped_by`; invites
and join requests have their status, and an invite its wrap. A key ring is the
number of its newest key, a wrap that number and whose identity key made it.

The session decides the shape of the actions. It does not flush before a query,
does not refresh after a commit, and no handler here locks a row: a handler decides
everything from the rows it loaded and writes the columns it changed. So a
request is sent (`Send`), its rows are loaded (`Read`, or within `Send` when nothing
its client prepared beforehand matters), and it commits (`Commit`): `Allowed` is the
checks, `After` what the handler makes of the rows it loaded, `Flushed` what the
commit makes of the rows that are there now, `Refused` a duplicate key, an
update that finds no row or a space that has gone. `accept_invite` and
`approve_request` commit twice, the membership and then the spent invite or
request (stage `joined` between); `Fail` may come between the two.

`Reconcile` is the owner's client of `docs/architecture.md` §7.4: it wraps for
everyone when a rekey is owed, else for whoever has no wrap, and mints a key first
when somebody who has left holds the newest. `ring` is the newest key each client
has, `exposed` the newest one anybody departed has. Neither is server state; without
them the rekey flag could not be said to mean anything.

`raced` is a history variable: a commit over rows that had changed since they were
read, or any commit while wraps were on their way to the server.

### Hub

One replica and one user. Replicas share only the database and Redis, and the hub
treats users apart. One process runs on one event loop, so an action is what
happens between two awaits that let another task run. An endpoint goes `new`,
`checked` (authenticated), `serving` (slot reserved), `resolved` (memberships
read, not yet bound), `open`, `ending`, `done`; `rereading` is a resubscribe between
its read and its bind, and `ResubscribeFails` its read failing, which ends the endpoint. `wire` is what this replica's listener will read, in order,
`sending` the message whose sends are under way, `tasks` the resyncs and
closings it started, each of which reads and then binds socket by socket in any order.

A request of a router commits and publishes in one action, with the publish
failing as a fault: the code does it in two steps, and the listener sees
the message in any case some time after the commit. `delete_space` publishes before it
commits, to the space only, so a socket may keep a channel of a space that is gone;
`Right` leaves those aside.

`lost` and `overtaken` name what the hub is not protected from: an event that did
not arrive, a resync that failed, a socket that read its memberships before a change
and registered after the resync; and an older read bound last. `slipped` are sockets
that had passed the handshake and not yet registered when their device was cut off, or
that an answer kept in Redis let in afterwards; `orphans` those whose first presence
write failed after they registered.

The handshake asks `check_device` (module `Devices`), so a positive answer in Redis lets a
revoked device in. `cache` holds the devices Redis may answer for, now or once a check
that had read the row before it was revoked sets the key; dropping the key settles
neither, so only `Lapse` takes a device out: 60 seconds after the last such check, since a
hit does not renew the key and a read of the revoked row sets none. `RevokedLeaves` and
`DepartedForGood` rely on that. A client that was cut off may come back as often as it is let
in: the number of a connection that has returned is used again (`Returns`).

### Presence

Every Redis command is a step: the SADD and the SET of `_assert_presence`, the reads
of `user_is_online` one key at a time, and the SREM, DEL and publish of the teardown.
`Lapse` is a key's 300 seconds after its device has gone, `Evict` the loss of one
still in use. `told` is what the spaces last heard. The sweep reads the set, looks at
each key, evicts, asks, announces; a replica whose lock has gone goes on sweeping
(`LockLost`). `excused` is set once something named in `Crossing` or `Excuse` came
between: two of the user's sockets coming or going at once, two of one device, an
eviction while a socket comes or goes, a lost key of an open socket, or an
announcement that failed or that nobody could hear.

### Devices

A key column holds the number of the user master key it was made from. A request
reads its rows (`Takes`) and commits later (`Write...`), and writes the columns
whose value it changed: a hash that equals the one it *read* is not written, a wrap
is a fresh ciphertext and always is. `check_device` either takes a cached answer or
reads the row into the session the handler goes on to use, which decides what
`get_device_wrapped_umk` looks at: the session holds a row weakly, so the handler may get
what was loaded or read it again (`Readable`). `late` marks a restore that began after its device
was revoked.

### Settings and Register

A device edits what it knows and puts it, with the timestamp it knows as the base (a
merge) or with no base. `sent` keeps every PUT for good, so each may arrive late, again
or never; answers are reordered or lost. `write_if` is the WHERE of the upsert.
`Register` knows no stamps: a value is stored over the one it was merged from, or
over or by one offered without a merge. `Settings` implements it with `current` as
the blob in the row.

### Tokens

Time goes by in ticks, only while a thread waits for a fetch (at most `Timeout`) or
is idle. `claim_refresh_slot` is taken before the fetch. An answer with no usable key
(`Unusable`) is cached like any other and makes every verification a 401 before it gets to the refetch,
until it has aged out. `since` measures how long ago a key was published or retired, and
`spoilt` how long ago such an answer was given, which is what the property is about.

## Runs

| run | checks | instance |
|---|---|---|
| `sync_sharing` | `TypeOK`, `OneAuthorPerSpace`, `RowNotOlderThanRemoval`, `MembersOnly`, `LeavingIsRecorded` | 2 accounts (one the space's owner), 3 devices, 1 space, 1 entry, batches of 2, 4 requests one after another, clock 1..3 |
| `sync_overlap` | `LiveRowsCapped`, `PushNeverRewinds` | 1 account, 2 devices, 1 space, 2 entries, cap 1, batches of 2, 3 requests, clock 1..3 |
| `pull` | `TypeOK`, `CompleteToCursor`, `Converges` | 2 entries already in the space, one of them the device's own, page limit 1, floor 2, 4 writes, 1 lost answer, clock 1..4 |
| `blobs` | `TypeOK`, `LiveEntriesKeepBlobs`, `KeepsLedger` (the refinement), `Reclaimed` | 2 blobs, 2 entries, 2 devices, quota 1, 5 requests, 1 failure |
| `spaces` | `TypeOK`, `OwnerKeepsRing`, `WrapperRecorded`, `DepartedCannotRead`, `FloorsFollowPolicy`, `DeclinedStaysOut`, `Settles` | owner, a member, a guest; 1 invite, 2 requests at once, 3 requests or crashes, 3 keys |
| `hub` | `TypeOK`, `NoGhosts`, `Followed`, `CutOff`, `ShownOnlyToMembers`, `RevokedLeaves` | 1 device, 1 space the user may be in and 1 the user is not, 2 slots, 2 connections (any number of a device that was cut off), 2 requests, 2 tasks, 1 failure |
| `presence` | `TypeOK`, `ToldOrOwed`, `Reasserted`, `Forgotten`, `ToldTruth`, `OfflineIsTrue` | 2 devices, 2 connections, 1 replica, 1 failure |
| `devices` | `TypeOK`, `RestoreEnds`, `KeysAgree`, `RefusedAtLast`, `IdentityStands` | 2 keys, 1 device, 2 requests at once, any number one after another |
| `settings` | `LosesNoMerge` (the refinement) | 2 devices, 3 edits, 3 stamps |
| `tokens` | `VerdictsAreRecent` | lifespan 4, cooldown 2, timeout 1, 2 keys, 2 threads, any number of verifications |
| `pull_behind` | `CompleteUnlessSkewed` is violated | 2 writers |
| `spaces_rekey` | `SettledMeansRotated` is violated | as `spaces` |

What they show. Under the account's lock the live-row budget holds for any
interleaving, whatever batches insert, bury and revive, and a row's stamp goes back only
where a takedown and what it met were stamped before they waited for each other. Requests that do not overlap keep one author per entry and space, let only
members write, and record every departure at a stamp a member still pulls. A
device that pages one row at a time through two streams, losing an answer, is
complete to its cursor at every moment and ends with exactly what it may see. The
account's uploads keep the ledger, so it is never charged past its quota and a burst of
URLs fits in it (`ChargedWithinQuota` and `BurstWithinQuota`, which no run
repeats and `BlobStoreProofs` proves by themselves); and what no entry references is
collected in the end, through refusals of the store and crashes of the job.

In a space, whatever overlaps, the owner's own wrap is never lost, replaced by
another's or set back, and owner and server together return to a state in which no
rekey is owed and every member holds a wrap. While no request is overtaken, whoever
left has no key that is still handed out once the flag is clear, each wrap names
its maker, floors follow the policy, and a declined person stays declined.

In the hub, nothing stays bound after its endpoint, whatever a late resync brings; a
socket is on its user's spaces or a resync for it is due; an entry is shown with the
spaces of its reader; and a revoked device ends without sockets even if the event
never came or Redis let it in again. Presence is stated from scratch at every pong, a device that has gone is
forgotten whoever sweeps, and the spaces end up told what is so: at every moment they know
of a user who is there, and somebody owes them the goodbye of one who is not. Revocation ends
silent restore although answers are cached and wraps are written by overtaken
requests; a revoked device is refused in the end; envelopes and wraps hold the key
that is proven. The settings upsert loses no merge. No verdict on a token is wrong for
longer than the key set (or an answer of no use) is kept or the cooldown lasts, and one
timeout.

The two violated runs are the findings of `PROJECT.json`: a pull is not protected
from a row that is committed behind its cursor, and wraps the owner sent before a
departure can clear the rekey it owes.

Why the bounds are enough. Each property needs few actors: a rival needs two
accounts; a lost slot needs two devices of one; a stale write-back needs one
writer between a read and a write, and three requests give it one before, one
between and one after; one after another, four are a share, a departure, a re-share and a
second departure. Three clock values let a push stamp, a takedown stamp later, and the
push write last over a row that had a stamp before. In `pull` a
limit of 1 with two entries makes every page a boundary and lets two rows share a
stamp; 4 clock values leave room for a floor, a withdrawal and a re-share. In
`blobs` a quota of 1 with 2 blobs puts every decision at the limit. In `spaces` three requests are a departure, what it races and a
join or a relay after it (the owner's reconciling is not counted), and the invite,
with a wrap or without, is there at the start; 3 keys are enough for two
departures, since a removal is only sent while a key is left to follow it
(`Affordable`). In `hub` two connections are
enough for a socket that slips through while another makes the listener act, and two
tasks for a resync that overtakes another. `presence` with two replicas (766 thousand
states) passes too, in more time than a run kept beside the code should take; one
replica already loses its lock, dies and leads again. In `devices` two
requests overlap while any number come before and after, so every pair of handlers
meets in every state. In `settings` three edits are a first blob, one put over it with
no base, and a merge; three stamps let clocks tie and disagree. In `tokens` the
lifespan exceeds the cooldown, and the cooldown the timeout, as in the code. Every mutant
in `PROJECT.json` (one plausible slip of the code for each property) is caught at
these bounds.

`pull` is explored under `CONSTRAINT InOrder`: once `behind` or `skewed` holds it
holds for good, each property of the run is then true, and the states after it
need not be visited; no step of the device leaves the constraint, so its fairness is
not affected. `sync_sharing` is explored under `CONSTRAINT Serial` for the same reason:
its properties are about requests of which none has overlapped another. In `hub` a number
is free for the next connection only when it was that of a device cut off, since coming
back is what matters of those; `sync_*` declare the two devices of one account symmetric, and
check no liveness. Deadlock is off where the bound on requests ends all activity.

## Fairness

- `SyncPull`: weak fairness of the two halves of a pull. A client pulls until
  `next_cursor` is null and again on the next change or start; a request is
  answered unless lost, and losses are bounded by `MaxLost`. Writers are not fair:
  a transaction may stay open or vanish.
- `BlobStore`: weak fairness of time passing (`Grow`), of the steps of the two jobs
  (`_leader_loop` runs them hourly and survives their exceptions), and of an
  open request ending one way or another (a worker that never answers loses its
  connection, and PostgreSQL ends its transaction). The store's refusals and the
  crashes are bounded by `MaxFailures`.
- `Spaces`: weak fairness of `Reconcile` (the owner's client runs it on every start and
  every membership change it hears of) and of the answer to each open request. Nobody
  else has to act. The run's bound on requests and crashes makes disturbances finite.
- `Hub`: weak fairness of an endpoint that is under way and notices a closed transport
  (`Proceeds`), of a token expiring or a client leaving (`Closes`: `_close_at_expiry` runs
  beside every socket), and of an answer for a revoked device lapsing in Redis (`Lapse`: the
  key is set with `ex=60` and never renewed by a hit). The listener and what it starts need not act: a revoked
  device leaves all the same.
- `Presence`: weak fairness of the endpoints' own steps (clients answer pings), of keys
  lapsing, of a free lock being taken and of the sweep (`_leader_loop` runs it every
  minute and survives its exceptions). Failures are bounded by `MaxFaults`; sockets may
  stay open or die.
- `Devices`: cached answers lapse. No request has to go on.
- `SyncStore`, `Settings` and `Tokens` state safety only.

## Proofs

All theorems hold for arbitrary constants under the named assumption of their module
(`StoreConstants`, `PullConstants`, `BlobConstants`, `SpacesConstants`, `HubConstants`,
`PresenceConstants`, `DevicesConstants`, `SettingsConstants`, `TokensConstants`: finite sets of keys, natural
bounds, a non-zero page limit, cooldown and number of slots, names of spaces that are not
those of the two channels everyone is on).

- `SyncStoreProofs`: `TypeOK`, `LiveRowsCapped` and `LiveRoomSafe`. The cap alone
  is not inductive: a commit installs rows written earlier under a budget counted
  earlier. `BudgetInv` adds that open pushes of one account exclude each other
  (`Locked`), and that an open push's remaining live budget plus the live rows of
  *its view* never exceeds the cap (`HonestPush`). No other step changes that view's states: a
  takedown rewrites spaces and stamps only (`TakedownKeepsStates`). The one
  arithmetic fact, what writing one row does to a count, is `CountWrite`.
  `StampInv` bounds every stamp by the clock and ties an
  open push's found row, its stamp and its written rows to the committed ones, unless a
  takedown has written the row meanwhile (`stripped`); that gives `PushNeverRewinds`.
  `SerialInv` adds, while `~overlapped`, that
  the only open transaction has read what is still there; from it follow
  `OneAuthorPerSpace`, `RowNotOlderThanRemoval`, `MembersOnly` and
  `LeavingIsRecorded`.
- `SyncPullProofs`: `PageIsComplete` says of any finite set of rows and any stamps
  that a page holds every row up to its cursor and that the cursor is above the
  old one; it rests on `BoundaryIs` (the CHOOSE in `Boundary` has a value, by a
  cardinality argument over `MinimalSubset`). `CompleteToCursor` follows from
  `PullInv`: stamps stay within the clock, and unless something came `behind`, a row is
  never older than the record of its removal (`Clock`, `Uncommitted`); what an open pull has read is still committed and its page is
  complete to its own cursor (`Honest`), and the device is complete to the cursor it holds.
  `PullAdvances` is the step under `Converges`: an answer moves the cursor up, or it is the
  last one and the device shows exactly what it may see. That needs to know where the
  entries on a device and in an open pull come from (`Traced`): each was shared at a stamp its row
  has reached, and if the row has left the space since, the departure is recorded at a
  stamp no older, so that a device at the end of both streams has been told.
- `BlobStoreProofs`: `TypeOK`, `ChargedWithinQuota`, `BurstWithinQuota`,
  `LiveEntriesKeepBlobs` and the refinement `KeepsLedger`. The quota
  is not inductive, since confirm-upload counts in one step and charges in another
  and request-upload counts before its row commits. `QuotaInv` adds that the
  holders of the quota lock exclude each other (`Locked`) and that what an open
  upload was found to fit in is still free (`HonestCharge`, `HonestReserve`). Every
  step that holds no lock only takes away from what is counted (`Shrinks`, shown
  in `OtherSteps`): releases, the sweep and time turn charged into reserved into
  neither, never back. `KeepInv` is about what a request or a job found of its blob before it
  writes: nobody else has a hand on it unless `raced` (`Apart`), so it is still so
  (`Sound`, `JobSound`), no other entry has it unless `doubled` (`Distinct`), and whatever is charged
  has an object its client put. The refinement combines the two: only the commit of request-upload reserves
  (`CommitReserves`) and only that of confirm-upload charges (`CommitCharges`), both
  within what `HonestReserve` and `HonestCharge` keep free, and any other step is the
  ledger's `LetGo` or a stutter (`ShrinkLetsGo`).
- `SpacesProofs`: every safety property of `Spaces`, and its types. `Types` keeps with each
  open request that what it has loaded is whole and allowed it (`Proper`), so that what
  `After` makes of it and `Flushed` of the rows is whole too; `Effects` says of each
  handler which columns it can have changed. `OwnerKeepsRing` is not inductive, since a
  commit writes a wrap made and rows read long before: `OwnerInv` adds that what any handler
  has read of the owner's row is no newer, and the key the owner's client is handing over
  no older, than the wrap that is there, and that this client hands over one key at a
  time. The other properties are about states that are not `raced`, where a commit leaves
  `After(request, db)` of the very rows that are there (`CalmCommit`): `CalmInv` says that rows name
  the makers of their wraps, that invites carry only the owner's, and that floors follow
  the policy. `DepartedCannotRead` needs to know of every key there is, in a row, in a
  client or on its way: `KeysInv` says that the owner's client holds the newest, that who is out holds
  none, that invites and what the owner is handing over are past the keys of those who
  left (`Held`, `InFlight`), and that once no rekey is owed everybody else is too
  (`Past`).
- `HubProofs`: `Parts` is the type invariant with what the messages and tasks on their
  way may name (a closing names a revoked device). `SlotInv` ties phases to slots and
  bound sockets to open endpoints, since a rebind is a no-op for a socket that has
  gone: `NoGhosts`. `CutInv` adds that of a device that was cut off only slipped
  sockets are still in the handshake, whoever lets them in: `CutOff`. `Followed` is not inductive: a socket
  between its read and its bind matters too, and a change nobody has read for
  yet (`Coming`) excuses everything, while a resync that has started excuses only the
  sockets on its list (`Rights`). `FollowInv` states that, and `ShownOnlyToMembers`
  follows from it, since a socket's channels are what its entries are trimmed to.
  `DepartedForGood`, under `RevokedLeaves`: once a revoked device has no socket in a slot
  or between its check and its slot, and Redis no longer answers for it, it never has one
  again, whatever is lost.
- `PresenceProofs`: `TypeOK`, `OfflineIsTrue` and `ToldOrOwed`. The first property is about one step, the
  publish of a goodbye, that follows from reads made one Redis command at a time. While
  nothing is `excused`, at most one endpoint comes or goes or one sweep evicts (`Alone`, by
  counting), what an endpoint has stated of its device stands (`Asserted`), and whoever
  may still say goodbye has yet to look at the key of every open socket (`Goodbyes` for the
  endpoints, `Verdicts` for the sweeps), so a look finds it. `ToldOrOwed` adds
  who owes what (`Debts`): a socket is open only after the spaces have heard, and a device
  leaves the set only through somebody who goes on to ask.
- `DevicesProofs`: `Sane` says of each request what it can have read at its stage: a live
  row or a cached answer before an answer, a writable proof before a commit, and that
  an answer is never `late`. `RestoreEnds` is a part of it; `IdentityStands` and
  `KeysAgree` are shown of each step from it. `BarredForGood`, under `RefusedAtLast`: a
  revoked device that is in no cache, and of which no request is about to put an answer
  there, stays so.
- `AccountProofs`, `Settings`: every copy of a blob goes with its own stamp (`CopiesGenuine`), and a
  merged blob is stamped above all that was stored before (`StampsRise`). Hence equal
  stamps mean the same blob, unless it was put with no base: each step of `Settings`
  is one of `Register` or a stutter (`ImplementsRegister`).
- `AccountProofs`, `Tokens`: how old the cached set and each answer on its way can be (`CacheReflects`,
  `Answers`), be it of use or not, and that a refetch that was granted is in place, dropped or under way
  (`RefetchShows`).

Only model-checked: the liveness properties (`Converges`, `Reclaimed`, `Settles`,
`RevokedLeaves`, `Reasserted`, `Forgotten`, `ToldTruth`, `RefusedAtLast`), which need
fairness and `ENABLED`; and the violated properties. Of four of them the safety half is proved: that
progress is progress (`PullAdvances` for `Converges`), that what is owed is never forgotten
(`ToldOrOwed` for `ToldTruth`), and that what was reached is kept (`DepartedForGood` for
`RevokedLeaves`, `BarredForGood` for `RefusedAtLast`). What TLC alone shows is that the
fair steps get there.

## Known gaps

What the models showed of the code beside the two findings. The properties name each as
an exception, and hold otherwise.

- Entry store: burying a row takes no tombstone slot, so tombstones outgrow their cap.
  The rival check and the membership check read committed rows only, so two accounts
  can hold one entry in a space, and a removed member can still write. A takedown writes
  back the spaces it read and can undo a push or another takedown, unrecorded.
  A push and a takedown take their stamps before they wait for the row, so the one that
  waited writes an older `server_ts` over a newer one: devices past it never pull what it
  wrote, and a re-shared row can be older than its removal record, although
  `docs/architecture.md:702` says it "always carries a newer `server_ts` than any removal
  that preceded it". The upsert of a removal record can move that back in the same way.
- Pull: what commits between its two statements can withdraw an entry that the same
  answer then brings back.
- Blobs: a release can take the blob of an entry that is pushed meanwhile; an upload
  written after a mismatch was discarded belongs to no row, and one put over a good
  object before its confirmation is discarded, after it is not noticed. The sweep and the cleanup
  ask nothing again before they write, and two entries that share a blob lose it together.
- Spaces: the cases of `raced`. A join sets its floor from a history policy that has
  changed since; approve and decline that both read a request as pending leave what
  committed last; a revoke or decline while an invite is accepted is overwritten, and a crash
  between the two commits of an acceptance leaves the invite pending.
- Hub: the cases of `lost`, `overtaken`, `slipped` and `orphans`. The comment at
  `dependencies.py:21-22` says that the cached answer "only matters if that delete fails", for
  60 seconds; a late set outlives the delete as well, and a socket let in meanwhile stays
  until its token expires. A socket dropped
  for not reading is unregistered first, so its goodbye is announced to no space.
- Presence: the cases of `excused`. A teardown whose DEL fails after its SREM leaves
  nothing for the sweep to find, and the user reads as online to the spaces; a new
  socket of a device is wiped by the teardown of its old one until the next
  pong, which restores the keys and announces nothing.
- Devices: a revocation that reads no wrap while one is being stored leaves it on the
  revoked device (restore is refused all the same); two first registrations at
  once make two rows; two first keys at once, or a key set while a reset goes
  through, can leave an envelope whose key is not the proven one; after a reset the
  recovery envelope, the wraps and the identity key are those of the old key.
- Settings: a PUT with no base and the stored timestamp replaces the blob and keeps the
  timestamp, so a merge from the old blob still passes.
- Tokens: the slot is spent before the fetch, so tokens of a new key are refused while
  it is under way and, if it fails, for the rest of the cooldown. One answer with no usable
  key refuses every token for as long as it is kept, since no refetch is tried for it.

## Not modelled

The wire formats, encryption and key envelopes; HTTP routing, rate limits and body
limits; comments, announcements, administration, email and web pages, which keep
single rows that nothing else decides on; signatures and claims of tokens; the
`entry_type` filter of a pull; `update_cursor`, which nothing else reads; sizes of
blobs; a push whose `space_ids` repeat an id; the 90-day pruning of removal
records. In `Spaces`: comments; events and pushes to the clients; expiry, which only
refuses; an invitee without an account (an invite by email is bound to an account when it
is accepted); a space whose owner has not wrapped its first key yet; an owner who mints twice
for one departure. `update_space` clears floors with one UPDATE statement, which the
model treats like the other changes of the request.

In `Hub`: a socket's rate limit, messages that move no socket and carry no
entry, other users, and the Redis side of several replicas. In `Presence`: other
users, and the user's own channel. In `Devices`: names, times, device public keys and
`pw_wrapped_umk_prev`, which is written and never read.

## Plan

1. `SyncStore`, `SyncPull`, `BlobStore`, `Spaces`, `Hub`, `Presence`, `Devices`, `Settings`
   and `Tokens`, with the proofs above: done.
2. `OfflineIsTrue` and `ToldOrOwed`, `Ledger`, and the safety halves of `Converges`,
   `RevokedLeaves` and `RefusedAtLast`: done.
3. `SyncStore` implementing an abstract store of one author per entry and space while
   requests do not overlap; the safety halves of `Settles`, `Reclaimed` and `Forgotten`;
   the 90-day pruning of removal records against a device that was away.
