# Verification of MYC3LIUM

TLA+ models of the parts of MYC3LIUM whose correctness depends on the order in
which things happen: TLC checks them on small instances, TLAPS proves their
types and safety properties for every value of their constants.

| module | what it is |
|---|---|
| `LoRaReassembly`, `LoRaReassemblyProofs` | fragmentation, radio channel and reassembly of the LoRa TAP bridge |
| `LoRaIds`, `LoRaReassemblyProofs` | who has used each of the link's 16 ids and how long it has been silent; what the ids can be trusted with |
| `MeshStore`, `MeshStoreProofs` | the backend's node and thread store, the serial thread and the event loop that write to it |
| `ConfigService`, `ConfigServiceProofs` | the configuration file, its cached copies, the JWT secret |
| `AuthSessions`, `AuthSessionsProofs` | sessions and tokens: login, refresh, logout, deactivation, cleanup |
| `Backhaul`, `NetworkProofs` | access point, internet client, captive portal: scripts of privileged calls that overlap, fail and are cut short |
| `Connections`, `EventProofs` | the registry of WebSocket clients, an endpoint and the broadcasts |
| `LiveView`, `EventProofs` | from batctl over monitor, data source and store to one browser |
| `Messages`, `ListProofs` | the messages of the store, their sources and their paging |
| `RadioEvents`, `EventProofs` | the way of a Meshtastic packet to the browsers |
| `FifoChannel` | what that way promises: a channel that loses, repeats and reorders nothing |
| `ProtocolBridge`, `EventProofs` | the multi-protocol bridge: startup, identity, two receiving threads, history |
| `MeshRouter`, `NetworkProofs` | the adaptive router: link measurements, Dijkstra, the update thread |
| `PositionFeed`, `ServicesProofs` | GPS driver and the task that feeds the sensor fusion |
| `IntelBroadcast`, `ListProofs` | the WebSocket clients of the intelligence API |
| `Ordering` | `sorted()` and `list.remove`, for `Messages` and `IntelBroadcast` |
| `MCLoRaReassembly`, `MCLoRaIds`, `MCMeshStore`, `MCConfigService`, `MCAuthSessions` | definitions TLC needs: headers of foreign packets, symmetry |
| `MCServices`, `ServicesProofs` | one small instance of each service from `Backhaul` on, in one run |

`tlc -config X.cfg MCModule` runs a configuration, `tlapm ModuleProofs.tla`
checks the proofs. `PROJECT.json` lists runs, findings and hazards and, under
"map", the source lines every definition stands for.

## 1. Inventory

MYC3LIUM turns a Raspberry Pi into a mesh node. A Python backend (FastAPI)
keeps what is known of the mesh and configures the device, a React frontend
shows it, C daemons bridge Ethernet over LoRa and HaLow. Beside the backend run
a bridge between mesh protocols, a router and an intelligence API for ATAK.

### LoRa TAP bridge (`firmware/lora-bridge`)

* *State*: `next_frag_id` (static in `fragment.c`), `reassembly_list` (linked
  list of at most 16 entries with mask, buffer, length, `first_seen`),
  `last_cleanup` of `main`.
* *Operations*: `handle_tap_read` (read a frame, cut it, transmit each fragment
  and wait for TX_DONE), `handle_lora_irq` (read a packet, decode, reassemble,
  write to TAP), `reassembly_cleanup_expired`.
* *Interaction*: one process, one `select()` loop; with the other bridges over
  a shared half-duplex channel that loses packets; with systemd, which restarts it.
* *Hard*: ids of 4 bits shared by all senders; ids that wrap while old entries
  live; restarts on either side; a cleanup period equal to the timeout; the
  limits of header, fragment and radio differing by one byte.
* *Correct when*: an entry holds what was received for it and nothing else,
  the table cannot fill up, leftovers go away in bounded time, what is
  delivered was sent.

### Mesh store, Meshtastic service and bridge (`services/mesh_store.py`, `meshtastic_service.py`, `meshtastic_bridge.py`)

* *State*: `_nodes`, `_threads`, `_messages` of the store (dictionaries, no
  lock); `_nodes` and `_ws_callbacks` of the service (one lock).
* *Operations*: add, update and remove a node or thread, `merge_from_source`;
  a node report; `seed_meshtastic_nodes`; the sync callback.
* *Interaction*: the serial library's thread reports nodes and runs the
  callback that writes to the store; the event loop seeds the store at startup
  and then runs REST handlers and, every five seconds, the merge.
* *Hard*: two threads, check-then-act and read-modify-write without a lock,
  iteration over a dictionary that another thread resizes, exceptions that
  leave a call half done, a report between connection and seeding.
* *Correct when*: no radio that was heard is lost, links have their nodes,
  removals are complete, merges keep what came over the radio.

### Configuration service (`services/config_service.py`, `routers/config.py`)

* *State*: `_config` of each instance; the file and its temporary; with
  `auth_service`, `_jwt_secret_cache` and its lock.
* *Operations*: load, `update_section`, `create_default_config`, `_save`;
  `_get_jwt_secret`.
* *Interaction*: `config_svc` of `main.py` lives as long as the process;
  `_auth_required`, `_ws_auth_required` and `_get_jwt_secret` make an instance
  of their own each time. PATCH runs on the event loop, logins in pool threads.
* *Hard*: cached copies of one file, each saved whole; one temporary name for
  all savers; crashes and failing calls between open, write and rename.
* *Correct when*: the file is always whole, memory and file agree, a process
  signs with one secret, a save changes what it was asked to change.

### Authentication and sessions (`services/auth_service.py`, `routers/auth_router.py`, `db.py`)

* *State*: users and sessions in SQLite, tokens at the clients.
* *Operations*: login (in a pool thread: check the user, hash, insert a
  session, mint a token), verify, refresh, logout, create, update, deactivate
  (on the event loop, each atomic there), hourly cleanup.
* *Hard*: a deactivation between a login's check and its insert; a refresh
  that does not look at `active`; `PATCH users/{id}` that deactivates or
  demotes without the checks of `delete_user`.
* *Correct when*: a deactivated user has no valid session, a rejected token
  stays rejected, a token is renewed once, the cleanup logs nobody out.

### Mesh monitor, WebSocket fan-out, browser store (`routers/ws.py`, `websocket.py`, `live_data_source.py`, `batctl_service.py`, `frontend/src`)

* *State*: last topology of the monitor; `active_connections` and
  `_client_counter` of each manager; the browser's copy of nodes and threads.
* *Operations*: poll, compare, broadcast `mesh_update`, fetch, merge; connect,
  welcome, echo, disconnect, broadcast of store events; load, reload, reconnect.
* *Interaction*: one event loop; the monitor gives way only while it sleeps and
  broadcasts; a store event of the serial thread finds no running loop and is
  dropped; the browser reloads over REST when it hears `mesh_update`.
* *Hard*: `mesh_update` goes out before the merge that changes the store, the
  merge itself emits nothing, mock data replace a failed poll, responses to
  reloads cross, broadcasts and endpoints change one registry across awaits.
* *Correct when*: an open client stays registered, a closed one holds no place,
  the store comes to follow the mesh, a page at rest shows the store.

### Messages (`mesh_store.py`, `reticulum_service.py`, `routers/messages.py`)

* *State*: the inbox of Reticulum, `_messages` of the store, a client's cursor.
* *Hard*: a merge clears the messages and fills in the inbox or mock data; one
  message of which no `Message` can be made keeps all others out; ids are sender
  and second while the order is that of the full time; a cursor is an id looked
  for in a list that changes.
* *Correct when*: a message that was merged is shown, pages together are complete.

### Meshtastic event path (`meshtastic_service.py`, `routers/meshtastic.py`)

* *State*: the deque of texts, callbacks of the loop, `_event_queue`, the event
  the processor holds, two connection managers.
* *Hard*: callbacks run on the serial thread while the service starts and stops.
* *Correct when*: events arrive once and in order; who hears of a text finds it.

### Backhaul and access point (`backhaul_service.py`, `network_apply_service.py`, `myc3lium-netctl`)

* *State*: configuration, hostapd, dnsmasq, bridge, NAT and portal files of the system.
* *Operations*: apply client mode, access point, disabled, network; setup and
  its end; restart of a service; the startup, which applies again.
* *Hard*: each is a script of privileged calls, any of which may fail or time
  out; applies run in pool threads, beside a PATCH on the loop; crashes and reboots.
* *Correct when*: no access point without isolation, what a job reports is so,
  the portal ends with the setup.

### Multi-protocol bridge (`deployment/backend/reticulum_bridge.py`)

* *State*: identity file and address, node table, registered callbacks, history.
* *Hard*: packets on two threads before the callbacks exist; callbacks that need
  an event loop the thread does not have; a crash between opening and writing
  the identity; append, check and pop by two threads.
* *Correct when*: a node keeps its address, a sender loses one text at most, the
  history is the latest messages in order.

### Adaptive router (`myc3lium_router.py`)

* *State*: link metrics, transmission histories, the route table, the update thread.
* *Hard*: links of several radios, ties, unreachable and broken links; a
  transmission recorded without the lock breaks off a measurement; `stop` before
  `start`.
* *Correct when*: hop and radio of a route begin a shortest way.

### Intelligence API (`intelligence_api.py`, `intelligence.py`, GPS of `hardware_drivers_real.py`)

* *State*: `active_connections`, a list; port, error count and last position of
  the GPS driver; the last measurement of the fusion.
* *Hard*: tasks walk the list by index while others remove from it; a receiver
  that is pulled out and put back; a driver that stops trying.
* *Correct when*: a broadcast misses a client only for a removal, a receiver
  that works again is used again.

### Others

The SLIP decoder of the HaLow daemon must resynchronise at every END. The rate
limiter, the handheld firmware, the mock data, sensors and cameras, and the
graph analytics are in `PROJECT.json` with the reason why they are left out.

## 2. The models

### LoRaReassembly

A sender step is one `handle_tap_read()`: it takes the next id and puts the
fragments the radio accepts (`Transmits`) on the air, in order. A receiver step
is one iteration of the `select()` loop: at most one packet (`Receive`,
`ReceiveForeign`), then the cleanup if it is due (`EndOfIteration`, part of
every iteration). `Lose`, `SenderCrash` and `ReceiverRestart` are the failures.
`Tick` is one second of `time(NULL)`.

| variable | code |
|---|---|
| `nextFragId[s]` | `next_frag_id` of bridge s |
| `list` | `reassembly_list`; an entry has the fields of `reassembly_entry_t`, its buffer one chunk per index, and its age instead of `first_seen` |
| `sinceCleanup` | `now - last_cleanup` |
| `air[s]` | packets of s not yet received |
| `down[s]` | seconds until systemd restarts the daemon |
| `sent`, `tap` | histories of frames read from and written to TAP, in order |

A payload is the number of the frame it was cut from and its length. The bytes
of an encoded header, statistics and output are left out. `Stall` is the
longest iteration of the receiver's loop: the one second of `select()` plus,
when the receiver also sends a frame, up to half a second for each of its
fragments. Clock jumps are not modelled. `RestartSec` is 0 in `lora_link`,
which allows more than the unit file does. A sender keeps no gap between frames.

`LoRaIds` extends it by two histories: `users[m]` are the frames (0 for a
stranger's packet) that have used the id `m` since it was last silent for a
`Lifetime`, the time an entry can live, and `since[m]` is how long it has been
silent. Nothing is asked of the senders; every step is one of `LoRaReassembly`.
A frame whose id nobody else has used in that time (`Alone`) must come out whole
and, if it is one packet, at once: ids that wrap, that two senders take, or that
a restarted sender takes again are the only thing that may mix or lose frames.

### MeshStore

Two actors. `serial` runs `Hear` (the report, under the service's lock),
`Dispatch` and then the sync callback; `loop` runs the startup (`Register`,
`Snapshot`, `SeedNode`, `SeedLink`), then any REST handler that writes and any
merge. The code shared by callback and seeding (`Look`, `Get`, `Put`, `Add`,
`LinkLook` ... `LinkAdd`) is written once, with the actor as parameter.

Atomicity follows CPython, which changes threads at calls and loop
back-edges: a check and the write right after it (`add_node`, `add_thread`) are
one step; the read of `update_node` and its write, with the construction of a
`Node` between them, are two; the comprehension of a merge copies one element a
step and raises `RuntimeError` when the dictionary's size has changed since it
began. Handlers on the loop do not interleave with one another: none of them
awaits between its accesses.

`nodes[n]` is the number of the radio report the node's fields come from,
`threads` the set of link ids; `heard` is the service's table. `deleted` and
`strays` are histories. Messages are left out (no other state depends on them),
so are reads, and `update_thread` through REST, which changes only the data of a link.
`POST /api/nodes` accepts any id, so `CreateNode` may create a radio's.

### ConfigService

Threads are the event loop and the pool's workers. A save is three system
calls (`OpenTmp`, `WriteTmp`, `Rename`), each of which may fail; between any two
another thread may run or the process die (`Restart`). Files are inodes with
two names; the content of an inode is the set of configurations written into
it: none (empty), one (whole) or more (mixed up, when a second writer's data
were shorter than the first's). Loading anything but a whole file gives the
defaults, as `_load` does when parsing fails. `Patch` and `SaveDefaults` are
the REST calls, `ReadSecret`, `CreateSecret` and `Login` the paths through
`_get_jwt_secret`. A configuration is the secret and one value for all other
fields. Assumed: a write that fails writes nothing, a renamed file is on disk
(no `fsync` is modelled), mixed contents do not parse, PATCH bodies do not
carry `jwt_secret`. `overlap` and `behind` are histories.

### AuthSessions

A login is the three steps of `authenticate` in a thread of the pool:
`LoginCheck`, `LoginInsert`, `LoginMint`, or `LoginFails` at any point. Every
other handler (`Logout`, `Refresh`, `Deactivate`, `UpdateUser`, `Cleanup`) runs
on the event loop without awaiting between its database calls, so it is one
step. `RefreshBreaks` is a refresh that ends after its first commit, or after
its second but before the client has the token.

`sessions[i]` is a row and its token: `row` is the row's state, `left` and `exp`
the time until `expires_at` and the token's `exp`. `chain` and `late` are
histories: the login a session descends from, and whether that login had read
the user before a DELETE and inserted its session after it. Left out: creation
of users, node bindings, requests without a token when `require_auth` is false
(they change no session), and the copy of role and name inside a token, which
outlives a PATCH. Row and token expire together: the fraction of a second
between the two clock reads is not modelled.

### Connections

An endpoint is `Connect` (the limit is looked at), `Accept` (after the await:
id, registration), `Welcome`, `Echo`, and one of `Disconnect`, `Leave`, `Cut`.
A broadcast is a task with a snapshot of the registry: `Send` to one client a
step, then `Finish`, which removes the failed ids; any number of tasks and
endpoints are under way. `Radio` chooses between `routers/ws.py` and
`routers/meshtastic.py`, which differ in what they send first and in how they
end. A message is `plain` or `dated`: a dated one cannot be serialised, which
counts as a failure of every client. More clients than `MaxConnections` can be
admitted, since the limit is checked before an await; the model does so too.

### LiveView

`mesh_monitor_loop` is split where it gives way and where the world can change
between two of its calls: `Poll`, `PollLinks`, `Changed`, `Tell`, `FetchNodes`,
`FetchThreads`, `Merge`. The helper answers, fails or is absent, which puts mock
nodes or nothing into a round. The page opens, loads, registers its socket, loses it, hears
`mesh_update` and `node_removed` and asks again; answers may cross. `RemoveNode`
deletes any node, the radio's or one that BATMAN sees, which a merge brings back.
`reasons` is a history of what may leave a page behind: changes that reach it by
no message (a report of the serial thread, a POST), answers given before the
merge, crossed and lost answers, and a merge that brings back a node whose
`node_removed` is still on its way. `glitch` notes that mesh or helper were in
another state for just the time of a merge, so that, for one, mock nodes were
stored after a healthy poll, or that a peer was deleted after it.

### Messages, RadioEvents and FifoChannel

`Messages` has the writers of `_messages`: `ReceiveLxmf` and `MergeMessages` for
LXMF, `CreateMessage`, `DeleteMessage`, and a client that reads `FirstPage` and
`NextPage`. Clocks need not grow: an LXMF message has its sender's time. Times
are finer than seconds: the id of an LXMF message has the `Second` only, the order
is that of the full time, so a message that takes the place of another under one
id can stand elsewhere in the list. A message need not fit (`fits`): a text of
more than `max_length`, or a time that no datetime has, raises in the conversion,
and the merge stores mock messages for the whole inbox (`Fetched`). The
dictionary is the sequence of its values: `Assigned` says what a row of
assignments makes of it (a key keeps its first place and its last value).
Sorting and deleting are those of `Ordering`, where an element's place is the
number of elements before it.

`RadioEvents` follows a packet: `Packet`, `StoreText` (texts only), `Notify` on the
serial thread; `RunReady`, `Take`, `BroadcastOwn`, `BroadcastMain` on the loop;
`Subscribe`, `OpenPort`, `AddCallback`, `Shutdown`, `LoopEnds` around them.
`ImplementsChannel` maps it to `FifoChannel`: sent is what the manager of `/ws`
has been given, followed by what is in the processor's hand, in the queue and
among the loop's callbacks.

### Backhaul

A job is a sequence of calls of `myc3lium-netctl`, built when it begins
(`ClientScript`, `ApScript`, `ModeScript`, `NetworkScript`, `PortalScript`,
`BootScript`), and a step is the next call of some thread. `CallFails` lets the
call fail, with or without effect, and goes on as the code does: end the
script, skip to the clean-up, or carry on. `RestartBackend` cuts all scripts,
`Reboot` also empties the system. `reported` is what the last apply answered;
`overlapped`, `tainted` and `late` are the histories the properties need for
their exceptions. There is one USB adapter; contents of files and addresses are
left out.

### ProtocolBridge

`Start` to `WriteIdentity` are the startup up to the identity file, with
`Crash` at any point; `StartMeshtastic` and `Register` are the window in which packets arrive and no
callback is registered. `TextPacket` and `OtherPacket` are the serial thread,
`RnsPacket` that of Reticulum; `AppendMessage`, `CheckLength` and `Pop` are the
three steps of an append to the history, per thread.

### MeshRouter, PositionFeed, IntelBroadcast

`MeshRouter`: `ComputeRoutes` takes the lock, `Visit` and `RouteFound` are
the iterations of Dijkstra's loop, with `RecordTransmissions` in between (it
takes none) and `UpdateLinkMetrics` outside (it does). `UpdateInterrupted` is a
measurement that `record_transmission` breaks off while it counts the outcomes:
the link keeps its ETX, or has that of a new `LinkMetrics`. ETX is a scaled integer.

`PositionFeed`: a round of the task is one `Work`: read the driver, ask gpsd,
feed, send. The receiver is unplugged and put back, loses the sky, sends
garbled lines; the driver tries to reopen the port until it has failed `MaxErrors`
times in a row.

`IntelBroadcast`: `BeginWalk`, `SendNext`, `SentTo`, `CleanUp` walk the list by index
while `Join` and `HandlerEnds` change it; a clean-up ends at the first client
somebody else has removed, where `remove` raises.

### MCServices

The nine parts above share no modelled state: the calls between them (an event
of the radio that is broadcast, a merge that a page loads) are in the model of
the part they concern. They are checked in one run whose behaviours are those
of one part, chosen at the start (`Connections` for each of its two endpoints). All are
extended, so that the properties of the run are those of the theorems.

## 3. Runs

| run | checks | shows |
|---|---|---|
| `lora_link` | `TypeOK`, `UniqueIds`, `BufferMatchesMask`, `NeverFull`, `LifetimeBound`, `FirstCopyWins`, `Drains` | two senders with colliding ids, foreign packets that never cease, losses, restarts of every daemon: the table stays well formed and never full, leftovers have a bounded life, no stored piece is overwritten, no entry stays for good |
| `lora_ids` | `AloneIsWhole`, `SingleFragmentDelivered` | two senders without a gap, ids that wrap and collide, restarts sooner than an entry expires, a stranger: a packet whose id nobody else has used for an entry's lifetime completes nothing but the frame that was read, and a frame of one packet comes out at once |
| `lora_sources` | `SourcesKeptApart` (violated) | two senders with one id share an entry |
| `lora_whole` | `FramesGoOutWhole` (violated) | a full fragment is one byte longer than the driver accepts |
| `mesh_store` | `TypeOK`, `KnownRadiosListed`, `DanglingOnlyByRace` | callbacks against seeding, REST calls and merges: no heard radio is lost, and links without nodes have two known causes only |
| `mesh_merge` | `MergePreservesRadios` (violated) | a merge undoes an update made while it copies |
| `mesh_removal` | `RemovalIsComplete` (violated) | a link survives the removal of its node |
| `config_service` | `TypeOK`, `OneSecretPerProcess`, `FileIsWhole`, `MemoryIsOnDisk`, `LockReleased` | three threads, failing calls, restarts: without overlapping savers the file is whole and agrees with the memory; one secret per process; the lock is released |
| `config_secret` | `PatchKeepsSecret` (violated) | a PATCH writes the empty secret of its own copy over the one the first login created |
| `auth_sessions` | `TypeOK`, `OneTokenPerLogin`, `DeactivatedAreOut`, `NeverValidAgain`, `CleanupKeepsValid` | a login against deactivations, PATCHes, refreshes, logouts, cleanups: rejected tokens stay rejected, at most one valid token per login, only a login under way survives a deactivation |
| `services` | of `Backhaul`: `APIsolated`, `ReportedIsReal`, `PortalEnds` | no access point without isolation unless jobs overlapped; a job that ran alone leaves what it reports, whatever earlier failures left; the portal ends with the setup but for four named causes |
| | of `Connections`: `ListenersAreRegistered`, `NoPlaceForTheDead` | an open client leaves the registry only through a dated message; a connection that is over holds no place |
| | of `ProtocolBridge`: `HistoryIsLatest`, `OneTextMissed`, `AddressIsKept` | history in order and short by one at most; one text lost per sender; one address while the identity file is whole |
| | of `LiveView`: `PageShowsStore`, `StoreFollowsMesh` | a page at rest shows the store but for named causes; the store comes to follow the mesh |
| | of `Messages`: `PagesAreComplete`, `StoreShowsInbox` | while the cursor keeps its time, nothing twice and nothing that stayed is skipped; merged messages are shown if all fit, else none |
| | of `RadioEvents`: `AnnouncedIsListed`, `ImplementsChannel` | who hears of a text finds it; the event path is a FIFO channel |
| | of the others: `MissedOnlyByRemoval`, `RoutesAreShortest`, `FreshInTheEnd` | a broadcast misses one client per removal at most; routes begin shortest ways; a receiver that is back is used unless the driver has given up |
| | `TypeOK` | every part keeps its types |
| `deaf_listeners` | `ListenersHearUpdates` (violated) | a store event takes every open client off the list |

Every property of a passing run has a deliberate fault beside the definition it
changes (comments "Mutant"), with which TLC finds the property violated.

### Bounds

* *LoRa*: sizes are scaled, not changed in kind: payload 2, header 1, frames of
  up to 5 in at most 3 fragments (so that a short last fragment, a full one and
  an overflowing foreign one exist), 2 ids for a table of 2 (the code: 16 and
  16), timeout and period 2 (the code: 5 and 5), 3 frames, so that ids wrap and
  a third frame meets the remains of the first. `MCForeign` holds the headers
  at the limits. The radio's limit is 3, as if the driver accepted a full
  fragment: the lost ones are then a case of `Lose`. Frames are of 1 and 3
  packets in `lora_link`, of 1 and 2 in `lora_ids`. There timeout, period and stall are
  1, an entry lives for less than 3 seconds, and `RestartSec` is 2, shorter than
  that, as 10 is shorter than 5 + 5 + 1: a restarted sender meets its own remains,
  and so does one that wraps with its third frame (1.8 million states).
* *MeshStore*: the local radio and two remote ones, a BATMAN node, three
  reports, enough for a callback in every phase of a merge or removal with
  another radio's link present. The two violations need one remote radio.
* *ConfigService*: the loop and two workers (two for the lock, a third saver),
  two settings, two secrets. Saves and restarts are unbounded.
* *AuthSessions*: two users (one can be deactivated, an admin remains), one
  thread, two sessions in all: two logins, or a login and its refresh.
  Handhelds live longer than browsers, both longer than the refresh window.
  Three sessions were searched for five minutes without a violation, but the
  search does not end in that time.
* *Backhaul*: two pool threads and the loop, three events (requests, failing
  calls, restarts): two jobs that overlap with one failure, or a job, a crash
  and another job. Scripts of up to 12 calls are taken in full.
* *Connections*: two clients, two broadcasts, so that one client's broadcast
  meets the other's end. One place for `/ws`, where the second client is refused
  or admitted over the limit, two for the radio's endpoint.
* *ProtocolBridge*: history of 2, five packets, so that both threads trim a full
  history; three starts: one that makes an identity, one cut short, one after it.
* *LiveView*: one peer and one mock node, two changes of the world or the page:
  with more the search does not end in time. *Messages*: two sources, three times in two
  seconds, so that a message can replace one of another time, three messages,
  pages of one. *RadioEvents*: four packets for a deque of 2.
* *PositionFeed*: three errors (the code: five) and five changes, so that the driver can
  fail, recover and give up. *IntelBroadcast*: two clients, two tasks, three
  broadcasts. *MeshRouter*: three nodes, five links: two ways to each node and
  two radios to one of them; a window of 3 and two outcomes, so that a link can break.

`CHECK_DEADLOCK FALSE` where bounded frames or reports end the behaviour.

### Fairness

`LoRaReassembly!FairSpec`: weak fairness of `Tick` (time passes) and
`IdleIteration` (`select()` has a timeout, so a due cleanup is carried out).
For `Drains` `lora_link` is checked without symmetry of the senders.
Nothing obliges senders, channel or crashes. `ConfigService!FairSpec`: weak
fairness of each thread's save steps (a runnable thread is scheduled); nobody
has to send a request. `LiveView`: of the monitor, a task that sleeps and wakes
for ever; `RadioEvents`: of the loop, which runs its callbacks and tasks while it
runs; `PositionFeed`: of the fusion task. The world (mesh, radio, receiver,
clients) is never obliged, only assumed to come to rest where a property says
so. The other modules state no liveness.

## 4. Proofs

**LoRaReassemblyProofs** (`TypeCorrect`, `IdsUnique`, `BuffersMatch`,
`LifetimeBounded`, `TableNeverFull`, `StoredPiecesStay`). Assumed: sizes are
naturals, `MaxFragId <= MaxReassemblyEntries`, the packets are what
`Header` allows. The invariant is `TypeOK` with `TableOK(list)` (entries typed,
unique, buffers matching) and `YoungEnough(list, sinceCleanup)`. The last is
the strengthening the lifetime needs: `LifetimeBound` alone is not inductive,
since a tick makes an entry at the bound exceed it. `YoungEnough` says that an
entry's age is below `FragTimeout + sinceCleanup`: what a cleanup leaves is
younger than the timeout and ages at the pace of `sinceCleanup`, which is bounded by period
and stall. Overflow needs `TypeOK`: `Refuses` bounds `total`, `Decodes` the
index below it, `Overflows` the end. `NeverFull` counts: ids are unique, hence
entries map one to one into the ids. `StoredPiecesStay` shows that a stored
piece is replaced by no step, from uniqueness and the mask check.

The second part of the module (`AloneWritesWhole`, `SingleDelivered`) is about
`LoRaIds`: for any number of senders, which keep no gap, wrap and restart as they
like, every size and time limit and any foreign packets. Nothing is assumed of
the environment beyond the types of the constants. `IdInv` adds to `IInv` what
an entry tells (`EntryTells`): each piece is of a frame that the record of its id
names, is that frame's fragment at its place if a bridge sent it, and is no
longer on the air; and the entry is at least as old as its id has been silent.
The last is why the record can be cleared: an id that has been silent for a
`Lifetime` would have an entry older than `YoungEnough` allows, so it has none.
`PacketTells` says the same of a packet on the air. When the record names one
frame only, the entry holds pieces of that frame (`AloneParts`), and complete it
is the frame, since the last fragment ends where the frame does
(`CompleteIsFrame`, `FrameEnds`). A packet that is a frame by itself finds no
entry, for a piece of its own frame would be itself, and room, by `NeverFull`.

**ConfigServiceProofs** (`OneSecret`, `TypeCorrect`, `AlwaysWhole`,
`AlwaysOnDisk`). Assumed: finitely many workers, the defaults are settings, 0
is no secret. `OneSecret` rests on `Guarded`: who creates the secret holds the
lock while the cache is empty, so no other thread creates one and no token has
been minted. `TypeCorrect` needs it (a minted token has a secret) and a count:
there are two names and a thread about to open has no file open, so an unused
inode is left. `AlwaysWhole` and `AlwaysOnDisk` share `DiskInv`: while savers
do not overlap one thread saves at a time, its temporary file is not the
configuration, is empty before the write and holds its data before the rename,
and these data are the memory's, or the file's setting with a new secret.

**MeshStoreProofs** (`TypeCorrect`, `NoRadioLost`, `DanglingExplained`). Assumed:
the sets of nodes are finite, the local radio is a radio, `Absent` is no number.
Four parts are inductive together. `TypeInv` adds to the types that only links
of remote radios are looked for. `HeardInv`: a heard radio outside its callback
is listed, removed by REST, or awaited by the seeding; it needs that the
callback knows its radio from `get` on. `CopyInv`: what a merge has copied and
has still to copy are all radios of the store as long as the size is unchanged,
for the loop itself, the only one who removes, is busy merging; hence a merge
that ends drops nothing. `LinkInv`: a link without its nodes is marked, or about
to be removed. Each lemma has a step per action.

**AuthSessionsProofs** (`TypeCorrect`, `OneTokenEach`, `DeactivatedOut`,
`CleanupLogsNobodyOut`, `RejectedForGood`). Assumed: the lives are naturals. A row is good when
it is inserted and never again, so what all good rows have in common is kept by
whatever spoils rows (logout, deactivation, cleanup, time); a refresh spoils
its chain's one good row before it inserts the next. That row and token expire
together makes the cleanup harmless; that a thread about to mint is the only
one to do so for its row, and has its whole life left, makes it inductive.

**EventProofs** follows an event from a packet to the page, in four parts.

`ProtocolBridge` (`OneText`, `IdentityStays`, `HistoryInOrder`, `BridgeTypes`).
Assumed: the history is at least 1 long, numbers of packets and starts are
naturals. A sender that missed a text is listed; a whole file holds the
announced identity; the history is a window on the numbers of arrival, bounded
above by the threads that have still to trim it and below after all removals they
are about to make. The types rest on that window (a thread that pops finds
something) and on `WithinBounds` (texts and identities are no more than packets
and starts, which are counted before them).

`RadioEvents` (`RadioTypes`, `ChannelSteps`, `RadioListed`).
Assumed: the deque and the answer have a positive length, the bound is a natural.
`ChannelSteps`: initial states map to initial states, every step to a step of
`FifoChannel` or a stutter; a step moves an event from the end of one of
three places to the beginning of the next, and their concatenation stays.
`RadioListed` rests on `Passed` (what is announced has been stored) and `Kept`
(the deque holds the latest texts, each once, in order of arrival), and on counting: a
text that is among the latest of those stored is at that place of the deque.

`Connections` (`Registered`, `PlacesAreFreed`, `ClientsTypes`), for either
endpoint; only the types assume that the bounds are naturals. Ids come from a
counter: those of registered clients and those in snapshots of broadcasts are below it and not
shared, so what is removed by its id is removed from its own client; an id that
has failed is not that of a client who could take messages. For the types
`IdsCounted` says that the counter is not ahead of the clients that have been accepted.

`LiveView` (`LiveTypes`, `LiveShows`) is about a page, for every set of
peers; `MaxLiveEvents` is a natural. `PageShowsStore` speaks of a page at rest
and says nothing while questions and answers are under way. `PageInv` does: what
the page does not show of the store is explained by a reason, or made up for
by something on its way (`UnderWay`): a question that has not been answered, an
answer given since the store last changed, a merge that will tell the page.

**NetworkProofs** has two parts. The first is about `Backhaul` (`BackhaulTypes`,
`BackhaulIsolation`, `BackhaulReports`, `BackhaulPortal`), for `MaxApEvents` a natural: every number of requests, failing
calls and restarts. A script is read as what it will still do to the system:
`Scripted` says of the rest of a script that its calls are ordered (the rules
of isolation before the start of hostapd, what belongs to the end of a script at
its end), so a step leaves a rest of the same kind, wherever a call fails.
`IsolationInv` relates the rest to the system: hostapd runs without isolation
only where jobs have overlapped, or the rule is still to come from the script that started it. `ReportInv`
holds of the one runner that has not been overlapped: the calls done so far have left
what the rest builds upon, so that at the end it is what the job reports. `PortalInv`
(with `PortalGoes`) says of the portal's files that the script at work will remove them, or a
named cause has marked them.

The second is about `MeshRouter` (`RouterTypes`, `RoutesShortest`). Assumed: the
nodes are finitely many and this node is one of them, links join nodes,
the window and the scale are positive. `RoutesAreShortest` compares the
route table with a reference, the least length of a way of any number of
links. `SearchRight` is the invariant of Dijkstra's loop: previous nodes form a
tree whose ways are as long as `distance` says; what has been visited is nowhere
farther than what has not; no link of a visited node would shorten a distance.
When the loop ends, `distance` is a lower bound, since a function no link raises
by more than its ETX is raised by no way by more than its length (`Potential`),
and an upper bound, since the tree is made of ways (`TreeIsWays`). `Traced`
stops at the first hop of such a way. `RoutesInv` joins this to the steps of the
threads: a search works on the links under the lock. The theorem holds for
whatever ETX the links have, that of an interrupted measurement too; of a
route's cost it says nothing. Induction theorems with an operator
parameter cannot be used; `UpTo` replaces them by induction over a set of
numbers, from its least number, and `IterationExists` shows that the functions
of the reference exist.

**ListProofs** (`MissedForRemovals`, `PagesComplete`, `InboxShown`, and the types
`IntelTypes`, `MessagesTypes`) is about lists
that change while somebody goes through them. Its first part says what `Ordering`
computes, which is why `Ordering` is defined by counting: of a finite set with a
strict total order the elements have different numbers of elements before them
(`RanksAreAll`), so there is exactly one at every place (`InOrderIs`, `PartIs`),
without an induction over the length.

`MissedForRemovals` assumes that the bounds are naturals. A removal from the
list shifts others into the places the walk has left behind. `WalkRight` counts:
the clients passed over that are still in the list are no more than those that
have left it, and the count is over the places up to the index, so that
it can be kept when a removal moves other clients there (`RemainingIs`: as many
at most come in as go out).

`PagesComplete` and `InboxShown` assume that times are naturals, that there is
one, and that the page limit is at least 1, as `get_messages` demands. An
invariant about pages in a list that is rebuilt between them needs an order that
stays. `PlaceOf` gives it: an id's place among its equals in time is decided by
when the first message with that id arrived, and this never changes, though
merges clear and refill the dictionary. So `NotAfter` compares any messages that
may ever come to be in the store (`May`), also those that are not there now,
and `ReaderRight` can say of the cursor, deleted or not: what has been read is
not after it, and what is not after it and has stayed all the time has been
read. `HeldRight` says that the dictionary is in the order of places. The order
of the cursor is that of its id and the time it had when it was read, so all this
is said of a reader whose cursor has not been given to a message of another
time (`moved`). The theorem leaves that case open because the code does: the
page then begins at the new message's place.
`InboxShown` adds `StoreShowsInbox` to that invariant: if all fit, a merge leaves
the last message of each id (`AssignedIs`), else the mock message alone; an inbox
that is not empty means Reticulum has started, and between merges only a DELETE
takes a message of the inbox out and nothing brings one in.

**ServicesProofs** (`GpsTypes`, `TypeCorrect`). `GpsTypes` needs that a driver
whose port is open, pulled out since or not, has counted no error
(`GpsInv`): a failure is counted only below `MaxErrors`, which is positive.
`TypeCorrect` is `TypeOK` of `MCServices`: the invariants of all parts, each from
its own proof, hold together, since a step of the composition is one of the part
that runs, or of the second endpoint of `Connections`, and leaves the others alone
(`EachForItself`). The bounds are those of the parts; the constants of the run
that pick links and nodes are any.

With that every invariant of a passing run is a theorem, as are the action
properties and the refinements' safety. Only model-checked is what needs
fairness: `Drains`, `LockReleased`, `StoreFollowsMesh`, `FreshInTheEnd`, and the
liveness half of `ImplementsChannel`.

## 5. Findings

1. `sx1262.h:118`: the driver's limit is 254, a full fragment 255, so no frame
   of more than one fragment arrives (`lora_whole`). `fragment_encode` also
   writes the 255th byte past `wire_buf[254]`; what follows from that is
   covered by `SenderCrash`.
2. `fragment.c:152`: entries are found by the id alone, so sources mix
   (`lora_sources`); the security notes count on separate frames.
3. `mesh_store.py:398`: a merge undoes a concurrent update (`mesh_merge`).
4. `mesh_store.py:224`, `:129`: links of removed nodes remain (`mesh_removal`).
5. `config_service.py:143`: the JWT secret is lost at the first PATCH after the
   first login, and with it every token at the next restart (`config_secret`).

6. `websocket.py:57`: an event with a datetime in it cannot be sent as JSON;
   broadcast takes the exception for a client that has gone and drops every
   client, whose sockets stay open and hear nothing more (`deaf_listeners`).

Met on the way, without a run:

* *LoRa*: the bridge's README gives 5 s as reassembly timeout, an entry can live
  for `FragTimeout + CleanupPeriod + Stall`. Within that time a reused id (16
  frames later, by another bridge, or after `RestartSec=10`) can mix frames or
  swallow one: the condition in `AloneIsWhole`.
* *Configuration*: two overlapping saves can leave an empty or mixed file, which loads
  as the defaults (the condition in `FileIsWhole`); a crash between the two saves
  of the first boot leaves a device without its access point.
* *Sessions*: a login that has read the user before a deactivation gets a valid
  session after it, which `refresh_token` renews without looking at `active` (the
  exception in `DeactivatedAreOut`); PATCH can deactivate or demote the last
  admin, and leaves the sessions of a user it deactivates valid.
* *Backhaul*: a password of one's own completes the setup unnoticed, and the
  portal stays; the startup's search for a stale portal restarts dnsmasq in client mode; `disable_backhaul`
  removes NAT from the USB interface only; `restart-service hostapd` after
  client mode gives an access point without rules; overlapping applies can lift
  the isolation (the exceptions in `APIsolated`).
* *WebSockets*: more than `MAX_CONNECTIONS` can be admitted (`websocket.py:21`).
* *Messages*: one LXMF message that does not fit, such as one of more than 1024
  characters, makes every later merge replace all messages by mock ones, for the
  inbox is never cleared (`live_data_source.py:243`); a message under the
  cursor's id with another time makes a page repeat or skip messages (the
  exception in `PagesAreComplete`); what was posted vanishes at the next merge,
  without an event (`mesh_store.py:402`); deleted LXMF messages come back; two of
  a sender in one second share an id, which `routers/messages.py:123` calls
  unique, and only the second is kept; LXMF messages appear only when the mesh
  has changed; a deleted cursor ends the paging.
* *Radio*: the loss of the serial port is never noticed and a failed start not
  repeated; texts before `add_ws_callback` are stored and not announced.
* *Multi-protocol bridge*: the first packet of each sender is lost, messages
  before the registration are dropped, broadcasts of a thread never happen, and
  after a cut identity file every start makes a new identity.
* *Router*: the cost of a route is the ETX of its first hop (line 346), where the
  docstring says `total_cost` (line 308); a measurement that meets
  `record_transmission` raises, and leaves a new link with an ETX of 1 (line 199);
  `compute_routes`
  ignores which radios are active; a link between two other nodes is given this
  node's own loss; a start within 30 s of a stop leaves two update threads.
* *Position*: the last position is fed each second as a new measurement, which
  shrinks the covariance; the driver gives up for ever after five failures;
  gpsd is asked only while there has been no position; the presence of a GPS is
  decided at import.
* *Intelligence API*: the topology broadcast fails with a KeyError
  (`intelligence_api.py:437`) with a LoRa HAT and neighbours; a removal during a
  walk skips a client; `remove` raises for one that has been removed
  (`intelligence_api.py:329`), which aborts the rest of the clean-up.

## 6. Not modelled, and the plan

Not modelled: the driver of the SX1262 and the IRQ loop (what they do to a
frame is a loss); sending over Meshtastic, Reticulum and LXMF, calls into their
libraries; `apply_halow`, `apply_meshtastic` and the detection of adapters and
bands; the bridge's WebSocket clients, ATAK documents and cameras; the numbers
of the Kalman filter, TX power and `select_best_radio`; the second socket that
`ws.ts:83` can open; `PROJECT.json` has the reason for each component. In the multi-protocol bridge two hazards are left
out: a set of clients that changes while it is walked (`reticulum_bridge.py:648`)
and the KeyError at line 640.

Next, in this order:

1. `SlipDecoder`: the escape state across END, as a recursive function against
   a reference decoder.
2. The IRQ loop of the LoRa bridge (late TX_DONE, missed RX_DONE).
3. The second socket of the browser, and its threads and messages.

Out of reach: liveness and fairness in TLAPS; timing inside the SX1262 driver;
what external commands do to the network.
