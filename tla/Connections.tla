---------------------------- MODULE Connections ----------------------------
(***************************************************************************)
(* The registry of WebSocket clients (backend/app/websocket.py) and the    *)
(* endpoint that serves one of them: that of routers/ws.py, or that of     *)
(* routers/meshtastic.py, which has a registry of its own.                 *)
(*                                                                         *)
(* All of it runs on one event loop; a coroutine gives way at each await:  *)
(* while a connection is accepted and after each send of a broadcast, so   *)
(* that several broadcasts and several endpoints are under way at a time.  *)
(*                                                                         *)
(* A message is either plain or dated: the events of MeshStore that carry  *)
(* a whole node, thread, message or the statistics hold datetime objects,  *)
(* which the JSON encoder of send_json refuses with an exception, that     *)
(* broadcast takes for a client that is gone.                              *)
(*                                                                         *)
(* The names of the specification are the module's own, so that it can     *)
(* be extended together with others.                                       *)
(***************************************************************************)
EXTENDS Naturals, FiniteSets

CONSTANTS
  Radio,          \* the endpoint is that of routers/meshtastic.py
  MaxClients,     \* bound: connections
  MaxConnections, \* ConnectionManager.MAX_CONNECTIONS
  MaxBroadcasts   \* bound: broadcasts of store events in a behaviour

ASSUME ClientsAssumption == MaxClients \in Nat /\ MaxBroadcasts \in Nat

\* Connections, in the order in which they are made.
Client == 1 .. MaxClients

VARIABLES
  socket,    \* [Client -> {"new", "open", "gone"}]: as the browser has it
  endpoint,  \* [Client -> Stage]: how far websocket_endpoint is
  number,    \* [Client -> Nat]: its client_id
  counter,   \* _client_counter
  active,    \* active_connections: a set of <<client_id, websocket>>
  tasks,     \* the broadcasts under way
  deafened,  \* history: clients a dated message has removed
  started    \* broadcasts of store events so far

clientVars == <<socket, endpoint, number, counter, active, tasks, deafened, started>>

\* "cut": ended by a message that is too large or has no text.
Stage == {"new", "accepting", "welcome", "serving", "over", "cut"}
Kind == {"plain", "dated"}

\* left is what is left of the snapshot, failed the ids marked for removal.
Task == [ kind : Kind, left : SUBSET (Nat \X Client), failed : SUBSET Nat ]

Ids(entries) == { e[1] : e \in entries }

\* Assignment to a key of the dictionary, and the deletion of keys.
Put(id, c) == { e \in active : e[1] # id } \cup {<<id, c>>}
Without(ids) == { e \in active : e[1] \notin ids }

-----------------------------------------------------------------------------
(* An endpoint.                                                            *)

\* The limit is looked at before accept is awaited.
Connect(c) ==
  /\ socket[c] = "new" /\ \A d \in 1 .. c - 1 : socket[d] # "new"
  /\ IF Cardinality(active) >= MaxConnections
       THEN /\ endpoint' = [endpoint EXCEPT ![c] = "over"]
            /\ socket' = [socket EXCEPT ![c] = "gone"]
       ELSE /\ endpoint' = [endpoint EXCEPT ![c] = "accepting"]
            /\ socket' = [socket EXCEPT ![c] = "open"]
  /\ UNCHANGED <<number, counter, active, tasks, deafened, started>>

\* Mutant: ids are given by the number of clients.
IdByCount == Cardinality(active)

NewId == counter

\* A browser that has gone lets accept raise.
Accept(c) ==
  /\ endpoint[c] = "accepting"
  /\ IF socket[c] = "gone"
       THEN /\ endpoint' = [endpoint EXCEPT ![c] = "over"]
            /\ UNCHANGED <<number, counter, active>>
       ELSE /\ endpoint' = [endpoint EXCEPT ![c] = "welcome"]
            /\ number' = [number EXCEPT ![c] = NewId]
            /\ counter' = counter + 1
            /\ active' = Put(NewId, c)
  /\ UNCHANGED <<socket, tasks, deafened, started>>

\* send_personal_message: one who is not registered gets nothing, one who
\* does not take it is removed.  The endpoint goes on to listen.
Personal(c) ==
  active' = IF number[c] \in Ids(active) /\ socket[c] = "gone"
              THEN Without({number[c]}) ELSE active

Welcome(c) ==
  /\ endpoint[c] = "welcome"
  /\ Personal(c)
  /\ endpoint' = [endpoint EXCEPT ![c] = "serving"]
  /\ UNCHANGED <<socket, number, counter, tasks, deafened, started>>

\* Echo of a message that arrived before its sender left.
Echo(c) ==
  /\ endpoint[c] = "serving"
  /\ Personal(c)
  /\ active' # active
  /\ UNCHANGED <<socket, endpoint, number, counter, tasks, deafened, started>>

\* Mutant: the entry is left to the next broadcast.
KeepsEntry(c) == active

\* What the handler of WebSocketDisconnect leaves registered.
AfterDisconnect(c) == Without({number[c]})

\* receive_text raises WebSocketDisconnect; the others are told.
Disconnect(c) ==
  /\ endpoint[c] = "serving" /\ socket[c] = "gone"
  /\ endpoint' = [endpoint EXCEPT ![c] = "over"]
  /\ active' = AfterDisconnect(c)
  /\ tasks' = tasks \cup {[ kind |-> "plain", left |-> active', failed |-> {} ]}
  /\ UNCHANGED <<socket, number, counter, deafened, started>>

\* The endpoint closes on a message that is too large and leaves the loop, or
\* a frame without text ends it with an exception: neither is a disconnect.
Cut(c) ==
  /\ endpoint[c] = "serving" /\ socket[c] = "open"
  /\ endpoint' = [endpoint EXCEPT ![c] = "cut"]
  /\ socket' = [socket EXCEPT ![c] = "gone"]
  /\ UNCHANGED <<number, counter, active, tasks, deafened, started>>

\* The first message of the other endpoint, the status, reaches its client.
RadioWelcome(c) ==
  /\ endpoint[c] = "welcome" /\ socket[c] = "open"
  /\ endpoint' = [endpoint EXCEPT ![c] = "serving"]
  /\ UNCHANGED <<socket, number, counter, active, tasks, deafened, started>>

\* However it ends, by a client that has gone or a frame without text, it
\* leaves the registry, and tells nobody.
RadioEnd(c) ==
  /\ endpoint[c] = "serving" \/ (endpoint[c] = "welcome" /\ socket[c] = "gone")
  /\ endpoint' = [endpoint EXCEPT ![c] = "over"]
  /\ socket' = [socket EXCEPT ![c] = "gone"]
  /\ active' = AfterDisconnect(c)
  /\ UNCHANGED <<number, counter, tasks, deafened, started>>

Leave(c) ==
  /\ socket[c] = "open"
  /\ socket' = [socket EXCEPT ![c] = "gone"]
  /\ UNCHANGED <<endpoint, number, counter, active, tasks, deafened, started>>

-----------------------------------------------------------------------------
(* A broadcast.                                                            *)

\* broadcast_mesh_event of the store and mesh_update of the monitor, or the
\* events of the radio, which hold no datetime.
Broadcast(kind) ==
  /\ started < MaxBroadcasts /\ (Radio => kind = "plain")
  /\ started' = started + 1
  /\ tasks' = tasks \cup {[ kind |-> kind, left |-> active, failed |-> {} ]}
  /\ UNCHANGED <<socket, endpoint, number, counter, active, deafened>>

Takes(c, kind) == kind = "plain" /\ socket[c] = "open"

\* The clients are served in the order of their registration.
Send(task) ==
  \E e \in task.left :
    /\ \A f \in task.left : e[1] <= f[1]
    /\ tasks' = (tasks \ {task}) \cup
         {[ task EXCEPT !.left = @ \ {e},
                        !.failed = IF Takes(e[2], task.kind) THEN @ ELSE @ \cup {e[1]} ]}
    /\ deafened' = IF task.kind = "dated" THEN deafened \cup {e[2]} ELSE deafened
    /\ UNCHANGED <<socket, endpoint, number, counter, active, started>>

\* Clients marked for removal are removed when all have been served.
Finish(task) ==
  /\ task.left = {}
  /\ tasks' = tasks \ {task}
  /\ active' = Without(task.failed)
  /\ UNCHANGED <<socket, endpoint, number, counter, deafened, started>>

ClientsInit ==
  /\ socket = [c \in Client |-> "new"]
  /\ endpoint = [c \in Client |-> "new"]
  /\ number = [c \in Client |-> 0]
  /\ counter = 0 /\ active = {} /\ tasks = {} /\ deafened = {} /\ started = 0

ClientsNext ==
  \/ \E c \in Client : Connect(c) \/ Accept(c) \/ Leave(c)
  \/ ~ Radio /\ \E c \in Client :
       Welcome(c) \/ Echo(c) \/ Disconnect(c) \/ Cut(c)
  \/ Radio /\ \E c \in Client : RadioWelcome(c) \/ RadioEnd(c)
  \/ \E kind \in Kind : Broadcast(kind)
  \/ \E task \in tasks : Send(task) \/ Finish(task)

ClientsSpec == ClientsInit /\ [][ClientsNext]_clientVars

-----------------------------------------------------------------------------
(* Properties.                                                             *)

\* Every variable keeps its type.
ClientsTypeOK ==
  /\ socket \in [Client -> {"new", "open", "gone"}]
  /\ endpoint \in [Client -> Stage]
  /\ number \in [Client -> 0 .. Cardinality(Client)]
  /\ counter \in 0 .. Cardinality(Client)
  /\ active \subseteq (0 .. Cardinality(Client)) \X Client
  /\ \A task \in tasks : task.kind \in Kind /\ task.left \subseteq Nat \X Client
                         /\ task.failed \subseteq Nat
  /\ deafened \subseteq Client
  /\ started \in 0 .. MaxBroadcasts

Listening(c) == endpoint[c] = "serving" /\ socket[c] = "open"

\* Whatever others do in the meantime, an open client that is served stays
\* registered under its own id, so that every later broadcast reaches it; only
\* a dated message removes it (ConnectionManager.disconnect, broadcast).
ListenersAreRegistered ==
  \A c \in Client : Listening(c) => <<number[c], c>> \in active \/ c \in deafened

\* A connection that is over holds no place among MAX_CONNECTIONS; one that
\* was cut holds its place until a broadcast finds it
\* (websocket_endpoint, except WebSocketDisconnect).
NoPlaceForTheDead ==
  \A c \in Client : endpoint[c] = "over" => c \notin { e[2] : e \in active }

\* "Clients connect to receive live updates about node status changes, new
\* connections, network events, and messages" (websocket_endpoint): an open
\* client that is served is registered.
ListenersHearUpdates ==
  \A c \in Client : Listening(c) => c \in { e[2] : e \in active }
=============================================================================
