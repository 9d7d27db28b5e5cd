--------------------------- MODULE IntelBroadcast ---------------------------
(***************************************************************************)
(* The WebSocket clients of the intelligence API                           *)
(* (backend/intelligence_api.py): the list active_connections, the handler *)
(* of a connection, and the tasks that walk the list while others change   *)
(* it: periodic_topology_broadcast, and record_observation, a task for     *)
(* every observation that is posted.                                       *)
(*                                                                         *)
(* send_json is an await: between two clients everything else may run.     *)
(* Python walks a list by index, and looks at its length at every turn.    *)
(* What a message says is left out.                                        *)
(***************************************************************************)
EXTENDS Naturals, Sequences, FiniteSets, SequencesExt, Ordering

CONSTANTS
  MaxViewers, \* bound: connections
  Walker,     \* who broadcasts: requests, and
  Periodic,   \* periodic_topology_broadcast
  MaxWalks    \* bound: broadcasts

ASSUME IntelAssumption == MaxViewers \in Nat /\ MaxWalks \in Nat

\* Connections, in the order in which they are made.
Viewer == 1 .. MaxViewers

VARIABLES
  conns,   \* active_connections
  handler, \* [Viewer -> what intelligence_websocket is doing]
  alive,   \* clients whose socket is not closed
  walk,    \* [Walker -> the broadcast_to_clients it is in]
  broadcasts

intelVars == <<conns, handler, alive, walk, broadcasts>>

\* disconnected: those that did not take the message; at the start, served,
\* removed: history, the list at the start, whom send_json was called for and
\* who left the list while the task walked it.
Walk == [ doing : {"none", "next", "send"}, index : Nat, disconnected : Seq(Viewer),
          start : SUBSET Viewer, served : SUBSET Viewer, removed : SUBSET Viewer ]
Away == [ doing |-> "none", index |-> 0, disconnected |-> << >>,
          start |-> {}, served |-> {}, removed |-> {} ]

\* The list without some of its clients.
Remaining(list, gone) == Part(list, { i \in DOMAIN list : list[i] \notin gone })

\* How a walk of another sees that clients leave the list.
Seen(w, gone) == IF w.doing = "none" THEN w ELSE [w EXCEPT !.removed = @ \cup gone]

-----------------------------------------------------------------------------
(* Connections.                                                            *)

\* authenticate_websocket closes on a missing or unknown token.
Refuse(c) ==
  /\ handler[c] = "none" /\ \A d \in 1 .. c - 1 : handler[d] # "none"
  /\ handler' = [handler EXCEPT ![c] = "over"]
  /\ UNCHANGED <<conns, alive, walk, broadcasts>>

\* Authenticated, accepted, appended.  The initial state it is then sent fails
\* as receive_text does.
Join(c) ==
  /\ handler[c] = "none" /\ \A d \in 1 .. c - 1 : handler[d] # "none"
  /\ handler' = [handler EXCEPT ![c] = "receives"]
  /\ conns' = Append(conns, c)
  /\ alive' = alive \cup {c}
  /\ UNCHANGED <<walk, broadcasts>>

Hangup(c) ==
  /\ c \in alive
  /\ alive' = alive \ {c}
  /\ UNCHANGED <<conns, handler, walk, broadcasts>>

\* WebSocketDisconnect of receive_text, or sending has failed.  When somebody
\* else has removed the client, remove raises, which changes nothing.
HandlerEnds(c) ==
  /\ handler[c] = "receives" /\ c \notin alive
  /\ handler' = [handler EXCEPT ![c] = "over"]
  /\ conns' = Remaining(conns, {c})
  /\ walk' = [ t \in Walker |-> Seen(walk[t], {c} \cap ToSet(conns)) ]
  /\ UNCHANGED <<alive, broadcasts>>

-----------------------------------------------------------------------------
(* broadcast_to_clients                                                    *)

BeginWalk(t) ==
  /\ broadcasts < MaxWalks
  /\ walk' = [walk EXCEPT ![t] = [Away EXCEPT !.doing = "next", !.start = ToSet(conns)]]
  /\ broadcasts' = broadcasts + 1
  /\ UNCHANGED <<conns, handler, alive>>

\* One round after the other.
PeriodicTopology(t) == t = Periodic /\ walk[t] = Away /\ BeginWalk(t)

\* POST observation: each request that is accepted is a task of its own.
RecordObservation(t) == t # Periodic /\ walk[t] = Away /\ BeginWalk(t)

\* The next of the list as it now is.
SendNext(t) ==
  /\ walk[t].doing = "next" /\ walk[t].index < Len(conns)
  /\ walk' = [walk EXCEPT ![t].doing = "send", ![t].index = @ + 1,
                          ![t].served = @ \cup {conns[walk[t].index + 1]},
                          ![t].disconnected = Append(@, conns[walk[t].index + 1])]
  /\ UNCHANGED <<conns, handler, alive, broadcasts>>

\* Mutant: a client that fails is removed on the spot.
FailedLeaves(t, c) == Remaining(conns, {c})

\* The list when sending to c has failed.
AfterFailure(t, c) == conns

\* send_json has returned, or raised: a socket that is closed may still take
\* the message.
SentTo(t) ==
  /\ walk[t].doing = "send"
  /\ LET c == Last(walk[t].disconnected)
     IN  \/ /\ walk' = [walk EXCEPT ![t].doing = "next", ![t].disconnected = Front(@)]
            /\ UNCHANGED conns
         \/ /\ c \notin alive
            /\ walk' = [walk EXCEPT ![t].doing = "next"]
            /\ conns' = AfterFailure(t, c)
  /\ UNCHANGED <<handler, alive, broadcasts>>

\* Each of disconnected that is still there is removed; the first that is not
\* raises, and ends the clean-up and the broadcast.
CleanUp(t) ==
  LET failed == walk[t].disconnected
      removed == { failed[k] : k \in { k \in DOMAIN failed :
                                       \A j \in 1 .. k : failed[j] \in ToSet(conns) } }
  IN  /\ walk[t].doing = "next" /\ walk[t].index >= Len(conns)
      /\ conns' = Remaining(conns, removed)
      /\ walk' = [ u \in Walker |-> IF u = t THEN Away ELSE Seen(walk[u], removed) ]
      /\ UNCHANGED <<handler, alive, broadcasts>>

IntelInit ==
  /\ conns = << >> /\ handler = [ c \in Viewer |-> "none" ] /\ alive = {}
  /\ walk = [ t \in Walker |-> Away ] /\ broadcasts = 0

IntelNext ==
  \/ \E c \in Viewer : Refuse(c) \/ Join(c) \/ Hangup(c) \/ HandlerEnds(c)
  \/ \E t \in Walker : PeriodicTopology(t) \/ RecordObservation(t) \/ SendNext(t) \/ SentTo(t) \/ CleanUp(t)

IntelSpec == IntelInit /\ [][IntelNext]_intelVars

-----------------------------------------------------------------------------
(* Properties.                                                             *)

\* Every variable keeps its type, and a client is in the list once.
IntelTypeOK ==
  /\ conns \in Seq(Viewer) /\ IsInjective(conns) /\ alive \subseteq Viewer
  /\ handler \in [ Viewer -> {"none", "receives", "over"} ]
  /\ walk \in [ Walker -> Walk ] /\ broadcasts \in 0 .. MaxWalks

\* A client that was in the list when a broadcast began, and at its end still
\* is, has been sent the message, unless another left the list meanwhile: for
\* each that left, the walk by index passes over at most one
\* (broadcast_to_clients, which removes its own failures afterwards).
MissedOnlyByRemoval ==
  \A t \in Walker :
    walk[t].doing = "next" /\ walk[t].index >= Len(conns) =>
      Cardinality((walk[t].start \cap ToSet(conns)) \ walk[t].served)
        <= Cardinality(walk[t].removed)
=============================================================================
