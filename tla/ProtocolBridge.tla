--------------------------- MODULE ProtocolBridge ---------------------------
(***************************************************************************)
(* The multi-protocol bridge (deployment/backend/reticulum_bridge.py): the *)
(* packets of Reticulum, LXMF and Meshtastic become one message history.   *)
(*                                                                         *)
(* The startup runs on the event loop; the Reticulum stack and the serial  *)
(* interface call back on threads of their own, from the moment they are   *)
(* started, which is before the callbacks they are to call are registered. *)
(* Those callbacks schedule a broadcast on the event loop, which a thread  *)
(* without one cannot do: create_task raises, and the handler of the       *)
(* packet ends there.                                                      *)
(*                                                                         *)
(* A message is the number of its arrival.  The WebSocket clients of this  *)
(* program, the CoT documents and the camera streams are left out.         *)
(*                                                                         *)
(* The names of the specification are the module's own, so that it can     *)
(* be extended together with others.                                       *)
(***************************************************************************)
EXTENDS Naturals, Sequences, FiniteSets

CONSTANTS
  Sender,      \* Meshtastic nodes
  MaxHistory,  \* MAX_MESSAGE_HISTORY
  MaxPackets,  \* bound: packets that arrive
  MaxStarts    \* bound: starts of the process

ASSUME BridgeAssumption == MaxHistory \in Nat \ {0} /\ MaxPackets \in Nat /\ MaxStarts \in Nat

VARIABLES
  phase,      \* how far startup is
  hooks,      \* the callbacks that are registered
  nodes,      \* MeshtasticBridge.nodes
  thread,     \* [Thread -> where it is in aggregate_message]
  history,    \* message_history
  arrived,    \* history: messages appended since the start
  missed,     \* history: [Sender -> texts lost to node_discovered]
  identity,   \* the identity file
  address,    \* history: the identity the node last announced
  minted,     \* identities created so far
  packets, starts

bridgeVars == <<phase, hooks, nodes, thread, history, arrived, missed,
          identity, address, minted, packets, starts>>
processVars == <<hooks, nodes, thread, history, arrived, missed>>

Phase == {"down", "mint", "open", "write", "rns", "meshtastic", "running"}
Hook == {"rns message", "meshtastic message", "node"}
Thread == {"rns", "serial"}
NoFile == 0
Partial == MaxStarts + 1  \* a file that was cut short

-----------------------------------------------------------------------------
(* The startup.                                                            *)

\* Mutant: the file is never found.
NeverFound == FALSE

Found == identity # NoFile

Start ==
  /\ phase = "down" /\ starts < MaxStarts
  /\ starts' = starts + 1
  /\ phase' = IF Found THEN "rns" ELSE "mint"
  /\ address' = IF identity \in {NoFile, Partial} THEN address ELSE identity
  /\ UNCHANGED <<identity, minted, packets, processVars>>

\* No identity can be read from a file that was cut short; the destination
\* then makes one that nobody saves.
StartWithout ==
  /\ phase = "rns" /\ identity = Partial
  /\ minted' = minted + 1
  /\ address' = minted'
  /\ phase' = "meshtastic"
  /\ UNCHANGED <<identity, packets, starts, processVars>>

Mint ==
  /\ phase = "mint"
  /\ minted' = minted + 1
  /\ phase' = "open"
  /\ UNCHANGED <<identity, address, packets, starts, processVars>>

\* to_file opens the file, then writes it.
OpenIdentity ==
  /\ phase = "open"
  /\ identity' = Partial
  /\ phase' = "write"
  /\ UNCHANGED <<address, minted, packets, starts, processVars>>

WriteIdentity ==
  /\ phase = "write"
  /\ identity' = minted
  /\ address' = minted
  /\ phase' = "rns"
  /\ UNCHANGED <<minted, packets, starts, processVars>>

\* The Reticulum stack is up; then the serial interface.
StartMeshtastic ==
  /\ phase = "rns" /\ identity # Partial
  /\ phase' = "meshtastic"
  /\ UNCHANGED <<identity, address, minted, packets, starts, processVars>>

\* The callbacks are registered one after the other.
Register ==
  /\ phase = "meshtastic"
  /\ \/ "rns message" \notin hooks /\ hooks' = {"rns message"}
     \/ hooks = {"rns message"} /\ hooks' = hooks \cup {"meshtastic message"}
     \/ "meshtastic message" \in hooks /\ hooks' = Hook
  /\ phase' = IF hooks' = Hook THEN "running" ELSE phase
  /\ UNCHANGED <<nodes, thread, history, arrived, missed,
                 identity, address, minted, packets, starts>>

\* A new process has forgotten everything but the file.
Crash ==
  /\ phase # "down"
  /\ phase' = "down"
  /\ hooks' = {} /\ nodes' = {} /\ history' = <<>> /\ arrived' = 0
  /\ thread' = [t \in Thread |-> "idle"]
  /\ missed' = [s \in Sender |-> 0]
  /\ UNCHANGED <<identity, address, minted, packets, starts>>

-----------------------------------------------------------------------------
(* The packets.                                                            *)

Arrives == packets < MaxPackets /\ packets' = packets + 1
StaysUp == UNCHANGED <<phase, hooks, identity, address, minted, starts>>

\* _packet_received and _lxmf_delivery
RnsPacket ==
  /\ phase \in {"rns", "meshtastic", "running"} /\ thread["rns"] = "idle"
  /\ Arrives
  /\ thread' = IF "rns message" \in hooks THEN [thread EXCEPT !["rns"] = "append"]
               ELSE thread
  /\ UNCHANGED <<nodes, history, arrived, missed>> /\ StaysUp

\* Mutant: a node is listed once its discovery has been announced.
ListedAfterwards(s) == IF "node" \in hooks THEN nodes ELSE nodes \cup {s}

\* The nodes when the packet of s has been handled.
Listed(s) == nodes \cup {s}

\* _on_receive of a text.  The first packet of a sender is announced, and what
\* that raises ends the handler.
TextPacket(s) ==
  /\ phase \in {"meshtastic", "running"} /\ thread["serial"] = "idle"
  /\ Arrives
  /\ nodes' = IF s \in nodes THEN nodes ELSE Listed(s)
  /\ IF s \notin nodes /\ "node" \in hooks
       THEN /\ missed' = [missed EXCEPT ![s] = @ + 1]
            /\ UNCHANGED thread
       ELSE /\ thread' = IF "meshtastic message" \in hooks
                           THEN [thread EXCEPT !["serial"] = "append"] ELSE thread
            /\ UNCHANGED missed
  /\ UNCHANGED <<history, arrived>> /\ StaysUp

\* _on_receive of a position or of node info.
OtherPacket(s) ==
  /\ phase \in {"meshtastic", "running"} /\ thread["serial"] = "idle"
  /\ Arrives
  /\ nodes' = nodes \cup {s}
  /\ UNCHANGED <<thread, history, arrived, missed>> /\ StaysUp

-----------------------------------------------------------------------------
(* aggregate_message, by either thread, with the other at any of its steps *)

AppendMessage(t) ==
  /\ thread[t] = "append"
  /\ history' = Append(history, arrived + 1)
  /\ arrived' = arrived + 1
  /\ thread' = [thread EXCEPT ![t] = "check"]
  /\ UNCHANGED <<nodes, missed, packets>> /\ StaysUp

CheckLength(t) ==
  /\ thread[t] = "check"
  /\ thread' = [thread EXCEPT ![t] = IF Len(history) > MaxHistory THEN "pop" ELSE "idle"]
  /\ UNCHANGED <<nodes, history, arrived, missed, packets>> /\ StaysUp

\* Mutant: pop() takes the newest message.
WithoutNewest == SubSeq(history, 1, Len(history) - 1)

WithoutOldest == Tail(history)

\* create_task raises; whoever called catches it.
Pop(t) ==
  /\ thread[t] = "pop"
  /\ history' = WithoutOldest
  /\ thread' = [thread EXCEPT ![t] = "idle"]
  /\ UNCHANGED <<nodes, arrived, missed, packets>> /\ StaysUp

BridgeInit ==
  /\ phase = "down" /\ hooks = {} /\ nodes = {} /\ history = <<>> /\ arrived = 0
  /\ thread = [t \in Thread |-> "idle"]
  /\ missed = [s \in Sender |-> 0]
  /\ identity = NoFile /\ address = 0 /\ minted = 0
  /\ packets = 0 /\ starts = 0

BridgeNext ==
  \/ Start \/ StartWithout \/ Mint \/ OpenIdentity \/ WriteIdentity
  \/ StartMeshtastic \/ Register \/ Crash
  \/ RnsPacket
  \/ \E s \in Sender : TextPacket(s) \/ OtherPacket(s)
  \/ \E t \in Thread : AppendMessage(t) \/ CheckLength(t) \/ Pop(t)

BridgeSpec == BridgeInit /\ [][BridgeNext]_bridgeVars

-----------------------------------------------------------------------------
(* Properties.                                                             *)

\* Every variable keeps its type.
BridgeTypeOK ==
  /\ phase \in Phase /\ hooks \subseteq Hook /\ nodes \subseteq Sender
  /\ thread \in [Thread -> {"idle", "append", "check", "pop"}]
  /\ history \in Seq(1 .. MaxPackets) /\ arrived \in 0 .. MaxPackets
  /\ missed \in [Sender -> 0 .. MaxPackets]
  /\ {identity, address, minted} \subseteq 0 .. Partial
  /\ packets \in 0 .. MaxPackets /\ starts \in 0 .. MaxStarts

\* The history is the latest messages in the order of their arrival, also
\* while both threads are at work; when they are done it is full up to one
\* place, since both may find it too long by the same message
\* (aggregate_message, MAX_MESSAGE_HISTORY).
HistoryIsLatest ==
  LET last == arrived - Len(history)
  IN  /\ \A i \in DOMAIN history : history[i] = last + i
      /\ Len(history) <= MaxHistory + Cardinality(Thread)
      /\ (\A t \in Thread : thread[t] = "idle") =>
           /\ Len(history) <= MaxHistory
           /\ Len(history) >= arrived \/ Len(history) >= MaxHistory - 1

\* A sender whose discovery ended the handler has lost that one text and loses
\* no more while the process lives (MeshtasticBridge._on_receive).
OneTextMissed == \A s \in Sender : missed[s] <= 1

\* Once it has announced itself a node keeps its identity over crashes and
\* restarts and makes no other, unless one of them cut the identity file short
\* (ReticulumManager.start).
AddressIsKept ==
  [][ address # 0 /\ identity # Partial => UNCHANGED <<address, identity, minted>> ]_bridgeVars
=============================================================================
