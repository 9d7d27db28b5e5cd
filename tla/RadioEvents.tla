---------------------------- MODULE RadioEvents ----------------------------
(***************************************************************************)
(* The way of a packet of the Meshtastic radio to the browsers             *)
(* (backend/app/services/meshtastic_service.py, routers/meshtastic.py,     *)
(* the startup and shutdown of main.py).                                   *)
(*                                                                         *)
(* The thread that reads the serial port stores a text and calls the       *)
(* callbacks; one of them asks the event loop, by call_soon_threadsafe, to *)
(* put the event into an asyncio queue, from which a task takes it to the  *)
(* connection manager of /api/meshtastic/ws and then to that of /ws.  The  *)
(* startup blocks the loop until the callbacks are registered.  What a     *)
(* manager does with a message is in Connections, what the store does with *)
(* a report in MeshStore.                                                  *)
(*                                                                         *)
(* Events are numbered in the order in which the radio receives them.      *)
(***************************************************************************)
EXTENDS Naturals, Sequences, FiniteSets, SequencesExt

CONSTANTS
  MaxStored,     \* max_messages of the service
  Limit,         \* how many messages GET messages asks for
  MaxRadioEvents \* bound: packets the radio receives

ASSUME RadioAssumption ==
  MaxStored \in Nat \ {0} /\ Limit \in Nat \ {0} /\ MaxRadioEvents \in Nat

VARIABLES
  radioPhase, \* how far MeshtasticService.start and its caller are
  texts,      \* history: the events that are texts
  heard,      \* packets received
  messages,   \* _messages, the numbers of texts
  serial,     \* the serial thread: [doing, event]
  ready,      \* callbacks the event loop has still to run
  queue,      \* _event_queue
  hand,       \* what the event processor is passing on: [event, next]
  own,        \* what the manager of /api/meshtastic/ws has been given
  main        \* what the manager of /ws has been given

radioEventVars ==
  <<radioPhase, texts, heard, messages, serial, ready, queue, hand, own, main>>
loopVars == <<ready, queue, hand, own, main>>
serialVars == <<texts, heard, messages, serial>>

\* "listening": subscribed while SerialInterface is made; "ending": the
\* service is stopped and the loop about to be.
RadioPhase == {"down", "listening", "started", "hooked", "failed", "ending", "over"}
Event == 1 .. MaxRadioEvents
AtRest == [ doing |-> "idle", event |-> 0 ]
Empty == [ event |-> 0, next |-> "none" ]

Nearer(m, n) == IF m < n THEN m ELSE n

LoopRuns == radioPhase \in {"hooked", "failed", "ending"}

-----------------------------------------------------------------------------
(* Startup and shutdown.                                                   *)

\* The callbacks of PyPubSub are registered before the port is opened.
Subscribe ==
  /\ radioPhase = "down"
  /\ radioPhase' = "listening"
  /\ UNCHANGED <<serialVars, loopVars>>

\* It has not been opened: nothing is tried again.
OpenPort ==
  /\ radioPhase = "listening"
  /\ radioPhase' \in {"started", "failed"}
  /\ UNCHANGED <<serialVars, loopVars>>

\* add_ws_callback, and the end of the startup.
AddCallback ==
  /\ radioPhase = "started"
  /\ radioPhase' = "hooked"
  /\ UNCHANGED <<serialVars, loopVars>>

\* stop: the callbacks of PyPubSub are gone.
Shutdown ==
  /\ radioPhase = "hooked"
  /\ radioPhase' = "ending"
  /\ UNCHANGED <<serialVars, loopVars>>

LoopEnds ==
  /\ radioPhase \in {"ending", "failed"}
  /\ radioPhase' = "over"
  /\ UNCHANGED <<serialVars, loopVars>>

-----------------------------------------------------------------------------
(* The serial thread.                                                      *)

Does(what, e) == serial' = [ doing |-> what, event |-> e ]

Hears == radioPhase \in {"listening", "started", "hooked"}

\* _on_receive of a text, _on_node_info_updated.  Other packets end here.
Packet(text) ==
  /\ Hears /\ serial = AtRest /\ heard < MaxRadioEvents
  /\ heard' = heard + 1
  /\ IF text THEN Does("store", heard') /\ texts' = texts \cup {heard'}
             ELSE Does("notify", heard') /\ UNCHANGED texts
  /\ UNCHANGED <<radioPhase, messages, loopVars>>

\* Mutant: the oldest message makes room one message too early.
DropsEarly ==
  LET all == Append(messages, serial.event)
  IN  IF Len(messages) + 1 >= MaxStored THEN Tail(all) ELSE all

\* A deque of MaxStored elements.
Stored ==
  LET all == Append(messages, serial.event)
  IN  IF Len(all) > MaxStored THEN Tail(all) ELSE all

StoreText ==
  /\ serial.doing = "store"
  /\ messages' = Stored
  /\ Does("notify", serial.event)
  /\ UNCHANGED <<radioPhase, texts, heard, loopVars>>

\* broadcast_to_websockets, once it is among the callbacks.
Notify ==
  /\ serial.doing = "notify"
  /\ ready' = IF radioPhase \in {"hooked", "ending"} THEN Append(ready, serial.event)
              ELSE ready
  /\ serial' = AtRest
  /\ UNCHANGED <<radioPhase, texts, heard, messages, queue, hand, own, main>>

\* get_messages of the service.
Latest(n) == SubSeq(messages, IF Len(messages) > n THEN Len(messages) - n + 1 ELSE 1,
                    Len(messages))

\* GET messages: 503 when the service does not run.
ListedTexts == IF radioPhase = "hooked" THEN Latest(Limit) ELSE <<>>

-----------------------------------------------------------------------------
(* The event loop.                                                         *)

\* Mutant: what comes last is served first.
PutFirst == <<Head(ready)>> \o queue

\* put_nowait
PutEvent == Append(queue, Head(ready))

RunReady ==
  /\ LoopRuns /\ ready # <<>>
  /\ queue' = PutEvent
  /\ ready' = Tail(ready)
  /\ UNCHANGED <<radioPhase, serialVars, hand, own, main>>

\* _process_event_queue
Take ==
  /\ LoopRuns /\ hand = Empty /\ queue # <<>>
  /\ hand' = [ event |-> Head(queue), next |-> "own" ]
  /\ queue' = Tail(queue)
  /\ UNCHANGED <<radioPhase, serialVars, ready, own, main>>

\* _broadcast_to_websockets_internal: one manager after the other.
BroadcastOwn ==
  /\ LoopRuns /\ hand.next = "own"
  /\ own' = Append(own, hand.event)
  /\ hand' = [hand EXCEPT !.next = "main"]
  /\ UNCHANGED <<radioPhase, serialVars, ready, queue, main>>

BroadcastMain ==
  /\ LoopRuns /\ hand.next = "main"
  /\ main' = Append(main, hand.event)
  /\ hand' = Empty
  /\ UNCHANGED <<radioPhase, serialVars, ready, queue, own>>

RadioInit ==
  /\ radioPhase = "down" /\ texts = {} /\ heard = 0 /\ messages = <<>>
  /\ serial = AtRest /\ ready = <<>> /\ queue = <<>> /\ hand = Empty
  /\ own = <<>> /\ main = <<>>

Loop == RunReady \/ Take \/ BroadcastOwn \/ BroadcastMain

RadioNext ==
  \/ Subscribe \/ OpenPort \/ AddCallback \/ Shutdown \/ LoopEnds
  \/ Packet(TRUE) \/ Packet(FALSE) \/ StoreText \/ Notify
  \/ Loop

\* The loop runs its callbacks and its tasks.
RadioSpec == RadioInit /\ [][RadioNext]_radioEventVars /\ WF_radioEventVars(Loop)

-----------------------------------------------------------------------------
(* Properties.                                                             *)

\* Every variable keeps its type.
RadioTypeOK ==
  /\ radioPhase \in RadioPhase /\ texts \subseteq Event /\ heard \in 0 .. MaxRadioEvents
  /\ {messages, ready, queue, own, main} \subseteq Seq(Event)
  /\ serial \in [ doing : {"idle", "store", "notify"}, event : 0 .. MaxRadioEvents ]
  /\ hand \in [ event : 0 .. MaxRadioEvents, next : {"none", "own", "main"} ]

\* The events on their way to the manager of /ws.
OnTheWay == (IF hand = Empty THEN <<>> ELSE <<hand.event>>) \o queue \o ready

\* From call_soon_threadsafe to the manager of /ws the events of the radio go
\* through a channel that loses, repeats and reorders nothing and delivers
\* while the loop runs (broadcast_to_websockets, _process_event_queue).
Channel == INSTANCE FifoChannel WITH
  sent <- main \o OnTheWay, received <- main, closed <- radioPhase = "over"
ImplementsChannel == Channel!Spec

\* While the service runs, a text a browser has been told of is in the answer
\* to GET messages, or as many newer ones as that holds have come since: who
\* asks for the messages when he hears of a text finds it (_on_receive).
AnnouncedIsListed ==
  radioPhase = "hooked" =>
    \A e \in (ToSet(own) \cup ToSet(main)) \cap texts :
      \/ e \in ToSet(ListedTexts)
      \/ Cardinality({ t \in texts : t > e }) >= Nearer(Limit, MaxStored)
=============================================================================
