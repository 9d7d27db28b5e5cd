---------------------------- MODULE EventProofs -----------------------------
(***************************************************************************)
(* Proofs about the way of an event, from a packet of the radio networks   *)
(* to the page of a browser.                                               *)
(*                                                                         *)
(* ProtocolBridge: for every set of senders, every length of the history   *)
(* and every number of packets and starts.  The history is a window on the *)
(* numbers of arrival.  Its length is bounded by the threads that have     *)
(* still to trim it from above, and, after all the removals they are about *)
(* to make, from below.                                                    *)
(*                                                                         *)
(* RadioEvents: the way of the radio's events to the browsers implements a *)
(* FIFO channel, for every number of events: each step of the detailed     *)
(* specification is a step of FifoChannel or leaves it unchanged.  What    *)
(* has been sent and not received lies in three places: in the hand of the *)
(* event processor, in the asyncio queue and among the callbacks of the    *)
(* loop.  A step moves an event from the end of one to the beginning of    *)
(* the next, and their concatenation does not change.                      *)
(* Last, the texts that are kept: the deque holds the newest of them, so   *)
(* that what is announced is in the answer or has been followed by as many *)
(* as that holds.                                                          *)
(*                                                                         *)
(* Connections, the registry of WebSocket clients: for either endpoint and *)
(* for every number of clients and of broadcasts and every limit.          *)
(*                                                                         *)
(* The argument is the id.  It is taken from a counter, so that no two     *)
(* clients that are registered, and none that a broadcast still has in its *)
(* snapshot, have the same: what is removed by its id is removed from its  *)
(* own client.                                                             *)
(*                                                                         *)
(* LiveView, for every set of peers: what the page does not show of the    *)
(* store is made up for by a question, an answer or a message that is on   *)
(* its way.                                                                *)
(***************************************************************************)
EXTENDS Connections, LiveView, ProtocolBridge, RadioEvents,
        FiniteSetTheorems, SequenceTheorems, TLAPS

-----------------------------------------------------------------------------
(* A new sender.                                                           *)

\* A sender that has missed a text is listed.
MissedAreListed ==
  /\ nodes \subseteq Sender
  /\ missed \in [Sender -> Nat]
  /\ \A s \in Sender : missed[s] <= 1 /\ (missed[s] # 0 => s \in nodes)

LEMMA MissedInit == BridgeInit => MissedAreListed
  BY DEF BridgeInit, MissedAreListed

LEMMA MissedStep == ASSUME MissedAreListed, [BridgeNext]_bridgeVars PROVE MissedAreListed'
<1>1. ASSUME NEW s \in Sender, TextPacket(s) PROVE MissedAreListed'
  <2>1. CASE s \notin nodes /\ "node" \in hooks
    BY <1>1, <2>1 DEF MissedAreListed, TextPacket, Listed
  <2>2. CASE ~ (s \notin nodes /\ "node" \in hooks)
    BY <1>1, <2>2 DEF MissedAreListed, TextPacket, Listed
  <2>3. QED
    BY <2>1, <2>2
<1>2. CASE Crash
  BY <1>2 DEF MissedAreListed, Crash
<1>3. ASSUME NEW s \in Sender, OtherPacket(s) PROVE MissedAreListed'
  BY <1>3 DEF MissedAreListed, OtherPacket
<1>4. CASE \/ Start \/ StartWithout \/ Mint \/ OpenIdentity \/ WriteIdentity
           \/ StartMeshtastic \/ Register \/ RnsPacket \/ UNCHANGED bridgeVars
  BY <1>4 DEF MissedAreListed, Start, StartWithout, Mint, OpenIdentity,
     WriteIdentity, StartMeshtastic, Register, RnsPacket, bridgeVars, processVars
<1>5. ASSUME NEW t \in Thread, AppendMessage(t) \/ CheckLength(t) \/ Pop(t)
      PROVE  MissedAreListed'
  BY <1>5 DEF MissedAreListed, AppendMessage, CheckLength, Pop
<1>6. QED
  BY <1>1, <1>2, <1>3, <1>4, <1>5 DEF BridgeNext

\* A sender loses one text at most (MeshtasticBridge._on_receive).
THEOREM OneText == BridgeSpec => []OneTextMissed
<1>1. MissedAreListed => OneTextMissed
  BY DEF MissedAreListed, OneTextMissed
<1>2. QED
  BY <1>1, MissedInit, MissedStep, PTL DEF BridgeSpec

-----------------------------------------------------------------------------
(* The identity.                                                           *)

\* A whole file holds the identity that was announced, and a file that is
\* being written is not whole.
FileIsAnnounced ==
  /\ phase \in {"mint", "open"} => identity = NoFile
  /\ phase = "write" => identity = Partial
  /\ identity # Partial /\ identity # NoFile => address = identity
  /\ identity = NoFile => address = 0

LEMMA FileInit == BridgeInit => FileIsAnnounced
  BY DEF BridgeInit, FileIsAnnounced, NoFile

LEMMA FileStep ==
  ASSUME MaxStarts \in Nat, FileIsAnnounced, [BridgeNext]_bridgeVars
  PROVE  FileIsAnnounced'
<1> USE DEF NoFile, Partial
<1>1. CASE Start
  BY <1>1 DEF FileIsAnnounced, Start, Found
<1>2. CASE StartWithout \/ Mint \/ OpenIdentity \/ WriteIdentity \/ StartMeshtastic
  BY <1>2 DEF FileIsAnnounced, StartWithout, Mint, OpenIdentity, WriteIdentity,
     StartMeshtastic
<1>3. CASE Register \/ Crash \/ RnsPacket \/ UNCHANGED bridgeVars
  BY <1>3 DEF FileIsAnnounced, Register, Crash, RnsPacket, StaysUp, bridgeVars
<1>4. ASSUME NEW s \in Sender, TextPacket(s) \/ OtherPacket(s) PROVE FileIsAnnounced'
  BY <1>4 DEF FileIsAnnounced, TextPacket, OtherPacket, StaysUp
<1>5. ASSUME NEW t \in Thread, AppendMessage(t) \/ CheckLength(t) \/ Pop(t)
      PROVE  FileIsAnnounced'
  BY <1>5 DEF FileIsAnnounced, AppendMessage, CheckLength, Pop, StaysUp
<1>6. QED
  BY <1>1, <1>2, <1>3, <1>4, <1>5 DEF BridgeNext

\* A step before which the identity has been announced and the file is whole
\* changes neither.
LEMMA FileKept ==
  ASSUME FileIsAnnounced, [BridgeNext]_bridgeVars, address # 0, identity # Partial
  PROVE  UNCHANGED <<address, identity, minted>>
<1>1. CASE Start \/ StartWithout
  BY <1>1 DEF FileIsAnnounced, Start, StartWithout
<1>2. CASE Mint \/ OpenIdentity \/ WriteIdentity
  BY <1>2 DEF FileIsAnnounced, Mint, OpenIdentity, WriteIdentity
<1>3. CASE StartMeshtastic \/ Register \/ Crash \/ RnsPacket \/ UNCHANGED bridgeVars
  BY <1>3 DEF StartMeshtastic, Register, Crash, RnsPacket, StaysUp, bridgeVars
<1>4. ASSUME NEW s \in Sender, TextPacket(s) \/ OtherPacket(s)
      PROVE  UNCHANGED <<address, identity, minted>>
  BY <1>4 DEF TextPacket, OtherPacket, StaysUp
<1>5. ASSUME NEW t \in Thread, AppendMessage(t) \/ CheckLength(t) \/ Pop(t)
      PROVE  UNCHANGED <<address, identity, minted>>
  BY <1>5 DEF AppendMessage, CheckLength, Pop, StaysUp
<1>6. QED
  BY <1>1, <1>2, <1>3, <1>4, <1>5 DEF BridgeNext

\* The node keeps the identity it has announced over crashes and restarts,
\* unless one cut the file short (ReticulumManager.start).
THEOREM IdentityStays == BridgeSpec => AddressIsKept
<1>1. FileIsAnnounced /\ [BridgeNext]_bridgeVars => FileIsAnnounced'
  BY FileStep, BridgeAssumption
<1>2. FileIsAnnounced /\ [BridgeNext]_bridgeVars
        => [address # 0 /\ identity # Partial
              => UNCHANGED <<address, identity, minted>>]_bridgeVars
  BY FileKept
<1>3. QED
  BY <1>1, <1>2, FileInit, PTL DEF BridgeSpec, AddressIsKept

-----------------------------------------------------------------------------
(* The history.                                                            *)

\* How many threads are at one of these steps.
Count(steps) ==
  (IF thread["rns"] \in steps THEN 1 ELSE 0) + (IF thread["serial"] \in steps THEN 1 ELSE 0)

\* The history is a window on the arrivals; threads that have not finished
\* trimming may have made it too long, or have taken too much away.
Window ==
  /\ thread \in [Thread -> {"idle", "append", "check", "pop"}]
  /\ history \in Seq(Nat) /\ arrived \in Nat
  /\ \A i \in DOMAIN history : history[i] = arrived - Len(history) + i
  /\ Len(history) <= MaxHistory + Count({"check", "pop"})
  /\ Len(history) = arrived \/ Len(history) >= MaxHistory - 1 + Count({"pop"})
  /\ Count({"pop"}) > 0 => Len(history) >= MaxHistory - 1 + Count({"pop"})

LEMMA WindowInit == ASSUME MaxHistory \in Nat \ {0}, BridgeInit PROVE Window
<1>1. history = <<>> /\ arrived = 0 /\ Len(history) = 0
  BY DEF BridgeInit
<1>2. thread = [t \in Thread |-> "idle"]
  BY DEF BridgeInit
<1>3. Count({"check", "pop"}) = 0 /\ Count({"pop"}) = 0
  BY <1>2 DEF Count, Thread
<1>4. QED
  BY <1>1, <1>2, <1>3 DEF Window

\* Steps that touch neither the history nor a thread that is trimming it.
LEMMA WindowStays ==
  ASSUME MaxHistory \in Nat \ {0}, Window, UNCHANGED <<history, arrived>>,
         thread' \in [Thread -> {"idle", "append", "check", "pop"}],
         \A t \in Thread : thread'[t] \in {"check", "pop"} \/ thread[t] \in {"check", "pop"}
                             => thread'[t] = thread[t]
  PROVE  Window'
<1>1. Count({"check", "pop"})' = Count({"check", "pop"}) /\ Count({"pop"})' = Count({"pop"})
  BY DEF Count, Window, Thread
<1>2. QED
  BY <1>1 DEF Window

LEMMA WindowAppend ==
  ASSUME MaxHistory \in Nat \ {0}, Window, NEW t \in Thread, AppendMessage(t)
  PROVE  Window'
<1>1. /\ thread[t] = "append" /\ thread' = [thread EXCEPT ![t] = "check"]
      /\ history' = Append(history, arrived + 1) /\ arrived' = arrived + 1
  BY DEF AppendMessage
<1>2. /\ Count({"check", "pop"})' = Count({"check", "pop"}) + 1
      /\ Count({"pop"})' = Count({"pop"})
  BY <1>1 DEF Window, Count, Thread
<1>3. Count({"check", "pop"}) \in Nat /\ Count({"pop"}) \in Nat
  BY DEF Count
<1>4. /\ history' \in Seq(Nat) /\ arrived' \in Nat /\ Len(history') = Len(history) + 1
      /\ \A i \in DOMAIN history' : history'[i] = arrived' - Len(history') + i
  BY <1>1 DEF Window
<1>5. thread' \in [Thread -> {"idle", "append", "check", "pop"}]
  BY <1>1 DEF Window
<1>6. Len(history) \in Nat
  BY DEF Window
<1>7. QED
  BY <1>1, <1>2, <1>3, <1>4, <1>5, <1>6 DEF Window

LEMMA WindowCheck ==
  ASSUME MaxHistory \in Nat \ {0}, Window, NEW t \in Thread, CheckLength(t)
  PROVE  Window'
<1>1. /\ thread[t] = "check" /\ UNCHANGED <<history, arrived>>
      /\ thread' = [thread EXCEPT ![t] = IF Len(history) > MaxHistory THEN "pop"
                                         ELSE "idle"]
  BY DEF CheckLength
<1>2. /\ thread' \in [Thread -> {"idle", "append", "check", "pop"}]
      /\ Len(history) \in Nat
  BY <1>1 DEF Window
<1>3. CASE Len(history) > MaxHistory
  <2>1. thread' = [thread EXCEPT ![t] = "pop"]
    BY <1>1, <1>3
  <2>2. /\ Count({"check", "pop"})' = Count({"check", "pop"})
        /\ Count({"pop"})' = Count({"pop"}) + 1
    BY <1>1, <2>1 DEF Window, Count, Thread
  <2>3. Count({"pop"}) \in {0, 1}
    BY <1>1 DEF Count, Thread
  <2>4. QED
    BY <1>1, <1>2, <1>3, <2>2, <2>3 DEF Window
<1>4. CASE ~ (Len(history) > MaxHistory)
  <2>1. thread' = [thread EXCEPT ![t] = "idle"]
    BY <1>1, <1>4
  <2>2. /\ Count({"check", "pop"})' = Count({"check", "pop"}) - 1
        /\ Count({"pop"})' = Count({"pop"})
    BY <1>1, <2>1 DEF Window, Count, Thread
  <2>3. Count({"check", "pop"}) \in 1 .. 2
    BY <1>1 DEF Count, Thread
  <2>4. QED
    BY <1>1, <1>2, <1>4, <2>2, <2>3 DEF Window
<1>5. QED
  BY <1>3, <1>4

LEMMA WindowPop ==
  ASSUME MaxHistory \in Nat \ {0}, Window, NEW t \in Thread, Pop(t)
  PROVE  Window'
<1>1. /\ thread[t] = "pop" /\ thread' = [thread EXCEPT ![t] = "idle"]
      /\ history' = Tail(history) /\ arrived' = arrived
  BY DEF Pop, WithoutOldest
<1>2. /\ Count({"check", "pop"})' = Count({"check", "pop"}) - 1
      /\ Count({"pop"})' = Count({"pop"}) - 1
  BY <1>1 DEF Window, Count, Thread
<1>3. Count({"check", "pop"}) \in 1 .. 2 /\ Count({"pop"}) \in 1 .. 2
  BY <1>1 DEF Count, Thread
<1>4. Len(history) \in Nat /\ Len(history) >= 1
  BY <1>3 DEF Window
<1>5. /\ history' \in Seq(Nat) /\ Len(history') = Len(history) - 1
      /\ \A i \in 1 .. Len(history') : history'[i] = history[i + 1]
  BY <1>1, <1>4 DEF Window
<1>6. \A i \in DOMAIN history' : history'[i] = arrived' - Len(history') + i
  <2>1. DOMAIN history' = 1 .. Len(history')
    BY <1>5
  <2>2. \A i \in 1 .. Len(history') :
          /\ i + 1 \in DOMAIN history
          /\ history[i + 1] = arrived - Len(history) + (i + 1)
    <3>1. /\ history \in Seq(Nat) /\ arrived \in Nat
          /\ \A i \in DOMAIN history : history[i] = arrived - Len(history) + i
      BY DEF Window
    <3>2. DOMAIN history = 1 .. Len(history)
      BY <3>1
    <3>3. \A i \in 1 .. Len(history') : i + 1 \in 1 .. Len(history)
      BY <1>4, <1>5
    <3>4. QED
      BY <3>1, <3>2, <3>3
  <2>3. arrived \in Nat
    BY DEF Window
  <2>4. QED
    BY <1>1, <1>4, <1>5, <2>1, <2>2, <2>3
<1>7. thread' \in [Thread -> {"idle", "append", "check", "pop"}]
  BY <1>1 DEF Window
<1>8. /\ Len(history') <= MaxHistory + Count({"check", "pop"})'
      /\ Len(history') >= MaxHistory - 1 + Count({"pop"})'
  <2>1. /\ Len(history) <= MaxHistory + Count({"check", "pop"})
        /\ Len(history) >= MaxHistory - 1 + Count({"pop"})
    BY <1>3 DEF Window
  <2>2. Len(history') = Len(history) - 1
    BY <1>5
  <2>3. QED
    BY <1>2, <1>3, <1>4, <2>1, <2>2
<1>9. QED
  BY <1>1, <1>5, <1>6, <1>7, <1>8 DEF Window

LEMMA WindowStep ==
  ASSUME MaxHistory \in Nat \ {0}, Window, [BridgeNext]_bridgeVars
  PROVE  Window'
<1>1. CASE \/ Start \/ StartWithout \/ Mint \/ OpenIdentity \/ WriteIdentity
           \/ StartMeshtastic \/ Register \/ UNCHANGED bridgeVars
  BY <1>1 DEF Window, Count, Start, StartWithout, Mint, OpenIdentity,
     WriteIdentity, StartMeshtastic, Register, bridgeVars, processVars
<1>2. CASE Crash
  <2>1. /\ history' = <<>> /\ arrived' = 0 /\ Len(history') = 0
        /\ thread' = [t \in Thread |-> "idle"]
    BY <1>2 DEF Crash
  <2>2. Count({"check", "pop"})' = 0 /\ Count({"pop"})' = 0
    BY <2>1 DEF Count, Thread
  <2>3. QED
    BY <2>1, <2>2 DEF Window
<1>3. CASE RnsPacket
  <2>1. /\ UNCHANGED <<history, arrived>> /\ thread["rns"] = "idle"
        /\ thread' = IF "rns message" \in hooks THEN [thread EXCEPT !["rns"] = "append"]
                     ELSE thread
    BY <1>3 DEF RnsPacket
  <2>2. QED
    BY <2>1, WindowStays DEF Window, Thread
<1>4. ASSUME NEW s \in Sender, TextPacket(s) \/ OtherPacket(s) PROVE Window'
  <2>1. /\ UNCHANGED <<history, arrived>> /\ thread["serial"] = "idle"
        /\ \/ thread' = thread
           \/ thread' = [thread EXCEPT !["serial"] = "append"]
    BY <1>4 DEF TextPacket, OtherPacket
  <2>2. QED
    BY <2>1, WindowStays DEF Window, Thread
<1>5. ASSUME NEW t \in Thread, AppendMessage(t) \/ CheckLength(t) \/ Pop(t)
      PROVE  Window'
  BY <1>5, WindowAppend, WindowCheck, WindowPop
<1>6. QED
  BY <1>1, <1>2, <1>3, <1>4, <1>5 DEF BridgeNext

\* The two threads are all that may be late.
LEMMA WindowSuffices ==
  ASSUME MaxHistory \in Nat \ {0}, Window
  PROVE  HistoryIsLatest
<1>1. Count({"check", "pop"}) \in 0 .. 2
  BY DEF Count
<1>2. Cardinality(Thread) = 2
  <2>1. Thread = {"rns"} \cup {"serial"}
    BY DEF Thread
  <2>2. IsFiniteSet({"rns"}) /\ Cardinality({"rns"}) = 1
    BY FS_Singleton
  <2>3. Cardinality({"rns"} \cup {"serial"}) = 2
    BY <2>2, FS_AddElement, "serial" \notin {"rns"}
  <2>4. QED
    BY <2>1, <2>3
<1>3. (\A t \in Thread : thread[t] = "idle") =>
        Count({"check", "pop"}) = 0 /\ Count({"pop"}) = 0
  BY DEF Count, Thread
<1>4. Len(history) \in Nat /\ arrived \in Nat
  BY DEF Window
<1>5. /\ \A i \in DOMAIN history : history[i] = arrived - Len(history) + i
      /\ Len(history) <= MaxHistory + Cardinality(Thread)
  BY <1>1, <1>2, <1>4 DEF Window
<1>6. ASSUME \A t \in Thread : thread[t] = "idle"
      PROVE  /\ Len(history) <= MaxHistory
             /\ Len(history) >= arrived \/ Len(history) >= MaxHistory - 1
  BY <1>3, <1>4, <1>6 DEF Window
<1>7. QED
  BY <1>5, <1>6 DEF HistoryIsLatest

\* The history is the latest messages in order, whatever the two threads do at
\* the same time (aggregate_message).
THEOREM HistoryInOrder == BridgeSpec => []HistoryIsLatest
<1>1. BridgeInit => Window
  BY WindowInit, BridgeAssumption
<1>2. Window /\ [BridgeNext]_bridgeVars => Window'
  BY WindowStep, BridgeAssumption
<1>3. Window => HistoryIsLatest
  BY WindowSuffices, BridgeAssumption
<1>4. QED
  BY <1>1, <1>2, <1>3, PTL DEF BridgeSpec

-----------------------------------------------------------------------------
(* Types of the bridge.                                                    *)

\* What is counted comes from a packet or from a start: a message that a thread
\* is about to append has taken a packet, and an identity that is about to be
\* made a start.
WithinBounds ==
  /\ arrived + Count({"append"}) <= packets
  /\ \A s \in Sender : missed[s] <= packets
  /\ minted <= starts
  /\ phase = "mint" \/ (phase = "rns" /\ identity = Partial) => minted < starts

\* The inductive invariant: the window has something for a thread to take.
BridgeInv == BridgeTypeOK /\ Window /\ WithinBounds

LEMMA BridgeStart == BridgeInit => BridgeInv
<1> SUFFICES ASSUME BridgeInit PROVE BridgeInv
  OBVIOUS
<1>1. Count({"append"}) = 0
  BY DEF BridgeInit, Count, Thread
<1>2. BridgeTypeOK
  BY BridgeAssumption DEF BridgeInit, BridgeTypeOK, Phase, Thread, NoFile, Partial
<1>3. WithinBounds
  BY <1>1 DEF BridgeInit, WithinBounds, NoFile, Partial
<1>4. QED
  BY <1>2, <1>3, WindowInit, BridgeAssumption DEF BridgeInv

\* What the startup does to the rest of the state is nothing.
LEMMA StartupOK ==
  ASSUME BridgeTypeOK, WithinBounds,
         \/ Start \/ StartWithout \/ Mint \/ OpenIdentity \/ WriteIdentity \/ StartMeshtastic
  PROVE  BridgeTypeOK' /\ WithinBounds'
<1> USE BridgeAssumption DEF NoFile, Partial
<1>1. UNCHANGED <<hooks, nodes, thread, history, arrived, missed, packets>>
  BY DEF Start, StartWithout, Mint, OpenIdentity, WriteIdentity, StartMeshtastic, processVars
<1>2. Count({"append"})' = Count({"append"})
  BY <1>1 DEF Count
<1>3. /\ phase \in Phase /\ {identity, address, minted} \subseteq 0 .. Partial
      /\ starts \in 0 .. MaxStarts /\ minted <= starts
      /\ phase = "mint" \/ (phase = "rns" /\ identity = Partial) => minted < starts
  BY DEF BridgeTypeOK, WithinBounds
<1>4. /\ phase' \in Phase /\ {identity, address, minted}' \subseteq 0 .. Partial
      /\ starts' \in 0 .. MaxStarts /\ minted' <= starts'
      /\ phase' = "mint" \/ (phase' = "rns" /\ identity' = Partial) => minted' < starts'
  <2>1. CASE Start
    BY <1>3, <2>1 DEF Start, Found, Phase
  <2>2. CASE StartWithout
    BY <1>3, <2>2 DEF StartWithout, Phase
  <2>3. CASE Mint
    BY <1>3, <2>3 DEF Mint, Phase
  <2>4. CASE OpenIdentity
    BY <1>3, <2>4 DEF OpenIdentity, Phase
  <2>5. CASE WriteIdentity
    BY <1>3, <2>5 DEF WriteIdentity, Phase
  <2>6. CASE StartMeshtastic
    BY <1>3, <2>6 DEF StartMeshtastic, Phase
  <2>7. QED
    BY <2>1, <2>2, <2>3, <2>4, <2>5, <2>6
<1>5. BridgeTypeOK'
  BY <1>1, <1>4 DEF BridgeTypeOK
<1>6. WithinBounds'
  BY <1>1, <1>2, <1>4 DEF WithinBounds
<1>7. QED
  BY <1>5, <1>6

\* A packet pays for what becomes of it.
LEMMA PacketOK ==
  ASSUME BridgeInv, RnsPacket \/ \E s \in Sender : TextPacket(s) \/ OtherPacket(s)
  PROVE  BridgeTypeOK' /\ WithinBounds'
<1> USE BridgeAssumption
<1>1. /\ packets' = packets + 1 /\ packets \in Nat /\ packets' \in 0 .. MaxPackets
      /\ UNCHANGED <<phase, hooks, identity, address, minted, starts, history, arrived>>
  <2>1. /\ packets < MaxPackets /\ packets' = packets + 1
        /\ UNCHANGED <<phase, hooks, identity, address, minted, starts, history, arrived>>
    BY DEF RnsPacket, TextPacket, OtherPacket, Arrives, StaysUp
  <2>2. packets \in 0 .. MaxPackets
    BY DEF BridgeInv, BridgeTypeOK
  <2>3. QED
    BY <2>1, <2>2
<1>2. \E t \in Thread : thread[t] = "idle" /\ thread' \in {thread, [thread EXCEPT ![t] = "append"]}
  BY DEF RnsPacket, TextPacket, OtherPacket, Thread
<1>3. /\ thread' \in [Thread -> {"idle", "append", "check", "pop"}]
      /\ Count({"append"})' <= Count({"append"}) + 1
      /\ {Count({"append"}), Count({"append"})'} \subseteq 0 .. 2
  BY <1>2 DEF BridgeInv, BridgeTypeOK, Count, Thread
<1>4. arrived' + Count({"append"})' <= packets'
  BY <1>1, <1>3 DEF BridgeInv, BridgeTypeOK, WithinBounds
<1>5. nodes' \subseteq Sender
  BY DEF RnsPacket, TextPacket, OtherPacket, Listed, BridgeInv, BridgeTypeOK
<1>6. \/ missed' = missed
      \/ \E s \in Sender : missed' = [missed EXCEPT ![s] = @ + 1]
  BY DEF RnsPacket, TextPacket, OtherPacket
<1>7. missed \in [Sender -> Nat] /\ \A s \in Sender : missed[s] <= packets
  BY DEF BridgeInv, BridgeTypeOK, WithinBounds
<1>8. missed' \in [Sender -> 0 .. MaxPackets] /\ \A s \in Sender : missed'[s] <= packets'
  BY <1>1, <1>6, <1>7
<1>9. BridgeTypeOK'
  BY <1>1, <1>3, <1>5, <1>8 DEF BridgeInv, BridgeTypeOK
<1>10. WithinBounds'
  BY <1>1, <1>4, <1>8 DEF BridgeInv, WithinBounds
<1>11. QED
  BY <1>9, <1>10

\* The threads.
LEMMA AggregateOK ==
  ASSUME BridgeInv, NEW t \in Thread, AppendMessage(t) \/ CheckLength(t) \/ Pop(t)
  PROVE  BridgeTypeOK' /\ WithinBounds'
<1> USE BridgeAssumption
<1>1. UNCHANGED <<phase, hooks, nodes, missed, identity, address, minted, packets, starts>>
  BY DEF AppendMessage, CheckLength, Pop, StaysUp
<1>2. /\ thread' \in [Thread -> {"idle", "append", "check", "pop"}]
      /\ {Count({"append"}), Count({"append"})'} \subseteq 0 .. 2
      /\ Count({"append"})' = Count({"append"}) - (IF AppendMessage(t) THEN 1 ELSE 0)
  <2>1. CASE AppendMessage(t)
    BY <2>1 DEF AppendMessage, BridgeInv, BridgeTypeOK, Count, Thread
  <2>2. CASE ~ AppendMessage(t) /\ CheckLength(t)
    BY <2>2 DEF CheckLength, BridgeInv, BridgeTypeOK, Count, Thread
  <2>3. CASE ~ AppendMessage(t) /\ Pop(t)
    BY <2>3 DEF Pop, BridgeInv, BridgeTypeOK, Count, Thread
  <2>4. QED
    BY <2>1, <2>2, <2>3
<1>3. history' \in Seq(1 .. MaxPackets) /\ arrived' \in 0 .. MaxPackets
      /\ arrived' + Count({"append"})' <= packets'
  <2>1. /\ arrived \in 0 .. MaxPackets /\ packets \in 0 .. MaxPackets
        /\ arrived + Count({"append"}) <= packets /\ history \in Seq(1 .. MaxPackets)
    BY DEF BridgeInv, BridgeTypeOK, WithinBounds
  <2>2. CASE AppendMessage(t)
    <3>1. arrived' = arrived + 1 /\ history' = Append(history, arrived + 1)
      BY <2>2 DEF AppendMessage
    <3>2. arrived' + Count({"append"})' <= packets' /\ arrived' \in 1 .. MaxPackets
      BY <1>1, <1>2, <2>1, <2>2, <3>1
    <3>3. QED
      BY <2>1, <3>1, <3>2
  <2>3. CASE ~ AppendMessage(t) /\ CheckLength(t)
    BY <1>1, <1>2, <2>1, <2>3 DEF CheckLength
  <2>4. CASE ~ AppendMessage(t) /\ Pop(t)
    <3>1. history' = Tail(history) /\ arrived' = arrived /\ thread[t] = "pop"
      BY <2>4 DEF Pop, WithoutOldest
    <3>2. Count({"pop"}) \in 1 .. 2
      BY <3>1 DEF Count, Thread
    <3>3. Len(history) >= 1
      BY <3>2 DEF BridgeInv, Window
    <3>4. history # << >>
      BY <3>3
    <3>5. history' \in Seq(1 .. MaxPackets)
      BY <2>1, <3>1, <3>4, HeadTailProperties
    <3>6. QED
      BY <1>1, <1>2, <2>1, <2>4, <3>1, <3>5
  <2>5. QED
    BY <2>2, <2>3, <2>4
<1>4. BridgeTypeOK'
  BY <1>1, <1>2, <1>3 DEF BridgeInv, BridgeTypeOK
<1>5. WithinBounds'
  BY <1>1, <1>3 DEF BridgeInv, WithinBounds
<1>6. QED
  BY <1>4, <1>5

LEMMA BridgeStep == ASSUME BridgeInv, [BridgeNext]_bridgeVars PROVE BridgeInv'
<1>1. Window'
  BY WindowStep, BridgeAssumption DEF BridgeInv
<1>2. CASE \/ Start \/ StartWithout \/ Mint \/ OpenIdentity \/ WriteIdentity \/ StartMeshtastic
  BY <1>1, <1>2, StartupOK DEF BridgeInv
<1>3. CASE RnsPacket \/ \E s \in Sender : TextPacket(s) \/ OtherPacket(s)
  BY <1>1, <1>3, PacketOK DEF BridgeInv
<1>4. ASSUME NEW t \in Thread, AppendMessage(t) \/ CheckLength(t) \/ Pop(t) PROVE BridgeInv'
  BY <1>1, <1>4, AggregateOK DEF BridgeInv
<1>5. CASE Register \/ UNCHANGED bridgeVars
  <2>1. UNCHANGED <<nodes, thread, history, arrived, missed, identity, address, minted,
                    packets, starts>>
    BY <1>5 DEF Register, bridgeVars
  <2>2. /\ phase' \in Phase /\ hooks' \subseteq Hook
        /\ phase' \in {"mint", "rns"} => phase' = phase
    BY <1>5 DEF Register, bridgeVars, Hook, Phase, BridgeInv, BridgeTypeOK
  <2>3. BridgeTypeOK'
    BY <2>1, <2>2 DEF BridgeInv, BridgeTypeOK
  <2>4. WithinBounds'
    BY <2>1, <2>2 DEF BridgeInv, WithinBounds, Count
  <2>5. QED
    BY <1>1, <2>3, <2>4 DEF BridgeInv
<1>6. CASE Crash
  <2>1. /\ phase' = "down" /\ hooks' = {} /\ nodes' = {} /\ history' = <<>> /\ arrived' = 0
        /\ thread' = [t \in Thread |-> "idle"] /\ missed' = [s \in Sender |-> 0]
        /\ UNCHANGED <<identity, address, minted, packets, starts>>
    BY <1>6 DEF Crash
  <2>2. Count({"append"})' = 0
    BY <2>1 DEF Count, Thread
  <2>3. BridgeTypeOK'
    BY <2>1, BridgeAssumption DEF BridgeInv, BridgeTypeOK, Phase
  <2>4. WithinBounds'
    BY <2>1, <2>2 DEF BridgeInv, BridgeTypeOK, WithinBounds
  <2>5. QED
    BY <1>1, <2>3, <2>4 DEF BridgeInv
<1>7. QED
  BY <1>2, <1>3, <1>4, <1>5, <1>6 DEF BridgeNext

\* Every variable keeps its type; above all, a thread that trims the history
\* finds something to take (aggregate_message).
THEOREM BridgeTypes == BridgeSpec => []BridgeTypeOK
  BY BridgeStart, BridgeStep, PTL DEF BridgeSpec, BridgeInv

-----------------------------------------------------------------------------
(* RadioEvents: a channel.                                                 *)

RadioTyped ==
  /\ heard \in Nat
  /\ {ready, queue, main} \subseteq Seq(Event)
  /\ serial \in [ doing : {"idle", "store", "notify"}, event : Nat ]
  /\ serial.doing # "idle" => serial.event \in Event
  /\ hand \in [ event : Nat, next : {"none", "own", "main"} ]
  /\ hand.next = "none" => hand = Empty
  /\ hand.next # "none" => hand.event \in Event

LEMMA RadioTypedInit == RadioInit => RadioTyped
  BY DEF RadioInit, RadioTyped, AtRest, Empty

LEMMA RadioTypedStep == ASSUME RadioTyped, [RadioNext]_radioEventVars PROVE RadioTyped'
<1> USE RadioAssumption DEF RadioTyped
<1>1. CASE Subscribe \/ OpenPort \/ AddCallback \/ Shutdown \/ LoopEnds
  <2>1. UNCHANGED <<heard, ready, queue, main, serial, hand>>
    BY <1>1 DEF Subscribe, OpenPort, AddCallback, Shutdown, LoopEnds, serialVars, loopVars
  <2>2. QED
    BY <2>1
<1>2. CASE Packet(TRUE) \/ Packet(FALSE)
  <2>1. /\ heard < MaxRadioEvents /\ heard' = heard + 1
        /\ serial' \in { [ doing |-> what, event |-> heard' ] : what \in {"store", "notify"} }
        /\ UNCHANGED <<ready, queue, main, hand>>
    BY <1>2 DEF Packet, Does, loopVars
  <2>2. heard' \in Nat /\ heard' \in Event
    BY <2>1 DEF Event
  <2>3. QED
    BY <2>1, <2>2
<1>3. CASE StoreText
  BY <1>3 DEF StoreText, Does, loopVars
<1>4. CASE Notify
  BY <1>4, AppendProperties DEF Notify, AtRest
<1>5. CASE RunReady
  <2>1. Head(ready) \in Event /\ Tail(ready) \in Seq(Event)
    BY <1>5, HeadTailProperties DEF RunReady
  <2>2. QED
    BY <1>5, <2>1, AppendProperties DEF RunReady, PutEvent, serialVars
<1>6. CASE Take
  <2>1. Head(queue) \in Event /\ Tail(queue) \in Seq(Event)
    BY <1>6, HeadTailProperties DEF Take
  <2>2. QED
    BY <1>6, <2>1 DEF Take, serialVars, Event
<1>7. CASE BroadcastOwn
  BY <1>7 DEF BroadcastOwn, serialVars
<1>8. CASE BroadcastMain
  BY <1>8, AppendProperties DEF BroadcastMain, serialVars, Empty
<1>9. CASE UNCHANGED radioEventVars
  BY <1>9 DEF radioEventVars
<1>10. QED
  BY <1>1, <1>2, <1>3, <1>4, <1>5, <1>6, <1>7, <1>8, <1>9 DEF RadioNext, Loop

-----------------------------------------------------------------------------
(* Sequences.                                                              *)

\* The first of a sequence and what follows it are the sequence.
LEMMA HeadThenTail ==
  ASSUME NEW S, NEW s \in Seq(S), s # <<>>
  PROVE  <<Head(s)>> \o Tail(s) = s
<1>1. /\ Head(s) \in S /\ Tail(s) \in Seq(S) /\ Len(Tail(s)) = Len(s) - 1
      /\ \A i \in 1 .. Len(Tail(s)) : Tail(s)[i] = s[i + 1]
  BY HeadTailProperties
<1>2. /\ Len(s) \in Nat \ {0} /\ Head(s) = s[1]
  BY EmptySeq
<1>3. <<Head(s)>> \in Seq(S) /\ Len(<<Head(s)>>) = 1 /\ <<Head(s)>>[1] = Head(s)
  BY <1>1
<1>4. /\ <<Head(s)>> \o Tail(s) \in Seq(S)
      /\ Len(<<Head(s)>> \o Tail(s)) = 1 + Len(Tail(s))
      /\ \A i \in 1 .. 1 + Len(Tail(s)) :
           (<<Head(s)>> \o Tail(s))[i] = IF i <= 1 THEN <<Head(s)>>[i] ELSE Tail(s)[i - 1]
  BY <1>1, <1>3, ConcatProperties
<1>5. \A i \in 1 .. Len(s) : (<<Head(s)>> \o Tail(s))[i] = s[i]
  BY <1>1, <1>2, <1>3, <1>4
<1>6. QED
  BY <1>1, <1>2, <1>4, <1>5, SeqEqual

\* An element may be the last of one or the first of the next.
LEMMA AppendThenConcat ==
  ASSUME NEW S, NEW s \in Seq(S), NEW t \in Seq(S), NEW e \in S
  PROVE  Append(s, e) \o t = s \o (<<e>> \o t)
<1>1. Append(s, e) = s \o <<e>> /\ <<e>> \in Seq(S)
  BY AppendIsConcat
<1>2. QED
  BY <1>1, ConcatAssociative

\* Appending to the last of two sequences.
LEMMA ConcatThenAppend ==
  ASSUME NEW S, NEW s \in Seq(S), NEW t \in Seq(S), NEW e \in S
  PROVE  s \o Append(t, e) = Append(s \o t, e)
<1>1. Append(t, e) = t \o <<e>> /\ <<e>> \in Seq(S)
  BY AppendIsConcat
<1>2. s \o t \in Seq(S)
  BY ConcatProperties
<1>3. Append(s \o t, e) = (s \o t) \o <<e>>
  BY <1>2, AppendIsConcat
<1>4. QED
  BY <1>1, <1>3, ConcatAssociative

-----------------------------------------------------------------------------
(* The mapping.                                                            *)

InHand == IF hand = Empty THEN <<>> ELSE <<hand.event>>

LEMMA WayType ==
  ASSUME RadioTyped
  PROVE  /\ InHand \in Seq(Event) /\ ready \in Seq(Event) /\ queue \in Seq(Event)
         /\ OnTheWay = InHand \o (queue \o ready)
         /\ OnTheWay \in Seq(Event) /\ main \in Seq(Event)
<1>1. InHand \in Seq(Event)
  BY DEF RadioTyped, InHand
<1>2. ready \in Seq(Event) /\ queue \in Seq(Event) /\ main \in Seq(Event)
  BY DEF RadioTyped
<1>3. OnTheWay = (InHand \o queue) \o ready
  BY DEF OnTheWay, InHand
<1>4. OnTheWay = InHand \o (queue \o ready)
  BY <1>1, <1>2, <1>3, ConcatAssociative
<1>5. OnTheWay \in Seq(Event)
  BY <1>1, <1>2, <1>4, ConcatProperties
<1>6. QED
  BY <1>1, <1>2, <1>4, <1>5

\* A step within the loop before the last broadcast moves an event on.
LEMMA MovesOn ==
  ASSUME RadioTyped, RadioTyped', RunReady \/ Take \/ BroadcastOwn
  PROVE  OnTheWay' = OnTheWay /\ UNCHANGED <<main, radioPhase>>
<1>1. UNCHANGED <<main, radioPhase>>
  BY DEF RunReady, Take, BroadcastOwn
<1>2. /\ OnTheWay = InHand \o (queue \o ready)
      /\ OnTheWay' = InHand' \o (queue' \o ready')
  <2>1. OnTheWay = InHand \o (queue \o ready)
    BY WayType
  <2>2. InHand' \in Seq(Event) /\ ready' \in Seq(Event) /\ queue' \in Seq(Event)
    BY DEF RadioTyped, InHand
  <2>3. OnTheWay' = (InHand' \o queue') \o ready'
    BY DEF OnTheWay, InHand
  <2>4. QED
    BY <2>1, <2>2, <2>3, ConcatAssociative
<1>3. InHand \in Seq(Event) /\ ready \in Seq(Event) /\ queue \in Seq(Event)
  BY WayType
<1>4. CASE RunReady
  <2>1. /\ ready # <<>> /\ queue' = Append(queue, Head(ready)) /\ ready' = Tail(ready)
        /\ InHand' = InHand
    BY <1>4 DEF RunReady, PutEvent, InHand
  <2>2. Head(ready) \in Event /\ Tail(ready) \in Seq(Event)
    BY <1>3, <2>1, HeadTailProperties
  <2>3. queue' \o ready' = queue \o (<<Head(ready)>> \o Tail(ready))
    BY <1>3, <2>1, <2>2, AppendThenConcat
  <2>4. queue' \o ready' = queue \o ready
    BY <1>3, <2>1, <2>3, HeadThenTail
  <2>5. QED
    BY <1>1, <1>2, <2>1, <2>4
<1>5. CASE Take
  <2>1. /\ hand = Empty /\ queue # <<>> /\ hand' = [ event |-> Head(queue), next |-> "own" ]
        /\ queue' = Tail(queue) /\ ready' = ready
    BY <1>5 DEF Take
  <2>2. InHand = <<>> /\ InHand' = <<Head(queue)>>
    BY <2>1 DEF InHand, Empty
  <2>3. Head(queue) \in Event /\ Tail(queue) \in Seq(Event)
    BY <1>3, <2>1, HeadTailProperties
  <2>4. <<Head(queue)>> \in Seq(Event) /\ <<Head(queue)>> \o Tail(queue) = queue
    BY <1>3, <2>1, <2>3, HeadThenTail
  <2>5. (<<Head(queue)>> \o Tail(queue)) \o ready = <<Head(queue)>> \o (Tail(queue) \o ready)
    BY <1>3, <2>3, <2>4, ConcatAssociative
  <2>6. <<>> \o (queue \o ready) = queue \o ready
    BY <1>3, ConcatProperties, ConcatEmptySeq
  <2>7. QED
    BY <1>1, <1>2, <2>1, <2>2, <2>4, <2>5, <2>6
<1>6. CASE BroadcastOwn
  <2>1. /\ hand.next = "own" /\ hand' = [hand EXCEPT !.next = "main"]
        /\ UNCHANGED <<queue, ready>>
    BY <1>6 DEF BroadcastOwn
  <2>2. InHand' = InHand
    BY <2>1 DEF InHand, Empty, RadioTyped
  <2>3. QED
    BY <1>1, <1>2, <2>1, <2>2
<1>7. QED
  BY <1>4, <1>5, <1>6

\* Passing an event to the manager of /ws is a Receive.
LEMMA MainReceives ==
  ASSUME RadioTyped, RadioTyped', BroadcastMain
  PROVE  Channel!Receive
<1>1. /\ LoopRuns /\ hand.next = "main" /\ main' = Append(main, hand.event)
      /\ hand' = Empty /\ UNCHANGED <<radioPhase, queue, ready>>
  BY DEF BroadcastMain, serialVars
<1>2. hand.event \in Event /\ InHand = <<hand.event>>
  BY <1>1 DEF RadioTyped, InHand, Empty
<1>3. /\ ready \in Seq(Event) /\ queue \in Seq(Event) /\ main \in Seq(Event)
      /\ OnTheWay = <<hand.event>> \o (queue \o ready)
  BY <1>2, WayType
<1>4. OnTheWay' = queue \o ready /\ queue \o ready \in Seq(Event)
  <2>1. OnTheWay' = (<<>> \o queue) \o ready
    BY <1>1 DEF OnTheWay, Empty
  <2>2. <<>> \o queue = queue
    BY <1>3, ConcatEmptySeq
  <2>3. queue \o ready \in Seq(Event)
    BY <1>3, ConcatProperties
  <2>4. QED
    BY <2>1, <2>2, <2>3
<1>5. main' \o OnTheWay' = main \o OnTheWay
  <2>1. Append(main, hand.event) \o (queue \o ready)
        = main \o (<<hand.event>> \o (queue \o ready))
    BY <1>2, <1>3, <1>4, AppendThenConcat
  <2>2. QED
    BY <1>1, <1>3, <1>4, <2>1
<1>6. /\ OnTheWay \in Seq(Event) /\ Len(OnTheWay) >= 1 /\ OnTheWay[1] = hand.event
  <2>1. <<hand.event>> \in Seq(Event) /\ Len(<<hand.event>>) = 1
    BY <1>2
  <2>2. QED
    BY <1>3, <1>4, <2>1, ConcatProperties
<1>7. /\ Len(main) < Len(main \o OnTheWay)
      /\ (main \o OnTheWay)[Len(main) + 1] = hand.event
  BY <1>3, <1>6, ConcatProperties
<1>8. radioPhase # "over" /\ radioPhase' = radioPhase
  BY <1>1 DEF LoopRuns
<1>9. QED
  BY <1>1, <1>5, <1>7, <1>8 DEF Channel!Receive

\* What is handed over to the loop is a Send, if the callback is registered.
LEMMA NotifySends ==
  ASSUME RadioTyped, RadioTyped', Notify
  PROVE  Channel!Send \/ UNCHANGED Channel!vars
<1>1. serial.event \in Event /\ UNCHANGED <<radioPhase, queue, hand, main>>
  BY DEF RadioTyped, Notify
<1>2. /\ InHand \in Seq(Event) /\ ready \in Seq(Event) /\ queue \in Seq(Event)
      /\ main \in Seq(Event) /\ OnTheWay \in Seq(Event)
  BY WayType
<1>3. CASE ready' = ready
  BY <1>1, <1>3 DEF Channel!vars, OnTheWay
<1>4. CASE ready' = Append(ready, serial.event)
  <2>1. InHand \o queue \in Seq(Event)
    BY <1>2, ConcatProperties
  <2>2. OnTheWay' = Append(OnTheWay, serial.event)
    <3>1. OnTheWay = (InHand \o queue) \o ready
      BY DEF OnTheWay, InHand
    <3>2. OnTheWay' = (InHand \o queue) \o Append(ready, serial.event)
      BY <1>1, <1>4 DEF OnTheWay, InHand
    <3>3. QED
      BY <1>1, <1>2, <2>1, <3>1, <3>2, ConcatThenAppend
  <2>3. main \o OnTheWay' = Append(main \o OnTheWay, serial.event)
    BY <1>1, <1>2, <2>2, ConcatThenAppend
  <2>4. QED
    BY <1>1, <2>3 DEF Channel!Send
<1>5. QED
  BY <1>3, <1>4 DEF Notify

LEMMA StepImplements ==
  ASSUME RadioTyped, RadioTyped', [RadioNext]_radioEventVars
  PROVE  [Channel!Next]_(Channel!vars)
<1>1. CASE Subscribe \/ OpenPort \/ AddCallback \/ Shutdown
  BY <1>1 DEF Subscribe, OpenPort, AddCallback, Shutdown, serialVars, loopVars, OnTheWay,
     Channel!vars
<1>2. CASE LoopEnds
  BY <1>2 DEF LoopEnds, serialVars, loopVars, OnTheWay, Channel!Next, Channel!Close
<1>3. CASE Packet(TRUE) \/ Packet(FALSE) \/ StoreText
  BY <1>3 DEF Packet, StoreText, loopVars, OnTheWay, Channel!vars
<1>4. CASE Notify
  BY <1>4, NotifySends DEF Channel!Next
<1>5. CASE RunReady \/ Take \/ BroadcastOwn
  BY <1>5, MovesOn DEF Channel!vars
<1>6. CASE BroadcastMain
  BY <1>6, MainReceives DEF Channel!Next
<1>7. CASE UNCHANGED radioEventVars
  BY <1>7 DEF radioEventVars, OnTheWay, Channel!vars
<1>8. QED
  BY <1>1, <1>2, <1>3, <1>4, <1>5, <1>6, <1>7 DEF RadioNext, Loop

\* From call_soon_threadsafe to the manager of /ws the events of the radio are
\* neither lost nor repeated nor reordered (broadcast_to_websockets,
\* _process_event_queue): the safety part of ImplementsChannel.
THEOREM ChannelSteps ==
  RadioSpec => Channel!Init /\ [][Channel!Next]_(Channel!vars)
<1>1. RadioInit => Channel!Init
  BY DEF RadioInit, Channel!Init, OnTheWay
<1>2. RadioTyped /\ [RadioNext]_radioEventVars => RadioTyped'
  BY RadioTypedStep
<1>3. RadioTyped /\ RadioTyped' /\ [RadioNext]_radioEventVars => [Channel!Next]_(Channel!vars)
  BY StepImplements
<1>4. QED
  BY <1>1, <1>2, <1>3, RadioTypedInit, PTL DEF RadioSpec

-----------------------------------------------------------------------------
(* What a browser is told of has been stored.                              *)

\* The packets that have gone as far as the callbacks: all but one whose text
\* is yet to be stored.
Known == IF serial.doing = "store" THEN heard - 1 ELSE heard

Passed ==
  /\ radioPhase \in RadioPhase
  /\ heard \in 0 .. MaxRadioEvents
  /\ texts \subseteq 1 .. heard
  /\ serial \in [ doing : {"idle", "store", "notify"}, event : 0 .. heard ]
  /\ serial.doing # "idle" => serial.event = heard /\ heard >= 1
  /\ serial.doing = "store" => heard \in texts
  /\ {own, main, ready, queue} \subseteq Seq(1 .. Known)
  /\ hand \in [ event : 0 .. heard, next : {"none", "own", "main"} ]
  /\ hand.next # "none" => hand.event \in 1 .. Known

\* The deque holds the newest of the texts, each once and in their order.
Kept ==
  /\ messages \in Seq(texts) /\ Len(messages) <= MaxStored
  /\ \A i \in 1 .. Len(messages) : messages[i] <= Known
  /\ \A i, j \in 1 .. Len(messages) : i < j => messages[i] < messages[j]
  /\ \A t \in texts : t <= Known =>
       \/ \E i \in 1 .. Len(messages) : messages[i] = t
       \/ Len(messages) = MaxStored /\ \A i \in 1 .. Len(messages) : t < messages[i]

LEMMA LargerRange ==
  ASSUME NEW S, NEW T, S \subseteq T
  PROVE  Seq(S) \subseteq Seq(T)
OBVIOUS

LEMMA PassedInit == RadioInit => Passed /\ Kept
<1> SUFFICES ASSUME RadioInit PROVE Passed /\ Kept
  OBVIOUS
<1>1. Known = 0
  BY DEF RadioInit, AtRest, Known
<1>2. Passed
  BY <1>1, RadioAssumption, EmptySeq DEF RadioInit, Passed, AtRest, Empty, RadioPhase
<1>3. texts = {} /\ messages = <<>> /\ Len(messages) = 0 /\ messages \in Seq(texts)
  BY EmptySeq DEF RadioInit
<1> QED BY <1>2, <1>3, RadioAssumption DEF Kept

LEMMA PassedStep == Passed /\ [RadioNext]_radioEventVars => Passed'
<1> SUFFICES ASSUME Passed, [RadioNext]_radioEventVars PROVE Passed'
  OBVIOUS
<1>1. heard \in Nat /\ MaxRadioEvents \in Nat /\ heard <= MaxRadioEvents
      /\ Known \in Nat /\ Known <= heard
  BY RadioAssumption DEF Passed, Known
<1>2. CASE Subscribe \/ OpenPort \/ AddCallback \/ Shutdown \/ LoopEnds
  <2>1. radioPhase' \in RadioPhase /\ UNCHANGED <<serialVars, loopVars>>
    BY <1>2 DEF Subscribe, OpenPort, AddCallback, Shutdown, LoopEnds, RadioPhase
  <2> QED BY <2>1 DEF serialVars, loopVars, Passed, Known
<1>3. ASSUME NEW b \in BOOLEAN, Packet(b) PROVE Passed'
  <2>1. /\ serial = AtRest /\ heard < MaxRadioEvents /\ heard' = heard + 1
        /\ \/ serial' = [ doing |-> "store", event |-> heard' ]
              /\ texts' = texts \cup {heard'}
           \/ serial' = [ doing |-> "notify", event |-> heard' ] /\ texts' = texts
        /\ UNCHANGED <<radioPhase, messages, ready, queue, hand, own, main>>
    BY <1>3 DEF Packet, Does, loopVars
  <2>2. Known = heard /\ Known' \in Nat /\ Known <= Known'
    BY <1>1, <2>1 DEF Known, AtRest
  <2>3. 1 .. Known \subseteq 1 .. Known' /\ 1 .. heard \subseteq 1 .. heard'
        /\ 0 .. heard \subseteq 0 .. heard' /\ heard' \in 1 .. heard'
        /\ heard' \in 0 .. heard'
    BY <1>1, <2>1, <2>2
  <2>4. {own', main', ready', queue'} \subseteq Seq(1 .. Known')
    BY <2>1, <2>3, LargerRange DEF Passed
  <2>5. heard' \in 0 .. MaxRadioEvents /\ texts' \subseteq 1 .. heard' /\ heard' >= 1
    <3>1. heard' \in 0 .. MaxRadioEvents /\ heard' >= 1
      BY <1>1, <2>1
    <3>2. texts \subseteq 1 .. heard /\ texts' \subseteq texts \cup {heard'}
      BY <2>1 DEF Passed
    <3> QED BY <2>3, <3>1, <3>2, Zenon
  <2>6. /\ serial' \in [ doing : {"idle", "store", "notify"}, event : 0 .. heard' ]
        /\ serial'.event = heard' /\ (serial'.doing = "store" => heard' \in texts')
    BY <2>1, <2>3
  <2>7. /\ hand' \in [ event : 0 .. heard', next : {"none", "own", "main"} ]
        /\ hand'.next # "none" => hand'.event \in 1 .. Known'
    BY <2>1, <2>3 DEF Passed
  <2> QED BY <2>1, <2>4, <2>5, <2>6, <2>7 DEF Passed
<1>4. CASE StoreText
  <2>1. /\ serial.doing = "store" /\ serial' = [ doing |-> "notify", event |-> serial.event ]
        /\ UNCHANGED <<radioPhase, texts, heard, ready, queue, hand, own, main>>
    BY <1>4 DEF StoreText, Does, loopVars
  <2>2. Known' = heard /\ 1 .. Known \subseteq 1 .. Known'
    BY <1>1, <2>1 DEF Known
  <2>3. {own', main', ready', queue'} \subseteq Seq(1 .. Known')
    BY <2>1, <2>2, LargerRange DEF Passed
  <2> QED BY <2>1, <2>2, <2>3 DEF Passed
<1>5. CASE Notify
  <2>1. /\ serial.doing = "notify" /\ serial' = [ doing |-> "idle", event |-> 0 ]
        /\ ready' = ready \/ ready' = Append(ready, serial.event)
        /\ UNCHANGED <<radioPhase, texts, heard, queue, hand, own, main>>
    BY <1>5 DEF Notify, AtRest
  <2>2. Known' = Known /\ serial.event \in 1 .. Known /\ 0 \in 0 .. heard
    BY <1>1, <2>1 DEF Known, Passed
  <2>3. ready \in Seq(1 .. Known)
    BY DEF Passed
  <2>4. ready' \in Seq(1 .. Known)
    BY <2>1, <2>2, <2>3, AppendProperties, Zenon
  <2> QED BY <2>1, <2>2, <2>4 DEF Passed
<1>6. CASE RunReady
  <2>1. /\ ready # <<>> /\ queue' = Append(queue, Head(ready)) /\ ready' = Tail(ready)
        /\ UNCHANGED <<radioPhase, texts, heard, serial, hand, own, main>>
    BY <1>6 DEF RunReady, PutEvent, serialVars
  <2>2. Head(ready) \in 1 .. Known /\ Tail(ready) \in Seq(1 .. Known)
    BY <2>1, HeadTailProperties DEF Passed
  <2>3. queue' \in Seq(1 .. Known) /\ ready' \in Seq(1 .. Known) /\ Known' = Known
    BY <2>1, <2>2, AppendProperties DEF Passed, Known
  <2> QED BY <2>1, <2>3 DEF Passed
<1>7. CASE Take
  <2>1. /\ queue # <<>> /\ hand' = [ event |-> Head(queue), next |-> "own" ]
        /\ queue' = Tail(queue)
        /\ UNCHANGED <<radioPhase, texts, heard, serial, ready, own, main>>
    BY <1>7 DEF Take, serialVars
  <2>2. Head(queue) \in 1 .. Known /\ Tail(queue) \in Seq(1 .. Known)
    BY <2>1, HeadTailProperties DEF Passed
  <2>3. Known' = Known /\ Head(queue) \in 0 .. heard
    BY <1>1, <2>1, <2>2 DEF Known
  <2> QED BY <2>1, <2>2, <2>3 DEF Passed
<1>8. CASE BroadcastOwn \/ BroadcastMain
  <2>1. /\ hand.next \in {"own", "main"}
        /\ \/ own' = Append(own, hand.event) /\ main' = main
              /\ hand' = [ hand EXCEPT !.next = "main" ]
           \/ main' = Append(main, hand.event) /\ own' = own
              /\ hand' = [ event |-> 0, next |-> "none" ]
        /\ UNCHANGED <<radioPhase, texts, heard, serial, ready, queue>>
    BY <1>8 DEF BroadcastOwn, BroadcastMain, serialVars, Empty
  <2>2. hand.event \in 1 .. Known /\ Known' = Known /\ 0 \in 0 .. heard
    BY <1>1, <2>1 DEF Passed, Known
  <2>3. own \in Seq(1 .. Known) /\ main \in Seq(1 .. Known)
    BY DEF Passed
  <2>4. own' \in Seq(1 .. Known) /\ main' \in Seq(1 .. Known)
    <3>1. \A q \in Seq(1 .. Known) : Append(q, hand.event) \in Seq(1 .. Known)
      BY <2>2, AppendProperties, Zenon
    <3>2. own' \in {own, Append(own, hand.event)} /\ main' \in {main, Append(main, hand.event)}
      BY <2>1
    <3> QED BY <2>3, <3>1, <3>2, Zenon
  <2>5. /\ hand' \in [ event : 0 .. heard, next : {"none", "own", "main"} ]
        /\ hand'.next # "none" => hand'.event \in 1 .. Known
    BY <2>1, <2>2 DEF Passed
  <2> QED BY <2>1, <2>2, <2>4, <2>5 DEF Passed
<1>9. CASE UNCHANGED radioEventVars
  BY <1>9 DEF radioEventVars, Passed, Known
<1> QED BY <1>2, <1>3, <1>4, <1>5, <1>6, <1>7, <1>8, <1>9 DEF RadioNext, Loop

\* What is stored last is larger than the rest; what it drops is less.
LEMMA StoreKeeps ==
  ASSUME Passed, Kept, StoreText
  PROVE  Kept'
<1> DEFINE n == Len(messages)
           all == Append(messages, heard)
           m == Len(all)
           Held(q, t) == \/ \E i \in 1 .. Len(q) : q[i] = t
                         \/ Len(q) = MaxStored /\ \A i \in 1 .. Len(q) : t < q[i]
<1>1. /\ serial.doing = "store" /\ serial.event = heard /\ heard \in texts
      /\ heard \in Nat /\ heard >= 1 /\ Known = heard - 1
      /\ \A t \in texts : t \in Nat /\ t <= heard
  BY DEF StoreText, Passed, Known
<1>2. /\ messages' = IF m > MaxStored THEN Tail(all) ELSE all
      /\ texts' = texts /\ heard' = heard /\ Known' = heard
  BY <1>1 DEF StoreText, Stored, Does, Known
<1>3. /\ messages \in Seq(texts) /\ n \in Nat /\ n <= MaxStored /\ MaxStored \in Nat
      /\ MaxStored >= 1
  BY RadioAssumption DEF Kept
<1>4. /\ \A i \in 1 .. n : messages[i] \in texts /\ messages[i] <= Known
      /\ \A i, j \in 1 .. n : i < j => messages[i] < messages[j]
      /\ \A t \in texts : t <= Known => Held(messages, t)
  BY <1>3 DEF Kept
<1>5. /\ all \in Seq(texts) /\ m = n + 1 /\ all[n + 1] = heard
      /\ \A i \in 1 .. n : all[i] = messages[i]
  BY <1>1, <1>3
<1> HIDE DEF n, m, all
<1>6. \A i \in 1 .. m : all[i] \in texts /\ all[i] \in Nat /\ all[i] <= heard
  <2> TAKE i \in 1 .. m
  <2>1. i \in 1 .. n \/ i = n + 1
    BY <1>3, <1>5
  <2>2. all[i] \in texts
    BY <1>1, <1>4, <1>5, <2>1
  <2> QED BY <1>1, <2>2
<1>7. \A i, j \in 1 .. m : i < j => all[i] < all[j]
  <2> SUFFICES ASSUME NEW i \in 1 .. m, NEW j \in 1 .. m, i < j PROVE all[i] < all[j]
    OBVIOUS
  <2>1. i \in 1 .. n /\ all[i] = messages[i] /\ messages[i] \in Nat
    <3>1. i \in 1 .. n
      BY <1>3, <1>5
    <3> QED BY <1>1, <1>4, <1>5, <3>1
  <2>2. CASE j \in 1 .. n
    BY <1>4, <1>5, <2>1, <2>2
  <2>3. CASE j = n + 1
    BY <1>1, <1>4, <1>5, <2>1, <2>3
  <2> QED BY <1>3, <1>5, <2>2, <2>3
<1>8. \A t \in texts : \/ \E i \in 1 .. m : all[i] = t
                       \/ n = MaxStored /\ \A i \in 1 .. m : t < all[i]
  <2> TAKE t \in texts
  <2>1. CASE t = heard
    <3>1. n + 1 \in 1 .. m
      BY <1>3, <1>5
    <3> QED BY <1>5, <2>1, <3>1
  <2>2. CASE t # heard
    <3>1. t \in Nat /\ t <= Known /\ t < heard
      BY <1>1, <2>2
    <3>2. CASE \E i \in 1 .. n : messages[i] = t
      BY <1>3, <1>5, <3>2
    <3>3. CASE n = MaxStored /\ \A i \in 1 .. n : t < messages[i]
      <4>1. \A i \in 1 .. m : t < all[i]
        BY <1>3, <1>5, <3>1, <3>3
      <4> QED BY <3>3, <4>1
    <3> QED BY <1>4, <3>1, <3>2, <3>3 DEF n
  <2> QED BY <2>1, <2>2
<1>9. CASE m <= MaxStored
  <2>1. messages' = all
    BY <1>2, <1>3, <1>5, <1>9
  <2>2. \A t \in texts : \E i \in 1 .. m : all[i] = t
    BY <1>3, <1>5, <1>8, <1>9
  <2> QED BY <1>2, <1>5, <1>6, <1>7, <1>9, <2>1, <2>2 DEF Kept, m
<1>10. CASE m > MaxStored
  <2> DEFINE rest == Tail(all)
             r == Len(rest)
  <2>1. messages' = rest /\ n = MaxStored /\ all # <<>>
    BY <1>2, <1>3, <1>5, <1>10 DEF m
  <2>2. /\ rest \in Seq(texts) /\ r = m - 1
        /\ \A i \in 1 .. r : rest[i] = all[i + 1]
    BY <1>5, <2>1, HeadTailProperties DEF m
  <2> HIDE DEF rest, r
  <2>3. r = MaxStored /\ \A i \in 1 .. r : i \in Nat /\ i + 1 \in 1 .. m
    BY <1>3, <1>5, <2>1, <2>2
  <2>4. \A i \in 1 .. r : rest[i] <= heard
    BY <1>6, <2>2, <2>3
  <2>5. \A i, j \in 1 .. r : i < j => rest[i] < rest[j]
    BY <1>7, <2>2, <2>3
  <2>6. ASSUME NEW t \in texts
        PROVE  \/ \E i \in 1 .. r : rest[i] = t
               \/ r = MaxStored /\ \A i \in 1 .. r : t < rest[i]
    <3>1. CASE \A i \in 1 .. m : t < all[i]
      BY <2>2, <2>3, <3>1
    <3>2. ASSUME NEW k \in 1 .. m, all[k] = t
          PROVE  \/ \E i \in 1 .. r : rest[i] = t
                 \/ r = MaxStored /\ \A i \in 1 .. r : t < rest[i]
      <4>1. CASE k = 1
        BY <1>3, <1>5, <1>7, <2>2, <2>3, <3>2, <4>1
      <4>2. CASE k # 1
        <5>1. k - 1 \in 1 .. r /\ (k - 1) + 1 = k
          BY <1>3, <1>5, <2>2, <4>2
        <5>2. rest[k - 1] = t
          BY <2>2, <3>2, <5>1
        <5> QED BY <5>1, <5>2
      <4> QED BY <4>1, <4>2
    <3> QED BY <1>8, <3>1, <3>2
  <2>7. messages' \in Seq(texts') /\ Len(messages') = r /\ r <= MaxStored
    BY <1>2, <1>3, <2>1, <2>2, <2>3 DEF r
  <2> QED BY <1>2, <2>1, <2>4, <2>5, <2>6, <2>7 DEF Kept
<1> QED BY <1>3, <1>5, <1>9, <1>10

LEMMA KeptStep == Passed /\ Kept /\ [RadioNext]_radioEventVars => Kept'
<1> SUFFICES ASSUME Passed, Kept, [RadioNext]_radioEventVars PROVE Kept'
  OBVIOUS
<1>1. CASE StoreText
  BY <1>1, StoreKeeps
<1>2. ASSUME NEW b \in BOOLEAN, Packet(b) PROVE Kept'
  <2>1. /\ messages' = messages /\ heard' = heard + 1 /\ Known = heard
        /\ \/ texts' = texts /\ Known' = heard'
           \/ texts' = texts \cup {heard'} /\ Known' = heard
    BY <1>2 DEF Packet, Does, Known, AtRest, Passed
  <2>2. heard \in Nat /\ \A t \in texts : t \in Nat /\ t <= heard
    BY DEF Passed
  <2>3. Known <= Known' /\ \A t \in texts' : t <= Known' => t \in texts /\ t <= Known
    BY <2>1, <2>2
  <2>4. messages \in Seq(texts')
    BY <2>1, LargerRange DEF Kept
  <2>5. \A i \in 1 .. Len(messages) : messages[i] <= Known'
    <3>1. \A i \in 1 .. Len(messages) : messages[i] \in texts
      BY DEF Kept
    <3> QED BY <2>1, <2>2, <3>1
  <2> QED BY <2>1, <2>3, <2>4, <2>5 DEF Kept
<1>3. CASE Notify
  BY <1>3 DEF Notify, AtRest, Known, Kept
<1>4. CASE \/ RadioNext /\ ~ StoreText /\ ~ Notify /\ ~ Packet(TRUE) /\ ~ Packet(FALSE)
           \/ UNCHANGED radioEventVars
  <2>1. UNCHANGED serialVars
    BY <1>4
    DEF RadioNext, Loop, Subscribe, OpenPort, AddCallback, Shutdown, LoopEnds, RunReady,
        Take, BroadcastOwn, BroadcastMain, serialVars, radioEventVars
  <2> QED BY <2>1 DEF serialVars, Kept, Known
<1> QED BY <1>1, <1>2, <1>3, <1>4

LEMMA ToSetIn ==
  ASSUME NEW S, NEW q \in Seq(S)
  PROVE  ToSet(q) \subseteq S
BY DEF ToSet

\* A set of naturals that holds what an increasing sequence has from a to b has
\* as many elements.
LEMMA AtLeast ==
  ASSUME NEW q, NEW a \in Nat, NEW b \in Nat, NEW T, IsFiniteSet(T),
         \A i \in a .. b : q[i] \in T /\ q[i] \in Nat,
         \A i, j \in a .. b : i < j => q[i] < q[j]
  PROVE  Cardinality(T) >= b - a + 1
<1> DEFINE f == [ i \in a .. b |-> q[i] ]
<1>1. f \in [ a .. b -> T ]
  OBVIOUS
<1>2. ASSUME NEW i \in a .. b, NEW j \in a .. b, f[i] = f[j] PROVE i = j
  <2>1. q[i] = q[j] /\ q[i] \in Nat /\ q[j] \in Nat
    BY <1>2
  <2>2. ~ i < j /\ ~ j < i
    BY <2>1
  <2> QED BY <2>2
<1>3. f \in Injection(a .. b, T)
  BY <1>1, <1>2 DEF Injection, IsInjective
<1>4. Cardinality(a .. b) <= Cardinality(T) /\ Cardinality(T) \in Nat
  BY <1>3, FS_Injection, FS_CardinalityType
<1>5. Cardinality(a .. b) = IF a > b THEN 0 ELSE b - a + 1
  BY FS_Interval
<1> QED BY <1>4, <1>5

LEMMA PassedTypes == Passed /\ Kept => RadioTypeOK
<1> SUFFICES ASSUME Passed, Kept PROVE RadioTypeOK
  OBVIOUS
<1>1. heard \in Nat /\ heard <= MaxRadioEvents /\ MaxRadioEvents \in Nat /\ Known <= heard
  BY RadioAssumption DEF Passed, Known
<1>2. 1 .. Known \subseteq Event /\ texts \subseteq Event
      /\ 0 .. heard \subseteq 0 .. MaxRadioEvents
  <2>1. Known \in Int /\ texts \subseteq 1 .. heard
    BY <1>1 DEF Passed, Known
  <2> QED BY <1>1, <2>1 DEF Event
<1>3. {messages, ready, queue, own, main} \subseteq Seq(Event)
  BY <1>2, LargerRange DEF Passed, Kept
<1>4. serial \in [ doing : {"idle", "store", "notify"}, event : 0 .. MaxRadioEvents ]
  BY <1>2 DEF Passed
<1>5. hand \in [ event : 0 .. MaxRadioEvents, next : {"none", "own", "main"} ]
  BY <1>2 DEF Passed
<1> QED BY <1>2, <1>3, <1>4, <1>5 DEF Passed, RadioTypeOK

\* Every variable keeps its type.
THEOREM RadioTypes == RadioSpec => []RadioTypeOK
<1>1. RadioSpec => RadioInit /\ [][RadioNext]_radioEventVars
  BY PTL DEF RadioSpec
<1>2. RadioSpec => [](Passed /\ Kept)
  BY <1>1, PassedInit, PassedStep, KeptStep, PTL
<1> QED BY <1>2, PassedTypes, PTL

\* A text of which a browser has been told is in the answer to GET messages, or
\* as many newer ones as that holds have come since (_on_receive, get_messages).
THEOREM RadioListed == RadioSpec => []AnnouncedIsListed
<1>1. RadioSpec => RadioInit /\ [][RadioNext]_radioEventVars
  BY PTL DEF RadioSpec
<1>2. RadioSpec => [](Passed /\ Kept)
  BY <1>1, PassedInit, PassedStep, KeptStep, PTL
<1>3. Passed /\ Kept => AnnouncedIsListed
  <2> SUFFICES ASSUME Passed, Kept, radioPhase = "hooked",
                      NEW e \in (ToSet(own) \cup ToSet(main)) \cap texts
               PROVE  \/ e \in ToSet(ListedTexts)
                      \/ Cardinality({ t \in texts : t > e }) >= Nearer(Limit, MaxStored)
    BY DEF AnnouncedIsListed
  <2> DEFINE n == Len(messages)
             newer == { t \in texts : t > e }
  <2>1. e \in texts /\ e \in Nat /\ e <= Known
    <3>1. own \in Seq(1 .. Known) /\ main \in Seq(1 .. Known)
      BY DEF Passed
    <3>2. e \in 1 .. Known
      BY <3>1, ToSetIn
    <3>3. Known \in Int
      BY DEF Passed, Known
    <3> QED BY <3>2, <3>3
  <2>2. /\ messages \in Seq(texts) /\ n \in Nat /\ texts \subseteq Nat
        /\ \A i \in 1 .. n : messages[i] \in texts
        /\ \A i, j \in 1 .. n : i < j => messages[i] < messages[j]
    BY DEF Passed, Kept
  <2>3. IsFiniteSet(newer) /\ Cardinality(newer) \in Nat
    <3>1. IsFiniteSet(1 .. heard)
      BY FS_Interval DEF Passed
    <3>2. newer \subseteq 1 .. heard
      BY DEF Passed
    <3> QED BY <3>1, <3>2, FS_Subset, FS_CardinalityType
  <2>4. Limit \in Nat /\ MaxStored \in Nat /\ Limit >= 1
    BY RadioAssumption
  <2> HIDE DEF n, newer
  <2>5. CASE n = MaxStored /\ \A i \in 1 .. n : e < messages[i]
    <3>1. \A i \in 1 .. n : messages[i] \in newer /\ messages[i] \in Nat
      BY <2>2, <2>5 DEF newer
    <3>2. Cardinality(newer) >= n - 1 + 1
      BY <2>2, <2>3, <3>1, AtLeast
    <3> QED BY <2>2, <2>3, <2>4, <2>5, <3>2 DEF Nearer, newer
  <2>6. ASSUME NEW k \in 1 .. n, messages[k] = e
        PROVE  e \in ToSet(ListedTexts) \/ Cardinality(newer) >= Nearer(Limit, MaxStored)
    <3>1. CASE k + Limit <= n
      <4>1. \A i \in k + 1 .. n : i \in 1 .. n /\ messages[i] \in newer /\ messages[i] \in Nat
        <5> TAKE i \in k + 1 .. n
        <5>1. i \in 1 .. n /\ k \in 1 .. n /\ k < i
          BY <2>2
        <5>2. messages[i] \in texts /\ messages[i] \in Nat /\ messages[k] < messages[i]
          BY <2>2, <5>1
        <5> QED BY <2>1, <2>6, <5>1, <5>2 DEF newer
      <4>2. \A i, j \in k + 1 .. n : i < j => messages[i] < messages[j]
        BY <2>2, <4>1
      <4>3. Cardinality(newer) >= n - (k + 1) + 1
        <5>1. k + 1 \in Nat
          BY <2>2
        <5> QED BY <2>2, <2>3, <4>1, <4>2, <5>1, AtLeast
      <4> QED BY <2>2, <2>3, <2>4, <3>1, <4>3 DEF Nearer
    <3>2. CASE ~ k + Limit <= n
      <4> DEFINE a == IF n > Limit THEN n - Limit + 1 ELSE 1
                 s == SubSeq(messages, a, n)
      <4>1. a \in 1 .. n /\ a <= k
        BY <2>2, <2>4, <3>2
      <4>2. /\ s \in Seq(texts) /\ Len(s) = n - a + 1
            /\ \A i \in 1 .. n - a + 1 : s[i] = messages[a + i - 1]
        BY <2>2, <4>1, SubSeqProperties
      <4>3. ListedTexts = s
        BY DEF ListedTexts, Latest, n
      <4> HIDE DEF a, s
      <4>4. k - a + 1 \in 1 .. n - a + 1 /\ a + (k - a + 1) - 1 = k
        BY <2>2, <4>1
      <4>5. s[k - a + 1] = e /\ k - a + 1 \in DOMAIN s
        BY <2>6, <4>2, <4>4
      <4> QED BY <4>3, <4>5 DEF ToSet
    <3> QED BY <3>1, <3>2
  <2> QED BY <2>1, <2>5, <2>6 DEF Kept, n, newer
<1> QED BY <1>2, <1>3, PTL

-----------------------------------------------------------------------------
(* Connections: the registry of clients.                                   *)

\* Stages of a client that has an id and may be registered, and of one that
\* listens or is about to.
Numbered == {"welcome", "serving", "cut"}
Served == {"welcome", "serving"}

ClientsTyped ==
  /\ socket \in [Client -> {"new", "open", "gone"}]
  /\ endpoint \in [Client -> Stage]
  /\ number \in [Client -> Nat]
  /\ counter \in Nat
  /\ \A c \in Client : socket[c] = "new" => endpoint[c] = "new"

\* Ids are below the counter and are not shared.
IdsApart ==
  \A c \in Client : endpoint[c] \in Numbered =>
    /\ number[c] < counter
    /\ \A d \in Client : endpoint[d] \in Numbered /\ number[d] = number[c] => d = c

\* An entry is that of a client with this id.
EntriesRight ==
  \A e \in active :
    /\ e \in Nat \X Client
    /\ endpoint[e[2]] \in Numbered /\ number[e[2]] = e[1]

\* The id in a snapshot is that of no other client, though its own may be over.
SnapshotsRight ==
  \A task \in tasks : \A e \in task.left :
    /\ e \in Nat \X Client
    /\ e[1] < counter
    /\ \A c \in Client : endpoint[c] \in Numbered /\ number[c] = e[1] => c = e[2]

\* An id that is to be removed is not that of a client who could take messages.
FailuresRight ==
  \A task \in tasks :
    /\ task \in Task
    /\ \A i \in task.failed :
         /\ i \in Nat /\ i < counter
         /\ \A c \in Client :
              endpoint[c] \in Served /\ number[c] = i =>
                socket[c] # "open" \/ c \in deafened

\* Whoever could take messages is registered.
ServedAreRegistered ==
  \A c \in Client :
    endpoint[c] \in Served /\ socket[c] = "open" =>
      <<number[c], c>> \in active \/ c \in deafened

ClientsInv ==
  /\ ClientsTyped /\ IdsApart /\ EntriesRight
  /\ SnapshotsRight /\ FailuresRight /\ ServedAreRegistered

-----------------------------------------------------------------------------

\* No client has an id at the start.
LEMMA ClientsStart == ClientsInit => ClientsInv
  BY DEF ClientsInit, ClientsInv, ClientsTyped, IdsApart, EntriesRight, SnapshotsRight,
         FailuresRight, ServedAreRegistered, Numbered, Served, Stage

\* A connection begins, or is refused, whatever the limit.
Connects(c) ==
  /\ socket[c] = "new"
  /\ \/ /\ endpoint' = [endpoint EXCEPT ![c] = "over"]
        /\ socket' = [socket EXCEPT ![c] = "gone"]
     \/ /\ endpoint' = [endpoint EXCEPT ![c] = "accepting"]
        /\ socket' = [socket EXCEPT ![c] = "open"]
  /\ UNCHANGED <<number, counter, active, tasks, deafened, started>>

LEMMA ConnectOK == ASSUME ClientsInv, NEW c \in Client, Connects(c) PROVE ClientsInv'
<1>1. endpoint[c] = "new"
  BY DEF ClientsInv, ClientsTyped, Connects
<1>2. ClientsTyped'
  BY DEF ClientsInv, ClientsTyped, Connects, Stage
<1>3. \A d \in Client \ {c} : endpoint'[d] = endpoint[d] /\ socket'[d] = socket[d]
  BY DEF ClientsInv, ClientsTyped, Connects
<1>4. endpoint'[c] \notin Numbered \cup Served
  BY DEF ClientsInv, ClientsTyped, Connects, Numbered, Served
<1>5. UNCHANGED <<number, counter, active, tasks, deafened>>
  BY DEF Connects
<1>6. endpoint[c] \notin Numbered
  BY <1>1 DEF Numbered
<1>7. IdsApart' /\ EntriesRight' /\ ServedAreRegistered'
  BY <1>3, <1>4, <1>5, <1>6 DEF ClientsInv, IdsApart, EntriesRight, ServedAreRegistered
<1>8. SnapshotsRight' /\ FailuresRight'
  BY <1>3, <1>4, <1>5 DEF ClientsInv, SnapshotsRight, FailuresRight
<1>9. QED
  BY <1>2, <1>7, <1>8 DEF ClientsInv

\* The new id is above all others.
LEMMA AcceptOK == ASSUME ClientsInv, NEW c \in Client, Accept(c) PROVE ClientsInv'
<1>1. endpoint[c] = "accepting" /\ endpoint[c] \notin Numbered \cup Served
  BY DEF Accept, Numbered, Served
<1>2. UNCHANGED <<socket, tasks, deafened>>
  BY DEF Accept
<1>3. CASE socket[c] = "gone"
  <2>1. ClientsTyped'
    BY <1>1, <1>2, <1>3 DEF ClientsInv, ClientsTyped, Accept, Stage
  <2>2. \A d \in Client \ {c} : endpoint'[d] = endpoint[d]
    BY <1>3 DEF ClientsInv, ClientsTyped, Accept
  <2>3. endpoint'[c] \notin Numbered \cup Served
    BY <1>3 DEF ClientsInv, ClientsTyped, Accept, Numbered, Served
  <2>4. UNCHANGED <<number, counter, active>>
    BY <1>3 DEF Accept
  <2>5. IdsApart' /\ EntriesRight' /\ ServedAreRegistered'
    BY <1>1, <1>2, <2>2, <2>3, <2>4 DEF ClientsInv, IdsApart, EntriesRight, ServedAreRegistered
  <2>6. SnapshotsRight' /\ FailuresRight'
    BY <1>2, <2>2, <2>3, <2>4 DEF ClientsInv, SnapshotsRight, FailuresRight
  <2>7. QED
    BY <2>1, <2>5, <2>6 DEF ClientsInv
<1>4. CASE socket[c] # "gone"
  <2>1. /\ endpoint' = [endpoint EXCEPT ![c] = "welcome"]
        /\ number' = [number EXCEPT ![c] = counter]
        /\ counter' = counter + 1
        /\ active' = { e \in active : e[1] # counter } \cup {<<counter, c>>}
    BY <1>4 DEF Accept, NewId, Put
  <2>2. ClientsTyped'
    BY <1>1, <1>2, <2>1 DEF ClientsInv, ClientsTyped, Stage
  <2>3. /\ \A d \in Client \ {c} : endpoint'[d] = endpoint[d] /\ number'[d] = number[d]
        /\ endpoint'[c] = "welcome" /\ number'[c] = counter
    BY <2>1 DEF ClientsInv, ClientsTyped
  <2>4. \A d \in Client \ {c} : endpoint[d] \in Numbered => number[d] < counter
    BY DEF ClientsInv, IdsApart
  <2>5. counter \in Nat /\ number \in [Client -> Nat]
    BY DEF ClientsInv, ClientsTyped
  <2>6. IdsApart'
    BY <2>1, <2>3, <2>4, <2>5 DEF ClientsInv, IdsApart
  <2>7. active' = active \cup {<<counter, c>>}
    BY <2>1, <2>4, <2>5, <1>1 DEF ClientsInv, EntriesRight, IdsApart
  <2>8. EntriesRight'
    <3>1. \A e \in active : e[2] # c
      BY <1>1 DEF ClientsInv, EntriesRight
    <3>2. QED
      BY <2>7, <3>1, <2>3, <2>5 DEF ClientsInv, EntriesRight, Numbered
  <2>9. ServedAreRegistered'
    BY <1>2, <2>3, <2>7 DEF ClientsInv, ServedAreRegistered
  <2>10. SnapshotsRight'
    BY <1>2, <2>1, <2>3, <2>5 DEF ClientsInv, SnapshotsRight
  <2>11. FailuresRight'
    BY <1>2, <2>1, <2>3, <2>5 DEF ClientsInv, FailuresRight
  <2>12. QED
    BY <2>2, <2>6, <2>8, <2>9, <2>10, <2>11 DEF ClientsInv
<1>5. QED
  BY <1>3, <1>4

\* What the steps of an endpoint have in common: one client comes nearer to
\* its end, its socket is not opened, and no id is given.
LEMMA EndpointOK ==
  ASSUME ClientsInv, NEW c \in Client, endpoint[c] \in Served, socket[c] # "new",
         NEW stage \in {"serving", "over", "cut"},
         NEW ids, active' = Without(ids),
         endpoint' = [endpoint EXCEPT ![c] = stage],
         \/ socket' = socket
         \/ socket' = [socket EXCEPT ![c] = "gone"],
         UNCHANGED <<number, counter, deafened>>,
         ids \subseteq {number[c]},
         ids # {} => stage = "over" \/ socket[c] = "gone",
         stage = "over" => ids = {number[c]}
  PROVE  ClientsTyped' /\ IdsApart' /\ EntriesRight' /\ ServedAreRegistered'
<1>1. ClientsTyped'
  BY DEF ClientsInv, ClientsTyped, Stage
<1>2. endpoint[c] \in Numbered
  BY DEF Served, Numbered
<1>3. \A d \in Client :
        /\ endpoint'[d] = IF d = c THEN stage ELSE endpoint[d]
        /\ socket'[d] = "open" => socket[d] = "open"
        /\ endpoint'[d] \in Numbered => endpoint[d] \in Numbered
        /\ endpoint'[d] \in Served => endpoint[d] \in Served
  BY <1>2 DEF ClientsInv, ClientsTyped
<1>4. IdsApart'
  BY <1>3 DEF ClientsInv, IdsApart
<1>5. \A d \in Client : number[d] = number[c] /\ endpoint[d] \in Numbered => d = c
  BY <1>2 DEF ClientsInv, IdsApart
<1>6. EntriesRight'
  BY <1>3 DEF ClientsInv, EntriesRight, Without, Numbered
<1>7. ServedAreRegistered'
  BY <1>3, <1>5 DEF ClientsInv, ServedAreRegistered, Without, Served, Numbered
<1>8. QED
  BY <1>1, <1>4, <1>6, <1>7

\* Snapshots and failures stay right when clients come nearer to their end,
\* and a broadcast begins with a right snapshot.
LEMMA TasksStayRight ==
  ASSUME ClientsInv, UNCHANGED <<number, counter, deafened>>,
         \A d \in Client :
           /\ socket'[d] = "open" => socket[d] = "open"
           /\ endpoint'[d] \in Numbered => endpoint[d] \in Numbered
           /\ endpoint'[d] \in Served => endpoint[d] \in Served,
         IdsApart', EntriesRight',
         \A task \in tasks' : \/ task \in tasks
                              \/ /\ task \in Task
                                 /\ task.left = active' /\ task.failed = {}
  PROVE  SnapshotsRight' /\ FailuresRight'
<1>1. \A e \in active' :
        /\ e \in Nat \X Client /\ e[1] < counter'
        /\ \A c \in Client : endpoint'[c] \in Numbered /\ number'[c] = e[1] => c = e[2]
  BY DEF IdsApart, EntriesRight
<1>2. SnapshotsRight'
  BY <1>1 DEF ClientsInv, SnapshotsRight
<1>3. FailuresRight'
  BY DEF ClientsInv, FailuresRight
<1>4. QED
  BY <1>2, <1>3

\* What one step of an endpoint does to the sockets and stages.
LEMMA NearerToTheEnd ==
  ASSUME ClientsInv, NEW c \in Client, endpoint[c] \in Served,
         NEW stage \in {"serving", "over", "cut"},
         endpoint' = [endpoint EXCEPT ![c] = stage],
         \/ socket' = socket
         \/ socket' = [socket EXCEPT ![c] = "gone"]
  PROVE  \A d \in Client :
           /\ socket'[d] = "open" => socket[d] = "open"
           /\ endpoint'[d] \in Numbered => endpoint[d] \in Numbered
           /\ endpoint'[d] \in Served => endpoint[d] \in Served
  BY DEF ClientsInv, ClientsTyped, Numbered, Served

\* A welcome and an echo remove at most their own client, which has gone.
LEMMA PersonalOK ==
  ASSUME ClientsInv, NEW c \in Client, Welcome(c) \/ Echo(c)
  PROVE  ClientsInv'
<1>1. /\ endpoint[c] \in Served /\ socket[c] # "new"
      /\ UNCHANGED <<socket, number, counter, tasks, deafened>>
      /\ Personal(c)
  BY DEF Welcome, Echo, Served, ClientsInv, ClientsTyped
<1>2. endpoint' = [endpoint EXCEPT ![c] = "serving"]
  BY DEF Welcome, Echo, ClientsInv, ClientsTyped
<1>3. PICK ids : /\ active' = Without(ids) /\ ids \subseteq {number[c]}
                 /\ ids # {} => socket[c] = "gone"
  <2>1. CASE number[c] \in Ids(active) /\ socket[c] = "gone"
    BY <1>1, <2>1 DEF Personal
  <2>2. CASE ~ (number[c] \in Ids(active) /\ socket[c] = "gone")
    <3>1. active' = Without({})
      BY <1>1, <2>2 DEF Personal, Without
    <3>2. QED
      BY <3>1
  <2>3. QED
    BY <2>1, <2>2
<1>4. ClientsTyped' /\ IdsApart' /\ EntriesRight' /\ ServedAreRegistered'
  BY <1>1, <1>2, <1>3, EndpointOK
<1>5. SnapshotsRight' /\ FailuresRight'
  BY <1>1, <1>2, <1>4, NearerToTheEnd, TasksStayRight
<1>6. QED
  BY <1>4, <1>5 DEF ClientsInv

\* An endpoint that ends, or has heard that its client is well.
LEMMA EndOK ==
  ASSUME ClientsInv, NEW c \in Client,
         Disconnect(c) \/ Cut(c) \/ RadioWelcome(c) \/ RadioEnd(c)
  PROVE  ClientsInv'
<1>1. /\ endpoint[c] \in Served /\ socket[c] # "new"
      /\ UNCHANGED <<number, counter, deafened>>
  BY DEF Disconnect, Cut, RadioWelcome, RadioEnd, Served, ClientsInv, ClientsTyped
<1>2. socket' = socket \/ socket' = [socket EXCEPT ![c] = "gone"]
  BY DEF Disconnect, Cut, RadioWelcome, RadioEnd
<1>3. PICK stage \in {"serving", "over", "cut"}, ids \in SUBSET {number[c]} :
        /\ endpoint' = [endpoint EXCEPT ![c] = stage]
        /\ active' = Without(ids)
        /\ ids # {} => stage = "over"
        /\ stage = "over" => ids = {number[c]}
  <2>1. CASE Disconnect(c) \/ RadioEnd(c)
    BY <2>1 DEF Disconnect, RadioEnd, AfterDisconnect
  <2>2. CASE Cut(c) \/ RadioWelcome(c)
    <3>1. active' = Without({})
      BY <2>2 DEF Cut, RadioWelcome, Without
    <3>2. QED
      BY <2>2, <3>1 DEF Cut, RadioWelcome
  <2>3. QED
    BY <2>1, <2>2
<1>4. ClientsTyped' /\ IdsApart' /\ EntriesRight' /\ ServedAreRegistered'
  BY <1>1, <1>2, <1>3, EndpointOK
<1>5. \A task \in tasks' : \/ task \in tasks
                           \/ /\ task \in Task
                              /\ task.left = active' /\ task.failed = {}
  BY <1>4 DEF Disconnect, Cut, RadioWelcome, RadioEnd, Kind, Task, EntriesRight
<1>6. SnapshotsRight' /\ FailuresRight'
  BY <1>1, <1>2, <1>3, <1>4, <1>5, NearerToTheEnd, TasksStayRight
<1>7. QED
  BY <1>4, <1>6 DEF ClientsInv

LEMMA LeaveOK == ASSUME ClientsInv, NEW c \in Client, Leave(c) PROVE ClientsInv'
<1>1. /\ ClientsTyped'
      /\ \A d \in Client : socket'[d] = "open" => socket[d] = "open"
  BY DEF ClientsInv, ClientsTyped, Leave
<1>2. UNCHANGED <<endpoint, number, counter, active, tasks, deafened>>
  BY DEF Leave
<1>3. IdsApart' /\ EntriesRight' /\ ServedAreRegistered'
  BY <1>1, <1>2 DEF ClientsInv, IdsApart, EntriesRight, ServedAreRegistered
<1>4. SnapshotsRight' /\ FailuresRight'
  BY <1>1, <1>2, <1>3, TasksStayRight
<1>5. QED
  BY <1>1, <1>3, <1>4 DEF ClientsInv

LEMMA BroadcastOK == ASSUME ClientsInv, NEW kind \in Kind, Broadcast(kind) PROVE ClientsInv'
<1>1. UNCHANGED <<socket, endpoint, number, counter, active, deafened>>
  BY DEF Broadcast
<1>2. ClientsTyped' /\ IdsApart' /\ EntriesRight' /\ ServedAreRegistered'
  BY <1>1 DEF ClientsInv, ClientsTyped, IdsApart, EntriesRight, ServedAreRegistered
<1>3. \A task \in tasks' : \/ task \in tasks
                           \/ /\ task \in Task
                              /\ task.left = active' /\ task.failed = {}
  BY <1>2 DEF Broadcast, Task, EntriesRight
<1>4. SnapshotsRight' /\ FailuresRight'
  BY <1>1, <1>2, <1>3, TasksStayRight
<1>5. QED
  BY <1>2, <1>4 DEF ClientsInv

\* Who is marked as failed could not take the message, or is deafened by it.
LEMMA SendOK == ASSUME ClientsInv, NEW task \in tasks, Send(task) PROVE ClientsInv'
<1>1. UNCHANGED <<socket, endpoint, number, counter, active>>
  BY DEF Send
<1>2. PICK e \in task.left :
        /\ tasks' = (tasks \ {task}) \cup
             {[ task EXCEPT !.left = @ \ {e},
                            !.failed = IF Takes(e[2], task.kind) THEN @
                                       ELSE @ \cup {e[1]} ]}
        /\ deafened' = IF task.kind = "dated" THEN deafened \cup {e[2]} ELSE deafened
  BY DEF Send
<1>3. /\ e \in Nat \X Client /\ e[1] < counter
      /\ \A c \in Client : endpoint[c] \in Numbered /\ number[c] = e[1] => c = e[2]
  BY DEF ClientsInv, SnapshotsRight
<1>4. ClientsTyped' /\ IdsApart' /\ EntriesRight' /\ ServedAreRegistered'
  BY <1>1, <1>2 DEF ClientsInv, ClientsTyped, IdsApart, EntriesRight, ServedAreRegistered
<1>5. \A t \in tasks' :
        \/ t \in tasks
        \/ /\ t \in Task /\ t.left \subseteq task.left
           /\ t.failed = IF Takes(e[2], task.kind) THEN task.failed
                         ELSE task.failed \cup {e[1]}
  <2> SUFFICES ASSUME NEW t \in tasks', t \notin tasks
               PROVE  /\ t \in Task /\ t.left \subseteq task.left
                      /\ t.failed = IF Takes(e[2], task.kind) THEN task.failed
                                    ELSE task.failed \cup {e[1]}
    OBVIOUS
  <2>1. t = [ task EXCEPT !.left = @ \ {e},
                          !.failed = IF Takes(e[2], task.kind) THEN @
                                     ELSE @ \cup {e[1]} ]
    BY <1>2
  <2>2. task \in Task
    BY DEF ClientsInv, FailuresRight
  <2>3. QED
    BY <1>3, <2>1, <2>2 DEF Task
<1>6. SnapshotsRight'
  BY <1>1, <1>5 DEF ClientsInv, SnapshotsRight
<1>7. ~ Takes(e[2], task.kind) =>
        \A c \in Client : endpoint[c] \in Served /\ number[c] = e[1] =>
          socket[c] # "open" \/ c \in deafened'
  BY <1>2, <1>3 DEF ClientsInv, FailuresRight, Takes, Kind, Served, Numbered, Task
<1>8. FailuresRight'
  BY <1>1, <1>2, <1>3, <1>5, <1>7 DEF ClientsInv, FailuresRight
<1>9. QED
  BY <1>4, <1>6, <1>8 DEF ClientsInv

LEMMA FinishOK == ASSUME ClientsInv, NEW task \in tasks, Finish(task) PROVE ClientsInv'
<1>1. /\ UNCHANGED <<socket, endpoint, number, counter, deafened>>
      /\ tasks' \subseteq tasks /\ active' = Without(task.failed)
  BY DEF Finish
<1>2. \A c \in Client : endpoint[c] \in Served /\ socket[c] = "open"
                          /\ number[c] \in task.failed => c \in deafened
  BY DEF ClientsInv, FailuresRight
<1>3. EntriesRight' /\ ServedAreRegistered'
  BY <1>1, <1>2 DEF ClientsInv, EntriesRight, ServedAreRegistered, Without
<1>4. ClientsTyped' /\ IdsApart' /\ SnapshotsRight' /\ FailuresRight'
  BY <1>1 DEF ClientsInv, ClientsTyped, IdsApart, SnapshotsRight, FailuresRight
<1>5. QED
  BY <1>3, <1>4 DEF ClientsInv

\* The steps of either endpoint, for any limit.
ClientsMove ==
  \/ \E c \in Client :
       \/ Connects(c) \/ Accept(c) \/ Leave(c)
       \/ Welcome(c) \/ Echo(c) \/ Disconnect(c) \/ Cut(c)
       \/ RadioWelcome(c) \/ RadioEnd(c)
  \/ \E kind \in Kind : Broadcast(kind)
  \/ \E task \in tasks : Send(task) \/ Finish(task)

LEMMA NextMoves == ClientsNext => ClientsMove
<1>1. \A c \in Client : Connect(c) => Connects(c)
  BY DEF Connect, Connects
<1>2. QED
  BY <1>1 DEF ClientsNext, ClientsMove

LEMMA ClientsMoveOK == ASSUME ClientsInv, [ClientsMove]_clientVars PROVE ClientsInv'
<1>1. ASSUME NEW c \in Client, Connects(c) \/ Accept(c) \/ Leave(c) PROVE ClientsInv'
  BY <1>1, ConnectOK, AcceptOK, LeaveOK
<1>2. ASSUME NEW c \in Client,
             \/ Welcome(c) \/ Echo(c) \/ Disconnect(c) \/ Cut(c)
             \/ RadioWelcome(c) \/ RadioEnd(c)
      PROVE  ClientsInv'
  BY <1>2, PersonalOK, EndOK
<1>3. ASSUME NEW kind \in Kind, Broadcast(kind) PROVE ClientsInv'
  BY <1>3, BroadcastOK
<1>4. ASSUME NEW task \in tasks, Send(task) \/ Finish(task) PROVE ClientsInv'
  BY <1>4, SendOK, FinishOK
<1>5. CASE UNCHANGED clientVars
  BY <1>5 DEF clientVars, ClientsInv, ClientsTyped, IdsApart, EntriesRight, SnapshotsRight,
              FailuresRight, ServedAreRegistered
<1>6. QED
  BY <1>1, <1>2, <1>3, <1>4, <1>5 DEF ClientsMove

LEMMA ClientsStep == ASSUME ClientsInv, [ClientsNext]_clientVars PROVE ClientsInv'
  BY NextMoves, ClientsMoveOK

\* Of the clients, those that accept has returned for.
Accepted == { c \in Client : endpoint[c] \notin {"new", "accepting"} }

\* Each of them has had one id at most.
IdsCounted ==
  /\ counter <= Cardinality(Accepted)
  /\ \A c \in Client : number[c] <= counter
  /\ deafened \subseteq Client
  /\ started \in 0 .. MaxBroadcasts

LEMMA ClientsFinite ==
  /\ IsFiniteSet(Client) /\ Cardinality(Client) \in Nat
  /\ IsFiniteSet(Accepted) /\ Cardinality(Accepted) \in 0 .. Cardinality(Client)
<1>1. IsFiniteSet(Client)
  BY FS_Interval, ClientsAssumption DEF Client
<1>2. IsFiniteSet(Accepted) /\ Cardinality(Accepted) <= Cardinality(Client)
  BY <1>1, FS_Subset DEF Accepted
<1>3. QED
  BY <1>1, <1>2, FS_CardinalityType

LEMMA ClientsCountStart == ClientsInit => IdsCounted
<1> SUFFICES ASSUME ClientsInit PROVE IdsCounted
  OBVIOUS
<1>1. 0 <= Cardinality(Accepted)
  BY ClientsFinite
<1>2. QED
  BY <1>1, ClientsAssumption DEF ClientsInit, IdsCounted

\* Steps that give no id.
LEMMA CountStays ==
  ASSUME ClientsInv, IdsCounted, UNCHANGED <<number, counter>>,
         \A c \in Client : endpoint[c] \notin {"new", "accepting"}
                             => endpoint'[c] \notin {"new", "accepting"},
         deafened' \subseteq Client, started' \in 0 .. MaxBroadcasts
  PROVE  IdsCounted'
<1>1. Accepted \subseteq Accepted' /\ Accepted' \subseteq Client
  BY DEF Accepted
<1>2. IsFiniteSet(Accepted')
  BY <1>1, ClientsFinite, FS_Subset
<1>3. Cardinality(Accepted) <= Cardinality(Accepted')
  BY <1>1, <1>2, FS_Subset
<1>4. Cardinality(Accepted) \in Nat /\ Cardinality(Accepted') \in Nat /\ counter \in Nat
  BY <1>2, ClientsFinite, FS_CardinalityType DEF ClientsInv, ClientsTyped
<1>5. QED
  BY <1>3, <1>4 DEF IdsCounted

\* The id is given to one who had none.
LEMMA CountAccept ==
  ASSUME ClientsInv, IdsCounted, NEW c \in Client, Accept(c)
  PROVE  IdsCounted'
<1>1. UNCHANGED <<deafened, started>> /\ endpoint[c] = "accepting"
  BY DEF Accept
<1>2. CASE socket[c] = "gone"
  BY <1>1, <1>2, CountStays DEF Accept, IdsCounted, ClientsInv, ClientsTyped
<1>3. CASE socket[c] # "gone"
  <2>1. /\ endpoint' = [endpoint EXCEPT ![c] = "welcome"]
        /\ number' = [number EXCEPT ![c] = counter] /\ counter' = counter + 1
    BY <1>3 DEF Accept, NewId
  <2>2. Accepted' = Accepted \cup {c} /\ c \notin Accepted
    BY <1>1, <2>1 DEF Accepted, ClientsInv, ClientsTyped
  <2>3. Cardinality(Accepted') = Cardinality(Accepted) + 1
    BY <2>2, ClientsFinite, FS_AddElement
  <2>4. Cardinality(Accepted) \in Nat /\ counter \in Nat /\ number \in [Client -> Nat]
    BY ClientsFinite DEF ClientsInv, ClientsTyped
  <2>5. counter <= Cardinality(Accepted) /\ \A d \in Client : number[d] <= counter
    BY DEF IdsCounted
  <2>6. counter' <= Cardinality(Accepted')
    BY <2>1, <2>3, <2>4, <2>5
  <2>7. \A d \in Client : number'[d] <= counter'
    BY <2>1, <2>4, <2>5
  <2>8. QED
    BY <1>1, <2>6, <2>7 DEF IdsCounted
<1>4. QED
  BY <1>2, <1>3

LEMMA CountStep ==
  ASSUME ClientsInv, IdsCounted, [ClientsMove]_clientVars
  PROVE  IdsCounted'
<1> USE DEF ClientsInv, ClientsTyped
<1>1. deafened \subseteq Client /\ started \in 0 .. MaxBroadcasts
  BY DEF IdsCounted
<1>2. ASSUME NEW c \in Client,
             \/ Connects(c) \/ Leave(c) \/ Welcome(c) \/ Echo(c) \/ Disconnect(c) \/ Cut(c)
             \/ RadioWelcome(c) \/ RadioEnd(c)
      PROVE  IdsCounted'
  <2>1. UNCHANGED <<number, counter, deafened, started>>
    BY <1>2 DEF Connects, Leave, Welcome, Echo, Disconnect, Cut, RadioWelcome, RadioEnd
  <2>2. \/ endpoint' = endpoint
        \/ \E stage \in Stage \ {"new", "accepting"} : endpoint' = [endpoint EXCEPT ![c] = stage]
        \/ endpoint[c] = "new" /\ \E stage \in Stage : endpoint' = [endpoint EXCEPT ![c] = stage]
    BY <1>2 DEF Connects, Leave, Welcome, Echo, Disconnect, Cut, RadioWelcome, RadioEnd, Stage
  <2>3. \A d \in Client : endpoint[d] \notin {"new", "accepting"}
                             => endpoint'[d] \notin {"new", "accepting"}
    BY <2>2
  <2>4. QED
    BY <1>1, <2>1, <2>3, CountStays
<1>3. ASSUME NEW kind \in Kind, Broadcast(kind) PROVE IdsCounted'
  <2>1. started < MaxBroadcasts /\ started' = started + 1
        /\ UNCHANGED <<endpoint, number, counter, deafened>>
    BY <1>3 DEF Broadcast
  <2>2. started' \in 0 .. MaxBroadcasts
    BY <1>1, <2>1, ClientsAssumption
  <2>3. QED
    BY <1>1, <2>1, <2>2, CountStays
<1>4. ASSUME NEW task \in tasks, Send(task) \/ Finish(task) PROVE IdsCounted'
  <2>1. UNCHANGED <<endpoint, number, counter, started>>
    BY <1>4 DEF Send, Finish
  <2>2. \A e \in task.left : e \in Nat \X Client
    BY DEF SnapshotsRight
  <2>3. deafened' \subseteq Client
    <3>1. \/ deafened' = deafened
          \/ \E e \in task.left : deafened' = deafened \cup {e[2]}
      BY <1>4 DEF Send, Finish
    <3>2. QED
      BY <1>1, <2>2, <3>1
  <2>4. QED
    BY <1>1, <2>1, <2>3, CountStays
<1>5. CASE UNCHANGED clientVars
  BY <1>1, <1>5, CountStays DEF clientVars
<1>6. QED
  BY <1>2, <1>3, <1>4, <1>5, CountAccept DEF ClientsMove

LEMMA CountTypes == ASSUME ClientsInv, IdsCounted PROVE ClientsTypeOK
<1>1. counter \in 0 .. Cardinality(Client)
  BY ClientsFinite DEF IdsCounted, ClientsInv, ClientsTyped
<1>2. number \in [Client -> 0 .. Cardinality(Client)]
  BY <1>1, ClientsFinite DEF IdsCounted, ClientsInv, ClientsTyped
<1>3. active \subseteq (0 .. Cardinality(Client)) \X Client
  <2>1. \A e \in active : e \in Nat \X Client /\ number[e[2]] = e[1]
    BY DEF ClientsInv, EntriesRight
  <2>2. QED
    BY <1>2, <2>1
<1>4. \A task \in tasks : task.kind \in Kind /\ task.left \subseteq Nat \X Client
                          /\ task.failed \subseteq Nat
  BY DEF ClientsInv, FailuresRight, Task
<1>5. QED
  BY <1>1, <1>2, <1>3, <1>4 DEF ClientsTypeOK, IdsCounted, ClientsInv, ClientsTyped

\* Every variable keeps its type: no id is as great as the number of
\* connections there have been.
THEOREM ClientsTypes == ClientsSpec => []ClientsTypeOK
<1>1. [ClientsNext]_clientVars => [ClientsMove]_clientVars
  BY NextMoves
<1>2. QED
  BY <1>1, ClientsStart, ClientsMoveOK, ClientsCountStart, CountStep, CountTypes, PTL
  DEF ClientsSpec

-----------------------------------------------------------------------------

\* An open client that is served stays registered under its own id, whatever
\* other endpoints and broadcasts do (ConnectionManager).
THEOREM Registered == ClientsSpec => []ListenersAreRegistered
<1>1. ClientsInv => ListenersAreRegistered
  BY DEF ClientsInv, ServedAreRegistered, ListenersAreRegistered, Listening, Served
<1>2. QED
  BY <1>1, ClientsStart, ClientsStep, PTL DEF ClientsSpec

\* A connection that is over holds no place (websocket_endpoint).
THEOREM PlacesAreFreed == ClientsSpec => []NoPlaceForTheDead
<1>1. ClientsInv => NoPlaceForTheDead
  BY DEF ClientsInv, EntriesRight, NoPlaceForTheDead, Numbered
<1>2. QED
  BY <1>1, ClientsStart, ClientsStep, PTL DEF ClientsSpec

-----------------------------------------------------------------------------
(* The page.                                                               *)

\* Whether a message of a kind is on its way.
Coming(n) == \E i \in 1 .. Len(inbox) : inbox[i] = n
Updating == \E n \in News : n.kind = "mesh_update" /\ Coming(n)

\* Whether a node, or the radio, has been removed, and the page is still to hear.
Leaves(p) == \E n \in News : p \in n.gone.nodes /\ Coming(n)
RadioLeaves == \E n \in News : n.gone.radio /\ Coming(n)

\* The page asks, or will when it has heard of an update.
Asking == asked > 0 \/ Updating

LastAnswer == answers[Len(answers)]

\* Nodes that are the store's but for those of which the page is to hear.
SameNodes(known) == \A p \in Peer \cup {Mock} : ~ Leaves(p) => (p \in known <=> p \in store.nodes)

\* What is on its way makes up for what the page does not show yet: a question
\* that has not been answered, or an answer that was given since the last change.
NodesRight ==
  \/ Asking
  \/ answers = <<>> /\ SameNodes(view.nodes)
  \/ answers # <<>> /\ (LastAnswer.old \/ SameNodes(LastAnswer.shows.nodes))

RadioRight ==
  \/ Asking \/ RadioLeaves
  \/ answers = <<>> /\ view.radio = store.radio
  \/ answers # <<>> /\ (LastAnswer.old \/ LastAnswer.shows.radio = store.radio)

\* A merge is followed by an answer, and what has been removed is not back.
UnderWay ==
  /\ pc \in {"told", "threads", "merge"} => Asking
  /\ NodesRight
  /\ RadioRight
  /\ RadioLeaves => ~ store.radio
  /\ \A p \in store.nodes : ~ Leaves(p)

PageInv ==
  /\ page = "closed" => inbox = <<>> /\ asked = 0 /\ answers = <<>>
  /\ page # "closed" /\ reasons = {} => UnderWay

\* A sequence without its element i, and with what came before it altered, ends
\* as it did unless i was the end.
LEMMA WithoutElement ==
  ASSUME NEW S, NEW q \in Seq(S), NEW i \in 1 .. Len(q),
         NEW p \in Seq(S), Len(p) = i - 1
  PROVE  LET left == p \o SubSeq(q, i + 1, Len(q))
         IN  /\ left \in Seq(S)
             /\ left = <<>> => i = Len(q)
             /\ left # <<>> => left[Len(left)] = q[Len(q)]
                               \/ (i > 1 /\ left[Len(left)] = p[i - 1])
<1> DEFINE n == Len(q)
           b == SubSeq(q, i + 1, n)
           left == p \o b
<1>1. n \in Nat /\ i \in 1 .. n /\ \A k \in i + 1 .. n : q[k] \in S
  OBVIOUS
<1>2. /\ b \in Seq(S) /\ Len(b) = n - i
      /\ i < n => b[n - i] = q[n]
  BY <1>1, SubSeqProperties
<1> HIDE DEF b
<1>3. /\ left \in Seq(S) /\ Len(left) = Len(p) + Len(b)
      /\ \A k \in 1 .. Len(p) + Len(b) :
           left[k] = IF k <= Len(p) THEN p[k] ELSE b[k - Len(p)]
  BY <1>2, ConcatProperties, Zenon
<1> HIDE DEF left, n
<1>4. /\ Len(left) = n - 1
      /\ \A k \in 1 .. n - 1 : left[k] = IF k <= i - 1 THEN p[k] ELSE b[k - (i - 1)]
  BY <1>1, <1>2, <1>3
<1>5. left = <<>> => i = n
  BY <1>1, <1>4
<1>6. ASSUME left # <<>> PROVE left[n - 1] = q[n] \/ (i > 1 /\ left[n - 1] = p[i - 1])
  <2>1. n - 1 \in 1 .. n - 1
    BY <1>1, <1>3, <1>4, <1>6, EmptySeq
  <2>2. CASE i = n
    BY <1>1, <1>4, <2>1, <2>2
  <2>3. CASE i < n
    <3>1. left[n - 1] = b[n - 1 - (i - 1)] /\ n - 1 - (i - 1) = n - i
      BY <1>1, <1>4, <2>1, <2>3
    <3> QED BY <1>2, <2>3, <3>1
  <2> QED BY <1>1, <2>2, <2>3
<1> QED BY <1>3, <1>4, <1>5, <1>6, Zenon DEF b, left, n

LEMMA OldAnswers ==
  ASSUME NEW q \in Seq(Answered)
  PROVE  /\ AllOld(q) \in Seq(Answered) /\ Len(AllOld(q)) = Len(q)
         /\ \A i \in 1 .. Len(q) : AllOld(q)[i].old = TRUE
<1>1. ASSUME NEW a \in Answered
      PROVE  [a EXCEPT !.old = TRUE] \in Answered /\ [a EXCEPT !.old = TRUE].old = TRUE
  BY DEF Answered
<1>2. AllOld(q) = [ i \in 1 .. Len(q) |-> [q[i] EXCEPT !.old = TRUE] ]
  BY DEF AllOld
<1>3. \A i \in 1 .. Len(q) : AllOld(q)[i] = [q[i] EXCEPT !.old = TRUE]
  BY <1>2
<1>4. \A i \in 1 .. Len(q) : AllOld(q)[i] \in Answered /\ AllOld(q)[i].old = TRUE
  <2> TAKE i \in 1 .. Len(q)
  <2>1. q[i] \in Answered
    OBVIOUS
  <2> QED BY <1>1, <1>3, <2>1, Zenon
<1>5. Len(q) \in Nat
  OBVIOUS
<1>6. AllOld(q) \in [1 .. Len(q) -> Answered]
  BY <1>2, <1>4
<1>7. AllOld(q) \in Seq(Answered) /\ Len(AllOld(q)) = Len(q)
  BY <1>5, <1>6
<1> QED BY <1>4, <1>7

\* What is left when answer i has arrived: the last is the one it was, or old.
LEMMA LeftAnswers ==
  ASSUME NEW q \in Seq(Answered), NEW i \in 1 .. Len(q)
  PROVE  LET left == AllOld(SubSeq(q, 1, i - 1)) \o SubSeq(q, i + 1, Len(q))
         IN  /\ left \in Seq(Answered)
             /\ left = <<>> => i = Len(q)
             /\ left # <<>> => left[Len(left)] = q[Len(q)] \/ left[Len(left)].old
<1> DEFINE p == AllOld(SubSeq(q, 1, i - 1))
           left == p \o SubSeq(q, i + 1, Len(q))
<1>1. SubSeq(q, 1, i - 1) \in Seq(Answered) /\ Len(SubSeq(q, 1, i - 1)) = i - 1
  <2>1. i - 1 \in Int /\ \A k \in 1 .. i - 1 : q[k] \in Answered
    OBVIOUS
  <2> QED BY <2>1, SubSeqProperties
<1>2. p \in Seq(Answered) /\ Len(p) = i - 1 /\ \A k \in 1 .. i - 1 : p[k].old = TRUE
  BY <1>1, OldAnswers
<1> HIDE DEF p
<1>3. /\ left \in Seq(Answered)
      /\ left = <<>> => i = Len(q)
      /\ left # <<>> => left[Len(left)] = q[Len(q)] \/ (i > 1 /\ left[Len(left)] = p[i - 1])
  BY <1>2, WithoutElement, Zenon
<1>4. i > 1 => p[i - 1].old = TRUE
  BY <1>2
<1> HIDE DEF left
<1>5. left # <<>> => left[Len(left)] = q[Len(q)] \/ left[Len(left)].old
  BY <1>3, <1>4
<1> QED BY <1>3, <1>5, Zenon DEF p, left

LEMMA ComingTail ==
  ASSUME NEW S, NEW q \in Seq(S), q # <<>>, NEW x, x # Head(q)
  PROVE  (\E i \in 1 .. Len(Tail(q)) : Tail(q)[i] = x)
           <=> \E i \in 1 .. Len(q) : q[i] = x
<1> DEFINE n == Len(q)
           m == Len(Tail(q))
<1>1. n \in Nat /\ n >= 1 /\ Head(q) = q[1]
  OBVIOUS
<1>2. m = n - 1 /\ \A i \in 1 .. m : Tail(q)[i] = q[i + 1]
  BY HeadTailProperties
<1> HIDE DEF n, m
<1>3. ASSUME NEW i \in 1 .. m, Tail(q)[i] = x PROVE \E k \in 1 .. n : q[k] = x
  <2>1. i \in Nat /\ i + 1 \in 1 .. n
    BY <1>1, <1>2
  <2>2. q[i + 1] = x
    BY <1>2, <1>3, Zenon
  <2> QED BY <2>1, <2>2, Zenon
<1>4. ASSUME NEW i \in 1 .. n, q[i] = x PROVE \E k \in 1 .. m : Tail(q)[k] = x
  <2>1. i # 1
    BY <1>1, <1>4
  <2>2. i - 1 \in 1 .. m /\ (i - 1) + 1 = i
    BY <1>1, <1>2, <2>1
  <2>3. Tail(q)[i - 1] = x
    BY <1>2, <1>4, <2>2
  <2> QED BY <2>2, <2>3, Zenon
<1> QED BY <1>3, <1>4, Zenon DEF n, m

LEMMA ComingAppend ==
  ASSUME NEW S, NEW q \in Seq(S), NEW y \in S, NEW x
  PROVE  (\E i \in 1 .. Len(Append(q, y)) : Append(q, y)[i] = x)
           <=> x = y \/ \E i \in 1 .. Len(q) : q[i] = x
<1> DEFINE n == Len(q)
           r == Append(q, y)
<1>1. /\ n \in Nat /\ Len(r) = n + 1 /\ r[n + 1] = y
      /\ \A i \in 1 .. n : r[i] = q[i]
  OBVIOUS
<1> HIDE DEF n, r
<1>2. (\E i \in 1 .. Len(r) : r[i] = x) <=> x = y \/ \E i \in 1 .. n : q[i] = x
  BY <1>1
<1> QED BY <1>2 DEF n, r

\* The records the variables take.
LEMMA LiveRecords ==
  /\ NoState \in State /\ Nothing \in [ nodes : Shown, links : Shown ]
  /\ NoNodes \in View /\ Update \in News
  /\ Update.kind = "mesh_update" /\ Update.gone.nodes = {} /\ ~ Update.gone.radio
  /\ LiveTypeOK => Sourced \in Shown /\ ViewOf(store) \in View
  /\ LiveTypeOK => Originators \subseteq Peer /\ Neighbors \subseteq Peer /\ Healthy \in BOOLEAN
BY DEF LiveTypeOK, NoState, Nothing, Sourced, ViewOf, Originators, Neighbors, Healthy,
       State, Shown, Store, View, NoNodes, Update, News

\* What DELETE may take out of the store.
Removable == { [ NoNodes EXCEPT !.nodes = {n} ] : n \in store.nodes }
               \cup (IF store.radio THEN {[ NoNodes EXCEPT !.radio = TRUE ]} ELSE {})

Left(v, gone) == [ nodes |-> v.nodes \ gone.nodes, radio |-> v.radio /\ ~ gone.radio ]

LEMMA RemovableIs ==
  ASSUME store \in Store, NEW gone \in Removable
  PROVE  /\ gone \in View /\ gone.nodes \subseteq store.nodes
         /\ Removal(gone) \in News /\ Removal(gone).gone = gone
         /\ Removal(gone).kind = "node_removed"
<1>1. NoNodes \in View /\ NoNodes = [ nodes |-> {}, radio |-> FALSE ]
  BY DEF NoNodes, View, Shown
<1>2. store.nodes \subseteq Peer \cup {Mock}
  BY DEF Store, Shown
<1>3. CASE \E n \in store.nodes : gone = [ NoNodes EXCEPT !.nodes = {n} ]
  <2>1. PICK n \in store.nodes : gone = [ nodes |-> {n}, radio |-> FALSE ]
    BY <1>1, <1>3
  <2>2. gone \in View /\ gone.nodes = {n}
    BY <1>2, <2>1 DEF View, Shown
  <2> QED BY <2>2 DEF Removal, News
<1>4. CASE gone = [ NoNodes EXCEPT !.radio = TRUE ]
  <2>1. gone \in View /\ gone.nodes = {}
    BY <1>1, <1>4 DEF View, Shown
  <2> QED BY <2>1 DEF Removal, News
<1> QED BY <1>3, <1>4 DEF Removable

LEMMA LeftIs ==
  ASSUME NEW v \in View, NEW gone \in View
  PROVE  /\ Left(v, gone) \in View
         /\ Left(v, gone).nodes = v.nodes \ gone.nodes
         /\ Left(v, gone).radio <=> v.radio /\ ~ gone.radio
BY DEF Left, View, Shown

\* A removal, in the store and on its way.
LEMMA RemovalIs ==
  ASSUME store \in Store, inbox \in Seq(News), RemoveNode
  PROVE  \E gone \in Removable :
           /\ store'.nodes = store.nodes \ gone.nodes
           /\ store'.radio <=> store.radio /\ ~ gone.radio
           /\ store' \in Store /\ glitch' \in BOOLEAN
           /\ inbox' = IF page = "online" THEN Append(inbox, Removal(gone)) ELSE inbox
<1>1. PICK gone \in Removable :
        /\ store' = [ nodes |-> store.nodes \ gone.nodes, links |-> store.links \ gone.nodes,
                      radio |-> store.radio /\ ~ gone.radio ]
        /\ glitch' = (glitch \/ gone.nodes # {})
        /\ inbox' = IF page = "online" THEN RemovalTold(gone) ELSE inbox
  BY DEF RemoveNode, Removable
<1>2. store' \in Store
  <2>1. /\ store.nodes \ gone.nodes \in Shown /\ store.links \ gone.nodes \in Shown
        /\ (store.radio /\ ~ gone.radio) \in BOOLEAN
    BY DEF Store, Shown
  <2> QED BY <1>1, <2>1 DEF Store
<1>3. store'.nodes = store.nodes \ gone.nodes /\ (store'.radio <=> store.radio /\ ~ gone.radio)
  BY <1>1
<1> QED BY <1>1, <1>2, <1>3 DEF RemovalTold

LEMMA LiveTypesInit == LiveInit => LiveTypeOK
<1> SUFFICES ASSUME LiveInit PROVE LiveTypeOK
  OBVIOUS
<1>1. store \in Store /\ view \in View
  BY DEF LiveInit, Sourced, Store, View, Shown, NoNodes
<1>2. polled \in State /\ fetched \in [ nodes : Shown, links : Shown ]
  BY LiveRecords DEF LiveInit
<1>3. inbox \in Seq(News) /\ answers \in Seq(Answered)
  BY EmptySeq DEF LiveInit
<1>4. liveEvents \in 0 .. MaxLiveEvents
  BY LiveAssumption DEF LiveInit
<1> QED BY <1>1, <1>2, <1>3, <1>4 DEF LiveInit, LiveTypeOK, Helper

LEMMA LiveTypesStep == LiveTypeOK /\ [LiveNext]_liveVars => LiveTypeOK'
<1> SUFFICES ASSUME LiveTypeOK, [LiveNext]_liveVars PROVE LiveTypeOK'
  OBVIOUS
<1>1. /\ mesh \subseteq Peer /\ helper \in Helper
      /\ pc \in {"sleep", "links", "changed", "told", "threads", "merge"}
      /\ polled \in State
      /\ fetched \in [ nodes : Shown, links : Shown ]
      /\ store \in Store /\ glitch \in BOOLEAN
      /\ page \in {"closed", "connecting", "online", "deaf"}
      /\ view \in View
      /\ inbox \in Seq(News)
      /\ asked \in Nat
      /\ answers \in Seq(Answered)
      /\ reasons \subseteq Reason /\ liveEvents \in 0 .. MaxLiveEvents
  BY DEF LiveTypeOK
<1>2. LiveEvent => liveEvents' \in 0 .. MaxLiveEvents
  BY <1>1, LiveAssumption DEF LiveEvent
<1>3. Sleeps => /\ pc' \in {"sleep", "links", "changed", "told", "threads", "merge"}
                /\ polled' \in State /\ fetched' \in [ nodes : Shown, links : Shown ]
  BY LiveRecords DEF Sleeps
<1>4. CASE MeshChanges \/ HelperChanges
  BY <1>1, <1>2, <1>4
  DEF MeshChanges, HelperChanges, LiveTypeOK, monitorVars, pageVars
<1>5. CASE Poll
  <2>1. [ healthy |-> Healthy, nodes |-> Originators, links |-> {} ] \in State
    BY LiveRecords DEF State
  <2>2. polled' \in State
        /\ pc' \in {"sleep", "links", "changed", "told", "threads", "merge"}
    BY <1>1, <1>5, <2>1 DEF Poll
  <2> QED BY <1>1, <1>5, <2>2 DEF Poll, LiveTypeOK, worldVars, pageVars
<1>6. CASE PollLinks
  <2> DEFINE s == [ polled EXCEPT !.healthy = @ /\ Healthy, !.links = Neighbors ]
  <2>1. s \in State
    BY <1>1, LiveRecords DEF State
  <2>2. /\ Sleeps \/ (polled' = s /\ fetched' = fetched /\ pc' = "changed")
        /\ liveEvents' = liveEvents \/ LiveEvent
        /\ UNCHANGED <<mesh, helper, store, glitch, page, view, inbox, asked,
                       answers, reasons>>
    BY <1>6 DEF PollLinks, Changed, worldVars, pageVars
  <2> HIDE DEF s
  <2>3. /\ pc' \in {"sleep", "links", "changed", "told", "threads", "merge"}
        /\ polled' \in State /\ fetched' \in [ nodes : Shown, links : Shown ]
    BY <1>1, <1>3, <2>1, <2>2
  <2> QED BY <1>1, <1>2, <2>2, <2>3 DEF LiveTypeOK
<1>7. CASE Tell
  <2>1. inbox' \in Seq(News)
    BY <1>1, <1>7, LiveRecords DEF Tell
  <2>2. reasons' \subseteq Reason
    BY <1>1, <1>7 DEF Tell, Reason
  <2> QED BY <1>1, <1>7, <2>1, <2>2 DEF Tell, LiveTypeOK, worldVars
<1>8. CASE FetchNodes \/ FetchThreads
  <2>1. [Nothing EXCEPT !.nodes = Sourced] \in [ nodes : Shown, links : Shown ]
        /\ [fetched EXCEPT !.links = Sourced] \in [ nodes : Shown, links : Shown ]
    BY <1>1, LiveRecords
  <2>2. /\ pc' \in {"sleep", "links", "changed", "told", "threads", "merge"}
        /\ polled' \in State /\ fetched' \in [ nodes : Shown, links : Shown ]
    BY <1>1, <1>3, <1>8, <2>1 DEF FetchNodes, FetchThreads
  <2> QED BY <1>1, <1>8, <2>2
          DEF FetchNodes, FetchThreads, LiveTypeOK, worldVars, pageVars
<1>9. CASE Merge
  <2>1. store' \in Store
    BY <1>1, <1>9 DEF Merge, Store
  <2>2. glitch' \in BOOLEAN
    BY <1>9 DEF Merge
  <2>3. reasons' \subseteq Reason
    BY <1>1, <1>9 DEF Merge, Reason
  <2> QED BY <1>1, <1>3, <1>9, <2>1, <2>2, <2>3 DEF Merge, LiveTypeOK, worldVars
<1>10. CASE SerialReport \/ CreateNode
  <2>1. store' \in Store
    BY <1>1, <1>10 DEF SerialReport, CreateNode, Store
  <2>2. reasons' \subseteq Reason
    BY <1>1, <1>10 DEF SerialReport, CreateNode, Reason
  <2>3. page' \in {"closed", "connecting", "online", "deaf"}
    BY <1>1, <1>10 DEF SerialReport, CreateNode
  <2> QED BY <1>1, <1>2, <1>10, <2>1, <2>2, <2>3
          DEF SerialReport, CreateNode, LiveTypeOK, worldVars, monitorVars
<1>11. CASE RemoveNode
  <2>1. store' \in Store /\ glitch' \in BOOLEAN /\ inbox' \in Seq(News)
    <3>1. PICK gone \in Removable :
            /\ store' \in Store /\ glitch' \in BOOLEAN
            /\ inbox' = IF page = "online" THEN Append(inbox, Removal(gone)) ELSE inbox
      BY <1>1, <1>11, RemovalIs
    <3>2. Removal(gone) \in News
      BY <1>1, RemovableIs
    <3> QED BY <1>1, <3>1, <3>2
  <2>2. reasons' \subseteq Reason
    BY <1>1, <1>11 DEF RemoveNode, Reason
  <2>3. /\ UNCHANGED <<worldVars, pc, polled, told, fetched, page, view, asked, answers>>
        /\ liveEvents' \in 0 .. MaxLiveEvents
    BY <1>2, <1>11 DEF RemoveNode
  <2> QED BY <1>1, <2>1, <2>2, <2>3 DEF LiveTypeOK, worldVars
<1>12. CASE Open \/ RegisterPage \/ LoseConnection
  <2>1. inbox' \in Seq(News)
    BY <1>1, <1>12, EmptySeq DEF Open, RegisterPage, LoseConnection
  <2>2. reasons' \subseteq Reason
    BY <1>1, <1>12 DEF Open, RegisterPage, LoseConnection, Reason
  <2>3. asked' \in Nat /\ page' \in {"closed", "connecting", "online", "deaf"}
    BY <1>1, <1>12 DEF Open, RegisterPage, LoseConnection
  <2> QED BY <1>1, <1>2, <1>12, <2>1, <2>2, <2>3
          DEF Open, RegisterPage, LoseConnection, LiveTypeOK, worldVars, monitorVars
<1>13. CASE Answer
  <2>1. [ shows |-> ViewOf(store), old |-> FALSE ] \in Answered
    BY LiveRecords DEF Answered
  <2>2. answers' \in Seq(Answered)
    BY <1>1, <1>13, <2>1 DEF Answer
  <2>3. reasons' \subseteq Reason /\ asked' \in Nat
    BY <1>1, <1>13 DEF Answer, Reason
  <2> QED BY <1>1, <1>13, <2>2, <2>3 DEF Answer, LiveTypeOK, worldVars, monitorVars
<1>14. CASE LoadFails
  <2>1. reasons' \subseteq Reason /\ asked' \in Nat
    BY <1>1, <1>14 DEF LoadFails, Reason
  <2> QED BY <1>1, <1>2, <1>14, <2>1 DEF LoadFails, LiveTypeOK, worldVars, monitorVars
<1>15. CASE Arrive
  <2>1. PICK i \in DOMAIN answers :
          /\ view' = answers[i].shows
          /\ answers' = AllOld(SubSeq(answers, 1, i - 1))
                          \o SubSeq(answers, i + 1, Len(answers))
          /\ reasons' = IF answers[i].old THEN reasons \cup {"crossed"} ELSE reasons
          /\ UNCHANGED <<worldVars, monitorVars, store, page, inbox, asked, liveEvents>>
    BY <1>15 DEF Arrive
  <2>2. i \in 1 .. Len(answers) /\ answers[i] \in Answered
    BY <1>1
  <2>3. answers' \in Seq(Answered)
    BY <1>1, <2>1, <2>2, LeftAnswers, Zenon
  <2>4. view' \in View
    BY <2>1, <2>2 DEF Answered
  <2>5. reasons' \subseteq Reason
    BY <1>1, <2>1 DEF Reason
  <2> QED BY <1>1, <2>1, <2>3, <2>4, <2>5 DEF LiveTypeOK, worldVars, monitorVars
<1>16. CASE Deliver
  <2>1. inbox' \in Seq(News)
    BY <1>1, <1>16, HeadTailProperties DEF Deliver
  <2>2. AllOld(answers) \in Seq(Answered)
    BY <1>1, OldAnswers
  <2>3. Left(view, Head(inbox).gone) \in View
    <3>1. inbox # <<>> => Head(inbox) \in News
      BY <1>1, HeadTailProperties
    <3>2. Head(inbox).gone \in View
      BY <1>16, <3>1 DEF Deliver, News
    <3> QED BY <1>1, <3>2, LeftIs
  <2>4. view' \in View /\ answers' \in Seq(Answered)
    BY <1>1, <1>16, <2>2, <2>3, Zenon DEF Deliver, Left
  <2>5. asked' \in Nat
    BY <1>1, <1>16 DEF Deliver
  <2> QED BY <1>1, <1>16, <2>1, <2>4, <2>5 DEF Deliver, LiveTypeOK, worldVars, monitorVars
<1>17. CASE UNCHANGED liveVars
  BY <1>1, <1>17 DEF liveVars, LiveTypeOK
<1> QED
  BY <1>4, <1>5, <1>6, <1>7, <1>8, <1>9, <1>10, <1>11, <1>12, <1>13, <1>14, <1>15,
     <1>16, <1>17
  DEF LiveNext, Monitor

\* Every variable of the page and of what feeds it keeps its type.
THEOREM LiveTypes == LiveSpec => []LiveTypeOK
<1>1. LiveSpec => LiveInit /\ [][LiveNext]_liveVars
  BY PTL DEF LiveSpec
<1> QED BY <1>1, LiveTypesInit, LiveTypesStep, PTL

LEMMA PageInit == LiveInit => PageInv
BY DEF LiveInit, PageInv

\* Nothing is on its way to a page that has not been opened.
LEMMA ClosedStep ==
  ASSUME LiveTypeOK, PageInv, [LiveNext]_liveVars, page' = "closed"
  PROVE  inbox' = <<>> /\ asked' = 0 /\ answers' = <<>>
<1>1. \/ UNCHANGED <<page, inbox, asked, answers>>
      \/ Tell \/ CreateNode \/ RemoveNode \/ Open \/ RegisterPage \/ LoseConnection
      \/ Answer \/ LoadFails \/ Arrive \/ Deliver
  BY DEF LiveNext, Monitor, MeshChanges, HelperChanges, Poll, PollLinks, FetchNodes,
         FetchThreads, Merge, SerialReport, pageVars, liveVars
<1>2. page = "closed"
  BY <1>1 DEF Tell, CreateNode, RemoveNode, Open, RegisterPage, LoseConnection, Answer,
              LoadFails, Arrive, Deliver
<1>3. inbox = <<>> /\ asked = 0 /\ answers = <<>>
  BY <1>2 DEF PageInv
<1>4. ~ Open /\ ~ RegisterPage /\ ~ LoseConnection
  BY <1>2 DEF Open, RegisterPage, LoseConnection
<1>5. ~ Answer /\ ~ LoadFails /\ ~ Deliver
  BY <1>3 DEF Answer, LoadFails, Deliver
<1>6. ~ Arrive
  BY <1>3 DEF Arrive
<1>7. CASE Tell \/ CreateNode \/ RemoveNode
  BY <1>2, <1>3, <1>7 DEF Tell, CreateNode, RemoveNode
<1> QED BY <1>1, <1>3, <1>4, <1>5, <1>6, <1>7

\* What is on its way when nothing has been sent, when something has, and when
\* the first message has arrived.
LEMMA ComingStays ==
  ASSUME inbox' = inbox
  PROVE  /\ Updating' <=> Updating
         /\ RadioLeaves' <=> RadioLeaves
         /\ \A p : Leaves(p)' <=> Leaves(p)
BY DEF Updating, RadioLeaves, Leaves, Coming

LEMMA ComingMore ==
  ASSUME inbox \in Seq(News), NEW n \in News, inbox' = Append(inbox, n)
  PROVE  /\ Updating' <=> Updating \/ n.kind = "mesh_update"
         /\ RadioLeaves' <=> RadioLeaves \/ n.gone.radio
         /\ \A p : Leaves(p)' <=> Leaves(p) \/ p \in n.gone.nodes
<1>1. \A x \in News : Coming(x)' <=> x = n \/ Coming(x)
  <2> TAKE x \in News
  <2>1. (\E i \in 1 .. Len(Append(inbox, n)) : Append(inbox, n)[i] = x)
          <=> x = n \/ \E i \in 1 .. Len(inbox) : inbox[i] = x
    BY ComingAppend
  <2> QED BY <2>1, Zenon DEF Coming
<1> QED BY <1>1 DEF Updating, RadioLeaves, Leaves

LEMMA ComingLess ==
  ASSUME inbox \in Seq(News), inbox # <<>>, inbox' = Tail(inbox)
  PROVE  /\ Head(inbox) \in News
         /\ Head(inbox).kind = "mesh_update" => Updating
         /\ Updating' => Updating
         /\ Updating /\ Head(inbox).kind # "mesh_update" => Updating'
         /\ RadioLeaves <=> RadioLeaves' \/ Head(inbox).gone.radio
         /\ \A p : Leaves(p) <=> Leaves(p)' \/ p \in Head(inbox).gone.nodes
<1>1. Head(inbox) \in News /\ Head(inbox) = inbox[1] /\ 1 \in 1 .. Len(inbox)
  BY HeadTailProperties
<1>2. Coming(Head(inbox))
  BY <1>1 DEF Coming
<1>3. \A x \in News : x # Head(inbox) => (Coming(x)' <=> Coming(x))
  <2> SUFFICES ASSUME NEW x \in News, x # Head(inbox) PROVE Coming(x)' <=> Coming(x)
    OBVIOUS
  <2>1. (\E i \in 1 .. Len(Tail(inbox)) : Tail(inbox)[i] = x)
          <=> \E i \in 1 .. Len(inbox) : inbox[i] = x
    BY ComingTail
  <2> QED BY <2>1, Zenon DEF Coming
<1>4. \A x \in News : Coming(x)' => Coming(x)
  BY <1>2, <1>3
<1>5. /\ Head(inbox).kind = "mesh_update" => Updating
      /\ Updating' => Updating
      /\ Updating /\ Head(inbox).kind # "mesh_update" => Updating'
  BY <1>1, <1>2, <1>3, <1>4 DEF Updating
<1>6. RadioLeaves <=> RadioLeaves' \/ Head(inbox).gone.radio
  BY <1>1, <1>2, <1>3, <1>4 DEF RadioLeaves
<1>7. \A p : Leaves(p) <=> Leaves(p)' \/ p \in Head(inbox).gone.nodes
  BY <1>1, <1>2, <1>3, <1>4 DEF Leaves
<1> QED BY <1>1, <1>5, <1>6, <1>7

\* Nothing that the page or the store knows has changed.
LEMMA NothingNew ==
  ASSUME UnderWay, UNCHANGED <<view, inbox, asked, answers, store>>,
         pc' \in {"told", "threads", "merge"} => pc \in {"told", "threads", "merge"}
  PROVE  UnderWay'
BY ComingStays DEF UnderWay, NodesRight, RadioRight, Asking, LastAnswer, SameNodes

LEMMA PageStep == LiveTypeOK /\ PageInv /\ [LiveNext]_liveVars => PageInv'
<1> SUFFICES ASSUME LiveTypeOK, PageInv, [LiveNext]_liveVars,
                    page' # "closed", reasons' = {}
             PROVE  UnderWay'
  BY ClosedStep DEF PageInv
<1>1. /\ inbox \in Seq(News) /\ answers \in Seq(Answered) /\ asked \in Nat
      /\ view \in View /\ store \in Store /\ reasons \subseteq Reason
  BY DEF LiveTypeOK
<1>2. page # "closed" /\ reasons = {} => UnderWay
  BY DEF PageInv
<1>6. CASE /\ UNCHANGED <<page, view, inbox, asked, answers, store, reasons>>
           /\ pc' \in {"told", "threads", "merge"} => pc \in {"told", "threads", "merge"}
  BY <1>2, <1>6, NothingNew
<1>7. CASE Tell
  <2>1. page = "online" /\ inbox' = Append(inbox, Update)
    BY <1>7 DEF Tell
  <2>2. /\ Updating' /\ (RadioLeaves' => RadioLeaves)
        /\ \A p : Leaves(p)' => Leaves(p)
    BY <1>1, <2>1, ComingMore, LiveRecords
  <2>3. page # "closed" /\ reasons = {} /\ store' = store
    BY <1>7, <2>1 DEF Tell
  <2> QED BY <1>2, <2>2, <2>3 DEF UnderWay, NodesRight, RadioRight, Asking
<1>8. CASE Merge
  <2>1. /\ page # "closed" /\ reasons = {} /\ pc = "merge" /\ inbox' = inbox
        /\ asked' = asked /\ store'.radio = store.radio /\ store'.nodes = fetched.nodes
    BY <1>8 DEF Merge
  <2>2. Asking'
    BY <1>2, <2>1, ComingStays DEF UnderWay, Asking
  <2>3. \A p \in store'.nodes : ~ Leaves(p)
    <3>1. Leaving \cap fetched.nodes = {}
      BY <1>8 DEF Merge
    <3>2. ASSUME NEW p, Leaves(p) PROVE p \in Leaving
      <4>1. PICK i \in 1 .. Len(inbox) : p \in inbox[i].gone.nodes
        BY <3>2 DEF Leaves, Coming
      <4>2. i \in DOMAIN inbox
        BY <1>1
      <4> QED BY <4>1, <4>2 DEF Leaving
    <3> QED BY <2>1, <3>1, <3>2
  <2> QED BY <1>2, <2>1, <2>2, <2>3, ComingStays DEF UnderWay, NodesRight, RadioRight
<1>9. CASE RemoveNode
  <2>1. PICK gone \in Removable :
          /\ store'.nodes = store.nodes \ gone.nodes
          /\ store'.radio <=> store.radio /\ ~ gone.radio
          /\ inbox' = IF page = "online" THEN Append(inbox, Removal(gone)) ELSE inbox
    BY <1>1, <1>9, RemovalIs
  <2>2. page = "online" /\ reasons = {} /\ UNCHANGED <<pc, view, asked, answers>>
    BY <1>9 DEF RemoveNode
  <2>3. UnderWay
    BY <1>2, <2>2
  <2>4. Removal(gone) \in News /\ Removal(gone).gone = gone /\ Removal(gone).kind = "node_removed"
    BY <1>1, RemovableIs
  <2>5. /\ Updating' <=> Updating
        /\ RadioLeaves' <=> RadioLeaves \/ gone.radio
        /\ \A p : Leaves(p)' <=> Leaves(p) \/ p \in gone.nodes
    BY <1>1, <2>1, <2>2, <2>4, ComingMore
  <2>6. Asking' <=> Asking
    BY <2>2, <2>5 DEF Asking
  <2>7. \A known : SameNodes(known) => SameNodes(known)'
    BY <2>1, <2>5 DEF SameNodes
  <2>8. NodesRight'
    BY <2>2, <2>3, <2>6, <2>7 DEF UnderWay, NodesRight, LastAnswer
  <2>9. store'.radio = store.radio \/ RadioLeaves'
    <3>1. store.radio \in BOOLEAN /\ store'.radio \in BOOLEAN
      BY <1>1, <1>9, RemovalIs DEF Store
    <3>2. CASE gone.radio
      BY <2>5, <3>2
    <3>3. CASE ~ gone.radio
      BY <2>1, <3>1, <3>3
    <3> QED BY <3>2, <3>3
  <2>10. RadioRight'
    BY <2>2, <2>3, <2>5, <2>6, <2>9 DEF UnderWay, RadioRight, LastAnswer
  <2> QED BY <2>1, <2>2, <2>3, <2>5, <2>6, <2>8, <2>10 DEF UnderWay
<1>10. CASE Open
  <2>1. asked' > 0
    BY <1>1, <1>10 DEF Open
  <2>2. ~ RadioLeaves' /\ \A p : ~ Leaves(p)'
    <3>1. inbox' = <<>>
      BY <1>10 DEF Open, PageInv
    <3> QED BY <3>1 DEF Coming, RadioLeaves, Leaves
  <2> QED BY <2>1, <2>2 DEF UnderWay, NodesRight, RadioRight, Asking
<1>11. CASE RegisterPage
  <2>1. page # "closed" /\ UNCHANGED <<pc, view, inbox, asked, answers, store, reasons>>
    BY <1>11 DEF RegisterPage, monitorVars
  <2> QED BY <1>2, <2>1, NothingNew
<1>12. CASE Answer
  <2> DEFINE r == [ shows |-> ViewOf(store), old |-> FALSE ]
  <2>1. /\ pc = "sleep" /\ page' = page /\ reasons = {} /\ answers' = Append(answers, r)
        /\ UNCHANGED <<pc, store, inbox>>
    BY <1>12 DEF Answer, LoopFree, monitorVars
  <2>2. Len(answers') = Len(answers) + 1 /\ answers'[Len(answers) + 1] = r
        /\ answers' # <<>>
    BY <1>1, <2>1
  <2>3. r.shows.nodes = store.nodes /\ r.shows.radio = store.radio
    BY DEF ViewOf
  <2> HIDE DEF r
  <2>4. NodesRight' /\ RadioRight'
    BY <2>1, <2>2, <2>3 DEF NodesRight, RadioRight, LastAnswer, SameNodes
  <2> QED BY <1>2, <2>1, <2>4, ComingStays DEF UnderWay
<1>13. CASE Arrive
  <2>1. PICK i \in DOMAIN answers :
          /\ view' = answers[i].shows
          /\ answers' = AllOld(SubSeq(answers, 1, i - 1))
                          \o SubSeq(answers, i + 1, Len(answers))
          /\ reasons' = IF answers[i].old THEN reasons \cup {"crossed"} ELSE reasons
          /\ UNCHANGED <<worldVars, monitorVars, store, page, inbox, asked, liveEvents>>
    BY <1>13 DEF Arrive
  <2>2. i \in 1 .. Len(answers) /\ answers # <<>>
    BY <1>1
  <2>3. ~ answers[i].old /\ reasons = {}
    BY <2>1
  <2>4. /\ answers' = <<>> => i = Len(answers)
        /\ answers' # <<>> => LastAnswer' = LastAnswer \/ LastAnswer'.old
    BY <1>1, <2>1, <2>2, LeftAnswers, Zenon DEF LastAnswer
  <2>5. UnderWay
    BY <1>2, <2>1, <2>3
  <2>6. UNCHANGED <<pc, store, inbox, asked>>
    BY <2>1 DEF monitorVars
  <2>7. i = Len(answers) => LastAnswer.shows = view' /\ ~ LastAnswer.old
    BY <2>1, <2>3 DEF LastAnswer
  <2>8. /\ Asking' <=> Asking
        /\ RadioLeaves' <=> RadioLeaves
        /\ \A p : Leaves(p)' <=> Leaves(p)
    BY <2>6, ComingStays DEF Asking
  <2>9. \A known : SameNodes(known)' <=> SameNodes(known)
    BY <2>6, <2>8 DEF SameNodes
  <2>10. NodesRight'
    <3>1. CASE answers' = <<>>
      BY <2>2, <2>4, <2>5, <2>7, <2>8, <2>9, <3>1 DEF UnderWay, NodesRight
    <3>2. CASE answers' # <<>>
      BY <2>2, <2>4, <2>5, <2>8, <2>9, <3>2 DEF UnderWay, NodesRight
    <3> QED BY <3>1, <3>2
  <2>11. RadioRight'
    BY <2>2, <2>4, <2>5, <2>6, <2>7, <2>8 DEF UnderWay, RadioRight
  <2> QED BY <2>5, <2>6, <2>8, <2>10, <2>11 DEF UnderWay
<1>14. CASE Deliver
  <2> DEFINE gone == Head(inbox).gone
  <2>1. /\ inbox # <<>> /\ inbox' = Tail(inbox)
        /\ page # "closed" /\ reasons = {} /\ UNCHANGED <<pc, store>>
    BY <1>1, <1>14 DEF Deliver, PageInv, monitorVars
  <2>2. UnderWay
    BY <1>2, <2>1
  <2>3. /\ Head(inbox) \in News
        /\ Updating' => Updating
        /\ Updating /\ Head(inbox).kind # "mesh_update" => Updating'
        /\ RadioLeaves <=> RadioLeaves' \/ gone.radio
        /\ \A p : Leaves(p) <=> Leaves(p)' \/ p \in gone.nodes
    BY <1>1, <2>1, ComingLess
  <2>4. /\ RadioLeaves' => ~ store'.radio
        /\ \A p \in store'.nodes : ~ Leaves(p)'
    BY <2>1, <2>2, <2>3 DEF UnderWay
  <2>5. gone \in View
    BY <2>3 DEF News
  <2> HIDE DEF gone
  <2>6. CASE Head(inbox).kind = "mesh_update"
    <3>1. asked' > 0
      BY <1>1, <1>14, <2>6 DEF Deliver
    <3> QED BY <2>4, <3>1 DEF UnderWay, NodesRight, RadioRight, Asking
  <2>7. CASE Head(inbox).kind # "mesh_update"
    <3>1. /\ view' = Left(view, gone) /\ answers' = AllOld(answers) /\ asked' = asked
      BY <1>14, <2>7, Zenon DEF Deliver, Left, gone
    <3>2. Asking' <=> Asking
      BY <2>3, <2>7, <3>1 DEF Asking
    <3>3. /\ view'.nodes = view.nodes \ gone.nodes
          /\ view'.radio <=> view.radio /\ ~ gone.radio
          /\ view' \in View
      BY <1>1, <2>5, <3>1, LeftIs
    <3>4. /\ answers = <<>> => answers' = <<>>
          /\ answers # <<>> => answers' # <<>> /\ LastAnswer'.old
      <4>1. answers' \in Seq(Answered) /\ Len(answers') = Len(answers)
            /\ \A i \in 1 .. Len(answers) : answers'[i].old = TRUE
        BY <1>1, <3>1, OldAnswers
      <4>2. answers = <<>> => answers' = <<>>
        BY <4>1, EmptySeq
      <4>3. answers # <<>> => Len(answers) \in 1 .. Len(answers) /\ answers' # <<>>
        BY <1>1, <4>1
      <4> QED BY <4>1, <4>2, <4>3 DEF LastAnswer
    <3>5. SameNodes(view.nodes) => SameNodes(view.nodes)'
      <4> SUFFICES ASSUME SameNodes(view.nodes), NEW p \in Peer \cup {Mock}, ~ Leaves(p)'
                   PROVE  p \in view'.nodes <=> p \in store'.nodes
        BY DEF SameNodes
      <4>1. CASE p \in gone.nodes
        <5>1. p \notin store.nodes
          BY <2>2, <2>3, <4>1 DEF UnderWay
        <5> QED BY <2>1, <3>3, <4>1, <5>1
      <4>2. CASE p \notin gone.nodes
        <5>1. ~ Leaves(p)
          BY <2>3, <4>2
        <5> QED BY <2>1, <3>3, <4>2, <5>1 DEF SameNodes
      <4> QED BY <4>1, <4>2
    <3>6. NodesRight'
      BY <2>2, <3>2, <3>4, <3>5 DEF UnderWay, NodesRight
    <3>7. RadioRight'
      <4>1. /\ view.radio \in BOOLEAN /\ view'.radio \in BOOLEAN /\ store.radio \in BOOLEAN
            /\ gone.radio \in BOOLEAN
        BY <1>1, <2>5, <3>3 DEF View, Store
      <4>2. gone.radio => view'.radio = store'.radio
        <5>1. gone.radio => ~ store.radio
          BY <2>2, <2>3 DEF UnderWay
        <5> QED BY <2>1, <3>3, <4>1, <5>1
      <4>3. ~ gone.radio => view'.radio = view.radio /\ (RadioLeaves' <=> RadioLeaves)
        BY <2>3, <3>3, <4>1
      <4>4. CASE gone.radio
        BY <3>4, <4>2, <4>4 DEF RadioRight
      <4>5. CASE ~ gone.radio
        BY <2>1, <2>2, <3>2, <3>4, <4>3, <4>5 DEF UnderWay, RadioRight
      <4> QED BY <4>4, <4>5
    <3> QED BY <2>1, <2>2, <2>4, <3>2, <3>6, <3>7 DEF UnderWay
  <2> QED BY <2>6, <2>7
<1>15. ~ SerialReport /\ ~ CreateNode /\ ~ LoseConnection /\ ~ LoadFails
  BY DEF SerialReport, CreateNode, LoseConnection, LoadFails
<1>16. CASE MeshChanges \/ HelperChanges \/ Poll \/ PollLinks \/ FetchNodes
            \/ FetchThreads \/ UNCHANGED liveVars
  BY <1>6, <1>16
  DEF MeshChanges, HelperChanges, Poll, PollLinks, FetchNodes, FetchThreads, Sleeps,
      Changed, monitorVars, pageVars, liveVars
<1> QED
  BY <1>7, <1>8, <1>9, <1>10, <1>11, <1>12, <1>13, <1>14, <1>15, <1>16
  DEF LiveNext, Monitor

\* When nothing is on its way the page shows the store, but for the reasons
\* that the specification names (connectWS, loadNodes, mesh_monitor_loop).
THEOREM LiveShows == LiveSpec => []PageShowsStore
<1>1. LiveSpec => LiveInit /\ [][LiveNext]_liveVars
  BY PTL DEF LiveSpec
<1>2. LiveTypeOK /\ PageInv => PageShowsStore
  <2> SUFFICES ASSUME LiveTypeOK, PageInv, page # "closed", inbox = <<>>, asked = 0,
                      answers = <<>>, reasons = {}
               PROVE  view = ViewOf(store)
    BY DEF PageShowsStore
  <2>1. ~ Updating /\ ~ RadioLeaves /\ \A p : ~ Leaves(p)
    BY DEF Coming, Updating, Leaves, RadioLeaves
  <2>2. SameNodes(view.nodes) /\ view.radio = store.radio
    BY <2>1 DEF PageInv, UnderWay, NodesRight, RadioRight, Asking
  <2>4. view.nodes = store.nodes
    <3>1. view.nodes \subseteq Peer \cup {Mock} /\ store.nodes \subseteq Peer \cup {Mock}
      BY DEF LiveTypeOK, View, Store, Shown
    <3> QED BY <2>1, <2>2, <3>1 DEF SameNodes
  <2>3. view = [ nodes |-> view.nodes, radio |-> view.radio ]
    BY DEF LiveTypeOK, View
  <2> QED BY <2>2, <2>3, <2>4 DEF ViewOf
<1> QED BY <1>1, <1>2, PageInit, PageStep, LiveTypes, PTL
=============================================================================
