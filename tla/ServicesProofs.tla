--------------------------- MODULE ServicesProofs ---------------------------
(***************************************************************************)
(* Types of the services of a device, for all values of their constants:   *)
(* first those of PositionFeed, then, from the inductive invariants of the *)
(* other modules of proofs, those of the composition.  A step of it is one *)
(* of the part chosen at the start, and the other parts rest; so every     *)
(* part only takes steps of its own, and the clients those of one endpoint *)
(* or of the other.                                                        *)
(***************************************************************************)
EXTENDS MCServices, EventProofs, ListProofs, NetworkProofs

-----------------------------------------------------------------------------
(* PositionFeed.                                                           *)

\* The driver that has the port open has not failed since it last worked, so
\* that a failure is counted only below the limit.
GpsInv ==
  /\ gpsEvents \in 0 .. MaxGpsEvents
  /\ place \in 1 .. gpsEvents + 1 /\ last \in 0 .. place /\ fed \in 0 .. place
  /\ {plugged, fix, detected, sending} \subseteq BOOLEAN
  /\ gpsd \in {"fix", "nofix", "absent"} /\ port \in {"open", "closed", "dead"}
  /\ errors \in 0 .. MaxErrors /\ failing = errors
  /\ port # "closed" => errors = 0

LEMMA GpsStart == GpsInit => GpsInv
<1> SUFFICES ASSUME GpsInit PROVE GpsInv
  OBVIOUS
<1>1. /\ gpsEvents = 0 /\ place = 1 /\ last = 0 /\ fed = 0 /\ errors = 0 /\ failing = 0
      /\ plugged \in BOOLEAN /\ fix \in BOOLEAN /\ gpsd \in {"fix", "absent"}
      /\ sending = FALSE
  BY DEF GpsInit
<1>2. detected = plugged /\ port \in {"open", "closed"}
  BY DEF GpsInit, Opened
<1>3. {plugged, fix, detected, sending} \subseteq BOOLEAN
  BY <1>1, <1>2
<1>4. QED
  BY <1>1, <1>2, <1>3, GpsAssumption DEF GpsInv

\* Reading a port that is open or may be opened.
LEMMA ReadOK ==
  ASSUME GpsInv, NEW garbled \in BOOLEAN, Read(garbled), port # "closed" \/ errors < MaxErrors
  PROVE  /\ port' \in {"open", "closed", "dead"} /\ last' \in {last, place}
         /\ errors' \in 0 .. MaxErrors /\ failing' = errors'
         /\ port' # "closed" => errors' = 0
<1> USE GpsAssumption DEF GpsInv
<1>1. CASE port = "dead"
  BY <1>1 DEF Read, Fails
<1>2. CASE port # "dead" /\ fix /\ ~ garbled
  BY <1>2 DEF Read, Works
<1>3. CASE port # "dead" /\ ~ (fix /\ ~ garbled)
  <2>1. /\ port' = "open" /\ last' = last
        /\ IF port = "open" THEN UNCHANGED <<errors, failing>> ELSE Works
    BY <1>3 DEF Read
  <2>2. CASE port = "open"
    BY <2>1, <2>2
  <2>3. CASE port # "open"
    BY <2>1, <2>3 DEF Works
  <2>4. QED
    BY <2>2, <2>3
<1>4. QED
  BY <1>1, <1>2, <1>3

LEMMA FuseOK ==
  ASSUME GpsInv, NEW garbled \in BOOLEAN, Fuse(garbled),
         gpsEvents' \in {gpsEvents, gpsEvents + 1}, gpsEvents' <= MaxGpsEvents
  PROVE  GpsInv'
<1> USE GpsAssumption
<1>1. sending' = TRUE /\ UNCHANGED <<place, plugged, fix, gpsd, detected>>
  BY DEF Fuse, world
<1>2. /\ port' \in {"open", "closed", "dead"} /\ last' \in {last, place}
      /\ errors' \in 0 .. MaxErrors /\ failing' = errors'
      /\ port' # "closed" => errors' = 0
  <2>1. CASE ~ detected
    BY <2>1 DEF Fuse, GpsInv
  <2>2. CASE detected /\ (port # "closed" \/ (Tries /\ plugged))
    <3>1. Read(garbled)
      BY <2>2 DEF Fuse, GetPosition
    <3>2. QED
      BY <2>2, <3>1, ReadOK DEF Tries
  <2>3. CASE detected /\ ~ (port # "closed" \/ (Tries /\ plugged))
    <3>1. /\ IF Tries THEN Fails ELSE UNCHANGED <<errors, failing>>
          /\ UNCHANGED <<port, last>>
      BY <2>3 DEF Fuse, GetPosition
    <3>2. port = "closed"
      BY <2>3
    <3>3. CASE Tries
      BY <3>1, <3>2, <3>3 DEF Tries, Fails, GpsInv
    <3>4. CASE ~ Tries
      BY <3>1, <3>2, <3>4 DEF GpsInv
    <3>5. QED
      BY <3>3, <3>4
  <2>4. QED
    BY <2>1, <2>2, <2>3
<1>3. fed' \in {fed, last', place}
  BY DEF Fuse, UpdateGps, Measured
<1>4. gpsEvents' \in 0 .. MaxGpsEvents /\ place' \in 1 .. gpsEvents' + 1
  <2>1. gpsEvents \in Nat /\ place \in 1 .. gpsEvents + 1
    BY DEF GpsInv
  <2>2. CASE gpsEvents' = gpsEvents
    BY <1>1, <2>1, <2>2
  <2>3. CASE gpsEvents' = gpsEvents + 1
    BY <1>1, <2>1, <2>3
  <2>4. QED
    BY <2>2, <2>3
<1>5. last' \in 0 .. place' /\ fed' \in 0 .. place'
  BY <1>1, <1>2, <1>3 DEF GpsInv
<1>6. QED
  BY <1>1, <1>2, <1>4, <1>5 DEF GpsInv

LEMMA GpsStep == ASSUME GpsInv, [GpsNext]_gpsVars PROVE GpsInv'
<1> USE GpsAssumption
<1>1. CASE Move
  BY <1>1 DEF Move, GpsEvent, GpsInv
<1>2. CASE Plug
  BY <1>2 DEF Plug, GpsEvent, GpsInv
<1>3. CASE Sky
  BY <1>3 DEF Sky, GpsEvent, GpsInv
<1>4. CASE Gpsd
  BY <1>4 DEF Gpsd, GpsEvent, GpsInv
<1>5. CASE Fuse(TRUE) /\ GpsEvent
  <2>1. gpsEvents' = gpsEvents + 1 /\ gpsEvents' <= MaxGpsEvents
    BY <1>5 DEF GpsEvent, GpsInv
  <2>2. QED
    BY <1>5, <2>1, FuseOK
<1>6. CASE Fuse(FALSE) /\ UNCHANGED gpsEvents
  <2>1. gpsEvents' = gpsEvents /\ gpsEvents <= MaxGpsEvents
    BY <1>6 DEF GpsInv
  <2>2. QED
    BY <1>6, <2>1, FuseOK
<1>7. CASE Sent
  BY <1>7 DEF Sent, world, GpsInv
<1>8. CASE UNCHANGED gpsVars
  BY <1>8 DEF gpsVars, GpsInv
<1>9. QED
  BY <1>1, <1>2, <1>3, <1>4, <1>5, <1>6, <1>7, <1>8 DEF GpsNext, Work

LEMMA GpsSuffices == GpsInv => GpsTypeOK
  BY GpsAssumption DEF GpsInv, GpsTypeOK

\* Every variable keeps its type: above all, the driver never counts more
\* errors than max_errors (reconnect_if_needed, get_position).
THEOREM GpsTypes == GpsSpec => []GpsTypeOK
<1>1. GpsSpec => GpsInit /\ [][GpsNext]_gpsVars
  BY PTL DEF GpsSpec
<1>2. QED
  BY <1>1, GpsStart, GpsStep, GpsSuffices, PTL

-----------------------------------------------------------------------------
(* The composition.                                                        *)

\* The inductive invariants of the parts.
PartsInv ==
  /\ part \in Parts
  /\ BackhaulTypeOK
  /\ ClientsInv /\ IdsCounted
  /\ BridgeInv
  /\ LiveTypeOK
  /\ Passed /\ Kept
  /\ MessageInv
  /\ IntelInv
  /\ GpsInv
  /\ RouterTyped

LEMMA PartsStart == Init => PartsInv
  BY BackhaulStart, ClientsStart, ClientsCountStart, BridgeStart, LiveTypesInit, PassedInit,
     MessageStart, IntelStart, GpsStart, RouterTypedInit
  DEF Init, PartsInv

\* The endpoint of the radio takes steps that are also in ClientsMove.
LEMMA RadioMoves == E!ClientsNext => ClientsMove
<1>1. E!Client = Client /\ E!Kind = Kind
  BY DEF E!Client, Client, E!Kind, Kind
<1>2. ASSUME NEW c \in Client
      PROVE  /\ E!Connect(c) => Connects(c)
             /\ E!Accept(c) => Accept(c)
             /\ E!Leave(c) => Leave(c)
             /\ E!RadioWelcome(c) => RadioWelcome(c)
             /\ E!RadioEnd(c) => RadioEnd(c)
  <2>1. E!Connect(c) => Connects(c)
    BY DEF E!Connect, Connects
  <2>2. E!Accept(c) => Accept(c)
    BY DEF E!Accept, Accept, E!NewId, NewId, E!Put, Put
  <2>3. E!Leave(c) => Leave(c)
    BY DEF E!Leave, Leave
  <2>4. E!RadioWelcome(c) => RadioWelcome(c)
    BY DEF E!RadioWelcome, RadioWelcome
  <2>5. E!RadioEnd(c) => RadioEnd(c)
    BY DEF E!RadioEnd, RadioEnd, E!AfterDisconnect, AfterDisconnect, E!Without, Without
  <2>6. QED
    BY <2>1, <2>2, <2>3, <2>4, <2>5
<1>3. \A kind \in Kind : E!Broadcast(kind) => Broadcast(kind)
  BY DEF E!Broadcast, Broadcast
<1>4. \A task \in tasks : E!Send(task) => Send(task)
  BY DEF E!Send, Send, E!Takes, Takes
<1>5. \A task \in tasks : E!Finish(task) => Finish(task)
  BY DEF E!Finish, Finish, E!Without, Without
<1>6. QED
  BY <1>1, <1>2, <1>3, <1>4, <1>5 DEF E!ClientsNext, ClientsMove

\* Each part takes a step of its own, or rests.
LEMMA EachForItself ==
  ASSUME [Next]_vars
  PROVE  /\ part' = part
         /\ [BackhaulNext]_backhaulVars
         /\ [ClientsMove]_clientVars
         /\ [BridgeNext]_bridgeVars
         /\ [LiveNext]_liveVars
         /\ [MessagesNext]_messageVars
         /\ [RadioNext]_radioEventVars
         /\ [GpsNext]_gpsVars
         /\ [IntelNext]_intelVars
         /\ [RouterNext]_routerVars
  BY NextMoves, RadioMoves DEF Next, vars, Runs

LEMMA PartsStep == ASSUME PartsInv, [Next]_vars PROVE PartsInv'
<1>1. part' \in Parts
  BY EachForItself DEF PartsInv, Parts
<1>2. BackhaulTypeOK'
  BY EachForItself, BackhaulStep DEF PartsInv
<1>3. ClientsInv' /\ IdsCounted'
  BY EachForItself, ClientsMoveOK, CountStep DEF PartsInv
<1>4. BridgeInv'
  BY EachForItself, BridgeStep DEF PartsInv
<1>5. LiveTypeOK'
  BY EachForItself, LiveTypesStep DEF PartsInv
<1>6. Passed' /\ Kept'
  BY EachForItself, PassedStep, KeptStep DEF PartsInv
<1>7. MessageInv'
  BY EachForItself, MessageStep DEF PartsInv
<1>8. IntelInv'
  BY EachForItself, IntelStep DEF PartsInv
<1>9. GpsInv'
  BY EachForItself, GpsStep DEF PartsInv
<1>10. RouterTyped'
  BY EachForItself, RouterTypedStep DEF PartsInv
<1>11. QED
  BY <1>1, <1>2, <1>3, <1>4, <1>5, <1>6, <1>7, <1>8, <1>9, <1>10 DEF PartsInv

\* Every variable of every service keeps its type, for either endpoint of the
\* clients.
THEOREM TypeCorrect == Spec => []TypeOK
<1>1. Spec => Init /\ [][Next]_vars
  BY PTL DEF Spec
<1>2. PartsInv => TypeOK
  <2> SUFFICES ASSUME PartsInv PROVE TypeOK
    OBVIOUS
  <2>1. ClientsTypeOK /\ RadioTypeOK /\ GpsTypeOK
    BY CountTypes, PassedTypes, GpsSuffices DEF PartsInv
  <2>2. MessagesTypeOK
    BY DEF PartsInv, MessageInv, MessageTypes, MessagesTypeOK, Reader
  <2>3. BridgeTypeOK /\ IntelTypeOK /\ RouterTypeOK
    BY DEF PartsInv, BridgeInv, IntelInv, RouterTyped
  <2>4. QED
    BY <2>1, <2>2, <2>3 DEF PartsInv, TypeOK
<1>3. QED
  BY <1>1, <1>2, PartsStart, PartsStep, PTL
=============================================================================
