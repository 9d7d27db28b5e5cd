----------------------------- MODULE MCServices -----------------------------
(***************************************************************************)
(* The services of a device, checked on one small instance each.  They     *)
(* share none of the state that is modelled: a behaviour is one of the     *)
(* part chosen at the start, and the other parts rest.  All are extended,  *)
(* so that their properties are those of the theorems.                     *)
(***************************************************************************)
EXTENDS Connections, ProtocolBridge, Backhaul, LiveView, RadioEvents, Messages,
        IntelBroadcast, PositionFeed, MeshRouter

CONSTANTS a, b, r1, r2

VARIABLE part

\* Two ways from Self to every other node, two radios to b.
RouterLink == { <<Self, a, r1>>, <<Self, b, r1>>, <<Self, b, r2>>, <<a, b, r1>>, <<b, a, r2>> }

\* The endpoint of the radio, beside that of /ws.
E == INSTANCE Connections WITH Radio <- TRUE, MaxConnections <- 2

Parts == {"backhaul", "connections", "radioconnections", "bridge", "live", "messages", "radio",
          "gps", "intel", "router"}

vars == <<part, backhaulVars, clientVars, bridgeVars, liveVars, messageVars,
          radioEventVars, gpsVars, intelVars, routerVars>>

\* A part that rests is in one of its initial states.
Init ==
  /\ part \in Parts
  /\ BackhaulInit /\ ClientsInit /\ BridgeInit /\ LiveInit /\ RadioInit
  /\ MessagesInit /\ IntelInit /\ GpsInit /\ RouterInit
  /\ part # "live" => mesh = {} /\ helper = "ok" /\ ~ store.radio
  /\ part # "messages" => live
  /\ part # "gps" => ~ plugged /\ ~ fix /\ gpsd = "absent"

Runs(p) == part = p /\ UNCHANGED part

Next ==
  \/ /\ Runs("backhaul") /\ BackhaulNext
     /\ UNCHANGED <<clientVars, bridgeVars, liveVars, messageVars,
                    radioEventVars, gpsVars, intelVars, routerVars>>
  \/ /\ \/ Runs("connections") /\ ClientsNext
        \/ Runs("radioconnections") /\ E!ClientsNext
     /\ UNCHANGED <<backhaulVars, bridgeVars, liveVars, messageVars,
                    radioEventVars, gpsVars, intelVars, routerVars>>
  \/ /\ Runs("bridge") /\ BridgeNext
     /\ UNCHANGED <<backhaulVars, clientVars, liveVars, messageVars,
                    radioEventVars, gpsVars, intelVars, routerVars>>
  \/ /\ Runs("live") /\ LiveNext
     /\ UNCHANGED <<backhaulVars, clientVars, bridgeVars, messageVars,
                    radioEventVars, gpsVars, intelVars, routerVars>>
  \/ /\ Runs("messages") /\ MessagesNext
     /\ UNCHANGED <<backhaulVars, clientVars, bridgeVars, liveVars,
                    radioEventVars, gpsVars, intelVars, routerVars>>
  \/ /\ Runs("radio") /\ RadioNext
     /\ UNCHANGED <<backhaulVars, clientVars, bridgeVars, liveVars,
                    messageVars, gpsVars, intelVars, routerVars>>
  \/ /\ Runs("gps") /\ GpsNext
     /\ UNCHANGED <<backhaulVars, clientVars, bridgeVars, liveVars,
                    messageVars, radioEventVars, intelVars, routerVars>>
  \/ /\ Runs("intel") /\ IntelNext
     /\ UNCHANGED <<backhaulVars, clientVars, bridgeVars, liveVars,
                    messageVars, radioEventVars, gpsVars, routerVars>>
  \/ /\ Runs("router") /\ RouterNext
     /\ UNCHANGED <<backhaulVars, clientVars, bridgeVars, liveVars,
                    messageVars, radioEventVars, gpsVars, intelVars>>

\* What each part's own specification promises of its event loop.
Spec ==
  /\ Init /\ [][Next]_vars
  /\ WF_liveVars(part = "live" /\ Monitor)
  /\ WF_radioEventVars(part = "radio" /\ Loop)
  /\ WF_gpsVars(part = "gps" /\ Work)

-----------------------------------------------------------------------------
(* The properties of the parts; their modules say what they are about.     *)

\* Every variable of every part keeps its type.
TypeOK ==
  /\ part \in Parts
  /\ BackhaulTypeOK /\ ClientsTypeOK /\ BridgeTypeOK /\ LiveTypeOK /\ RadioTypeOK
  /\ MessagesTypeOK /\ IntelTypeOK /\ GpsTypeOK /\ RouterTypeOK
=============================================================================
