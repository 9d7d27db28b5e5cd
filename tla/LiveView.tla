------------------------------ MODULE LiveView ------------------------------
(***************************************************************************)
(* What a page shows of the mesh: batctl, the data source, the monitor     *)
(* loop, the store, the WebSocket and REST calls of one browser            *)
(* (backend/app/services/batctl_service.py, live_data_source.py,           *)
(* routers/ws.py, routers/nodes.py, frontend/src/store/meshStore.ts,       *)
(* frontend/src/services/ws.ts).                                           *)
(*                                                                         *)
(* The monitor blocks the event loop while it calls batctl; the mesh, the  *)
(* helper and the serial thread do not wait for it.  It gives way only     *)
(* while it sleeps and while it broadcasts.  The store keeps the nodes     *)
(* that BATMAN sees and one Meshtastic radio; what a node says of itself   *)
(* is left out, but that a polled state may differ from the one before by  *)
(* times and qualities alone is not.                                       *)
(***************************************************************************)
EXTENDS Naturals, Sequences, FiniteSets

CONSTANTS
  Peer,         \* BATMAN nodes in reach
  Mock,         \* the nodes of MockMeshDataSource, none of Peer
  MaxLiveEvents \* bound: changes of the world and of the page

ASSUME LiveAssumption == MaxLiveEvents \in Nat

VARIABLES
  mesh,      \* the peers in reach
  helper,    \* how myc3lium-netctl answers the batctl commands
  pc,        \* where mesh_monitor_loop is
  polled,    \* current_state
  told,      \* last_state
  fetched,   \* what the data source has returned so far
  store,     \* MeshStore: BATMAN nodes and links, and the radio
  glitch,    \* history: the last merge took in another state than it told, or
             \* a BATMAN node has been deleted since
  page,      \* the page: "closed", "connecting", "online", or "deaf"
  view,      \* nodes and radio as the page shows them
  inbox,     \* WebSocket messages on their way to the page
  asked,     \* GETs that have not been answered
  answers,   \* answers on their way, in the order they were given
  reasons,   \* history: why the page may be wrong
  liveEvents \* changes of the world and of the page so far

liveVars == <<mesh, helper, pc, polled, told, fetched, store, glitch,
              page, view, inbox, asked, answers, reasons, liveEvents>>
worldVars == <<mesh, helper>>
monitorVars == <<pc, polled, told, fetched, glitch>>
pageVars == <<page, view, inbox, asked, answers, reasons>>

\* "absent": no batctl or no bat0; "none": the call fails; "raises": it cannot
\* even be started, which nobody expects.
Helper == {"ok", "absent", "none", "raises"}
State == [ healthy : BOOLEAN, nodes : SUBSET Peer, links : SUBSET Peer ]
Shown == SUBSET (Peer \cup {Mock})
Store == [ nodes : Shown, links : Shown, radio : BOOLEAN ]
View == [ nodes : Shown, radio : BOOLEAN ]
Answered == [ shows : View, old : BOOLEAN ]
News == [ kind : {"mesh_update", "node_removed"}, gone : View ]
Reason == {"unheard", "silent", "early", "crossed", "failed", "overtaken"}

LoopFree == pc \in {"sleep", "told"}
LiveEvent == liveEvents < MaxLiveEvents /\ liveEvents' = liveEvents + 1
ViewOf(s) == [ nodes |-> s.nodes, radio |-> s.radio ]
NoNodes == [ nodes |-> {}, radio |-> FALSE ]

\* What is told to a page; a node that has been removed is gone.
Update == [ kind |-> "mesh_update", gone |-> NoNodes ]
Removal(gone) == [ kind |-> "node_removed", gone |-> gone ]

\* The nodes whose removal is on its way to the page.
Leaving == UNION { n.gone.nodes : n \in { inbox[i] : i \in DOMAIN inbox } }

-----------------------------------------------------------------------------
(* The world.                                                              *)

MeshChanges ==
  /\ \E m \in SUBSET Peer : m # mesh /\ mesh' = m
  /\ LiveEvent
  /\ UNCHANGED <<helper, monitorVars, store, pageVars>>

\* That a command can be started again is not counted.
HelperChanges ==
  /\ \E h \in Helper : h # helper /\ helper' = h
  /\ IF helper = "raises" /\ helper' = "ok" THEN UNCHANGED liveEvents ELSE LiveEvent
  /\ UNCHANGED <<mesh, monitorVars, store, pageVars>>

-----------------------------------------------------------------------------
(* The monitor.                                                            *)

\* get_originators: None becomes the empty list.
Originators == IF helper = "ok" THEN mesh ELSE {}

\* get_neighbors: here every peer is one hop away.
Neighbors == IF helper = "ok" THEN mesh ELSE {}

\* Neither of them gave None.
Healthy == helper = "ok"

\* The locals of a round, before anything has been put in them.
NoState == [ healthy |-> FALSE, nodes |-> {}, links |-> {} ]
Nothing == [ nodes |-> {}, links |-> {} ]

\* No state that is polled is equal to it.
Untold == [ NoState EXCEPT !.links = {Mock} ]

Sleeps == pc' = "sleep" /\ polled' = NoState /\ fetched' = Nothing

\* is_available and get_originators.
Poll ==
  /\ pc = "sleep"
  /\ IF helper \in {"absent", "raises"} THEN UNCHANGED <<pc, polled>>
     ELSE /\ polled' = [ healthy |-> Healthy, nodes |-> Originators, links |-> {} ]
          /\ pc' = "links"
  /\ UNCHANGED <<worldVars, told, fetched, store, glitch, pageVars, liveEvents>>

\* Mutant: the new state counts as told before it has been merged.
TellsFirst == pc' = "changed" /\ told' = polled'

\* What the comparison leads to when the state has changed.
Changed == pc' = "changed" /\ UNCHANGED told

\* get_neighbors and the comparison.  The times of peers that are seen may
\* make a state differ from the same one before.
PollLinks ==
  /\ pc = "links"
  /\ LET state == [ polled EXCEPT !.healthy = @ /\ Healthy, !.links = Neighbors ]
         dated == polled.nodes \cup Neighbors # {}
     IN  \/ (helper = "raises" \/ state = told) /\ Sleeps /\ UNCHANGED <<told, liveEvents>>
         \/ /\ helper # "raises"
            /\ polled' = state
            /\ \/ state # told /\ UNCHANGED liveEvents
               \/ state = told /\ dated /\ LiveEvent
            /\ Changed
            /\ UNCHANGED fetched
  /\ UNCHANGED <<worldVars, store, glitch, pageVars>>

\* Others run while the broadcast of mesh_update is under way.
Tell ==
  /\ pc = "changed"
  /\ inbox' = IF page = "online" THEN Append(inbox, Update) ELSE inbox
  /\ reasons' = IF page = "online" THEN reasons ELSE reasons \cup {"unheard"}
  /\ pc' = "told"
  /\ UNCHANGED <<worldVars, polled, told, fetched, store, glitch,
                 page, view, asked, answers, liveEvents>>

\* A source that gets no answer shows its mock nodes.
Sourced == IF helper = "ok" THEN mesh ELSE {Mock}

FetchNodes ==
  /\ pc = "told"
  /\ IF helper = "raises" THEN Sleeps
     ELSE /\ fetched' = [Nothing EXCEPT !.nodes = Sourced]
          /\ pc' = "threads"
          /\ UNCHANGED polled
  /\ UNCHANGED <<worldVars, told, store, glitch, pageVars, liveEvents>>

FetchThreads ==
  /\ pc = "threads"
  /\ IF helper = "raises" THEN Sleeps
     ELSE /\ fetched' = [fetched EXCEPT !.links = Sourced]
          /\ pc' = "merge"
          /\ UNCHANGED polled
  /\ UNCHANGED <<worldVars, told, store, glitch, pageVars, liveEvents>>

\* merge_from_source tells nobody.  A page that has asked since mesh_update
\* was sent has seen the store without the merge, and one that still waits for
\* a node_removed will drop a node that the merge has brought back.
Merge ==
  /\ pc = "merge"
  /\ store' = [ nodes |-> fetched.nodes, links |-> fetched.links,
                radio |-> store.radio ]
  /\ told' = polled
  /\ glitch' = ~ (/\ polled.healthy
                  /\ fetched.nodes = polled.nodes /\ fetched.links = polled.links)
  /\ reasons' = IF Leaving \cap fetched.nodes = {} THEN reasons
                ELSE reasons \cup {"overtaken"}
  /\ Sleeps
  /\ UNCHANGED <<worldVars, page, view, inbox, asked, answers, liveEvents>>

-----------------------------------------------------------------------------
(* The radio.                                                              *)

\* The sync callback on the serial thread: no loop is running there, so the
\* store changes and no message is sent.
SerialReport ==
  /\ store' = [store EXCEPT !.radio = TRUE]
  /\ store' # store
  /\ reasons' = reasons \cup {"silent"}
  /\ LiveEvent
  /\ UNCHANGED <<worldVars, monitorVars, page, view, inbox, asked, answers>>

\* POST nodes.  The event holds a datetime: the broadcast fails for every
\* client, and takes them off its list.
CreateNode ==
  /\ LoopFree /\ ~ store.radio
  /\ store' = [store EXCEPT !.radio = TRUE]
  /\ page' = IF page = "online" THEN "deaf" ELSE page
  /\ reasons' = reasons \cup {"unheard"}
  /\ LiveEvent
  /\ UNCHANGED <<worldVars, monitorVars, view, inbox, asked, answers>>

\* Mutant: only additions and updates are passed on.
RemovalUntold(gone) == inbox

RemovalTold(gone) == Append(inbox, Removal(gone))

\* DELETE nodes/{id} takes any node, and the links to it.  A merge brings back
\* one that BATMAN sees, but none comes before the state changes.
RemoveNode ==
  /\ LoopFree
  /\ \E gone \in { [ NoNodes EXCEPT !.nodes = {n} ] : n \in store.nodes }
                 \cup (IF store.radio THEN {[ NoNodes EXCEPT !.radio = TRUE ]} ELSE {}) :
       /\ store' = [ nodes |-> store.nodes \ gone.nodes,
                     links |-> store.links \ gone.nodes,
                     radio |-> store.radio /\ ~ gone.radio ]
       /\ glitch' = (glitch \/ gone.nodes # {})
       /\ inbox' = IF page = "online" THEN RemovalTold(gone) ELSE inbox
  /\ reasons' = IF page = "online" THEN reasons ELSE reasons \cup {"unheard"}
  /\ LiveEvent
  /\ UNCHANGED <<worldVars, pc, polled, told, fetched, page, view, asked, answers>>

-----------------------------------------------------------------------------
(* The page.                                                               *)

\* loadAll and connectWS when it is opened.
Open ==
  /\ page = "closed"
  /\ page' = "connecting"
  /\ asked' = asked + 1
  /\ reasons' = {}
  /\ LiveEvent
  /\ UNCHANGED <<worldVars, monitorVars, store, view, inbox, answers>>

RegisterPage ==
  /\ page = "connecting" /\ LoopFree
  /\ page' = "online"
  /\ UNCHANGED <<worldVars, monitorVars, store, view, inbox, asked, answers,
                 reasons, liveEvents>>

\* What is on its way is lost; scheduleReconnect.
LoseConnection ==
  /\ page \in {"online", "deaf"}
  /\ page' = "connecting"
  /\ inbox' = <<>>
  /\ reasons' = reasons \cup {"unheard"}
  /\ LiveEvent
  /\ UNCHANGED <<worldVars, monitorVars, store, view, asked, answers>>

\* GET nodes
Answer ==
  /\ LoopFree /\ asked > 0
  /\ asked' = asked - 1
  /\ answers' = Append(answers, [ shows |-> ViewOf(store), old |-> FALSE ])
  /\ reasons' = IF pc = "told" THEN reasons \cup {"early"} ELSE reasons
  /\ UNCHANGED <<worldVars, monitorVars, store, page, view, inbox, liveEvents>>

\* A request or its answer is lost, and the page keeps what it shows.
LoadFails ==
  /\ asked > 0
  /\ asked' = asked - 1
  /\ reasons' = reasons \cup {"failed"}
  /\ LiveEvent
  /\ UNCHANGED <<worldVars, monitorVars, store, page, view, inbox, answers>>

AllOld(as) == [ i \in DOMAIN as |-> [as[i] EXCEPT !.old = TRUE] ]

\* set({ nodes }).  Answers may overtake each other and the messages.
Arrive ==
  \E i \in DOMAIN answers :
    /\ view' = answers[i].shows
    /\ answers' = AllOld(SubSeq(answers, 1, i - 1))
                    \o SubSeq(answers, i + 1, Len(answers))
    /\ reasons' = IF answers[i].old THEN reasons \cup {"crossed"} ELSE reasons
    /\ UNCHANGED <<worldVars, monitorVars, store, page, inbox, asked, liveEvents>>

\* The handlers of mesh_update and node_removed.
Deliver ==
  /\ inbox # <<>>
  /\ inbox' = Tail(inbox)
  /\ IF Head(inbox).kind = "mesh_update"
       THEN asked' = asked + 1 /\ UNCHANGED <<view, answers>>
       ELSE /\ LET gone == Head(inbox).gone
               IN  view' = [ nodes |-> view.nodes \ gone.nodes,
                             radio |-> view.radio /\ ~ gone.radio ]
            /\ answers' = AllOld(answers)
            /\ UNCHANGED asked
  /\ UNCHANGED <<worldVars, monitorVars, store, page, reasons, liveEvents>>

-----------------------------------------------------------------------------

\* load_from_source has filled the store, and seed_meshtastic_nodes has added
\* the radio if it had been heard.
LiveInit ==
  /\ mesh \in SUBSET Peer /\ helper \in {"ok", "none"}
  /\ pc = "sleep"
  /\ polled = NoState /\ fetched = Nothing
  /\ told = Untold
  /\ \E heard \in BOOLEAN :
       store = [ nodes |-> Sourced, links |-> Sourced, radio |-> heard ]
  /\ glitch = FALSE
  /\ page = "closed" /\ view = NoNodes
  /\ inbox = <<>> /\ asked = 0 /\ answers = <<>> /\ reasons = {} /\ liveEvents = 0

Monitor ==
  \/ Poll \/ PollLinks \/ Tell \/ FetchNodes \/ FetchThreads \/ Merge

LiveNext ==
  \/ MeshChanges \/ HelperChanges
  \/ Monitor
  \/ SerialReport \/ CreateNode \/ RemoveNode
  \/ Open \/ RegisterPage \/ LoseConnection
  \/ Answer \/ LoadFails \/ Arrive \/ Deliver

\* The monitor is a task of an event loop that runs; nothing else is promised.
LiveSpec == LiveInit /\ [][LiveNext]_liveVars /\ WF_liveVars(Monitor)

-----------------------------------------------------------------------------
(* Properties.                                                             *)

\* Every variable keeps its type.
LiveTypeOK ==
  /\ mesh \subseteq Peer /\ helper \in Helper
  /\ pc \in {"sleep", "links", "changed", "told", "threads", "merge"}
  /\ polled \in State
  /\ fetched \in [ nodes : Shown, links : Shown ]
  /\ store \in Store /\ glitch \in BOOLEAN
  /\ page \in {"closed", "connecting", "online", "deaf"}
  /\ view \in View
  /\ inbox \in Seq(News)
  /\ asked \in Nat
  /\ answers \in Seq(Answered)
  /\ reasons \subseteq Reason /\ liveEvents \in 0 .. MaxLiveEvents

\* In the end the store shows the peers that are in reach if batctl works, and
\* whatever failed in between is tried again (mesh_monitor_loop), unless the
\* mesh or batctl was in another state for just the time of the last merge, or
\* one of the peers was deleted after it.
StoreFollowsMesh ==
  <>[](helper = "ok" /\ ~ glitch => store.nodes = mesh /\ store.links = mesh)

\* When nothing is on its way the page shows what the store holds, unless a
\* change reached it by no message, an answer was given between mesh_update and
\* the merge, answers crossed, one was lost, or a merge brought back a node
\* whose removal was still on its way (connectWS, loadNodes).
PageShowsStore ==
  (/\ page # "closed" /\ pc = "sleep"
   /\ inbox = <<>> /\ asked = 0 /\ answers = <<>>
   /\ reasons = {})
    => view = ViewOf(store)
=============================================================================
