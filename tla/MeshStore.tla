----------------------------- MODULE MeshStore -----------------------------
(***************************************************************************)
(* The in-memory mesh store of the backend (services/mesh_store.py) and    *)
(* the two threads that change it.  The serial thread of the Meshtastic    *)
(* library runs _on_node_info_updated and, through it, the sync callback   *)
(* of meshtastic_bridge.  The event loop seeds the store at startup, then  *)
(* runs the REST handlers and the merges of the mesh monitor, none of      *)
(* which awaits in the middle.  The store has no lock.                     *)
(*                                                                         *)
(* CPython changes threads at calls and at loop back-edges.  A check and   *)
(* the write right after it are one step (add_node, add_thread); a read    *)
(* and a write with a call of Python code between them are two steps       *)
(* (get_node and then update_node, the two halves of update_node).  A      *)
(* comprehension over a dictionary is interrupted between two elements and *)
(* raises RuntimeError when the dictionary's size has changed.             *)
(*                                                                         *)
(* The fields of a node are abstracted to the number of the radio report   *)
(* they come from, 0 for a node that no report filled.  A link is named by *)
(* its source: that of a radio runs to the local radio, that of a BATMAN   *)
(* node to the peer "local", which is not a node of the store.             *)
(***************************************************************************)
EXTENDS Naturals, FiniteSets

CONSTANTS
  Radio,       \* Meshtastic nodes: ids "mesh_..."
  Local,       \* my_node_id, the radio on the serial port
  Batman,      \* nodes of the BATMAN mesh and of the REST API: other ids
  Absent,      \* no entry under this key
  MaxReports   \* bound on the reports of a behaviour

ASSUME LocalAssumption == Local \in Radio
ASSUME IdsAssumption == Radio \cap Batman = {}
ASSUME FiniteAssumption == IsFiniteSet(Radio) /\ IsFiniteSet(Batman)
ASSUME ReportsAssumption == MaxReports \in Nat /\ Absent \notin Nat

NodeId == Radio \cup Batman
Remote == Radio \ {Local}
LinkId == Remote \cup Batman
Version == 0 .. MaxReports
Actor == {"serial", "loop"}

VARIABLES
  nodes,      \* [NodeId -> Version, or Absent]: _nodes
  threads,    \* SUBSET LinkId: the keys of _threads
  heard,      \* [Radio -> Version]: MeshtasticService._nodes, 0 if not heard
  reports,    \* number of reports so far
  registered, \* whether sync_cb is in _ws_callbacks
  pc,         \* [Actor -> step]: what each thread does next
  radio,      \* [Actor -> Radio]: mesh_node of the sync code
  version,    \* [Actor -> Version]: its fields
  snapshot,   \* initial_nodes of the seeding
  todo,       \* what the loop's current iteration has still to visit
  scanned,    \* what the comprehensions of a merge have copied
  target,     \* the node of a REST call
  size,       \* the size of the dictionary when the iteration began
  deleted,    \* history: radios removed by REST since their last report
  strays      \* history: links put or left behind by a race with a removal

storeVars == <<nodes, threads>>
serviceVars == <<heard, reports>>
seedVars == <<registered, snapshot>>
scanVars == <<todo, scanned, size, target>>
historyVars == <<deleted, strays>>
vars == <<nodes, threads, heard, reports, registered, pc, radio, version,
          snapshot, todo, scanned, target, size, deleted, strays>>

Steps == {"idle", "dispatch", "look", "get", "put", "add", "local",
          "linkLook", "linkGet", "linkPut", "linkAdd",
          "boot", "snapshot", "seedNodes", "seedLinks", "patchPut",
          "removeScan", "removeEnd", "removeLinks",
          "mergeNodes", "mergeLinksBegin", "mergeLinks", "mergeAdd"}

\* An actor that is done forgets its local variables.
Goto(a, step) ==
  /\ pc' = [pc EXCEPT ![a] = step]
  /\ radio' = IF step = "idle" THEN [radio EXCEPT ![a] = Local] ELSE radio
  /\ version' = IF step = "idle" THEN [version EXCEPT ![a] = 0] ELSE version

NothingCopied == [r \in Radio |-> Absent]

\* The end of a REST handler or of a merge, and of what it was visiting.
LoopDone ==
  /\ Goto("loop", "idle")
  /\ todo' = {}
  /\ scanned' = NothingCopied
  /\ size' = 0
  /\ target' = Local

Listed == { n \in NodeId : nodes[n] # Absent }
ListedRadios == Listed \cap Radio

\* Both ends of a radio's link are in the store.
EndsListed(r) == {r, Local} \subseteq Listed

-----------------------------------------------------------------------------
(* The code that the callback and the seeding share.                       *)

\* Where an actor goes when it is done with a node, with a link, or when the
\* store raises ValueError: the seeding catches it for each item, the callback
\* only around the whole of its body.
AfterNode(a) ==
  IF a = "loop" THEN "seedNodes"
  ELSE IF radio[a] = Local THEN "idle" ELSE "local"
AfterLink(a) == IF a = "loop" THEN "seedLinks" ELSE "idle"
AfterNodeError(a) == IF a = "loop" THEN "seedNodes" ELSE "idle"

\* existing = mesh_store.get_node(mesh_node.id)
Look(a) ==
  /\ pc[a] = "look"
  /\ Goto(a, IF radio[a] \in Listed THEN "get" ELSE "add")
  /\ UNCHANGED <<storeVars, serviceVars, seedVars, scanVars, historyVars>>

\* update_node, up to model_dump: without the node it returns None.
Get(a) ==
  /\ pc[a] = "get"
  /\ Goto(a, IF radio[a] \in Listed THEN "put" ELSE AfterNode(a))
  /\ UNCHANGED <<storeVars, serviceVars, seedVars, scanVars, historyVars>>

\* update_node, from the new Node on: every field but the id is replaced.
Put(a) ==
  /\ pc[a] = "put"
  /\ nodes' = [nodes EXCEPT ![radio[a]] = version[a]]
  /\ Goto(a, AfterNode(a))
  /\ UNCHANGED <<threads, serviceVars, seedVars, scanVars, historyVars>>

\* add_node, which raises ValueError when the id has come to exist.
Add(a) ==
  /\ pc[a] = "add"
  /\ IF radio[a] \in Listed
       THEN /\ Goto(a, AfterNodeError(a))
            /\ UNCHANGED nodes
       ELSE /\ nodes' = [nodes EXCEPT ![radio[a]] = version[a]]
            /\ Goto(a, AfterNode(a))
  /\ UNCHANGED <<threads, serviceVars, seedVars, scanVars, historyVars>>

\* existing_thread = mesh_store.get_thread(thread.id)
LinkLook(a) ==
  /\ pc[a] = "linkLook"
  /\ Goto(a, IF radio[a] \in threads THEN "linkGet" ELSE "linkAdd")
  /\ UNCHANGED <<storeVars, serviceVars, seedVars, scanVars, historyVars>>

\* update_thread, up to model_dump.
LinkGet(a) ==
  /\ pc[a] = "linkGet"
  /\ Goto(a, IF radio[a] \in threads THEN "linkPut" ELSE AfterLink(a))
  /\ UNCHANGED <<storeVars, serviceVars, seedVars, scanVars, historyVars>>

\* update_thread, from the new Thread on.  The link may have been removed, and
\* its ends with it, since it was read.
LinkPut(a) ==
  /\ pc[a] = "linkPut"
  /\ threads' = threads \cup {radio[a]}
  /\ strays' = IF radio[a] \in threads THEN strays ELSE strays \cup {radio[a]}
  /\ Goto(a, AfterLink(a))
  /\ UNCHANGED <<nodes, serviceVars, deleted, seedVars, scanVars>>

\* add_thread, which raises ValueError when the id exists or an end does not.
LinkAdd(a) ==
  /\ pc[a] = "linkAdd"
  /\ threads' = IF radio[a] \notin threads /\ EndsListed(radio[a])
                  THEN threads \cup {radio[a]} ELSE threads
  /\ Goto(a, AfterLink(a))
  /\ UNCHANGED <<nodes, serviceVars, seedVars, scanVars, historyVars>>

Sync(a) ==
  Look(a) \/ Get(a) \/ Put(a) \/ Add(a)
    \/ LinkLook(a) \/ LinkGet(a) \/ LinkPut(a) \/ LinkAdd(a)

-----------------------------------------------------------------------------
(* The serial thread.                                                      *)

\* _on_node_info_updated stores the report under its lock ...
Hear(r) ==
  /\ pc["serial"] = "idle"
  /\ reports < MaxReports
  /\ reports' = reports + 1
  /\ heard' = [heard EXCEPT ![r] = reports']
  /\ radio' = [radio EXCEPT !["serial"] = r]
  /\ version' = [version EXCEPT !["serial"] = reports']
  /\ pc' = [pc EXCEPT !["serial"] = "dispatch"]
  /\ deleted' = deleted \ {r}
  /\ UNCHANGED <<storeVars, seedVars, scanVars, strays>>

\* ... and then calls the callbacks that are registered by now.
Dispatch ==
  /\ pc["serial"] = "dispatch"
  /\ Goto("serial", IF registered THEN "look" ELSE "idle")
  /\ UNCHANGED <<storeVars, serviceVars, seedVars, scanVars, historyVars>>

\* if mesh_store.get_node(local_mesh_id)
LocalLook ==
  /\ pc["serial"] = "local"
  /\ Goto("serial", IF Local \in Listed THEN "linkLook" ELSE "idle")
  /\ UNCHANGED <<storeVars, serviceVars, seedVars, scanVars, historyVars>>

Serial == (\E r \in Radio : Hear(r)) \/ Dispatch \/ LocalLook \/ Sync("serial")

-----------------------------------------------------------------------------
(* The event loop at startup.                                              *)

\* meshtastic_service.add_ws_callback(sync_cb)
Register ==
  /\ pc["loop"] = "boot"
  /\ registered' = TRUE
  /\ Goto("loop", "snapshot")
  /\ UNCHANGED <<storeVars, serviceVars, snapshot, scanVars, historyVars>>

InSnapshot == { r \in Radio : snapshot[r] # 0 }

\* initial_nodes = meshtastic_service.get_nodes(), the first pass over them
Snapshot ==
  /\ pc["loop"] = "snapshot"
  /\ snapshot' = heard
  /\ todo' = { r \in Radio : heard[r] # 0 }
  /\ Goto("loop", "seedNodes")
  /\ UNCHANGED <<storeVars, serviceVars, registered, scanned, target,
                 size, historyVars>>

SeedNode(r) ==
  /\ pc["loop"] = "seedNodes"
  /\ r \in todo
  /\ todo' = todo \ {r}
  /\ radio' = [radio EXCEPT !["loop"] = r]
  /\ version' = [version EXCEPT !["loop"] = snapshot[r]]
  /\ pc' = [pc EXCEPT !["loop"] = "look"]
  /\ UNCHANGED <<storeVars, serviceVars, scanned, target, size, seedVars,
                 historyVars>>

\* Mutant: the second pass does not skip the local radio.
EveryLinkToSeed == InSnapshot

\* Whose links the second pass makes: all but the local radio's.
LinksToSeed == InSnapshot \ {Local}

SeedLinks ==
  /\ pc["loop"] = "seedNodes"
  /\ todo = {}
  /\ todo' = LinksToSeed
  /\ Goto("loop", "seedLinks")
  /\ UNCHANGED <<storeVars, serviceVars, scanned, target, size, seedVars,
                 historyVars>>

SeedLink(r) ==
  /\ pc["loop"] = "seedLinks"
  /\ r \in todo
  /\ todo' = todo \ {r}
  /\ radio' = [radio EXCEPT !["loop"] = r]
  /\ pc' = [pc EXCEPT !["loop"] = "linkLook"]
  /\ UNCHANGED <<storeVars, serviceVars, version, scanned, target, size,
                 seedVars, historyVars>>

SeedEnd ==
  /\ pc["loop"] = "seedLinks"
  /\ todo = {}
  /\ Goto("loop", "idle")
  /\ snapshot' = [r \in Radio |-> 0]
  /\ UNCHANGED <<storeVars, serviceVars, registered, scanVars, historyVars>>

Startup ==
  \/ Register \/ Snapshot \/ SeedLinks \/ SeedEnd
  \/ \E r \in Radio : SeedNode(r) \/ SeedLink(r)
  \/ Sync("loop")

-----------------------------------------------------------------------------
(* The REST handlers that write to the store.                              *)

\* create_node: add_node, or 400.
CreateNode(n) ==
  /\ pc["loop"] = "idle"
  /\ n \notin Listed
  /\ nodes' = [nodes EXCEPT ![n] = 0]
  /\ UNCHANGED <<threads, serviceVars, pc, radio, version, seedVars,
                 scanVars, historyVars>>

\* update_node and update_node_status: the first half of the store's
\* update_node, or 404 ...
PatchGet(n) ==
  /\ pc["loop"] = "idle"
  /\ n \in Listed
  /\ target' = n
  /\ version' = [version EXCEPT !["loop"] = nodes[n]]
  /\ pc' = [pc EXCEPT !["loop"] = "patchPut"]
  /\ UNCHANGED <<storeVars, serviceVars, radio, seedVars, todo, scanned, size,
                 historyVars>>

\* ... and the second, with the fields that were read.
PatchPut ==
  /\ pc["loop"] = "patchPut"
  /\ nodes' = [nodes EXCEPT ![target] = version["loop"]]
  /\ LoopDone
  /\ UNCHANGED <<threads, serviceVars, seedVars, historyVars>>

\* Mutant: the scan of remove_node compares the source only.
TouchesSource(t, n) == t = n

Touches(t, n) == t = n \/ (n = Local /\ t \in Remote)

\* delete_node: remove_node, or 404.  The node goes first.
RemoveNode(n) ==
  /\ pc["loop"] = "idle"
  /\ n \in Listed
  /\ nodes' = [nodes EXCEPT ![n] = Absent]
  /\ deleted' = deleted \cup ({n} \cap Radio)
  /\ target' = n
  /\ Goto("loop", "removeScan")
  /\ UNCHANGED <<threads, serviceVars, strays, seedVars, todo, scanned, size>>

RemoveScan ==
  /\ pc["loop"] = "removeScan"
  /\ todo' = { t \in threads : Touches(t, target) }
  /\ size' = Cardinality(threads)
  /\ Goto("loop", "removeEnd")
  /\ UNCHANGED <<storeVars, serviceVars, scanned, target, seedVars,
                 historyVars>>

\* The comprehension ends, or raises and leaves the links as they are.
RemoveScanEnd ==
  /\ pc["loop"] = "removeEnd"
  /\ IF Cardinality(threads) # size
       THEN /\ LoopDone
            /\ strays' = strays \cup { t \in threads \cap Remote : Touches(t, target) }
       ELSE /\ Goto("loop", "removeLinks")
            /\ UNCHANGED <<strays, scanVars>>
  /\ UNCHANGED <<storeVars, serviceVars, deleted, seedVars>>

\* self.remove_thread(thread_id)
RemoveNextLink(t) ==
  /\ pc["loop"] = "removeLinks"
  /\ t \in todo
  /\ todo' = todo \ {t}
  /\ threads' = threads \ {t}
  /\ UNCHANGED <<nodes, serviceVars, pc, radio, version, scanned, target,
                 size, seedVars, historyVars>>

RemoveEnd ==
  /\ pc["loop"] = "removeLinks"
  /\ todo = {}
  /\ LoopDone
  /\ UNCHANGED <<storeVars, serviceVars, seedVars, historyVars>>

\* delete_thread: remove_thread, or 404.
RemoveThread(t) ==
  /\ pc["loop"] = "idle"
  /\ t \in threads
  /\ threads' = threads \ {t}
  /\ UNCHANGED <<nodes, serviceVars, pc, radio, version, seedVars,
                 scanVars, historyVars>>

Rest ==
  \/ \E n \in NodeId : CreateNode(n) \/ PatchGet(n) \/ RemoveNode(n)
  \/ PatchPut \/ RemoveScan \/ RemoveScanEnd \/ RemoveEnd
  \/ \E t \in LinkId : RemoveNextLink(t) \/ RemoveThread(t)

-----------------------------------------------------------------------------
(* merge_from_source, called by the mesh monitor.                          *)

\* Mutant: the merge filters a list of the items and cannot raise.
NeverResized == FALSE

\* An exception ends the merge; the monitor logs it and polls again.
NodesResized == Cardinality(Listed) # size
LinksResized == Cardinality(threads) # size

\* self._nodes = {... if k.startswith("mesh_")}: the iteration begins ...
Merge ==
  /\ pc["loop"] = "idle"
  /\ todo' = ListedRadios
  /\ size' = Cardinality(Listed)
  /\ scanned' = [r \in Radio |-> Absent]
  /\ Goto("loop", "mergeNodes")
  /\ UNCHANGED <<storeVars, serviceVars, target, seedVars, historyVars>>

\* ... copies a radio's node ...
MergeCopy(r) ==
  /\ pc["loop"] = "mergeNodes"
  /\ ~ NodesResized
  /\ r \in todo
  /\ todo' = todo \ {r}
  /\ scanned' = [scanned EXCEPT ![r] = nodes[r]]
  /\ UNCHANGED <<storeVars, serviceVars, pc, radio, version, target, size,
                 seedVars, historyVars>>

\* ... and ends: the copy becomes the store's dictionary.
MergeNodesEnd ==
  /\ pc["loop"] = "mergeNodes"
  /\ ~ NodesResized
  /\ todo = {}
  /\ nodes' = [n \in NodeId |-> IF n \in Radio THEN scanned[n] ELSE Absent]
  /\ scanned' = NothingCopied
  /\ Goto("loop", "mergeLinksBegin")
  /\ UNCHANGED <<threads, serviceVars, seedVars, todo, size, target,
                 historyVars>>

\* self._threads = {... if k.startswith("thread_mesh_")}
MergeLinks ==
  /\ pc["loop"] = "mergeLinksBegin"
  /\ size' = Cardinality(threads)
  /\ Goto("loop", "mergeLinks")
  /\ UNCHANGED <<storeVars, serviceVars, todo, scanned, target, seedVars,
                 historyVars>>

MergeLinksEnd ==
  /\ pc["loop"] = "mergeLinks"
  /\ ~ LinksResized
  /\ threads' = threads \cap Remote
  /\ Goto("loop", "mergeAdd")
  /\ UNCHANGED <<nodes, serviceVars, seedVars, scanVars, historyVars>>

\* The new BATMAN nodes bs and the links ts that some of them have.
MergeAdd(bs, ts) ==
  /\ pc["loop"] = "mergeAdd"
  /\ nodes' = [n \in NodeId |-> IF n \in bs THEN 0 ELSE nodes[n]]
  /\ threads' = threads \cup ts
  /\ LoopDone
  /\ UNCHANGED <<serviceVars, seedVars, historyVars>>

\* RuntimeError: dictionary changed size during iteration.
MergeRaises ==
  /\ \/ pc["loop"] = "mergeNodes" /\ NodesResized
     \/ pc["loop"] = "mergeLinks" /\ LinksResized
  /\ LoopDone
  /\ UNCHANGED <<storeVars, serviceVars, seedVars, historyVars>>

Monitor ==
  \/ Merge \/ MergeNodesEnd \/ MergeLinks \/ MergeLinksEnd \/ MergeRaises
  \/ \E r \in Radio : MergeCopy(r)
  \/ \E bs \in SUBSET Batman : \E ts \in SUBSET bs : MergeAdd(bs, ts)

-----------------------------------------------------------------------------
\* load_from_source has run when the module is imported: the store holds what
\* the data source knows and nothing that came over the radio.
Init ==
  /\ \E bs \in SUBSET Batman : \E ts \in SUBSET bs :
       /\ nodes = [n \in NodeId |-> IF n \in bs THEN 0 ELSE Absent]
       /\ threads = ts
  /\ heard = [r \in Radio |-> 0]
  /\ reports = 0
  /\ registered = FALSE
  /\ pc = [serial |-> "idle", loop |-> "boot"]
  /\ radio = [a \in Actor |-> Local]
  /\ version = [a \in Actor |-> 0]
  /\ snapshot = [r \in Radio |-> 0]
  /\ todo = {}
  /\ scanned = [r \in Radio |-> Absent]
  /\ target = Local
  /\ size = 0
  /\ deleted = {}
  /\ strays = {}

Next == Serial \/ Startup \/ Rest \/ Monitor

Spec == Init /\ [][Next]_vars

-----------------------------------------------------------------------------
(* Properties.                                                             *)

TypeOK ==
  /\ nodes \in [NodeId -> Version \cup {Absent}]
  /\ threads \subseteq LinkId
  /\ heard \in [Radio -> Version]
  /\ reports \in Version
  /\ registered \in BOOLEAN
  /\ pc \in [Actor -> Steps]
  /\ radio \in [Actor -> Radio]
  /\ version \in [Actor -> Version]
  /\ snapshot \in [Radio -> Version]
  /\ todo \subseteq NodeId
  /\ scanned \in [Radio -> Version \cup {Absent}]
  /\ target \in NodeId
  /\ size \in Nat
  /\ deleted \subseteq Radio
  /\ strays \subseteq Remote

Starting == pc["loop"] \in {"boot", "snapshot", "seedNodes", "look", "get", "put", "add"}
InCallback(r) == pc["serial"] # "idle" /\ radio["serial"] = r

\* After the seeding a radio that was ever heard is in /api/nodes, unless a
\* REST call removed it after its last report: neither the start (a report
\* between the connection and the seeding), nor a merge that runs into a
\* callback, nor the two threads adding the same node loses one.
KnownRadiosListed ==
  \A r \in Radio :
    ~ Starting /\ heard[r] # 0 /\ ~ InCallback(r) /\ r \notin deleted
      => r \in Listed

\* A radio's link without its two nodes has only these causes: their removal is
\* still under way, or a callback met a removal, in one of the two places that
\* mark the link as a stray.
DanglingOnlyByRace ==
  \A r \in threads \cap Remote :
    \/ EndsListed(r)
    \/ r \in strays
    \/ pc["loop"] \in {"removeScan", "removeEnd", "removeLinks"} /\ Touches(r, target)

\* mesh_store.py: the links of a removed node are removed too.  Between REST
\* calls no radio's link is without its nodes.
RemovalIsComplete ==
  pc["loop"] = "idle" => \A r \in threads \cap Remote : EndsListed(r)

\* mesh_store.py: a merge preserves the Meshtastic-bridged entries.
MergePreservesRadios ==
  [][MergeNodesEnd => \A r \in ListedRadios : nodes'[r] = nodes[r]]_vars
=============================================================================
