-------------------------- MODULE MeshStoreProofs --------------------------
(***************************************************************************)
(* Proofs about the mesh store for any sets of radios and BATMAN nodes and *)
(* any number of reports: no radio that was heard is lost, and a link      *)
(* without its nodes has one of two causes.  Each lemma has one step per   *)
(* action of MeshStore.                                                    *)
(***************************************************************************)
EXTENDS MeshStore, FiniteSetTheorems, TLAPS

LinkPhase == {"linkLook", "linkGet", "linkPut", "linkAdd"}
NodePhase == {"look", "get", "put", "add"}

\* Only the links of remote radios are looked for.
LinksRemote ==
  /\ \A a \in Actor : pc[a] \in LinkPhase \cup {"local"} => radio[a] \in Remote
  /\ pc["loop"] \in LinkPhase \cup {"seedLinks"} => todo \subseteq Remote
  /\ pc["loop"] \in {"seedNodes", "mergeNodes"} \cup NodePhase => todo \subseteq Radio
  /\ pc["loop"] \in {"removeEnd", "removeLinks"} => todo \subseteq LinkId

TypeInv == TypeOK /\ LinksRemote


(***************************************************************************)
(* No heard radio is lost.                                                 *)
(***************************************************************************)
StartPhase == {"boot", "snapshot", "seedNodes"} \cup NodePhase

\* The store has the radio, or a REST call has removed it.
Known(r) == r \in Listed \cup deleted

\* The seeding has still to come to the radio.
Awaited(r) ==
  \/ pc["loop"] \in {"boot", "snapshot"}
  \/ pc["loop"] \in {"seedNodes"} \cup NodePhase /\ r \in todo
  \/ pc["loop"] \in NodePhase /\ radio["loop"] = r

HeardInv ==
  /\ ~ registered => pc["loop"] = "boot"
  /\ pc["loop"] \in StartPhase => deleted = {}
  /\ pc["serial"] \in {"get", "local"} \cup LinkPhase => Known(radio["serial"])
  /\ pc["loop"] = "get" => Known(radio["loop"])
  /\ \A r \in Radio : heard[r] # 0 /\ ~ InCallback(r) => Known(r) \/ Awaited(r)

(***************************************************************************)
(* A merge that ends has copied every radio: nothing is removed meanwhile, *)
(* and what the serial thread adds changes the size.                       *)
(***************************************************************************)
Copied == todo \cup { r \in Radio : scanned[r] # Absent }

CopyInv ==
  pc["loop"] = "mergeNodes" =>
    /\ Copied \subseteq ListedRadios
    /\ size <= Cardinality(Listed)
    /\ Cardinality(Listed) = size => ListedRadios \subseteq Copied

(***************************************************************************)
(* A link without its nodes is on its way out, or marked.                  *)
(***************************************************************************)
Marked(r) ==
  \/ EndsListed(r)
  \/ r \in strays
  \/ pc["loop"] = "removeScan" /\ Touches(r, target)
  \/ pc["loop"] \in {"removeEnd", "removeLinks"} /\ r \in todo

LinkInv ==
  /\ \A r \in threads \cap Remote : Marked(r)
  /\ pc["loop"] \in {"removeEnd", "removeLinks"} =>
       \A t \in todo : Touches(t, target)

\* Dictionaries are finite, so the sizes the iterations compare are numbers.
LEMMA SizesNatural == ASSUME TypeOK
                      PROVE  /\ IsFiniteSet(Listed) /\ Cardinality(Listed) \in Nat
                             /\ IsFiniteSet(threads) /\ Cardinality(threads) \in Nat
<1>1. IsFiniteSet(NodeId)
  BY FiniteAssumption, FS_Union DEF NodeId
<1>2. Listed \subseteq NodeId /\ threads \subseteq NodeId
  BY DEF Listed, TypeOK, LinkId, NodeId, Remote
<1> QED
  BY <1>1, <1>2, FS_Subset, FS_CardinalityType

\* Every step keeps the types and what kind of thing the loop visits.
LEMMA TypeStep == ASSUME TypeInv, [Next]_vars PROVE TypeInv'
<1> USE IdsAssumption, LocalAssumption, ReportsAssumption
    DEF TypeInv, TypeOK, LinksRemote, Goto, LoopDone, NothingCopied, storeVars,
        serviceVars, seedVars, scanVars, historyVars, Listed, ListedRadios,
        AfterNode, AfterLink, AfterNodeError, Version, NodeId, LinkId, Remote,
        Actor, Steps, LinkPhase, NodePhase
<1>1. ASSUME NEW a \in Actor, Look(a) PROVE TypeInv'
  BY <1>1, SMTT(20) DEF Look
<1>2. ASSUME NEW a \in Actor, Get(a) PROVE TypeInv'
  BY <1>2, SMTT(20) DEF Get
<1>3. ASSUME NEW a \in Actor, Put(a) PROVE TypeInv'
  BY <1>3, SMTT(20) DEF Put
<1>4. ASSUME NEW a \in Actor, Add(a) PROVE TypeInv'
  BY <1>4, SMTT(20) DEF Add
<1>5. ASSUME NEW a \in Actor, LinkLook(a) PROVE TypeInv'
  BY <1>5, SMTT(20) DEF LinkLook
<1>6. ASSUME NEW a \in Actor, LinkGet(a) PROVE TypeInv'
  BY <1>6, SMTT(20) DEF LinkGet
<1>7. ASSUME NEW a \in Actor, LinkPut(a) PROVE TypeInv'
  BY <1>7, SMTT(20) DEF LinkPut
<1>8. ASSUME NEW a \in Actor, LinkAdd(a) PROVE TypeInv'
  BY <1>8, SMTT(20) DEF LinkAdd
<1>9. ASSUME NEW r \in Radio, Hear(r) PROVE TypeInv'
  BY <1>9, SMTT(20) DEF Hear
<1>10. ASSUME Dispatch PROVE TypeInv'
  BY <1>10, SMTT(20) DEF Dispatch
<1>11. ASSUME LocalLook PROVE TypeInv'
  BY <1>11, SMTT(20) DEF LocalLook
<1>12. ASSUME Register PROVE TypeInv'
  BY <1>12, SMTT(20) DEF Register
<1>13. ASSUME Snapshot PROVE TypeInv'
  BY <1>13, SMTT(20) DEF Snapshot
<1>14. ASSUME NEW r \in Radio, SeedNode(r) PROVE TypeInv'
  BY <1>14, SMTT(20) DEF SeedNode
<1>15. ASSUME SeedLinks PROVE TypeInv'
  BY <1>15, SMTT(20) DEF SeedLinks, LinksToSeed, InSnapshot
<1>16. ASSUME NEW r \in Radio, SeedLink(r) PROVE TypeInv'
  BY <1>16, SMTT(20) DEF SeedLink
<1>17. ASSUME SeedEnd PROVE TypeInv'
  BY <1>17, SMTT(20) DEF SeedEnd
<1>18. ASSUME NEW n \in NodeId, CreateNode(n) PROVE TypeInv'
  BY <1>18, SMTT(20) DEF CreateNode
<1>19. ASSUME NEW n \in NodeId, PatchGet(n) PROVE TypeInv'
  BY <1>19, SMTT(20) DEF PatchGet
<1>20. ASSUME PatchPut PROVE TypeInv'
  BY <1>20, SMTT(20) DEF PatchPut
<1>21. ASSUME NEW n \in NodeId, RemoveNode(n) PROVE TypeInv'
  BY <1>21, SMTT(20) DEF RemoveNode
<1>22. ASSUME RemoveScan PROVE TypeInv'
  BY <1>22, SizesNatural, SMTT(20) DEF RemoveScan
<1>23. ASSUME RemoveScanEnd PROVE TypeInv'
  BY <1>23, SMTT(20) DEF RemoveScanEnd
<1>24. ASSUME NEW t \in LinkId, RemoveNextLink(t) PROVE TypeInv'
  BY <1>24, SMTT(20) DEF RemoveNextLink
<1>25. ASSUME RemoveEnd PROVE TypeInv'
  BY <1>25, SMTT(20) DEF RemoveEnd
<1>26. ASSUME NEW t \in LinkId, RemoveThread(t) PROVE TypeInv'
  BY <1>26, SMTT(20) DEF RemoveThread
<1>27. ASSUME Merge PROVE TypeInv'
  BY <1>27, SizesNatural, SMTT(20) DEF Merge
<1>28. ASSUME NEW r \in Radio, MergeCopy(r) PROVE TypeInv'
  BY <1>28, SMTT(20) DEF MergeCopy
<1>29. ASSUME MergeNodesEnd PROVE TypeInv'
  BY <1>29, SMTT(20) DEF MergeNodesEnd
<1>30. ASSUME MergeLinks PROVE TypeInv'
  BY <1>30, SizesNatural, SMTT(20) DEF MergeLinks
<1>31. ASSUME MergeLinksEnd PROVE TypeInv'
  BY <1>31, SMTT(20) DEF MergeLinksEnd
<1>32. ASSUME NEW bs \in SUBSET Batman, NEW ts \in SUBSET bs, MergeAdd(bs, ts) PROVE TypeInv'
  BY <1>32, SMTT(20) DEF MergeAdd
<1>33. ASSUME MergeRaises PROVE TypeInv'
  BY <1>33, SMTT(20) DEF MergeRaises
<1>34. CASE UNCHANGED vars
  BY <1>34, SMTT(20) DEF vars
<1> QED
  BY <1>1, <1>2, <1>3, <1>4, <1>5, <1>6, <1>7, <1>8, <1>9, <1>10, <1>11, <1>12,
     <1>13, <1>14, <1>15, <1>16, <1>17, <1>18, <1>19, <1>20, <1>21, <1>22,
     <1>23, <1>24, <1>25, <1>26, <1>27, <1>28, <1>29, <1>30, <1>31, <1>32,
     <1>33, <1>34
    DEF Next, Serial, Startup, Rest, Monitor, Sync

\* Every step keeps the account of the heard radios: listed, removed by REST, or
\* awaited by the seeding.
LEMMA HeardStep == ASSUME TypeInv, HeardInv, CopyInv, [Next]_vars PROVE HeardInv'
<1> USE IdsAssumption, LocalAssumption, ReportsAssumption
    DEF TypeInv, TypeOK, LinksRemote, HeardInv, StartPhase, Known, Awaited,
        InCallback, Goto, LoopDone, NothingCopied, storeVars, serviceVars,
        seedVars, scanVars, historyVars, Listed, ListedRadios, AfterNode,
        AfterLink, AfterNodeError, Version, NodeId, LinkId, Remote, Actor,
        Steps, LinkPhase, NodePhase
<1>1. ASSUME NEW a \in Actor, Look(a) PROVE HeardInv'
  BY <1>1, SMTT(20) DEF Look
<1>2. ASSUME NEW a \in Actor, Get(a) PROVE HeardInv'
  BY <1>2, SMTT(20) DEF Get
<1>3. ASSUME NEW a \in Actor, Put(a) PROVE HeardInv'
  BY <1>3, SMTT(20) DEF Put
<1>4. ASSUME NEW a \in Actor, Add(a) PROVE HeardInv'
  BY <1>4, SMTT(20) DEF Add
<1>5. ASSUME NEW a \in Actor, LinkLook(a) PROVE HeardInv'
  BY <1>5, SMTT(20) DEF LinkLook
<1>6. ASSUME NEW a \in Actor, LinkGet(a) PROVE HeardInv'
  BY <1>6, SMTT(20) DEF LinkGet
<1>7. ASSUME NEW a \in Actor, LinkPut(a) PROVE HeardInv'
  BY <1>7, SMTT(20) DEF LinkPut
<1>8. ASSUME NEW a \in Actor, LinkAdd(a) PROVE HeardInv'
  BY <1>8, SMTT(20) DEF LinkAdd
<1>9. ASSUME NEW r \in Radio, Hear(r) PROVE HeardInv'
  BY <1>9, SMTT(20) DEF Hear
<1>10. ASSUME Dispatch PROVE HeardInv'
  BY <1>10, SMTT(20) DEF Dispatch
<1>11. ASSUME LocalLook PROVE HeardInv'
  BY <1>11, SMTT(20) DEF LocalLook
<1>12. ASSUME Register PROVE HeardInv'
  BY <1>12, SMTT(20) DEF Register
<1>13. ASSUME Snapshot PROVE HeardInv'
  BY <1>13, SMTT(20) DEF Snapshot
<1>14. ASSUME NEW r \in Radio, SeedNode(r) PROVE HeardInv'
  BY <1>14, SMTT(20) DEF SeedNode
<1>15. ASSUME SeedLinks PROVE HeardInv'
  BY <1>15, SMTT(20) DEF SeedLinks, LinksToSeed, InSnapshot
<1>16. ASSUME NEW r \in Radio, SeedLink(r) PROVE HeardInv'
  BY <1>16, SMTT(20) DEF SeedLink
<1>17. ASSUME SeedEnd PROVE HeardInv'
  BY <1>17, SMTT(20) DEF SeedEnd
<1>18. ASSUME NEW n \in NodeId, CreateNode(n) PROVE HeardInv'
  BY <1>18, SMTT(20) DEF CreateNode
<1>19. ASSUME NEW n \in NodeId, PatchGet(n) PROVE HeardInv'
  BY <1>19, SMTT(20) DEF PatchGet
<1>20. ASSUME PatchPut PROVE HeardInv'
  BY <1>20, SMTT(20) DEF PatchPut
<1>21. ASSUME NEW n \in NodeId, RemoveNode(n) PROVE HeardInv'
  BY <1>21, SMTT(20) DEF RemoveNode
<1>22. ASSUME RemoveScan PROVE HeardInv'
  BY <1>22, SMTT(20) DEF RemoveScan
<1>23. ASSUME RemoveScanEnd PROVE HeardInv'
  BY <1>23, SMTT(20) DEF RemoveScanEnd
<1>24. ASSUME NEW t \in LinkId, RemoveNextLink(t) PROVE HeardInv'
  BY <1>24, SMTT(20) DEF RemoveNextLink
<1>25. ASSUME RemoveEnd PROVE HeardInv'
  BY <1>25, SMTT(20) DEF RemoveEnd
<1>26. ASSUME NEW t \in LinkId, RemoveThread(t) PROVE HeardInv'
  BY <1>26, SMTT(20) DEF RemoveThread
<1>27. ASSUME Merge PROVE HeardInv'
  BY <1>27, SMTT(20) DEF Merge
<1>28. ASSUME NEW r \in Radio, MergeCopy(r) PROVE HeardInv'
  BY <1>28, SMTT(20) DEF MergeCopy
<1>29. ASSUME MergeNodesEnd PROVE HeardInv'
  BY <1>29, SMTT(20) DEF MergeNodesEnd, CopyInv, Copied, NodesResized
<1>30. ASSUME MergeLinks PROVE HeardInv'
  BY <1>30, SMTT(20) DEF MergeLinks
<1>31. ASSUME MergeLinksEnd PROVE HeardInv'
  BY <1>31, SMTT(20) DEF MergeLinksEnd
<1>32. ASSUME NEW bs \in SUBSET Batman, NEW ts \in SUBSET bs, MergeAdd(bs, ts) PROVE HeardInv'
  BY <1>32, SMTT(20) DEF MergeAdd
<1>33. ASSUME MergeRaises PROVE HeardInv'
  BY <1>33, SMTT(20) DEF MergeRaises
<1>34. CASE UNCHANGED vars
  BY <1>34, SMTT(20) DEF vars
<1> QED
  BY <1>1, <1>2, <1>3, <1>4, <1>5, <1>6, <1>7, <1>8, <1>9, <1>10, <1>11, <1>12,
     <1>13, <1>14, <1>15, <1>16, <1>17, <1>18, <1>19, <1>20, <1>21, <1>22,
     <1>23, <1>24, <1>25, <1>26, <1>27, <1>28, <1>29, <1>30, <1>31, <1>32,
     <1>33, <1>34
    DEF Next, Serial, Startup, Rest, Monitor, Sync

\* What the sync code puts is the radio it handles: the dictionary has the size
\* it had, or one more.
LEMMA PutGrows == ASSUME TypeInv, NEW a \in Actor, Put(a) \/ (Add(a) /\ radio[a] \notin Listed)
                  PROVE  /\ nodes' = [nodes EXCEPT ![radio[a]] = version[a]]
                         /\ Listed' = Listed \cup {radio[a]}
                         /\ radio[a] \notin Listed => Cardinality(Listed') = Cardinality(Listed) + 1
<1>1. nodes' = [nodes EXCEPT ![radio[a]] = version[a]]
  BY DEF Put, Add
<1>2. Listed' = Listed \cup {radio[a]}
  BY <1>1, ReportsAssumption, SMTT(20)
    DEF Listed, TypeInv, TypeOK, Version, NodeId
<1>3. ASSUME radio[a] \notin Listed PROVE Cardinality(Listed') = Cardinality(Listed) + 1
  <2>1. IsFiniteSet(Listed)
    BY SizesNatural DEF TypeInv
  <2> QED
    BY <1>2, <1>3, <2>1, FS_AddElement
<1> QED
  BY <1>1, <1>2, <1>3

\* What the serial thread puts into the dictionary a merge is copying was there
\* already, or makes the merge raise.
LEMMA CopyPut == ASSUME TypeInv, CopyInv, NEW a \in Actor, Put(a) \/ (Add(a) /\ radio[a] \notin Listed)
                 PROVE  CopyInv'
<1>1. CASE pc'["loop"] # "mergeNodes"
  BY <1>1 DEF CopyInv
<1>2. CASE pc'["loop"] = "mergeNodes"
  <2>1. pc["loop"] = "mergeNodes" /\ Copied' = Copied /\ size' = size
    BY <1>2, SMTT(20) DEF Put, Add, Goto, AfterNode, Actor, TypeInv, TypeOK, Steps, scanVars, Copied
  <2>2. ListedRadios' = ListedRadios \cup {radio[a]} /\ radio[a] \in Radio
    BY PutGrows DEF ListedRadios, TypeInv, TypeOK
  <2>3. CASE radio[a] \in Listed
    <3>1. Listed' = Listed /\ ListedRadios' = ListedRadios
      BY PutGrows, <2>2, <2>3 DEF ListedRadios
    <3> QED
      BY <2>1, <3>1 DEF CopyInv
  <2>4. CASE radio[a] \notin Listed
    <3>1. Cardinality(Listed') > size
      BY PutGrows, SizesNatural, <2>1, <2>4, SMT DEF CopyInv, TypeInv, TypeOK
    <3> QED
      BY <2>1, <2>2, <3>1, SizesNatural, PutGrows, <2>4, SMT DEF CopyInv, TypeInv, TypeOK
  <2> QED
    BY <2>3, <2>4
<1> QED
  BY <1>1, <1>2

\* Every step of either thread keeps what the merge has copied complete.
LEMMA CopyStep == ASSUME TypeInv, CopyInv, [Next]_vars PROVE CopyInv'
<1> USE IdsAssumption, LocalAssumption, ReportsAssumption
    DEF TypeInv, TypeOK, LinksRemote, CopyInv, Copied, Goto, LoopDone,
        NothingCopied, storeVars, serviceVars, seedVars, scanVars, historyVars,
        Listed, ListedRadios, AfterNode, AfterLink, AfterNodeError, Version,
        NodeId, LinkId, Remote, Actor, Steps, LinkPhase, NodePhase
<1>1. ASSUME NEW a \in Actor, Look(a) PROVE CopyInv'
  BY <1>1, SMTT(20) DEF Look
<1>2. ASSUME NEW a \in Actor, Get(a) PROVE CopyInv'
  BY <1>2, SMTT(20) DEF Get
<1>3. ASSUME NEW a \in Actor, Put(a) PROVE CopyInv'
  BY <1>3, CopyPut
<1>4. ASSUME NEW a \in Actor, Add(a) PROVE CopyInv'
  <2>1. CASE radio[a] \in Listed
    BY <1>4, <2>1, SMTT(20) DEF Add
  <2>2. CASE radio[a] \notin Listed
    BY <1>4, <2>2, CopyPut
  <2> QED
    BY <2>1, <2>2
<1>5. ASSUME NEW a \in Actor, LinkLook(a) PROVE CopyInv'
  BY <1>5, SMTT(20) DEF LinkLook
<1>6. ASSUME NEW a \in Actor, LinkGet(a) PROVE CopyInv'
  BY <1>6, SMTT(20) DEF LinkGet
<1>7. ASSUME NEW a \in Actor, LinkPut(a) PROVE CopyInv'
  BY <1>7, SMTT(20) DEF LinkPut
<1>8. ASSUME NEW a \in Actor, LinkAdd(a) PROVE CopyInv'
  BY <1>8, SMTT(20) DEF LinkAdd
<1>9. ASSUME NEW r \in Radio, Hear(r) PROVE CopyInv'
  BY <1>9, SMTT(20) DEF Hear
<1>10. ASSUME Dispatch PROVE CopyInv'
  BY <1>10, SMTT(20) DEF Dispatch
<1>11. ASSUME LocalLook PROVE CopyInv'
  BY <1>11, SMTT(20) DEF LocalLook
<1>12. ASSUME Register PROVE CopyInv'
  BY <1>12, SMTT(20) DEF Register
<1>13. ASSUME Snapshot PROVE CopyInv'
  BY <1>13, SMTT(20) DEF Snapshot
<1>14. ASSUME NEW r \in Radio, SeedNode(r) PROVE CopyInv'
  BY <1>14, SMTT(20) DEF SeedNode
<1>15. ASSUME SeedLinks PROVE CopyInv'
  BY <1>15, SMTT(20) DEF SeedLinks
<1>16. ASSUME NEW r \in Radio, SeedLink(r) PROVE CopyInv'
  BY <1>16, SMTT(20) DEF SeedLink
<1>17. ASSUME SeedEnd PROVE CopyInv'
  BY <1>17, SMTT(20) DEF SeedEnd
<1>18. ASSUME NEW n \in NodeId, CreateNode(n) PROVE CopyInv'
  BY <1>18, SMTT(20) DEF CreateNode
<1>19. ASSUME NEW n \in NodeId, PatchGet(n) PROVE CopyInv'
  BY <1>19, SMTT(20) DEF PatchGet
<1>20. ASSUME PatchPut PROVE CopyInv'
  BY <1>20, SMTT(20) DEF PatchPut
<1>21. ASSUME NEW n \in NodeId, RemoveNode(n) PROVE CopyInv'
  BY <1>21, SMTT(20) DEF RemoveNode
<1>22. ASSUME RemoveScan PROVE CopyInv'
  BY <1>22, SMTT(20) DEF RemoveScan
<1>23. ASSUME RemoveScanEnd PROVE CopyInv'
  BY <1>23, SMTT(20) DEF RemoveScanEnd
<1>24. ASSUME NEW t \in LinkId, RemoveNextLink(t) PROVE CopyInv'
  BY <1>24, SMTT(20) DEF RemoveNextLink
<1>25. ASSUME RemoveEnd PROVE CopyInv'
  BY <1>25, SMTT(20) DEF RemoveEnd
<1>26. ASSUME NEW t \in LinkId, RemoveThread(t) PROVE CopyInv'
  BY <1>26, SMTT(20) DEF RemoveThread
<1>27. ASSUME Merge PROVE CopyInv'
  BY <1>27, SizesNatural, SMTT(20) DEF Merge
<1>28. ASSUME NEW r \in Radio, MergeCopy(r) PROVE CopyInv'
  BY <1>28, SMTT(20) DEF MergeCopy, NodesResized
<1>29. ASSUME MergeNodesEnd PROVE CopyInv'
  BY <1>29, SMTT(20) DEF MergeNodesEnd
<1>30. ASSUME MergeLinks PROVE CopyInv'
  BY <1>30, SMTT(20) DEF MergeLinks
<1>31. ASSUME MergeLinksEnd PROVE CopyInv'
  BY <1>31, SMTT(20) DEF MergeLinksEnd
<1>32. ASSUME NEW bs \in SUBSET Batman, NEW ts \in SUBSET bs, MergeAdd(bs, ts) PROVE CopyInv'
  BY <1>32, SMTT(20) DEF MergeAdd
<1>33. ASSUME MergeRaises PROVE CopyInv'
  BY <1>33, SMTT(20) DEF MergeRaises
<1>34. CASE UNCHANGED vars
  BY <1>34, SMTT(20) DEF vars
<1> QED
  BY <1>1, <1>2, <1>3, <1>4, <1>5, <1>6, <1>7, <1>8, <1>9, <1>10, <1>11, <1>12,
     <1>13, <1>14, <1>15, <1>16, <1>17, <1>18, <1>19, <1>20, <1>21, <1>22,
     <1>23, <1>24, <1>25, <1>26, <1>27, <1>28, <1>29, <1>30, <1>31, <1>32,
     <1>33, <1>34
    DEF Next, Serial, Startup, Rest, Monitor, Sync

\* Every step keeps the cause of each link without nodes on record.
LEMMA LinkStep == ASSUME TypeInv, CopyInv, LinkInv, [Next]_vars PROVE LinkInv'
<1> USE IdsAssumption, LocalAssumption, ReportsAssumption
    DEF TypeInv, TypeOK, LinksRemote, LinkInv, Marked, EndsListed, Touches,
        Goto, LoopDone, NothingCopied, storeVars, serviceVars, seedVars,
        scanVars, historyVars, Listed, ListedRadios, AfterNode, AfterLink,
        AfterNodeError, Version, NodeId, LinkId, Remote, Actor, Steps,
        LinkPhase, NodePhase
<1>1. ASSUME NEW a \in Actor, Look(a) PROVE LinkInv'
  BY <1>1, SMTT(20) DEF Look
<1>2. ASSUME NEW a \in Actor, Get(a) PROVE LinkInv'
  BY <1>2, SMTT(20) DEF Get
<1>3. ASSUME NEW a \in Actor, Put(a) PROVE LinkInv'
  BY <1>3, SMTT(20) DEF Put
<1>4. ASSUME NEW a \in Actor, Add(a) PROVE LinkInv'
  BY <1>4, SMTT(20) DEF Add
<1>5. ASSUME NEW a \in Actor, LinkLook(a) PROVE LinkInv'
  BY <1>5, SMTT(20) DEF LinkLook
<1>6. ASSUME NEW a \in Actor, LinkGet(a) PROVE LinkInv'
  BY <1>6, SMTT(20) DEF LinkGet
<1>7. ASSUME NEW a \in Actor, LinkPut(a) PROVE LinkInv'
  BY <1>7, SMTT(20) DEF LinkPut
<1>8. ASSUME NEW a \in Actor, LinkAdd(a) PROVE LinkInv'
  BY <1>8, SMTT(20) DEF LinkAdd
<1>9. ASSUME NEW r \in Radio, Hear(r) PROVE LinkInv'
  BY <1>9, SMTT(20) DEF Hear
<1>10. ASSUME Dispatch PROVE LinkInv'
  BY <1>10, SMTT(20) DEF Dispatch
<1>11. ASSUME LocalLook PROVE LinkInv'
  BY <1>11, SMTT(20) DEF LocalLook
<1>12. ASSUME Register PROVE LinkInv'
  BY <1>12, SMTT(20) DEF Register
<1>13. ASSUME Snapshot PROVE LinkInv'
  BY <1>13, SMTT(20) DEF Snapshot
<1>14. ASSUME NEW r \in Radio, SeedNode(r) PROVE LinkInv'
  BY <1>14, SMTT(20) DEF SeedNode
<1>15. ASSUME SeedLinks PROVE LinkInv'
  BY <1>15, SMTT(20) DEF SeedLinks
<1>16. ASSUME NEW r \in Radio, SeedLink(r) PROVE LinkInv'
  BY <1>16, SMTT(20) DEF SeedLink
<1>17. ASSUME SeedEnd PROVE LinkInv'
  BY <1>17, SMTT(20) DEF SeedEnd
<1>18. ASSUME NEW n \in NodeId, CreateNode(n) PROVE LinkInv'
  BY <1>18, SMTT(20) DEF CreateNode
<1>19. ASSUME NEW n \in NodeId, PatchGet(n) PROVE LinkInv'
  BY <1>19, SMTT(20) DEF PatchGet
<1>20. ASSUME PatchPut PROVE LinkInv'
  BY <1>20, SMTT(20) DEF PatchPut
<1>21. ASSUME NEW n \in NodeId, RemoveNode(n) PROVE LinkInv'
  BY <1>21, SMTT(20) DEF RemoveNode
<1>22. ASSUME RemoveScan PROVE LinkInv'
  BY <1>22, SMTT(20) DEF RemoveScan
<1>23. ASSUME RemoveScanEnd PROVE LinkInv'
  BY <1>23, SMTT(20) DEF RemoveScanEnd
<1>24. ASSUME NEW t \in LinkId, RemoveNextLink(t) PROVE LinkInv'
  BY <1>24, SMTT(20) DEF RemoveNextLink
<1>25. ASSUME RemoveEnd PROVE LinkInv'
  BY <1>25, SMTT(20) DEF RemoveEnd
<1>26. ASSUME NEW t \in LinkId, RemoveThread(t) PROVE LinkInv'
  BY <1>26, SMTT(20) DEF RemoveThread
<1>27. ASSUME Merge PROVE LinkInv'
  BY <1>27, SMTT(20) DEF Merge
<1>28. ASSUME NEW r \in Radio, MergeCopy(r) PROVE LinkInv'
  BY <1>28, SMTT(20) DEF MergeCopy
<1>29. ASSUME MergeNodesEnd PROVE LinkInv'
  BY <1>29, SMTT(20) DEF MergeNodesEnd, CopyInv, Copied, NodesResized
<1>30. ASSUME MergeLinks PROVE LinkInv'
  BY <1>30, SMTT(20) DEF MergeLinks
<1>31. ASSUME MergeLinksEnd PROVE LinkInv'
  BY <1>31, SMTT(20) DEF MergeLinksEnd
<1>32. ASSUME NEW bs \in SUBSET Batman, NEW ts \in SUBSET bs, MergeAdd(bs, ts) PROVE LinkInv'
  BY <1>32, SMTT(20) DEF MergeAdd
<1>33. ASSUME MergeRaises PROVE LinkInv'
  BY <1>33, SMTT(20) DEF MergeRaises
<1>34. CASE UNCHANGED vars
  BY <1>34, SMTT(20) DEF vars
<1> QED
  BY <1>1, <1>2, <1>3, <1>4, <1>5, <1>6, <1>7, <1>8, <1>9, <1>10, <1>11, <1>12,
     <1>13, <1>14, <1>15, <1>16, <1>17, <1>18, <1>19, <1>20, <1>21, <1>22,
     <1>23, <1>24, <1>25, <1>26, <1>27, <1>28, <1>29, <1>30, <1>31, <1>32,
     <1>33, <1>34
    DEF Next, Serial, Startup, Rest, Monitor, Sync

Inv == TypeInv /\ HeardInv /\ CopyInv /\ LinkInv

\* What has been read from the source at import is no radio, so nothing is missing.
LEMMA Start == Init => Inv
<1> SUFFICES ASSUME Init PROVE Inv
  OBVIOUS
<1>1. TypeInv
  <2>1. pc \in [Actor -> Steps] /\ pc["serial"] = "idle" /\ pc["loop"] = "boot"
    BY DEF Init, Actor, Steps
  <2>2. nodes \in [NodeId -> Version \cup {Absent}] /\ threads \subseteq LinkId
    BY ReportsAssumption DEF Init, NodeId, LinkId, Version
  <2>3. 0 \in Version
    BY ReportsAssumption DEF Version
  <2>4. /\ heard \in [Radio -> Version] /\ reports \in Version
        /\ radio \in [Actor -> Radio] /\ version \in [Actor -> Version]
        /\ snapshot \in [Radio -> Version] /\ scanned \in [Radio -> Version \cup {Absent}]
    BY <2>3, LocalAssumption DEF Init
  <2>5. registered \in BOOLEAN /\ size \in Nat /\ target \in NodeId
    BY LocalAssumption DEF Init, NodeId
  <2>6. todo \subseteq NodeId /\ deleted \subseteq Radio /\ strays \subseteq Remote
    BY DEF Init
  <2>7. TypeOK
    BY <2>1, <2>2, <2>4, <2>5, <2>6 DEF TypeOK
  <2> QED
    BY <2>1, <2>7 DEF Init, TypeInv, LinksRemote, LinkPhase, NodePhase, Actor
<1>2. HeardInv
  BY DEF Init, HeardInv, StartPhase, LinkPhase, NodePhase, Actor
<1>3. CopyInv
  BY DEF Init, CopyInv
<1>4. LinkInv
  BY IdsAssumption DEF Init, LinkInv, Remote
<1> QED
  BY <1>1, <1>2, <1>3, <1>4 DEF Inv

\* The four parts together are inductive.  HeardInv needs CopyInv, for a merge that
\* ends must not drop a radio; LinkInv needs it, for its link would dangle.
THEOREM Safe == Spec => []Inv
<1>1. Inv /\ [Next]_vars => Inv'
  BY TypeStep, HeardStep, CopyStep, LinkStep DEF Inv
<1> QED
  BY Start, <1>1, PTL DEF Spec

\* The state has the types the code gives it: the sync code handles only
\* radios, the loop visits only what is in the dictionary it began with.
THEOREM TypeCorrect == Spec => []TypeOK
<1>1. Inv => TypeOK
  BY DEF Inv, TypeInv
<1> QED
  BY Safe, <1>1, PTL

\* No radio that was heard is missing after the seeding, for any set of radios
\* and any number of reports: who finds the radio absent adds it, and a merge
\* that could lose what the serial thread adds raises instead.
THEOREM NoRadioLost == Spec => []KnownRadiosListed
<1>1. Inv => KnownRadiosListed
  <2> SUFFICES ASSUME HeardInv, NEW r \in Radio, ~ Starting, heard[r] # 0,
                      ~ InCallback(r), r \notin deleted
               PROVE  r \in Listed
    BY DEF Inv, KnownRadiosListed
  <2>1. ~ Awaited(r)
    BY DEF Awaited, Starting, NodePhase
  <2> QED
    BY <2>1 DEF HeardInv, Known
<1> QED
  BY Safe, <1>1, PTL

\* A link of a radio without its two nodes is being removed, or was put or left
\* there in one of the two places where a callback meets a removal.
THEOREM DanglingExplained == Spec => []DanglingOnlyByRace
<1>1. Inv => DanglingOnlyByRace
  BY DEF Inv, LinkInv, Marked, DanglingOnlyByRace
<1> QED
  BY Safe, <1>1, PTL
=============================================================================
