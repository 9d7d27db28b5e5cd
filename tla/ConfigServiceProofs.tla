------------------------- MODULE ConfigServiceProofs -------------------------
(***************************************************************************)
(* Proofs about the configuration service, for every number of threads,    *)
(* settings and secrets.                                                   *)
(*                                                                         *)
(* OneSecret: the argument is the lock.  The one thread that creates the   *)
(* secret holds it, nobody has a secret while it does so, and a secret in  *)
(* the cache is never replaced.                                            *)
(*                                                                         *)
(* AlwaysWhole, AlwaysOnDisk: the argument is the name.  A saver that is   *)
(* alone writes into a truncated file that is not the configuration, and   *)
(* renames it when it holds the data it dumped.                            *)
(***************************************************************************)
EXTENDS ConfigService, FiniteSetTheorems, TLAPS

Typed ==
  /\ mem \in Config
  /\ doing \in [Thread -> Op]
  /\ data \in [Thread -> Config]

\* The secret is created under the lock, by at most one thread, and only
\* while there is none.
Guarded ==
  /\ \A t \in Thread :
       doing[t] = "secret" => lock = t /\ cache = 0 /\ data[t].secret # 0
  /\ issued # {} => issued = {cache} /\ cache # 0

IInv == Typed /\ Guarded

\* What is loaded from the file is a configuration, whatever the file holds.
LEMMA LoadedType == Loaded \in Config
<1>1. Defaults \in Config
  BY SettingAssumption DEF Defaults, Config
<1>2. QED
  BY <1>1 DEF Loaded, Load

\* The start of a process establishes the invariant.
LEMMA InitOK == Init => IInv
<1>1. Defaults \in Config
  BY SettingAssumption DEF Defaults, Config
<1>2. QED
  BY <1>1 DEF Init, IInv, Typed, Guarded, Op

\* A thread that stops saving gives up nothing but its own operation.
LEMMA EndSaveOK ==
  ASSUME Typed, NEW t \in Thread, EndSave(t), mem' \in Config
  PROVE  /\ Typed'
         /\ doing'[t] = "none"
         /\ \A u \in Thread \ {t} : doing'[u] = doing[u] /\ data'[u] = data[u]
<1>1. Defaults \in Config
  BY SettingAssumption DEF Defaults, Config
<1>2. QED
  BY <1>1 DEF Typed, EndSave, Op

\* A thread that begins to save changes no other thread's operation.
LEMMA StartSaveOK ==
  ASSUME Typed, NEW t \in Thread, NEW op \in Op, NEW c \in Config,
         StartSave(t, op, c), mem' \in Config
  PROVE  /\ Typed'
         /\ doing'[t] = op /\ data'[t] = c
         /\ \A u \in Thread \ {t} : doing'[u] = doing[u] /\ data'[u] = data[u]
BY DEF Typed, StartSave

\* A failed save releases the lock and leaves cache and tokens alone.
LEMMA FailsOK ==
  ASSUME IInv, NEW t \in Thread, Fails(t)
  PROVE  IInv'
<1>1. /\ Typed'
      /\ doing'[t] = "none"
      /\ \A u \in Thread \ {t} : doing'[u] = doing[u] /\ data'[u] = data[u]
  BY EndSaveOK DEF IInv, Fails, Typed
<1>2. \A u \in Thread \ {t} : lock = u => lock' = u
  BY DEF Fails, Unlock
<1>3. UNCHANGED <<cache, issued>>
  BY DEF Fails
<1>4. QED
  BY <1>1, <1>2, <1>3 DEF IInv, Guarded

\* The creator of the secret caches it while the cache is empty and no token
\* has been minted; the end of any other save touches neither.
LEMMA RenameOK ==
  ASSUME IInv, NEW t \in Thread, Rename(t)
  PROVE  IInv'
<1>1. CASE doing[t] = "secret"
  <2>1. EndSave(t) /\ UseSecret(t, data[t].secret) /\ UNCHANGED mem /\ Unlock(t)
    BY <1>1 DEF Rename
  <2>2. /\ Typed'
        /\ doing'[t] = "none"
        /\ \A u \in Thread \ {t} : doing'[u] = doing[u] /\ data'[u] = data[u]
    BY <2>1, EndSaveOK DEF IInv, Typed
  <2>3. /\ cache = 0 /\ data[t].secret # 0 /\ issued = {}
        /\ \A u \in Thread \ {t} : doing[u] # "secret"
    BY <1>1 DEF IInv, Guarded
  <2>4. /\ cache' = data[t].secret
        /\ issued' = {} \/ issued' = {data[t].secret}
    BY <2>1, <2>3 DEF UseSecret
  <2>5. QED
    BY <2>2, <2>3, <2>4 DEF IInv, Guarded
<1>2. CASE doing[t] = "boot"
  <2>1. /\ StartSave(t, "bootAp", mem')
        /\ mem' = [mem EXCEPT !.setting = AutoAp]
        /\ Unlock(t) /\ UNCHANGED <<cache, issued>>
    BY <1>2 DEF Rename
  <2>2. mem' \in Config
    BY <2>1, SettingAssumption DEF IInv, Typed, Config
  <2>3. /\ Typed'
        /\ doing'[t] = "bootAp"
        /\ \A u \in Thread \ {t} : doing'[u] = doing[u] /\ data'[u] = data[u]
    BY <2>1, <2>2, StartSaveOK DEF IInv, Op
  <2>4. \A u \in Thread \ {t} : lock = u => lock' = u
    BY <2>1 DEF Unlock
  <2>5. QED
    BY <2>1, <2>3, <2>4 DEF IInv, Guarded
<1>3. CASE doing[t] \notin {"secret", "boot"}
  <2>1. EndSave(t) /\ Unlock(t) /\ UNCHANGED <<mem, cache, issued>>
    BY <1>3 DEF Rename
  <2>2. /\ Typed'
        /\ doing'[t] = "none"
        /\ \A u \in Thread \ {t} : doing'[u] = doing[u] /\ data'[u] = data[u]
    BY <2>1, EndSaveOK DEF IInv, Typed
  <2>3. \A u \in Thread \ {t} : lock = u => lock' = u
    BY <2>1 DEF Unlock
  <2>4. QED
    BY <2>1, <2>2, <2>3 DEF IInv, Guarded
<1>4. QED
  BY <1>1, <1>2, <1>3

\* A REST call that saves is no creation of the secret.
LEMMA LoopSaveOK ==
  ASSUME IInv, NEW op \in {"patch", "defaults"}, StartSave(Loop, op, mem'),
         mem' \in Config, UNCHANGED <<cache, lock, issued>>
  PROVE  IInv'
<1>1. Loop \in Thread /\ op \in Op /\ op # "secret"
  BY DEF Thread, Op
<1>2. /\ Typed'
      /\ doing'[Loop] = op
      /\ \A u \in Thread \ {Loop} : doing'[u] = doing[u] /\ data'[u] = data[u]
  BY <1>1, StartSaveOK DEF IInv
<1>3. QED
  BY <1>1, <1>2 DEF IInv, Guarded

\* The creation begins with a free lock, so no other thread creates one.
LEMMA CreateSecretOK ==
  ASSUME IInv, NEW t \in Thread, CreateSecret(t)
  PROVE  IInv'
<1>1. PICK s \in Secret \ InUse : StartSave(t, "secret", [Loaded EXCEPT !.secret = s])
  BY DEF CreateSecret
<1> DEFINE c == [Loaded EXCEPT !.secret = s]
<1>2. c \in Config /\ c.secret # 0
  <2>1. s # 0
    BY SecretAssumption
  <2>2. QED
    BY <2>1, LoadedType DEF Config
<1>3. mem' \in Config /\ "secret" \in Op
  BY DEF CreateSecret, IInv, Typed, Op
<1> HIDE DEF c
<1>4. /\ Typed'
      /\ data'[t] = c
      /\ \A u \in Thread \ {t} : doing'[u] = doing[u] /\ data'[u] = data[u]
  <2>1. StartSave(t, "secret", c)
    BY <1>1 DEF c
  <2>2. QED
    BY <1>2, <1>3, <2>1, StartSaveOK DEF IInv
<1>5. \A u \in Thread : doing[u] # "secret"
  <2>1. lock = Nobody
    BY DEF CreateSecret, Unlocked
  <2>2. Nobody \notin Thread
    BY ThreadAssumption DEF Thread, Loop, Nobody
  <2>3. QED
    BY <2>1, <2>2 DEF IInv, Guarded
<1>6. lock' = t /\ cache = 0 /\ UNCHANGED <<cache, issued>>
  BY DEF CreateSecret
<1>7. QED
  BY <1>2, <1>4, <1>5, <1>6 DEF IInv, Guarded

\* The invariant is inductive.
LEMMA NextOK == IInv /\ [Next]_vars => IInv'
<1> SUFFICES ASSUME IInv, [Next]_vars
             PROVE  IInv'
  OBVIOUS
<1>1. ASSUME NEW t \in Thread, OpenTmp(t) \/ WriteTmp(t)
      PROVE  IInv'
  BY <1>1 DEF OpenTmp, WriteTmp, IInv, Typed, Guarded
<1>2. ASSUME NEW t \in Thread, Rename(t)
      PROVE  IInv'
  BY <1>2, RenameOK
<1>3. ASSUME NEW t \in Thread, OpenFails(t) \/ WriteFails(t)
      PROVE  IInv'
  BY <1>3, FailsOK DEF OpenFails, WriteFails
<1>4. ASSUME NEW t \in Thread, ReadSecret(t)
      PROVE  IInv'
  <2>1. /\ cache = 0 /\ lock = Nobody /\ cache' = Loaded.secret
        /\ Loaded.secret # 0
        /\ issued' = issued \/ issued' = issued \cup {Loaded.secret}
        /\ UNCHANGED <<mem, lock, doing, data>>
    BY <1>4 DEF ReadSecret, Unlocked, UseSecret
  <2>2. Nobody \notin Thread
    BY ThreadAssumption DEF Thread, Loop, Nobody
  <2>3. issued = {} /\ \A u \in Thread : doing[u] # "secret"
    BY <2>1, <2>2 DEF IInv, Guarded
  <2>4. QED
    BY <2>1, <2>3 DEF IInv, Typed, Guarded
<1>5. ASSUME NEW t \in Thread, CreateSecret(t)
      PROVE  IInv'
  BY <1>5, CreateSecretOK
<1>6. ASSUME NEW t \in Worker, Login(t)
      PROVE  IInv'
  <2>1. /\ cache # 0 /\ UNCHANGED <<cache, mem, lock, doing, data>>
        /\ issued' = issued \cup {cache}
    BY <1>6 DEF Login, UseSecret
  <2>2. QED
    BY <2>1 DEF IInv, Typed, Guarded
<1>7. ASSUME NEW s \in Setting, Patch(s)
      PROVE  IInv'
  <2>1. mem' \in Config
    BY <1>7 DEF Patch, IInv, Typed, Config
  <2>2. QED
    BY <1>7, <2>1, LoopSaveOK DEF Patch
<1>8. CASE SaveDefaults
  <2>1. mem' \in Config /\ StartSave(Loop, "defaults", mem')
    BY <1>8, SettingAssumption DEF SaveDefaults, Defaults, Config
  <2>2. QED
    BY <1>8, <2>1, LoopSaveOK DEF SaveDefaults
<1>9. CASE Restart
  <2>1. Defaults \in Config
    BY SettingAssumption DEF Defaults, Config
  <2>2. Typed'
    BY <1>9, <2>1, LoadedType DEF Restart, Typed, Op
  <2>3. issued' = {} /\ \A t \in Thread : doing'[t] # "secret"
    BY <1>9 DEF Restart
  <2>4. QED
    BY <2>2, <2>3 DEF IInv, Guarded
<1>10. CASE UNCHANGED vars
  BY <1>10 DEF vars, IInv, Typed, Guarded
<1>11. QED
  BY <1>1, <1>2, <1>3, <1>4, <1>5, <1>6, <1>7, <1>8, <1>9, <1>10
     DEF Next, SaveStep

\* All tokens of one process are signed with the secret in its cache: the
\* double check of _get_jwt_secret under its lock, for every number of threads
\* that need the secret first, failing saves and restarts included.
THEOREM OneSecret == Spec => []OneSecretPerProcess
<1>1. IInv => OneSecretPerProcess
  <2>1. Cardinality({}) = 0 /\ Cardinality({cache}) = 1
    BY FS_EmptySet, FS_Singleton
  <2>2. QED
    BY <2>1 DEF IInv, Guarded, OneSecretPerProcess
<1>2. QED
  BY <1>1, InitOK, NextOK, PTL DEF Spec

-----------------------------------------------------------------------------
(* Types.  What is not immediate is that there is always an unused inode.  *)

SaveTypes ==
  /\ doing \in [Thread -> Op]
  /\ stage \in [Thread -> Stage]
  /\ data \in [Thread -> Config]
  /\ fd \in [Thread -> {0} \cup Inode]
  /\ \A t \in Thread : fd[t] # 0 <=> stage[t] = "write"
  /\ overlap \in BOOLEAN

\* There are two names, and a thread that is about to open a file has none
\* open: the files in use are fewer than the inodes.
LEMMA UnusedLeft ==
  ASSUME TypeOK, NEW t \in Thread, fd[t] = 0
  PROVE  Unused # {}
<1> DEFINE Others == Thread \ {t}
           f == [u \in Others |-> fd[u]]
           Open == {fd[u] : u \in Others}
           Used == {config, tmp} \cup Open
<1>1. IsFiniteSet(Thread) /\ Cardinality(Thread) \in Nat
  <2>1. IsFiniteSet(Worker \cup {Loop})
    BY ThreadAssumption, FS_AddElement
  <2>2. Thread = Worker \cup {Loop}
    BY DEF Thread
  <2>3. QED
    BY <2>1, <2>2, FS_CardinalityType
<1>2. IsFiniteSet(Others) /\ Cardinality(Others) = Cardinality(Thread) - 1
  BY <1>1, FS_RemoveElement
<1>3. IsFiniteSet(Open) /\ Cardinality(Open) <= Cardinality(Others)
  <2>1. f \in Surjection(Others, Open)
    BY DEF Surjection
  <2>2. QED
    BY <1>2, <2>1, FS_Surjection
<1>4. IsFiniteSet({config, tmp}) /\ Cardinality({config, tmp}) <= 2
  <2>1. {config, tmp} = {config} \cup {tmp}
    OBVIOUS
  <2>2. IsFiniteSet({config}) /\ Cardinality({config}) = 1
    BY FS_Singleton
  <2>3. /\ IsFiniteSet({config} \cup {tmp})
        /\ Cardinality({config} \cup {tmp}) =
             IF tmp \in {config} THEN Cardinality({config})
                                 ELSE Cardinality({config}) + 1
    BY <2>2, FS_AddElement
  <2>4. QED
    BY <2>1, <2>2, <2>3
<1>5. /\ IsFiniteSet(Used)
      /\ Cardinality(Used) <= Cardinality(Thread) + 1
  <2>1. /\ IsFiniteSet(Used)
        /\ Cardinality(Used) = Cardinality({config, tmp}) + Cardinality(Open)
                                  - Cardinality({config, tmp} \cap Open)
    BY <1>3, <1>4, FS_Union
  <2>2. IsFiniteSet({config, tmp} \cap Open)
    BY <1>4, FS_Intersection
  <2>3. /\ Cardinality({config, tmp} \cap Open) \in Nat
        /\ Cardinality(Open) \in Nat /\ Cardinality({config, tmp}) \in Nat
    BY <1>3, <1>4, <2>2, FS_CardinalityType
  <2>4. QED
    BY <1>1, <1>2, <1>3, <1>4, <2>1, <2>3
<1>6. Cardinality(Inode) = Cardinality(Thread) + 2
  BY <1>1, FS_Interval DEF Inode
<1>7. SUFFICES ASSUME Unused = {}
               PROVE  FALSE
  OBVIOUS
<1>8. Inode \subseteq Used
  <2>1. 0 \notin Inode
    BY DEF Inode
  <2>2. QED
    BY <1>7, <2>1 DEF Unused
<1>9. Cardinality(Inode) <= Cardinality(Used)
  BY <1>5, <1>8, FS_Subset
<1>10. QED
  <2>1. Cardinality(Used) \in Nat
    BY <1>5, FS_CardinalityType
  <2>2. QED
    BY <1>1, <1>5, <1>6, <1>9, <2>1

\* Freeing an inode keeps the type of the files.
LEMMA FreedType ==
  ASSUME NEW c \in [Inode -> SUBSET Config]
  PROVE  Freed(c) \in [Inode -> SUBSET Config]
BY DEF Freed

\* Beginning and ending a save keep the types of its local state.
LEMMA StartSaveTypes ==
  ASSUME SaveTypes, NEW t \in Thread, NEW op \in Op, NEW c \in Config,
         StartSave(t, op, c)
  PROVE  SaveTypes'
<1>1. /\ overlap' \in BOOLEAN
      /\ doing' \in [Thread -> Op]
      /\ stage' \in [Thread -> Stage]
      /\ data' \in [Thread -> Config]
      /\ fd' \in [Thread -> {0} \cup Inode]
  BY DEF SaveTypes, StartSave, Stage
<1>2. \A u \in Thread : fd'[u] # 0 <=> stage'[u] = "write"
  BY DEF SaveTypes, StartSave
<1>3. QED
  BY <1>1, <1>2 DEF SaveTypes

LEMMA EndSaveTypes ==
  ASSUME SaveTypes, NEW t \in Thread, EndSave(t)
  PROVE  SaveTypes'
<1>1. Defaults \in Config
  BY SettingAssumption DEF Defaults, Config
<1>2. /\ overlap' \in BOOLEAN
      /\ doing' \in [Thread -> Op]
      /\ stage' \in [Thread -> Stage]
      /\ data' \in [Thread -> Config]
      /\ fd' \in [Thread -> {0} \cup Inode]
  BY <1>1 DEF SaveTypes, EndSave, Stage, Op
<1>3. \A u \in Thread : fd'[u] # 0 <=> stage'[u] = "write"
  BY DEF SaveTypes, EndSave
<1>4. QED
  BY <1>2, <1>3 DEF SaveTypes

\* Every step keeps the types; that a minted token has a secret needs the
\* invariant of the lock.
LEMMA TypeStep == TypeOK /\ IInv /\ [Next]_vars => TypeOK'
<1> SUFFICES ASSUME TypeOK, IInv, [Next]_vars
             PROVE  TypeOK'
  OBVIOUS
<1> DEFINE Rest == /\ {config, tmp} \subseteq {0} \cup Inode
                   /\ content \in [Inode -> SUBSET Config]
                   /\ mem \in Config
                   /\ cache \in {0} \cup Secret
                   /\ lock \in Thread \cup {Nobody}
                   /\ issued \subseteq Secret
                   /\ behind \in BOOLEAN
<1>1. SaveTypes /\ Rest
  BY DEF TypeOK, SaveTypes
<1>2. SUFFICES SaveTypes' /\ Rest'
  BY <1>2 DEF TypeOK, SaveTypes
<1> Defaults \in Config
  BY SettingAssumption DEF Defaults, Config
<1>3. ASSUME NEW t \in Thread, NEW s \in Secret, UseSecret(t, s)
      PROVE  cache' \in {0} \cup Secret /\ issued' \subseteq Secret
  BY <1>1, <1>3 DEF UseSecret
<1>4. ASSUME NEW t \in Thread, Unlock(t)
      PROVE  lock' \in Thread \cup {Nobody}
  BY <1>1, <1>4 DEF Unlock
<1>5. ASSUME NEW t \in Thread, OpenTmp(t)
      PROVE  SaveTypes' /\ Rest'
  <2> DEFINE i == IF tmp # 0 THEN tmp ELSE CHOOSE j \in Unused : TRUE
  <2>1. fd[t] = 0 /\ stage[t] = "open"
    BY <1>1, <1>5 DEF OpenTmp, SaveTypes
  <2>2. i \in Inode /\ i # 0
    BY <1>1, <2>1, UnusedLeft DEF Unused, Inode
  <2>3. /\ tmp' = i
        /\ content' = [content EXCEPT ![i] = {}]
        /\ fd' = [fd EXCEPT ![t] = i]
        /\ stage' = [stage EXCEPT ![t] = "write"]
        /\ UNCHANGED <<config, mem, cache, lock, doing, data, issued, behind, overlap>>
    BY <1>5 DEF OpenTmp, Truncated
  <2> HIDE DEF i
  <2>4. Rest'
    BY <1>1, <2>2, <2>3
  <2>5. /\ fd' \in [Thread -> {0} \cup Inode]
        /\ stage' \in [Thread -> Stage]
    BY <1>1, <2>2, <2>3 DEF SaveTypes, Stage
  <2>6. \A u \in Thread : fd'[u] # 0 <=> stage'[u] = "write"
    BY <1>1, <2>2, <2>3 DEF SaveTypes
  <2>7. QED
    BY <1>1, <2>3, <2>4, <2>5, <2>6 DEF SaveTypes
<1>6. ASSUME NEW t \in Thread, WriteTmp(t)
      PROVE  SaveTypes' /\ Rest'
  <2>1. fd[t] \in Inode
    BY <1>1, <1>6 DEF WriteTmp, SaveTypes
  <2>2. PICK left \in {{}, content[fd[t]]} :
          content' = Freed([content EXCEPT ![fd[t]] = left \cup {data[t]}])
    BY <1>6 DEF WriteTmp
  <2>3. [content EXCEPT ![fd[t]] = left \cup {data[t]}] \in [Inode -> SUBSET Config]
    BY <1>1, <2>1 DEF SaveTypes
  <2>4. content' \in [Inode -> SUBSET Config]
    BY <2>2, <2>3, FreedType
  <2>5. /\ fd' \in [Thread -> {0} \cup Inode]
        /\ stage' \in [Thread -> Stage]
        /\ \A u \in Thread : fd'[u] # 0 <=> stage'[u] = "write"
    BY <1>1, <1>6 DEF WriteTmp, SaveTypes, Stage
  <2>6. QED
    BY <1>1, <1>6, <2>4, <2>5 DEF WriteTmp, SaveTypes
<1>7. ASSUME NEW t \in Thread, Rename(t)
      PROVE  SaveTypes' /\ Rest'
  <2>1. content' \in [Inode -> SUBSET Config]
    BY <1>1, <1>7, FreedType DEF Rename
  <2>2. cache' \in {0} \cup Secret /\ issued' \subseteq Secret
    <3>1. CASE doing[t] = "secret"
      <4>1. data[t].secret \in Secret
        BY <1>1, <3>1 DEF SaveTypes, Config, IInv, Guarded
      <4>2. QED
        BY <1>3, <1>7, <3>1, <4>1 DEF Rename
    <3>2. CASE doing[t] # "secret"
      BY <1>1, <1>7, <3>2 DEF Rename
    <3>3. QED
      BY <3>1, <3>2
  <2>3. mem' \in Config /\ SaveTypes'
    <3>1. CASE doing[t] = "boot"
      <4>1. mem' = [mem EXCEPT !.setting = AutoAp] /\ StartSave(t, "bootAp", mem')
        BY <1>7, <3>1 DEF Rename
      <4>2. mem' \in Config
        BY <1>1, <4>1, SettingAssumption DEF Config
      <4>3. QED
        BY <1>1, <4>1, <4>2, StartSaveTypes DEF Op
    <3>2. CASE doing[t] # "boot"
      BY <1>1, <1>7, <3>2, EndSaveTypes DEF Rename
    <3>3. QED
      BY <3>1, <3>2
  <2>4. QED
    BY <1>1, <1>4, <1>7, <2>1, <2>2, <2>3 DEF Rename
<1>8. ASSUME NEW t \in Thread, OpenFails(t) \/ WriteFails(t)
      PROVE  SaveTypes' /\ Rest'
  <2>1. Fails(t) /\ tmp' \in {0} \cup Inode
    BY <1>1, <1>8 DEF OpenFails, WriteFails
  <2>2. SaveTypes' /\ content' \in [Inode -> SUBSET Config]
    BY <1>1, <2>1, EndSaveTypes, FreedType DEF Fails
  <2>3. QED
    BY <1>1, <1>4, <2>1, <2>2 DEF Fails
<1>9. ASSUME NEW t \in Thread, ReadSecret(t)
      PROVE  SaveTypes' /\ Rest'
  <2>1. Loaded.secret \in Secret
    BY <1>9, LoadedType DEF ReadSecret, Config
  <2>2. QED
    BY <1>1, <1>3, <1>9, <2>1 DEF ReadSecret, SaveTypes
<1>10. ASSUME NEW t \in Thread, CreateSecret(t)
       PROVE  SaveTypes' /\ Rest'
  <2>1. PICK s \in Secret \ InUse : StartSave(t, "secret", [Loaded EXCEPT !.secret = s])
    BY <1>10 DEF CreateSecret
  <2> DEFINE c == [Loaded EXCEPT !.secret = s]
  <2>2. c \in Config
    BY LoadedType DEF Config
  <2>3. StartSave(t, "secret", c)
    BY <2>1
  <2> HIDE DEF c
  <2>4. SaveTypes'
    BY <1>1, <2>2, <2>3, StartSaveTypes DEF Op
  <2>5. QED
    BY <1>1, <1>10, <2>4 DEF CreateSecret
<1>11. ASSUME NEW t \in Worker, Login(t)
       PROVE  SaveTypes' /\ Rest'
  <2>1. cache \in Secret /\ t \in Thread
    BY <1>1, <1>11 DEF Login, Thread
  <2>2. QED
    BY <1>1, <1>3, <1>11, <2>1 DEF Login, SaveTypes
<1>12. ASSUME NEW s \in Setting, Patch(s)
       PROVE  SaveTypes' /\ Rest'
  <2>1. mem' \in Config
    BY <1>1, <1>12 DEF Patch, Config
  <2>2. SaveTypes'
    BY <1>1, <1>12, <2>1, StartSaveTypes DEF Patch, Op, Thread
  <2>3. QED
    BY <1>1, <1>12, <2>1, <2>2 DEF Patch
<1>13. CASE SaveDefaults
  <2>1. SaveTypes'
    BY <1>1, <1>13, StartSaveTypes DEF SaveDefaults, Op, Thread
  <2>2. QED
    BY <1>1, <1>13, <2>1 DEF SaveDefaults
<1>14. CASE Restart
  <2>1. content' \in [Inode -> SUBSET Config]
    BY <1>1, <1>14, FreedType DEF Restart
  <2>2. SaveTypes'
    BY <1>1, <1>14 DEF Restart, SaveTypes, Op, Stage
  <2>3. QED
    BY <1>1, <1>14, <2>1, <2>2, LoadedType DEF Restart
<1>15. CASE UNCHANGED vars
  BY <1>1, <1>15 DEF vars, SaveTypes
<1>16. QED
  BY <1>5, <1>6, <1>7, <1>8, <1>9, <1>10, <1>11, <1>12, <1>13, <1>14, <1>15
     DEF Next, SaveStep

\* Every variable keeps its type and no path out of a save leaves the file
\* open; the model's inodes never run out, whatever the number of threads.
THEOREM TypeCorrect == Spec => []TypeOK
<1>1. Init => TypeOK
  <2>1. Defaults \in Config
    BY SettingAssumption DEF Defaults, Config
  <2>2. QED
    BY <2>1 DEF Init, TypeOK, Op, Stage, Inode
<1>2. QED
  BY <1>1, InitOK, NextOK, TypeStep, PTL DEF Spec

-----------------------------------------------------------------------------
(* The file, as long as no two savers overlap.                             *)

\* One thread saves at a time.
Alone == \A t, u \in Thread : doing[t] # "none" /\ doing[u] # "none" => t = u

\* The temporary file is not the configuration, which is whole.
Whole ==
  config # 0 => config # tmp /\ \E c \in Config : content[config] = {c}

\* The saver's file, and what it is about to put into it: a new secret with
\* the setting on disk, or what config_svc has in memory.
InSave(t) ==
  /\ doing[t] = "none" => stage[t] = "idle"
  /\ stage[t] = "write" => fd[t] = tmp /\ content[tmp] = {}
  /\ stage[t] = "rename" => tmp # 0 /\ content[tmp] = {data[t]}
  /\ doing[t] = "secret" => data[t].setting = Loaded.setting
  /\ doing[t] \notin {"none", "secret"} =>
       t = Loop /\ data[t].setting = mem.setting

InStep ==
  ~behind /\ doing[Loop] \in {"none", "secret"} => Loaded.setting = mem.setting

DiskInv == ~overlap => Alone /\ Whole /\ InStep /\ \A t \in Thread : InSave(t)

\* A whole file loads as what was written into it.
LEMMA LoadWhole ==
  ASSUME NEW name, NEW files, NEW c \in Config, name # 0, files[name] = {c}
  PROVE  Load(name, files) = c
BY DEF Load

\* A step that leaves the configuration's inode alone changes nothing for
\* those who load it.
LEMMA FileKept ==
  ASSUME config' = config, config # 0 => content'[config] = content[config]
  PROVE  Loaded' = Loaded
<1>1. CASE config = 0
  BY <1>1 DEF Loaded, Load
<1>2. CASE config # 0
  BY <1>2 DEF Loaded, Load
<1>3. QED
  BY <1>1, <1>2

\* A name keeps its inode from being freed.
LEMMA NamedKept ==
  ASSUME NEW c, content' = Freed(c), NEW i \in Inode, i = config' \/ i = tmp'
  PROVE  content'[i] = c[i]
BY DEF Freed

\* Opening truncates the temporary file, never the configuration.
LEMMA OpenTmpDisk ==
  ASSUME TypeOK, DiskInv, NEW t \in Thread, OpenTmp(t)
  PROVE  DiskInv'
<1> SUFFICES ASSUME ~overlap'
             PROVE  (Alone /\ Whole /\ InStep /\ \A u \in Thread : InSave(u))'
  BY DEF DiskInv
<1>1. Alone /\ Whole /\ InStep /\ \A u \in Thread : InSave(u)
  BY DEF DiskInv, OpenTmp
<1> DEFINE i == IF tmp # 0 THEN tmp ELSE CHOOSE j \in Unused : TRUE
<1>2. i \in Inode /\ i # config
  <2>1. fd[t] = 0
    BY DEF OpenTmp, TypeOK
  <2>2. QED
    BY <1>1, <2>1, UnusedLeft DEF Unused, Inode, Whole, TypeOK
<1>3. /\ tmp' = i /\ content' = [content EXCEPT ![i] = {}]
      /\ fd' = [fd EXCEPT ![t] = i] /\ stage' = [stage EXCEPT ![t] = "write"]
      /\ stage[t] = "open"
      /\ UNCHANGED <<config, mem, doing, data, behind>>
  BY DEF OpenTmp, Truncated
<1> HIDE DEF i
<1>4. config # 0 => content'[config] = content[config]
  BY <1>2, <1>3 DEF TypeOK
<1>5. Loaded' = Loaded
  BY <1>3, <1>4, FileKept
<1>6. Alone' /\ Whole' /\ InStep'
  BY <1>1, <1>2, <1>3, <1>4, <1>5 DEF Alone, Whole, InStep
<1>7. ASSUME NEW u \in Thread
      PROVE  InSave(u)'
  <2>1. CASE u = t
    BY <1>1, <1>2, <1>3, <1>5, <2>1 DEF InSave, TypeOK
  <2>2. CASE u # t
    <3>1. doing[u] = "none" /\ stage[u] = "idle"
      BY <1>1, <1>3, <2>2 DEF Alone, InSave
    <3>2. QED
      BY <1>3, <2>2, <3>1 DEF InSave, TypeOK
  <2>3. QED
    BY <2>1, <2>2
<1>8. QED
  BY <1>6, <1>7

\* A saver that is alone finds its file empty and leaves it whole.
LEMMA WriteTmpDisk ==
  ASSUME TypeOK, DiskInv, NEW t \in Thread, WriteTmp(t)
  PROVE  DiskInv'
<1> SUFFICES ASSUME ~overlap'
             PROVE  (Alone /\ Whole /\ InStep /\ \A u \in Thread : InSave(u))'
  BY DEF DiskInv
<1>1. Alone /\ Whole /\ InStep /\ \A u \in Thread : InSave(u)
  BY DEF DiskInv, WriteTmp
<1>2. /\ stage[t] = "write" /\ stage' = [stage EXCEPT ![t] = "rename"]
      /\ fd' = [fd EXCEPT ![t] = 0]
      /\ UNCHANGED <<config, tmp, mem, doing, data, behind>>
  BY DEF WriteTmp
<1>3. fd[t] = tmp /\ content[tmp] = {} /\ tmp \in Inode /\ tmp # 0
  <2>1. fd[t] = tmp /\ content[tmp] = {} /\ fd[t] # 0
    BY <1>1, <1>2 DEF InSave, TypeOK
  <2>2. QED
    BY <2>1 DEF TypeOK
<1> DEFINE c == [content EXCEPT ![tmp] = {data[t]}]
<1>4. content' = Freed(c)
  <2>1. PICK left \in {{}, content[fd[t]]} :
          content' = Freed([content EXCEPT ![fd[t]] = left \cup {data[t]}])
    BY DEF WriteTmp
  <2>2. left = {}
    BY <1>3, <2>1
  <2>3. left \cup {data[t]} = {data[t]}
    BY <2>2
  <2>4. QED
    BY <1>3, <2>1, <2>3
<1>5. /\ c[tmp] = {data[t]}
      /\ config # 0 => c[config] = content[config]
  BY <1>1, <1>3 DEF TypeOK, Whole
<1> HIDE DEF c
<1>6. content'[tmp] = {data[t]}
  BY <1>2, <1>3, <1>4, <1>5, NamedKept
<1>7. config # 0 => content'[config] = content[config]
  BY <1>2, <1>4, <1>5, NamedKept DEF TypeOK
<1>8. Loaded' = Loaded
  BY <1>2, <1>7, FileKept
<1>9. Alone' /\ Whole' /\ InStep'
  BY <1>1, <1>2, <1>7, <1>8 DEF Alone, Whole, InStep
<1>10. ASSUME NEW u \in Thread
       PROVE  InSave(u)'
  <2>1. CASE u = t
    BY <1>1, <1>2, <1>3, <1>6, <1>8, <2>1 DEF InSave, TypeOK
  <2>2. CASE u # t
    <3>1. doing[u] = "none" /\ stage[u] = "idle"
      BY <1>1, <1>2, <2>2 DEF Alone, InSave
    <3>2. QED
      BY <1>2, <2>2, <3>1 DEF InSave, TypeOK
  <2>3. QED
    BY <2>1, <2>2
<1>11. QED
  BY <1>9, <1>10

\* The rename puts a whole file, with the saver's data, in place.
LEMMA RenameDisk ==
  ASSUME TypeOK, DiskInv, NEW t \in Thread, Rename(t)
  PROVE  DiskInv'
<1> SUFFICES ASSUME ~overlap'
             PROVE  (Alone /\ Whole /\ InStep /\ \A u \in Thread : InSave(u))'
  BY DEF DiskInv
<1>1. Alone /\ Whole /\ InStep /\ \A u \in Thread : InSave(u)
  BY DEF DiskInv, Rename, StartSave, EndSave
<1>2. /\ stage[t] = "rename" /\ tmp # 0 /\ config' = tmp /\ tmp' = 0
      /\ content[tmp] = {data[t]}
      /\ behind' = (behind /\ doing[t] = "secret")
      /\ content' = Freed(content)
  BY <1>1 DEF Rename, InSave
<1>3. config' \in Inode /\ content'[config'] = {data[t]}
  BY <1>2, NamedKept DEF TypeOK
<1>4. data[t] \in Config /\ Loaded' = data[t]
  <2>1. data[t] \in Config
    BY DEF TypeOK
  <2>2. Load(config', content') = data[t]
    BY <1>2, <1>3, <2>1, LoadWhole
  <2>3. QED
    BY <2>1, <2>2 DEF Loaded
<1>5. Whole'
  BY <1>2, <1>3, <1>4 DEF Whole
<1>6. /\ doing[t] # "none"
      /\ \A u \in Thread \ {t} : doing[u] = "none" /\ stage[u] = "idle"
  BY <1>1, <1>2 DEF Alone, InSave
<1>7. CASE doing[t] = "boot"
  <2>1. /\ doing' = [doing EXCEPT ![t] = "bootAp"]
        /\ stage' = [stage EXCEPT ![t] = "open"]
        /\ data' = [data EXCEPT ![t] = mem']
    BY <1>7 DEF Rename, StartSave
  <2>2. t = Loop
    BY <1>1, <1>7 DEF InSave
  <2>3. /\ doing'[t] = "bootAp" /\ stage'[t] = "open" /\ data'[t] = mem'
        /\ \A u \in Thread \ {t} : doing'[u] = "none" /\ stage'[u] = "idle"
    BY <1>6, <2>1 DEF TypeOK
  <2>4. Alone' /\ InStep'
    BY <2>2, <2>3 DEF Alone, InStep
  <2>5. ASSUME NEW u \in Thread
        PROVE  InSave(u)'
    BY <2>2, <2>3 DEF InSave
  <2>6. QED
    BY <1>5, <2>4, <2>5
<1>8. CASE doing[t] # "boot"
  <2>1. /\ doing' = [doing EXCEPT ![t] = "none"]
        /\ stage' = [stage EXCEPT ![t] = "idle"]
        /\ mem' = mem
    BY <1>8 DEF Rename, EndSave
  <2>2. \A u \in Thread : doing'[u] = "none" /\ stage'[u] = "idle"
    BY <1>6, <2>1 DEF TypeOK
  <2>3. Alone' /\ \A u \in Thread : InSave(u)'
    BY <2>2 DEF Alone, InSave
  <2>4. ASSUME ~behind'
        PROVE  Loaded'.setting = mem'.setting
    <3>1. CASE doing[t] = "secret"
      <4>1. data[t].setting = Loaded.setting /\ ~behind
        BY <1>1, <1>2, <2>4, <3>1 DEF InSave
      <4>2. doing[Loop] \in {"none", "secret"}
        BY <1>6, <3>1 DEF Thread
      <4>3. QED
        BY <1>1, <1>4, <2>1, <4>1, <4>2 DEF InStep
    <3>2. CASE doing[t] # "secret"
      BY <1>1, <1>4, <1>6, <2>1, <3>2 DEF InSave
    <3>3. QED
      BY <3>1, <3>2
  <2>5. QED
    BY <1>5, <2>3, <2>4 DEF InStep
<1>9. QED
  BY <1>7, <1>8

\* A failed save leaves the configuration alone; config_svc is behind.
LEMMA FailsDisk ==
  ASSUME TypeOK, DiskInv, NEW t \in Thread, stage[t] # "idle", Fails(t),
         tmp' \in {0, tmp}
  PROVE  DiskInv'
<1> SUFFICES ASSUME ~overlap'
             PROVE  (Alone /\ Whole /\ InStep /\ \A u \in Thread : InSave(u))'
  BY DEF DiskInv
<1>1. Alone /\ Whole /\ InStep /\ \A u \in Thread : InSave(u)
  BY DEF DiskInv, Fails, EndSave
<1>2. /\ doing' = [doing EXCEPT ![t] = "none"]
      /\ stage' = [stage EXCEPT ![t] = "idle"]
      /\ behind' = (behind \/ doing[t] # "secret")
      /\ content' = Freed(content)
      /\ UNCHANGED <<config, mem>>
  BY DEF Fails, EndSave
<1>3. \A u \in Thread \ {t} : doing[u] = "none" /\ stage[u] = "idle"
  BY <1>1 DEF Alone, InSave
<1>4. \A u \in Thread : doing'[u] = "none" /\ stage'[u] = "idle"
  BY <1>2, <1>3 DEF TypeOK
<1>5. config # 0 => content'[config] = content[config]
  BY <1>2, NamedKept DEF TypeOK
<1>6. Loaded' = Loaded
  BY <1>2, <1>5, FileKept
<1>7. QED
  <2>1. Alone' /\ \A u \in Thread : InSave(u)'
    BY <1>4 DEF Alone, InSave
  <2>2. InStep'
    <3>1. SUFFICES ASSUME ~behind'
                   PROVE  Loaded.setting = mem.setting
      BY <1>2, <1>6, <3>1 DEF InStep
    <3>2. ~behind /\ doing[t] = "secret"
      BY <1>2, <3>1 DEF TypeOK
    <3>3. doing[Loop] \in {"none", "secret"}
      BY <1>3, <3>2 DEF Thread
    <3>4. QED
      BY <1>1, <3>2, <3>3 DEF InStep
  <2>3. Whole'
    BY <1>1, <1>2, <1>5 DEF Whole
  <2>4. QED
    BY <2>1, <2>2, <2>3

\* An operation that begins to save finds all others idle, or overlaps.
LEMMA StartSaveDisk ==
  ASSUME TypeOK, DiskInv, NEW t \in Thread, Idle(t), NEW op \in Op \ {"none"},
         NEW c \in Config, StartSave(t, op, c),
         UNCHANGED <<config, tmp, content, behind>>,
         \/ op = "secret" /\ c.setting = Loaded.setting /\ UNCHANGED mem
         \/ op # "secret" /\ t = Loop /\ c.setting = mem'.setting
  PROVE  DiskInv'
<1> SUFFICES ASSUME ~overlap'
             PROVE  (Alone /\ Whole /\ InStep /\ \A u \in Thread : InSave(u))'
  BY DEF DiskInv
<1>1. Alone /\ Whole /\ InStep /\ \A u \in Thread : InSave(u)
  BY DEF DiskInv, StartSave
<1>2. \A u \in Thread : doing[u] = "none" /\ stage[u] = "idle"
  BY <1>1 DEF StartSave, Idle, InSave
<1>3. /\ doing'[t] = op /\ stage'[t] = "open" /\ data'[t] = c
      /\ \A u \in Thread \ {t} : doing'[u] = "none" /\ stage'[u] = "idle"
  BY <1>2 DEF StartSave, TypeOK
<1>4. Loaded' = Loaded
  BY FileKept
<1>5. Alone' /\ Whole'
  BY <1>1, <1>3 DEF Alone, Whole
<1>6. \A u \in Thread : InSave(u)'
  BY <1>3, <1>4 DEF InSave
<1>7. InStep'
  <2>1. CASE op = "secret"
    <3>1. doing[Loop] = "none" /\ UNCHANGED mem
      BY <1>2, <2>1 DEF Thread
    <3>2. QED
      BY <1>1, <1>4, <3>1 DEF InStep
  <2>2. CASE op # "secret"
    BY <1>3, <2>2 DEF InStep
  <2>3. QED
    BY <2>1, <2>2
<1>8. QED
  BY <1>5, <1>6, <1>7

\* A restart loads what is in the file.
LEMMA RestartDisk ==
  ASSUME TypeOK, DiskInv, Restart
  PROVE  DiskInv'
<1> SUFFICES ASSUME ~overlap'
             PROVE  (Alone /\ Whole /\ InStep /\ \A u \in Thread : InSave(u))'
  BY DEF DiskInv
<1>1. Whole
  BY DEF DiskInv, Restart
<1>2. /\ UNCHANGED <<config, tmp>> /\ content' = Freed(content)
      /\ mem' = Loaded /\ data' = [t \in Thread |-> Defaults]
  BY DEF Restart
<1>3. config # 0 => content'[config] = content[config]
  BY <1>2, NamedKept DEF TypeOK
<1>4. Loaded' = Loaded
  BY <1>2, <1>3, FileKept
<1>5. Whole'
  BY <1>1, <1>2, <1>3 DEF Whole
<1>6. \A t \in Thread :
        \/ doing'[t] = "none" /\ stage'[t] = "idle"
        \/ t = Loop /\ config = 0 /\ doing'[t] = "boot" /\ stage'[t] = "open"
  BY DEF Restart
<1>7. config = 0 => mem' = Defaults
  BY <1>2 DEF Loaded, Load
<1>8. \A t \in Thread : InSave(t)'
  BY <1>2, <1>6, <1>7 DEF InSave
<1>9. Alone' /\ InStep'
  BY <1>2, <1>4, <1>6 DEF Alone, InStep
<1>10. QED
  BY <1>5, <1>8, <1>9

\* Every step keeps the file whole and in step with the memory.
LEMMA DiskStep == TypeOK /\ DiskInv /\ [Next]_vars => DiskInv'
<1> SUFFICES ASSUME TypeOK, DiskInv, [Next]_vars
             PROVE  DiskInv'
  OBVIOUS
<1>1. ASSUME NEW t \in Thread, OpenFails(t) \/ WriteFails(t)
      PROVE  DiskInv'
  <2>1. Fails(t) /\ stage[t] # "idle" /\ tmp' \in {0, tmp}
    BY <1>1 DEF OpenFails, WriteFails
  <2>2. QED
    BY <2>1, FailsDisk
<1>2. ASSUME NEW t \in Thread, SaveStep(t)
      PROVE  DiskInv'
  BY <1>1, <1>2, OpenTmpDisk, WriteTmpDisk, RenameDisk DEF SaveStep
<1>3. ASSUME UNCHANGED <<config, tmp, content, mem, doing, stage, data, fd, behind, overlap>>
      PROVE  DiskInv'
  <2>1. Loaded' = Loaded
    BY <1>3, FileKept
  <2>2. QED
    BY <1>3, <2>1 DEF DiskInv, Alone, Whole, InStep, InSave
<1>4. ASSUME NEW t \in Thread, ReadSecret(t)
      PROVE  DiskInv'
  BY <1>3, <1>4 DEF ReadSecret
<1>5. ASSUME NEW t \in Worker, Login(t)
      PROVE  DiskInv'
  BY <1>3, <1>5 DEF Login
<1>6. ASSUME NEW t \in Thread, CreateSecret(t)
      PROVE  DiskInv'
  <2>1. PICK s \in Secret \ InUse : StartSave(t, "secret", [Loaded EXCEPT !.secret = s])
    BY <1>6 DEF CreateSecret
  <2> DEFINE c == [Loaded EXCEPT !.secret = s]
  <2>2. c \in Config /\ c.setting = Loaded.setting
    BY LoadedType DEF Config
  <2>3. StartSave(t, "secret", c)
    BY <2>1
  <2> HIDE DEF c
  <2>4. Idle(t) /\ UNCHANGED <<config, tmp, content, mem, behind>>
    BY <1>6 DEF CreateSecret
  <2>5. "secret" \in Op \ {"none"}
    BY DEF Op
  <2>6. QED
    BY <2>2, <2>3, <2>4, <2>5, StartSaveDisk
<1>7. ASSUME NEW s \in Setting, Patch(s)
      PROVE  DiskInv'
  <2>1. mem' \in Config
    BY <1>7 DEF Patch, TypeOK, Config
  <2>2. Loop \in Thread /\ "patch" \in Op \ {"none"}
    BY DEF Thread, Op
  <2>3. QED
    BY <1>7, <2>1, <2>2, StartSaveDisk DEF Patch
<1>8. CASE SaveDefaults
  <2>1. mem' \in Config /\ mem' = Defaults
    BY <1>8, SettingAssumption DEF SaveDefaults, Defaults, Config
  <2>2. Loop \in Thread /\ "defaults" \in Op \ {"none"}
    BY DEF Thread, Op
  <2>3. QED
    BY <1>8, <2>1, <2>2, StartSaveDisk DEF SaveDefaults
<1>9. CASE Restart
  BY <1>9, RestartDisk
<1>10. CASE UNCHANGED vars
  BY <1>3, <1>10 DEF vars
<1>11. QED
  BY <1>2, <1>4, <1>5, <1>6, <1>7, <1>8, <1>9, <1>10 DEF Next

\* Before the first boot memory and file agree on the defaults.
LEMMA InitDisk == Init => DiskInv
<1> SUFFICES ASSUME Init
             PROVE  DiskInv
  OBVIOUS
<1>1. Loaded = Defaults /\ mem = Defaults /\ config = 0
  BY DEF Init, Loaded, Load
<1>2. \A t \in Thread :
        \/ doing[t] = "none" /\ stage[t] = "idle"
        \/ t = Loop /\ doing[t] = "boot" /\ stage[t] = "open"
  BY DEF Init
<1>3. \A t \in Thread : data[t] = Defaults
  BY DEF Init
<1>4. QED
  BY <1>1, <1>2, <1>3 DEF DiskInv, Alone, Whole, InStep, InSave

\* Wherever the process dies and whichever system call fails, a reader finds
\* the configuration file whole, as long as savers have not overlapped.
THEOREM AlwaysWhole == Spec => []FileIsWhole
<1>1. DiskInv => FileIsWhole
  BY DEF DiskInv, Whole, FileIsWhole
<1>2. QED
  BY <1>1, InitDisk, DiskStep, TypeCorrect, PTL DEF Spec

\* Under the same condition config_svc and the file agree on every setting,
\* unless config_svc's last save failed.
THEOREM AlwaysOnDisk == Spec => []MemoryIsOnDisk
<1>1. DiskInv => MemoryIsOnDisk
  BY DEF DiskInv, InStep, MemoryIsOnDisk, Idle
<1>2. QED
  BY <1>1, InitDisk, DiskStep, TypeCorrect, PTL DEF Spec
=============================================================================
