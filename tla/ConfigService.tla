--------------------------- MODULE ConfigService ---------------------------
(***************************************************************************)
(* The configuration file and those who rewrite it                         *)
(* (backend/app/services/config_service.py).                               *)
(*                                                                         *)
(* Every ConfigService instance holds a copy of the whole file and saves   *)
(* the whole copy.  One instance, config_svc, lives as long as the process *)
(* and serves the REST calls, which run on the event loop.  The JWT secret *)
(* is created by another one, in whichever thread needs it first: the loop *)
(* to verify a token, or a worker of the thread pool that handles a login. *)
(*                                                                         *)
(* _save is three system calls: open with O_TRUNC, write, rename.  Between *)
(* them other threads run and the process may die.  All savers use the     *)
(* same temporary name, so files are modelled as inodes with names.        *)
(*                                                                         *)
(* A configuration is abstracted to the JWT secret and one setting that    *)
(* stands for all fields of which the REST calls change some.              *)
(***************************************************************************)
EXTENDS Naturals, FiniteSets

CONSTANTS
  Worker,    \* threads of the pool, which handle the logins
  Setting,   \* values of the other fields ...
  Default,   \* ... those of Myc3liumConfig()
  AutoAp,    \* ... and those the first boot gives a device with an adapter
  Secret     \* JWT secrets that can be generated; bounds their number

ASSUME SettingAssumption == {Default, AutoAp} \subseteq Setting
ASSUME SecretAssumption == Secret \subseteq Nat \ {0}

Loop == "loop"
Nobody == "nobody"
ASSUME ThreadAssumption == {Loop, Nobody} \cap Worker = {} /\ IsFiniteSet(Worker)

Thread == {Loop} \cup Worker

\* 0 is the empty secret of the defaults.
Config == [setting : Setting, secret : {0} \cup Secret]
Defaults == [setting |-> Default, secret |-> 0]

\* At most two names and one open file of each thread; 0 is no file.
Inode == 1 .. Cardinality(Thread) + 2

VARIABLES
  config,   \* inode named myc3lium.toml, or 0
  tmp,      \* inode named myc3lium.tmp, or 0
  content,  \* [Inode -> SUBSET Config]: {} empty, {c} whole, more: mixed up
  mem,      \* config_svc._config
  cache,    \* _jwt_secret_cache, 0 for None
  lock,     \* holder of _jwt_secret_lock, or Nobody
  doing,    \* [Thread -> Op]: the operation that saves
  stage,    \* [Thread -> Stage]: the next system call of its _save
  data,     \* [Thread -> Config]: what its _save writes
  fd,       \* [Thread -> inode it has open, or 0]
  issued,   \* history: secrets of the tokens minted since the start
  behind,   \* history: config_svc's last save failed
  overlap   \* history: two savers have overlapped

vars == <<config, tmp, content, mem, cache, lock, doing, stage, data, fd,
          issued, behind, overlap>>

Op == {"none", "boot", "bootAp", "patch", "defaults", "secret"}
Stage == {"idle", "open", "write", "rename"}

\* An open file is closed on every path out of the with statement.
TypeOK ==
  /\ {config, tmp} \subseteq {0} \cup Inode
  /\ content \in [Inode -> SUBSET Config]
  /\ mem \in Config
  /\ cache \in {0} \cup Secret
  /\ lock \in Thread \cup {Nobody}
  /\ doing \in [Thread -> Op]
  /\ stage \in [Thread -> Stage]
  /\ data \in [Thread -> Config]
  /\ fd \in [Thread -> {0} \cup Inode]
  /\ \A t \in Thread : fd[t] # 0 <=> stage[t] = "write"
  /\ issued \subseteq Secret
  /\ {behind, overlap} \subseteq BOOLEAN

-----------------------------------------------------------------------------
(* Loading and the three steps of _save.                                   *)

\* _load: a missing or invalid file, and an empty one, gives the defaults.
Load(name, files) ==
  IF name # 0 /\ \E c \in Config : files[name] = {c}
    THEN CHOOSE c \in Config : files[name] = {c}
    ELSE Defaults

Loaded == Load(config, content)

Idle(t) == doing[t] = "none"
Started == doing[Loop] \notin {"boot", "bootAp"}

\* The data are dumped before the file is opened.
StartSave(t, op, c) ==
  /\ doing' = [doing EXCEPT ![t] = op]
  /\ stage' = [stage EXCEPT ![t] = "open"]
  /\ data' = [data EXCEPT ![t] = c]
  /\ fd' = [fd EXCEPT ![t] = 0]
  /\ overlap' = (overlap \/ \E u \in Thread \ {t} : ~Idle(u))

\* An inode without a name that no thread has open is freed.
Freed(c) ==
  [i \in Inode |->
     IF i \in {config', tmp'} \cup {fd'[t] : t \in Thread} THEN c[i] ELSE {}]

\* Mutant: the file is not truncated.
KeepsContent(i) == content

Truncated(i) == [content EXCEPT ![i] = {}]

Unused == Inode \ ({config, tmp} \cup {fd[t] : t \in Thread})

OpenTmp(t) ==
  /\ stage[t] = "open"
  /\ LET i == IF tmp # 0 THEN tmp ELSE CHOOSE j \in Unused : TRUE
     IN  /\ tmp' = i
         /\ content' = Truncated(i)
         /\ fd' = [fd EXCEPT ![t] = i]
  /\ stage' = [stage EXCEPT ![t] = "write"]
  /\ UNCHANGED <<config, mem, cache, lock, doing, data, issued, behind, overlap>>

\* Written from offset 0: what another thread wrote into the file meanwhile
\* is covered, unless it was longer.
WriteTmp(t) ==
  /\ stage[t] = "write"
  /\ fd' = [fd EXCEPT ![t] = 0]
  /\ UNCHANGED <<config, tmp>>
  /\ \E left \in {{}, content[fd[t]]} :
        content' = Freed([content EXCEPT ![fd[t]] = left \cup {data[t]}])
  /\ stage' = [stage EXCEPT ![t] = "rename"]
  /\ UNCHANGED <<mem, cache, lock, doing, data, issued, behind, overlap>>

Unlock(t) == lock' = IF lock = t THEN Nobody ELSE lock

\* _get_jwt_secret and mint_token, when the secret is s.
UseSecret(t, s) ==
  /\ cache' = s
  /\ issued' = IF t \in Worker THEN issued \cup {s} ELSE issued

EndSave(t) ==
  /\ doing' = [doing EXCEPT ![t] = "none"]
  /\ stage' = [stage EXCEPT ![t] = "idle"]
  /\ data' = [data EXCEPT ![t] = Defaults]
  /\ fd' = [fd EXCEPT ![t] = 0]
  /\ UNCHANGED overlap

\* What follows a successful save: the first boot goes on with the access
\* point, the creator of the secret with using it.
Rename(t) ==
  /\ stage[t] = "rename"
  /\ tmp # 0
  /\ config' = tmp
  /\ tmp' = 0
  /\ Unlock(t)
  /\ behind' = (behind /\ doing[t] = "secret")
  /\ IF doing[t] = "secret" THEN UseSecret(t, data[t].secret)
                            ELSE UNCHANGED <<cache, issued>>
  /\ IF doing[t] = "boot"
       THEN /\ mem' = [mem EXCEPT !.setting = AutoAp]
            /\ StartSave(t, "bootAp", mem')
       ELSE /\ EndSave(t)
            /\ UNCHANGED mem
  /\ content' = Freed(content)

\* Mutants: the lock is only released on success; the file is not closed.
FailsLocked(t) ==
  /\ UNCHANGED <<lock, config, mem, cache, issued>>
  /\ EndSave(t)
  /\ content' = Freed(content)
  /\ behind' = (behind \/ doing[t] # "secret")
FailsOpen(t) ==
  /\ Unlock(t)
  /\ doing' = [doing EXCEPT ![t] = "none"]
  /\ stage' = [stage EXCEPT ![t] = "idle"]
  /\ behind' = (behind \/ doing[t] # "secret")
  /\ UNCHANGED <<config, mem, cache, issued, data, fd, overlap>>
  /\ content' = Freed(content)

\* The exception ends the request; config_svc keeps what it has in memory.
Fails(t) ==
  /\ Unlock(t)
  /\ EndSave(t)
  /\ behind' = (behind \/ doing[t] # "secret")
  /\ UNCHANGED <<config, mem, cache, issued>>
  /\ content' = Freed(content)

\* Opening fails outside the try block; after it, the temporary name is
\* unlinked, whichever thread's file it is.  A rename fails, too, when
\* another thread has taken the name away.
OpenFails(t) == stage[t] = "open" /\ UNCHANGED tmp /\ Fails(t)
WriteFails(t) == stage[t] \in {"write", "rename"} /\ tmp' = 0 /\ Fails(t)

SaveStep(t) ==
  OpenTmp(t) \/ WriteTmp(t) \/ Rename(t) \/ OpenFails(t) \/ WriteFails(t)

-----------------------------------------------------------------------------
(* The operations.                                                         *)

\* Mutant: the section is dumped before it is updated.
PatchDumpsFirst(s) ==
  /\ Idle(Loop)
  /\ mem' = [mem EXCEPT !.setting = s]
  /\ StartSave(Loop, "patch", mem)
  /\ UNCHANGED <<config, tmp, content, cache, lock, issued, behind>>

\* PATCH /api/config/{section}; the section in memory is replaced first.
Patch(s) ==
  /\ Idle(Loop)
  /\ mem' = [mem EXCEPT !.setting = s]
  /\ StartSave(Loop, "patch", mem')
  /\ UNCHANGED <<config, tmp, content, cache, lock, issued, behind>>

\* POST /api/config/save-defaults
SaveDefaults ==
  /\ Idle(Loop)
  /\ mem' = Defaults
  /\ StartSave(Loop, "defaults", Defaults)
  /\ UNCHANGED <<config, tmp, content, cache, lock, issued, behind>>

\* A token is minted with the cached secret.
Login(t) ==
  /\ Idle(t) /\ Started
  /\ cache # 0
  /\ UseSecret(t, cache)
  /\ UNCHANGED <<config, tmp, content, mem, lock, doing, stage, data, fd, behind, overlap>>

\* Mutant: no lock around reading, creating and caching the secret.
NeverLocked == TRUE

Unlocked == lock = Nobody

ReadSecret(t) ==
  /\ Idle(t) /\ Started
  /\ cache = 0 /\ Unlocked
  /\ Loaded.secret # 0
  /\ UseSecret(t, Loaded.secret)
  /\ UNCHANGED <<config, tmp, content, mem, lock, doing, stage, data, fd, behind, overlap>>

\* token_hex(32) returns no secret that is around already.
InUse ==
  {mem.secret} \cup issued \cup {data[t].secret : t \in Thread}
    \cup {c.secret : c \in UNION {content[i] : i \in Inode}}

CreateSecret(t) ==
  /\ Idle(t) /\ Started
  /\ cache = 0 /\ Unlocked
  /\ Loaded.secret = 0
  /\ lock' = t
  /\ \E s \in Secret \ InUse : StartSave(t, "secret", [Loaded EXCEPT !.secret = s])
  /\ UNCHANGED <<config, tmp, content, mem, cache, issued, behind>>

\* The process dies between any two system calls and is started again: the
\* names and their files stay.  Without a file, a USB adapter makes it the
\* first boot: the defaults are saved and then those of the access point.
Restart ==
  /\ mem' = Loaded
  /\ cache' = 0 /\ lock' = Nobody /\ issued' = {} /\ behind' = FALSE
  /\ \E firstBoot \in IF config = 0 THEN BOOLEAN ELSE {FALSE} :
        /\ doing' = [t \in Thread |-> IF firstBoot /\ t = Loop THEN "boot" ELSE "none"]
        /\ stage' = [t \in Thread |-> IF firstBoot /\ t = Loop THEN "open" ELSE "idle"]
  /\ data' = [t \in Thread |-> Defaults]
  /\ fd' = [t \in Thread |-> 0]
  /\ UNCHANGED <<config, tmp, overlap>>
  /\ content' = Freed(content)

Init ==
  /\ config = 0 /\ tmp = 0
  /\ content = [i \in Inode |-> {}]
  /\ mem = Defaults
  /\ cache = 0 /\ lock = Nobody /\ issued = {}
  /\ behind = FALSE /\ overlap = FALSE
  /\ \E firstBoot \in BOOLEAN :
        /\ doing = [t \in Thread |-> IF firstBoot /\ t = Loop THEN "boot" ELSE "none"]
        /\ stage = [t \in Thread |-> IF firstBoot /\ t = Loop THEN "open" ELSE "idle"]
  /\ data = [t \in Thread |-> Defaults]
  /\ fd = [t \in Thread |-> 0]

Next ==
  \/ \E t \in Thread : SaveStep(t) \/ ReadSecret(t) \/ CreateSecret(t)
  \/ \E t \in Worker : Login(t)
  \/ \E s \in Setting : Patch(s)
  \/ SaveDefaults
  \/ Restart

Spec == Init /\ [][Next]_vars

\* A thread that saves is scheduled; nobody has to send a request.
FairSpec == Spec /\ \A t \in Thread : WF_vars(SaveStep(t))

-----------------------------------------------------------------------------
(* Properties.                                                             *)

\* All tokens one process mints are signed with the one secret it has cached,
\* however many threads need it first (the double check in _get_jwt_secret).
OneSecretPerProcess ==
  /\ Cardinality(issued) <= 1
  /\ issued # {} => issued = {cache}

\* While savers do not overlap, the configuration file is never empty or mixed
\* up, wherever the process dies and whatever temporary file it leaves behind.
FileIsWhole ==
  ~overlap /\ config # 0 => \E c \in Config : content[config] = {c}

\* While savers do not overlap, what config_svc has in memory is what a
\* restart, or the instance that checks require_auth, loads from the file,
\* unless its own last save failed; creating the secret changes nothing else.
MemoryIsOnDisk ==
  ~overlap /\ ~behind /\ Idle(Loop) => Loaded.setting = mem.setting

\* The lock is released after every creation of the secret, failed ones too:
\* the event loop, which blocks on it to verify a token, goes on.
LockReleased == \A t \in Thread : lock = t ~> lock # t

\* A PATCH changes the fields it was given and no others: the secret in the
\* file is the same before and after its save, when no other saver overlaps
\* with it (routers/config.py:148).
PatchKeepsSecret ==
  [][~overlap /\ doing[Loop] = "patch" /\ Rename(Loop)
       => Loaded'.secret = Loaded.secret]_vars
=============================================================================
