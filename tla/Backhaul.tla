------------------------------ MODULE Backhaul ------------------------------
(***************************************************************************)
(* The access point, the internet client and the captive portal            *)
(* (backend/app/services/backhaul_service.py), and who drives them: the    *)
(* REST calls of routers/config.py and the startup of main.py.             *)
(*                                                                         *)
(* All of them run scripts of calls to the privileged helper               *)
(* myc3lium-netctl.  apply-backhaul and apply-network are sync handlers,   *)
(* so that two may be at work in threads of the pool at the same time, and *)
(* a PATCH on the event loop beside them; the startup runs alone.  One     *)
(* call of the helper is one step.  Every call may fail or time out, and   *)
(* the process may die and the device reboot between two calls.            *)
(*                                                                         *)
(* There is one USB adapter.  The contents of hostapd.conf and the         *)
(* addresses of interfaces are left out.                                   *)
(***************************************************************************)
EXTENDS Naturals, Sequences, FiniteSets, SequencesExt

CONSTANTS
  Worker,     \* threads of the pool; "loop" is none of them
  MaxApEvents \* bound: requests, failing calls and restarts

ASSUME BackhaulAssumption == MaxApEvents \in Nat

VARIABLES
  config,     \* config_svc.config.backhaul
  setup,      \* system.setup_complete, and whether ap_password is the default
  system,     \* what the helper changes
  job,        \* [Runner -> Job]: the script a thread is running
  reported,   \* history: what the last apply has answered
  overlapped, \* history: jobs overlapped, or hostapd was started by hand
  tainted,    \* history: a call failed or jobs overlapped since all were idle
  late,       \* history: how a portal may outlive the PATCH that ends it
  apEvents    \* requests, failing calls and restarts so far

backhaulVars ==
  <<config, setup, system, job, reported, overlapped, tainted, late, apEvents>>
historyVars == <<reported, overlapped, tainted, late>>

Mode == {"disabled", "client", "ap"}
Runner == Worker \cup {"loop"}

\* enabled and mode are one field.
BackhaulConfig == [ mode : Mode, mesh_bridged : BOOLEAN, nat_enabled : BOOLEAN ]

System ==
  [ conf : BOOLEAN,                           \* hostapd.conf has been written
    hostapd : {"off", "isolated", "bridged"}, \* and what its job wanted
    dnsConf : {"none", "normal", "captive"},  \* myc3lium-ap.conf
    dns : {"off", "none", "normal", "captive"}, \* what dnsmasq has read
    client : BOOLEAN,                         \* wpa_supplicant on the adapter
    bridge : BOOLEAN,                         \* br0
    enslaved : BOOLEAN,                       \* bat0 is a port of br0
    drops : BOOLEAN,                          \* FORWARD DROP br0 <-> bat0
    nat : SUBSET {"usb", "uplink"},           \* interfaces that masquerade
    mesh : BOOLEAN,                           \* bat0
    rns : BOOLEAN,                            \* reticulum runs its conf file
    flag : BOOLEAN,                           \* the captive-portal file
    state : BOOLEAN ]                         \* backhaul-iface is written

Command ==
  {"write-hostapd", "write-dnsmasq", "write-wpa", "start-ap", "stop-ap",
   "start-client", "stop-client", "setup-bridge", "teardown-bridge",
   "bridge-mesh", "isolate-mesh", "setup-nat", "remove-nat", "cleanup",
   "mesh-up", "write-reticulum", "restart-reticulum",
   "set-captive-portal", "clear-captive-portal", "restart-dnsmasq",
   "save-state", "stale-portal"}

\* What an apply says when it has succeeded.
Report == [ mode : Mode \cup {"network", "none"}, nat : {"on", "off", "any"} ]
NoReport == [ mode |-> "none", nat |-> "any" ]

\* What a thread has still to call, and the parameters of its job.
Job == [ todo : Seq(Command), report : Report, bridged : BOOLEAN,
         captive : BOOLEAN, boot : BOOLEAN ]
Silent(todo, boot) == [ todo |-> todo, report |-> NoReport, bridged |-> FALSE,
                        captive |-> FALSE, boot |-> boot ]
Idle == Silent(<<>>, FALSE)

Busy(t) == job[t].todo # <<>>
Quiet == \A t \in Runner : ~ Busy(t)

\* is_setup_complete: a password of one's own counts as complete.
SetupComplete == setup.flag \/ setup.password = "own"

-----------------------------------------------------------------------------
(* myc3lium-netctl: what a call does when it succeeds.                     *)

\* The interface that NAT goes out through: the default route's.
DefaultRoute(s) == IF s.client THEN "usb" ELSE "uplink"

\* Mutant: stop-ap lets dnsmasq run on.
DnsRunsOn(s) == s.dns

\* What dnsmasq serves once stop-ap and cleanup have stopped it.
DnsStopped(s) == "off"

\* hostapd with bridge=br0 makes the bridge anew, which drops its ports.
HostapdUp(s, bridged) ==
  [ s EXCEPT !.hostapd = IF bridged THEN "bridged" ELSE "isolated",
             !.bridge = TRUE, !.enslaved = FALSE ]

\* A captive configuration answers every name with the device's address.
DnsConf(captive) == IF captive THEN "captive" ELSE "normal"

Effect(cmd, s, j) ==
  CASE cmd = "write-hostapd"   -> [ s EXCEPT !.conf = TRUE ]
    [] cmd = "write-dnsmasq"   -> [ s EXCEPT !.dnsConf = DnsConf(j.captive) ]
    [] cmd = "start-ap"        -> [ HostapdUp(s, j.bridged) EXCEPT !.dns = s.dnsConf ]
    [] cmd = "stop-ap"         ->
         [ s EXCEPT !.hostapd = "off", !.dns = DnsStopped(s),
                    !.enslaved = FALSE, !.drops = FALSE ]
    [] cmd = "start-client"    -> [ s EXCEPT !.client = TRUE ]
    [] cmd = "stop-client"     -> [ s EXCEPT !.client = FALSE ]
    [] cmd = "setup-bridge"    -> [ s EXCEPT !.bridge = TRUE ]
    [] cmd = "teardown-bridge" -> [ s EXCEPT !.bridge = FALSE, !.enslaved = FALSE ]
    [] cmd = "bridge-mesh"     -> [ s EXCEPT !.enslaved = s.mesh, !.drops = FALSE ]
    [] cmd = "isolate-mesh"    -> [ s EXCEPT !.enslaved = FALSE, !.drops = TRUE ]
    [] cmd = "setup-nat"       -> [ s EXCEPT !.nat = s.nat \cup {DefaultRoute(s)} ]
    [] cmd = "remove-nat"      -> [ s EXCEPT !.nat = s.nat \ {"usb", DefaultRoute(s)} ]
    [] cmd = "cleanup"         ->
         [ conf |-> FALSE, hostapd |-> "off", dnsConf |-> "none", dns |-> DnsStopped(s),
           client |-> FALSE, bridge |-> FALSE, enslaved |-> FALSE, drops |-> FALSE,
           nat |-> IF s.state THEN s.nat \ {"usb"} ELSE s.nat,
           mesh |-> FALSE, rns |-> s.rns, flag |-> FALSE, state |-> FALSE ]
    [] cmd = "mesh-up"         -> [ s EXCEPT !.mesh = TRUE ]
    [] cmd = "write-reticulum"      -> [ s EXCEPT !.rns = FALSE ]
    [] cmd = "restart-reticulum"    -> [ s EXCEPT !.rns = TRUE ]
    [] cmd = "set-captive-portal"   -> [ s EXCEPT !.flag = TRUE ]
    [] cmd = "clear-captive-portal" -> [ s EXCEPT !.flag = FALSE ]
    [] cmd = "restart-dnsmasq" -> [ s EXCEPT !.dns = s.dnsConf ]
    [] cmd = "save-state"      -> [ s EXCEPT !.state = TRUE ]
    [] OTHER                   -> s  \* write-wpa, stale-portal

\* What a call may leave when it fails: nothing done, or, when it has timed
\* out, all; start-ap stops hostapd first and may fail before or after it has
\* started it again, start-client kills the old wpa_supplicant first.
Remains(cmd, s, j) ==
  {s, Effect(cmd, s, j)} \cup
  CASE cmd = "start-ap"     -> {[ s EXCEPT !.hostapd = "off" ], HostapdUp(s, j.bridged)}
    [] cmd = "start-client" -> {[ s EXCEPT !.client = FALSE ]}
    [] cmd = "isolate-mesh" -> {[ s EXCEPT !.enslaved = FALSE ]}
    [] cmd = "mesh-up"      -> {[ s EXCEPT !.mesh = FALSE ]}
    [] OTHER                -> {}

\* The calls whose failure ends the function that made them.
EndsScript(cmd) ==
  cmd \in {"write-hostapd", "write-dnsmasq", "write-wpa", "isolate-mesh",
           "start-ap", "start-client", "restart-dnsmasq", "write-reticulum"}

-----------------------------------------------------------------------------
(* The scripts.                                                            *)

\* apply_client_mode
ClientScript ==
  <<"write-wpa", "stop-ap", "teardown-bridge", "start-client", "save-state">>

\* Mutant: the mesh is isolated when the access point is up.
ApScriptIsolatesLast(bridged) ==
  <<"setup-bridge", "write-hostapd", "write-dnsmasq", "stop-client", "start-ap">>
    \o (IF bridged THEN <<"bridge-mesh">> ELSE <<"isolate-mesh">>)
    \o <<"save-state">>

\* apply_ap_mode: isolation before hostapd, bridging after it.
ApScript(bridged) ==
  <<"setup-bridge", "write-hostapd", "write-dnsmasq", "stop-client">>
    \o (IF bridged THEN <<"start-ap", "bridge-mesh">>
                   ELSE <<"isolate-mesh", "start-ap">>)
    \o <<"save-state">>

ModeScript(c) ==
  CASE c.mode = "ap"     -> ApScript(c.mesh_bridged)
    [] c.mode = "client" -> ClientScript
    [] OTHER             -> <<"cleanup">>

\* enable_captive_portal, of an access point while the setup is incomplete.
PortalFlag(c, captive) ==
  IF c.mode = "ap" /\ captive THEN <<"set-captive-portal">> ELSE <<>>

\* apply_batman and apply_reticulum
BatmanScript == <<"mesh-up">>
ReticulumScript == <<"write-reticulum", "restart-reticulum">>

\* apply_backhaul of routers/config.py
ApplyScript(c, captive) ==
  ModeScript(c)
    \o PortalFlag(c, captive)
    \o (IF c.mode = "disabled" THEN <<>>
        ELSE IF c.nat_enabled THEN <<"setup-nat">> ELSE <<"remove-nat">>)

\* The startup: the mesh, then the backhaul, then the stale portal.
BootScript(c, captive) ==
  BatmanScript
    \o (IF c.mode = "disabled" THEN <<>>
        ELSE PortalFlag(c, captive)
               \o ModeScript(c)
               \o (IF c.nat_enabled THEN <<"setup-nat">> ELSE <<>>)
               \o <<"stale-portal">>)

\* apply_network; what it asks of the Meshtastic unit may fail unnoticed.
NetworkScript == BatmanScript \o ReticulumScript

\* disable_captive_portal: the flag goes first.
PortalScript == <<"clear-captive-portal", "write-dnsmasq", "restart-dnsmasq">>

-----------------------------------------------------------------------------
(* Running a script.                                                       *)

Rest(t) == Tail(job[t].todo)

\* What is left of the script when its head has failed.
Aborted(t) ==
  IF ~ EndsScript(Head(job[t].todo)) THEN Rest(t)
  ELSE IF job[t].boot /\ "stale-portal" \in ToSet(Rest(t)) THEN <<"stale-portal">>
  ELSE <<>>

Goes(t, todo) ==
  job' = [job EXCEPT ![t] = IF todo = <<>> THEN Idle ELSE [@ EXCEPT !.todo = todo]]

\* stale-portal is the check at the end of the startup.
StalePortal(t) ==
  /\ Busy(t) /\ Head(job[t].todo) = "stale-portal"
  /\ IF SetupComplete /\ system.flag
       THEN job' = [job EXCEPT ![t] = Silent(PortalScript, TRUE)]
       ELSE Goes(t, <<>>)
  /\ UNCHANGED <<config, setup, system, historyVars, apEvents>>

Call(t) ==
  LET cmd == Head(job[t].todo)
  IN  /\ Busy(t) /\ cmd # "stale-portal"
      /\ system' = Effect(cmd, system, job[t])
      /\ Goes(t, Rest(t))
      /\ reported' = IF Rest(t) = <<>> THEN job[t].report ELSE reported
      /\ UNCHANGED <<config, setup, overlapped, tainted, late, apEvents>>

\* One more of the events of a behaviour.
ApEvent == apEvents < MaxApEvents /\ apEvents' = apEvents + 1

\* The function that made the call returns, or goes on without it.  Without
\* the flag the startup makes the access point without the portal.
CallFails(t) ==
  LET cmd == Head(job[t].todo)
  IN  /\ Busy(t) /\ cmd # "stale-portal"
      /\ system' \in Remains(cmd, system, job[t])
      /\ IF cmd = "set-captive-portal" /\ job[t].boot
           THEN job' = [job EXCEPT ![t].todo = Rest(t), ![t].captive = FALSE]
           ELSE Goes(t, Aborted(t))
      /\ reported' = NoReport
      /\ tainted' = TRUE
      /\ late' = late \cup {"failure"}
      /\ ApEvent
      /\ UNCHANGED <<config, setup, overlapped>>

Begin(t, j) ==
  /\ job' = [job EXCEPT ![t] = j]
  /\ reported' = NoReport
  /\ tainted' = ~ Quiet
  /\ overlapped' = (overlapped \/ ~ Quiet)

-----------------------------------------------------------------------------
(* The requests.  None is served while the startup runs.                   *)

Serving == ~ (Busy("loop") /\ job["loop"].boot)

NatReport == IF config.mode = "disabled" THEN "any"
             ELSE IF config.nat_enabled THEN "on" ELSE "off"

\* POST apply-backhaul.  Without an adapter it returns at once.
ApplyBackhaul(w) ==
  LET captive == ~ SetupComplete
  IN  /\ Serving /\ ~ Busy(w)
      /\ Begin(w, [ todo |-> ApplyScript(config, captive),
                    report |-> [ mode |-> config.mode, nat |-> NatReport ],
                    bridged |-> config.mesh_bridged, captive |-> captive,
                    boot |-> FALSE ])
      /\ ApEvent
      /\ UNCHANGED <<config, setup, system, late>>

\* POST apply-network
ApplyNetwork(w) ==
  /\ Serving /\ ~ Busy(w)
  /\ Begin(w, [ todo |-> NetworkScript, report |-> [ mode |-> "network", nat |-> "any" ],
                bridged |-> FALSE, captive |-> FALSE, boot |-> FALSE ])
  /\ ApEvent
  /\ UNCHANGED <<config, setup, system, late>>

\* PATCH backhaul: any fields; once ap_password is set it is not the default.
PatchBackhaul ==
  /\ Serving /\ ~ Busy("loop")
  /\ \E c \in BackhaulConfig, p \in {setup.password, "own"} :
       /\ <<c, p>> # <<config, setup.password>>
       /\ config' = c
       /\ setup' = [setup EXCEPT !.password = p]
       /\ late' = IF p = "own" /\ ~ SetupComplete THEN late \cup {"password"} ELSE late
  /\ ApEvent
  /\ UNCHANGED <<system, job, reported, overlapped, tainted>>

\* Mutant: the portal is switched off without writing the configuration anew.
CompletionClearsFlag == <<"clear-captive-portal">>

\* What the PATCH that completes the setup calls.
CompletionScript == PortalScript

\* PATCH system {setup_complete: true}; only the transition ends the portal.
CompleteSetup ==
  /\ Serving /\ ~ Busy("loop")
  /\ ~ setup.flag
  /\ setup' = [setup EXCEPT !.flag = TRUE]
  /\ IF SetupComplete
       THEN UNCHANGED <<job, reported, tainted, overlapped>>
       ELSE Begin("loop", Silent(CompletionScript, FALSE))
  /\ late' = IF \E w \in Worker : job[w].captive THEN late \cup {"apply"} ELSE late
  /\ ApEvent
  /\ UNCHANGED <<config, system>>

\* POST restart-service/hostapd, on the loop: it fails without hostapd.conf.
RestartHostapd ==
  /\ Serving /\ ~ Busy("loop")
  /\ system.conf
  /\ system' = HostapdUp(system, system.hostapd = "bridged")
  /\ reported' = NoReport
  /\ overlapped' = (overlapped \/ ~ system.drops)
  /\ tainted' = (tainted \/ ~ Quiet)
  /\ ApEvent
  /\ UNCHANGED <<config, setup, job, late>>

-----------------------------------------------------------------------------
(* The end of the process and of the device.                               *)

Started ==
  LET captive == ~ SetupComplete
  IN  job' = [t \in Runner |->
                IF t = "loop"
                THEN [ todo |-> BootScript(config, captive),
                       report |-> NoReport,
                       bridged |-> config.mesh_bridged, captive |-> captive,
                       boot |-> TRUE ]
                ELSE Idle]

\* systemd starts the backend again; an interrupted script stays unfinished.
RestartBackend ==
  /\ Started
  /\ reported' = NoReport
  /\ late' = IF Quiet THEN late ELSE late \cup {"crash"}
  /\ tainted' = FALSE
  /\ ApEvent
  /\ UNCHANGED <<config, setup, system, overlapped>>

\* Files and the saved rules survive a reboot, services are disabled.
Reboot ==
  /\ Started
  /\ system' = [ system EXCEPT !.hostapd = "off", !.dns = "off", !.client = FALSE,
                               !.bridge = FALSE, !.enslaved = FALSE, !.mesh = FALSE ]
  /\ reported' = NoReport
  /\ late' = IF Quiet THEN late ELSE late \cup {"crash"}
  /\ tainted' = FALSE
  /\ ApEvent
  /\ UNCHANGED <<config, setup, overlapped>>

\* The first boot of a device that has an adapter.
BackhaulInit ==
  /\ config = [ mode |-> "ap", mesh_bridged |-> FALSE, nat_enabled |-> TRUE ]
  /\ setup = [ flag |-> FALSE, password |-> "default" ]
  /\ system = [ conf |-> FALSE, hostapd |-> "off", dnsConf |-> "none",
                dns |-> "off", client |-> FALSE, bridge |-> FALSE,
                enslaved |-> FALSE, drops |-> FALSE, nat |-> {},
                mesh |-> FALSE, rns |-> TRUE, flag |-> FALSE, state |-> FALSE ]
  /\ job = [t \in Runner |->
              IF t = "loop"
              THEN [ todo |-> BootScript(config, TRUE), report |-> NoReport,
                     bridged |-> FALSE, captive |-> TRUE, boot |-> TRUE ]
              ELSE Idle]
  /\ reported = NoReport /\ overlapped = FALSE /\ tainted = FALSE /\ late = {}
  /\ apEvents = 0

BackhaulNext ==
  \/ \E t \in Runner : StalePortal(t) \/ Call(t) \/ CallFails(t)
  \/ \E w \in Worker : ApplyBackhaul(w) \/ ApplyNetwork(w)
  \/ PatchBackhaul \/ CompleteSetup \/ RestartHostapd
  \/ RestartBackend \/ Reboot

BackhaulSpec == BackhaulInit /\ [][BackhaulNext]_backhaulVars

-----------------------------------------------------------------------------
(* Properties.                                                             *)

\* Every variable keeps its type.
BackhaulTypeOK ==
  /\ config \in BackhaulConfig
  /\ setup \in [ flag : BOOLEAN, password : {"default", "own"} ]
  /\ system \in System
  /\ job \in [Runner -> Job]
  /\ \A t \in Runner : Len(job[t].todo) <= 12
  /\ reported \in Report
  /\ overlapped \in BOOLEAN /\ tainted \in BOOLEAN
  /\ late \subseteq {"password", "apply", "crash", "failure"}
  /\ apEvents \in 0 .. MaxApEvents

\* An access point that is to be kept apart from the mesh is kept apart at
\* every moment, between any two calls of any job and after any failure
\* (apply_ap_mode, "never run AP without isolation"), unless jobs overlapped
\* or restart-service started hostapd where there are no rules.
APIsolated ==
  system.hostapd = "isolated" /\ ~ overlapped => system.drops /\ ~ system.enslaved

\* When a job ends none of whose calls failed, and that ran alone, the system
\* is what the answer says, whatever earlier failures, crashes and overlapping
\* jobs had left (apply_client_mode, apply_ap_mode, disable_backhaul,
\* apply_nat, remove_nat_rules, apply_network).
ReportedIsReal ==
  ~ tainted =>
    /\ reported.mode \in Mode =>
         /\ (system.hostapd # "off") = (reported.mode = "ap")
         /\ (system.dns # "off") = (reported.mode = "ap")
         /\ system.bridge = (reported.mode = "ap")
         /\ system.client = (reported.mode = "client")
    /\ reported.nat = "on" => DefaultRoute(system) \in system.nat
    /\ reported.nat = "off" => DefaultRoute(system) \notin system.nat
    /\ reported.mode = "network" => system.mesh /\ system.rns

\* Once the setup is complete and no script is running the portal redirects
\* nobody, unless a call failed, a script was cut short, an apply that had
\* seen the setup incomplete was under way, or a password of one's own
\* completed the setup without anyone noticing (disable_captive_portal).
PortalEnds ==
  Quiet /\ SetupComplete /\ late = {} => ~ system.flag /\ system.dns # "captive"
=============================================================================
