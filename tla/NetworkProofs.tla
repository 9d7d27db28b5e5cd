--------------------------- MODULE NetworkProofs ----------------------------
(***************************************************************************)
(* Proofs about the network a device is part of: the access point and the  *)
(* backhaul it chooses, and the routes of the adaptive router.             *)
(*                                                                         *)
(* Backhaul, for every set of worker threads and every number of requests, *)
(* failing calls, restarts and reboots.  The argument is what a script     *)
(* will still do: of the calls that are left it is said in which order     *)
(* they come and what they will bring about, so that whatever the call     *)
(* that is made now does to the system, or fails to do, was either needed  *)
(* by a call to come or promised by one.                                   *)
(*                                                                         *)
(* MeshRouter, for every set of nodes and links and every number of        *)
(* measurements: Dijkstra's algorithm and the tracing back of a route are  *)
(* right.  During a search the previous nodes are a tree of ways that are  *)
(* as long as distance says, no link of a node that has been visited would *)
(* shorten one, and what has not been visited is nowhere nearer than what  *)
(* has.  A distance is then that of the reference: no way is shorter, for  *)
(* a function that no link raises by more than its ETX is raised by none   *)
(* by more than its length (LEMMA Potential), and the way along the tree   *)
(* is one (LEMMA TreeIsWays, by the number of nodes that are nearer).      *)
(* The induction these need is over numbers up to a bound, in the form of  *)
(* sets (LEMMA UpTo), since it follows from the least number of a set.     *)
(***************************************************************************)
EXTENDS Backhaul, MeshRouter, FiniteSetTheorems, SequenceTheorems,
        WellFoundedInduction, TLAPS

Alone == \A t, u \in Runner : Busy(t) /\ Busy(u) => t = u

\* hostapd of an isolated access point is started next to the isolation, the
\* mesh is let in next to the start of a bridged one; the call before it has
\* been made when there is none left in the script.
Guarded(todo, bridged, s) ==
  \A i \in 1 .. Len(todo) :
    /\ todo[i] = "start-ap" /\ ~ bridged =>
         IF i = 1 THEN s.drops ELSE todo[i - 1] = "isolate-mesh"
    /\ todo[i] = "bridge-mesh" =>
         bridged /\ IF i = 1 THEN s.hostapd = "bridged" ELSE todo[i - 1] = "start-ap"

KeptApart(s) == s.hostapd = "isolated" => s.drops /\ ~ s.enslaved

IsolationInv ==
  ~ overlapped =>
    /\ KeptApart(system)
    /\ Alone
    /\ \A t \in Runner : Guarded(job[t].todo, job[t].bridged, system)

\* The call that a script ends with has been made when nothing is left.
EndsWith(todo, cmd, fact) == IF todo = <<>> THEN fact ELSE todo[Len(todo)] = cmd

WillMode(todo, mode, s) ==
  CASE mode = "ap" ->
         /\ ToSet(todo) \cap {"stop-ap", "cleanup", "teardown-bridge", "start-client"} = {}
         /\ "start-ap" \in ToSet(todo) \/ (s.hostapd # "off" /\ s.dns # "off" /\ s.bridge)
         /\ "stop-client" \in ToSet(todo) \/ ~ s.client
    [] mode = "client" ->
         /\ ToSet(todo) \cap {"start-ap", "setup-bridge", "cleanup", "stop-client", "restart-dnsmasq"} = {}
         /\ "stop-ap" \in ToSet(todo) \/ (s.hostapd = "off" /\ s.dns = "off")
         /\ "teardown-bridge" \in ToSet(todo) \/ ~ s.bridge
         /\ "start-client" \in ToSet(todo) \/ s.client
    [] mode = "disabled" ->
         /\ ToSet(todo) \cap {"start-ap", "setup-bridge", "start-client", "restart-dnsmasq"} = {}
         /\ "cleanup" \in ToSet(todo)
              \/ (s.hostapd = "off" /\ s.dns = "off" /\ ~ s.bridge /\ ~ s.client)
    [] mode = "network" ->
         /\ ToSet(todo) \cap {"cleanup"} = {}
         /\ "mesh-up" \in ToSet(todo) \/ s.mesh
         /\ EndsWith(todo, "restart-reticulum", s.rns)
    [] OTHER -> TRUE

WillNat(todo, nat, s) ==
  /\ nat = "on" => EndsWith(todo, "setup-nat", DefaultRoute(s) \in s.nat)
  /\ nat = "off" => EndsWith(todo, "remove-nat", DefaultRoute(s) \notin s.nat)

Will(j, s) == WillMode(j.todo, j.report.mode, s) /\ WillNat(j.todo, j.report.nat, s)

Real(r, s) == WillMode(<<>>, r.mode, s) /\ WillNat(<<>>, r.nat, s)

ReportInv ==
  ~ tainted =>
    /\ Real(reported, system)
    /\ Alone
    /\ \A t \in Runner : Busy(t) => reported = NoReport /\ Will(job[t], system)

\* Nothing comes after the restart of dnsmasq and the check of the startup.
Final == {"restart-dnsmasq", "stale-portal"}
LastOnly(todo) == \A i \in 1 .. Len(todo) : todo[i] \in Final => i = Len(todo)

Scripted == \A t \in Runner :
              /\ "set-captive-portal" \in ToSet(job[t].todo) => job[t].captive
              /\ LastOnly(job[t].todo)

\* What is left of the portal the job of the loop has still to remove.
PortalGoes ==
  /\ \A t \in Runner : ~ job[t].captive
  /\ system.flag => "clear-captive-portal" \in ToSet(job["loop"].todo)
  /\ system.dnsConf = "captive" =>
       {"write-dnsmasq", "restart-dnsmasq"} \subseteq ToSet(job["loop"].todo)
  /\ system.dns = "captive" => "restart-dnsmasq" \in ToSet(job["loop"].todo)

PortalInv == late = {} => Scripted /\ (SetupComplete => PortalGoes)

-----------------------------------------------------------------------------
(* Sequences of calls.                                                     *)

\* A script calls what its parts call.
LEMMA CallsOfConcat ==
  ASSUME NEW p \in Seq(Command), NEW q \in Seq(Command)
  PROVE  /\ p \o q \in Seq(Command)
         /\ Len(p \o q) = Len(p) + Len(q)
         /\ ToSet(p \o q) = ToSet(p) \cup ToSet(q)
<1>1. /\ p \o q \in Seq(Command) /\ Len(p \o q) = Len(p) + Len(q)
      /\ DOMAIN p = 1 .. Len(p) /\ DOMAIN q = 1 .. Len(q)
      /\ DOMAIN (p \o q) = 1 .. Len(p) + Len(q)
      /\ \A i \in 1 .. Len(p) : (p \o q)[i] = p[i]
      /\ \A i \in 1 .. Len(q) : (p \o q)[Len(p) + i] = q[i]
  OBVIOUS
<1>2. ASSUME NEW i \in DOMAIN (p \o q)
      PROVE  (p \o q)[i] \in ToSet(p) \cup ToSet(q)
  <2>1. CASE i <= Len(p)
    BY <1>1, <2>1 DEF ToSet
  <2>2. CASE i > Len(p)
    <3>1. i - Len(p) \in 1 .. Len(q) /\ i = Len(p) + (i - Len(p))
      BY <1>1, <2>2
    <3> QED BY <1>1, <3>1 DEF ToSet
  <2> QED BY <1>1, <2>1, <2>2
<1>3. ASSUME NEW i \in DOMAIN p PROVE p[i] \in ToSet(p \o q)
  <2>1. i \in DOMAIN (p \o q) /\ (p \o q)[i] = p[i]
    BY <1>1
  <2> QED BY <2>1 DEF ToSet
<1>4. ASSUME NEW i \in DOMAIN q PROVE q[i] \in ToSet(p \o q)
  <2>1. Len(p) + i \in DOMAIN (p \o q) /\ (p \o q)[Len(p) + i] = q[i]
    BY <1>1
  <2> QED BY <2>1 DEF ToSet
<1> QED BY <1>1, <1>2, <1>3, <1>4 DEF ToSet

\* It calls its head, and then what its tail calls.
LEMMA CallsOfTail ==
  ASSUME NEW q \in Seq(Command), q # <<>>
  PROVE  /\ Head(q) \in Command /\ Tail(q) \in Seq(Command)
         /\ Len(q) \in Nat /\ Len(Tail(q)) = Len(q) - 1
         /\ ToSet(q) = {Head(q)} \cup ToSet(Tail(q))
<1>1. /\ Len(q) \in Nat /\ Len(q) >= 1
      /\ DOMAIN q = 1 .. Len(q) /\ DOMAIN Tail(q) = 1 .. Len(q) - 1
      /\ Len(Tail(q)) = Len(q) - 1
      /\ \A i \in 1 .. Len(q) - 1 : Tail(q)[i] = q[i + 1]
      /\ Head(q) = q[1] /\ Head(q) \in Command /\ Tail(q) \in Seq(Command)
  OBVIOUS
<1>2. ASSUME NEW i \in DOMAIN q
      PROVE  q[i] \in {Head(q)} \cup ToSet(Tail(q))
  <2>1. CASE i = 1
    BY <1>1, <2>1
  <2>2. CASE i # 1
    <3>1. i - 1 \in DOMAIN Tail(q) /\ Tail(q)[i - 1] = q[i]
      BY <1>1, <2>2
    <3> QED BY <3>1 DEF ToSet
  <2> QED BY <2>1, <2>2
<1>3. ASSUME NEW i \in DOMAIN Tail(q) PROVE Tail(q)[i] \in ToSet(q)
  <2>1. i + 1 \in DOMAIN q /\ q[i + 1] = Tail(q)[i]
    BY <1>1
  <2> QED BY <2>1 DEF ToSet
<1>4. Head(q) \in ToSet(q)
  BY <1>1 DEF ToSet
<1> QED BY <1>1, <1>2, <1>3, <1>4 DEF ToSet

\* A script of at most n calls, those of C.
Makes(q, n, C) == q \in Seq(Command) /\ Len(q) <= n /\ ToSet(q) = C

LEMMA MakesConcat ==
  ASSUME NEW p, NEW q, NEW A, NEW B, NEW m \in Nat, NEW n \in Nat, NEW o,
         Makes(p, m, A), Makes(q, n, B), o = m + n
  PROVE  Makes(p \o q, o, A \cup B)
<1>1. p \in Seq(Command) /\ q \in Seq(Command)
  BY DEF Makes
<1>2. /\ p \o q \in Seq(Command) /\ Len(p \o q) = Len(p) + Len(q)
      /\ ToSet(p \o q) = ToSet(p) \cup ToSet(q)
  BY <1>1, CallsOfConcat, Zenon
<1>3. Len(p) \in Nat /\ Len(q) \in Nat
  BY <1>1
<1> QED BY <1>2, <1>3 DEF Makes

LEMMA MakesNone == Makes(<<>>, 0, {})
BY DEF Makes, ToSet

LEMMA MakesOne == ASSUME NEW a \in Command PROVE Makes(<<a>>, 1, {a})
BY DEF Makes, ToSet

LEMMA MakesTwo ==
  ASSUME NEW a \in Command, NEW b \in Command PROVE Makes(<<a, b>>, 2, {a, b})
BY DEF Makes, ToSet

LEMMA MakesThree ==
  ASSUME NEW a \in Command, NEW b \in Command, NEW c \in Command
  PROVE  Makes(<<a, b, c>>, 3, {a, b, c})
BY DEF Makes, ToSet

LEMMA MakesFour ==
  ASSUME NEW a \in Command, NEW b \in Command, NEW c \in Command, NEW d \in Command
  PROVE  Makes(<<a, b, c, d>>, 4, {a, b, c, d})
BY DEF Makes, ToSet

LEMMA MakesFive ==
  ASSUME NEW a \in Command, NEW b \in Command, NEW c \in Command, NEW d \in Command,
         NEW e \in Command
  PROVE  Makes(<<a, b, c, d, e>>, 5, {a, b, c, d, e})
BY DEF Makes, ToSet

\* The names of calls, for the provers that do not look into Command.
LEMMA Commands ==
  /\ "write-hostapd" \in Command /\ "write-dnsmasq" \in Command /\ "write-wpa" \in Command
  /\ "start-ap" \in Command /\ "stop-ap" \in Command
  /\ "start-client" \in Command /\ "stop-client" \in Command
  /\ "setup-bridge" \in Command /\ "teardown-bridge" \in Command
  /\ "bridge-mesh" \in Command /\ "isolate-mesh" \in Command
  /\ "setup-nat" \in Command /\ "remove-nat" \in Command /\ "cleanup" \in Command
  /\ "mesh-up" \in Command /\ "write-reticulum" \in Command
  /\ "restart-reticulum" \in Command /\ "set-captive-portal" \in Command
  /\ "clear-captive-portal" \in Command /\ "restart-dnsmasq" \in Command
  /\ "save-state" \in Command /\ "stale-portal" \in Command
BY DEF Command

ApCalls(b) ==
  {"setup-bridge", "write-hostapd", "write-dnsmasq", "stop-client", "start-ap",
   "save-state", IF b THEN "bridge-mesh" ELSE "isolate-mesh"}

ModeCalls(c) ==
  IF c.mode = "ap" THEN ApCalls(c.mesh_bridged)
  ELSE IF c.mode = "client"
  THEN {"write-wpa", "stop-ap", "teardown-bridge", "start-client", "save-state"}
  ELSE {"cleanup"}

LEMMA MakesAp == ASSUME NEW b \in BOOLEAN PROVE Makes(ApScript(b), 7, ApCalls(b))
<1> DEFINE front == <<"setup-bridge", "write-hostapd", "write-dnsmasq", "stop-client">>
           middle == IF b THEN <<"start-ap", "bridge-mesh">>
                     ELSE <<"isolate-mesh", "start-ap">>
           last == <<"save-state">>
           F == {"setup-bridge", "write-hostapd", "write-dnsmasq", "stop-client"}
           M == {"start-ap", IF b THEN "bridge-mesh" ELSE "isolate-mesh"}
<1>1. Makes(front, 4, F)
  BY Commands, MakesFour, Zenon
<1>2. Makes(middle, 2, M)
  <2>1. CASE b
    <3>1. Makes(<<"start-ap", "bridge-mesh">>, 2, {"start-ap", "bridge-mesh"})
      BY Commands, MakesTwo, Zenon
    <3> QED BY <2>1, <3>1
  <2>2. CASE ~ b
    <3>1. Makes(<<"isolate-mesh", "start-ap">>, 2, {"isolate-mesh", "start-ap"})
      BY Commands, MakesTwo, Zenon
    <3>2. {"isolate-mesh", "start-ap"} = M
      BY <2>2
    <3> QED BY <2>2, <3>1, <3>2, Zenon
  <2> QED BY <2>1, <2>2
<1>3. Makes(last, 1, {"save-state"})
  BY Commands, MakesOne, Zenon
<1>4. ApScript(b) = (front \o middle) \o last
  BY DEF ApScript
<1>5. ApCalls(b) = (F \cup M) \cup {"save-state"}
  BY DEF ApCalls
<1>6. 6 = 4 + 2 /\ 7 = 6 + 1 /\ {1, 2, 4, 6} \subseteq Nat
  OBVIOUS
<1> HIDE DEF front, middle, last, F, M
<1>7. Makes(front \o middle, 6, F \cup M)
  BY <1>1, <1>2, <1>6, MakesConcat, Zenon
<1>8. Makes((front \o middle) \o last, 7, (F \cup M) \cup {"save-state"})
  BY <1>3, <1>6, <1>7, MakesConcat, Zenon
<1> QED BY <1>4, <1>5, <1>8, Zenon

LEMMA MakesMode ==
  ASSUME NEW c \in BackhaulConfig PROVE Makes(ModeScript(c), 7, ModeCalls(c))
<1>1. CASE c.mode = "ap"
  <2>1. c.mesh_bridged \in BOOLEAN
    BY DEF BackhaulConfig
  <2> QED BY <1>1, <2>1, MakesAp DEF ModeScript, ModeCalls
<1>2. CASE c.mode = "client"
  <2>1. Makes(ClientScript, 5,
          {"write-wpa", "stop-ap", "teardown-bridge", "start-client", "save-state"})
    BY Commands, MakesFive, Zenon DEF ClientScript
  <2>2. ModeScript(c) = ClientScript
    BY <1>2 DEF ModeScript
  <2> HIDE DEF ClientScript
  <2> QED BY <1>2, <2>1, <2>2 DEF ModeCalls, Makes
<1>3. CASE c.mode \notin {"ap", "client"}
  <2>1. Makes(<<"cleanup">>, 1, {"cleanup"})
    BY Commands, MakesOne, Zenon
  <2>2. ModeScript(c) = <<"cleanup">>
    BY <1>3 DEF ModeScript
  <2> QED BY <1>3, <2>1, <2>2 DEF ModeCalls, Makes
<1> QED BY <1>1, <1>2, <1>3

PortalCalls(c, captive) ==
  IF c.mode = "ap" /\ captive THEN {"set-captive-portal"} ELSE {}

NatCalls(c) == IF c.mode = "disabled" THEN {}
               ELSE IF c.nat_enabled THEN {"setup-nat"} ELSE {"remove-nat"}

BootNatCalls(c) == IF c.nat_enabled THEN {"setup-nat"} ELSE {}

LEMMA MakesPortalFlag ==
  ASSUME NEW c \in BackhaulConfig, NEW captive \in BOOLEAN
  PROVE  Makes(PortalFlag(c, captive), 1, PortalCalls(c, captive))
<1>1. Makes(<<"set-captive-portal">>, 1, {"set-captive-portal"})
  BY Commands, MakesOne, Zenon
<1>2. Makes(<<>>, 1, {})
  BY MakesNone DEF Makes
<1> QED BY <1>1, <1>2 DEF PortalFlag, PortalCalls

LEMMA MakesApply ==
  ASSUME NEW c \in BackhaulConfig, NEW captive \in BOOLEAN
  PROVE  Makes(ApplyScript(c, captive), 9,
               (ModeCalls(c) \cup PortalCalls(c, captive)) \cup NatCalls(c))
<1> DEFINE nat == IF c.mode = "disabled" THEN <<>>
                  ELSE IF c.nat_enabled THEN <<"setup-nat">> ELSE <<"remove-nat">>
<1>1. Makes(nat, 1, NatCalls(c))
  <2>1. /\ Makes(<<"setup-nat">>, 1, {"setup-nat"})
        /\ Makes(<<"remove-nat">>, 1, {"remove-nat"})
    BY Commands, MakesOne, Zenon
  <2>2. Makes(<<>>, 1, {})
    BY MakesNone DEF Makes
  <2> QED BY <2>1, <2>2 DEF NatCalls
<1>2. ApplyScript(c, captive) = (ModeScript(c) \o PortalFlag(c, captive)) \o nat
  BY DEF ApplyScript
<1>3. 8 = 7 + 1 /\ 9 = 8 + 1 /\ {1, 7, 8} \subseteq Nat
  OBVIOUS
<1> HIDE DEF nat
<1>4. Makes(ModeScript(c) \o PortalFlag(c, captive), 8,
            ModeCalls(c) \cup PortalCalls(c, captive))
  BY <1>3, MakesMode, MakesPortalFlag, MakesConcat, Zenon
<1>5. Makes((ModeScript(c) \o PortalFlag(c, captive)) \o nat, 9,
            (ModeCalls(c) \cup PortalCalls(c, captive)) \cup NatCalls(c))
  BY <1>1, <1>3, <1>4, MakesConcat, Zenon
<1> QED BY <1>2, <1>5, Zenon

BootCalls(c, captive) ==
  {"mesh-up"} \cup
    IF c.mode = "disabled" THEN {}
    ELSE ((PortalCalls(c, captive) \cup ModeCalls(c)) \cup BootNatCalls(c))
           \cup {"stale-portal"}

LEMMA MakesBoot ==
  ASSUME NEW c \in BackhaulConfig, NEW captive \in BOOLEAN
  PROVE  Makes(BootScript(c, captive), 11, BootCalls(c, captive))
<1> DEFINE nat == IF c.nat_enabled THEN <<"setup-nat">> ELSE <<>>
           stale == <<"stale-portal">>
           whole == ((PortalFlag(c, captive) \o ModeScript(c)) \o nat) \o stale
           rest == IF c.mode = "disabled" THEN <<>> ELSE whole
           C == ((PortalCalls(c, captive) \cup ModeCalls(c)) \cup BootNatCalls(c))
                  \cup {"stale-portal"}
<1>1. Makes(nat, 1, BootNatCalls(c))
  <2>1. Makes(<<"setup-nat">>, 1, {"setup-nat"})
    BY Commands, MakesOne, Zenon
  <2>2. Makes(<<>>, 1, {})
    BY MakesNone DEF Makes
  <2> QED BY <2>1, <2>2 DEF BootNatCalls
<1>2. Makes(stale, 1, {"stale-portal"}) /\ Makes(BatmanScript, 1, {"mesh-up"})
  BY Commands, MakesOne, Zenon DEF BatmanScript
<1>3. /\ 8 = 1 + 7 /\ 9 = 8 + 1 /\ 10 = 9 + 1 /\ 11 = 1 + 10
      /\ 1 \in Nat /\ 7 \in Nat /\ 8 \in Nat /\ 9 \in Nat /\ 10 \in Nat
  OBVIOUS
<1>4. BootScript(c, captive) = BatmanScript \o rest
  BY DEF BootScript
<1>5. BootCalls(c, captive) = {"mesh-up"} \cup (IF c.mode = "disabled" THEN {} ELSE C)
  BY DEF BootCalls
<1> HIDE DEF nat, stale
<1>6. Makes(PortalFlag(c, captive) \o ModeScript(c), 8,
            PortalCalls(c, captive) \cup ModeCalls(c))
  BY <1>3, MakesMode, MakesPortalFlag, MakesConcat, Zenon
<1>7. Makes((PortalFlag(c, captive) \o ModeScript(c)) \o nat, 9,
            (PortalCalls(c, captive) \cup ModeCalls(c)) \cup BootNatCalls(c))
  BY <1>1, <1>3, <1>6, MakesConcat, Zenon
<1>8. Makes(whole, 10, C)
  BY <1>2, <1>3, <1>7, MakesConcat, Zenon
<1> HIDE DEF whole, C
<1>9. Makes(rest, 10, IF c.mode = "disabled" THEN {} ELSE C)
  <2>1. Makes(<<>>, 10, {})
    BY MakesNone DEF Makes
  <2> QED BY <1>8, <2>1
<1> HIDE DEF rest
<1>10. Makes(BatmanScript \o rest, 11,
             {"mesh-up"} \cup (IF c.mode = "disabled" THEN {} ELSE C))
  BY <1>2, <1>3, <1>9, MakesConcat, Zenon
<1> QED BY <1>4, <1>5, <1>10, Zenon

LEMMA MakesNetwork ==
  Makes(NetworkScript, 3, {"mesh-up", "write-reticulum", "restart-reticulum"})
<1>1. Makes(BatmanScript, 1, {"mesh-up"})
  BY Commands, MakesOne, Zenon DEF BatmanScript
<1>2. Makes(ReticulumScript, 2, {"write-reticulum", "restart-reticulum"})
  BY Commands, MakesTwo, Zenon DEF ReticulumScript
<1>3. 3 = 1 + 2 /\ 1 \in Nat /\ 2 \in Nat
  OBVIOUS
<1>4. Makes(NetworkScript, 3, {"mesh-up"} \cup {"write-reticulum", "restart-reticulum"})
  BY <1>1, <1>2, <1>3, MakesConcat, Zenon DEF NetworkScript
<1> QED BY <1>4 DEF Makes

LEMMA MakesPortal ==
  Makes(PortalScript, 3, {"clear-captive-portal", "write-dnsmasq", "restart-dnsmasq"})
BY Commands, MakesThree, Zenon DEF PortalScript

-----------------------------------------------------------------------------
(* The order of the calls.                                                 *)

\* What Guarded says of a script none of whose calls has been made.
Ordered(q, bridged) ==
  \A i \in 1 .. Len(q) :
    /\ q[i] = "start-ap" /\ ~ bridged => i > 1 /\ q[i - 1] = "isolate-mesh"
    /\ q[i] = "bridge-mesh" => bridged /\ i > 1 /\ q[i - 1] = "start-ap"

LEMMA OrderedConcat ==
  ASSUME NEW p \in Seq(Command), NEW q \in Seq(Command), NEW b,
         Ordered(p, b), Ordered(q, b)
  PROVE  Ordered(p \o q, b)
<1>1. /\ Len(p) \in Nat /\ Len(q) \in Nat /\ Len(p \o q) = Len(p) + Len(q)
      /\ \A i \in 1 .. Len(p) : (p \o q)[i] = p[i]
      /\ \A i \in 1 .. Len(q) : (p \o q)[Len(p) + i] = q[i]
  OBVIOUS
<1> DEFINE r == p \o q
<1> SUFFICES ASSUME NEW i \in 1 .. Len(r)
             PROVE  /\ r[i] = "start-ap" /\ ~ b => i > 1 /\ r[i - 1] = "isolate-mesh"
                    /\ r[i] = "bridge-mesh" => b /\ i > 1 /\ r[i - 1] = "start-ap"
  BY DEF Ordered
<1> HIDE DEF r
<1>2. CASE i <= Len(p)
  <2>1. i \in 1 .. Len(p) /\ r[i] = p[i]
    BY <1>1, <1>2 DEF r
  <2>2. i > 1 => r[i - 1] = p[i - 1]
    BY <1>1, <1>2 DEF r
  <2> QED BY <2>1, <2>2 DEF Ordered
<1>3. CASE i > Len(p)
  <2> DEFINE k == i - Len(p)
  <2>1. k \in 1 .. Len(q) /\ i = Len(p) + k
    BY <1>1, <1>3 DEF r
  <2>2. r[i] = q[k]
    BY <1>1, <2>1 DEF r
  <2>3. k > 1 => r[i - 1] = q[k - 1]
    <3>1. ASSUME k > 1 PROVE k - 1 \in 1 .. Len(q) /\ i - 1 = Len(p) + (k - 1)
      BY <1>1, <2>1, <3>1
    <3>2. k > 1 => r[Len(p) + (k - 1)] = q[k - 1]
      BY <1>1, <3>1 DEF r
    <3> QED BY <3>1, <3>2
  <2>4. k > 1 => i > 1
    BY <1>1, <2>1
  <2> QED BY <2>1, <2>2, <2>3, <2>4 DEF Ordered
<1> QED BY <1>1, <1>2, <1>3 DEF r

LEMMA OrderedWithout ==
  ASSUME NEW q, NEW b, ToSet(q) \cap {"start-ap", "bridge-mesh"} = {}, q \in Seq(Command)
  PROVE  Ordered(q, b)
BY DEF Ordered, ToSet

LEMMA OrderedAp == ASSUME NEW b \in BOOLEAN PROVE Ordered(ApScript(b), b)
<1> DEFINE front == <<"setup-bridge", "write-hostapd", "write-dnsmasq", "stop-client">>
           middle == IF b THEN <<"start-ap", "bridge-mesh">>
                     ELSE <<"isolate-mesh", "start-ap">>
           last == <<"save-state">>
<1>1. front \in Seq(Command) /\ Ordered(front, b)
  <2>1. Makes(front, 4, {"setup-bridge", "write-hostapd", "write-dnsmasq", "stop-client"})
    BY Commands, MakesFour, Zenon
  <2> HIDE DEF front
  <2> QED BY <2>1, OrderedWithout DEF Makes
<1>2. middle \in Seq(Command) /\ Ordered(middle, b)
  <2>1. CASE b
    BY <2>1, MakesTwo, Commands DEF Ordered, Makes
  <2>2. CASE ~ b
    BY <2>2, MakesTwo, Commands DEF Ordered, Makes
  <2> QED BY <2>1, <2>2
<1>3. last \in Seq(Command) /\ Ordered(last, b)
  BY Commands DEF Ordered
<1>4. ApScript(b) = (front \o middle) \o last
  BY DEF ApScript
<1> HIDE DEF front, middle, last
<1>5. front \o middle \in Seq(Command) /\ Ordered(front \o middle, b)
  BY <1>1, <1>2, OrderedConcat, CallsOfConcat, Zenon
<1> QED BY <1>3, <1>4, <1>5, OrderedConcat, Zenon

LEMMA EndOfConcat ==
  ASSUME NEW p \in Seq(Command), NEW q \in Seq(Command), q # <<>>
  PROVE  /\ p \o q # <<>>
         /\ (p \o q)[Len(p \o q)] = q[Len(q)]
<1>1. /\ Len(p) \in Nat /\ Len(q) \in Nat /\ Len(q) >= 1 /\ Len(<<>>) = 0
      /\ Len(p \o q) = Len(p) + Len(q)
      /\ \A i \in 1 .. Len(q) : (p \o q)[Len(p) + i] = q[i]
  OBVIOUS
<1>2. Len(q) \in 1 .. Len(q)
  BY <1>1
<1> QED BY <1>1, <1>2

LEMMA LastOnlyWithout ==
  ASSUME NEW q \in Seq(Command), ToSet(q) \cap Final = {}
  PROVE  LastOnly(q)
BY DEF LastOnly, ToSet

LEMMA LastOnlyConcat ==
  ASSUME NEW p \in Seq(Command), NEW q \in Seq(Command), ToSet(p) \cap Final = {}, LastOnly(q)
  PROVE  LastOnly(p \o q)
<1>1. /\ Len(p) \in Nat /\ Len(q) \in Nat /\ Len(p \o q) = Len(p) + Len(q)
      /\ \A i \in 1 .. Len(p) : (p \o q)[i] = p[i]
      /\ \A i \in 1 .. Len(q) : (p \o q)[Len(p) + i] = q[i]
  OBVIOUS
<1> DEFINE r == p \o q
<1> SUFFICES ASSUME NEW i \in 1 .. Len(r), r[i] \in Final
             PROVE  i = Len(r)
  BY DEF LastOnly
<1> HIDE DEF r
<1>2. CASE i <= Len(p)
  <2>1. i \in DOMAIN p /\ r[i] = p[i]
    BY <1>1, <1>2 DEF r
  <2> QED BY <2>1 DEF ToSet
<1>3. CASE i > Len(p)
  <2>1. i - Len(p) \in 1 .. Len(q) /\ i = Len(p) + (i - Len(p))
    BY <1>1, <1>3 DEF r
  <2>2. r[i] = q[i - Len(p)]
    BY <1>1, <2>1 DEF r
  <2>3. i - Len(p) = Len(q)
    BY <2>1, <2>2 DEF LastOnly
  <2> QED BY <1>1, <2>1, <2>3 DEF r
<1> QED BY <1>1, <1>2, <1>3 DEF r

-----------------------------------------------------------------------------
(* What is true of a script none of whose calls has been made.             *)

Fresh(j) ==
  /\ j \in Job /\ Len(j.todo) <= 12
  /\ Ordered(j.todo, j.bridged)
  /\ "set-captive-portal" \in ToSet(j.todo) => j.captive
  /\ LastOnly(j.todo)
  /\ \A s : Will(j, s)

LEMMA OrderedMode ==
  ASSUME NEW c \in BackhaulConfig
  PROVE  Ordered(ModeScript(c), c.mesh_bridged)
<1>1. CASE c.mode = "ap"
  <2>1. c.mesh_bridged \in BOOLEAN
    BY DEF BackhaulConfig
  <2> QED BY <1>1, <2>1, OrderedAp DEF ModeScript
<1>2. CASE c.mode # "ap"
  <2>1. ModeCalls(c) \cap {"start-ap", "bridge-mesh"} = {}
    BY <1>2 DEF ModeCalls
  <2> QED BY <2>1, MakesMode, OrderedWithout DEF Makes
<1> QED BY <1>1, <1>2

LEMMA FreshJob ==
  ASSUME NEW q \in Seq(Command), Len(q) <= 12, NEW r \in Report,
         NEW bridged \in BOOLEAN, NEW captive \in BOOLEAN, NEW boot \in BOOLEAN,
         Ordered(q, bridged), LastOnly(q),
         "set-captive-portal" \in ToSet(q) => captive,
         \A s : WillMode(q, r.mode, s) /\ WillNat(q, r.nat, s)
  PROVE  Fresh([ todo |-> q, report |-> r, bridged |-> bridged,
                 captive |-> captive, boot |-> boot ])
<1> DEFINE j == [ todo |-> q, report |-> r, bridged |-> bridged,
                  captive |-> captive, boot |-> boot ]
<1>1. /\ j.todo = q /\ j.report = r /\ j.bridged = bridged /\ j.captive = captive
      /\ j \in Job
  BY DEF Job
<1> HIDE DEF j
<1>2. ASSUME NEW s PROVE Will(j, s)
  BY <1>1, Zenon DEF Will
<1> QED BY <1>1, <1>2, Zenon DEF Fresh, j

LEMMA FreshApply ==
  ASSUME NEW c \in BackhaulConfig, NEW captive \in BOOLEAN,
         NEW nat \in {"on", "off", "any"},
         nat = IF c.mode = "disabled" THEN "any" ELSE IF c.nat_enabled THEN "on" ELSE "off"
  PROVE  Fresh([ todo |-> ApplyScript(c, captive), report |-> [ mode |-> c.mode, nat |-> nat ],
                 bridged |-> c.mesh_bridged, captive |-> captive, boot |-> FALSE ])
<1> DEFINE q == ApplyScript(c, captive)
           r == [ mode |-> c.mode, nat |-> nat ]
           tail == IF c.mode = "disabled" THEN <<>>
                   ELSE IF c.nat_enabled THEN <<"setup-nat">> ELSE <<"remove-nat">>
           C == (ModeCalls(c) \cup PortalCalls(c, captive)) \cup NatCalls(c)
<1>1. c.mode \in Mode /\ c.mesh_bridged \in BOOLEAN /\ c.nat_enabled \in BOOLEAN
  BY DEF BackhaulConfig
<1>2. q \in Seq(Command) /\ Len(q) <= 9 /\ ToSet(q) = C
  BY MakesApply DEF Makes
<1>3. q = (ModeScript(c) \o PortalFlag(c, captive)) \o tail
  BY DEF ApplyScript
<1>4. ModeScript(c) \in Seq(Command) /\ PortalFlag(c, captive) \in Seq(Command)
  BY MakesMode, MakesPortalFlag DEF Makes
<1>5. tail \in Seq(Command)
  BY Commands
<1>6. ModeScript(c) \o PortalFlag(c, captive) \in Seq(Command)
  BY <1>4, CallsOfConcat, Zenon
<1>7. r \in Report /\ r.mode = c.mode /\ r.nat = nat /\ Len(q) <= 12
  <2>1. r \in Report /\ r.mode = c.mode /\ r.nat = nat
    BY <1>1 DEF Report
  <2>2. Len(q) \in Nat
    BY <1>2
  <2> HIDE DEF q
  <2> QED BY <1>2, <2>1, <2>2
<1>8. Ordered(q, c.mesh_bridged)
  <2>1. Ordered(PortalFlag(c, captive), c.mesh_bridged)
    BY MakesPortalFlag, OrderedWithout DEF Makes, PortalCalls
  <2>2. Ordered(tail, c.mesh_bridged)
    BY DEF Ordered
  <2> HIDE DEF tail, q
  <2>3. Ordered(ModeScript(c) \o PortalFlag(c, captive), c.mesh_bridged)
    BY <1>4, <2>1, OrderedMode, OrderedConcat, Zenon
  <2> QED BY <1>3, <1>5, <1>6, <2>2, <2>3, OrderedConcat, Zenon
<1>9. "set-captive-portal" \in C => captive
  BY DEF ModeCalls, ApCalls, PortalCalls, NatCalls
<1>10. C \cap Final = {}
  BY DEF ModeCalls, ApCalls, PortalCalls, NatCalls, Final
<1>11. ASSUME NEW s PROVE WillMode(q, c.mode, s) /\ WillNat(q, nat, s)
  <2>1. WillMode(q, c.mode, s)
    <3> HIDE DEF q
    <3>1. CASE c.mode = "ap"
      BY <1>2, <3>1 DEF WillMode, ModeCalls, ApCalls, PortalCalls, NatCalls
    <3>2. CASE c.mode = "client"
      BY <1>2, <3>2 DEF WillMode, ModeCalls, PortalCalls, NatCalls
    <3>3. CASE c.mode = "disabled"
      BY <1>2, <3>3 DEF WillMode, ModeCalls, PortalCalls, NatCalls
    <3> QED BY <1>1, <3>1, <3>2, <3>3 DEF Mode
  <2>2. WillNat(q, nat, s)
    <3>1. CASE c.mode = "disabled"
      BY <3>1 DEF WillNat
    <3>2. CASE c.mode # "disabled"
      <4>1. tail # <<>>
        BY <3>2
      <4>2. tail[Len(tail)] = IF c.nat_enabled THEN "setup-nat" ELSE "remove-nat"
        BY <3>2
      <4>3. nat = IF c.nat_enabled THEN "on" ELSE "off"
        BY <3>2
      <4> HIDE DEF tail, q
      <4>4. q # <<>> /\ q[Len(q)] = tail[Len(tail)]
        BY <1>3, <1>5, <1>6, <4>1, EndOfConcat, Zenon
      <4> QED BY <4>2, <4>3, <4>4 DEF WillNat, EndsWith
    <3> QED BY <3>1, <3>2
  <2> QED BY <2>1, <2>2
<1> HIDE DEF q, r, C
<1>12. LastOnly(q) /\ ("set-captive-portal" \in ToSet(q) => captive)
  BY <1>2, <1>9, <1>10, LastOnlyWithout
<1>13. \A s : WillMode(q, r.mode, s) /\ WillNat(q, r.nat, s)
  BY <1>7, <1>11, Zenon
<1>14. Fresh([ todo |-> q, report |-> r, bridged |-> c.mesh_bridged,
               captive |-> captive, boot |-> FALSE ])
  BY <1>1, <1>2, <1>7, <1>8, <1>12, <1>13, FreshJob
<1> QED BY <1>14 DEF q, r

LEMMA FreshNetwork ==
  Fresh([ todo |-> NetworkScript, report |-> [ mode |-> "network", nat |-> "any" ],
          bridged |-> FALSE, captive |-> FALSE, boot |-> FALSE ])
<1> DEFINE q == NetworkScript
           r == [ mode |-> "network", nat |-> "any" ]
           j == [ todo |-> q, report |-> r, bridged |-> FALSE, captive |-> FALSE,
                  boot |-> FALSE ]
           C == {"mesh-up", "write-reticulum", "restart-reticulum"}
<1>1. q \in Seq(Command) /\ Len(q) <= 3 /\ ToSet(q) = C
  BY MakesNetwork DEF Makes
<1>2. Len(q) <= 12
  <2>1. Len(q) \in Nat
    BY <1>1
  <2> QED BY <1>1, <2>1
<1>3. r \in Report /\ r.mode = "network" /\ r.nat = "any"
  BY DEF Report
<1>4. q # <<>> /\ q[Len(q)] = "restart-reticulum"
  <2>1. BatmanScript \in Seq(Command) /\ ReticulumScript \in Seq(Command)
    BY Commands DEF BatmanScript, ReticulumScript
  <2>2. ReticulumScript # <<>> /\ ReticulumScript[Len(ReticulumScript)] = "restart-reticulum"
    BY DEF ReticulumScript
  <2> QED BY <2>1, <2>2, EndOfConcat, Zenon DEF NetworkScript
<1> HIDE DEF q
<1>6. ASSUME NEW s PROVE WillMode(q, "network", s) /\ WillNat(q, "any", s)
  <2>1. WillMode(q, "network", s)
    BY <1>1, <1>4 DEF WillMode, EndsWith
  <2>2. WillNat(q, "any", s)
    BY DEF WillNat
  <2> QED BY <2>1, <2>2
<1>7. Ordered(q, FALSE) /\ LastOnly(q) /\ "set-captive-portal" \notin ToSet(q)
  <2>1. ToSet(q) \cap Final = {}
    BY <1>1 DEF Final
  <2> QED BY <1>1, <2>1, OrderedWithout, LastOnlyWithout
<1>8. \A s : WillMode(q, r.mode, s) /\ WillNat(q, r.nat, s)
  BY <1>3, <1>6, Zenon
<1>9. Fresh(j)
  BY <1>1, <1>2, <1>3, <1>7, <1>8, FreshJob
<1> HIDE DEF j
<1> QED BY <1>9 DEF q, r, j

\* Jobs that answer nobody: the startup and the end of the portal.
LEMMA FreshSilent ==
  ASSUME NEW q \in Seq(Command), Len(q) <= 12,
         NEW bridged \in BOOLEAN, NEW captive \in BOOLEAN, NEW boot \in BOOLEAN,
         Ordered(q, bridged), LastOnly(q),
         "set-captive-portal" \in ToSet(q) => captive
  PROVE  Fresh([ todo |-> q, report |-> NoReport, bridged |-> bridged,
                 captive |-> captive, boot |-> boot ])
<1>1. NoReport \in Report /\ NoReport.mode = "none" /\ NoReport.nat = "any"
  BY DEF Report, NoReport
<1>2. ASSUME NEW s PROVE WillMode(q, "none", s) /\ WillNat(q, "any", s)
  BY DEF WillMode, WillNat
<1>3. \A s : WillMode(q, NoReport.mode, s) /\ WillNat(q, NoReport.nat, s)
  BY <1>1, <1>2, Zenon
<1> QED BY <1>1, <1>3, FreshJob

LEMMA FreshBoot ==
  ASSUME NEW c \in BackhaulConfig, NEW captive \in BOOLEAN
  PROVE  Fresh([ todo |-> BootScript(c, captive), report |-> NoReport,
                 bridged |-> c.mesh_bridged, captive |-> captive, boot |-> TRUE ])
<1> DEFINE q == BootScript(c, captive)
           C == BootCalls(c, captive)
           nat == IF c.nat_enabled THEN <<"setup-nat">> ELSE <<>>
           stale == <<"stale-portal">>
           portal == PortalFlag(c, captive)
           whole == ((portal \o ModeScript(c)) \o nat) \o stale
           rest == IF c.mode = "disabled" THEN <<>> ELSE whole
           b == c.mesh_bridged
<1>1. c.mesh_bridged \in BOOLEAN
  BY DEF BackhaulConfig
<1>2. q \in Seq(Command) /\ Len(q) <= 12 /\ ToSet(q) = C
  <2>1. q \in Seq(Command) /\ Len(q) <= 11 /\ ToSet(q) = C
    BY MakesBoot DEF Makes
  <2> HIDE DEF q
  <2>2. Len(q) \in Nat
    BY <2>1
  <2> QED BY <2>1, <2>2
<1>3. Ordered(q, b)
  <2>1. q = BatmanScript \o rest
    BY DEF BootScript
  <2>2. /\ BatmanScript \in Seq(Command) /\ nat \in Seq(Command) /\ stale \in Seq(Command)
        /\ portal \in Seq(Command) /\ ModeScript(c) \in Seq(Command)
    BY Commands, MakesMode, MakesPortalFlag DEF BatmanScript, Makes
  <2>3. Ordered(BatmanScript, b) /\ Ordered(nat, b) /\ Ordered(stale, b)
    BY DEF Ordered, BatmanScript
  <2>4. Ordered(portal, b)
    BY MakesPortalFlag, OrderedWithout DEF Makes, PortalCalls
  <2>5. <<>> \in Seq(Command) /\ Ordered(<<>>, b)
    BY DEF Ordered
  <2> HIDE DEF nat, stale, portal, b, q
  <2>6. Ordered(ModeScript(c), b)
    BY OrderedMode DEF b
  <2>7. portal \o ModeScript(c) \in Seq(Command) /\ Ordered(portal \o ModeScript(c), b)
    BY <2>2, <2>4, <2>6, CallsOfConcat, OrderedConcat, Zenon
  <2>8. /\ (portal \o ModeScript(c)) \o nat \in Seq(Command)
        /\ Ordered((portal \o ModeScript(c)) \o nat, b)
    BY <2>2, <2>3, <2>7, CallsOfConcat, OrderedConcat, Zenon
  <2>9. whole \in Seq(Command) /\ Ordered(whole, b)
    BY <2>2, <2>3, <2>8, CallsOfConcat, OrderedConcat, Zenon
  <2> HIDE DEF whole
  <2>10. rest \in Seq(Command) /\ Ordered(rest, b)
    BY <2>5, <2>9
  <2> HIDE DEF rest
  <2> QED BY <2>1, <2>2, <2>3, <2>10, OrderedConcat, Zenon
<1>4. "set-captive-portal" \in C => captive
  BY DEF BootCalls, ModeCalls, ApCalls, PortalCalls, BootNatCalls
<1>5. LastOnly(q)
  <2> DEFINE front == (portal \o ModeScript(c)) \o nat
  <2>1. /\ Makes(BatmanScript, 1, {"mesh-up"}) /\ Makes(stale, 1, {"stale-portal"})
        /\ Makes(nat, 1, BootNatCalls(c))
    <3>1. Makes(<<"setup-nat">>, 1, {"setup-nat"})
      BY Commands, MakesOne, Zenon
    <3>2. Makes(<<>>, 1, {})
      BY MakesNone DEF Makes
    <3>3. Makes(BatmanScript, 1, {"mesh-up"}) /\ Makes(stale, 1, {"stale-portal"})
      BY Commands, MakesOne, Zenon DEF BatmanScript
    <3> QED BY <3>1, <3>2, <3>3 DEF BootNatCalls
  <2>2. LastOnly(stale) /\ LastOnly(<<>>) /\ <<>> \in Seq(Command)
    BY DEF LastOnly
  <2>3. q = BatmanScript \o rest
    BY DEF BootScript
  <2>4. /\ 8 = 1 + 7 /\ 9 = 8 + 1
        /\ 1 \in Nat /\ 7 \in Nat /\ 8 \in Nat
    OBVIOUS
  <2> HIDE DEF nat, stale, portal, q
  <2>5. Makes(portal \o ModeScript(c), 8, PortalCalls(c, captive) \cup ModeCalls(c))
    BY <2>4, MakesMode, MakesPortalFlag, MakesConcat, Zenon DEF portal
  <2>6. Makes(front, 9, (PortalCalls(c, captive) \cup ModeCalls(c)) \cup BootNatCalls(c))
    BY <2>1, <2>4, <2>5, MakesConcat, Zenon
  <2> HIDE DEF front
  <2>7. ToSet(front) \cap Final = {} /\ front \in Seq(Command) /\ stale \in Seq(Command)
    BY <2>1, <2>6 DEF Makes, PortalCalls, ModeCalls, ApCalls, BootNatCalls, Final
  <2>8. front \o stale \in Seq(Command) /\ LastOnly(front \o stale)
    BY <2>2, <2>7, CallsOfConcat, LastOnlyConcat, Zenon
  <2>9. whole = front \o stale
    BY DEF front
  <2> HIDE DEF whole
  <2>10. rest \in Seq(Command) /\ LastOnly(rest)
    BY <2>2, <2>8, <2>9
  <2> HIDE DEF rest
  <2>11. BatmanScript \in Seq(Command) /\ ToSet(BatmanScript) \cap Final = {}
    BY <2>1 DEF Makes, Final
  <2> QED BY <2>3, <2>10, <2>11, LastOnlyConcat, Zenon
<1> HIDE DEF q, C
<1>7. Fresh([ todo |-> q, report |-> NoReport, bridged |-> c.mesh_bridged,
              captive |-> captive, boot |-> TRUE ])
  BY <1>1, <1>2, <1>3, <1>4, <1>5, FreshSilent
<1> QED BY <1>7 DEF q

LEMMA FreshPortal ==
  ASSUME NEW boot \in BOOLEAN
  PROVE  Fresh(Silent(PortalScript, boot))
<1>1. /\ PortalScript \in Seq(Command) /\ Len(PortalScript) <= 12
      /\ ToSet(PortalScript) = {"clear-captive-portal", "write-dnsmasq", "restart-dnsmasq"}
  BY MakesPortal DEF Makes, PortalScript
<1>2. Ordered(PortalScript, FALSE)
  BY <1>1, OrderedWithout
<1>3. LastOnly(PortalScript)
  BY DEF LastOnly, Final, PortalScript
<1>4. "set-captive-portal" \notin ToSet(PortalScript)
  BY <1>1
<1> HIDE DEF PortalScript
<1> QED BY <1>1, <1>2, <1>3, <1>4, FreshSilent DEF Silent

-----------------------------------------------------------------------------
(* What the calls do to the parts of the system.                           *)

\* e is s after the call cmd of the job j.
EffectOf(cmd, s, j, e) ==
  /\ e \in System
  /\ e.hostapd = IF cmd = "start-ap" THEN (IF j.bridged THEN "bridged" ELSE "isolated")
                 ELSE IF cmd \in {"stop-ap", "cleanup"} THEN "off" ELSE s.hostapd
  /\ e.drops = IF cmd = "isolate-mesh" THEN TRUE
               ELSE IF cmd \in {"stop-ap", "cleanup", "bridge-mesh"} THEN FALSE
               ELSE s.drops
  /\ e.enslaved = IF cmd = "bridge-mesh" THEN s.mesh
                  ELSE IF cmd \in {"start-ap", "stop-ap", "teardown-bridge",
                                   "isolate-mesh", "cleanup"} THEN FALSE
                  ELSE s.enslaved
  /\ e.dnsConf = IF cmd = "write-dnsmasq" THEN DnsConf(j.captive)
                 ELSE IF cmd = "cleanup" THEN "none" ELSE s.dnsConf
  /\ e.dns = IF cmd \in {"start-ap", "restart-dnsmasq"} THEN s.dnsConf
             ELSE IF cmd \in {"stop-ap", "cleanup"} THEN "off" ELSE s.dns
  /\ e.client = IF cmd = "start-client" THEN TRUE
                ELSE IF cmd \in {"stop-client", "cleanup"} THEN FALSE ELSE s.client
  /\ e.bridge = IF cmd \in {"start-ap", "setup-bridge"} THEN TRUE
                ELSE IF cmd \in {"teardown-bridge", "cleanup"} THEN FALSE ELSE s.bridge
  /\ e.mesh = IF cmd = "mesh-up" THEN TRUE
              ELSE IF cmd = "cleanup" THEN FALSE ELSE s.mesh
  /\ e.rns = IF cmd = "restart-reticulum" THEN TRUE
             ELSE IF cmd = "write-reticulum" THEN FALSE ELSE s.rns
  /\ e.flag = IF cmd = "set-captive-portal" THEN TRUE
              ELSE IF cmd \in {"clear-captive-portal", "cleanup"} THEN FALSE ELSE s.flag
  /\ cmd = "setup-nat" => DefaultRoute(e) \in e.nat
  /\ cmd = "remove-nat" => DefaultRoute(e) \notin e.nat

LEMMA EffectIs ==
  ASSUME NEW cmd \in Command, NEW s \in System, NEW j \in Job
  PROVE  EffectOf(cmd, s, j, Effect(cmd, s, j))
<1> DEFINE e == Effect(cmd, s, j)
<1> USE DEF EffectOf
<1>1. CASE cmd = "write-hostapd"
  BY <1>1 DEF Effect, System
<1>2. CASE cmd = "write-dnsmasq"
  BY <1>2 DEF Effect, System, DnsConf
<1>3. CASE cmd = "start-ap"
  <2> DEFINE h == HostapdUp(s, j.bridged)
  <2>1. /\ h \in System /\ h.drops = s.drops /\ h.enslaved = FALSE
        /\ h.hostapd = (IF j.bridged THEN "bridged" ELSE "isolated")
        /\ h.dnsConf = s.dnsConf /\ h.client = s.client /\ h.bridge = TRUE
        /\ h.mesh = s.mesh /\ h.rns = s.rns /\ h.flag = s.flag
    BY DEF HostapdUp, System
  <2>2. e = [ h EXCEPT !.dns = s.dnsConf ]
    BY <1>3 DEF Effect
  <2> HIDE DEF h, e
  <2>3. /\ e \in System /\ e.drops = h.drops /\ e.enslaved = h.enslaved
        /\ e.hostapd = h.hostapd /\ e.dnsConf = h.dnsConf /\ e.dns = s.dnsConf
        /\ e.client = h.client /\ e.bridge = h.bridge /\ e.mesh = h.mesh
        /\ e.rns = h.rns /\ e.flag = h.flag
    BY <2>1, <2>2 DEF System
  <2> QED BY <1>3, <2>1, <2>3 DEF e
<1>4. CASE cmd = "stop-ap"
  BY <1>4 DEF Effect, System, DnsStopped
<1>5. CASE cmd = "start-client"
  BY <1>5 DEF Effect, System
<1>6. CASE cmd = "stop-client"
  BY <1>6 DEF Effect, System
<1>7. CASE cmd = "setup-bridge"
  BY <1>7 DEF Effect, System
<1>8. CASE cmd = "teardown-bridge"
  BY <1>8 DEF Effect, System
<1>9. CASE cmd = "bridge-mesh"
  BY <1>9 DEF Effect, System
<1>10. CASE cmd = "isolate-mesh"
  BY <1>10 DEF Effect, System
<1>11. CASE cmd = "setup-nat"
  BY <1>11 DEF Effect, System, DefaultRoute
<1>12. CASE cmd = "remove-nat"
  BY <1>12 DEF Effect, System, DefaultRoute
<1>13. CASE cmd = "cleanup"
  <2>1. e = [ conf |-> FALSE, hostapd |-> "off", dnsConf |-> "none", dns |-> "off",
              client |-> FALSE, bridge |-> FALSE, enslaved |-> FALSE, drops |-> FALSE,
              nat |-> IF s.state THEN s.nat \ {"usb"} ELSE s.nat,
              mesh |-> FALSE, rns |-> s.rns, flag |-> FALSE, state |-> FALSE ]
    BY <1>13 DEF Effect, DnsStopped
  <2> HIDE DEF e
  <2>2. e \in System
    BY <2>1 DEF System
  <2>3. /\ e.hostapd = "off" /\ e.dns = "off" /\ e.client = FALSE /\ e.drops = FALSE
        /\ e.mesh = FALSE /\ e.bridge = FALSE /\ e.enslaved = FALSE
        /\ e.dnsConf = "none" /\ e.flag = FALSE /\ e.rns = s.rns
    BY <2>1
  <2> QED BY <1>13, <2>2, <2>3 DEF e
<1>14. CASE cmd = "mesh-up"
  BY <1>14 DEF Effect, System
<1>15. CASE cmd = "write-reticulum"
  BY <1>15 DEF Effect, System
<1>16. CASE cmd = "restart-reticulum"
  BY <1>16 DEF Effect, System
<1>17. CASE cmd = "set-captive-portal"
  BY <1>17 DEF Effect, System
<1>18. CASE cmd = "clear-captive-portal"
  BY <1>18 DEF Effect, System
<1>19. CASE cmd = "restart-dnsmasq"
  BY <1>19 DEF Effect, System
<1>20. CASE cmd = "save-state"
  BY <1>20 DEF Effect, System
<1>21. CASE cmd \in {"write-wpa", "stale-portal"}
  <2>1. e = s
    BY <1>21 DEF Effect
  <2> HIDE DEF e
  <2> QED BY <1>21, <2>1 DEF e
<1> QED
  BY <1>1, <1>2, <1>3, <1>4, <1>5, <1>6, <1>7, <1>8, <1>9, <1>10, <1>11, <1>12, <1>13,
     <1>14, <1>15, <1>16, <1>17, <1>18, <1>19, <1>20, <1>21 DEF Command

-----------------------------------------------------------------------------
(* What the steps do to the scripts.                                       *)

LEMMA FreshIdle == Fresh(Idle)
<1>1. <<>> \in Seq(Command) /\ Len(<<>>) <= 12 /\ "set-captive-portal" \notin ToSet(<<>>)
  BY DEF ToSet
<1>2. Ordered(<<>>, FALSE) /\ LastOnly(<<>>)
  BY DEF Ordered, LastOnly
<1> QED BY <1>1, <1>2, FreshSilent DEF Idle, Silent

LEMMA FreshGuarded ==
  ASSUME NEW j, Fresh(j), NEW s PROVE Guarded(j.todo, j.bridged, s)
BY DEF Fresh, Ordered, Guarded

LEMMA GoesOn ==
  ASSUME BackhaulTypeOK, NEW t \in Runner, NEW q \in Seq(Command), Goes(t, q)
  PROVE  /\ job' \in [Runner -> Job]
         /\ \A u \in Runner : u # t => job'[u] = job[u]
         /\ job'[t].todo = q
         /\ q = <<>> => job'[t] = Idle
         /\ q # <<>> => /\ job'[t].report = job[t].report
                       /\ job'[t].bridged = job[t].bridged
                       /\ job'[t].captive = job[t].captive
                       /\ job'[t].boot = job[t].boot
<1>1. job \in [Runner -> Job]
  BY DEF BackhaulTypeOK
<1>2. Idle \in Job /\ Idle.todo = <<>>
  BY FreshIdle DEF Fresh, Idle, Silent
<1>3. CASE q = <<>>
  <2>1. job' = [job EXCEPT ![t] = Idle]
    BY <1>3 DEF Goes
  <2> QED BY <1>1, <1>2, <1>3, <2>1
<1>4. CASE q # <<>>
  <2> DEFINE k == [job[t] EXCEPT !.todo = q]
  <2>1. job' = [job EXCEPT ![t] = k]
    BY <1>4 DEF Goes
  <2>2. /\ k \in Job /\ k.todo = q /\ k.report = job[t].report /\ k.bridged = job[t].bridged
        /\ k.captive = job[t].captive /\ k.boot = job[t].boot
    BY <1>1 DEF Job
  <2> HIDE DEF k
  <2> QED BY <1>1, <1>4, <2>1, <2>2
<1> QED BY <1>3, <1>4

LEMMA Begins ==
  ASSUME BackhaulTypeOK, NEW t \in Runner, NEW j, Fresh(j), Begin(t, j)
  PROVE  /\ job' \in [Runner -> Job]
         /\ job'[t] = j
         /\ \A u \in Runner : u # t => job'[u] = job[u]
BY DEF BackhaulTypeOK, Fresh, Begin

LEMMA Starts ==
  ASSUME BackhaulTypeOK, Started
  PROVE  /\ job' \in [Runner -> Job]
         /\ \A t \in Runner : Fresh(job'[t])
         /\ \A t \in Runner : t # "loop" => job'[t] = Idle
         /\ job'["loop"].report = NoReport
         /\ job'["loop"].captive = ~ SetupComplete
<1> DEFINE j == [ todo |-> BootScript(config, ~ SetupComplete), report |-> NoReport,
                  bridged |-> config.mesh_bridged, captive |-> ~ SetupComplete,
                  boot |-> TRUE ]
<1>1. job' = [t \in Runner |-> IF t = "loop" THEN j ELSE Idle]
  BY DEF Started
<1>2. config \in BackhaulConfig /\ (~ SetupComplete) \in BOOLEAN
  BY DEF BackhaulTypeOK, SetupComplete
<1>3. Fresh(j)
  BY <1>2, FreshBoot
<1>4. j.report = NoReport /\ j.captive = ~ SetupComplete
  OBVIOUS
<1> HIDE DEF j
<1>5. j \in Job /\ Idle \in Job
  BY <1>3, FreshIdle DEF Fresh
<1> QED BY <1>1, <1>3, <1>4, <1>5, FreshIdle DEF Runner

\* The call that is made, and what is left of the script when it fails.
LEMMA NextCall ==
  ASSUME BackhaulTypeOK, NEW t \in Runner, Busy(t)
  PROVE  LET cmd == Head(job[t].todo)
         IN  /\ job[t] \in Job /\ job[t].todo \in Seq(Command) /\ job[t].todo # <<>>
             /\ cmd \in Command
             /\ Rest(t) \in Seq(Command) /\ Len(Rest(t)) <= 12
             /\ ToSet(job[t].todo) = {cmd} \cup ToSet(Rest(t))
             /\ Aborted(t) \in Seq(Command) /\ Len(Aborted(t)) <= 12
             /\ Aborted(t) \in {Rest(t), <<>>, <<"stale-portal">>}
             /\ EndsScript(cmd) => Aborted(t) \in {<<>>, <<"stale-portal">>}
<1> DEFINE q == job[t].todo
           cmd == Head(q)
<1>1. job[t] \in Job /\ q \in Seq(Command) /\ q # <<>> /\ Len(q) <= 12
  BY DEF BackhaulTypeOK, Job, Busy
<1> HIDE DEF q
<1>2. /\ cmd \in Command /\ Tail(q) \in Seq(Command)
      /\ Len(q) \in Nat /\ Len(Tail(q)) = Len(q) - 1
      /\ ToSet(q) = {cmd} \cup ToSet(Tail(q))
  BY <1>1, CallsOfTail
<1>3. Rest(t) = Tail(q)
  BY DEF Rest, q
<1>4. Len(Tail(q)) <= 12
  BY <1>1, <1>2
<1>5. /\ Aborted(t) \in {Rest(t), <<>>, <<"stale-portal">>}
      /\ EndsScript(cmd) => Aborted(t) \in {<<>>, <<"stale-portal">>}
  BY DEF Aborted, q
<1>6. /\ <<>> \in Seq(Command) /\ Len(<<>>) <= 12
      /\ <<"stale-portal">> \in Seq(Command) /\ Len(<<"stale-portal">>) <= 12
  BY Commands
<1>7. Aborted(t) \in Seq(Command) /\ Len(Aborted(t)) <= 12
  BY <1>2, <1>3, <1>4, <1>5, <1>6
<1> QED BY <1>1, <1>2, <1>3, <1>4, <1>5, <1>7, Zenon DEF q

\* What a failing call may have done.
RemainsOf(cmd, s, j, r) ==
  /\ r \in System
  /\ \/ EffectOf(cmd, s, j, r)
     \/ /\ cmd = "start-ap"
        /\ \/ r.hostapd = "off"
           \/ /\ r.hostapd = IF j.bridged THEN "bridged" ELSE "isolated"
              /\ r.drops = s.drops /\ r.enslaved = FALSE
     \/ /\ r.hostapd = s.hostapd /\ r.drops = s.drops
        /\ r.enslaved = s.enslaved \/ r.enslaved = FALSE

LEMMA RemainsIs ==
  ASSUME NEW cmd \in Command, NEW s \in System, NEW j \in Job, NEW r \in Remains(cmd, s, j)
  PROVE  RemainsOf(cmd, s, j, r)
<1>1. CASE r = s
  BY <1>1 DEF RemainsOf
<1>2. CASE r = Effect(cmd, s, j)
  <2>1. EffectOf(cmd, s, j, r)
    BY <1>2, EffectIs, Zenon
  <2>2. r \in System
    BY <2>1 DEF EffectOf
  <2> QED BY <2>1, <2>2 DEF RemainsOf
<1>3. CASE r \notin {s, Effect(cmd, s, j)}
  <2>1. CASE cmd = "start-ap"
    <3>1. r \in {[ s EXCEPT !.hostapd = "off" ], HostapdUp(s, j.bridged)}
      BY <1>3, <2>1 DEF Remains
    <3> QED BY <2>1, <3>1 DEF RemainsOf, HostapdUp, System, Job
  <2>2. CASE cmd # "start-ap"
    <3>1. r \in {[ s EXCEPT !.client = FALSE ], [ s EXCEPT !.enslaved = FALSE ],
                [ s EXCEPT !.mesh = FALSE ]}
      BY <1>3, <2>2 DEF Remains
    <3> QED BY <3>1 DEF RemainsOf, System
  <2> QED BY <2>1, <2>2
<1> QED BY <1>1, <1>2, <1>3

-----------------------------------------------------------------------------
(* Types.                                                                  *)

LEMMA BackhaulStep == BackhaulTypeOK /\ [BackhaulNext]_backhaulVars => BackhaulTypeOK'
<1> SUFFICES ASSUME BackhaulTypeOK, [BackhaulNext]_backhaulVars
             PROVE  BackhaulTypeOK'
  OBVIOUS
<1> DEFINE Jobs == job' \in [Runner -> Job] /\ \A t \in Runner : Len(job'[t].todo) <= 12
           Counts == apEvents' \in 0 .. MaxApEvents
           Past == /\ reported' \in Report /\ overlapped' \in BOOLEAN
                   /\ tainted' \in BOOLEAN
                   /\ late' \subseteq {"password", "apply", "crash", "failure"}
           Things == /\ config' \in BackhaulConfig
                     /\ setup' \in [ flag : BOOLEAN, password : {"default", "own"} ]
                     /\ system' \in System
<1>1. NoReport \in Report /\ (ApEvent => Counts)
  BY BackhaulAssumption DEF NoReport, Report, ApEvent, BackhaulTypeOK
<1>2. ASSUME NEW t \in Runner, NEW j, Fresh(j), Begin(t, j)
      PROVE  Jobs /\ reported' \in Report /\ overlapped' \in BOOLEAN /\ tainted' \in BOOLEAN
  <2>1. Jobs
    BY <1>2, Begins DEF Fresh, BackhaulTypeOK
  <2> QED BY <1>1, <1>2, <2>1 DEF Begin, BackhaulTypeOK, Quiet, Busy
<1>3. ASSUME NEW t \in Runner, NEW q \in Seq(Command), Len(q) <= 12, Goes(t, q)
      PROVE  Jobs
  BY <1>3, GoesOn DEF BackhaulTypeOK
<1>4. ASSUME NEW t \in Runner, StalePortal(t) PROVE BackhaulTypeOK'
  <2>1. CASE SetupComplete /\ system.flag
    <3> DEFINE j == Silent(PortalScript, TRUE)
    <3>1. Fresh(j)
      BY FreshPortal
    <3>2. job' = [job EXCEPT ![t] = j]
      BY <1>4, <2>1 DEF StalePortal
    <3> HIDE DEF j
    <3>3. Jobs
      BY <3>1, <3>2 DEF Fresh, BackhaulTypeOK
    <3> QED BY <1>4, <3>3 DEF StalePortal, historyVars, BackhaulTypeOK
  <2>2. CASE ~ (SetupComplete /\ system.flag)
    <3>1. Goes(t, <<>>)
      BY <1>4, <2>2, Zenon DEF StalePortal
    <3>2. <<>> \in Seq(Command) /\ Len(<<>>) <= 12
      OBVIOUS
    <3>3. Jobs
      BY <1>3, <3>1, <3>2, Zenon
    <3> QED BY <1>4, <3>3 DEF StalePortal, historyVars, BackhaulTypeOK
  <2> QED BY <2>1, <2>2
<1>5. ASSUME NEW t \in Runner, Call(t) PROVE BackhaulTypeOK'
  <2>1. Busy(t) /\ Goes(t, Rest(t))
    BY <1>5 DEF Call
  <2>2. Jobs
    BY <1>3, <2>1, NextCall, Zenon
  <2>3. system' \in System
    BY <1>5, <2>1, NextCall, EffectIs DEF Call, EffectOf, BackhaulTypeOK
  <2>4. reported' \in Report
    BY <1>5, <2>1, NextCall DEF Call, BackhaulTypeOK, Job
  <2> QED BY <1>5, <2>2, <2>3, <2>4 DEF Call, BackhaulTypeOK
<1>6. ASSUME NEW t \in Runner, CallFails(t) PROVE BackhaulTypeOK'
  <2>1. Busy(t)
    BY <1>6 DEF CallFails
  <2>2. Jobs
    <3>1. CASE Head(job[t].todo) = "set-captive-portal" /\ job[t].boot
      <4> DEFINE k == [ job[t] EXCEPT !.todo = Rest(t), !.captive = FALSE ]
      <4>1. job' = [job EXCEPT ![t] = k]
        BY <1>6, <3>1 DEF CallFails
      <4>2. k \in Job /\ Len(k.todo) <= 12
        BY <2>1, NextCall DEF Job
      <4> HIDE DEF k
      <4> QED BY <4>1, <4>2 DEF BackhaulTypeOK
    <3>2. CASE ~ (Head(job[t].todo) = "set-captive-portal" /\ job[t].boot)
      <4>1. Goes(t, Aborted(t))
        BY <1>6, <3>2 DEF CallFails
      <4> QED BY <1>3, <2>1, <4>1, NextCall, Zenon
    <3> QED BY <3>1, <3>2
  <2>3. system' \in System
    BY <1>6, <2>1, NextCall, RemainsIs DEF CallFails, RemainsOf, BackhaulTypeOK
  <2> QED BY <1>1, <1>6, <2>2, <2>3 DEF CallFails, BackhaulTypeOK
<1>7. ASSUME NEW w \in Worker, ApplyBackhaul(w) PROVE BackhaulTypeOK'
  <2> DEFINE j == [ todo |-> ApplyScript(config, ~ SetupComplete),
                    report |-> [ mode |-> config.mode, nat |-> NatReport ],
                    bridged |-> config.mesh_bridged, captive |-> ~ SetupComplete,
                    boot |-> FALSE ]
  <2>1. Fresh(j)
    <3>1. config \in BackhaulConfig /\ (~ SetupComplete) \in BOOLEAN
      BY DEF BackhaulTypeOK, SetupComplete
    <3> QED BY <3>1, FreshApply DEF NatReport
  <2>2. Begin(w, j) /\ w \in Runner
    BY <1>7 DEF ApplyBackhaul, Runner
  <2> HIDE DEF j
  <2>3. Jobs /\ reported' \in Report /\ overlapped' \in BOOLEAN /\ tainted' \in BOOLEAN
    BY <1>2, <2>1, <2>2
  <2> QED BY <1>1, <1>7, <2>3 DEF ApplyBackhaul, BackhaulTypeOK
<1>8. ASSUME NEW w \in Worker, ApplyNetwork(w) PROVE BackhaulTypeOK'
  <2>1. w \in Runner
    BY DEF Runner
  <2>2. Jobs /\ reported' \in Report /\ overlapped' \in BOOLEAN /\ tainted' \in BOOLEAN
    BY <1>2, <1>8, <2>1, FreshNetwork DEF ApplyNetwork
  <2> QED BY <1>1, <1>8, <2>2 DEF ApplyNetwork, BackhaulTypeOK
<1>9. ASSUME PatchBackhaul PROVE BackhaulTypeOK'
  BY <1>1, <1>9 DEF PatchBackhaul, BackhaulTypeOK
<1>10. ASSUME CompleteSetup PROVE BackhaulTypeOK'
  <2>1. "loop" \in Runner
    BY DEF Runner
  <2>2. Jobs /\ reported' \in Report /\ overlapped' \in BOOLEAN /\ tainted' \in BOOLEAN
    <3>1. CASE SetupComplete
      BY <1>10, <3>1 DEF CompleteSetup, BackhaulTypeOK
    <3>2. CASE ~ SetupComplete
      <4>1. Begin("loop", Silent(PortalScript, FALSE))
        BY <1>10, <3>2 DEF CompleteSetup, CompletionScript
      <4> QED BY <1>2, <2>1, <4>1, FreshPortal
    <3> QED BY <3>1, <3>2
  <2> QED BY <1>1, <1>10, <2>2 DEF CompleteSetup, BackhaulTypeOK
<1>11. ASSUME RestartHostapd PROVE BackhaulTypeOK'
  <2>1. system' \in System
    BY <1>11 DEF RestartHostapd, HostapdUp, BackhaulTypeOK, System
  <2> QED BY <1>1, <1>11, <2>1 DEF RestartHostapd, BackhaulTypeOK, Quiet, Busy
<1>12. ASSUME Started PROVE Jobs
  BY <1>12, Starts DEF Fresh
<1>13. ASSUME RestartBackend PROVE BackhaulTypeOK'
  BY <1>1, <1>12, <1>13 DEF RestartBackend, BackhaulTypeOK
<1>14. ASSUME Reboot PROVE BackhaulTypeOK'
  <2>1. system' \in System
    BY <1>14 DEF Reboot, BackhaulTypeOK, System
  <2> QED BY <1>1, <1>12, <1>14, <2>1 DEF Reboot, BackhaulTypeOK
<1>15. CASE UNCHANGED backhaulVars
  BY <1>15 DEF backhaulVars, BackhaulTypeOK
<1> QED
  BY <1>4, <1>5, <1>6, <1>7, <1>8, <1>9, <1>10, <1>11, <1>13, <1>14, <1>15
  DEF BackhaulNext

LEMMA BackhaulStart == BackhaulInit => BackhaulTypeOK
<1> SUFFICES ASSUME BackhaulInit PROVE BackhaulTypeOK
  OBVIOUS
<1> DEFINE j == [ todo |-> BootScript(config, TRUE), report |-> NoReport,
                  bridged |-> FALSE, captive |-> TRUE, boot |-> TRUE ]
<1>1. config \in BackhaulConfig /\ config.mesh_bridged = FALSE
  BY DEF BackhaulInit, BackhaulConfig, Mode
<1>2. Fresh(j) /\ Fresh(Idle)
  BY <1>1, FreshBoot, FreshIdle
<1>3. job = [t \in Runner |-> IF t = "loop" THEN j ELSE Idle]
  BY DEF BackhaulInit
<1> HIDE DEF j
<1>4. job \in [Runner -> Job] /\ \A t \in Runner : Len(job[t].todo) <= 12
  BY <1>2, <1>3 DEF Fresh
<1>5. system \in System
  BY DEF BackhaulInit, System
<1>6. setup \in [ flag : BOOLEAN, password : {"default", "own"} ]
  BY DEF BackhaulInit
<1>7. reported \in Report
  BY DEF BackhaulInit, NoReport, Report
<1>8. /\ overlapped \in BOOLEAN /\ tainted \in BOOLEAN
      /\ late \subseteq {"password", "apply", "crash", "failure"}
      /\ apEvents \in 0 .. MaxApEvents
  <2>1. overlapped = FALSE /\ tainted = FALSE /\ late = {} /\ apEvents = 0
    BY Zenon DEF BackhaulInit
  <2>2. 0 \in 0 .. MaxApEvents
    BY BackhaulAssumption
  <2> QED BY <2>1, <2>2, Zenon
<1> QED BY <1>1, <1>4, <1>5, <1>6, <1>7, <1>8 DEF BackhaulTypeOK

\* Every variable keeps its type, and no script is longer than twelve calls.
THEOREM BackhaulTypes == BackhaulSpec => []BackhaulTypeOK
BY BackhaulStart, BackhaulStep, PTL DEF BackhaulSpec

-----------------------------------------------------------------------------
(* The access point and the mesh.                                          *)

\* A call keeps what Guarded says of the rest of the script.
LEMMA GuardedTail ==
  ASSUME NEW q \in Seq(Command), q # <<>>, NEW s \in System, NEW j \in Job, NEW e,
         Guarded(q, j.bridged, s), EffectOf(Head(q), s, j, e)
  PROVE  Guarded(Tail(q), j.bridged, e)
<1> DEFINE r == Tail(q)
           b == j.bridged
<1>1. /\ Len(q) \in Nat /\ Len(q) >= 1 /\ Head(q) = q[1]
      /\ Len(r) = Len(q) - 1
      /\ \A i \in 1 .. Len(q) - 1 : r[i] = q[i + 1]
  OBVIOUS
<1> HIDE DEF r
<1> SUFFICES ASSUME NEW i \in 1 .. Len(r)
             PROVE  /\ r[i] = "start-ap" /\ ~ b =>
                         IF i = 1 THEN e.drops ELSE r[i - 1] = "isolate-mesh"
                    /\ r[i] = "bridge-mesh" =>
                         b /\ IF i = 1 THEN e.hostapd = "bridged" ELSE r[i - 1] = "start-ap"
  BY DEF Guarded, r
<1>2. i + 1 \in 1 .. Len(q) /\ i + 1 # 1 /\ r[i] = q[i + 1] /\ (i + 1) - 1 = i
  BY <1>1
<1>3. /\ r[i] = "start-ap" /\ ~ b => q[i] = "isolate-mesh"
      /\ r[i] = "bridge-mesh" => b /\ q[i] = "start-ap"
  BY <1>2 DEF Guarded
<1>4. CASE i = 1
  <2>1. Head(q) = q[i]
    BY <1>1, <1>4
  <2>2. /\ Head(q) = "isolate-mesh" => e.drops
        /\ Head(q) = "start-ap" /\ b => e.hostapd = "bridged"
    BY DEF EffectOf
  <2> QED BY <1>3, <1>4, <2>1, <2>2
<1>5. CASE i # 1
  <2>1. i - 1 \in 1 .. Len(q) - 1 /\ (i - 1) + 1 = i
    BY <1>1, <1>5
  <2>2. r[i - 1] = q[i]
    BY <1>1, <2>1
  <2> QED BY <1>3, <1>5, <2>2
<1> QED BY <1>4, <1>5

\* Neither a call nor what one leaves when it fails opens the access point.
LEMMA KeptByCall ==
  ASSUME NEW q \in Seq(Command), q # <<>>, NEW s \in System, NEW j \in Job, NEW e,
         Guarded(q, j.bridged, s), KeptApart(s), RemainsOf(Head(q), s, j, e)
  PROVE  KeptApart(e)
<1>1. 1 \in 1 .. Len(q) /\ Head(q) = q[1]
  OBVIOUS
<1>2. /\ Head(q) = "start-ap" /\ ~ j.bridged => s.drops
      /\ Head(q) = "bridge-mesh" => s.hostapd = "bridged"
  BY <1>1 DEF Guarded
<1>3. CASE EffectOf(Head(q), s, j, e)
  <2>1. CASE Head(q) = "start-ap"
    <3>1. /\ e.hostapd = (IF j.bridged THEN "bridged" ELSE "isolated")
          /\ e.drops = s.drops /\ e.enslaved = FALSE
      BY <1>3, <2>1 DEF EffectOf
    <3> QED BY <1>2, <2>1, <3>1 DEF KeptApart
  <2>2. CASE Head(q) = "bridge-mesh"
    <3>1. e.hostapd = "bridged"
      BY <1>2, <1>3, <2>2 DEF EffectOf
    <3> QED BY <3>1 DEF KeptApart
  <2>3. CASE Head(q) \in {"stop-ap", "cleanup"}
    <3>1. e.hostapd = "off"
      BY <1>3, <2>3 DEF EffectOf
    <3> QED BY <3>1 DEF KeptApart
  <2>4. CASE Head(q) \notin {"start-ap", "bridge-mesh", "stop-ap", "cleanup"}
    <3>1. /\ e.hostapd = s.hostapd
          /\ s.drops => e.drops
          /\ ~ s.enslaved => ~ e.enslaved
      BY <1>3, <2>4 DEF EffectOf
    <3> QED BY <3>1 DEF KeptApart
  <2> QED BY <2>1, <2>2, <2>3, <2>4
<1>4. CASE ~ EffectOf(Head(q), s, j, e)
  BY <1>2, <1>4 DEF RemainsOf, KeptApart
<1> QED BY <1>3, <1>4

\* When one job is at work the others have nothing to call.
LEMMA OthersRest ==
  ASSUME Alone, NEW t \in Runner, Busy(t) \/ Quiet,
         \A u \in Runner : u # t => job'[u] = job[u]
  PROVE  /\ \A u \in Runner : u # t => job'[u].todo = <<>>
         /\ Alone'
BY DEF Alone, Busy, Quiet

LEMMA GuardedNothing == ASSUME NEW b, NEW s PROVE Guarded(<<>>, b, s)
BY DEF Guarded

LEMMA GuardedStale == ASSUME NEW b, NEW s PROVE Guarded(<<"stale-portal">>, b, s)
BY DEF Guarded

\* The calls whose failure does not end the script are not followed by the
\* start of an access point, nor by its bridging.
LEMMA GuardedPastFailure ==
  ASSUME NEW q \in Seq(Command), q # <<>>, NEW b, NEW s, NEW e,
         Guarded(q, b, s), ~ EndsScript(Head(q))
  PROVE  Guarded(Tail(q), b, e)
<1> DEFINE r == Tail(q)
<1>1. /\ Len(q) \in Nat /\ Len(q) >= 1 /\ Head(q) = q[1]
      /\ Len(r) = Len(q) - 1
      /\ \A i \in 1 .. Len(q) - 1 : r[i] = q[i + 1]
  OBVIOUS
<1> HIDE DEF r
<1> SUFFICES ASSUME NEW i \in 1 .. Len(r)
             PROVE  /\ r[i] = "start-ap" /\ ~ b =>
                         IF i = 1 THEN e.drops ELSE r[i - 1] = "isolate-mesh"
                    /\ r[i] = "bridge-mesh" =>
                         b /\ IF i = 1 THEN e.hostapd = "bridged" ELSE r[i - 1] = "start-ap"
  BY DEF Guarded, r
<1>2. i + 1 \in 1 .. Len(q) /\ i + 1 # 1 /\ r[i] = q[i + 1] /\ (i + 1) - 1 = i
  BY <1>1
<1>3. /\ r[i] = "start-ap" /\ ~ b => q[i] = "isolate-mesh"
      /\ r[i] = "bridge-mesh" => b /\ q[i] = "start-ap"
  BY <1>2 DEF Guarded
<1>4. CASE i = 1
  <2>1. q[i] \notin {"isolate-mesh", "start-ap"}
    BY <1>1, <1>4 DEF EndsScript
  <2> QED BY <1>3, <2>1
<1>5. CASE i # 1
  <2>1. i - 1 \in 1 .. Len(q) - 1 /\ (i - 1) + 1 = i
    BY <1>1, <1>5
  <2>2. r[i - 1] = q[i]
    BY <1>1, <2>1
  <2> QED BY <1>3, <1>5, <2>2
<1> QED BY <1>4, <1>5

Guards == \A t \in Runner : Guarded(job[t].todo, job[t].bridged, system)

LEMMA IsolationStep ==
  BackhaulTypeOK /\ IsolationInv /\ [BackhaulNext]_backhaulVars => IsolationInv'
<1> SUFFICES ASSUME BackhaulTypeOK, IsolationInv, [BackhaulNext]_backhaulVars,
                    overlapped' = FALSE
             PROVE  KeptApart(system') /\ Alone' /\ Guards'
  <2>1. BackhaulTypeOK /\ [BackhaulNext]_backhaulVars => overlapped' \in BOOLEAN
    BY BackhaulStep DEF BackhaulTypeOK
  <2> QED BY <2>1 DEF IsolationInv, Guards
<1>1. overlapped = FALSE
  <2>1. overlapped \in BOOLEAN
    BY DEF BackhaulTypeOK
  <2>2. overlapped => overlapped'
    BY DEF BackhaulNext, StalePortal, Call, CallFails, ApplyBackhaul, ApplyNetwork,
           PatchBackhaul, CompleteSetup, RestartHostapd, RestartBackend, Reboot, Begin,
           historyVars, backhaulVars
  <2> QED BY <2>1, <2>2
<1>2. KeptApart(system) /\ Alone /\ Guards
  BY <1>1 DEF IsolationInv, Guards
<1>3. ASSUME NEW t \in Runner, Busy(t) \/ Quiet,
             \A u \in Runner : u # t => job'[u] = job[u],
             Guarded(job'[t].todo, job'[t].bridged, system')
      PROVE  Alone' /\ Guards'
  <2>1. Alone' /\ \A u \in Runner : u # t => job'[u].todo = <<>>
    BY <1>2, <1>3, OthersRest
  <2>2. \A u \in Runner : u # t => Guarded(job'[u].todo, job'[u].bridged, system')
    BY <2>1, GuardedNothing
  <2> QED BY <1>3, <2>1, <2>2 DEF Guards
<1>4. ASSUME NEW t \in Runner, NEW j, Fresh(j), Begin(t, j) PROVE Alone' /\ Guards'
  <2>1. Quiet
    BY <1>1, <1>4 DEF Begin
  <2>2. job'[t] = j /\ \A u \in Runner : u # t => job'[u] = job[u]
    BY <1>4, Begins
  <2>3. Guarded(job'[t].todo, job'[t].bridged, system')
    BY <1>4, <2>2, FreshGuarded
  <2> QED BY <1>3, <2>1, <2>2, <2>3
<1>5. ASSUME NEW t \in Runner, StalePortal(t)
      PROVE  KeptApart(system') /\ Alone' /\ Guards'
  <2>1. Busy(t) /\ system' = system
    BY <1>5 DEF StalePortal
  <2>2. /\ \A u \in Runner : u # t => job'[u] = job[u]
        /\ Guarded(job'[t].todo, job'[t].bridged, system')
    <3>1. CASE SetupComplete /\ system.flag
      <4> DEFINE j == Silent(PortalScript, TRUE)
      <4>1. Fresh(j)
        BY FreshPortal
      <4>2. job' = [job EXCEPT ![t] = j]
        BY <1>5, <3>1 DEF StalePortal
      <4> HIDE DEF j
      <4>3. job'[t] = j /\ \A u \in Runner : u # t => job'[u] = job[u]
        BY <4>2 DEF BackhaulTypeOK
      <4> QED BY <4>1, <4>3, FreshGuarded
    <3>2. CASE ~ (SetupComplete /\ system.flag)
      <4>1. Goes(t, <<>>)
        BY <1>5, <3>2, Zenon DEF StalePortal
      <4>2. <<>> \in Seq(Command)
        OBVIOUS
      <4>3. job'[t].todo = <<>> /\ \A u \in Runner : u # t => job'[u] = job[u]
        BY <4>1, <4>2, GoesOn, Zenon
      <4> QED BY <4>3, GuardedNothing
    <3> QED BY <3>1, <3>2
  <2> QED BY <1>2, <1>3, <2>1, <2>2
<1>6. ASSUME NEW t \in Runner, Call(t)
      PROVE  KeptApart(system') /\ Alone' /\ Guards'
  <2> DEFINE q == job[t].todo
  <2>1. Busy(t) /\ Goes(t, Rest(t)) /\ system' = Effect(Head(q), system, job[t])
    BY <1>6 DEF Call
  <2>2. /\ job[t] \in Job /\ q \in Seq(Command) /\ q # <<>> /\ Head(q) \in Command
        /\ Rest(t) \in Seq(Command) /\ Rest(t) = Tail(q) /\ system \in System
    BY <2>1, NextCall DEF Rest, BackhaulTypeOK
  <2>3. EffectOf(Head(q), system, job[t], system')
    BY <2>1, <2>2, EffectIs, Zenon
  <2>4. Guarded(q, job[t].bridged, system)
    BY <1>2 DEF Guards
  <2>5. KeptApart(system')
    <3>1. RemainsOf(Head(q), system, job[t], system')
      <4>1. system' \in System
        BY <2>3 DEF EffectOf
      <4> QED BY <2>3, <4>1 DEF RemainsOf
    <3> HIDE DEF q
    <3> QED BY <1>2, <2>2, <2>4, <3>1, KeptByCall
  <2>6. Guarded(Rest(t), job[t].bridged, system')
    <3> HIDE DEF q
    <3>1. Guarded(Tail(q), job[t].bridged, system')
      BY <2>2, <2>3, <2>4, GuardedTail
    <3> QED BY <2>2, <3>1
  <2>7. /\ \A u \in Runner : u # t => job'[u] = job[u]
        /\ job'[t].todo = Rest(t)
        /\ Rest(t) # <<>> => job'[t].bridged = job[t].bridged
    BY <2>1, <2>2, GoesOn, Zenon
  <2>8. Guarded(job'[t].todo, job'[t].bridged, system')
    BY <2>6, <2>7, GuardedNothing
  <2> QED BY <1>3, <2>1, <2>5, <2>7, <2>8
<1>7. ASSUME NEW t \in Runner, CallFails(t)
      PROVE  KeptApart(system') /\ Alone' /\ Guards'
  <2> DEFINE q == job[t].todo
  <2>1. Busy(t) /\ system' \in Remains(Head(q), system, job[t])
    BY <1>7 DEF CallFails
  <2>2. /\ job[t] \in Job /\ q \in Seq(Command) /\ q # <<>> /\ Head(q) \in Command
        /\ Rest(t) \in Seq(Command) /\ Rest(t) = Tail(q) /\ system \in System
        /\ Aborted(t) \in Seq(Command)
        /\ Aborted(t) \in {Rest(t), <<>>, <<"stale-portal">>}
        /\ EndsScript(Head(q)) => Aborted(t) \in {<<>>, <<"stale-portal">>}
    BY <2>1, NextCall DEF Rest, BackhaulTypeOK
  <2>3. RemainsOf(Head(q), system, job[t], system')
    BY <2>1, <2>2, RemainsIs, Zenon
  <2>4. Guarded(q, job[t].bridged, system)
    BY <1>2 DEF Guards
  <2>5. KeptApart(system')
    <3> HIDE DEF q
    <3> QED BY <1>2, <2>2, <2>3, <2>4, KeptByCall
  <2>6. ~ EndsScript(Head(q)) => Guarded(Rest(t), job[t].bridged, system')
    <3> HIDE DEF q
    <3>1. ~ EndsScript(Head(q)) => Guarded(Tail(q), job[t].bridged, system')
      BY <2>2, <2>4, GuardedPastFailure
    <3> QED BY <2>2, <3>1
  <2>7. /\ \A u \in Runner : u # t => job'[u] = job[u]
        /\ Guarded(job'[t].todo, job'[t].bridged, system')
    <3>1. CASE Head(q) = "set-captive-portal" /\ job[t].boot
      <4> DEFINE k == [ job[t] EXCEPT !.todo = Rest(t), !.captive = FALSE ]
      <4>1. job' = [job EXCEPT ![t] = k]
        BY <1>7, <3>1 DEF CallFails
      <4>2. k.todo = Rest(t) /\ k.bridged = job[t].bridged
        BY <2>2 DEF Job
      <4>3. ~ EndsScript(Head(q))
        BY <3>1 DEF EndsScript
      <4> HIDE DEF k
      <4>4. job'[t] = k /\ \A u \in Runner : u # t => job'[u] = job[u]
        BY <4>1 DEF BackhaulTypeOK
      <4> QED BY <2>6, <4>2, <4>3, <4>4
    <3>2. CASE ~ (Head(q) = "set-captive-portal" /\ job[t].boot)
      <4>1. Goes(t, Aborted(t))
        BY <1>7, <3>2 DEF CallFails
      <4>2. /\ \A u \in Runner : u # t => job'[u] = job[u]
            /\ job'[t].todo = Aborted(t)
            /\ Aborted(t) # <<>> => job'[t].bridged = job[t].bridged
        BY <2>2, <4>1, GoesOn, Zenon
      <4>3. CASE Aborted(t) \in {<<>>, <<"stale-portal">>}
        BY <4>2, <4>3, GuardedNothing, GuardedStale
      <4>4. CASE Aborted(t) \notin {<<>>, <<"stale-portal">>}
        <5>1. Aborted(t) = Rest(t) /\ ~ EndsScript(Head(q))
          BY <2>2, <4>4
        <5> QED BY <2>6, <4>2, <4>4, <5>1
      <4> QED BY <4>2, <4>3, <4>4
    <3> QED BY <3>1, <3>2
  <2> QED BY <1>3, <2>1, <2>5, <2>7
<1>8. ASSUME NEW w \in Worker, ApplyBackhaul(w)
      PROVE  KeptApart(system') /\ Alone' /\ Guards'
  <2> DEFINE j == [ todo |-> ApplyScript(config, ~ SetupComplete),
                    report |-> [ mode |-> config.mode, nat |-> NatReport ],
                    bridged |-> config.mesh_bridged, captive |-> ~ SetupComplete,
                    boot |-> FALSE ]
  <2>1. Fresh(j)
    <3>1. config \in BackhaulConfig /\ (~ SetupComplete) \in BOOLEAN
      BY DEF BackhaulTypeOK, SetupComplete
    <3> QED BY <3>1, FreshApply DEF NatReport
  <2>2. Begin(w, j) /\ w \in Runner /\ system' = system
    BY <1>8 DEF ApplyBackhaul, Runner
  <2> HIDE DEF j
  <2> QED BY <1>2, <1>4, <2>1, <2>2
<1>9. ASSUME NEW w \in Worker, ApplyNetwork(w)
      PROVE  KeptApart(system') /\ Alone' /\ Guards'
  <2>1. w \in Runner /\ system' = system
    BY <1>9 DEF Runner, ApplyNetwork
  <2> QED BY <1>2, <1>4, <1>9, <2>1, FreshNetwork DEF ApplyNetwork
<1>10. ASSUME CompleteSetup PROVE KeptApart(system') /\ Alone' /\ Guards'
  <2>1. "loop" \in Runner /\ system' = system
    BY <1>10 DEF Runner, CompleteSetup
  <2>2. CASE SetupComplete
    <3>1. job' = job
      BY <1>10, <2>2 DEF CompleteSetup
    <3> QED BY <1>2, <2>1, <3>1 DEF Guards, Alone, Busy
  <2>3. CASE ~ SetupComplete
    <3>1. Begin("loop", Silent(PortalScript, FALSE))
      BY <1>10, <2>3 DEF CompleteSetup, CompletionScript
    <3> QED BY <1>2, <1>4, <2>1, <3>1, FreshPortal
  <2> QED BY <2>2, <2>3
<1>11. ASSUME RestartHostapd PROVE KeptApart(system') /\ Alone' /\ Guards'
  <2>1. /\ job' = job /\ system.drops
        /\ system' = HostapdUp(system, system.hostapd = "bridged")
    BY <1>11 DEF RestartHostapd
  <2>2. /\ system'.drops = system.drops /\ system'.enslaved = FALSE
        /\ system.hostapd = "bridged" => system'.hostapd = "bridged"
    BY <2>1 DEF HostapdUp, BackhaulTypeOK, System
  <2>3. Guards'
    BY <1>2, <2>1, <2>2 DEF Guards, Guarded
  <2> QED BY <1>2, <2>1, <2>2, <2>3 DEF KeptApart, Alone, Busy
<1>12. ASSUME Started PROVE Alone' /\ Guards'
  <2>1. /\ \A t \in Runner : Fresh(job'[t])
        /\ \A t \in Runner : t # "loop" => job'[t] = Idle
    BY <1>12, Starts
  <2>2. Guards'
    BY <2>1, FreshGuarded DEF Guards
  <2> QED BY <2>1, <2>2 DEF Alone, Busy, Idle, Silent
<1>13. ASSUME RestartBackend PROVE KeptApart(system') /\ Alone' /\ Guards'
  BY <1>2, <1>12, <1>13 DEF RestartBackend
<1>14. ASSUME Reboot PROVE KeptApart(system') /\ Alone' /\ Guards'
  <2>1. system'.hostapd = "off"
    BY <1>14 DEF Reboot, BackhaulTypeOK, System
  <2> QED BY <1>12, <1>14, <2>1 DEF Reboot, KeptApart
<1>15. CASE PatchBackhaul \/ UNCHANGED backhaulVars
  <2>1. job' = job /\ system' = system
    BY <1>15 DEF PatchBackhaul, backhaulVars
  <2> QED BY <1>2, <2>1 DEF Guards, Alone, Busy
<1> QED
  BY <1>5, <1>6, <1>7, <1>8, <1>9, <1>10, <1>11, <1>13, <1>14, <1>15 DEF BackhaulNext

LEMMA IsolationInit == BackhaulInit => IsolationInv
<1> SUFFICES ASSUME BackhaulInit PROVE IsolationInv
  OBVIOUS
<1> DEFINE j == [ todo |-> BootScript(config, TRUE), report |-> NoReport,
                  bridged |-> FALSE, captive |-> TRUE, boot |-> TRUE ]
<1>1. config \in BackhaulConfig /\ config.mesh_bridged = FALSE
  BY DEF BackhaulInit, BackhaulConfig, Mode
<1>2. Fresh(j) /\ Fresh(Idle)
  BY <1>1, FreshBoot, FreshIdle
<1>3. job = [t \in Runner |-> IF t = "loop" THEN j ELSE Idle]
  BY DEF BackhaulInit
<1> HIDE DEF j
<1>4. \A t \in Runner : Fresh(job[t]) /\ (t # "loop" => job[t] = Idle)
  BY <1>2, <1>3
<1>5. Alone
  BY <1>4 DEF Alone, Busy, Idle, Silent
<1>6. \A t \in Runner : Guarded(job[t].todo, job[t].bridged, system)
  BY <1>4, FreshGuarded
<1>7. KeptApart(system)
  <2>1. system.hostapd = "off"
    BY DEF BackhaulInit
  <2> QED BY <2>1 DEF KeptApart
<1> QED BY <1>5, <1>6, <1>7 DEF IsolationInv

\* An access point that is to be kept apart from the mesh is kept apart between
\* any two calls of any script and after any failure, restart and reboot
\* (apply_ap_mode).
THEOREM BackhaulIsolation == BackhaulSpec => []APIsolated
<1>1. BackhaulSpec => []IsolationInv
  BY IsolationInit, IsolationStep, BackhaulTypes, PTL DEF BackhaulSpec
<1>2. IsolationInv => APIsolated
  BY DEF IsolationInv, APIsolated, KeptApart
<1> QED BY <1>1, <1>2, PTL

-----------------------------------------------------------------------------
(* What is reported.                                                       *)

LEMMA EndOfTail ==
  ASSUME NEW q \in Seq(Command), q # <<>>, NEW cmd, q[Len(q)] = cmd
  PROVE  /\ Tail(q) = <<>> => Head(q) = cmd
         /\ Tail(q) # <<>> => Tail(q)[Len(Tail(q))] = cmd
<1>1. /\ Len(q) \in Nat /\ Len(q) >= 1 /\ Head(q) = q[1]
      /\ Tail(q) \in Seq(Command) /\ Len(Tail(q)) = Len(q) - 1
      /\ \A i \in 1 .. Len(q) - 1 : Tail(q)[i] = q[i + 1]
  OBVIOUS
<1>2. CASE Len(q) = 1
  <2>1. Tail(q) = <<>>
    <3>1. Len(Tail(q)) = 0
      BY <1>1, <1>2
    <3> QED BY <1>1, <3>1, EmptySeq
  <2> QED BY <1>1, <1>2, <2>1
<1>3. CASE Len(q) # 1
  <2>1. Len(q) - 1 \in 1 .. Len(q) - 1 /\ (Len(q) - 1) + 1 = Len(q)
    BY <1>1, <1>3
  <2>2. Tail(q)[Len(Tail(q))] = cmd
    BY <1>1, <2>1
  <2>3. Tail(q) # <<>>
    BY <1>1, <1>3
  <2> QED BY <2>2, <2>3
<1> QED BY <1>2, <1>3

\* A call that succeeds brings the system nearer to what is reported.
LEMMA WillModeTail ==
  ASSUME NEW q \in Seq(Command), q # <<>>, NEW mode, NEW s \in System, NEW j \in Job, NEW e,
         WillMode(q, mode, s), EffectOf(Head(q), s, j, e)
  PROVE  WillMode(Tail(q), mode, e)
<1> DEFINE h == Head(q)
           r == Tail(q)
           Q == ToSet(q)
           R == ToSet(r)
<1>1. h \in Command /\ Q = {h} \cup R
  BY CallsOfTail
<1>2. e \in System
  BY DEF EffectOf
<1>3. CASE mode = "ap"
  <2>1. /\ Q \cap {"stop-ap", "cleanup", "teardown-bridge", "start-client"} = {}
        /\ "start-ap" \in Q \/ (s.hostapd # "off" /\ s.dns # "off" /\ s.bridge)
        /\ "stop-client" \in Q \/ ~ s.client
    BY <1>3 DEF WillMode
  <2> HIDE DEF h, r, Q, R
  <2>2. h \notin {"stop-ap", "cleanup", "teardown-bridge", "start-client"}
    BY <1>1, <2>1
  <2>3. /\ h = "start-ap" \/ (s.hostapd # "off" /\ s.dns # "off" /\ s.bridge)
             => e.hostapd # "off" /\ e.dns # "off" /\ e.bridge
        /\ h = "stop-client" \/ ~ s.client => ~ e.client
    BY <2>2 DEF EffectOf, System, h
  <2>4. /\ R \cap {"stop-ap", "cleanup", "teardown-bridge", "start-client"} = {}
        /\ "start-ap" \in R \/ (e.hostapd # "off" /\ e.dns # "off" /\ e.bridge)
        /\ "stop-client" \in R \/ ~ e.client
    BY <1>1, <2>1, <2>3
  <2> QED BY <1>3, <2>4 DEF WillMode, R, r
<1>4. CASE mode = "client"
  <2> DEFINE U == {"start-ap", "setup-bridge", "cleanup", "stop-client", "restart-dnsmasq"}
  <2>1. /\ Q \cap U = {}
        /\ "stop-ap" \in Q \/ (s.hostapd = "off" /\ s.dns = "off")
        /\ "teardown-bridge" \in Q \/ ~ s.bridge
        /\ "start-client" \in Q \/ s.client
    BY <1>4 DEF WillMode
  <2> HIDE DEF h, r, Q, R
  <2>2. h \notin U
    BY <1>1, <2>1
  <2>3. /\ h = "stop-ap" \/ (s.hostapd = "off" /\ s.dns = "off")
             => e.hostapd = "off" /\ e.dns = "off"
        /\ h = "teardown-bridge" \/ ~ s.bridge => ~ e.bridge
        /\ h = "start-client" \/ s.client => e.client
    BY <2>2 DEF EffectOf, h
  <2>4. /\ R \cap U = {}
        /\ "stop-ap" \in R \/ (e.hostapd = "off" /\ e.dns = "off")
        /\ "teardown-bridge" \in R \/ ~ e.bridge
        /\ "start-client" \in R \/ e.client
    BY <1>1, <2>1, <2>3
  <2> QED BY <1>4, <2>4 DEF WillMode, R, r
<1>5. CASE mode = "disabled"
  <2> DEFINE U == {"start-ap", "setup-bridge", "start-client", "restart-dnsmasq"}
             Off(x) == x.hostapd = "off" /\ x.dns = "off" /\ ~ x.bridge /\ ~ x.client
  <2>1. Q \cap U = {} /\ ("cleanup" \in Q \/ Off(s))
    BY <1>5 DEF WillMode
  <2> HIDE DEF h, r, Q, R
  <2>2. h \notin U
    BY <1>1, <2>1
  <2>3. h = "cleanup" \/ Off(s) => Off(e)
    BY <2>2 DEF EffectOf, h
  <2>4. R \cap U = {} /\ ("cleanup" \in R \/ Off(e))
    BY <1>1, <2>1, <2>3
  <2> QED BY <1>5, <2>4 DEF WillMode, R, r
<1>6. CASE mode = "network"
  <2>1. /\ Q \cap {"cleanup"} = {}
        /\ "mesh-up" \in Q \/ s.mesh
        /\ q[Len(q)] = "restart-reticulum"
    BY <1>6 DEF WillMode, EndsWith
  <2>2. /\ r = <<>> => h = "restart-reticulum"
        /\ r # <<>> => r[Len(r)] = "restart-reticulum"
    BY <2>1, EndOfTail
  <2> HIDE DEF h, r, Q, R
  <2>3. h # "cleanup"
    BY <1>1, <2>1
  <2>4. /\ h = "mesh-up" \/ s.mesh => e.mesh
        /\ h = "restart-reticulum" => e.rns
    BY <2>3 DEF EffectOf, h
  <2>5. R \cap {"cleanup"} = {} /\ ("mesh-up" \in R \/ e.mesh)
    BY <1>1, <2>1, <2>4
  <2>6. EndsWith(r, "restart-reticulum", e.rns)
    BY <2>2, <2>4 DEF EndsWith
  <2> QED BY <1>6, <2>5, <2>6 DEF WillMode, R, r
<1>7. CASE mode \notin {"ap", "client", "disabled", "network"}
  BY <1>7 DEF WillMode
<1> QED BY <1>3, <1>4, <1>5, <1>6, <1>7

LEMMA WillNatTail ==
  ASSUME NEW q \in Seq(Command), q # <<>>, NEW nat, NEW s \in System, NEW j \in Job, NEW e,
         WillNat(q, nat, s), EffectOf(Head(q), s, j, e)
  PROVE  WillNat(Tail(q), nat, e)
<1>1. /\ nat = "on" => q[Len(q)] = "setup-nat"
      /\ nat = "off" => q[Len(q)] = "remove-nat"
  BY DEF WillNat, EndsWith
<1>2. /\ Head(q) = "setup-nat" => DefaultRoute(e) \in e.nat
      /\ Head(q) = "remove-nat" => DefaultRoute(e) \notin e.nat
  BY DEF EffectOf
<1>3. ASSUME nat = "on" PROVE EndsWith(Tail(q), "setup-nat", DefaultRoute(e) \in e.nat)
  <2>1. /\ Tail(q) = <<>> => Head(q) = "setup-nat"
        /\ Tail(q) # <<>> => Tail(q)[Len(Tail(q))] = "setup-nat"
    BY <1>1, <1>3, EndOfTail
  <2> QED BY <1>2, <2>1 DEF EndsWith
<1>4. ASSUME nat = "off" PROVE EndsWith(Tail(q), "remove-nat", DefaultRoute(e) \notin e.nat)
  <2>1. /\ Tail(q) = <<>> => Head(q) = "remove-nat"
        /\ Tail(q) # <<>> => Tail(q)[Len(Tail(q))] = "remove-nat"
    BY <1>1, <1>4, EndOfTail
  <2> QED BY <1>2, <2>1 DEF EndsWith
<1> QED BY <1>3, <1>4 DEF WillNat

LEMMA NothingReported == ASSUME NEW s PROVE Real(NoReport, s)
BY DEF Real, NoReport, WillMode, WillNat

LEMMA ReportStep ==
  BackhaulTypeOK /\ ReportInv /\ [BackhaulNext]_backhaulVars => ReportInv'
<1> DEFINE Promises == \A t \in Runner :
                         Busy(t) => reported = NoReport /\ Will(job[t], system)
<1> SUFFICES ASSUME BackhaulTypeOK, ReportInv, [BackhaulNext]_backhaulVars,
                    ~ tainted'
             PROVE  Real(reported', system') /\ Alone' /\ Promises'
  BY DEF ReportInv
<1>1. ASSUME NEW t \in Runner, (Busy(t) /\ Alone) \/ Quiet,
             \A u \in Runner : u # t => job'[u] = job[u],
             reported' = NoReport, Will(job'[t], system')
      PROVE  Real(reported', system') /\ Alone' /\ Promises'
  <2>1. Alone /\ (Busy(t) \/ Quiet)
    BY <1>1 DEF Quiet, Alone
  <2>2. Alone' /\ \A u \in Runner : u # t => job'[u].todo = <<>>
    BY <1>1, <2>1, OthersRest
  <2>3. Real(reported', system')
    BY <1>1, NothingReported
  <2> QED BY <1>1, <2>2, <2>3 DEF Busy
<1>2. ASSUME NEW t \in Runner, NEW j, Fresh(j), Begin(t, j)
      PROVE  Real(reported', system') /\ Alone' /\ Promises'
  <2>1. Quiet /\ reported' = NoReport
    BY <1>2 DEF Begin
  <2>2. job'[t] = j /\ \A u \in Runner : u # t => job'[u] = job[u]
    BY <1>2, Begins
  <2>3. Will(job'[t], system')
    BY <1>2, <2>2 DEF Fresh
  <2> QED BY <1>1, <2>1, <2>2, <2>3
<1>3. ASSUME ~ tainted
      PROVE  Real(reported, system) /\ Alone /\ Promises
  BY <1>3 DEF ReportInv
<1>4. ASSUME NEW t \in Runner, StalePortal(t)
      PROVE  Real(reported', system') /\ Alone' /\ Promises'
  <2>1. Busy(t) /\ reported' = reported /\ ~ tainted
    BY <1>4 DEF StalePortal, historyVars
  <2>2. Alone /\ reported' = NoReport
    BY <1>3, <2>1
  <2>3. CASE SetupComplete /\ system.flag
    <3> DEFINE j == Silent(PortalScript, TRUE)
    <3>1. Fresh(j)
      BY FreshPortal
    <3>2. job' = [job EXCEPT ![t] = j]
      BY <1>4, <2>3 DEF StalePortal
    <3> HIDE DEF j
    <3>3. job'[t] = j /\ \A u \in Runner : u # t => job'[u] = job[u]
      BY <3>2 DEF BackhaulTypeOK
    <3>4. Will(job'[t], system')
      BY <3>1, <3>3 DEF Fresh
    <3> QED BY <1>1, <2>1, <2>2, <3>3, <3>4
  <2>4. CASE ~ (SetupComplete /\ system.flag)
    <3>1. Goes(t, <<>>)
      BY <1>4, <2>4, Zenon DEF StalePortal
    <3>2. <<>> \in Seq(Command)
      OBVIOUS
    <3>3. job'[t] = Idle /\ \A u \in Runner : u # t => job'[u] = job[u]
      BY <3>1, <3>2, GoesOn, Zenon
    <3>4. Will(job'[t], system')
      BY <3>3, FreshIdle DEF Fresh
    <3> QED BY <1>1, <2>1, <2>2, <3>3, <3>4
  <2> QED BY <2>3, <2>4
<1>5. ASSUME NEW t \in Runner, Call(t)
      PROVE  Real(reported', system') /\ Alone' /\ Promises'
  <2> DEFINE q == job[t].todo
             r == job[t].report
  <2>1. /\ Busy(t) /\ Goes(t, Rest(t)) /\ system' = Effect(Head(q), system, job[t])
        /\ reported' = (IF Rest(t) = <<>> THEN r ELSE reported) /\ ~ tainted
    BY <1>5 DEF Call
  <2>2. /\ job[t] \in Job /\ q \in Seq(Command) /\ q # <<>> /\ Head(q) \in Command
        /\ Rest(t) \in Seq(Command) /\ Rest(t) = Tail(q) /\ system \in System
    BY <2>1, NextCall DEF Rest, BackhaulTypeOK
  <2>3. EffectOf(Head(q), system, job[t], system')
    BY <2>1, <2>2, EffectIs, Zenon
  <2>4. Alone /\ reported = NoReport /\ WillMode(q, r.mode, system) /\ WillNat(q, r.nat, system)
    BY <1>3, <2>1 DEF Will
  <2>5. WillMode(Rest(t), r.mode, system') /\ WillNat(Rest(t), r.nat, system')
    <3> HIDE DEF q, r
    <3>1. WillMode(Tail(q), r.mode, system') /\ WillNat(Tail(q), r.nat, system')
      BY <2>2, <2>3, <2>4, WillModeTail, WillNatTail
    <3> QED BY <2>2, <3>1
  <2>6. /\ \A u \in Runner : u # t => job'[u] = job[u]
        /\ job'[t].todo = Rest(t)
        /\ Rest(t) = <<>> => job'[t] = Idle
        /\ Rest(t) # <<>> => job'[t].report = r
    BY <2>1, <2>2, GoesOn, Zenon
  <2> HIDE DEF q, r
  <2>7. CASE Rest(t) = <<>>
    <3>1. Real(reported', system')
      BY <2>1, <2>5, <2>7 DEF Real
    <3>2. Alone' /\ \A u \in Runner : u # t => job'[u].todo = <<>>
      BY <2>1, <2>4, <2>6, OthersRest
    <3> QED BY <2>6, <2>7, <3>1, <3>2 DEF Busy
  <2>8. CASE Rest(t) # <<>>
    <3>1. Will(job'[t], system')
      BY <2>5, <2>6, <2>8 DEF Will
    <3> QED BY <1>1, <2>1, <2>4, <2>6, <2>8, <3>1
  <2> QED BY <2>7, <2>8
<1>6. ASSUME NEW t \in Runner, CallFails(t) PROVE FALSE
  BY <1>6 DEF CallFails
<1>7. ASSUME NEW w \in Worker, ApplyBackhaul(w)
      PROVE  Real(reported', system') /\ Alone' /\ Promises'
  <2> DEFINE j == [ todo |-> ApplyScript(config, ~ SetupComplete),
                    report |-> [ mode |-> config.mode, nat |-> NatReport ],
                    bridged |-> config.mesh_bridged, captive |-> ~ SetupComplete,
                    boot |-> FALSE ]
  <2>1. Fresh(j)
    <3>1. config \in BackhaulConfig /\ (~ SetupComplete) \in BOOLEAN
      BY DEF BackhaulTypeOK, SetupComplete
    <3> QED BY <3>1, FreshApply DEF NatReport
  <2>2. Begin(w, j) /\ w \in Runner
    BY <1>7 DEF ApplyBackhaul, Runner
  <2> HIDE DEF j
  <2> QED BY <1>2, <2>1, <2>2
<1>8. ASSUME NEW w \in Worker, ApplyNetwork(w)
      PROVE  Real(reported', system') /\ Alone' /\ Promises'
  <2>1. w \in Runner
    BY DEF Runner
  <2> QED BY <1>2, <1>8, <2>1, FreshNetwork DEF ApplyNetwork
<1>9. ASSUME CompleteSetup PROVE Real(reported', system') /\ Alone' /\ Promises'
  <2>1. "loop" \in Runner /\ system' = system
    BY <1>9 DEF Runner, CompleteSetup
  <2>2. CASE SetupComplete
    <3>1. job' = job /\ reported' = reported /\ ~ tainted
      BY <1>9, <2>2 DEF CompleteSetup
    <3> QED BY <1>3, <2>1, <3>1 DEF Alone, Busy
  <2>3. CASE ~ SetupComplete
    <3>1. Begin("loop", Silent(PortalScript, FALSE))
      BY <1>9, <2>3 DEF CompleteSetup, CompletionScript
    <3> QED BY <1>2, <2>1, <3>1, FreshPortal
  <2> QED BY <2>2, <2>3
<1>10. ASSUME RestartHostapd PROVE Real(reported', system') /\ Alone' /\ Promises'
  <2>1. job' = job /\ Quiet /\ reported' = NoReport
    BY <1>10 DEF RestartHostapd
  <2> QED BY <2>1, NothingReported DEF Quiet, Busy, Alone
<1>11. ASSUME RestartBackend \/ Reboot
       PROVE  Real(reported', system') /\ Alone' /\ Promises'
  <2>1. Started /\ reported' = NoReport
    BY <1>11 DEF RestartBackend, Reboot
  <2>2. /\ \A t \in Runner : Fresh(job'[t])
        /\ \A t \in Runner : t # "loop" => job'[t] = Idle
    BY <2>1, Starts
  <2>3. Alone'
    BY <2>2 DEF Alone, Busy, Idle, Silent
  <2>4. Promises'
    BY <2>1, <2>2 DEF Fresh
  <2> QED BY <2>1, <2>3, <2>4, NothingReported
<1>12. CASE PatchBackhaul \/ UNCHANGED backhaulVars
  <2>1. job' = job /\ system' = system /\ reported' = reported /\ ~ tainted
    BY <1>12 DEF PatchBackhaul, backhaulVars
  <2> QED BY <1>3, <2>1 DEF Alone, Busy
<1> QED
  BY <1>4, <1>5, <1>6, <1>7, <1>8, <1>9, <1>10, <1>11, <1>12 DEF BackhaulNext

LEMMA ReportInit == BackhaulInit => ReportInv
<1> SUFFICES ASSUME BackhaulInit PROVE ReportInv
  OBVIOUS
<1> DEFINE j == [ todo |-> BootScript(config, TRUE), report |-> NoReport,
                  bridged |-> FALSE, captive |-> TRUE, boot |-> TRUE ]
<1>1. config \in BackhaulConfig /\ config.mesh_bridged = FALSE
  BY DEF BackhaulInit, BackhaulConfig, Mode
<1>2. Fresh(j) /\ Fresh(Idle)
  BY <1>1, FreshBoot, FreshIdle
<1>3. job = [t \in Runner |-> IF t = "loop" THEN j ELSE Idle]
  BY DEF BackhaulInit
<1> HIDE DEF j
<1>4. \A t \in Runner : Fresh(job[t]) /\ (t # "loop" => job[t] = Idle)
  BY <1>2, <1>3
<1>5. Alone
  BY <1>4 DEF Alone, Busy, Idle, Silent
<1>6. reported = NoReport
  BY DEF BackhaulInit
<1> QED BY <1>4, <1>5, <1>6, NothingReported DEF ReportInv, Fresh

\* When a job none of whose calls failed and that ran alone has ended, the
\* system is what the answer says, whatever was left before it began
\* (apply_client_mode, apply_ap_mode, disable_backhaul, apply_network).
THEOREM BackhaulReports == BackhaulSpec => []ReportedIsReal
<1>1. BackhaulSpec => []ReportInv
  BY ReportInit, ReportStep, BackhaulTypes, PTL DEF BackhaulSpec
<1>2. BackhaulTypeOK /\ ReportInv => ReportedIsReal
  <2> SUFFICES ASSUME BackhaulTypeOK, ReportInv, ~ tainted
               PROVE  ReportedIsReal
    BY DEF ReportedIsReal
  <2>1. WillMode(<<>>, reported.mode, system) /\ WillNat(<<>>, reported.nat, system)
    BY DEF ReportInv, Real
  <2>2. ToSet(<<>>) = {}
    BY DEF ToSet
  <2>3. system \in System
    BY DEF BackhaulTypeOK
  <2>4. /\ reported.nat = "on" => DefaultRoute(system) \in system.nat
        /\ reported.nat = "off" => DefaultRoute(system) \notin system.nat
    BY <2>1 DEF WillNat, EndsWith
  <2>5. reported.mode = "network" => system.mesh /\ system.rns
    BY <2>1, <2>2 DEF WillMode, EndsWith
  <2>6. ASSUME reported.mode \in Mode
        PROVE  /\ (system.hostapd # "off") = (reported.mode = "ap")
               /\ (system.dns # "off") = (reported.mode = "ap")
               /\ system.bridge = (reported.mode = "ap")
               /\ system.client = (reported.mode = "client")
    <3>1. CASE reported.mode = "ap"
      BY <2>1, <2>2, <2>3, <3>1 DEF WillMode, System
    <3>2. CASE reported.mode = "client"
      BY <2>1, <2>2, <2>3, <3>2 DEF WillMode, System
    <3>3. CASE reported.mode = "disabled"
      BY <2>1, <2>2, <2>3, <3>3 DEF WillMode, System
    <3> QED BY <2>6, <3>1, <3>2, <3>3 DEF Mode
  <2> QED BY <2>4, <2>5, <2>6 DEF ReportedIsReal
<1> QED BY <1>1, <1>2, BackhaulTypes, PTL

-----------------------------------------------------------------------------
(* The captive portal.                                                     *)

LEMMA LastOnlyTail ==
  ASSUME NEW q \in Seq(Command), q # <<>>, LastOnly(q)
  PROVE  /\ LastOnly(Tail(q))
         /\ Head(q) \in Final => ToSet(q) = {Head(q)}
<1> DEFINE n == Len(q)
           m == Len(Tail(q))
<1>1. n \in Nat /\ n >= 1 /\ Head(q) = q[1] /\ DOMAIN q = 1 .. n
  OBVIOUS
<1>2. m = n - 1 /\ \A i \in 1 .. m : Tail(q)[i] = q[i + 1]
  BY HeadTailProperties
<1>3. \A i \in 1 .. n : q[i] \in Final => i = n
  BY DEF LastOnly
<1> HIDE DEF n, m
<1>4. \A i \in 1 .. m : Tail(q)[i] \in Final => i = m
  <2> TAKE i \in 1 .. m
  <2>1. i \in Nat /\ i + 1 \in 1 .. n /\ Tail(q)[i] = q[i + 1]
    BY <1>1, <1>2
  <2>2. q[i + 1] \in Final => i + 1 = n
    BY <1>3, <2>1
  <2>3. i + 1 = n => i = m
    BY <1>1, <1>2, <2>1
  <2> QED BY <2>1, <2>2, <2>3, Zenon
<1>5. ASSUME Head(q) \in Final PROVE ToSet(q) = {Head(q)}
  <2>1. 1 \in 1 .. n
    BY <1>1
  <2>2. 1 = n
    BY <1>1, <1>3, <1>5, <2>1, Zenon
  <2>3. 1 .. n = {1}
    BY <2>2
  <2> QED BY <1>1, <2>3, Zenon DEF ToSet
<1> QED BY <1>4, <1>5 DEF LastOnly, n, m

LEMMA FreshScripted ==
  ASSUME NEW j, Fresh(j)
  PROVE  ("set-captive-portal" \in ToSet(j.todo) => j.captive) /\ LastOnly(j.todo)
BY DEF Fresh

LEMMA PortalStep ==
  BackhaulTypeOK /\ PortalInv /\ [BackhaulNext]_backhaulVars => PortalInv'
<1> SUFFICES ASSUME BackhaulTypeOK, PortalInv, [BackhaulNext]_backhaulVars, late' = {}
             PROVE  Scripted' /\ (SetupComplete' => PortalGoes')
  BY DEF PortalInv
<1>1. late = {} /\ Scripted /\ (SetupComplete => PortalGoes)
  <2>1. late \subseteq late'
    BY DEF BackhaulNext, StalePortal, Call, CallFails, ApplyBackhaul, ApplyNetwork,
           PatchBackhaul, CompleteSetup, RestartHostapd, RestartBackend, Reboot,
           historyVars, backhaulVars
  <2> QED BY <2>1 DEF PortalInv
<1>2. "loop" \in Runner /\ job \in [Runner -> Job] /\ system \in System
  BY DEF Runner, BackhaulTypeOK
<1>3. setup' = setup => SetupComplete' = SetupComplete
  BY DEF SetupComplete
<1>4. ToSet(<<>>) = {}
  BY DEF ToSet
<1>5. ASSUME NEW t \in Runner, NEW j, Fresh(j), job'[t] = j,
             \A u \in Runner : u # t => job'[u] = job[u]
      PROVE  Scripted'
  BY <1>1, <1>5, FreshScripted DEF Scripted
\* An idle thread begins something that is not about the portal.
<1>6. ASSUME NEW t \in Runner, NEW j, Fresh(j), Begin(t, j), ~ Busy(t),
             SetupComplete => ~ j.captive, setup' = setup, system' = system
      PROVE  Scripted' /\ (SetupComplete' => PortalGoes')
  <2>1. job'[t] = j /\ \A u \in Runner : u # t => job'[u] = job[u]
    BY <1>6, Begins
  <2>2. Scripted'
    BY <1>5, <1>6, <2>1
  <2>3. ASSUME SetupComplete PROVE PortalGoes'
    <3>1. PortalGoes
      BY <1>1, <2>3
    <3>2. t = "loop" => ToSet(job["loop"].todo) = {}
      BY <1>4, <1>6 DEF Busy
    <3>3. t # "loop" => job'["loop"] = job["loop"]
      BY <1>2, <2>1
    <3> QED BY <1>6, <2>1, <2>3, <3>1, <3>2, <3>3 DEF PortalGoes
  <2> QED BY <1>3, <1>6, <2>2, <2>3
\* The loop begins to end the portal.
<1>7. ASSUME NEW boot \in BOOLEAN, job'["loop"] = Silent(PortalScript, boot),
             \A u \in Runner : u # "loop" => job'[u] = job[u] /\ ~ job[u].captive
      PROVE  PortalGoes'
  <2>1. ToSet(job'["loop"].todo)
          = {"clear-captive-portal", "write-dnsmasq", "restart-dnsmasq"}
    BY <1>7, MakesPortal DEF Silent, Makes
  <2>2. ~ job'["loop"].captive
    BY <1>7 DEF Silent
  <2> QED BY <1>7, <2>1, <2>2 DEF PortalGoes
<1>8. ASSUME NEW t \in Runner, StalePortal(t)
      PROVE  Scripted' /\ (SetupComplete' => PortalGoes')
  <2> DEFINE q == job[t].todo
  <2>1. Busy(t) /\ setup' = setup /\ system' = system /\ Head(q) = "stale-portal"
    BY <1>8 DEF StalePortal
  <2>2. q \in Seq(Command) /\ q # <<>> /\ LastOnly(q)
    BY <1>1, <2>1, NextCall DEF Scripted
  <2>3. ToSet(q) = {"stale-portal"}
    BY <2>1, <2>2, LastOnlyTail DEF Final
  <2>4. CASE SetupComplete /\ system.flag
    <3> DEFINE j == Silent(PortalScript, TRUE)
    <3>1. Fresh(j)
      BY FreshPortal
    <3>2. job' = [job EXCEPT ![t] = j]
      BY <1>8, <2>4 DEF StalePortal
    <3> HIDE DEF j
    <3>3. job'[t] = j /\ \A u \in Runner : u # t => job'[u] = job[u]
      BY <1>2, <3>2
    <3>4. Scripted'
      BY <1>5, <3>1, <3>3
    <3>5. CASE t = "loop"
      BY <1>1, <1>7, <2>4, <3>3, <3>4, <3>5 DEF PortalGoes, j
    <3>6. CASE t # "loop"
      <4>1. job'["loop"] = job["loop"] /\ ~ job'[t].captive
        BY <1>2, <3>3, <3>6 DEF j, Silent
      <4>2. PortalGoes'
        BY <1>1, <2>1, <2>4, <3>3, <4>1 DEF PortalGoes
      <4> QED BY <3>4, <4>2
    <3> QED BY <3>5, <3>6
  <2>5. CASE ~ (SetupComplete /\ system.flag)
    <3>1. Goes(t, <<>>)
      BY <1>8, <2>5, Zenon DEF StalePortal
    <3>2. <<>> \in Seq(Command)
      OBVIOUS
    <3>3. job'[t] = Idle /\ \A u \in Runner : u # t => job'[u] = job[u]
      BY <3>1, <3>2, GoesOn, Zenon
    <3>4. Scripted'
      BY <1>5, <3>3, FreshIdle
    <3>5. ASSUME SetupComplete PROVE PortalGoes'
      <4>1. PortalGoes
        BY <1>1, <3>5
      <4>2. ~ job'[t].captive
        BY <3>3 DEF Idle, Silent
      <4>3. t = "loop" => ToSet(job["loop"].todo) = {"stale-portal"}
        BY <2>3
      <4>4. t # "loop" => job'["loop"] = job["loop"]
        BY <1>2, <3>3
      <4> QED BY <2>1, <3>3, <4>1, <4>2, <4>3, <4>4 DEF PortalGoes
    <3> QED BY <1>3, <2>1, <3>4, <3>5
  <2> QED BY <2>4, <2>5
<1>9. ASSUME NEW t \in Runner, Call(t)
      PROVE  Scripted' /\ (SetupComplete' => PortalGoes')
  <2> DEFINE q == job[t].todo
             h == Head(q)
             L == ToSet(job["loop"].todo)
             M == ToSet(job'["loop"].todo)
  <2>1. /\ Busy(t) /\ Goes(t, Rest(t)) /\ system' = Effect(Head(q), system, job[t])
        /\ setup' = setup
    BY <1>9 DEF Call
  <2>2. /\ job[t] \in Job /\ q \in Seq(Command) /\ q # <<>> /\ h \in Command
        /\ Rest(t) \in Seq(Command) /\ Rest(t) = Tail(q)
        /\ ToSet(q) = {h} \cup ToSet(Rest(t))
    BY <2>1, NextCall DEF Rest
  <2>3. EffectOf(h, system, job[t], system')
    BY <1>2, <2>1, <2>2, EffectIs, Zenon
  <2>4. /\ \A u \in Runner : u # t => job'[u] = job[u]
        /\ job'[t].todo = Rest(t)
        /\ Rest(t) = <<>> => job'[t] = Idle
        /\ Rest(t) # <<>> => job'[t].captive = job[t].captive
    BY <2>1, <2>2, GoesOn, Zenon
  <2>5. /\ "set-captive-portal" \in ToSet(q) => job[t].captive
        /\ LastOnly(q)
    BY <1>1 DEF Scripted
  <2>6. LastOnly(Rest(t)) /\ (h \in Final => ToSet(q) = {h})
    <3> HIDE DEF q
    <3>1. LastOnly(Tail(q)) /\ (h \in Final => ToSet(q) = {h})
      BY <2>2, <2>5, LastOnlyTail
    <3> QED BY <2>2, <3>1
  <2>7. Scripted'
    <3>1. "set-captive-portal" \in ToSet(Rest(t)) => job'[t].captive
      BY <1>4, <2>2, <2>4, <2>5
    <3> QED BY <1>1, <2>4, <2>6, <3>1 DEF Scripted
  <2>8. ASSUME SetupComplete PROVE PortalGoes'
    <3>1. PortalGoes
      BY <1>1, <2>8
    <3>2. \A u \in Runner : ~ job'[u].captive
      BY <2>4, <3>1 DEF PortalGoes, Idle, Silent
    <3>3. job[t].captive = FALSE
      BY <1>2, <3>1 DEF PortalGoes, Job
    <3>4. h # "set-captive-portal"
      BY <2>2, <2>5, <3>3
    <3>5. \A x \in L : (x = h /\ t = "loop") \/ x \in M
      BY <1>2, <2>2, <2>4
    <3>6. t = "loop" /\ h \in Final => L = {h}
      BY <2>6
    <3>7. /\ system.flag => "clear-captive-portal" \in L
          /\ system.dnsConf = "captive" => "write-dnsmasq" \in L /\ "restart-dnsmasq" \in L
          /\ system.dns = "captive" => "restart-dnsmasq" \in L
      BY <3>1 DEF PortalGoes
    <3> HIDE DEF h, L, M, q
    <3>8. system'.flag => "clear-captive-portal" \in M
      <4>1. system'.flag => system.flag /\ h # "clear-captive-portal"
        BY <2>3, <3>4 DEF EffectOf
      <4> QED BY <3>5, <3>7, <4>1
    <3>9. system'.dnsConf = "captive" => system.dnsConf = "captive" /\ h # "write-dnsmasq"
      BY <2>3, <3>3 DEF EffectOf, DnsConf
    <3>10. t = "loop" /\ h = "restart-dnsmasq" => system.dnsConf # "captive"
      BY <3>6, <3>7 DEF Final
    <3>11. system'.dnsConf = "captive" => "write-dnsmasq" \in M /\ "restart-dnsmasq" \in M
      BY <3>5, <3>7, <3>9, <3>10
    <3>12. system'.dns = "captive" => "restart-dnsmasq" \in M
      <4>1. system'.dns = "captive" =>
              \/ system.dnsConf = "captive"
              \/ system.dns = "captive" /\ h # "restart-dnsmasq"
        BY <2>3 DEF EffectOf
      <4> QED BY <3>5, <3>7, <3>10, <4>1
    <3> QED BY <3>2, <3>8, <3>11, <3>12 DEF PortalGoes, M
  <2> QED BY <1>3, <2>1, <2>7, <2>8
<1>10. ASSUME NEW t \in Runner, CallFails(t) PROVE FALSE
  BY <1>10 DEF CallFails
<1>11. ASSUME NEW w \in Worker, ApplyBackhaul(w)
       PROVE  Scripted' /\ (SetupComplete' => PortalGoes')
  <2> DEFINE j == [ todo |-> ApplyScript(config, ~ SetupComplete),
                    report |-> [ mode |-> config.mode, nat |-> NatReport ],
                    bridged |-> config.mesh_bridged, captive |-> ~ SetupComplete,
                    boot |-> FALSE ]
  <2>1. Fresh(j) /\ (SetupComplete => ~ j.captive)
    <3>1. config \in BackhaulConfig /\ (~ SetupComplete) \in BOOLEAN
      BY DEF BackhaulTypeOK, SetupComplete
    <3> QED BY <3>1, FreshApply DEF NatReport
  <2>2. Begin(w, j) /\ w \in Runner /\ ~ Busy(w) /\ setup' = setup /\ system' = system
    BY <1>11 DEF ApplyBackhaul, Runner
  <2> HIDE DEF j
  <2> QED BY <1>6, <2>1, <2>2
<1>12. ASSUME NEW w \in Worker, ApplyNetwork(w)
       PROVE  Scripted' /\ (SetupComplete' => PortalGoes')
  <2> DEFINE j == [ todo |-> NetworkScript, report |-> [ mode |-> "network", nat |-> "any" ],
                    bridged |-> FALSE, captive |-> FALSE, boot |-> FALSE ]
  <2>1. Fresh(j) /\ ~ j.captive
    BY FreshNetwork
  <2>2. Begin(w, j) /\ w \in Runner /\ ~ Busy(w) /\ setup' = setup /\ system' = system
    BY <1>12 DEF ApplyNetwork, Runner
  <2> HIDE DEF j
  <2> QED BY <1>6, <2>1, <2>2
<1>13. ASSUME PatchBackhaul PROVE Scripted' /\ (SetupComplete' => PortalGoes')
  <2>1. job' = job /\ system' = system
    BY <1>13 DEF PatchBackhaul
  <2>2. SetupComplete' => SetupComplete
    <3>1. PICK p \in {setup.password, "own"} :
            /\ setup' = [setup EXCEPT !.password = p]
            /\ late' = IF p = "own" /\ ~ SetupComplete THEN late \cup {"password"} ELSE late
      BY <1>13 DEF PatchBackhaul
    <3>2. setup'.flag = setup.flag /\ setup'.password = p
      BY <3>1 DEF BackhaulTypeOK
    <3>3. p = "own" => SetupComplete
      BY <3>1
    <3> QED BY <3>1, <3>2, <3>3 DEF SetupComplete
  <2> QED BY <1>1, <2>1, <2>2 DEF Scripted, PortalGoes
<1>14. ASSUME CompleteSetup PROVE Scripted' /\ (SetupComplete' => PortalGoes')
  <2>1. system' = system /\ \A w \in Worker : ~ job[w].captive
    BY <1>14 DEF CompleteSetup
  <2>2. CASE SetupComplete
    <3>1. job' = job
      BY <1>14, <2>2 DEF CompleteSetup
    <3> QED BY <1>1, <2>1, <2>2, <3>1 DEF Scripted, PortalGoes
  <2>3. CASE ~ SetupComplete
    <3> DEFINE j == Silent(PortalScript, FALSE)
    <3>1. Begin("loop", j) /\ Fresh(j)
      BY <1>14, <2>3, FreshPortal DEF CompleteSetup, CompletionScript
    <3> HIDE DEF j
    <3>2. job'["loop"] = j /\ \A u \in Runner : u # "loop" => job'[u] = job[u]
      BY <1>2, <3>1, Begins
    <3>3. Scripted'
      BY <1>2, <1>5, <3>1, <3>2
    <3>4. \A u \in Runner : u # "loop" => ~ job[u].captive
      BY <2>1 DEF Runner
    <3> QED BY <1>7, <3>2, <3>3, <3>4 DEF j
  <2> QED BY <2>2, <2>3
<1>15. ASSUME RestartHostapd PROVE Scripted' /\ (SetupComplete' => PortalGoes')
  <2>1. /\ job' = job /\ setup' = setup
        /\ system' = HostapdUp(system, system.hostapd = "bridged")
    BY <1>15 DEF RestartHostapd
  <2>2. /\ system'.flag = system.flag /\ system'.dnsConf = system.dnsConf
        /\ system'.dns = system.dns
    BY <1>2, <2>1 DEF HostapdUp, System
  <2> QED BY <1>1, <1>3, <2>1, <2>2 DEF Scripted, PortalGoes
<1>16. ASSUME RestartBackend \/ Reboot
       PROVE  Scripted' /\ (SetupComplete' => PortalGoes')
  <2>1. Started /\ Quiet /\ setup' = setup
    BY <1>16 DEF RestartBackend, Reboot
  <2>2. /\ \A t \in Runner : Fresh(job'[t])
        /\ \A t \in Runner : t # "loop" => job'[t] = Idle
        /\ job'["loop"].captive = ~ SetupComplete
    BY <2>1, Starts
  <2>3. Scripted'
    BY <2>2, FreshScripted DEF Scripted
  <2>4. ASSUME SetupComplete PROVE PortalGoes'
    <3>1. ToSet(job["loop"].todo) = {}
      BY <1>2, <1>4, <2>1 DEF Quiet, Busy
    <3>2. ~ system.flag /\ system.dnsConf # "captive" /\ system.dns # "captive"
      BY <1>1, <2>4, <3>1 DEF PortalGoes
    <3>3. ~ system'.flag /\ system'.dnsConf # "captive" /\ system'.dns # "captive"
      BY <1>2, <1>16, <3>2 DEF RestartBackend, Reboot, System
    <3>4. ASSUME NEW t \in Runner PROVE ~ job'[t].captive
      <4>1. CASE t = "loop"
        BY <2>2, <2>4, <4>1
      <4>2. CASE t # "loop"
        <5>1. job'[t] = Idle
          BY <2>2, <4>2
        <5>2. Idle.captive = FALSE
          BY DEF Idle, Silent
        <5> QED BY <5>1, <5>2
      <4> QED BY <4>1, <4>2
    <3> QED BY <3>3, <3>4 DEF PortalGoes
  <2> QED BY <1>3, <2>1, <2>3, <2>4
<1>17. CASE UNCHANGED backhaulVars
  BY <1>1, <1>3, <1>17 DEF backhaulVars, Scripted, PortalGoes
<1> QED
  BY <1>8, <1>9, <1>10, <1>11, <1>12, <1>13, <1>14, <1>15, <1>16, <1>17 DEF BackhaulNext

LEMMA PortalInit == BackhaulInit => PortalInv
<1> SUFFICES ASSUME BackhaulInit PROVE PortalInv
  OBVIOUS
<1> DEFINE j == [ todo |-> BootScript(config, TRUE), report |-> NoReport,
                  bridged |-> FALSE, captive |-> TRUE, boot |-> TRUE ]
<1>1. config \in BackhaulConfig /\ config.mesh_bridged = FALSE
  BY DEF BackhaulInit, BackhaulConfig, Mode
<1>2. Fresh(j) /\ Fresh(Idle)
  BY <1>1, FreshBoot, FreshIdle
<1>3. job = [t \in Runner |-> IF t = "loop" THEN j ELSE Idle]
  BY DEF BackhaulInit
<1> HIDE DEF j
<1>4. Scripted
  BY <1>2, <1>3, FreshScripted DEF Scripted
<1>5. ~ SetupComplete
  <2>1. setup = [ flag |-> FALSE, password |-> "default" ]
    BY DEF BackhaulInit
  <2> QED BY <2>1 DEF SetupComplete
<1> QED BY <1>4, <1>5 DEF PortalInv

\* Once the setup is complete and nothing is under way the portal redirects
\* nobody, but for the ways that late names (disable_captive_portal).
THEOREM BackhaulPortal == BackhaulSpec => []PortalEnds
<1>1. BackhaulSpec => []PortalInv
  BY PortalInit, PortalStep, BackhaulTypes, PTL DEF BackhaulSpec
<1>2. PortalInv => PortalEnds
  <2>1. ToSet(<<>>) = {} /\ "loop" \in Runner
    BY DEF ToSet, Runner
  <2> QED BY <2>1 DEF PortalInv, PortalEnds, PortalGoes, Quiet, Busy
<1> QED BY <1>1, <1>2, PTL

-----------------------------------------------------------------------------
(* Numbers.                                                                *)

LEMMA LeastNumber ==
  ASSUME NEW S \in SUBSET Nat, S # {}
  PROVE  \E n \in S : \A m \in S : n <= m
<1> DEFINE R == { p \in Nat \X Nat : p[1] < p[2] }
<1>1. IsWellFoundedOn(R, Nat)
  BY NatLessThanWellFounded DEF OpToRel
<1>2. PICK n \in S : \A m \in S : ~ (<<m, n>> \in R)
  BY <1>1, WFMin
<1>3. ASSUME NEW m \in S PROVE n <= m
  <2>1. n \in Nat /\ m \in Nat
    OBVIOUS
  <2>2. <<m, n>> \in R <=> m < n
    BY <2>1
  <2>3. QED
    BY <1>2, <2>1, <2>2
<1>4. QED
  BY <1>3

\* Min of the community modules.
LEMMA MinIs ==
  ASSUME NEW S \in SUBSET Nat, S # {}
  PROVE  Min(S) \in S /\ \A m \in S : Min(S) <= m
BY LeastNumber DEF Min

\* Induction up to a bound, over a set instead of a predicate.
LEMMA UpTo ==
  ASSUME NEW K \in Nat, NEW S, 0 \in S, \A k \in 1 .. K : k - 1 \in S => k \in S
  PROVE  0 .. K \subseteq S
<1> DEFINE bad == (0 .. K) \ S
<1> SUFFICES ASSUME bad # {} PROVE FALSE
  OBVIOUS
<1>1. PICK k \in bad : \A m \in bad : k <= m
  <2>1. bad \in SUBSET Nat
    OBVIOUS
  <2>2. QED
    BY <2>1, LeastNumber
<1>2. k \in 1 .. K /\ k - 1 \in 0 .. K /\ k - 1 < k
  OBVIOUS
<1>3. k - 1 \in S
  BY <1>1, <1>2
<1>4. QED
  BY <1>2, <1>3

\* What is defined by recursion over the numbers up to a bound exists.
Iterates(f, K, D, start, step) ==
  /\ f \in [ 0 .. K -> D ]
  /\ f[0] = start /\ \A k \in 1 .. K : f[k] = step[f[k - 1]]

LEMMA IterationExists ==
  ASSUME NEW K \in Nat, NEW D, NEW start \in D, NEW step, step \in [ D -> D ]
  PROVE  \E f : Iterates(f, K, D, start, step)
<1> DEFINE S == { k \in 0 .. K : \E f : Iterates(f, k, D, start, step) }
<1>1. 0 \in S
  <2> DEFINE f == [ i \in 0 .. 0 |-> start ]
  <2>1. f \in [ 0 .. 0 -> D ] /\ f[0] = start /\ \A i \in 1 .. 0 : f[i] = step[f[i - 1]]
    OBVIOUS
  <2> HIDE DEF f
  <2>2. Iterates(f, 0, D, start, step)
    BY <2>1 DEF Iterates
  <2>3. 0 \in 0 .. K
    OBVIOUS
  <2>4. QED
    BY <2>2, <2>3
<1>2. ASSUME NEW k \in 1 .. K, k - 1 \in S PROVE k \in S
  <2>1. PICK f : Iterates(f, k - 1, D, start, step)
    BY <1>2
  <2> DEFINE g == [ i \in 0 .. k |-> IF i = k THEN step[f[k - 1]] ELSE f[i] ]
  <2>2. f[k - 1] \in D /\ step[f[k - 1]] \in D
    BY <2>1 DEF Iterates
  <2>3. g \in [ 0 .. k -> D ]
    BY <2>1, <2>2 DEF Iterates
  <2>4. g[0] = start
    BY <2>1 DEF Iterates
  <2>5. \A i \in 1 .. k : g[i] = step[g[i - 1]]
    BY <2>1 DEF Iterates
  <2> HIDE DEF g
  <2>6. Iterates(g, k, D, start, step)
    BY <2>3, <2>4, <2>5 DEF Iterates
  <2>7. QED
    BY <2>6
<1> HIDE DEF S
<1>3. 0 .. K \subseteq S
  BY <1>1, <1>2, UpTo
<1>4. QED
  BY <1>3 DEF S

-----------------------------------------------------------------------------
(* The reference.                                                          *)

Far == Cardinality(Node)

\* Links as they are measured.
LinksMeasured(g) ==
  /\ DOMAIN g \subseteq Node \X Node \X Transceiver
  /\ \A l \in DOMAIN g : g[l] \in 1 .. Inf

LEMMA BoundsAreNumbers == Far \in Nat \ {0} /\ Inf \in Nat \ {0}
<1>1. Far \in Nat
  BY RouterAssumption, FS_CardinalityType DEF Far
<1>2. Far # 0
  BY RouterAssumption, FS_EmptySet DEF Far
<1>3. Unit * TxWindow \in Nat
  BY RouterAssumption
<1>4. Unit * TxWindow * Far \in Nat
  BY <1>1, <1>3
<1>5. QED
  BY <1>1, <1>2, <1>4 DEF Inf, Far

LEMMA LesserIs ==
  ASSUME NEW x \in Nat, NEW y \in Nat
  PROVE  Lesser(x, y) \in Nat /\ Lesser(x, y) <= x /\ Lesser(x, y) <= y
         /\ Lesser(x, y) \in {x, y}
BY DEF Lesser

LEMMA EdgeIs ==
  ASSUME NEW g, LinksMeasured(g), NEW m, NEW n
  PROVE  /\ Edge(g, m, n) \in 1 .. Inf
         /\ \A l \in Usable(g) : l[1] = m /\ l[2] = n => Edge(g, m, n) <= g[l]
         /\ Edge(g, m, n) < Inf =>
              \E l \in Usable(g) : l[1] = m /\ l[2] = n /\ g[l] = Edge(g, m, n)
<1> DEFINE S == { g[l] : l \in { k \in Usable(g) : k[1] = m /\ k[2] = n } } \cup {Inf}
<1>1. S \in SUBSET (1 .. Inf) /\ S # {}
  BY BoundsAreNumbers DEF LinksMeasured, Usable
<1>2. S \in SUBSET Nat
  BY <1>1
<1>3. Edge(g, m, n) = Min(S)
  BY DEF Edge
<1>4. \A l \in Usable(g) : l[1] = m /\ l[2] = n => g[l] \in S
  OBVIOUS
<1>5. \A x \in S : x # Inf => \E l \in Usable(g) : l[1] = m /\ l[2] = n /\ g[l] = x
  OBVIOUS
<1> HIDE DEF S
<1>6. Min(S) \in S /\ \A x \in S : Min(S) <= x
  BY <1>1, <1>2, MinIs
<1>7. Edge(g, m, n) \in 1 .. Inf
  BY <1>1, <1>3, <1>6
<1>8. QED
  BY <1>3, <1>4, <1>5, <1>6, <1>7, BoundsAreNumbers

LEMMA OneLinkMoreIs ==
  ASSUME NEW g, LinksMeasured(g), NEW d \in [ Node -> 0 .. Inf ]
  PROVE  /\ OneLinkMore(g, d) \in [ Node -> 0 .. Inf ]
         /\ \A n \in Node : OneLinkMore(g, d)[n] <= d[n]
         /\ \A n, m \in Node : OneLinkMore(g, d)[n] <= d[m] + Edge(g, m, n)
         /\ \A n \in Node : \/ OneLinkMore(g, d)[n] \in {Inf, d[n]}
                            \/ \E m \in Node : OneLinkMore(g, d)[n] = d[m] + Edge(g, m, n)
<1> DEFINE S(n) == {d[n]} \cup { Lesser(Inf, d[m] + Edge(g, m, n)) : m \in Node }
<1>1. OneLinkMore(g, d) = [ n \in Node |-> Min(S(n)) ]
  BY DEF OneLinkMore
<1>2. ASSUME NEW n \in Node
      PROVE  /\ Min(S(n)) \in 0 .. Inf
             /\ Min(S(n)) <= d[n]
             /\ \A m \in Node : Min(S(n)) <= d[m] + Edge(g, m, n)
             /\ \/ Min(S(n)) \in {Inf, d[n]}
                \/ \E m \in Node : Min(S(n)) = d[m] + Edge(g, m, n)
  <2>1. d[n] \in 0 .. Inf /\ Inf \in Nat
    BY BoundsAreNumbers
  <2>2. ASSUME NEW m \in Node
        PROVE  /\ d[m] + Edge(g, m, n) \in Nat
               /\ Lesser(Inf, d[m] + Edge(g, m, n)) \in 0 .. Inf
               /\ Lesser(Inf, d[m] + Edge(g, m, n)) <= d[m] + Edge(g, m, n)
               /\ Lesser(Inf, d[m] + Edge(g, m, n)) \in {Inf, d[m] + Edge(g, m, n)}
    <3>1. d[m] \in Nat /\ Edge(g, m, n) \in Nat
      BY EdgeIs, BoundsAreNumbers
    <3>2. d[m] + Edge(g, m, n) \in Nat
      BY <3>1
    <3>3. QED
      BY <2>1, <3>2, LesserIs
  <2>3. S(n) \in SUBSET (0 .. Inf) /\ S(n) # {} /\ d[n] \in S(n)
    BY <2>1, <2>2
  <2>4. S(n) \in SUBSET Nat
    BY <2>3
  <2>5. \A m \in Node : Lesser(Inf, d[m] + Edge(g, m, n)) \in S(n)
    OBVIOUS
  <2>6. \A x \in S(n) : x = d[n] \/ \E m \in Node : x = Lesser(Inf, d[m] + Edge(g, m, n))
    OBVIOUS
  <2> HIDE DEF S
  <2>7. Min(S(n)) \in S(n) /\ \A x \in S(n) : Min(S(n)) <= x
    BY <2>3, <2>4, MinIs
  <2>8. Min(S(n)) \in 0 .. Inf /\ Min(S(n)) <= d[n]
    BY <2>3, <2>7
  <2>9. ASSUME NEW m \in Node PROVE Min(S(n)) <= d[m] + Edge(g, m, n)
    <3>1. Min(S(n)) <= Lesser(Inf, d[m] + Edge(g, m, n))
      BY <2>5, <2>7
    <3>2. QED
      BY <2>1, <2>2, <2>8, <3>1
  <2>10. \/ Min(S(n)) \in {Inf, d[n]}
         \/ \E m \in Node : Min(S(n)) = d[m] + Edge(g, m, n)
    BY <2>2, <2>6, <2>7
  <2>11. QED
    BY <2>8, <2>9, <2>10
<1> HIDE DEF S
<1>3. QED
  BY <1>1, <1>2

LEMMA LengthsAre ==
  ASSUME NEW g, LinksMeasured(g), NEW from \in Node
  PROVE  /\ Lengths(g, from) \in [ 0 .. Far -> [ Node -> 0 .. Inf ] ]
         /\ Lengths(g, from)[0] = [ n \in Node |-> IF n = from THEN 0 ELSE Inf ]
         /\ \A k \in 1 .. Far : Lengths(g, from)[k] = OneLinkMore(g, Lengths(g, from)[k - 1])
<1> DEFINE D == [ Node -> 0 .. Inf ]
           start == [ n \in Node |-> IF n = from THEN 0 ELSE Inf ]
           step == [ d \in D |-> OneLinkMore(g, d) ]
           Body(f) == [ k \in 0 .. Far |-> IF k = 0 THEN start ELSE OneLinkMore(g, f[k - 1]) ]
<1>1. Lengths(g, from) = CHOOSE f : f = Body(f)
  BY DEF Lengths, Far
<1>2. start \in D
  BY BoundsAreNumbers
<1>3. step \in [ D -> D ]
  BY OneLinkMoreIs
<1> HIDE DEF start
<1>4. PICK f : Iterates(f, Far, D, start, step)
  <2> HIDE DEF D, step
  <2>1. Far \in Nat
    BY BoundsAreNumbers
  <2>2. QED
    BY <1>2, <1>3, <2>1, IterationExists
<1> USE <1>4 DEF Iterates
<1>5. \A k \in 1 .. Far : k - 1 \in 0 .. Far /\ k \in 0 .. Far /\ k # 0 /\ f[k - 1] \in D
  BY BoundsAreNumbers
<1>6. \A k \in 1 .. Far : f[k] = OneLinkMore(g, f[k - 1])
  BY <1>4, <1>5
<1>7. f = Body(f)
  <2>1. \A k \in 0 .. Far : f[k] = Body(f)[k]
    BY <1>4, <1>6, BoundsAreNumbers
  <2>2. QED
    BY <2>1
<1> DEFINE L == Lengths(g, from)
<1>8. L = Body(L)
  <2> HIDE DEF Body, D, step
  <2>1. QED
    BY <1>1, <1>7
<1>9. 0 \in 0 .. Far
  BY BoundsAreNumbers
<1> HIDE DEF L
<1>10. L[0] = start
  BY <1>8, <1>9
<1>11. \A k \in 1 .. Far : L[k] = OneLinkMore(g, L[k - 1])
  BY <1>5, <1>8
<1>12. \A k \in 0 .. Far : L[k] \in D
  <2> DEFINE S == { k \in 0 .. Far : L[k] \in D }
  <2>1. 0 \in S
    BY <1>2, <1>9, <1>10
  <2>2. \A k \in 1 .. Far : k - 1 \in S => k \in S
    BY <1>5, <1>11, OneLinkMoreIs
  <2> HIDE DEF S
  <2>3. 0 .. Far \subseteq S
    BY <2>1, <2>2, BoundsAreNumbers, UpTo
  <2>4. QED
    BY <2>3 DEF S
<1>13. L \in [ 0 .. Far -> D ]
  BY <1>8, <1>12
<1>14. QED
  BY <1>10, <1>11, <1>13 DEF L, start

\* A way to one more link.
LEMMA LengthsExtend ==
  ASSUME NEW g, LinksMeasured(g), NEW from \in Node, NEW k \in 1 .. Far, NEW l \in Usable(g)
  PROVE  Lengths(g, from)[k][l[2]] <= Lengths(g, from)[k - 1][l[1]] + g[l]
<1> DEFINE L == Lengths(g, from)
<1>1. k - 1 \in 0 .. Far /\ k \in 0 .. Far
  BY BoundsAreNumbers
<1>0. /\ L \in [ 0 .. Far -> [ Node -> 0 .. Inf ] ]
      /\ L[0] = [ n \in Node |-> IF n = from THEN 0 ELSE Inf ]
      /\ \A i \in 1 .. Far : L[i] = OneLinkMore(g, L[i - 1])
  BY LengthsAre
<1> HIDE DEF L
<1>2. L[k - 1] \in [ Node -> 0 .. Inf ] /\ L[k] = OneLinkMore(g, L[k - 1])
  BY <1>0, <1>1
<1>3. l[1] \in Node /\ l[2] \in Node /\ g[l] \in Nat
  BY BoundsAreNumbers DEF LinksMeasured, Usable
<1>4. L[k][l[2]] <= L[k - 1][l[1]] + Edge(g, l[1], l[2])
  BY <1>2, <1>3, OneLinkMoreIs
<1>5. L[k - 1][l[1]] \in Nat
  BY <1>2, <1>3, BoundsAreNumbers
<1>6. Edge(g, l[1], l[2]) <= g[l] /\ Edge(g, l[1], l[2]) \in Nat
  BY EdgeIs, BoundsAreNumbers
<1>7. L[k][l[2]] \in Nat
  <2>1. OneLinkMore(g, L[k - 1]) \in [ Node -> 0 .. Inf ]
    BY <1>2, OneLinkMoreIs
  <2>2. QED
    BY <1>2, <1>3, <2>1, BoundsAreNumbers
<1>8. L[k][l[2]] <= L[k - 1][l[1]] + g[l]
  BY <1>3, <1>4, <1>5, <1>6, <1>7
<1>9. QED
  BY <1>8 DEF L

\* More links allowed, no longer way.
LEMMA LengthsDecrease ==
  ASSUME NEW g, LinksMeasured(g), NEW from \in Node, NEW n \in Node
  PROVE  \A k \in 0 .. Far : /\ Lengths(g, from)[k][n] \in 0 .. Inf
                             /\ Lengths(g, from)[Far][n] <= Lengths(g, from)[k][n]
                             /\ Lengths(g, from)[k][from] = 0
<1> DEFINE L == Lengths(g, from)
<1>0. /\ L \in [ 0 .. Far -> [ Node -> 0 .. Inf ] ]
      /\ L[0] = [ m \in Node |-> IF m = from THEN 0 ELSE Inf ]
      /\ \A k \in 1 .. Far : L[k] = OneLinkMore(g, L[k - 1])
  BY LengthsAre
<1> HIDE DEF L
<1>1. \A k \in 0 .. Far : L[k] \in [ Node -> 0 .. Inf ]
  BY <1>0
<1>2. \A k \in 1 .. Far : k - 1 \in 0 .. Far /\ k \in 0 .. Far
  BY BoundsAreNumbers
<1>3. \A k \in 1 .. Far : L[k] = OneLinkMore(g, L[k - 1])
  BY <1>0
<1>4. L[0][from] = 0
  BY <1>0
<1>5. \A k \in 0 .. Far, m \in Node : L[k][m] \in 0 .. Inf /\ L[k][m] \in Nat
  BY <1>1, BoundsAreNumbers
<1>6. \A k \in 1 .. Far, m \in Node : L[k][m] <= L[k - 1][m]
  BY <1>1, <1>2, <1>3, OneLinkMoreIs
<1> DEFINE S == { k \in 0 .. Far : L[k][from] = 0 /\ \A j \in 0 .. k : L[k][n] <= L[j][n] }
<1>7. 0 \in S
  BY <1>4, <1>5, BoundsAreNumbers
<1>8. ASSUME NEW k \in 1 .. Far, k - 1 \in S PROVE k \in S
  <2>1. L[k][from] <= 0 /\ L[k][from] \in Nat
    BY <1>2, <1>5, <1>6, <1>8
  <2>2. ASSUME NEW j \in 0 .. k PROVE L[k][n] <= L[j][n]
    <3>0. j \in 0 .. Far /\ L[j][n] \in Nat /\ L[k][n] \in Nat /\ L[k - 1][n] \in Nat
      BY <1>2, <1>5, BoundsAreNumbers
    <3>1. CASE j = k
      BY <3>0, <3>1
    <3>2. CASE j # k
      <4>1. j \in 0 .. (k - 1)
        BY <3>2
      <4>2. L[k - 1][n] <= L[j][n]
        BY <1>8, <4>1
      <4>3. L[k][n] <= L[k - 1][n]
        BY <1>6
      <4>4. QED
        BY <3>0, <4>2, <4>3
    <3>3. QED
      BY <3>1, <3>2
  <2>3. QED
    BY <1>2, <2>1, <2>2
<1> HIDE DEF S
<1>9. 0 .. Far \subseteq S
  BY <1>7, <1>8, BoundsAreNumbers, UpTo
<1>10. Far \in 0 .. Far
  BY BoundsAreNumbers
<1>11. QED
  BY <1>5, <1>9, <1>10 DEF S, L

\* What no link can shorten by more than its length bounds the distance from below.
LEMMA Potential ==
  ASSUME NEW g, LinksMeasured(g), NEW from \in Node, NEW p \in [ Node -> 0 .. Inf ],
         \A l \in Usable(g) : p[l[2]] <= p[l[1]] + g[l]
  PROVE  \A n \in Node : p[n] <= p[from] + Distance(g, from, n)
<1> DEFINE L == Lengths(g, from)
           S == { k \in 0 .. Far : \A n \in Node : p[n] <= p[from] + L[k][n] }
<1>0. /\ L \in [ 0 .. Far -> [ Node -> 0 .. Inf ] ]
      /\ L[0] = [ n \in Node |-> IF n = from THEN 0 ELSE Inf ]
      /\ \A k \in 1 .. Far : L[k] = OneLinkMore(g, L[k - 1])
  BY LengthsAre
<1> HIDE DEF L
<1>1. /\ \A k \in 0 .. Far : L[k] \in [ Node -> 0 .. Inf ]
      /\ L[0] = [ n \in Node |-> IF n = from THEN 0 ELSE Inf ]
      /\ \A k \in 1 .. Far : L[k] = OneLinkMore(g, L[k - 1])
  BY <1>0
<1>2. \A n \in Node : p[n] \in Nat /\ p[n] <= Inf
  BY BoundsAreNumbers
<1>3. 0 \in S
  BY <1>1, <1>2, BoundsAreNumbers
<1>4. ASSUME NEW k \in 1 .. Far, k - 1 \in S PROVE k \in S
  <2>1. k - 1 \in 0 .. Far /\ k \in 0 .. Far
    BY BoundsAreNumbers
  <2>2. L[k - 1] \in [ Node -> 0 .. Inf ] /\ L[k] = OneLinkMore(g, L[k - 1])
    BY <1>1, <2>1
  <2>3. ASSUME NEW n \in Node PROVE p[n] <= p[from] + L[k][n]
    <3>1. \/ L[k][n] = Inf
          \/ L[k][n] = L[k - 1][n]
          \/ \E m \in Node : L[k][n] = L[k - 1][m] + Edge(g, m, n)
      BY <2>2, OneLinkMoreIs
    <3>2. \A m \in Node : /\ L[k - 1][m] \in Nat
                          /\ p[m] <= p[from] + L[k - 1][m]
      BY <1>4, <2>2, BoundsAreNumbers
    <3>3. CASE L[k][n] = Inf
      BY <1>2, <3>3, BoundsAreNumbers
    <3>4. CASE L[k][n] = L[k - 1][n]
      BY <3>2, <3>4
    <3>5. ASSUME NEW m \in Node, L[k][n] = L[k - 1][m] + Edge(g, m, n)
          PROVE  p[n] <= p[from] + L[k][n]
      <4>1. Edge(g, m, n) \in Nat /\ Edge(g, m, n) <= Inf
        BY EdgeIs, BoundsAreNumbers
      <4>2. CASE Edge(g, m, n) < Inf
        <5>1. PICK l \in Usable(g) : l[1] = m /\ l[2] = n /\ g[l] = Edge(g, m, n)
          BY <4>2, EdgeIs
        <5>2. p[n] <= p[m] + Edge(g, m, n)
          BY <5>1
        <5>3. QED
          BY <1>2, <3>2, <3>5, <4>1, <5>2
      <4>3. CASE ~ (Edge(g, m, n) < Inf)
        BY <1>2, <3>2, <3>5, <4>1, <4>3, BoundsAreNumbers
      <4>4. QED
        BY <4>2, <4>3
    <3>6. QED
      BY <3>1, <3>3, <3>4, <3>5
  <2>4. QED
    BY <2>1, <2>3
<1> HIDE DEF S
<1>5. 0 .. Far \subseteq S
  BY <1>3, <1>4, BoundsAreNumbers, UpTo
<1>6. Far \in S
  BY <1>5, BoundsAreNumbers
<1>7. QED
  BY <1>6 DEF S, L, Distance, Far

-----------------------------------------------------------------------------
(* The tree of a search: previous leads to Self, and every link on the way *)
(* adds its length.                                                        *)

Tree(g, distance, previous, via) ==
  /\ distance \in [ Node -> 0 .. Inf ] /\ previous \in [ Node -> Node ]
  /\ distance[Self] = 0 /\ previous[Self] = Self
  /\ \A n \in Node : distance[n] = Inf => previous[n] = Self
  /\ \A n \in Node \ {Self} : distance[n] < Inf =>
       LET l == <<previous[n], n, via[n]>>
       IN  l \in Usable(g) /\ distance[previous[n]] + g[l] = distance[n]

Closer(distance, n) == { m \in Node : distance[m] < distance[n] }
TreeRank(distance, n) == Cardinality(Closer(distance, n))

LEMMA RankIs ==
  ASSUME NEW distance \in [ Node -> 0 .. Inf ], NEW n \in Node
  PROVE  TreeRank(distance, n) \in 0 .. Far - 1
<1>1. IsFiniteSet(Node) /\ Closer(distance, n) \subseteq Node
  BY RouterAssumption DEF Closer
<1>2. n \notin Closer(distance, n)
  BY BoundsAreNumbers DEF Closer
<1>3. Closer(distance, n) # Node
  BY <1>2
<1>4. IsFiniteSet(Closer(distance, n))
  BY <1>1, FS_Subset
<1>5. Cardinality(Closer(distance, n)) \in Nat
  BY <1>4, FS_CardinalityType
<1>6. /\ Cardinality(Closer(distance, n)) <= Cardinality(Node)
      /\ Cardinality(Closer(distance, n)) # Cardinality(Node)
  BY <1>1, <1>3, FS_Subset
<1>7. QED
  BY <1>5, <1>6, BoundsAreNumbers DEF TreeRank, Far

LEMMA RankOfPrevious ==
  ASSUME NEW g, LinksMeasured(g), NEW distance, NEW previous, NEW via,
         Tree(g, distance, previous, via),
         NEW n \in Node \ {Self}, distance[n] < Inf
  PROVE  /\ previous[n] \in Node
         /\ distance[previous[n]] < distance[n]
         /\ TreeRank(distance, previous[n]) < TreeRank(distance, n)
<1> DEFINE p == previous[n]
           l == <<p, n, via[n]>>
<1>1. /\ distance \in [ Node -> 0 .. Inf ] /\ p \in Node
      /\ l \in Usable(g) /\ distance[p] + g[l] = distance[n]
  BY DEF Tree
<1>2. g[l] \in Nat \ {0} /\ distance[p] \in Nat /\ distance[n] \in Nat
  BY <1>1, BoundsAreNumbers DEF LinksMeasured, Usable
<1>3. distance[p] < distance[n]
  <2> HIDE DEF l, p
  <2>1. QED
    BY <1>1, <1>2
<1>4. Closer(distance, p) \subseteq Closer(distance, n)
  BY <1>1, <1>2, <1>3, BoundsAreNumbers DEF Closer
<1>5. p \in Closer(distance, n) /\ p \notin Closer(distance, p)
  BY <1>1, <1>2, <1>3 DEF Closer
<1>6. IsFiniteSet(Closer(distance, n))
  <2>1. Closer(distance, n) \subseteq Node
    BY DEF Closer
  <2>2. QED
    BY <2>1, RouterAssumption, FS_Subset
<1>7. Closer(distance, p) # Closer(distance, n)
  BY <1>5
<1>8. TreeRank(distance, p) < TreeRank(distance, n)
  <2>1. /\ TreeRank(distance, p) <= TreeRank(distance, n)
        /\ TreeRank(distance, p) # TreeRank(distance, n)
    BY <1>4, <1>6, <1>7, FS_Subset DEF TreeRank
  <2>2. TreeRank(distance, p) \in Nat /\ TreeRank(distance, n) \in Nat
    BY <1>1, RankIs, BoundsAreNumbers
  <2>3. QED
    BY <2>1, <2>2
<1>9. QED
  BY <1>1, <1>3, <1>8

\* The distance of the search is the length of a way.
LEMMA TreeIsWays ==
  ASSUME NEW g, LinksMeasured(g), NEW distance, NEW previous, NEW via,
         Tree(g, distance, previous, via)
  PROVE  \A n \in Node : Distance(g, Self, n) <= distance[n]
<1> DEFINE L == Lengths(g, Self)
           S == { k \in 0 .. Far :
                    \A n \in Node : distance[n] < Inf /\ TreeRank(distance, n) <= k
                                      => L[k][n] <= distance[n] }
<1>1. distance \in [ Node -> 0 .. Inf ] /\ \A n \in Node : distance[n] \in Nat
  BY BoundsAreNumbers DEF Tree
<1>2. \A n \in Node : TreeRank(distance, n) \in 0 .. Far - 1
  BY <1>1, RankIs
<1>3. Self \in Node /\ distance[Self] = 0
  BY RouterAssumption DEF Tree
<1>4. \A k \in 0 .. Far : L[k][Self] = 0
  BY <1>3, LengthsDecrease
<1>5. ASSUME NEW k \in 0 .. Far, k = 0 \/ k - 1 \in S PROVE k \in S
  <2> SUFFICES ASSUME NEW n \in Node, distance[n] < Inf, TreeRank(distance, n) <= k
               PROVE  L[k][n] <= distance[n]
    OBVIOUS
  <2>1. CASE n = Self
    BY <1>3, <1>4, <2>1
  <2>2. CASE n # Self
    <3> DEFINE p == previous[n]
               l == <<p, n, via[n]>>
    <3>1. p \in Node /\ distance[p] < distance[n] /\ TreeRank(distance, p) < TreeRank(distance, n)
      BY <2>2, RankOfPrevious
    <3>2. l \in Usable(g) /\ distance[p] + g[l] = distance[n] /\ l[1] = p /\ l[2] = n
      BY <2>2 DEF Tree
    <3> HIDE DEF l, p
    <3>3. TreeRank(distance, p) \in Nat /\ TreeRank(distance, n) \in Nat
      BY <1>2, <3>1
    <3>4. k # 0 /\ k \in 1 .. Far /\ k - 1 \in 0 .. Far
      BY <3>1, <3>3, BoundsAreNumbers
    <3>5. TreeRank(distance, p) <= k - 1
      BY <3>1, <3>3
    <3>6. distance[p] < Inf
      BY <1>1, <3>1, BoundsAreNumbers
    <3>7. L[k - 1][p] <= distance[p]
      BY <1>5, <3>1, <3>4, <3>5, <3>6
    <3>8. L[k][l[2]] <= L[k - 1][l[1]] + g[l]
      BY <1>3, <3>2, <3>4, LengthsExtend
    <3>9. L[k][n] \in 0 .. Inf /\ L[k - 1][p] \in 0 .. Inf
      BY <1>3, <3>1, <3>4, LengthsDecrease
    <3>10. g[l] \in Nat
      BY <3>2, BoundsAreNumbers DEF LinksMeasured, Usable
    <3> HIDE DEF L
    <3>11. L[k][n] <= L[k - 1][p] + g[l]
      BY <3>2, <3>8
    <3>12. L[k][n] \in Nat /\ L[k - 1][p] \in Nat /\ distance[p] \in Nat
      BY <1>1, <3>1, <3>9, BoundsAreNumbers
    <3>13. QED
      BY <3>2, <3>7, <3>10, <3>11, <3>12
  <2>3. QED
    BY <2>1, <2>2
<1> HIDE DEF S
<1>6. Far \in S
  <2>1. 0 \in S /\ \A k \in 1 .. Far : k - 1 \in S => k \in S
    BY <1>5, BoundsAreNumbers
  <2>2. 0 .. Far \subseteq S
    BY <2>1, BoundsAreNumbers, UpTo
  <2>3. QED
    BY <2>2, BoundsAreNumbers
<1>7. ASSUME NEW n \in Node PROVE L[Far][n] <= distance[n]
  <2>1. CASE distance[n] < Inf
    <3>1. TreeRank(distance, n) <= Far
      BY <1>2, BoundsAreNumbers
    <3>2. QED
      BY <1>6, <2>1, <3>1 DEF S
  <2>2. CASE ~ (distance[n] < Inf)
    <3>1. Far \in 0 .. Far
      BY BoundsAreNumbers
    <3>2. L[Far][n] \in 0 .. Inf
      BY <1>3, <3>1, LengthsDecrease
    <3> HIDE DEF L
    <3>3. QED
      BY <1>1, <2>2, <3>2, BoundsAreNumbers
  <2>3. QED
    BY <2>1, <2>2
<1>8. QED
  BY <1>7 DEF Distance, Far

\* Back along previous is defined.
LEMMA HopsExist ==
  ASSUME NEW g, LinksMeasured(g), NEW distance, NEW previous, NEW via,
         Tree(g, distance, previous, via)
  PROVE  \E f : f = [ n \in Node |-> IF previous[n] = Self THEN n ELSE f[previous[n]] ]
<1> DEFINE Hops(f, k) == \A n \in Node : TreeRank(distance, n) < k =>
                           f[n] = IF previous[n] = Self THEN n ELSE f[previous[n]]
           S == { k \in 0 .. Far : \E f \in [ Node -> Node ] : Hops(f, k) }
<1>1. distance \in [ Node -> 0 .. Inf ] /\ \A n \in Node : TreeRank(distance, n) \in 0 .. Far - 1
  BY RankIs DEF Tree
<1>2. 0 \in S
  <2>1. [ n \in Node |-> n ] \in [ Node -> Node ]
    OBVIOUS
  <2>2. \A f : Hops(f, 0)
    BY <1>1, BoundsAreNumbers
  <2>3. 0 \in 0 .. Far
    BY BoundsAreNumbers
  <2> HIDE DEF Hops
  <2>4. QED
    BY <2>1, <2>2, <2>3
<1>3. ASSUME NEW k \in 1 .. Far, k - 1 \in S PROVE k \in S
  <2>1. PICK f \in [ Node -> Node ] : Hops(f, k - 1)
    BY <1>3
  <2> DEFINE h == [ n \in Node |-> IF previous[n] = Self THEN n ELSE f[previous[n]] ]
  <2>2. h \in [ Node -> Node ]
    BY DEF Tree
  <2>3. ASSUME NEW n \in Node, TreeRank(distance, n) < k
        PROVE  h[n] = IF previous[n] = Self THEN n ELSE h[previous[n]]
    <3>1. CASE previous[n] = Self
      BY <3>1
    <3>2. CASE previous[n] # Self
      <4>1. n # Self /\ distance[n] < Inf
        BY <1>1, <3>2, BoundsAreNumbers DEF Tree
      <4>2. previous[n] \in Node /\ TreeRank(distance, previous[n]) < TreeRank(distance, n)
        BY <4>1, RankOfPrevious
      <4>3. TreeRank(distance, previous[n]) < k - 1
        BY <1>1, <2>3, <4>2, BoundsAreNumbers
      <4>4. f[previous[n]] = h[previous[n]]
        BY <2>1, <4>2, <4>3
      <4>5. QED
        BY <3>2, <4>4
    <3>3. QED
      BY <3>1, <3>2
  <2> HIDE DEF h
  <2>4. Hops(h, k)
    BY <2>3
  <2>5. k \in 0 .. Far
    BY BoundsAreNumbers
  <2> HIDE DEF Hops
  <2>6. QED
    BY <2>2, <2>4, <2>5
<1> HIDE DEF S
<1>4. 0 .. Far \subseteq S
  BY <1>2, <1>3, BoundsAreNumbers, UpTo
<1>5. PICK f \in [ Node -> Node ] : Hops(f, Far)
  BY <1>4, BoundsAreNumbers DEF S
<1>6. \A n \in Node : TreeRank(distance, n) < Far
  BY <1>1, BoundsAreNumbers
<1>7. f = [ n \in Node |-> IF previous[n] = Self THEN n ELSE f[previous[n]] ]
  BY <1>5, <1>6
<1>8. QED
  BY <1>7

\* The first hop is a neighbour of Self on a way as long as the distance.
LEMMA HopsAreWays ==
  ASSUME NEW g, LinksMeasured(g), NEW distance, NEW previous, NEW via,
         Tree(g, distance, previous, via),
         NEW hop, hop = [ n \in Node |-> IF previous[n] = Self THEN n ELSE hop[previous[n]] ]
  PROVE  \A n \in Node \ {Self} : distance[n] < Inf =>
           LET first == <<Self, hop[n], via[hop[n]]>>
           IN  /\ hop[n] \in Node
               /\ first \in Usable(g) /\ g[first] = distance[hop[n]]
               /\ g[first] + Distance(g, hop[n], n) <= distance[n]
<1> DEFINE Good(n, k) ==
             /\ hop[n] \in Node \ {Self} /\ distance[hop[n]] < Inf
             /\ previous[hop[n]] = Self
             /\ distance[hop[n]] + Lengths(g, hop[n])[k][n] <= distance[n]
           S == { k \in 0 .. Far :
                    \A n \in Node \ {Self} : distance[n] < Inf /\ TreeRank(distance, n) <= k
                                               => Good(n, k) }
<1>1. distance \in [ Node -> 0 .. Inf ] /\ \A n \in Node : distance[n] \in Nat
  BY BoundsAreNumbers DEF Tree
<1>2. \A n \in Node : TreeRank(distance, n) \in 0 .. Far - 1
  BY <1>1, RankIs
<1>3. ASSUME NEW k \in 0 .. Far, k = 0 \/ k - 1 \in S PROVE k \in S
  <2> SUFFICES ASSUME NEW n \in Node \ {Self}, distance[n] < Inf, TreeRank(distance, n) <= k
               PROVE  Good(n, k)
    OBVIOUS
  <2> DEFINE p == previous[n]
             l == <<p, n, via[n]>>
  <2>1. p \in Node /\ distance[p] < distance[n] /\ TreeRank(distance, p) < TreeRank(distance, n)
    BY RankOfPrevious
  <2>2. l \in Usable(g) /\ distance[p] + g[l] = distance[n] /\ l[1] = p /\ l[2] = n
    BY DEF Tree
  <2>3. k # 0 /\ k \in 1 .. Far /\ k - 1 \in 0 .. Far /\ TreeRank(distance, p) <= k - 1
    BY <1>2, <2>1, BoundsAreNumbers
  <2>4. CASE p = Self
    <3>1. hop[n] = n
      BY <2>4
    <3>2. Lengths(g, n)[k][n] = 0
      BY LengthsDecrease
    <3>3. distance[n] + 0 <= distance[n]
      BY <1>1
    <3>4. QED
      BY <2>4, <3>1, <3>2, <3>3
  <2>5. CASE p # Self
    <3>1. hop[n] = hop[p]
      BY <2>5
    <3>2. distance[p] < Inf
      BY <1>1, <2>1, BoundsAreNumbers
    <3> DEFINE h == hop[p]
    <3>3. Good(p, k - 1)
      BY <1>3, <2>1, <2>3, <2>5, <3>2
    <3>4. h \in Node \ {Self} /\ distance[h] < Inf /\ previous[h] = Self
      BY <3>3
    <3> HIDE DEF p, l
    <3>5. distance[h] + Lengths(g, h)[k - 1][p] <= distance[p]
      BY <3>3
    <3>6. Lengths(g, h)[k][n] <= Lengths(g, h)[k - 1][p] + g[l]
      <4>1. Lengths(g, h)[k][l[2]] <= Lengths(g, h)[k - 1][l[1]] + g[l]
        BY <2>2, <2>3, <3>4, LengthsExtend
      <4>2. QED
        BY <2>2, <4>1
    <3>7. Lengths(g, h)[k][n] \in 0 .. Inf /\ Lengths(g, h)[k - 1][p] \in 0 .. Inf
      BY <2>1, <2>3, <3>4, LengthsDecrease
    <3>8. g[l] \in Nat /\ distance[p] \in Nat /\ distance[h] \in Nat
      BY <1>1, <2>1, <2>2, <3>4, BoundsAreNumbers DEF LinksMeasured, Usable
    <3> DEFINE a == Lengths(g, h)[k][n]
               b == Lengths(g, h)[k - 1][p]
    <3>9. distance[h] + a <= distance[n]
      <4>1. a \in Nat /\ b \in Nat
        BY <3>7, BoundsAreNumbers
      <4>2. a <= b + g[l] /\ distance[h] + b <= distance[p] /\ distance[p] + g[l] = distance[n]
        BY <2>2, <3>5, <3>6
      <4> HIDE DEF a, b, h
      <4>3. QED
        BY <3>8, <4>1, <4>2
    <3>10. QED
      BY <3>1, <3>4, <3>9
  <2>6. QED
    BY <2>4, <2>5
<1> HIDE DEF S
<1>4. Far \in S
  <2>1. 0 \in S /\ \A k \in 1 .. Far : k - 1 \in S => k \in S
    BY <1>3, BoundsAreNumbers
  <2>2. 0 .. Far \subseteq S
    BY <2>1, BoundsAreNumbers, UpTo
  <2>3. QED
    BY <2>2, BoundsAreNumbers
<1>5. ASSUME NEW n \in Node \ {Self}, distance[n] < Inf
      PROVE  LET first == <<Self, hop[n], via[hop[n]]>>
             IN  /\ hop[n] \in Node
                 /\ first \in Usable(g) /\ g[first] = distance[hop[n]]
                 /\ g[first] + Distance(g, hop[n], n) <= distance[n]
  <2> DEFINE h == hop[n]
             first == <<Self, h, via[h]>>
  <2>1. TreeRank(distance, n) <= Far
    BY <1>2, BoundsAreNumbers
  <2>2. Good(n, Far)
    BY <1>4, <1>5, <2>1 DEF S
  <2>3. h \in Node \ {Self} /\ distance[h] < Inf /\ previous[h] = Self
    BY <2>2
  <2>4. distance[h] + Distance(g, h, n) <= distance[n]
    BY <2>2 DEF Distance, Far
  <2> HIDE DEF h
  <2>5. first \in Usable(g) /\ distance[Self] + g[first] = distance[h] /\ distance[Self] = 0
    BY <2>3 DEF Tree
  <2>6. g[first] \in Nat
    BY <2>5, BoundsAreNumbers DEF LinksMeasured, Usable
  <2>7. g[first] = distance[h]
    BY <2>5, <2>6
  <2>8. QED
    BY <2>3, <2>4, <2>5, <2>7 DEF h
<1>6. QED
  BY <1>5

-----------------------------------------------------------------------------
(* The search.                                                             *)

Sources(g) == { l[1] : l \in Usable(g) }

SearchRecords ==
  [ dest : Node \ {Self}, todo : SUBSET Node, unvisited : SUBSET Node,
    distance : [ Node -> 0 .. Inf ], previous : [ Node -> Node ],
    radioUsed : [ Node -> Transceiver \cup {"none"} ] ]

Visited(g, s) == Sources(g) \ s.unvisited

\* The nodes that have been visited are the nearest of all and are done with.
SearchRight(g, s) ==
  /\ s \in SearchRecords /\ s.unvisited \subseteq Sources(g)
  /\ Tree(g, s.distance, s.previous, s.radioUsed)
  /\ \A n \in Node \ {Self} : s.distance[n] < Inf => s.previous[n] \in Visited(g, s)
  /\ \A v \in Visited(g, s), u \in s.unvisited : s.distance[v] <= s.distance[u]
  /\ \A l \in Usable(g) : l[1] \in Visited(g, s) =>
       s.distance[l[2]] <= s.distance[l[1]] + g[l]

LEMMA LinksJoinNodes ==
  ASSUME NEW g, LinksMeasured(g)
  PROVE  /\ AllNodes(g) \subseteq Node /\ Sources(g) \subseteq Node
         /\ \A l \in Usable(g) : /\ l \in Node \X Node \X Transceiver
                                 /\ l = <<l[1], l[2], l[3]>>
                                 /\ l[1] \in Sources(g) /\ g[l] \in Nat \ {0} /\ g[l] < Inf
<1>1. \A l \in DOMAIN g : Ends(l) \subseteq Node
  BY DEF LinksMeasured, Ends
<1>2. AllNodes(g) \subseteq Node
  BY <1>1 DEF AllNodes
<1>3. \A l \in Usable(g) : l \in Node \X Node \X Transceiver /\ l = <<l[1], l[2], l[3]>>
  BY DEF LinksMeasured, Usable
<1>4. \A l \in Usable(g) : l[1] \in Sources(g) /\ g[l] \in Nat \ {0} /\ g[l] < Inf
  BY BoundsAreNumbers DEF LinksMeasured, Usable, Sources
<1>5. Sources(g) \subseteq Node
  BY <1>3 DEF Sources
<1>6. QED
  BY <1>2, <1>3, <1>4, <1>5

LEMMA SearchBegins ==
  ASSUME NEW g, LinksMeasured(g), NEW d \in AllNodes(g) \ {Self},
         NEW todo \in SUBSET AllNodes(g)
  PROVE  SearchRight(g, Searching(g, d, todo))
<1> DEFINE s == Searching(g, d, todo)
<1>1. /\ s.dest = d /\ s.todo = todo /\ s.unvisited = Sources(g)
      /\ s.distance = [ n \in Node |-> IF n = Self THEN 0 ELSE Inf ]
      /\ s.previous = [ n \in Node |-> Self ]
      /\ s.radioUsed = [ n \in Node |-> "none" ]
  BY DEF Searching, Sources
<1>2. s \in SearchRecords
  BY LinksJoinNodes, BoundsAreNumbers, RouterAssumption DEF Searching, SearchRecords, Sources
<1> HIDE DEF s
<1>3. Tree(g, s.distance, s.previous, s.radioUsed)
  BY <1>1, BoundsAreNumbers, RouterAssumption DEF Tree
<1>4. Visited(g, s) = {}
  BY <1>1 DEF Visited
<1>5. \A n \in Node \ {Self} : ~ (s.distance[n] < Inf)
  BY <1>1, BoundsAreNumbers
<1>6. SearchRight(g, s)
  BY <1>1, <1>2, <1>3, <1>4, <1>5 DEF SearchRight
<1>7. QED
  BY <1>6 DEF s

\* What is traced when the loop ends.
LEMMA TracedIsRight ==
  ASSUME NEW g, LinksMeasured(g), SearchRight(g, search),
         \/ search.unvisited = {}
         \/ \E n \in Nearest : n = search.dest \/ search.distance[n] = Inf
  PROVE  IF Distance(g, Self, search.dest) = Inf THEN Traced = None
         ELSE LET first == <<Self, Traced.next, Traced.radio>>
              IN  /\ first \in Usable(g)
                  /\ g[first] + Distance(g, Traced.next, search.dest)
                       = Distance(g, Self, search.dest)
<1> DEFINE dest == search.dest
           distance == search.distance
           cap == IF dest \in Nearest THEN distance[dest] ELSE Inf
           p == [ n \in Node |-> Lesser(distance[n], cap) ]
<1>1. /\ dest \in Node \ {Self} /\ Self \in Node
      /\ distance \in [ Node -> 0 .. Inf ] /\ distance[Self] = 0
      /\ search.unvisited \subseteq Node
      /\ Tree(g, distance, search.previous, search.radioUsed)
  BY RouterAssumption DEF SearchRight, SearchRecords, Tree
<1>2. \A n \in Node : distance[n] \in Nat /\ distance[n] <= Inf
  BY <1>1, BoundsAreNumbers
<1>3. cap \in Nat /\ cap <= Inf
  BY <1>1, <1>2, BoundsAreNumbers
<1>4. \A u \in search.unvisited : cap <= distance[u]
  <2> TAKE u \in search.unvisited
  <2>0. distance[u] \in Nat
    BY <1>1, <1>2
  <2>1. CASE dest \in Nearest
    BY <2>1 DEF Nearest
  <2>2. CASE dest \notin Nearest
    <3>1. PICK n \in Nearest : distance[n] = Inf
      BY <2>2
    <3>2. Inf <= distance[u]
      BY <3>1 DEF Nearest
    <3>3. QED
      BY <2>2, <3>2
  <2>3. QED
    BY <2>1, <2>2
<1>5. \A l \in Usable(g) : l[1] \in search.unvisited \/ distance[l[2]] <= distance[l[1]] + g[l]
  <2> TAKE l \in Usable(g)
  <2>1. l[1] \in Sources(g)
    BY LinksJoinNodes
  <2>2. QED
    BY <2>1 DEF SearchRight, Visited
<1> HIDE DEF cap, distance, dest
<1>6. \A n \in Node : /\ p[n] \in Nat /\ p[n] <= distance[n] /\ p[n] <= cap
                      /\ p[n] \in {distance[n], cap}
  BY <1>2, <1>3, LesserIs
<1> HIDE DEF p
<1>7. p \in [ Node -> 0 .. Inf ]
  <2>1. \A n \in Node : p[n] \in 0 .. Inf
    BY <1>3, <1>6, BoundsAreNumbers
  <2>2. QED
    BY <2>1 DEF p
<1>8. \A l \in Usable(g) : p[l[2]] <= p[l[1]] + g[l]
  <2> TAKE l \in Usable(g)
  <2>1. l[1] \in Node /\ l[2] \in Node /\ g[l] \in Nat
    BY LinksJoinNodes
  <2>2. /\ p[l[1]] \in Nat /\ p[l[2]] \in Nat /\ p[l[2]] <= cap /\ p[l[2]] <= distance[l[2]]
        /\ p[l[1]] \in {distance[l[1]], cap} /\ p[l[1]] <= cap
        /\ distance[l[1]] \in Nat /\ distance[l[2]] \in Nat
    BY <1>2, <1>6, <2>1
  <2>3. CASE l[1] \in search.unvisited
    <3>1. cap <= distance[l[1]]
      BY <1>4, <2>3
    <3>2. QED
      BY <1>3, <2>1, <2>2, <3>1
  <2>4. CASE distance[l[2]] <= distance[l[1]] + g[l]
    BY <1>3, <2>1, <2>2, <2>4
  <2>5. QED
    BY <1>5, <2>3, <2>4
<1>9. \A from \in Node : p[dest] <= p[from] + Distance(g, from, dest)
  BY <1>1, <1>7, <1>8, Potential
<1>10. p[dest] = distance[dest]
  <2>1. cap \in {distance[dest], Inf}
    BY DEF cap
  <2>2. QED
    BY <1>1, <1>2, <1>6, <2>1, LesserIs, BoundsAreNumbers DEF p, Lesser
<1>11. \A from \in Node : Distance(g, from, dest) \in 0 .. Inf
  <2>1. Far \in 0 .. Far
    BY BoundsAreNumbers
  <2>2. QED
    BY <1>1, <2>1, LengthsDecrease DEF Distance, Far
<1>12. Distance(g, Self, dest) = distance[dest]
  <2>1. p[Self] = 0
    BY <1>1, <1>6
  <2>2. distance[dest] <= 0 + Distance(g, Self, dest)
    BY <1>1, <1>9, <1>10, <2>1
  <2>3. Distance(g, Self, dest) <= distance[dest]
    BY <1>1, TreeIsWays
  <2>4. QED
    BY <1>1, <1>2, <1>11, <2>2, <2>3, BoundsAreNumbers
<1>13. CASE distance[dest] = Inf
  BY <1>12, <1>13 DEF Traced, distance, dest
<1>14. CASE distance[dest] # Inf
  <2> DEFINE hop == FirstHop[dest]
             first == <<Self, hop, search.radioUsed[hop]>>
  <2>1. Traced = [ next |-> hop, radio |-> search.radioUsed[hop], cost |-> distance[hop] ]
    BY <1>14 DEF Traced, distance, dest
  <2>2. FirstHop = [ n \in Node |-> IF search.previous[n] = Self THEN n
                                    ELSE FirstHop[search.previous[n]] ]
    <3>1. \E f : f = [ n \in Node |-> IF search.previous[n] = Self THEN n
                                      ELSE f[search.previous[n]] ]
      BY <1>1, HopsExist
    <3>2. QED
      BY <3>1 DEF FirstHop
  <2>3. distance[dest] < Inf
    BY <1>1, <1>2, <1>14, BoundsAreNumbers
  <2>4. /\ hop \in Node /\ first \in Usable(g) /\ g[first] = distance[hop]
        /\ g[first] + Distance(g, hop, dest) <= distance[dest]
    BY <1>1, <2>2, <2>3, HopsAreWays
  <2> HIDE DEF hop
  <2>5. distance[dest] <= distance[hop] + Distance(g, hop, dest)
    <3>1. p[dest] <= p[hop] + Distance(g, hop, dest) /\ p[hop] <= distance[hop]
      BY <1>6, <1>9, <2>4
    <3>2. p[hop] \in Nat /\ distance[hop] \in Nat /\ Distance(g, hop, dest) \in Nat
      BY <1>2, <1>6, <1>11, <2>4, BoundsAreNumbers
    <3>3. QED
      BY <1>1, <1>2, <1>10, <3>1, <3>2
  <2>6. distance[hop] + Distance(g, hop, dest) = distance[dest]
    BY <1>1, <1>2, <1>11, <2>4, <2>5, BoundsAreNumbers
  <2>7. QED
    BY <1>12, <1>14, <2>1, <2>4, <2>6 DEF dest
<1>15. QED
  BY <1>13, <1>14

\* One turn of the loop.
LEMMA VisitKeepsRight ==
  ASSUME NEW current \in search.unvisited, Visit(current),
         LinksMeasured(links), SearchRight(links, search)
  PROVE  /\ SearchRight(links, search')
         /\ search'.dest = search.dest /\ search'.todo = search.todo
<1> DEFINE g == links
           old == search.distance
           out == { l \in Usable(g) : l[1] = current }
           best(n) == { l \in out : l[2] = n /\ \A k \in out : k[2] = n => g[l] <= g[k] }
           way(n) == old[current] + g[CHOOSE l \in best(n) : TRUE]
           improved == { n \in { l[2] : l \in out } : Improves(old[n], way(n)) }
<1>1. PICK via \in [ improved -> Transceiver ] :
        /\ \A n \in improved : <<current, n, via[n]>> \in best(n)
        /\ search' =
             [ search EXCEPT
               !.unvisited = search.unvisited \ {current},
               !.distance = [ n \in Node |-> IF n \in improved THEN way(n) ELSE @[n] ],
               !.previous = [ n \in Node |-> IF n \in improved THEN current ELSE @[n] ],
               !.radioUsed = [ n \in Node |-> IF n \in improved THEN via[n] ELSE @[n] ] ]
  BY DEF Visit
<1>2. current \in Nearest /\ current # search.dest /\ old[current] < Inf
  BY DEF Visit
<1>3. /\ search \in SearchRecords /\ search.unvisited \subseteq Sources(g)
      /\ Tree(g, old, search.previous, search.radioUsed)
      /\ old \in [ Node -> 0 .. Inf ] /\ search.previous \in [ Node -> Node ]
      /\ search.radioUsed \in [ Node -> Transceiver \cup {"none"} ]
      /\ current \in Node /\ Self \in Node /\ old[Self] = 0 /\ search.previous[Self] = Self
  BY RouterAssumption DEF SearchRight, SearchRecords, Tree
<1>4. \A n \in Node : old[n] \in Nat /\ old[n] <= Inf
  BY <1>3, BoundsAreNumbers
<1>5. \A n \in improved : /\ n \in Node /\ via[n] \in Transceiver
                          /\ <<current, n, via[n]>> \in Usable(g)
                          /\ way(n) = old[current] + g[<<current, n, via[n]>>]
                          /\ way(n) \in Nat /\ old[current] < way(n) /\ way(n) < old[n]
  <2> TAKE n \in improved
  <2> DEFINE l == <<current, n, via[n]>>
             k == CHOOSE x \in best(n) : TRUE
  <2>1. l \in best(n) /\ k \in best(n)
    BY <1>1
  <2>2. l \in out /\ k \in out /\ l[2] = n /\ k[2] = n /\ g[l] <= g[k] /\ g[k] <= g[l]
    BY <2>1
  <2>3. l \in Usable(g) /\ k \in Usable(g) /\ via[n] \in Transceiver
    BY <2>2
  <2>4. way(n) = old[current] + g[k] /\ way(n) < old[n]
    BY DEF Improves
  <2> HIDE DEF l, k, way
  <2>5. n \in Node /\ g[l] \in Nat \ {0} /\ g[k] \in Nat
    BY <2>2, <2>3, LinksJoinNodes
  <2>6. g[k] = g[l]
    BY <2>2, <2>5
  <2>7. QED
    BY <1>3, <1>4, <2>3, <2>4, <2>5, <2>6 DEF l
<1>6. \A l \in out : l[2] \in Node /\ (l[2] \in improved \/ old[l[2]] <= old[current] + g[l])
  <2> TAKE l \in out
  <2> DEFINE n == l[2]
             values == { g[k] : k \in { x \in out : x[2] = n } }
             c == CHOOSE x \in best(n) : TRUE
  <2>1. \A k \in out : k \in Usable(g) /\ g[k] \in Nat
    BY LinksJoinNodes
  <2>2. values \in SUBSET Nat /\ values # {}
    BY <2>1
  <2>3. PICK v \in values : \A w \in values : v <= w
    <3> HIDE DEF values
    <3>1. QED
      BY <2>2, LeastNumber
  <2>4. best(n) # {}
    <3>1. PICK k \in out : k[2] = n /\ g[k] = v
      BY <2>3
    <3>2. \A x \in out : x[2] = n => g[x] \in values
      OBVIOUS
    <3> HIDE DEF values
    <3>3. k \in best(n)
      BY <2>3, <3>1, <3>2
    <3>4. QED
      BY <3>3
  <2>5. c \in best(n)
    BY <2>4
  <2>6. c \in out /\ g[c] <= g[l]
    BY <2>5
  <2>7. way(n) = old[current] + g[c] /\ n \in Node /\ g[c] \in Nat /\ g[l] \in Nat
    BY <2>1, <2>6, LinksJoinNodes
  <2>8. n \in improved \/ ~ (way(n) < old[n])
    BY DEF Improves
  <2> HIDE DEF way, c, improved
  <2>9. QED
    BY <1>3, <1>4, <2>6, <2>7, <2>8
<1> DEFINE w == [ n \in Node |-> way(n) ]
<1>7. /\ \A n \in improved : /\ n \in Node /\ via[n] \in Transceiver
                             /\ <<current, n, via[n]>> \in Usable(g)
                             /\ w[n] = old[current] + g[<<current, n, via[n]>>]
                             /\ w[n] \in Nat /\ old[current] < w[n] /\ w[n] < old[n]
      /\ \A n \in Node : w[n] = way(n)
  BY <1>5
<1> HIDE DEF best, way, improved, w
<1> DEFINE new == [ n \in Node |-> IF n \in improved THEN w[n] ELSE old[n] ]
           prev == [ n \in Node |-> IF n \in improved THEN current ELSE search.previous[n] ]
           radio == [ n \in Node |-> IF n \in improved THEN via[n] ELSE search.radioUsed[n] ]
<1>7a. \A n \in improved : /\ n \in Node /\ w[n] \in Nat
                           /\ old[current] < w[n] /\ w[n] < old[n]
  BY <1>7
<1>8. search' = [ dest |-> search.dest, todo |-> search.todo,
                  unvisited |-> search.unvisited \ {current},
                  distance |-> new, previous |-> prev, radioUsed |-> radio ]
  BY <1>1, <1>3, <1>7 DEF SearchRecords
<1>9. \A n \in Node : new[n] \in Nat /\ new[n] <= old[n]
  BY <1>4, <1>7a
<1>10. \A v \in Visited(g, search) \cup {current} : v \in Node /\ v \notin improved
                                         /\ new[v] = old[v] /\ old[v] <= old[current]
  <2> TAKE v \in Visited(g, search) \cup {current}
  <2>1. v \in Node
    BY <1>3, LinksJoinNodes DEF Visited
  <2>2. old[v] <= old[current]
    BY <1>3, <1>4 DEF SearchRight
  <2>3. v \notin improved
    BY <1>3, <1>4, <1>7a, <2>1, <2>2
  <2>4. QED
    BY <2>1, <2>2, <2>3
<1>11. Self \notin improved
  BY <1>3, <1>7a
<1>12. Visited(g, search') = Visited(g, search) \cup {current}
  BY <1>3, <1>8 DEF Visited
<1>13. search' \in SearchRecords /\ search'.unvisited \subseteq Sources(g)
  <2>1. new \in [ Node -> 0 .. Inf ]
    BY <1>4, <1>9, BoundsAreNumbers
  <2>2. prev \in [ Node -> Node ] /\ radio \in [ Node -> Transceiver \cup {"none"} ]
    BY <1>3, <1>7
  <2> HIDE DEF new, prev, radio
  <2>3. QED
    BY <1>3, <1>8, <2>1, <2>2 DEF SearchRecords
<1>14. Tree(g, new, prev, radio)
  <2>1. new \in [ Node -> 0 .. Inf ] /\ prev \in [ Node -> Node ]
    BY <1>3, <1>4, <1>9, BoundsAreNumbers
  <2>2. new[Self] = 0 /\ prev[Self] = Self
    BY <1>3, <1>11
  <2>3. \A n \in Node : new[n] = Inf => prev[n] = Self
    <3> TAKE n \in Node
    <3>1. CASE n \in improved
      <4>1. new[n] # Inf
        BY <1>4, <1>7a, <3>1, BoundsAreNumbers
      <4>2. QED
        BY <4>1
    <3>2. CASE n \notin improved
      BY <1>3, <3>2 DEF Tree
    <3>3. QED
      BY <3>1, <3>2
  <2>4. ASSUME NEW n \in Node \ {Self}, new[n] < Inf
        PROVE  LET l == <<prev[n], n, radio[n]>>
               IN  l \in Usable(g) /\ new[prev[n]] + g[l] = new[n]
    <3>1. CASE n \in improved
      BY <1>7, <1>10, <3>1
    <3>2. CASE n \notin improved
      <4>1. old[n] < Inf /\ new[n] = old[n] /\ prev[n] = search.previous[n]
            /\ radio[n] = search.radioUsed[n]
        BY <2>4, <3>2
      <4>2. search.previous[n] \in Visited(g, search)
        BY <4>1 DEF SearchRight
      <4>3. new[prev[n]] = old[prev[n]]
        BY <1>10, <4>1, <4>2
      <4>4. LET l == <<search.previous[n], n, search.radioUsed[n]>>
            IN  l \in Usable(g) /\ old[search.previous[n]] + g[l] = old[n]
        BY <1>3, <4>1 DEF Tree
      <4> HIDE DEF new, prev, radio
      <4>5. QED
        BY <4>1, <4>3, <4>4
    <3>3. QED
      BY <3>1, <3>2
  <2> HIDE DEF new, prev, radio
  <2>5. QED
    BY <2>1, <2>2, <2>3, <2>4 DEF Tree
<1>15. \A n \in Node \ {Self} : new[n] < Inf => prev[n] \in Visited(g, search')
  <2> TAKE n \in Node \ {Self}
  <2>1. CASE n \in improved
    BY <1>12, <2>1
  <2>2. CASE n \notin improved
    BY <1>12, <2>2 DEF SearchRight
  <2>3. QED
    BY <2>1, <2>2
<1>16. \A v \in Visited(g, search'), u \in search'.unvisited : new[v] <= new[u]
  <2> TAKE v \in Visited(g, search'), u \in search'.unvisited
  <2>1. v \in Node /\ new[v] = old[v] /\ old[v] <= old[current]
    BY <1>10, <1>12
  <2>2. u \in search.unvisited /\ u \in Node /\ old[current] <= old[u]
    BY <1>2, <1>3, <1>8, LinksJoinNodes DEF Nearest
  <2>3. old[current] <= new[u]
    BY <1>3, <1>4, <1>7a, <2>2
  <2> HIDE DEF new
  <2>4. QED
    BY <1>3, <1>4, <1>9, <2>1, <2>2, <2>3
<1>17. \A l \in Usable(g) : l[1] \in Visited(g, search') => new[l[2]] <= new[l[1]] + g[l]
  <2> SUFFICES ASSUME NEW l \in Usable(g), l[1] \in Visited(g, search')
               PROVE  new[l[2]] <= new[l[1]] + g[l]
    OBVIOUS
  <2>1. l[1] \in Node /\ l[2] \in Node /\ g[l] \in Nat
    BY LinksJoinNodes
  <2>2. new[l[1]] = old[l[1]] /\ new[l[2]] <= old[l[2]]
    BY <1>9, <1>10, <1>12, <2>1
  <2>3. CASE l[1] = current
    <3>1. l \in out
      BY <2>3
    <3>2. CASE l[2] \in improved
      <4>1. l[2] \in { x[2] : x \in out } /\ <<current, l[2], via[l[2]]>> \in best(l[2])
        BY <1>1, <3>1, <3>2
      <4>2. g[<<current, l[2], via[l[2]]>>] <= g[l]
        BY <3>1, <4>1 DEF best
      <4>3. new[l[2]] = old[current] + g[<<current, l[2], via[l[2]]>>]
        BY <1>7, <2>1, <3>2
      <4>4. g[<<current, l[2], via[l[2]]>>] \in Nat
        BY <1>7, <3>2, LinksJoinNodes
      <4> HIDE DEF new
      <4>5. QED
        BY <1>3, <1>4, <2>1, <2>2, <2>3, <4>2, <4>3, <4>4
    <3>3. CASE l[2] \notin improved
      <4>1. old[l[2]] <= old[current] + g[l]
        BY <1>6, <3>1, <3>3
      <4> HIDE DEF new
      <4>2. QED
        BY <1>3, <1>4, <1>9, <2>1, <2>2, <2>3, <4>1
    <3>4. QED
      BY <3>2, <3>3
  <2>4. CASE l[1] # current
    <3>1. l[1] \in Visited(g, search)
      BY <1>12, <2>4
    <3>2. old[l[2]] <= old[l[1]] + g[l]
      BY <3>1 DEF SearchRight
    <3> HIDE DEF new
    <3>3. QED
      BY <1>4, <1>9, <2>1, <2>2, <3>2
  <2>5. QED
    BY <2>3, <2>4
<1> HIDE DEF new, prev, radio
<1>18. /\ search'.distance = new /\ search'.previous = prev /\ search'.radioUsed = radio
       /\ search'.dest = search.dest /\ search'.todo = search.todo
  BY <1>8
<1>19. QED
  BY <1>13, <1>14, <1>15, <1>16, <1>17, <1>18 DEF SearchRight

-----------------------------------------------------------------------------
(* Types.                                                                  *)

RouterTyped == RouterTypeOK /\ loops <= 1 + routeEvents

LEMMA EtxIs == ASSUME NEW n \in 0 .. Few PROVE Etx(n) \in Unit .. Inf
<1> DEFINE most == Unit * TxWindow
<1>1. /\ Unit \in Nat \ {0} /\ TxWindow \in Nat \ {0}
      /\ most \in Nat /\ Unit <= most
  BY RouterAssumption
<1>2. most <= Inf /\ Inf \in Nat
  <2>1. Far \in Nat \ {0}
    BY BoundsAreNumbers
  <2>2. Inf = most * Far + 1
    BY DEF Inf, Far
  <2> HIDE DEF most
  <2>3. most * Far >= most
    BY <1>1, <2>1
  <2>4. QED
    BY <1>1, <2>1, <2>2, <2>3, BoundsAreNumbers
<1>3. CASE n = Few
  BY <1>1, <1>2, <1>3 DEF Etx
<1>4. CASE n = 0
  BY <1>1, <1>2, <1>4 DEF Etx, Few
<1>5. CASE n # Few /\ n # 0
  <2>1. n \in 1 .. TxWindow
    BY <1>1, <1>5 DEF Few
  <2>2. Etx(n) = most \div n
    BY <1>5 DEF Etx
  <2>3. Unit * n <= most
    BY <1>1, <2>1
  <2> DEFINE q == most \div n
  <2> HIDE DEF most
  <2>4. q \in Nat /\ n * q <= most /\ most < n * q + n
    BY <1>1, <2>1
  <2> HIDE DEF q
  <2>5. q <= n * q
    BY <2>1, <2>4
  <2>6. Unit <= q
    <3>1. SUFFICES ASSUME q + 1 <= Unit PROVE FALSE
      BY <1>1, <2>4
    <3>2. n * (q + 1) <= n * Unit
      BY <1>1, <2>1, <2>4, <3>1
    <3>3. n * (q + 1) = n * q + n /\ n * Unit = Unit * n
      BY <1>1, <2>1, <2>4
    <3>4. QED
      BY <1>1, <2>1, <2>3, <2>4, <3>2, <3>3
  <2>7. q <= most
    BY <1>1, <2>1, <2>4, <2>5
  <2>8. QED
    BY <1>1, <1>2, <2>2, <2>4, <2>6, <2>7 DEF q
<1>6. QED
  BY <1>3, <1>4, <1>5

LEMMA RouterTypedInit == RouterInit => RouterTyped
<1> SUFFICES ASSUME RouterInit PROVE RouterTyped
  OBVIOUS
<1>1. Few \in 0 .. Few
  BY RouterAssumption DEF Few
<1>2. DOMAIN links = {}
  BY DEF RouterInit
<1>3. QED
  BY <1>1, <1>2, RouterAssumption DEF RouterInit, RouterTyped, RouterTypeOK

LEMMA RouterTypedStep == RouterTyped /\ [RouterNext]_routerVars => RouterTyped'
<1> SUFFICES ASSUME RouterTyped, [RouterNext]_routerVars PROVE RouterTyped'
  OBVIOUS
<1> USE RouterAssumption DEF RouterTyped, RouterTypeOK
<1>1. ASSUME NEW d \in Node \ {Self}, NEW r \in Transceiver, NEW n \in Rate,
             RecordTransmissions(d, r, n)
      PROVE  RouterTyped'
  <2>1. n \in 0 .. Few
    BY DEF Few
  <2>2. success' \in [ Node \X Transceiver -> 0 .. Few ]
    BY <1>1, <2>1 DEF RecordTransmissions
  <2>3. /\ routeEvents < MaxRouteEvents /\ routeEvents' = routeEvents + 1
        /\ UNCHANGED <<links, running, loops>>
    BY <1>1 DEF RecordTransmissions, RouteEvent
  <2>4. QED
    BY <2>2, <2>3
<1>2. ASSUME NEW k \in Link, UpdateLinkMetrics(k[1], k[2], k[3]) PROVE RouterTyped'
  <2>1. k = <<k[1], k[2], k[3]>> /\ <<k[2], k[3]>> \in Node \X Transceiver
    OBVIOUS
  <2> DEFINE etx == Etx(success[<<k[2], k[3]>>])
  <2>2. etx \in Unit .. Inf
    BY <2>1, EtxIs
  <2>3. links' = [ l \in DOMAIN links \cup {k} |-> IF l = k THEN etx ELSE links[l] ]
    BY <1>2, <2>1 DEF UpdateLinkMetrics
  <2> HIDE DEF etx
  <2>4. DOMAIN links' \subseteq Link
    BY <2>3
  <2>5. \A l \in DOMAIN links' : links'[l] \in Unit .. Inf
    BY <2>2, <2>3
  <2>6. /\ routeEvents < MaxRouteEvents /\ routeEvents' = routeEvents + 1
        /\ UNCHANGED <<success, running, loops>>
    BY <1>2 DEF UpdateLinkMetrics, RouteEvent
  <2>7. QED
    BY <2>4, <2>5, <2>6
<1>2a. ASSUME NEW k \in Link, UpdateInterrupted(k[1], k[2], k[3]) PROVE RouterTyped'
  <2>1. k = <<k[1], k[2], k[3]>> /\ Unit \in Unit .. Inf
    <3>1. Few \in 0 .. Few /\ Etx(Few) = Unit
      BY DEF Few, Etx
    <3>2. QED
      BY <3>1, EtxIs
  <2>2. links' = [ l \in DOMAIN links \cup {k} |-> IF l \in DOMAIN links THEN links[l] ELSE Unit ]
    BY <1>2a, <2>1 DEF UpdateInterrupted
  <2>3. DOMAIN links' \subseteq Link /\ \A l \in DOMAIN links' : links'[l] \in Unit .. Inf
    BY <2>1, <2>2
  <2>4. /\ routeEvents < MaxRouteEvents /\ routeEvents' = routeEvents + 1
        /\ UNCHANGED <<success, running, loops>>
    BY <1>2a DEF UpdateInterrupted, RouteEvent
  <2>5. QED
    BY <2>3, <2>4
<1>3. CASE ComputeRoutes
  BY <1>3 DEF ComputeRoutes
<1>4. CASE RouteFound
  BY <1>4 DEF RouteFound
<1>5. ASSUME NEW n \in search.unvisited, Visit(n) PROVE RouterTyped'
  BY <1>5 DEF Visit
<1>6. CASE StartRouter
  BY <1>6 DEF StartRouter, RouteEvent
<1>7. CASE StopRouter
  <2>1. running' \in BOOLEAN
    BY <1>7 DEF StopRouter
  <2>2. /\ routeEvents < MaxRouteEvents /\ routeEvents' = routeEvents + 1
        /\ UNCHANGED <<links, success, loops>>
    BY <1>7 DEF StopRouter, RouteEvent
  <2>3. QED
    BY <2>1, <2>2
<1>8. CASE UpdateLoopEnds
  BY <1>8 DEF UpdateLoopEnds
<1>9. CASE UNCHANGED routerVars
  BY <1>9 DEF routerVars
<1>10. QED
  BY <1>1, <1>2, <1>2a, <1>3, <1>4, <1>5, <1>6, <1>7, <1>8, <1>9 DEF RouterNext

\* Every variable of the router keeps its type, whatever is measured and
\* however often the router is started and stopped.
THEOREM RouterTypes == RouterSpec => []RouterTypeOK
<1>1. RouterTyped => RouterTypeOK
  BY DEF RouterTyped
<1>2. QED
  BY <1>1, RouterTypedInit, RouterTypedStep, PTL DEF RouterSpec

-----------------------------------------------------------------------------
(* The inductive invariant.                                                *)

RoutesInv ==
  /\ RouterTyped /\ LinksMeasured(basis)
  /\ search # Resting =>
       /\ basis = links
       /\ SearchRight(basis, search)
       /\ search.dest \in AllNodes(basis) /\ search.todo \subseteq AllNodes(basis) \ {Self}
       /\ \A d \in AllNodes(basis) \ {Self} :
            d \in search.todo \/ d = search.dest \/ RouteRight(basis, d)
  /\ RoutesAreShortest

LEMMA MeasuredLinks == RouterTypeOK => LinksMeasured(links)
BY RouterAssumption, BoundsAreNumbers DEF RouterTypeOK, LinksMeasured

LEMMA SearchIsNoRest ==
  ASSUME NEW g, NEW s, SearchRight(g, s) PROVE s # Resting
<1>1. s.dest # Self /\ Resting.dest = Self
  BY DEF SearchRight, SearchRecords, Resting
<1>2. QED
  BY <1>1

\* The lock is released, or the next search begins.
LEMMA NextSearchIsRight ==
  ASSUME NEW g, LinksMeasured(g), NEW todo \in SUBSET (AllNodes(g) \ {Self}), NextSearch(g, todo)
  PROVE  \/ search' = Resting /\ todo = {}
         \/ /\ SearchRight(g, search')
            /\ search'.dest \in todo /\ search'.todo = todo \ {search'.dest}
<1>1. CASE todo = {}
  BY <1>1 DEF NextSearch
<1>2. CASE todo # {}
  <2>1. PICK d \in todo : search' = Searching(g, d, todo \ {d})
    BY <1>2 DEF NextSearch
  <2>2. d \in AllNodes(g) \ {Self} /\ todo \ {d} \in SUBSET AllNodes(g)
    OBVIOUS
  <2>3. SearchRight(g, Searching(g, d, todo \ {d}))
    BY <2>2, SearchBegins
  <2>4. Searching(g, d, todo \ {d}).dest = d /\ Searching(g, d, todo \ {d}).todo = todo \ {d}
    BY DEF Searching
  <2>5. QED
    BY <2>1, <2>3, <2>4
<1>3. QED
  BY <1>1, <1>2

LEMMA RoutesInvInit == RouterInit => RoutesInv
<1> SUFFICES ASSUME RouterInit PROVE RoutesInv
  OBVIOUS
<1>1. DOMAIN basis = {}
  BY DEF RouterInit
<1>2. LinksMeasured(basis)
  BY <1>1 DEF LinksMeasured
<1>3. AllNodes(basis) = {}
  BY <1>1 DEF AllNodes
<1>4. search = Resting
  BY DEF RouterInit
<1>5. QED
  BY <1>2, <1>3, <1>4, RouterTypedInit DEF RoutesInv, RoutesAreShortest

LEMMA RoutesInvStep == RoutesInv /\ [RouterNext]_routerVars => RoutesInv'
<1> SUFFICES ASSUME RoutesInv, [RouterNext]_routerVars PROVE RoutesInv'
  OBVIOUS
<1>1. RouterTyped' /\ LinksMeasured(links) /\ LinksMeasured(basis)
  BY RouterTypedStep, MeasuredLinks DEF RoutesInv, RouterTyped
<1>2. ASSUME UNCHANGED <<routes, search, basis>>, search = Resting \/ UNCHANGED links
      PROVE  RoutesInv'
  <2>1. \A d : RouteRight(basis, d)' <=> RouteRight(basis, d)
    BY <1>2 DEF RouteRight, Distance, Lengths, OneLinkMore, Edge, Usable
  <2>2. AllNodes(basis)' = AllNodes(basis) /\ SearchRight(basis, search)' = SearchRight(basis, search)
    BY <1>2 DEF AllNodes, SearchRight, Visited, Sources, Usable, Tree
  <2>3. LinksMeasured(basis)'
    BY <1>1, <1>2 DEF LinksMeasured
  <2>4. QED
    BY <1>1, <1>2, <2>1, <2>2, <2>3 DEF RoutesInv, RoutesAreShortest
<1>3. CASE ComputeRoutes
  <2>1. /\ search = Resting /\ basis' = links /\ UNCHANGED <<links, routes>>
        /\ NextSearch(links, AllNodes(links) \ {Self})
    BY <1>3 DEF ComputeRoutes
  <2>2. \/ search' = Resting /\ AllNodes(links) \ {Self} = {}
        \/ /\ SearchRight(links, search')
           /\ search'.dest \in AllNodes(links) \ {Self}
           /\ search'.todo = (AllNodes(links) \ {Self}) \ {search'.dest}
    BY <1>1, <2>1, NextSearchIsRight
  <2>3. LinksMeasured(basis)'
    BY <1>1, <2>1 DEF LinksMeasured
  <2>4. CASE search' = Resting /\ AllNodes(links) \ {Self} = {}
    BY <1>1, <2>1, <2>3, <2>4 DEF RoutesInv, RoutesAreShortest, AllNodes
  <2>5. CASE /\ SearchRight(links, search')
             /\ search'.dest \in AllNodes(links) \ {Self}
             /\ search'.todo = (AllNodes(links) \ {Self}) \ {search'.dest}
    <3>1. search' # Resting
      BY <2>5, SearchIsNoRest
    <3>2. AllNodes(basis)' = AllNodes(links)
      BY <2>1 DEF AllNodes
    <3>3. SearchRight(basis, search)'
      BY <2>1, <2>5 DEF SearchRight, Visited, Sources, Usable, Tree
    <3>4. \A d \in AllNodes(basis)' \ {Self} : d \in search'.todo \/ d = search'.dest
      BY <2>5, <3>2
    <3>5. RoutesAreShortest'
      BY <3>1 DEF RoutesAreShortest, Resting
    <3>6. QED
      BY <1>1, <2>1, <2>3, <2>5, <3>2, <3>3, <3>4, <3>5 DEF RoutesInv
  <2>6. QED
    BY <2>2, <2>4, <2>5
<1>4. ASSUME search # Resting, RouteFound PROVE RoutesInv'
  <2>1. /\ basis = links /\ SearchRight(basis, search)
        /\ search.dest \in AllNodes(basis) \ {Self}
        /\ search.todo \subseteq AllNodes(basis) \ {Self}
        /\ \A d \in AllNodes(basis) \ {Self} :
             d \in search.todo \/ d = search.dest \/ RouteRight(basis, d)
    BY <1>4 DEF RoutesInv, SearchRight, SearchRecords
  <2>2. /\ \/ search.unvisited = {}
           \/ \E n \in Nearest : n = search.dest \/ search.distance[n] = Inf
        /\ routes' = [ d \in DOMAIN routes \cup {search.dest} |->
                         IF d = search.dest THEN Traced ELSE routes[d] ]
        /\ NextSearch(basis, search.todo)
        /\ UNCHANGED <<links, basis>>
    BY <1>4, <2>1 DEF RouteFound
  <2>3. \A h, d : Distance(basis', h, d) = Distance(basis, h, d) /\ Usable(basis') = Usable(basis)
    BY <2>2
  <2>4. ASSUME NEW d, RouteRight(basis, d) \/ d = search.dest
        PROVE  RouteRight(basis, d)'
    <3>1. CASE d = search.dest
      <4>1. d \in DOMAIN routes' /\ routes'[d] = Traced
        BY <2>2, <3>1
      <4>2. IF Distance(basis, Self, d) = Inf THEN Traced = None
            ELSE LET first == <<Self, Traced.next, Traced.radio>>
                 IN  /\ first \in Usable(basis)
                     /\ basis[first] + Distance(basis, Traced.next, d) = Distance(basis, Self, d)
        BY <1>1, <2>1, <2>2, <3>1, TracedIsRight
      <4>3. QED
        BY <2>2, <4>1, <4>2 DEF RouteRight
    <3>2. CASE d # search.dest
      <4>1. RouteRight(basis, d) /\ d \in DOMAIN routes' /\ routes'[d] = routes[d]
        BY <2>2, <2>4, <3>2 DEF RouteRight
      <4>2. QED
        BY <2>2, <4>1 DEF RouteRight
    <3>3. QED
      BY <3>1, <3>2
  <2>5. AllNodes(basis)' = AllNodes(basis) /\ LinksMeasured(basis)'
    BY <1>1, <2>2 DEF AllNodes, LinksMeasured
  <2>6. \/ search' = Resting /\ search.todo = {}
        \/ /\ SearchRight(basis, search')
           /\ search'.dest \in search.todo
           /\ search'.todo = search.todo \ {search'.dest}
    BY <1>1, <2>1, <2>2, NextSearchIsRight
  <2>7. CASE search' = Resting /\ search.todo = {}
    <3>1. \A d \in AllNodes(basis) \ {Self} : RouteRight(basis, d)'
      BY <2>1, <2>4, <2>7
    <3>2. QED
      BY <1>1, <2>5, <2>7, <3>1 DEF RoutesInv, RoutesAreShortest
  <2>8. CASE /\ SearchRight(basis, search')
             /\ search'.dest \in search.todo
             /\ search'.todo = search.todo \ {search'.dest}
    <3>1. search' # Resting
      BY <2>8, SearchIsNoRest
    <3>2. SearchRight(basis, search)'
      BY <2>2, <2>8 DEF SearchRight, Visited, Sources, Usable, Tree
    <3>3. \A d \in AllNodes(basis) \ {Self} :
            d \in search'.todo \/ d = search'.dest \/ RouteRight(basis, d)'
      BY <2>1, <2>4, <2>8
    <3>4. search'.dest \in AllNodes(basis) /\ search'.todo \subseteq AllNodes(basis) \ {Self}
      BY <2>1, <2>8
    <3>5. QED
      BY <1>1, <2>1, <2>2, <2>5, <3>1, <3>2, <3>3, <3>4 DEF RoutesInv, RoutesAreShortest
  <2>9. QED
    BY <2>6, <2>7, <2>8
<1>5. ASSUME search # Resting, NEW n \in search.unvisited, Visit(n) PROVE RoutesInv'
  <2>1. /\ basis = links /\ SearchRight(links, search)
        /\ UNCHANGED <<links, routes, basis>>
    BY <1>5 DEF RoutesInv, Visit
  <2>2. /\ SearchRight(links, search')
        /\ search'.dest = search.dest /\ search'.todo = search.todo
    BY <1>1, <1>5, <2>1, VisitKeepsRight
  <2>3. search' # Resting
    BY <2>2, SearchIsNoRest
  <2>4. \A d : RouteRight(basis, d)' <=> RouteRight(basis, d)
    BY <2>1 DEF RouteRight, Distance, Lengths, OneLinkMore, Edge, Usable
  <2>5. AllNodes(basis)' = AllNodes(basis) /\ LinksMeasured(basis)'
    BY <1>1, <2>1 DEF AllNodes, LinksMeasured
  <2>6. SearchRight(basis, search)'
    BY <2>1, <2>2 DEF SearchRight, Visited, Sources, Usable, Tree
  <2>7. \A d \in AllNodes(basis) \ {Self} :
          d \in search'.todo \/ d = search'.dest \/ RouteRight(basis, d)'
    BY <1>5, <2>2, <2>4 DEF RoutesInv
  <2>8. search'.dest \in AllNodes(basis) /\ search'.todo \subseteq AllNodes(basis) \ {Self}
    BY <1>5, <2>2 DEF RoutesInv
  <2>9. QED
    BY <1>1, <2>1, <2>3, <2>5, <2>6, <2>7, <2>8 DEF RoutesInv, RoutesAreShortest
<1>6. ASSUME NEW d \in Node \ {Self}, NEW r \in Transceiver, NEW n \in Rate,
             RecordTransmissions(d, r, n)
      PROVE  RoutesInv'
  BY <1>2, <1>6 DEF RecordTransmissions
<1>7. ASSUME NEW l \in Link, UpdateLinkMetrics(l[1], l[2], l[3]) PROVE RoutesInv'
  BY <1>2, <1>7 DEF UpdateLinkMetrics
<1>7a. ASSUME NEW l \in Link, UpdateInterrupted(l[1], l[2], l[3]) PROVE RoutesInv'
  BY <1>2, <1>7a DEF UpdateInterrupted
<1>8. CASE StartRouter
  BY <1>2, <1>8 DEF StartRouter
<1>9. CASE StopRouter
  BY <1>2, <1>9 DEF StopRouter
<1>10. CASE UpdateLoopEnds
  BY <1>2, <1>10 DEF UpdateLoopEnds
<1>11. CASE UNCHANGED routerVars
  BY <1>2, <1>11 DEF routerVars
<1>12. QED
  BY <1>3, <1>4, <1>5, <1>6, <1>7, <1>7a, <1>8, <1>9, <1>10, <1>11 DEF RouterNext

\* Dijkstra's loop and its tracing back find, for every graph of links that
\* may be measured, a route exactly where unbroken links lead, with the first
\* hop of a shortest way.
THEOREM RoutesShortest == RouterSpec => []RoutesAreShortest
<1>1. RoutesInv => RoutesAreShortest
  BY DEF RoutesInv
<1>2. QED
  BY <1>1, RoutesInvInit, RoutesInvStep, PTL DEF RouterSpec
=============================================================================
