----------------------------- MODULE ApplyProofs -----------------------------
(***************************************************************************)
(* What holds of apply and teardown for any set of interfaces, subnets,    *)
(* configurations and failing steps.                                       *)
(***************************************************************************)
EXTENDS Apply, TLAPS, WellFoundedInduction

\* The sorted list of interfaces has a first name: the fallback of resolve_auto exists.
LEMMA FirstExists ==
  ASSUME NEW S, S \subseteq Ifaces, S # {}
  PROVE  First(S) \in S
<1> DEFINE R == {p \in Nat \X Nat : p[1] < p[2]}
<1>1. S \subseteq Nat
  BY HostAssumption
<1>2. IsWellFoundedOn(R, Nat)
  BY NatLessThanWellFounded DEF OpToRel
<1> HIDE DEF R
<1>3. \E i \in S : \A j \in S : ~(<<j, i>> \in R)
  BY <1>1, <1>2, WFMin
<1>4. PICK i \in S : \A j \in S : ~(<<j, i>> \in R)
  BY <1>3
<1>5. \A j \in S : i <= j
  <2>1. SUFFICES ASSUME NEW j \in S PROVE i <= j
    OBVIOUS
  <2>2. i \in Nat /\ j \in Nat
    BY <1>1
  <2>3. <<j, i>> \in R <=> j < i
    BY <2>2 DEF R
  <2> QED
    BY <1>4, <2>2, <2>3
<1> QED
  BY <1>5 DEF First
-----------------------------------------------------------------------------
(* Type correctness.                                                       *)

\* The addresses, routes and conf files the code builds are of the types of Host.
LEMMA AddressTypes ==
  /\ LeaseIp \in Addrs
  /\ \A n \in Nets : GatewayIp(n) \in Addrs /\ StaticIp(n) \in Addrs
  /\ \A i \in Ifaces, n \in Nets : [iface |-> i, gw |-> n] \in ConfBodies
  /\ \A i \in Ifaces, n \in Nets \cup {None} : [dev |-> i, via |-> n] \in Routes
  BY DEF Addrs, ConfBodies, Routes

\* Flushing leaves sequences of addresses and a route or none.
LEMMA FlushTypes ==
  ASSUME HostTypeOK, NEW S, FlushAddr(S)
  PROVE  addrs' \in [Ifaces -> Seq(Addrs)] /\ route' \in Routes \cup {None}
  BY DEF HostTypeOK, FlushAddr, RouteWithout

\* The interfaces with carrier are interfaces that exist.
LEMMA CarrierPresent ==
  ASSUME ApplyTypeOK
  PROVE  WithCarrier \subseteq Ifaces /\ WithCarrier \subseteq present
  BY DEF WithCarrier, Carrier, ApplyTypeOK, HostTypeOK

\* A configuration has an interface or AutoIface, and a subnet.
LEMMA ConfigTypes ==
  ASSUME NEW c \in Configs
  PROVE  c.gw \in Nets /\ (c.iface # AutoIface => c.iface \in Ifaces)
  BY ApplyAssumption

\* The address `ip addr show` prints first is one of the interface's addresses.
LEMMA CidrType ==
  ASSUME HostTypeOK, NEW i \in Ifaces
  PROVE  Cidr(i) \in Addrs \cup {None}
<1>1. addrs[i] \in Seq(Addrs)
  BY DEF HostTypeOK
<1> QED
  BY <1>1 DEF Cidr

\* Cables, hot-plugging, leases and dying processes keep the host's types.
LEMMA HostKeepsTypes ==
  ASSUME HostTypeOK, HostEnv
  PROVE  HostTypeOK'
<1> USE DEF HostTypeOK
<1>1. ASSUME NEW i \in Ifaces, CableFlips(i) PROVE HostTypeOK'
  BY <1>1 DEF CableFlips
<1>2. ASSUME NEW i \in Ifaces, DeviceAppears(i) PROVE HostTypeOK'
  BY <1>2 DEF DeviceAppears
<1>3. ASSUME NEW i \in Ifaces, DeviceVanishes(i) PROVE HostTypeOK'
  BY <1>3, FlushTypes DEF DeviceVanishes
<1>4. ASSUME NEW i \in Ifaces, LeaseAcquired(i) PROVE HostTypeOK'
  BY <1>4, AddressTypes DEF LeaseAcquired
<1>5. ASSUME NEW i \in Ifaces, DhclientDies(i) PROVE HostTypeOK'
  BY <1>5 DEF DhclientDies
<1>6. CASE DnsmasqDies
  BY <1>6 DEF DnsmasqDies
<1> QED
  BY <1>1, <1>2, <1>3, <1>4, <1>5, <1>6 DEF HostEnv, HostEvent

\* `ip addr add` keeps the addresses in their type.
LEMMA AddTypes ==
  ASSUME HostTypeOK, NEW i \in Ifaces, NEW a \in Addrs, AddAddr(i, a)
  PROVE  addrs' \in [Ifaces -> Seq(Addrs)]
  BY DEF HostTypeOK, AddAddr

\* dhcp_reload_or_restart, whether it succeeds or not, leaves a rendered file or none.
LEMMA DnsmasqTypes ==
  ASSUME HostTypeOK, NEW i \in Ifaces, NEW n \in Nets,
         DnsmasqReload(i, n) \/ DnsmasqReloadFails(i, n)
  PROVE  /\ dnsmasq' \in ConfBodies \cup {None}
         /\ conf' \in ConfBodies \cup {None}
  BY AddressTypes DEF HostTypeOK, DnsmasqReload, DnsmasqReloadFails

\* The three modes return a Status of the resolved interface.
LEMMA StatusType ==
  ASSUME sel \in Ifaces, NEW m \in Modes, NEW c \in Addrs \cup {None}, NEW d \in BOOLEAN
  PROVE  Status(m, c, d) \in Statuses
  BY DEF Status, Statuses

\* Every step of a call keeps every variable in its type, and hands the next step the
\* configuration and interface it needs.
LEMMA CallKeepsTypes ==
  ASSUME ApplyTypeOK, CallStep
  PROVE  ApplyTypeOK'
<1> USE DEF ApplyTypeOK, HostTypeOK, At, Steps, ApplySteps, TeardownSteps, SelectSteps, AfterSelect,
            PrepareSteps, DecideSteps, ClientSteps, StaticSteps, GatewaySteps,
            hostVars, linkVars, addrVars, procVars
<1>1. CASE ResolvePinned
  BY <1>1, ConfigTypes DEF ResolvePinned, Resolved, Fail
<1>2. CASE ResolveAutoFails
  BY <1>2 DEF ResolveAutoFails, FailsAt, Fail
<1>3. CASE ResolveAutoCarrier
  BY <1>3, FirstExists, CarrierPresent DEF ResolveAutoCarrier, Resolved
<1>4. CASE ResolveAutoBringUp
  BY <1>4, FirstExists DEF ResolveAutoBringUp, Resolved
<1>5. CASE ResolveAutoPoll
  BY <1>5, FirstExists, CarrierPresent DEF ResolveAutoPoll, Resolved
<1>6. CASE IsolateIface
  BY <1>6 DEF IsolateIface, RouteWithout, Goto
<1>7. CASE BringUp
  BY <1>7 DEF BringUp, Goto, FailsAt, Fail
<1>8. CASE StopDhclient
  BY <1>8 DEF StopDhclient, Goto
<1>9. CASE StopOwnDnsmasq
  BY <1>9 DEF StopOwnDnsmasq, Goto
<1>10. CASE ProbeForeignDhcp
  BY <1>10 DEF ProbeForeignDhcp, Goto, FailsAt, Fail
<1>11. CASE AssignStatic
  <2>1. sel \in Ifaces /\ StaticIp(job.gw) \in Addrs
    BY <1>11, AddressTypes, ConfigTypes DEF AssignStatic
  <2>2. addrs' \in [Ifaces -> Seq(Addrs)]
    BY <1>11, <2>1, AddTypes DEF AssignStatic
  <2> QED
    BY <1>11, <2>2 DEF AssignStatic, Goto, FailsAt, Fail
<1>12. CASE CheckLocal
  BY <1>12 DEF CheckLocal, Goto
<1>13. CASE Ping
  BY <1>13 DEF Ping, Goto
<1>14. CASE ClientStop
  BY <1>14 DEF ClientStop, Goto
<1>15. CASE ClientFlush
  BY <1>15, FlushTypes DEF ClientFlush, Goto
<1>16. CASE ClientStart
  BY <1>16 DEF ClientStart, StartDhclient, Goto, FailsAt, Fail
<1>17. CASE ClientWait
  BY <1>17, CidrType DEF ClientWait, Return, Status, Statuses, Modes
<1>18. CASE StaticStop
  BY <1>18 DEF StaticStop, Goto
<1>19. CASE StaticRoute
  <2>1. sel \in Ifaces /\ job.gw \in Nets
    BY <1>19, ConfigTypes DEF StaticRoute
  <2>2. [dev |-> sel, via |-> job.gw] \in Routes
    BY <2>1, AddressTypes
  <2>3. Status("static", StaticIp(job.gw), dnsmasq # None) \in Statuses
    BY <2>1, AddressTypes, StatusType DEF Modes
  <2> QED
    BY <1>19, <2>2, <2>3 DEF StaticRoute, Return, FailsAt, Fail
<1>20. CASE GatewayFlush
  BY <1>20, FlushTypes DEF GatewayFlush, Goto
<1>21. CASE GatewayAdd
  <2>1. sel \in Ifaces /\ GatewayIp(job.gw) \in Addrs
    BY <1>21, AddressTypes, ConfigTypes DEF GatewayAdd
  <2>2. addrs' \in [Ifaces -> Seq(Addrs)]
    BY <1>21, <2>1, AddTypes DEF GatewayAdd
  <2> QED
    BY <1>21, <2>2 DEF GatewayAdd, Goto, FailsAt, Fail
<1>22. CASE GatewayRoute
  BY <1>22 DEF GatewayRoute, DelDefault, Goto
<1>23. CASE GatewayDnsmasq
  <2>1. sel \in Ifaces /\ job.gw \in Nets
    BY <1>23, ConfigTypes DEF GatewayDnsmasq
  <2>2. /\ dnsmasq' \in ConfBodies \cup {None}
        /\ conf' \in ConfBodies \cup {None}
    BY <1>23, <2>1, DnsmasqTypes DEF GatewayDnsmasq
  <2>3. Status("gateway", GatewayIp(job.gw), dnsmasq' # None) \in Statuses
    BY <2>1, AddressTypes, StatusType DEF Modes
  <2> QED
    BY <1>23, <2>2, <2>3 DEF GatewayDnsmasq, Return, FailsAt, Fail
<1>24. CASE TdResolve
  BY <1>24, FirstExists, CarrierPresent, ConfigTypes DEF TdResolve, Resolved, Fail
<1>25. CASE TdStop
  BY <1>25 DEF TdStop, Goto
<1>26. CASE TdFlush
  BY <1>26, FlushTypes DEF TdFlush, Goto
<1>27. CASE TdRoute
  BY <1>27 DEF TdRoute, DelDefault, Return, Status, Statuses, Modes
<1> QED
  BY <1>1, <1>2, <1>3, <1>4, <1>5, <1>6, <1>7, <1>8, <1>9, <1>10, <1>11, <1>12, <1>13, <1>14,
     <1>15, <1>16, <1>17, <1>18, <1>19, <1>20, <1>21, <1>22, <1>23, <1>24, <1>25, <1>26, <1>27
     DEF CallStep

\* So do the steps between calls: invoking, exiting, being killed, and the host.
LEMMA CliKeepsTypes ==
  ASSUME ApplyTypeOK, [CliNext]_cliVars
  PROVE  ApplyTypeOK'
<1> USE DEF ApplyTypeOK, Steps, ApplySteps, TeardownSteps, SelectSteps, AfterSelect,
            PrepareSteps, DecideSteps, ClientSteps, StaticSteps, GatewaySteps
<1>1. CASE CliInvoke
  BY <1>1 DEF CliInvoke, Begin, hostVars, HostTypeOK
<1>2. CASE CallStep
  BY <1>2, CallKeepsTypes
<1>3. CASE CliExit \/ CliKilled
  BY <1>3 DEF CliExit, CliKilled, NoCall, hostVars, HostTypeOK
<1>4. CASE CliHost
  BY <1>4, HostKeepsTypes DEF CliHost, callVars
<1>5. CASE UNCHANGED cliVars
  BY <1>5 DEF cliVars, hostVars, callVars, HostTypeOK
<1> QED
  BY <1>1, <1>2, <1>3, <1>4, <1>5 DEF CliNext

\* A freshly booted host with no call in progress is well typed.
LEMMA CliStartsTyped == CliInit => ApplyTypeOK
  BY DEF CliInit, HostBoot, CallInit, ApplyTypeOK, HostTypeOK, Steps, ApplySteps, TeardownSteps,
         SelectSteps, AfterSelect, PrepareSteps, DecideSteps, ClientSteps, StaticSteps, GatewaySteps

\* Every reachable state of the one-shot commands is well typed.
THEOREM ApplyTypeCorrect == CliSpec => []ApplyTypeOK
<1> QED
  BY CliStartsTyped, CliKeepsTypes, PTL DEF CliSpec

-----------------------------------------------------------------------------
(* The inductive invariant.                                                *)

\* `ip addr show` prints nothing exactly when the interface has no address.
LEMMA NoCidrNoAddress ==
  ASSUME HostTypeOK, NEW i \in Ifaces, Cidr(i) = None
  PROVE  addrs[i] = <<>>
<1>1. addrs[i] \in Seq(Addrs)
  BY DEF HostTypeOK
<1>2. addrs[i] # <<>> => Head(addrs[i]) \in Addrs
  BY <1>1
<1> QED
  BY <1>2, HostAssumption DEF Cidr

\* A step of a call is a step of an apply or of a teardown and ends in one or in a result.
LEMMA CallStepShape ==
  ASSUME ApplyTypeOK, CallStep
  PROVE  pc \in Steps /\ pc' # "idle" /\ UNCHANGED <<op, job>>
<1> USE DEF Steps, ApplySteps, TeardownSteps, SelectSteps, AfterSelect, PrepareSteps, DecideSteps,
            ClientSteps, StaticSteps, GatewaySteps, At, Goto, FailsAt, Fail, Return, Resolved
<1>1. CASE \/ ResolvePinned \/ ResolveAutoFails \/ ResolveAutoCarrier
           \/ ResolveAutoBringUp \/ ResolveAutoPoll
  BY <1>1 DEF ResolvePinned, ResolveAutoFails, ResolveAutoCarrier, ResolveAutoBringUp,
              ResolveAutoPoll
<1>2. CASE IsolateIface \/ BringUp \/ StopDhclient \/ StopOwnDnsmasq
  BY <1>2 DEF IsolateIface, BringUp, StopDhclient, StopOwnDnsmasq
<1>3. CASE ProbeForeignDhcp \/ AssignStatic \/ CheckLocal \/ Ping
  BY <1>3 DEF ProbeForeignDhcp, AssignStatic, CheckLocal, Ping
<1>4. CASE ClientStop \/ ClientFlush \/ ClientStart \/ ClientWait
  BY <1>4 DEF ClientStop, ClientFlush, ClientStart, ClientWait
<1>5. CASE StaticStop \/ StaticRoute
  BY <1>5 DEF StaticStop, StaticRoute
<1>6. CASE GatewayFlush \/ GatewayAdd \/ GatewayRoute \/ GatewayDnsmasq
  BY <1>6 DEF GatewayFlush, GatewayAdd, GatewayRoute, GatewayDnsmasq
<1>7. CASE TdResolve \/ TdStop \/ TdFlush \/ TdRoute
  BY <1>7 DEF TdResolve, TdStop, TdFlush, TdRoute
<1> QED
  BY <1>1, <1>2, <1>3, <1>4, <1>5, <1>6, <1>7 DEF CallStep

\* No step of a call raises or addresses a device that is gone.
LEMMA CallKeepsGone ==
  ASSUME ApplyTypeOK, GoneIsBare, CallStep
  PROVE  GoneIsBare'
<1> USE DEF ApplyTypeOK, HostTypeOK, GoneIsBare, hostVars, linkVars, addrVars, procVars
<1>1. CASE \/ ResolvePinned \/ ResolveAutoFails \/ ResolveAutoCarrier \/ ResolveAutoPoll
           \/ StopDhclient \/ StopOwnDnsmasq \/ ProbeForeignDhcp \/ CheckLocal \/ Ping
  BY <1>1 DEF ResolvePinned, ResolveAutoFails, ResolveAutoCarrier, ResolveAutoPoll, StopDhclient,
              StopOwnDnsmasq, ProbeForeignDhcp, CheckLocal, Ping
<1>2. CASE ResolveAutoBringUp
  BY <1>2 DEF ResolveAutoBringUp
<1>3. CASE IsolateIface
  BY <1>3 DEF IsolateIface
<1>4. CASE BringUp
  BY <1>4 DEF BringUp
<1>5. CASE AssignStatic \/ GatewayAdd
  BY <1>5 DEF AssignStatic, GatewayAdd, AddAddr, CanAdd
<1>6. CASE ClientFlush \/ GatewayFlush \/ TdFlush
  BY <1>6 DEF ClientFlush, GatewayFlush, TdFlush, FlushAddr
<1>7. CASE \/ ClientStop \/ ClientStart \/ ClientWait \/ StaticStop \/ StaticRoute
           \/ GatewayRoute \/ GatewayDnsmasq \/ TdResolve \/ TdStop \/ TdRoute
  BY <1>7 DEF ClientStop, ClientStart, ClientWait, StaticStop, StaticRoute, GatewayRoute,
              GatewayDnsmasq, TdResolve, TdStop, TdRoute
<1> QED
  BY <1>1, <1>2, <1>3, <1>4, <1>5, <1>6, <1>7 DEF CallStep

\* Neither does the host by itself.
LEMMA HostKeepsGone ==
  ASSUME HostTypeOK, GoneIsBare, HostEnv
  PROVE  GoneIsBare'
  BY HostAssumption
     DEF HostTypeOK, GoneIsBare, HostEnv, HostEvent, CableFlips, DeviceAppears, DeviceVanishes,
         FlushAddr, LeaseAcquired, Carrier, DhclientDies, DnsmasqDies

\* A call that has not begun, or has only just begun, owes nothing to what is on the host.
LEMMA FreshCall ==
  ASSUME GoneIsBare, pc \in {"idle", "resolve", "tdResolve"}
  PROVE  CallInv
  BY DEF CallInv, NoSelfDiscovery, Isolated, IsolationHolds, Silent, Unleased, AfterSelect,
         PrepareSteps, DecideSteps, ClientSteps, StaticSteps, GatewaySteps

\* The same of the next state: a step that ends or begins a call has nothing else to show.
LEMMA CallFresh ==
  ASSUME GoneIsBare', pc' \in {"idle", "resolve", "tdResolve"}
  PROVE  CallInv'
  BY DEF CallInv, NoSelfDiscovery, Isolated, IsolationHolds, Silent, Unleased, AfterSelect,
         PrepareSteps, DecideSteps, ClientSteps, StaticSteps, GatewaySteps

\* Every step of a call hands the next one what CallInv says it finds.
LEMMA CallKeepsInv ==
  ASSUME ApplyTypeOK, CallInv, CallStep
  PROVE  CallInv'
<1> USE DEF ApplyTypeOK, HostTypeOK, CallInv, GoneIsBare, NoSelfDiscovery, Isolated, Works,
            IsolationHolds, Silent, Unleased, At, Steps, ApplySteps, TeardownSteps, SelectSteps, AfterSelect,
            PrepareSteps, DecideSteps, ClientSteps, StaticSteps, GatewaySteps,
            hostVars, linkVars, addrVars, procVars
<1>1. CASE ResolvePinned
  BY <1>1 DEF ResolvePinned, Resolved, Fail
<1>2. CASE ResolveAutoFails
  BY <1>2 DEF ResolveAutoFails, FailsAt, Fail
<1>3. CASE ResolveAutoCarrier
  BY <1>3 DEF ResolveAutoCarrier, Resolved
<1>4. CASE ResolveAutoBringUp
  BY <1>4 DEF ResolveAutoBringUp, Resolved
<1>5. CASE ResolveAutoPoll
  BY <1>5 DEF ResolveAutoPoll, Resolved
<1>6. CASE IsolateIface
  <2>1. PICK others \in {Others} \cup {S \in {{}} : ~Works("isolate")} :
          \E wet, kept \in Spared("isolate", others) :
            /\ addrs' = [i \in Ifaces |-> IF i \in others \ wet THEN <<>> ELSE addrs[i]]
            /\ up' = [i \in Ifaces |-> up[i] /\ i \notin others \ kept]
    BY <1>6 DEF IsolateIface
  <2>2. PICK wet, kept \in Spared("isolate", others) :
          /\ addrs' = [i \in Ifaces |-> IF i \in others \ wet THEN <<>> ELSE addrs[i]]
          /\ up' = [i \in Ifaces |-> up[i] /\ i \notin others \ kept]
    BY <2>1
  <2>3. pc' = "bringUp" /\ sel' = sel /\ present' = present /\ dnsmasq' = dnsmasq
    BY <1>6 DEF IsolateIface, Goto
  <2>4. ASSUME NEW i \in present \ {sel}, i \notin Others
        PROVE  ~up[i] /\ addrs[i] = <<>>
    BY <2>4, NoCidrNoAddress DEF Others, NeedsIsolation
  <2>5. ASSUME NEW i \in Ifaces, i \notin present
        PROVE  ~up'[i] /\ addrs'[i] = <<>>
    BY <2>2, <2>3, <2>5
  <2>6. Isolated'
    <3>1. SUFFICES ASSUME Works("isolate"), NEW i \in Ifaces \ {sel}
                   PROVE  ~up'[i] /\ addrs'[i] = <<>>
      BY <2>3
    <3>2. others = Others /\ wet = {} /\ kept = {}
      BY <2>1, <2>2, <3>1 DEF Spared
    <3> QED
      BY <2>2, <2>3, <2>4, <2>5, <3>2
  <2> QED
    BY <2>3, <2>5, <2>6
<1>7. CASE BringUp
  BY <1>7 DEF BringUp, Goto, FailsAt, Fail
<1>8. CASE StopDhclient
  BY <1>8 DEF StopDhclient, Goto
<1>9. CASE StopOwnDnsmasq
  BY <1>9 DEF StopOwnDnsmasq, Goto
<1>10. CASE ProbeForeignDhcp
  BY <1>10 DEF ProbeForeignDhcp, Goto, FailsAt, Fail
<1>11. CASE AssignStatic
  BY <1>11 DEF AssignStatic, AddAddr, CanAdd, Goto, FailsAt, Fail
<1>12. CASE CheckLocal
  BY <1>12 DEF CheckLocal, AddrIsLocal, HasAddr, Goto
<1>13. CASE Ping
  BY <1>13 DEF Ping, Goto
<1>14. CASE ClientStop
  BY <1>14 DEF ClientStop, Goto
<1>15. CASE ClientFlush
  BY <1>15 DEF ClientFlush, Spared, FlushAddr, Goto
<1>16. CASE ClientStart
  BY <1>16 DEF ClientStart, StartDhclient, Goto, FailsAt, Fail
<1>17. CASE ClientWait
  BY <1>17 DEF ClientWait, Return
<1>18. CASE StaticStop
  BY <1>18 DEF StaticStop, Goto
<1>19. CASE StaticRoute
  BY <1>19 DEF StaticRoute, Return, FailsAt, Fail
<1>20. CASE GatewayFlush
  <2>1. \A i \in Ifaces : addrs'[i] = addrs[i] \/ addrs'[i] = <<>>
    BY <1>20 DEF GatewayFlush, FlushAddr
  <2>2. /\ pc = "gatewayFlush" /\ pc' \in {"gatewayRoute", "gatewayAdd"}
        /\ UNCHANGED <<op, job, sel, out, linkVars, procVars>>
    BY <1>20 DEF GatewayFlush, Goto
  <2> QED
    BY <2>1, <2>2
<1>21. CASE GatewayAdd
  BY <1>21 DEF GatewayAdd, AddAddr, CanAdd, Goto, FailsAt, Fail
<1>22. CASE GatewayRoute
  BY <1>22 DEF GatewayRoute, DelDefault, Goto
<1>23. CASE GatewayDnsmasq
  BY <1>23 DEF GatewayDnsmasq, Return, FailsAt, Fail
<1>24. CASE TdResolve
  BY <1>24 DEF TdResolve, Resolved, Fail
<1>25. CASE TdStop
  BY <1>25 DEF TdStop, Goto
<1>26. CASE TdFlush
  <2>1. \A i \in Ifaces : addrs'[i] = addrs[i] \/ addrs'[i] = <<>>
    BY <1>26 DEF TdFlush, FlushAddr
  <2>2. Works("tdFlush") => /\ dhclient' = dhclient \ present
                            /\ \A i \in present : addrs'[i] = <<>>
    BY <1>26 DEF TdFlush, Spared, FlushAddr
  <2>3. pc' = "tdRoute" /\ dnsmasq' = dnsmasq /\ present' = present /\ up' = up
    BY <1>26 DEF TdFlush, Goto
  <2> QED
    BY <1>26, <2>1, <2>2, <2>3 DEF TdFlush
<1>27. CASE TdRoute
  BY <1>27 DEF TdRoute, DelDefault, Return
<1> QED
  BY <1>1, <1>2, <1>3, <1>4, <1>5, <1>6, <1>7, <1>8, <1>9, <1>10, <1>11, <1>12, <1>13, <1>14,
     <1>15, <1>16, <1>17, <1>18, <1>19, <1>20, <1>21, <1>22, <1>23, <1>24, <1>25, <1>26, <1>27
     DEF CallStep

\* Nothing the host does by itself disturbs it: leases reach only links that are up, and
\* the links that are up are the selected one, whose dhclient is stopped.
LEMMA HostKeepsInv ==
  ASSUME ApplyTypeOK, CallInv, HostEnv, UNCHANGED callVars
  PROVE  CallInv'
<1> USE HostAssumption
    DEF ApplyTypeOK, HostTypeOK, CallInv, GoneIsBare, NoSelfDiscovery, Isolated, Works,
        IsolationHolds, Silent, Unleased, Steps, ApplySteps, TeardownSteps, SelectSteps, AfterSelect,
        PrepareSteps, DecideSteps, ClientSteps, StaticSteps, GatewaySteps, callVars
<1>1. ASSUME NEW i \in Ifaces, CableFlips(i) PROVE CallInv'
  BY <1>1 DEF CableFlips, AddrIsLocal, HasAddr
<1>2. ASSUME NEW i \in Ifaces, DeviceAppears(i) PROVE CallInv'
  BY <1>2 DEF DeviceAppears, AddrIsLocal, HasAddr
<1>3. ASSUME NEW i \in Ifaces, DeviceVanishes(i) PROVE CallInv'
  BY <1>3 DEF DeviceVanishes, FlushAddr, RouteWithout, AddrIsLocal, HasAddr
<1>4. ASSUME NEW i \in Ifaces, LeaseAcquired(i) PROVE CallInv'
  <2>1. /\ i \in present /\ up[i] /\ i \in dhclient
        /\ UNCHANGED <<present, up, dhclient, dnsmasq>>
        /\ addrs[i] \in Seq(Addrs)
        /\ addrs'[i] = Append(addrs[i], LeaseIp)
        /\ \A j \in Ifaces \ {i} : addrs'[j] = addrs[j]
    BY <1>4 DEF LeaseAcquired, Carrier
  <2>2. \A k \in DOMAIN addrs'[i] :
          \/ addrs'[i][k] = LeaseIp
          \/ k \in DOMAIN addrs[i] /\ addrs'[i][k] = addrs[i][k]
    <3> HIDE DEF CallInv
    <3> QED
      BY <2>1
  <2>3. GoneIsBare'
    BY <2>1
  <2>4. NoSelfDiscovery'
    <3>1. LeaseIp # GatewayIp(job.gw)
      BY DEF LeaseIp, GatewayIp
    <3>2. AddrIsLocal(GatewayIp(job.gw))' => AddrIsLocal(GatewayIp(job.gw))
      <4> HIDE DEF CallInv
      <4>1. job' = job
        OBVIOUS
      <4>2. SUFFICES ASSUME NEW j \in Ifaces, NEW k \in DOMAIN addrs'[j],
                            addrs'[j][k] = GatewayIp(job.gw)
                     PROVE  AddrIsLocal(GatewayIp(job.gw))
        BY <4>1 DEF AddrIsLocal, HasAddr
      <4>3. k \in DOMAIN addrs[j] /\ addrs[j][k] = GatewayIp(job.gw)
        BY <2>1, <2>2, <3>1, <4>2
      <4> QED
        BY <4>3 DEF AddrIsLocal, HasAddr
    <3> QED
      BY <2>1, <3>2
  <2>5. Isolated'
    BY <2>1
  <2>6. pc \in {"clientStart", "clientWait"} /\ Works("clientFlush") =>
          \A k \in DOMAIN addrs'[sel] : addrs'[sel][k] = LeaseIp
    BY <2>1, <2>2
  <2>7. ~(pc = "gatewayDnsmasq" /\ Works("isolate"))
    BY <2>1
  <2>8. ~(pc = "tdRoute" /\ Works("tdFlush"))
    BY <2>1
  <2> QED
    BY <2>1, <2>3, <2>4, <2>5, <2>6, <2>7, <2>8
<1>5. ASSUME NEW i \in Ifaces, DhclientDies(i) PROVE CallInv'
  BY <1>5 DEF DhclientDies, AddrIsLocal, HasAddr
<1>6. CASE DnsmasqDies
  BY <1>6 DEF DnsmasqDies, AddrIsLocal, HasAddr
<1> QED
  BY <1>1, <1>2, <1>3, <1>4, <1>5, <1>6 DEF HostEnv, HostEvent

\* No step of the one-shot commands disturbs it: a new or killed call owes nothing yet.
LEMMA CliKeepsInv ==
  ASSUME ApplyTypeOK, CallInv, [CliNext]_cliVars
  PROVE  CallInv'
<1> USE DEF CallInv, GoneIsBare, NoSelfDiscovery, Isolated, Works, IsolationHolds, Silent, Unleased,
            AfterSelect, PrepareSteps, DecideSteps, ClientSteps, StaticSteps, GatewaySteps
<1>1. CASE CliInvoke
  BY <1>1 DEF CliInvoke, Begin, hostVars
<1>2. CASE CallStep
  BY <1>2, CallKeepsInv
<1>3. CASE CliExit \/ CliKilled
  BY <1>3 DEF CliExit, CliKilled, NoCall, hostVars
<1>4. CASE CliHost
  BY <1>4, HostKeepsInv DEF CliHost
<1>5. CASE UNCHANGED cliVars
  BY <1>5 DEF cliVars, hostVars, callVars, AddrIsLocal, HasAddr
<1> QED
  BY <1>1, <1>2, <1>3, <1>4, <1>5 DEF CliNext

\* Nor does it hold anything an earlier step of a call should have cleared.
LEMMA CliStartsInv == CliInit => CallInv
  BY DEF CliInit, HostBoot, CallInit, CallInv, GoneIsBare, NoSelfDiscovery, Isolated, Works,
         IsolationHolds, Silent, Unleased, AfterSelect, PrepareSteps, DecideSteps, ClientSteps,
         StaticSteps, GatewaySteps

\* Each step of apply and teardown finds what the steps before it were to establish, however
\* often calls fail or are killed and whatever the host does between two commands.
THEOREM CallInvariant == CliSpec => []CallInv
<1> QED
  BY CliStartsInv, ApplyTypeCorrect, CliKeepsInv, PTL DEF CliSpec

\* The probe never hears our own dnsmasq and the ping never reaches our own address.
THEOREM ProbesSeeOthers == CliSpec => []NoSelfDiscovery
<1>1. CallInv => NoSelfDiscovery
  BY DEF CallInv
<1> QED
  BY <1>1, CallInvariant, PTL

\* If the commands of isolate_iface work, the selected Ethernet is the only one that is up
\* or has an address from then until a successful apply returns.
THEOREM OthersAreIsolated == CliSpec => []Isolated
<1>1. CallInv => Isolated
  BY DEF CallInv
<1> QED
  BY <1>1, CallInvariant, PTL

\* Only a step of the call itself completes it.
LEMMA CallCompletes ==
  ASSUME [CliNext]_cliVars, NEW o, Completes(o)
  PROVE  CallStep
  BY DEF Completes, CliNext, CliInvoke, Begin, CliExit, CliKilled, NoCall, CliHost, cliVars, callVars

\* The step with which an apply returns Ok is the last one of a mode, and the steps before
\* it left the host as the mode requires.
LEMMA ApplyEndsInMode ==
  ASSUME ApplyTypeOK, CallInv, CallStep, Completes("apply"), out' # None
  PROVE  InMode(out)'
<1> USE DEF At, ApplyTypeOK, HostTypeOK, CallInv, Silent, Unleased, Steps, ApplySteps,
            TeardownSteps, SelectSteps, AfterSelect, PrepareSteps, DecideSteps, ClientSteps,
            StaticSteps, GatewaySteps, hostVars, linkVars, addrVars, procVars
<1>2. ClientWait \/ StaticRoute \/ GatewayDnsmasq
  BY DEF CallStep, Completes, Goto, Fail, FailsAt, Resolved, ResolvePinned, ResolveAutoFails,
     ResolveAutoCarrier, ResolveAutoBringUp, ResolveAutoPoll, IsolateIface, BringUp, StopDhclient,
     StopOwnDnsmasq, ProbeForeignDhcp, AssignStatic, CheckLocal, Ping, ClientStop, ClientFlush,
     ClientStart, StaticStop, GatewayFlush, GatewayAdd, GatewayRoute, TdResolve, TdStop, TdFlush,
     TdRoute
<1>3. CASE ClientWait
  BY <1>3 DEF ClientWait, Return, Status, InMode
<1>4. CASE StaticRoute
  <2>1. /\ route' = [dev |-> sel, via |-> job.gw]
        /\ Return(Status("static", StaticIp(job.gw), dnsmasq # None))
        /\ UNCHANGED <<dnsmasq, dhclient>>
    BY <1>4 DEF StaticRoute, FailsAt, Fail
  <2>2. dnsmasq = None /\ sel \notin dhclient
    BY <1>4 DEF StaticRoute
  <2>3. out'.mode = "static" /\ sel' = sel /\ job' = job
    BY <2>1 DEF Return, Status
  <2> QED
    BY <2>1, <2>2, <2>3 DEF InMode
<1>5. CASE GatewayDnsmasq
  <2>1. /\ DnsmasqReload(sel, job.gw)
        /\ Return(Status("gateway", GatewayIp(job.gw), dnsmasq' # None))
        /\ UNCHANGED <<addrs, route, dhclient>>
    BY <1>5 DEF GatewayDnsmasq, FailsAt, Fail
  <2> QED
    BY <1>5, <2>1 DEF GatewayDnsmasq, DnsmasqReload, Return, Status, InMode, HasAddr
<1> QED
  BY <1>2, <1>3, <1>4, <1>5

\* Ok from apply means the host is in the reported mode.
THEOREM ApplyIsInMode == CliSpec => AppliedMode
<1>1. ASSUME ApplyTypeOK, CallInv, [CliNext]_cliVars
      PROVE  [Completes("apply") /\ out' # None => InMode(out)']_cliVars
  BY <1>1, CallCompletes, ApplyEndsInMode
<1> QED
  BY <1>1, ApplyTypeCorrect, CallInvariant, PTL DEF CliSpec, AppliedMode

\* The step with which a teardown returns Ok is its last, on a host flushed before.
LEMMA TeardownEndsClean ==
  ASSUME ApplyTypeOK, CallInv, CallStep, Completes("teardown"), out' # None
  PROVE  TornDown'
<1> USE DEF At, ApplyTypeOK, HostTypeOK, CallInv, Silent, Steps, ApplySteps,
            TeardownSteps, SelectSteps, AfterSelect, PrepareSteps, DecideSteps, ClientSteps,
            StaticSteps, GatewaySteps, hostVars, linkVars, addrVars, procVars
<1>2. TdRoute
  BY DEF CallStep, Completes, Goto, Fail, FailsAt, Resolved, ResolvePinned, ResolveAutoFails,
     ResolveAutoCarrier, ResolveAutoBringUp, ResolveAutoPoll, IsolateIface, BringUp, StopDhclient,
     StopOwnDnsmasq, ProbeForeignDhcp, AssignStatic, CheckLocal, Ping, ClientStop, ClientFlush,
     ClientStart, ClientWait, StaticStop, StaticRoute, GatewayFlush, GatewayAdd, GatewayRoute,
     GatewayDnsmasq, TdResolve, TdStop, TdFlush
<1> QED
  BY <1>2 DEF TdRoute, DelDefault, TornDown, Works

\* Ok from teardown means nothing of micronet's is left running or configured.
THEOREM TeardownIsClean == CliSpec => TeardownClean
<1>1. ASSUME ApplyTypeOK, CallInv, [CliNext]_cliVars
      PROVE  [Completes("teardown") /\ out' # None => TornDown']_cliVars
  BY <1>1, CallCompletes, TeardownEndsClean
<1> QED
  BY <1>1, ApplyTypeCorrect, CallInvariant, PTL DEF CliSpec, TeardownClean
=============================================================================
