------------------------------- MODULE Apply -------------------------------
(***************************************************************************)
(* apply_with and teardown_with (apply/mod.rs): one sequential call that   *)
(* resolves an interface, isolates the others, probes the LAN once and     *)
(* puts the host in client, static or gateway mode. The host moves between *)
(* any two commands of the call, most commands can fail, and the process   *)
(* that makes the call can die in the middle of it.                        *)
(*                                                                         *)
(* CliSpec is the one-shot use (`micronet apply`, `micronet teardown`);    *)
(* module Daemon runs the same steps from its loop.                        *)
(***************************************************************************)
EXTENDS Host

CONSTANTS
  AutoIface,     \* interface omitted, null or "auto"
  Configs,       \* the valid configurations: [iface, gw, retry]
  FailingSteps   \* the steps whose commands may fail

VARIABLES
  pc,    \* next step of the call in progress; "idle" when there is none
  op,    \* "apply" or "teardown"
  job,   \* the configuration the call was made with
  sel,   \* the interface the call has resolved
  out    \* once pc = "done": the Status returned by Ok, or None for Err

callVars == <<pc, op, job, sel, out>>
cliVars  == <<hostVars, callVars>>

Modes    == {"client", "gateway", "static"}
Statuses == [mode : Modes, iface : Ifaces \cup {None}, cidr : Addrs \cup {None}, dns : BOOLEAN]

\* The steps of apply_with from resolve_iface to the end of isolate_iface, the ones
\* from there up to the stop of our own dnsmasq, and the ones after it, per mode.
SelectSteps  == {"resolve", "waitCarrier", "isolate"}
PrepareSteps == {"bringUp", "stopDhclient", "stopDnsmasq"}
DecideSteps  == {"probe", "assign", "checkLocal", "ping"}
ClientSteps  == {"clientStop", "clientFlush", "clientStart", "clientWait"}
StaticSteps  == {"staticStop", "staticRoute"}
GatewaySteps == {"gatewayFlush", "gatewayAdd", "gatewayRoute", "gatewayDnsmasq"}
AfterSelect  == PrepareSteps \cup DecideSteps \cup ClientSteps \cup StaticSteps \cup GatewaySteps
ApplySteps   == SelectSteps \cup AfterSelect
TeardownSteps == {"tdResolve", "tdStop", "tdFlush", "tdRoute"}
Steps        == ApplySteps \cup TeardownSteps

ASSUME ApplyAssumption ==
  /\ AutoIface \notin Ifaces
  /\ Configs \subseteq [iface : Ifaces \cup {AutoIface}, gw : Nets, retry : Nat \ {0}]
  /\ FailingSteps \subseteq Steps
  /\ None \notin Configs
  /\ None \notin Statuses

ApplyTypeOK ==
  /\ HostTypeOK
  /\ pc \in Steps \cup {"idle", "done"}
  /\ op \in {"apply", "teardown", None}
  /\ job \in Configs \cup {None}
  /\ sel \in Ifaces \cup {None}
  /\ out \in Statuses \cup {None}
  /\ pc \in Steps => job \in Configs
  /\ pc \in AfterSelect \cup {"waitCarrier", "isolate", "tdStop", "tdFlush", "tdRoute"}
       => sel \in Ifaces
  /\ pc \in ApplySteps => op = "apply"
  /\ pc \in TeardownSteps => op = "teardown"

-----------------------------------------------------------------------------
(* The call's control.                                                     *)

At(p)   == pc = p
Goto(p) == pc' = p /\ UNCHANGED <<op, job, sel, out>>
Fail    == pc' = "done" /\ out' = None /\ UNCHANGED <<op, job, sel>>
\* A command fails when the host makes it impossible, or for a reason of its own.
FailsAt(p, impossible) == (impossible \/ p \in FailingSteps) /\ Fail
\* The subsets of S on which a best-effort command, whose error is dropped, can fail.
Spared(p, S) == IF p \in FailingSteps THEN SUBSET S ELSE {{}}
Return(status) == pc' = "done" /\ out' = status /\ UNCHANGED <<op, job, sel>>

Resolved(i, p) == pc' = p /\ sel' = i /\ UNCHANGED <<op, job, out>>

Begin(o, c) ==
  /\ pc = "idle"
  /\ pc' = IF o = "apply" THEN "resolve" ELSE "tdResolve"
  /\ op' = o
  /\ job' = c
  /\ UNCHANGED <<sel, out>>

CallInit ==
  /\ pc = "idle"
  /\ op = None
  /\ job = None
  /\ sel = None
  /\ out = None

NoCall ==
  /\ pc' = "idle"
  /\ op' = None
  /\ job' = None
  /\ sel' = None
  /\ out' = None

-----------------------------------------------------------------------------
(* resolve_iface, isolate_iface and bring_up.                              *)

WithCarrier == {i \in Ifaces : Carrier(i)}

ResolvePinned ==
  /\ At("resolve")
  /\ job.iface # AutoIface
  /\ IF job.iface \in present THEN Resolved(job.iface, "isolate") ELSE Fail
  /\ UNCHANGED hostVars

ResolveAutoFails ==
  /\ At("resolve")
  /\ job.iface = AutoIface
  /\ FailsAt("resolve", present = {})
  /\ UNCHANGED hostVars

ResolveAutoCarrier ==
  /\ At("resolve")
  /\ job.iface = AutoIface
  /\ WithCarrier # {}
  /\ Resolved(First(WithCarrier), "isolate")
  /\ UNCHANGED hostVars

\* No candidate has carrier: `ip link set up` on those that are admin-down (the result
\* of the command is ignored). sel holds the fallback, the first sorted name.
ResolveAutoBringUp ==
  /\ At("resolve")
  /\ job.iface = AutoIface
  /\ present # {}
  /\ WithCarrier = {}
  /\ \E kept \in Spared("waitCarrier", present) :
       up' = [i \in Ifaces |-> up[i] \/ i \in present \ kept]
  /\ Resolved(First(present), "waitCarrier")
  /\ UNCHANGED <<present, cable, addrs, route, dhclient, dnsmasq, conf>>

\* Mutant: the polls have no deadline.
ResolveAutoPollForever ==
  /\ At("waitCarrier")
  /\ WithCarrier # {}
  /\ Resolved(First(WithCarrier), "isolate")
  /\ UNCHANGED hostVars

\* One of the polls within AUTO_CARRIER_WAIT_MS, or the last one.
ResolveAutoPoll ==
  /\ At("waitCarrier")
  /\ Resolved(IF WithCarrier # {} THEN First(WithCarrier) ELSE sel, "isolate")
  /\ UNCHANGED hostVars

\* Mutant: an interface that is merely up is left alone.
NeedsIsolationIfAddressed(i) == Cidr(i) # None

\* isolate_iface skips an interface that is down and has no address.
NeedsIsolation(i) == up[i] \/ Cidr(i) # None

\* What isolate_iface goes through: nothing when the listing of devices fails.
Others == {i \in present \ {sel} : NeedsIsolation(i)}

\* The flush may fail on some of the others, and the set_down on some: wet and kept.
IsolateIface ==
  /\ At("isolate")
  /\ \E others \in {Others} \cup {S \in {{}} : "isolate" \in FailingSteps} :
       \E wet, kept \in Spared("isolate", others) :
         /\ dhclient' = dhclient \ others
         /\ addrs' = [i \in Ifaces |-> IF i \in others \ wet THEN <<>> ELSE addrs[i]]
         /\ up' = [i \in Ifaces |-> up[i] /\ i \notin others \ kept]
         /\ route' = RouteWithout(others \ (wet \cap kept))
  /\ Goto("bringUp")
  /\ UNCHANGED <<present, cable, dnsmasq, conf>>

BringUp ==
  /\ At("bringUp")
  /\ \/ /\ sel \in present
        /\ up' = [up EXCEPT ![sel] = TRUE]
        /\ Goto("stopDhclient")
     \/ /\ ~up[sel]
        /\ FailsAt("bringUp", sel \notin present)
        /\ UNCHANGED up
  /\ UNCHANGED <<present, cable, addrVars, procVars>>

\* Mutant: a dhclient left by an earlier call is not stopped.
KeepDhclient == At("stopDhclient") /\ Goto("stopDnsmasq") /\ UNCHANGED hostVars

StopDhclient ==
  /\ At("stopDhclient")
  /\ dhclient' = dhclient \ {sel}
  /\ Goto("stopDnsmasq")
  /\ UNCHANGED <<linkVars, addrVars, dnsmasq, conf>>

-----------------------------------------------------------------------------
(* The probe, the ping and decide.                                         *)

\* Mutant: the probe goes out beside our own server.
KeepOwnDnsmasq == At("stopDnsmasq") /\ Goto("probe") /\ UNCHANGED hostVars

StopOwnDnsmasq ==
  /\ At("stopDnsmasq")
  /\ dnsmasq' = None
  /\ Goto("probe")
  /\ UNCHANGED <<linkVars, addrVars, dhclient, conf>>

\* An offer needs a link, and comes from a foreign server or from our own dnsmasq if
\* that is still running. Errors (bind, send, SO_BINDTODEVICE) fail the call.
ProbeForeignDhcp ==
  /\ At("probe")
  /\ \/ Carrier(sel) /\ Goto("clientStop")
     \/ Goto("assign")
     \/ FailsAt("probe", sel \notin present)
  /\ UNCHANGED hostVars

\* `ip addr add` fails on a device that is gone, and on an address the device has; the
\* latter passes for success when that address is the first one.
CanAdd(i, a) == i \in present /\ (HasAddr(i, a) => Cidr(i) = a)

AddAddr(i, a) ==
  /\ CanAdd(i, a)
  /\ addrs' = IF HasAddr(i, a) THEN addrs ELSE [addrs EXCEPT ![i] = Append(@, a)]

AssignStatic ==
  /\ At("assign")
  /\ \/ /\ Cidr(sel) # None
        /\ Goto("checkLocal")
        /\ UNCHANGED addrs
     \/ /\ Cidr(sel) = None
        /\ AddAddr(sel, StaticIp(job.gw))
        /\ Goto("checkLocal")
     \/ /\ Cidr(sel) = None
        /\ FailsAt("assign", sel \notin present)
        /\ UNCHANGED addrs
  /\ UNCHANGED <<linkVars, route, procVars>>

\* gateway.ip is one of our own addresses: no ping, decide answers Gateway.
CheckLocal ==
  /\ At("checkLocal")
  /\ Goto(IF AddrIsLocal(GatewayIp(job.gw)) THEN "gatewayFlush" ELSE "ping")
  /\ UNCHANGED hostVars

\* A reply comes from a router behind a live link, or from ourselves.
Ping ==
  /\ At("ping")
  /\ \/ /\ WithCarrier # {} \/ AddrIsLocal(GatewayIp(job.gw))
        /\ Goto("staticStop")
     \/ Goto("gatewayFlush")
  /\ UNCHANGED hostVars

-----------------------------------------------------------------------------
(* apply_client, apply_static, apply_gateway.                              *)

\* Mutant: the configured name, possibly "auto", instead of the resolved one.
StatusOfConfigured(mode, cidr, dns) ==
  [mode |-> mode, iface |-> job.iface, cidr |-> cidr, dns |-> dns]

Status(mode, cidr, dns) == [mode |-> mode, iface |-> sel, cidr |-> cidr, dns |-> dns]

ClientStop ==
  /\ At("clientStop")
  /\ dnsmasq' = None
  /\ Goto("clientFlush")
  /\ UNCHANGED <<linkVars, addrVars, dhclient, conf>>

ClientFlush ==
  /\ At("clientFlush")
  /\ \E wet \in Spared("clientFlush", {sel}) : FlushAddr({sel} \ wet)
  /\ Goto("clientStart")
  /\ UNCHANGED <<linkVars, procVars>>

StartDhclient(i) == dhclient' = dhclient \cup {i}

ClientStart ==
  /\ At("clientStart")
  /\ \/ StartDhclient(sel) /\ Goto("clientWait")
     \/ FailsAt("clientStart", FALSE) /\ UNCHANGED dhclient
  /\ UNCHANGED <<linkVars, addrVars, dnsmasq, conf>>

\* wait_ipv4 returns at the first poll that sees an address, or after DHCP_CLIENT_WAIT.
ClientWait ==
  /\ At("clientWait")
  /\ Return(Status("client", Cidr(sel), dnsmasq # None))
  /\ UNCHANGED hostVars

StaticStop ==
  /\ At("staticStop")
  /\ dnsmasq' = None
  /\ Goto("staticRoute")
  /\ UNCHANGED <<linkVars, addrVars, dhclient, conf>>

\* The kernel refuses the route on a device that is gone, down or has no address.
StaticRoute ==
  /\ At("staticRoute")
  /\ \/ /\ sel \in present /\ up[sel] /\ Cidr(sel) # None
        /\ route' = [dev |-> sel, via |-> job.gw]
        /\ Return(Status("static", StaticIp(job.gw), dnsmasq # None))
     \/ /\ FailsAt("staticRoute", sel \notin present \/ ~up[sel] \/ Cidr(sel) = None)
        /\ UNCHANGED route
  /\ UNCHANGED <<linkVars, addrs, procVars>>

GatewayFlush ==
  /\ At("gatewayFlush")
  /\ IF Cidr(sel) = GatewayIp(job.gw)
     THEN Goto("gatewayRoute") /\ UNCHANGED addrVars
     ELSE /\ \E wet \in Spared("gatewayFlush", {sel}) : FlushAddr({sel} \ wet)
          /\ Goto("gatewayAdd")
  /\ UNCHANGED <<linkVars, procVars>>

GatewayAdd ==
  /\ At("gatewayAdd")
  /\ \/ AddAddr(sel, GatewayIp(job.gw)) /\ Goto("gatewayRoute")
     \/ /\ FailsAt("gatewayAdd", ~CanAdd(sel, GatewayIp(job.gw)))
        /\ UNCHANGED addrs
  /\ UNCHANGED <<linkVars, route, procVars>>

\* del_default drops the error of `ip route del default`.
DelDefault(p) == route' = None \/ (p \in FailingSteps /\ UNCHANGED route)

GatewayRoute ==
  /\ At("gatewayRoute")
  /\ DelDefault("gatewayRoute")
  /\ Goto("gatewayDnsmasq")
  /\ UNCHANGED <<linkVars, addrs, procVars>>

GatewayDnsmasq ==
  /\ At("gatewayDnsmasq")
  /\ \/ /\ DnsmasqReload(sel, job.gw)
        /\ Return(Status("gateway", GatewayIp(job.gw), dnsmasq' # None))
     \/ /\ FailsAt("gatewayDnsmasq", ~HasAddr(sel, GatewayIp(job.gw)))
        /\ DnsmasqReloadFails(sel, job.gw)
  /\ UNCHANGED <<linkVars, addrVars, dhclient>>

-----------------------------------------------------------------------------
(* teardown_with. The passive resolution raises no link and does not wait. *)

TdResolve ==
  /\ At("tdResolve")
  /\ IF job.iface # AutoIface
     THEN IF job.iface \in present THEN Resolved(job.iface, "tdStop") ELSE Fail
     ELSE IF present = {} THEN Fail
          ELSE Resolved(First(IF WithCarrier # {} THEN WithCarrier ELSE present), "tdStop")
  /\ UNCHANGED hostVars

TdStop ==
  /\ At("tdStop")
  /\ dnsmasq' = None
  /\ Goto("tdFlush")
  /\ UNCHANGED <<linkVars, addrVars, dhclient, conf>>

\* Mutant: only the resolved interface is flushed.
TdFlushSelected ==
  /\ At("tdFlush")
  /\ dhclient' = dhclient \ {sel}
  /\ FlushAddr({sel})
  /\ Goto("tdRoute")
  /\ UNCHANGED <<linkVars, dnsmasq, conf>>

\* flush_all_ethernet: nothing is admin-downed, and nothing is done when the listing fails.
TdFlush ==
  /\ At("tdFlush")
  /\ \/ /\ dhclient' = dhclient \ present
        /\ \E wet \in Spared("tdFlush", present) : FlushAddr(present \ wet)
     \/ "tdFlush" \in FailingSteps /\ UNCHANGED <<dhclient, addrVars>>
  /\ Goto("tdRoute")
  /\ UNCHANGED <<linkVars, dnsmasq, conf>>

TdRoute ==
  /\ At("tdRoute")
  /\ DelDefault("tdRoute")
  /\ Return(Status("gateway", None, dnsmasq # None))
  /\ UNCHANGED <<linkVars, addrs, procVars>>

-----------------------------------------------------------------------------
CallStep ==
  \/ ResolvePinned \/ ResolveAutoFails \/ ResolveAutoCarrier
  \/ ResolveAutoBringUp \/ ResolveAutoPoll
  \/ IsolateIface \/ BringUp \/ StopDhclient
  \/ StopOwnDnsmasq \/ ProbeForeignDhcp \/ AssignStatic \/ CheckLocal \/ Ping
  \/ ClientStop \/ ClientFlush \/ ClientStart \/ ClientWait
  \/ StaticStop \/ StaticRoute
  \/ GatewayFlush \/ GatewayAdd \/ GatewayRoute \/ GatewayDnsmasq
  \/ TdResolve \/ TdStop \/ TdFlush \/ TdRoute

\* The host at boot: nothing configured, links up or down, cables in or out.
HostBoot ==
  /\ present \in {Ifaces, Ifaces \ HotPluggable}
  /\ up \in [Ifaces -> BOOLEAN]
  /\ \A i \in Ifaces \ present : ~up[i]
  /\ cable \in [Ifaces -> BOOLEAN]
  /\ addrs = [i \in Ifaces |-> <<>>]
  /\ route = None
  /\ dhclient = {}
  /\ dnsmasq = None
  /\ conf = None

-----------------------------------------------------------------------------
(* The one-shot commands: a call at a time, over and over, any of them     *)
(* killed half way.                                                        *)

CliInit == HostBoot /\ CallInit

CliInvoke == \E o \in {"apply", "teardown"}, c \in Configs : Begin(o, c) /\ UNCHANGED hostVars
CliExit   == pc = "done" /\ NoCall /\ UNCHANGED hostVars
CliKilled == pc \in Steps /\ NoCall /\ UNCHANGED hostVars
CliHost   == HostEnv /\ UNCHANGED callVars

CliNext == CliInvoke \/ CallStep \/ CliExit \/ CliKilled \/ CliHost

CliSpec == CliInit /\ [][CliNext]_cliVars

-----------------------------------------------------------------------------
(* What a call promises.                                                   *)

\* The probe and the ping never discover micronet itself: while the DISCOVER is out our
\* own dnsmasq is down, and gateway.ip is pinged only when no interface of ours has it.
NoSelfDiscovery ==
  /\ pc = "probe" => dnsmasq = None
  /\ pc = "ping" => ~AddrIsLocal(GatewayIp(job.gw))

\* The best-effort commands of the step cannot fail.
Works(p) == p \notin FailingSteps

IsolationHolds == pc \in AfterSelect \/ (pc = "done" /\ op = "apply" /\ out # None)

\* From isolate_iface to the end of a successful apply, whatever is unplugged, plugged in
\* or leased meanwhile, every Ethernet other than the selected one is down and unaddressed.
Isolated ==
  Works("isolate") /\ IsolationHolds =>
    \A i \in Ifaces \ {sel} : ~up[i] /\ addrs[i] = <<>>

Completes(o) == pc # "done" /\ pc' = "done" /\ op = o

\* The host after a successful apply: a client runs no dnsmasq and keeps none of our
\* addresses; static has its default route and no dnsmasq; a gateway serves its own subnet
\* on the selected interface, runs no dhclient there and has no default route. Where a
\* best-effort command is behind it, it is promised if that command works.
InMode(status) ==
  CASE status.mode = "client" ->
         /\ dnsmasq = None
         /\ Works("clientFlush") => \A k \in DOMAIN addrs[sel] : addrs[sel][k] = LeaseIp
    [] status.mode = "static" ->
         /\ dnsmasq = None
         /\ sel \notin dhclient
         /\ route = [dev |-> sel, via |-> job.gw]
    [] status.mode = "gateway" ->
         /\ dnsmasq = [iface |-> sel, gw |-> job.gw]
         /\ HasAddr(sel, GatewayIp(job.gw))
         /\ sel \notin dhclient
         /\ Works("isolate") /\ Works("gatewayRoute") => route = None

\* An apply that returns Ok leaves the host in the mode it reports, whatever earlier calls
\* that failed or were killed left behind and whatever the host did meanwhile.
AppliedMode == [][Completes("apply") /\ out' # None => InMode(out)']_cliVars

TornDown ==
  /\ dnsmasq = None
  /\ Works("tdRoute") => route = None
  /\ Works("tdFlush") => /\ \A i \in Ifaces : addrs[i] = <<>>
                         /\ dhclient \subseteq HotPluggable

\* A teardown that returns Ok leaves no dnsmasq and, if its best-effort commands work, no
\* address, no default route and no dhclient on any device that was there all along.
TeardownClean == [][Completes("teardown") /\ out' # None => TornDown']_cliVars

\* The steps at which our own dnsmasq is down, and those at which the selected interface
\* has no dhclient.
Silent   == {"tdFlush", "tdRoute"} \cup DecideSteps \cup ClientSteps \cup StaticSteps
              \cup GatewaySteps
Unleased == {"stopDnsmasq", "clientStop", "clientFlush", "clientStart"}
              \cup DecideSteps \cup StaticSteps \cup GatewaySteps

\* A device that is gone is down and has no address; only a hot-pluggable one can be gone.
GoneIsBare ==
  /\ Ifaces \ HotPluggable \subseteq present
  /\ \A i \in Ifaces \ present : ~up[i] /\ addrs[i] = <<>>

\* What each step of a call finds done by the steps before it, whatever the host did in
\* between: the inductive invariant behind the promises above.
CallInv ==
  /\ GoneIsBare
  /\ NoSelfDiscovery
  /\ Isolated
  /\ pc \in Silent => dnsmasq = None
  /\ pc \in Unleased => sel \notin dhclient
  /\ pc \in {"clientStart", "clientWait"} /\ Works("clientFlush") =>
       \A k \in DOMAIN addrs[sel] : addrs[sel][k] = LeaseIp
  /\ pc = "gatewayDnsmasq" /\ Works("isolate") /\ Works("gatewayRoute") => route = None
  /\ pc = "tdRoute" /\ Works("tdFlush") =>
       /\ dhclient \subseteq HotPluggable
       /\ \A i \in Ifaces : addrs[i] = <<>> /\ ~(i \in dhclient /\ up[i])
=============================================================================
