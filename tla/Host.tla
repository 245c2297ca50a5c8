-------------------------------- MODULE Host --------------------------------
(***************************************************************************)
(* The host micronet drives: the physical Ethernet devices, their IPv4     *)
(* addresses, the default route, and the two processes micronet owns       *)
(* through pidfiles (one dnsmasq, one dhclient per interface).             *)
(*                                                                         *)
(* The operators that change this state are the commands of LiveNet        *)
(* (net/mod.rs) and of dhcp/run.rs; the actions at the end are what        *)
(* happens to the host without micronet doing anything.                    *)
(***************************************************************************)
EXTENDS Naturals, Sequences

CONSTANTS
  Ifaces,        \* device names; their order as numbers is the sorted order of names
  HotPluggable,  \* the devices that can appear and disappear (USB Ethernet)
  Nets,          \* values of gateway.ip (with its /24 subnet and static host)
  None           \* no interface, no address, no route, no process

VARIABLES
  present,   \* devices that exist and pass is_physical_ethernet
  up,        \* admin-up (IFF_UP) per device
  cable,     \* is a live cable plugged into the device
  addrs,     \* IPv4 addresses per device, oldest first
  route,     \* the default route
  dhclient,  \* interfaces whose pidfile names a live dhclient
  dnsmasq,   \* the configuration the live dnsmasq runs with, or None
  conf       \* contents of $DATA_DIR/etc/dnsmasq.conf

linkVars == <<present, up, cable>>
addrVars == <<addrs, route>>
procVars == <<dhclient, dnsmasq, conf>>
hostVars == <<present, up, cable, addrs, route, dhclient, dnsmasq, conf>>

GatewayIp(n) == <<"gateway", n>>
StaticIp(n)  == <<"static", n>>
LeaseIp      == <<"lease", None>>
Addrs        == {GatewayIp(n) : n \in Nets} \cup {StaticIp(n) : n \in Nets} \cup {LeaseIp}
Routes       == [dev : Ifaces, via : Nets \cup {None}]
ConfBodies   == [iface : Ifaces, gw : Nets]

ASSUME HostAssumption ==
  /\ Ifaces \subseteq Nat
  /\ HotPluggable \subseteq Ifaces
  /\ None \notin Ifaces
  /\ None \notin Nets
  /\ None \notin Addrs
  /\ None \notin Routes
  /\ None \notin ConfBodies

HostTypeOK ==
  /\ present \in SUBSET Ifaces
  /\ up \in [Ifaces -> BOOLEAN]
  /\ cable \in [Ifaces -> BOOLEAN]
  /\ addrs \in [Ifaces -> Seq(Addrs)]
  /\ route \in Routes \cup {None}
  /\ dhclient \in SUBSET Ifaces
  /\ dnsmasq \in ConfBodies \cup {None}
  /\ conf \in ConfBodies \cup {None}

-----------------------------------------------------------------------------
(* What the code reads.                                                    *)

First(S) == CHOOSE i \in S : \A j \in S : i <= j

\* carrier_up / carrier_up_sys: sysfs `carrier` is unreadable on an admin-down device.
Carrier(i) == i \in present /\ up[i] /\ cable[i]

\* iface_ipv4_cidr: the first address `ip addr show` prints, or None.
Cidr(i) == IF addrs[i] = <<>> THEN None ELSE Head(addrs[i])

HasAddr(i, a) == \E k \in DOMAIN addrs[i] : addrs[i][k] = a

\* ipv4_addr_is_local: on any interface.
AddrIsLocal(a) == \E i \in Ifaces : HasAddr(i, a)

-----------------------------------------------------------------------------
(* What the code runs. Flushing the last address or downing the link makes *)
(* the kernel drop the routes through the device.                          *)

RouteWithout(S) == IF route # None /\ route.dev \in S THEN None ELSE route

FlushAddr(S) ==
  /\ addrs' = [i \in Ifaces |-> IF i \in S THEN <<>> ELSE addrs[i]]
  /\ route' = RouteWithout(S)

\* dhcp_reload_or_restart succeeds: ensure_conf writes the rendered file; a dnsmasq
\* that runs with an unchanged file only gets SIGHUP, which does not re-read it; any
\* other case ends in start(). With bind-interfaces, dnsmasq starts only if
\* listen-address is an address of the interface.
DnsmasqReload(i, n) ==
  LET body   == [iface |-> i, gw |-> n]
      sighup == dnsmasq # None /\ conf = body
  IN
  /\ sighup \/ HasAddr(i, GatewayIp(n))
  /\ conf' = body
  /\ dnsmasq' = IF sighup THEN dnsmasq ELSE body

\* dhcp_reload_or_restart fails: writing the file fails (leaving it as it was, or cut
\* short) before anything else is done, or dnsmasq was stopped and does not start again.
DnsmasqReloadFails(i, n) ==
  \/ /\ conf' \in {conf, None}
     /\ UNCHANGED dnsmasq
  \/ /\ conf' = [iface |-> i, gw |-> n]
     /\ dnsmasq' = None

-----------------------------------------------------------------------------
(* What happens to the host by itself.                                     *)

CableFlips(i) ==
  /\ cable' = [cable EXCEPT ![i] = ~@]
  /\ UNCHANGED <<present, up, addrs, route, dhclient, dnsmasq, conf>>

DeviceAppears(i) ==
  /\ i \in HotPluggable \ present
  /\ present' = present \cup {i}
  /\ UNCHANGED <<up, cable, addrs, route, dhclient, dnsmasq, conf>>

\* The kernel forgets the device's state; a dhclient bound to it keeps running.
DeviceVanishes(i) ==
  /\ i \in HotPluggable \cap present
  /\ present' = present \ {i}
  /\ up' = [up EXCEPT ![i] = FALSE]
  /\ FlushAddr({i})
  /\ UNCHANGED <<cable, dhclient, dnsmasq, conf>>

\* A live dhclient on a live link gets its lease: address and default route.
LeaseAcquired(i) ==
  /\ i \in dhclient
  /\ Carrier(i)
  /\ ~HasAddr(i, LeaseIp)
  /\ addrs' = [addrs EXCEPT ![i] = Append(@, LeaseIp)]
  /\ route' = [dev |-> i, via |-> None]
  /\ UNCHANGED <<present, up, cable, dhclient, dnsmasq, conf>>

DhclientDies(i) ==
  /\ i \in dhclient
  /\ dhclient' = dhclient \ {i}
  /\ UNCHANGED <<present, up, cable, addrs, route, dnsmasq, conf>>

DnsmasqDies ==
  /\ dnsmasq # None
  /\ dnsmasq' = None
  /\ UNCHANGED <<present, up, cable, addrs, route, dhclient, conf>>

\* Everything but the lease, which follows from a dhclient and a link.
HostEvent ==
  \/ \E i \in Ifaces : \/ CableFlips(i)
                       \/ DeviceAppears(i)
                       \/ DeviceVanishes(i)
                       \/ DhclientDies(i)
  \/ DnsmasqDies

HostEnv == HostEvent \/ \E i \in Ifaces : LeaseAcquired(i)
=============================================================================
