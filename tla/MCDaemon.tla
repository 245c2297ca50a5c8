------------------------------ MODULE MCDaemon ------------------------------
(***************************************************************************)
(* Instances of Daemon for TLC.                                            *)
(***************************************************************************)
EXTENDS Daemon, TLC

CONSTANTS n1, n2

AutoConfig   == [iface |-> AutoIface, gw |-> n1, retry |-> 1]
PinnedConfig == [iface |-> 1, gw |-> n2, retry |-> 2]
SlowConfig   == [iface |-> 1, gw |-> n1, retry |-> 2]
OneConfig    == {AutoConfig}
BothConfigs  == {AutoConfig, PinnedConfig}
SameNet      == {AutoConfig, SlowConfig}
SameNetFiles == {AutoConfig, SlowConfig, Invalid}
AllFiles     == BothConfigs \cup {Invalid, Missing}
=============================================================================
