---------------------------- MODULE MCConcurrent ----------------------------
(***************************************************************************)
(* Instances of Concurrent for TLC.                                        *)
(***************************************************************************)
EXTENDS Concurrent, TLC

CONSTANTS n1

AutoConfig == [iface |-> AutoIface, gw |-> n1, retry |-> 1]
OneConfig  == {AutoConfig}
=============================================================================
