------------------------------ MODULE MCApply ------------------------------
(***************************************************************************)
(* Instances of Apply for TLC: a fixed Ethernet 1 and a USB Ethernet 2.    *)
(***************************************************************************)
EXTENDS Apply, TLC

\* Automatic selection or pinned to the USB device, on either subnet.
MCConfigs == [iface : {AutoIface, 2}, gw : Nets, retry : {1}]
=============================================================================
