----------------------------- MODULE MCPidfile -----------------------------
(***************************************************************************)
(* Instances of Pidfile for TLC.                                           *)
(***************************************************************************)
EXTENDS Pidfile, TLC

CONSTANTS p1, p2, p3, b1, b2
=============================================================================
