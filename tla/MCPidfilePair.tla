--------------------------- MODULE MCPidfilePair ---------------------------
(***************************************************************************)
(* Instances of PidfilePair for TLC.                                       *)
(***************************************************************************)
EXTENDS PidfilePair, TLC

CONSTANTS p1, p2, b1
=============================================================================
