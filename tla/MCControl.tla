----------------------------- MODULE MCControl -----------------------------
(***************************************************************************)
(* Instances of Control for TLC.                                           *)
(***************************************************************************)
EXTENDS Control, TLC

CONSTANTS c1, c2
=============================================================================
