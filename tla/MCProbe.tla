------------------------------ MODULE MCProbe ------------------------------
(***************************************************************************)
(* Two devices on segments with or without a server, and a third whose     *)
(* address is not one of six octets.                                       *)
(***************************************************************************)
EXTENDS Probe

CONSTANTS d1, d2, d3, x1, x2

AddressOf ==
  [d \in {d1, d2, d3} |-> IF d = d3 THEN <<"00", "00">> ELSE <<"02", "00", "00", "00", "00", "0a">>]

\* On the first segment: a broken copy of an answer, and an OFFER to another station.
StrayPackets ==
  {[dev |-> d1, xid |-> x1, chaddr |-> d1, flaw |-> "type", id |-> "serverId"],
   [dev |-> d1, xid |-> x1, chaddr |-> None, flaw |-> None, id |-> "serverId"]}
=============================================================================
