------------------------------ MODULE MCConfig ------------------------------
(***************************************************************************)
(* Files for TLC: every combination of octets around the defaults and the  *)
(* ends of the range of a u8, lease times around the largest product that  *)
(* fits, and all short names over the classes of characters.               *)
(***************************************************************************)
EXTENDS Config, TLC

CONSTANTS n0, n1

Empty  == [k \in Fields |-> Absent]
Octets == {Absent, 0, 1, 50, 51, 200, 201, 252, 255}

AddressFiles ==
  {[Empty EXCEPT !.ip = i, !.static = s, !.lo = l, !.hi = h] :
     i \in {Absent} \cup [net : {n0, n1}, host : {0, 50, 200, 252, 255}],
     s \in Octets, l \in Octets, h \in Octets}

SubnetFiles ==
  {[Empty EXCEPT !.subnet = n, !.ip = i, !.probe = p, !.retry = r, !.iface = d] :
     n \in [net : {n0, n1}, prefix : {16, 24}],
     i \in {Absent} \cup [net : {n0, n1}, host : {1}],
     p \in {Absent, 0, 1}, r \in {Absent, 0, 1}, d \in {Absent, "auto", "eth0", "bad"}}

Stickies ==
  [num : {0, 1, 2, 8, 9, 194, 195}, unit : DOMAIN Unit]
  \cup [num : {11666, 11667}, unit : {"m"}]
  \cup [num : {700000, 700001}, unit : {"s", "none"}]

StickyFiles == {[Empty EXCEPT !.sticky = t] : t \in Stickies}

Names(n) == UNION {[1 .. k -> Chars] : k \in 0 .. n}
Record(name) == [name |-> name, addr |-> Absent]

DnsFiles ==
  {[Empty EXCEPT !.dns = [enabled |-> e, records |-> <<Record(a)>>]] : e \in BOOLEAN, a \in Names(4)}
  \cup {[Empty EXCEPT !.dns = [enabled |-> TRUE, records |-> <<Record(a), Record(b)>>]]
          : a \in Names(2), b \in Names(2)}
  \cup {[Empty EXCEPT !.dns = [enabled |-> TRUE,
                               records |-> <<Record(<<"a">>), Record(<<"a", "a">>),
                                             Record(<<"a", "dot", "a">>)>>]]}

AllFiles == {Missing} \cup AddressFiles \cup SubnetFiles \cup StickyFiles \cup DnsFiles
=============================================================================
