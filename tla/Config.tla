------------------------------- MODULE Config -------------------------------
(***************************************************************************)
(* The configuration file (config/mod.rs) and what becomes of it: defaults *)
(* for what is left out, validate with the lease time and the DNS names,   *)
(* the addresses derived from it, and the dnsmasq.conf rendered from it    *)
(* (dhcp/conf.rs).                                                         *)
(*                                                                         *)
(* A file is a record of fields, Absent where the JSON has none. An        *)
(* address is [net, host]: the first three octets and the last. A name is  *)
(* a sequence of characters, of which the classes matter. A lease time is  *)
(* the number and the unit it is written with.                             *)
(***************************************************************************)
EXTENDS Naturals, Sequences, FiniteSetsExt

CONSTANTS
  Files,         \* what the file can be (Missing included)
  Missing,       \* no file
  Absent,        \* a field the file does not have
  DefaultNet,    \* 192.168.0
  MaxU64,        \* the largest u64
  MaxRecords,    \* MAX_DNS_RECORDS
  MaxName,       \* MAX_DNS_NAME_LEN
  MaxLabel       \* 63

VARIABLES
  file,    \* contents of micronet.json
  config,  \* what load_or_create has returned; Absent before, and when it is an error
  body     \* the rendered dnsmasq.conf; Absent before

vars == <<file, config, body>>

Octet == 0 .. 255

\* The units of a lease time, in seconds.
Unit == [s |-> 1, m |-> 60, h |-> 3600, d |-> 86400, w |-> 604800, none |-> 1]

\* The characters of a name that are told apart: a small letter or digit, a capital, a
\* hyphen, a dot, a blank, and any other.
Chars == {"a", "A", "hyphen", "dot", "blank", "other"}

\* What JSON with fields of these types can hold.
ASSUME ConfigAssumption ==
  /\ MaxU64 \in Nat
  /\ MaxLabel \in Nat
  /\ \A f \in Files \ {Missing} :
       /\ f.ip # Absent => f.ip.host \in Octet
       /\ f.static \in Octet \cup {Absent}
       /\ f.lo \in Octet \cup {Absent}
       /\ f.hi \in Octet \cup {Absent}
       /\ f.sticky # Absent => f.sticky.num \in Nat /\ f.sticky.unit \in DOMAIN Unit
       /\ f.dns # Absent => /\ DOMAIN f.dns.records = 1 .. Len(f.dns.records)
                            /\ Len(f.dns.records) \in Nat
                            /\ \A k \in DOMAIN f.dns.records : f.dns.records[k].name \in Seq(Chars)

-----------------------------------------------------------------------------
(* serde defaults, and the file load_or_create writes.                     *)

Default ==
  [iface   |-> Absent,
   ip      |-> [net |-> DefaultNet, host |-> 1],
   subnet  |-> [net |-> DefaultNet, prefix |-> 24],
   static  |-> 252,
   lo      |-> 50,
   hi      |-> 200,
   sticky  |-> [num |-> 7, unit |-> "d"],
   probe   |-> 5,
   retry   |-> 15,
   dns     |-> [enabled |-> FALSE, records |-> <<>>]]

Fields == DOMAIN Default

\* Mutant: an omitted dns section is taken to be enabled.
ParseDnsOn(f) ==
  [k \in Fields |-> IF f[k] # Absent THEN f[k]
                    ELSE IF k = "dns" THEN [enabled |-> TRUE, records |-> <<>>] ELSE Default[k]]

Parse(f) == [k \in Fields |-> IF f[k] = Absent THEN Default[k] ELSE f[k]]

\* A dns section without content is left out.
Serialize(c) == [c EXCEPT !.dns = IF @ = Default.dns THEN Absent ELSE @]

-----------------------------------------------------------------------------
(* parse_sticky. A number that is no u64 does not parse; a leading "+" is  *)
(* the same number. The result is only checked: the text itself is what    *)
(* render_conf writes, for dnsmasq to read with a width of its own.        *)

\* Mutant: the product wraps around instead of being checked.
ParseStickyWrapping(t) ==
  IF t.num \notin 1 .. MaxU64 THEN Absent ELSE (t.num * Unit[t.unit]) % (MaxU64 + 1)

ParseSticky(t) ==
  IF t.num \notin 1 .. MaxU64 \/ t.num * Unit[t.unit] > MaxU64 THEN Absent
  ELSE t.num * Unit[t.unit]

-----------------------------------------------------------------------------
(* normalize_dns_name.                                                     *)

Lower(c) == IF c = "A" THEN "a" ELSE c

Trim(s) ==
  LET kept == {k \in DOMAIN s : s[k] # "blank"}
  IN  IF kept = {} THEN <<>> ELSE SubSeq(s, Min(kept), Max(kept))

\* trim_end_matches('.').
TrimEndDots(s) ==
  LET kept == {k \in DOMAIN s : s[k] # "dot"}
  IN  IF kept = {} THEN <<>> ELSE SubSeq(s, 1, Max(kept))

\* A label ends at a dot or at the end of the name.
Edge(s, k) == k \in {0, Len(s) + 1} \/ s[k] = "dot"

\* The labels between the dots: not empty, not too long, letters and digits, and hyphens
\* that are neither first nor last.
LabelsOk(s) ==
  /\ \A k \in DOMAIN s : s[k] \in {"a", "A", "hyphen", "dot"}
  /\ \A k \in DOMAIN s : s[k] \in {"dot", "hyphen"} => ~Edge(s, k - 1) /\ ~Edge(s, k + 1)
  /\ \A k \in 0 .. Len(s) - MaxLabel : \E j \in k + 1 .. k + MaxLabel + 1 : Edge(s, j)

\* The normalized name, or Absent for an error.
Normalize(name) ==
  LET s == TrimEndDots(Trim(name))
  IN  IF s = <<>> \/ Len(s) > MaxName \/ ~LabelsOk(s) THEN Absent
      ELSE [k \in DOMAIN s |-> Lower(s[k])]

-----------------------------------------------------------------------------
(* validate.                                                               *)

\* Mutant: names are compared as they are written.
DuplicateNamesAsWritten(records) ==
  \E j, k \in DOMAIN records : j < k /\ records[j].name = records[k].name

DuplicateNames(records) ==
  \E j, k \in DOMAIN records : j < k /\ Normalize(records[j].name) = Normalize(records[k].name)

ValidDns(c) ==
  /\ Len(c.dns.records) <= MaxRecords
  /\ \A k \in DOMAIN c.dns.records : Normalize(c.dns.records[k].name) # Absent
  /\ ~DuplicateNames(c.dns.records)

\* Mutant: the end of the range is taken to be exclusive.
InRangeHalfOpen(c, h) == h >= c.lo /\ h < c.hi

InRange(c, h) == h >= c.lo /\ h <= c.hi

\* "bad" stands for a device name that is empty or holds '/' or NUL.
Valid(c) ==
  /\ c.subnet.prefix = 24
  /\ c.ip.net = c.subnet.net
  /\ c.static # c.ip.host
  /\ c.lo < c.hi
  /\ ~InRange(c, c.static)
  /\ ~InRange(c, c.ip.host)
  /\ ParseSticky(c.sticky) # Absent
  /\ c.probe # 0
  /\ c.retry # 0
  /\ c.iface # "bad"
  /\ ValidDns(c)

-----------------------------------------------------------------------------
(* host_addr, dns_record_ip and render_conf.                               *)

HostAddr(c, h) == [net |-> c.subnet.net, host |-> h]
StaticAddr(c)  == HostAddr(c, c.static)

DnsRecordIp(c, rec) == IF rec.addr = Absent THEN c.ip ELSE rec.addr

\* A record whose name does not normalize is skipped; none is in a valid configuration.
HostRecords(c) ==
  {[name |-> Normalize(c.dns.records[k].name), ip |-> DnsRecordIp(c, c.dns.records[k])]
     : k \in {j \in DOMAIN c.dns.records : Normalize(c.dns.records[j].name) # Absent}}

RenderConf(c) ==
  [listen  |-> c.ip,
   start   |-> HostAddr(c, c.lo),
   end     |-> HostAddr(c, c.hi),
   lease   |-> c.sticky,
   router  |-> c.ip,
   records |-> IF c.dns.enabled THEN HostRecords(c) ELSE {}]

-----------------------------------------------------------------------------
Init ==
  /\ file \in Files
  /\ config = Absent
  /\ body = Absent

\* load_or_create: an invalid file is an error, and there is no configuration.
LoadOrCreate ==
  /\ config = Absent
  /\ IF file = Missing
     THEN config' = Default /\ file' = Serialize(Default)
     ELSE config' = Parse(file) /\ UNCHANGED file
  /\ Valid(config')
  /\ UNCHANGED body

Render ==
  /\ config # Absent
  /\ body = Absent
  /\ body' = RenderConf(config)
  /\ UNCHANGED <<file, config>>

Restart ==
  /\ body # Absent
  /\ config' = Absent
  /\ body' = Absent
  /\ UNCHANGED file

Next == LoadOrCreate \/ Render \/ Restart

Spec == Init /\ [][Next]_vars

-----------------------------------------------------------------------------
(* Properties.                                                             *)

InPool(b, a) == a.net = b.start.net /\ b.start.host <= a.host /\ a.host <= b.end.host

\* The dnsmasq.conf of any accepted file hands out a pool of at least two addresses of the
\* gateway's own /24 and never leases the address of the gateway, which it names as router,
\* or the address the host takes in static mode.
PoolIsOurs ==
  body # Absent =>
    /\ body.start.net = body.listen.net /\ body.end.net = body.listen.net
    /\ body.start.host < body.end.host
    /\ ~InPool(body, body.router)
    /\ ~InPool(body, StaticAddr(config))
    /\ StaticAddr(config) # body.listen

\* The lease time written for dnsmasq, a number and a unit, is one that has been validated: a
\* positive number of seconds, and no product that has overflowed in parse_sticky.
LeaseIsExact ==
  body # Absent =>
    /\ ParseSticky(config.sticky) = body.lease.num * Unit[body.lease.unit]
    /\ ParseSticky(config.sticky) \in 1 .. MaxU64

\* When dns is enabled every record of an accepted file is served, under a name of its own:
\* no record is dropped and no two collapse into one by trimming or lower-casing.
EveryRecordServed ==
  body # Absent /\ config.dns.enabled =>
    /\ Cardinality({r.name : r \in body.records}) = Len(config.dns.records)
    /\ \A r \in body.records : Normalize(r.name) = r.name

\* A restart finds in the file what the program has been using, also when it wrote the file.
FileIsConfig == config # Absent => Parse(file) = config
=============================================================================
