---------------------------- MODULE ConfigProofs ----------------------------
(***************************************************************************)
(* What validate guarantees of the rendered dnsmasq.conf, for any files    *)
(* with octets below 256 and any width of the integers.                    *)
(***************************************************************************)
EXTENDS Config, SequenceTheorems, FiniteSetTheorems, TLAPS

\* The fields that the proofs calculate with.
NumbersOK(c) ==
  /\ c.ip.host \in Octet
  /\ c.static \in Octet
  /\ c.lo \in Octet
  /\ c.hi \in Octet
  /\ c.sticky.num \in Nat
  /\ c.sticky.unit \in DOMAIN Unit

\* The records are a list, and their names are text.
RecordsOK(c) ==
  /\ DOMAIN c.dns.records = 1 .. Len(c.dns.records)
  /\ Len(c.dns.records) \in Nat
  /\ \A k \in DOMAIN c.dns.records : c.dns.records[k].name \in Seq(Chars)

\* A configuration in use has passed validate, is what the file says, and dnsmasq.conf is
\* the rendering of it.
ConfigInv ==
  /\ file \in Files \cup {Serialize(Default)}
  /\ config # Absent => Valid(config) /\ NumbersOK(config) /\ RecordsOK(config)
                      /\ Parse(file) = config
  /\ body # Absent => config # Absent /\ body = RenderConf(config)

\* Every unit is at least a second.
LEMMA UnitsPositive == \A u \in DOMAIN Unit : Unit[u] \in Nat \ {0}
  BY DEF Unit

\* The defaults are numbers of the right kind.
LEMMA DefaultNumbers == NumbersOK(Default) /\ RecordsOK(Default)
  BY DEF NumbersOK, RecordsOK, Default, Octet, Unit

\* So are the fields of any file once the defaults are filled in.
LEMMA ParsedNumbers ==
  ASSUME NEW f \in Files, f # Missing
  PROVE  NumbersOK(Parse(f)) /\ RecordsOK(Parse(f))
  <1>1. /\ f.ip # Absent => f.ip.host \in Octet
        /\ f.static \in Octet \cup {Absent}
        /\ f.lo \in Octet \cup {Absent}
        /\ f.hi \in Octet \cup {Absent}
        /\ f.sticky # Absent => f.sticky.num \in Nat /\ f.sticky.unit \in DOMAIN Unit
        /\ f.dns # Absent => RecordsOK(f)
    BY ConfigAssumption DEF RecordsOK
  <1>2. {"ip", "static", "lo", "hi", "sticky", "dns"} \subseteq Fields
    BY DEF Fields, Default
  <1>3. /\ Parse(f).ip = IF f.ip = Absent THEN Default.ip ELSE f.ip
        /\ Parse(f).static = IF f.static = Absent THEN Default.static ELSE f.static
        /\ Parse(f).lo = IF f.lo = Absent THEN Default.lo ELSE f.lo
        /\ Parse(f).hi = IF f.hi = Absent THEN Default.hi ELSE f.hi
        /\ Parse(f).sticky = IF f.sticky = Absent THEN Default.sticky ELSE f.sticky
        /\ Parse(f).dns = IF f.dns = Absent THEN Default.dns ELSE f.dns
    BY <1>2 DEF Parse
  <1>4. NumbersOK(Parse(f))
    BY <1>1, <1>3, DefaultNumbers DEF NumbersOK
  <1>5. RecordsOK(Parse(f))
    BY <1>1, <1>3, DefaultNumbers DEF RecordsOK
  <1> QED
    BY <1>4, <1>5

\* The file that load_or_create writes reads back as the defaults.
LEMMA DefaultsReadBack == Parse(Serialize(Default)) = Default
  <1>1. ASSUME NEW k \in Fields
        PROVE  Parse(Serialize(Default))[k] = Default[k]
    <2>1. CASE k = "dns"
      BY <1>1, <2>1 DEF Parse, Serialize, Fields, Default
    <2>2. CASE k # "dns"
      BY <1>1, <2>2 DEF Parse, Serialize, Fields, Default
    <2> QED
      BY <2>1, <2>2
  <1>2. DOMAIN Parse(Serialize(Default)) = Fields
    BY DEF Parse
  <1>3. Default = [k \in Fields |-> Default[k]]
    BY DEF Fields, Default
  <1> QED
    BY <1>1, <1>2, <1>3 DEF Parse

\* A run starts without a configuration.
LEMMA InitInv == Init => ConfigInv
  BY DEF Init, ConfigInv

\* Each step keeps the configuration valid and the file and the rendering in line with it.
LEMMA StepInv == ConfigInv /\ [Next]_vars => ConfigInv'
  <1> SUFFICES ASSUME ConfigInv, [Next]_vars PROVE ConfigInv'
    OBVIOUS
  <1>1. CASE LoadOrCreate
    <2>1. body' = Absent
      BY <1>1 DEF ConfigInv, LoadOrCreate
    <2>2. CASE file = Missing
      <3>1. config' = Default /\ file' = Serialize(Default) /\ Valid(config')
        BY <1>1, <2>2 DEF LoadOrCreate
      <3>2. Parse(file') = config'
        BY <3>1, DefaultsReadBack
      <3>3. NumbersOK(config') /\ RecordsOK(config')
        BY <3>1, DefaultNumbers
      <3> QED
        BY <2>1, <3>1, <3>2, <3>3 DEF ConfigInv
    <2>3. CASE file # Missing
      <3>1. config' = Parse(file) /\ file' = file /\ Valid(config')
        BY <1>1, <2>3 DEF LoadOrCreate
      <3>2. NumbersOK(config') /\ RecordsOK(config')
        <4>1. CASE file \in Files
          BY <4>1, <2>3, <3>1, ParsedNumbers
        <4>2. CASE file = Serialize(Default)
          BY <4>2, <3>1, DefaultsReadBack, DefaultNumbers
        <4> QED
          BY <4>1, <4>2 DEF ConfigInv
      <3> QED
        BY <2>1, <3>1, <3>2 DEF ConfigInv
    <2> QED
      BY <2>2, <2>3
  <1>2. CASE Render
    BY <1>2 DEF ConfigInv, Render
  <1>3. CASE Restart
    BY <1>3 DEF ConfigInv, Restart
  <1>4. CASE UNCHANGED vars
    BY <1>4 DEF ConfigInv, vars
  <1> QED
    BY <1>1, <1>2, <1>3, <1>4 DEF Next

\* The configuration in use has passed validate and agrees with the file and the rendering.
THEOREM ConfigInvariant == Spec => []ConfigInv
  BY InitInv, StepInv, PTL DEF Spec

\* dnsmasq leases addresses of the gateway's own /24, and neither the gateway's nor the
\* host's static address, whatever the file says.
THEOREM PoolHolds == Spec => []PoolIsOurs
  <1>1. ConfigInv => PoolIsOurs
    <2> SUFFICES ASSUME ConfigInv, body # Absent PROVE PoolIsOurs
      BY DEF PoolIsOurs
    <2>1. body = RenderConf(config) /\ Valid(config) /\ NumbersOK(config)
      BY DEF ConfigInv
    <2>2. /\ body.start = [net |-> config.subnet.net, host |-> config.lo]
          /\ body.end = [net |-> config.subnet.net, host |-> config.hi]
          /\ body.listen = config.ip /\ body.router = config.ip
          /\ StaticAddr(config) = [net |-> config.subnet.net, host |-> config.static]
      BY <2>1 DEF RenderConf, HostAddr, StaticAddr
    <2>3. /\ config.ip.net = config.subnet.net
          /\ config.static # config.ip.host
          /\ config.lo < config.hi
          /\ ~(config.static >= config.lo /\ config.static <= config.hi)
          /\ ~(config.ip.host >= config.lo /\ config.ip.host <= config.hi)
      BY <2>1 DEF Valid, InRange
    <2>4. /\ config.ip.host \in Nat /\ config.static \in Nat
          /\ config.lo \in Nat /\ config.hi \in Nat
      BY <2>1 DEF NumbersOK, Octet
    <2>5. ~InPool(body, body.router)
      BY <2>2, <2>3, <2>4 DEF InPool
    <2>6. ~InPool(body, StaticAddr(config)) /\ StaticAddr(config) # body.listen
      BY <2>2, <2>3, <2>4 DEF InPool
    <2> QED
      BY <2>2, <2>3, <2>5, <2>6 DEF PoolIsOurs
  <1> QED
    BY <1>1, ConfigInvariant, PTL

\* The lease time that dnsmasq reads is the one validate has computed, within the integer.
THEOREM LeaseHolds == Spec => []LeaseIsExact
  <1>1. ConfigInv => LeaseIsExact
    <2> SUFFICES ASSUME ConfigInv, body # Absent PROVE LeaseIsExact
      BY DEF LeaseIsExact
    <2>1. body = RenderConf(config) /\ Valid(config) /\ NumbersOK(config)
      BY DEF ConfigInv
    <2> DEFINE n == config.sticky.num
               u == Unit[config.sticky.unit]
    <2>2. body.lease = config.sticky
      BY <2>1 DEF RenderConf
    <2>3. n \in Nat /\ u \in Nat \ {0}
      BY <2>1, UnitsPositive DEF NumbersOK
    <2>4. ParseSticky(config.sticky) # Absent
      BY <2>1 DEF Valid
    <2>5. n \in 1 .. MaxU64 /\ ~(n * u > MaxU64) /\ ParseSticky(config.sticky) = n * u
      BY <2>4 DEF ParseSticky
    <2> HIDE DEF n, u
    <2>6. n * u \in Nat \ {0}
      BY <2>3, <2>5, ConfigAssumption
    <2>7. n * u \in 1 .. MaxU64
      BY <2>5, <2>6, ConfigAssumption
    <2> QED
      BY <2>2, <2>5, <2>7 DEF LeaseIsExact, n, u
  <1> QED
    BY <1>1, ConfigInvariant, PTL

\* The program always runs with what the file says, also when it has written the file itself.
THEOREM FileHolds == Spec => []FileIsConfig
  <1>1. ConfigInv => FileIsConfig
    BY DEF ConfigInv, FileIsConfig
  <1> QED
    BY <1>1, ConfigInvariant, PTL
-----------------------------------------------------------------------------
(* The DNS names.                                                          *)

\* A set of positions has a first and a last one.
LEMMA Ends ==
  ASSUME NEW n \in Nat, NEW K \in SUBSET (1 .. n), K # {}
  PROVE  /\ Min(K) \in K /\ \A k \in K : Min(K) <= k
         /\ Max(K) \in K /\ \A k \in K : k <= Max(K)
  <1> DEFINE R == {p \in Nat \X Nat : p[1] < p[2]}
             D == {n - k : k \in K}
  <1>1. IsWellFoundedOn(R, Nat)
    BY NatLessThanWellFounded DEF OpToRel
  <1>2. ASSUME NEW S \in SUBSET Nat, S # {}
        PROVE  \E i \in S : \A j \in S : i <= j
    <2> HIDE DEF R
    <2>1. PICK i \in S : \A j \in S : ~(<<j, i>> \in R)
      BY <1>1, <1>2, WFMin
    <2>2. ASSUME NEW j \in S PROVE i <= j
      <3>1. i \in Nat /\ j \in Nat
        BY <1>2
      <3>2. <<j, i>> \in R <=> j < i
        BY <3>1 DEF R
      <3> QED
        BY <2>1, <3>1, <3>2
    <2> QED
      BY <2>2
  <1>3. \E i \in K : \A j \in K : i <= j
    <2>1. K \in SUBSET Nat
      OBVIOUS
    <2> QED
      BY <1>2, <2>1
  <1>4. \E i \in K : \A j \in K : i >= j
    <2>1. D \in SUBSET Nat /\ D # {}
      <3>1. ASSUME NEW k \in K PROVE n - k \in Nat
        OBVIOUS
      <3>2. PICK k \in K : TRUE
        OBVIOUS
      <3>3. n - k \in D
        BY <3>2
      <3> QED
        BY <3>1, <3>3
    <2>2. PICK d \in D : \A e \in D : d <= e
      BY <1>2, <2>1
    <2>3. PICK i \in K : d = n - i
      BY <2>2
    <2>4. ASSUME NEW j \in K PROVE i >= j
      <3>1. n - i <= n - j
        BY <2>2, <2>3
      <3> QED
        BY <3>1, <2>3
    <2> QED
      BY <2>3, <2>4
  <1>5. Min(K) \in K /\ \A k \in K : Min(K) <= k
    BY <1>3 DEF Min
  <1>6. Max(K) \in K /\ \A k \in K : Max(K) >= k
    BY <1>4 DEF Max
  <1> QED
    BY <1>5, <1>6

\* Trimming a text leaves a text.
LEMMA TrimmedIsText ==
  ASSUME NEW s \in Seq(Chars)
  PROVE  Trim(s) \in Seq(Chars) /\ TrimEndDots(s) \in Seq(Chars)
  <1>1. DOMAIN s = 1 .. Len(s) /\ Len(s) \in Nat /\ \A k \in DOMAIN s : s[k] \in Chars
    OBVIOUS
  <1>2. ASSUME NEW K \in SUBSET (DOMAIN s), K # {}
        PROVE  SubSeq(s, Min(K), Max(K)) \in Seq(Chars) /\ SubSeq(s, 1, Max(K)) \in Seq(Chars)
    <2>1. Min(K) \in 1 .. Len(s) /\ Max(K) \in 1 .. Len(s)
      BY <1>1, <1>2, Ends
    <2>2. \A k \in 1 .. Max(K) : s[k] \in Chars
      BY <1>1, <2>1
    <2>3. \A k \in Min(K) .. Max(K) : s[k] \in Chars
      BY <1>1, <2>1
    <2> QED
      BY <2>1, <2>2, <2>3, SubSeqProperties
  <1>3. Trim(s) \in Seq(Chars)
    <2> DEFINE K == {k \in DOMAIN s : s[k] # "blank"}
    <2>1. K \in SUBSET (DOMAIN s) /\ Trim(s) = IF K = {} THEN <<>> ELSE SubSeq(s, Min(K), Max(K))
      BY DEF Trim
    <2> HIDE DEF K
    <2>2. CASE K = {}
      BY <2>1, <2>2, EmptySeq, Zenon
    <2>3. CASE K # {}
      BY <1>2, <2>1, <2>3, Zenon
    <2> QED
      BY <2>2, <2>3
  <1>4. TrimEndDots(s) \in Seq(Chars)
    <2> DEFINE K == {k \in DOMAIN s : s[k] # "dot"}
    <2>1. K \in SUBSET (DOMAIN s) /\ TrimEndDots(s) = IF K = {} THEN <<>> ELSE SubSeq(s, 1, Max(K))
      BY DEF TrimEndDots
    <2> HIDE DEF K
    <2>2. CASE K = {}
      BY <2>1, <2>2, EmptySeq, Zenon
    <2>3. CASE K # {}
      BY <1>2, <2>1, <2>3, Zenon
    <2> QED
      BY <2>2, <2>3
  <1> QED
    BY <1>3, <1>4

\* Nothing is trimmed off a text without blanks that does not end in a dot.
LEMMA NothingToTrim ==
  ASSUME NEW s \in Seq(Chars), s # <<>>,
         \A k \in DOMAIN s : s[k] # "blank",
         s[Len(s)] # "dot"
  PROVE  TrimEndDots(Trim(s)) = s
  <1>1. DOMAIN s = 1 .. Len(s) /\ Len(s) \in Nat
    BY LenProperties, Zenon
  <1>2. Len(s) \in DOMAIN s /\ 1 \in DOMAIN s
    <2>1. Len(s) \in Nat \ {0}
      BY EmptySeq, Zenon
    <2> QED
      BY <1>1, <2>1
  <1>3. SubSeq(s, 1, Len(s)) = s
    BY SubSeqFull
  <1>4. Trim(s) = s
    <2> DEFINE K == {k \in DOMAIN s : s[k] # "blank"}
    <2>1. Trim(s) = IF K = {} THEN <<>> ELSE SubSeq(s, Min(K), Max(K))
      BY DEF Trim
    <2>2. K = 1 .. Len(s)
      BY <1>1
    <2> HIDE DEF K
    <2>3. /\ Min(K) \in K /\ \A k \in K : Min(K) <= k
          /\ Max(K) \in K /\ \A k \in K : k <= Max(K)
      BY <1>1, <1>2, <2>2, Ends
    <2>4. Min(K) = 1 /\ Max(K) = Len(s)
      BY <1>1, <1>2, <2>2, <2>3
    <2> QED
      BY <1>1, <1>2, <1>3, <2>1, <2>2, <2>4
  <1>5. TrimEndDots(s) = s
    <2> DEFINE K == {k \in DOMAIN s : s[k] # "dot"}
    <2>1. TrimEndDots(s) = IF K = {} THEN <<>> ELSE SubSeq(s, 1, Max(K))
      BY DEF TrimEndDots
    <2>2. K \in SUBSET (1 .. Len(s)) /\ Len(s) \in K
      BY <1>1, <1>2
    <2> HIDE DEF K
    <2>3. Max(K) \in K /\ \A k \in K : k <= Max(K)
      BY <1>1, <2>2, Ends
    <2>4. Max(K) = Len(s)
      <3>1. Max(K) \in 1 .. Len(s) /\ Len(s) <= Max(K)
        BY <2>2, <2>3, Zenon
      <3> QED
        BY <1>1, <3>1
    <2> QED
      BY <1>3, <2>1, <2>2, <2>4
  <1> QED
    BY <1>4, <1>5

\* A normalized name is normalized: what is compared for duplicates, and what dnsmasq reads,
\* is a fixed point of normalize_dns_name.
LEMMA NormalizeTwice ==
  ASSUME NEW name \in Seq(Chars), Normalize(name) # Absent
  PROVE  Normalize(Normalize(name)) = Normalize(name)
  <1> DEFINE s == TrimEndDots(Trim(name))
             t == [k \in DOMAIN s |-> Lower(s[k])]
  <1>1. s \in Seq(Chars)
    BY TrimmedIsText
  <1>2. s # <<>> /\ ~(Len(s) > MaxName) /\ LabelsOk(s) /\ Normalize(name) = t
    BY DEF Normalize
  <1> HIDE DEF s
  <1>3. DOMAIN s = 1 .. Len(s) /\ Len(s) \in Nat \ {0}
    BY <1>1, <1>2
  <1>4. \A k \in DOMAIN s : s[k] \in {"a", "A", "hyphen", "dot"}
    BY <1>2 DEF LabelsOk
  <1>5. \A k \in DOMAIN s : /\ t[k] \in {"a", "hyphen", "dot"}
                            /\ t[k] \in Chars
                            /\ t[k] = "dot" <=> s[k] = "dot"
                            /\ t[k] = "hyphen" <=> s[k] = "hyphen"
                            /\ Lower(t[k]) = t[k]
    <2> SUFFICES ASSUME NEW k \in DOMAIN s
                 PROVE  /\ t[k] \in {"a", "hyphen", "dot"}
                        /\ t[k] \in Chars
                        /\ t[k] = "dot" <=> s[k] = "dot"
                        /\ t[k] = "hyphen" <=> s[k] = "hyphen"
                        /\ Lower(t[k]) = t[k]
      OBVIOUS
    <2>1. t[k] = Lower(s[k]) /\ s[k] \in {"a", "A", "hyphen", "dot"}
      BY <1>4, Zenon
    <2> HIDE DEF t
    <2>2. t[k] \in {"a", "hyphen", "dot"} /\ Lower(t[k]) = t[k]
      BY <2>1 DEF Lower
    <2>3. (t[k] = "dot" <=> s[k] = "dot") /\ (t[k] = "hyphen" <=> s[k] = "hyphen")
      BY <2>1 DEF Lower
    <2>4. t[k] \in Chars
      BY <2>2 DEF Chars
    <2> QED
      BY <2>2, <2>3, <2>4
  <1>6. t \in Seq(Chars) /\ Len(t) = Len(s) /\ DOMAIN t = DOMAIN s
    BY <1>3, <1>5
  <1> HIDE DEF t
  <1>7. s[Len(s)] # "dot"
    <2>1. Len(s) \in DOMAIN s /\ Edge(s, Len(s) + 1)
      BY <1>3 DEF Edge
    <2> QED
      BY <1>2, <2>1 DEF LabelsOk
  <1>8. TrimEndDots(Trim(t)) = t
    <2>1. t # <<>>
      BY <1>3, <1>6, EmptySeq
    <2>2. Len(s) \in DOMAIN s
      BY <1>3
    <2>3. t[Len(t)] # "dot"
      BY <1>5, <1>6, <1>7, <2>2, Zenon
    <2>4. \A k \in DOMAIN t : t[k] # "blank"
      BY <1>5, <1>6
    <2> QED
      BY <1>6, <2>1, <2>3, <2>4, NothingToTrim, Zenon
  <1>9. LabelsOk(t)
    <2>1. ASSUME NEW k \in 0 .. Len(s) + 1 PROVE Edge(t, k) <=> Edge(s, k)
      BY <1>3, <1>5, <1>6 DEF Edge
    <2>2. \A k \in DOMAIN t : t[k] \in {"dot", "hyphen"} => ~Edge(t, k - 1) /\ ~Edge(t, k + 1)
      <3> SUFFICES ASSUME NEW k \in DOMAIN t, t[k] \in {"dot", "hyphen"}
                   PROVE  ~Edge(t, k - 1) /\ ~Edge(t, k + 1)
        OBVIOUS
      <3>1. ~Edge(s, k - 1) /\ ~Edge(s, k + 1)
        BY <1>2, <1>5, <1>6 DEF LabelsOk
      <3>2. k - 1 \in 0 .. Len(s) + 1 /\ k + 1 \in 0 .. Len(s) + 1
        BY <1>3, <1>6
      <3> QED
        BY <2>1, <3>1, <3>2
    <2>3. \A k \in 0 .. Len(t) - MaxLabel : \E j \in k + 1 .. k + MaxLabel + 1 : Edge(t, j)
      <3> SUFFICES ASSUME NEW k \in 0 .. Len(t) - MaxLabel
                   PROVE  \E j \in k + 1 .. k + MaxLabel + 1 : Edge(t, j)
        OBVIOUS
      <3>1. PICK j \in k + 1 .. k + MaxLabel + 1 : Edge(s, j)
        BY <1>2, <1>6 DEF LabelsOk
      <3>2. j \in 0 .. Len(s) + 1
        BY <1>3, <1>6, ConfigAssumption
      <3> QED
        BY <2>1, <3>1, <3>2
    <2>4. \A k \in DOMAIN t : t[k] \in {"a", "A", "hyphen", "dot"}
      BY <1>5, <1>6
    <2> QED
      BY <2>2, <2>3, <2>4 DEF LabelsOk
  <1>10. [k \in DOMAIN t |-> Lower(t[k])] = t
    BY <1>5, <1>6
  <1>11. t # <<>> /\ ~(Len(t) > MaxName)
    BY <1>2, <1>3, <1>6
  <1> QED
    BY <1>2, <1>8, <1>9, <1>10, <1>11 DEF Normalize

\* With dns enabled, every record of an accepted file is served, under a normalized name of
\* its own.
THEOREM RecordsHold == Spec => []EveryRecordServed
  <1>1. ConfigInv => EveryRecordServed
    <2> SUFFICES ASSUME ConfigInv, body # Absent, config.dns.enabled PROVE EveryRecordServed
      BY DEF EveryRecordServed
    <2> DEFINE recs == config.dns.records
               n    == Len(recs)
               N    == [k \in 1 .. n |-> Normalize(recs[k].name)]
    <2>1. body = RenderConf(config) /\ ValidDns(config) /\ RecordsOK(config)
      BY DEF ConfigInv, Valid
    <2>2. n \in Nat /\ DOMAIN recs = 1 .. n /\ \A k \in 1 .. n : recs[k].name \in Seq(Chars)
      BY <2>1 DEF RecordsOK
    <2>3. \A k \in 1 .. n : Normalize(recs[k].name) # Absent
      BY <2>1, <2>2 DEF ValidDns
    <2>4. \A j, k \in 1 .. n : j # k => N[j] # N[k]
      <3>1. \A j, k \in 1 .. n : j < k => N[j] # N[k]
        BY <2>1, <2>2 DEF ValidDns, DuplicateNames
      <3> HIDE DEF N, n
      <3>2. \A j, k \in 1 .. n : j # k => j < k \/ k < j
        BY <2>2
      <3> QED
        BY <3>1, <3>2, Zenon
    <2>5. body.records = {[name |-> N[k], ip |-> DnsRecordIp(config, recs[k])] : k \in 1 .. n}
      BY <2>1, <2>2, <2>3 DEF RenderConf, HostRecords
    <2> HIDE DEF N
    <2>6. {r.name : r \in body.records} = {N[k] : k \in 1 .. n}
      <3> DEFINE Rec(k) == [name |-> N[k], ip |-> DnsRecordIp(config, recs[k])]
      <3>1. \A k \in 1 .. n : Rec(k).name = N[k]
        OBVIOUS
      <3>2. body.records = {Rec(k) : k \in 1 .. n}
        BY <2>5
      <3> HIDE DEF Rec
      <3> QED
        BY <3>1, <3>2
    <2>7. Cardinality({r.name : r \in body.records}) = n
      <3> DEFINE T == {N[k] : k \in 1 .. n}
      <3>1. N \in [1 .. n -> T]
        BY DEF N
      <3>2. N \in Bijection(1 .. n, T)
        BY <2>4, <3>1 DEF Bijection, Injection, Surjection, IsInjective
      <3>3. ExistsBijection(1 .. n, T)
        BY <3>2 DEF ExistsBijection
      <3> QED
        BY <2>2, <2>6, <3>3, FS_CountingElements
    <2>8. ASSUME NEW r \in body.records PROVE Normalize(r.name) = r.name
      <3>1. PICK k \in 1 .. n : r = [name |-> N[k], ip |-> DnsRecordIp(config, recs[k])]
        BY <2>5
      <3>2. r.name = Normalize(recs[k].name)
        BY <3>1 DEF N
      <3> QED
        BY <2>2, <2>3, <3>2, NormalizeTwice
    <2> QED
      BY <2>7, <2>8 DEF EveryRecordServed
  <1> QED
    BY <1>1, ConfigInvariant, PTL
=============================================================================
