------------------------------- MODULE Probe -------------------------------
(***************************************************************************)
(* The DHCP probe (net/probe.rs): one DISCOVER on one device, then a       *)
(* receive loop that looks for an OFFER answering it until the deadline.   *)
(* Probes follow each other on the devices of the host. The segments lose, *)
(* delay, duplicate and reorder packets and carry the traffic of others;   *)
(* servers come and go.                                                    *)
(*                                                                         *)
(* Times count down: left is what remains of probeTimeoutSecs, wait what   *)
(* remains of the receive timeout of the socket.                           *)
(***************************************************************************)
EXTENDS Naturals, Sequences, FiniteSets

CONSTANTS
  Devs,          \* network devices
  Address,       \* sysfs `address` of each device: its parts between the colons
  Octets,        \* the parts that read as a hexadecimal u8
  Xids,          \* transaction identifiers
  Strays,        \* packets of others that come to the DHCP client port
  Timeout,       \* probeTimeoutSecs, in units of the receive timeout
  BufferSize,    \* bound: packets the socket's receive buffer holds
  MaxInFlight,   \* bound: packets on the segments
  None

VARIABLES
  pc,        \* next step of the probe; "idle" when there is none
  dev,       \* the device probed
  xid,       \* the identifier of the DISCOVER
  bound,     \* the device the socket receives from; None while it is not bound
  queue,     \* packets in the socket's receive buffer
  left,      \* until the deadline
  wait,      \* until recv_from times out
  sent,      \* the DISCOVER is on the wire
  result,    \* once pc = "done": TRUE and FALSE for Ok, None for Err
  servers,   \* the devices whose segment has a foreign DHCP server
  inFlight,  \* packets on the segments
  answered,  \* history: a server has answered this DISCOVER
  turns      \* history: the recv_from calls the loop has yet to begin to come to the first
             \* OFFER for it that reached the host in time; None while there is no such OFFER

probeVars == <<pc, dev, xid, bound, queue, left, wait, sent, result>>
netVars   == <<servers, inFlight>>
ghostVars == <<answered, turns>>
vars      == <<probeVars, netVars, ghostVars>>

\* chaddr is that of a device of ours, or None for another station. flaw is the first check
\* of decode_matching_offer, besides xid and chaddr, that the packet fails: it does not
\* decode, is no BootReply, or not of Ethernet, or its hlen is not 6 ("frame"), or it is a
\* message of another type ("type"). id is what offer_identity finds in it.
Packets == [dev : Devs, xid : Xids, chaddr : Devs \cup {None}, flaw : {None, "frame", "type"},
            id : {"serverId", "source", None}]

\* A stray is broken or of another type, or an OFFER to another station.
ASSUME ProbeAssumption ==
  /\ Strays \subseteq {p \in Packets : p.flaw # None \/ p.chaddr = None}
  /\ None \notin Devs \cup Xids \cup {"serverId", "source", "frame", "type"}
  /\ None \notin BOOLEAN
  /\ None \notin Nat
  /\ Timeout \in Nat \ {0}
  /\ BufferSize \in Nat \ {0}
  /\ MaxInFlight \in Nat

TypeOK ==
  /\ pc \in {"idle", "device", "bind", "send", "loop", "recv", "done"}
  /\ dev \in Devs \cup {None}
  /\ xid \in Xids \cup {None}
  /\ bound \in Devs \cup {None}
  /\ queue \in Seq(Packets)
  /\ left \in 0 .. Timeout
  /\ wait \in 0 .. 1
  /\ servers \in SUBSET Devs
  /\ inFlight \in SUBSET Packets
  /\ turns \in 0 .. BufferSize \cup {None}

-----------------------------------------------------------------------------
(* What the probe makes of a packet.                                       *)

\* Mutant: a reply to any DISCOVER of this device will do.
DecodeAnyXid(p) == p.flaw = None /\ p.chaddr = dev

DecodeMatchingOffer(p) == p.flaw = None /\ p.xid = xid /\ p.chaddr = dev

\* Option 54, or else a source address that is not 0.0.0.0.
OfferIdentity(p) == p.id

IsForeign(p) == DecodeMatchingOffer(p) /\ OfferIdentity(p) # None

ParseMac(parts) ==
  IF Len(parts) = 6 /\ \A k \in 1 .. 6 : parts[k] \in Octets THEN parts ELSE None

-----------------------------------------------------------------------------
(* probe_foreign_dhcp.                                                     *)

\* Mutant: the DISCOVER leaves before the socket can receive.
AfterSendingFirst(p) == CASE p = "device" -> "send" [] p = "send" -> "bind" [] p = "bind" -> "loop"

\* SO_BINDTODEVICE, bind, send_to, and the loop.
After(p) == CASE p = "device" -> "bind" [] p = "bind" -> "send" [] p = "send" -> "loop"

\* The return drops the socket and what is left in its buffer stays unread.
Return(r) ==
  /\ pc' = "done"
  /\ result' = r
  /\ bound' = None

\* read_mac, then xid_now: no packet still under way carries the number of nanoseconds.
ProbeForeignDhcp(d) ==
  /\ pc = "idle"
  /\ dev' = d
  /\ xid' \in Xids \ {p.xid : p \in inFlight}
  /\ queue' = <<>>
  /\ left' = Timeout
  /\ sent' = FALSE
  /\ answered' = FALSE
  /\ turns' = None
  /\ IF ParseMac(Address[d]) = None
     THEN Return(None)
     ELSE pc' = "device" /\ UNCHANGED <<bound, result>>
  /\ UNCHANGED <<wait, netVars>>

\* Opening the socket and any of its options can fail: the probe is an error.
SocketFails ==
  /\ pc \in {"device", "bind", "send", "recv"}
  /\ Return(None)
  /\ UNCHANGED <<dev, xid, queue, left, wait, sent, netVars, ghostVars>>

BindDevice ==
  /\ pc = "device"
  /\ pc' = After(pc)
  /\ UNCHANGED <<dev, xid, bound, queue, left, wait, sent, result, netVars, ghostVars>>

Bind ==
  /\ pc = "bind"
  /\ bound' = dev
  /\ pc' = After(pc)
  /\ UNCHANGED <<dev, xid, queue, left, wait, sent, result, netVars, ghostVars>>

\* Mutant: the deadline allows for one more receive timeout.
DeadlineWithSlack == Timeout + 1

Deadline == Timeout

\* The deadline counts from here.
Send ==
  /\ pc = "send"
  /\ sent' = TRUE
  /\ left' = Deadline
  /\ pc' = After(pc)
  /\ UNCHANGED <<dev, xid, bound, queue, wait, result, netVars, ghostVars>>

\* Mutant: the deadline is looked at only when there is nothing to read.
ExpiredWhenQuiet == left = 0 /\ queue = <<>>

Expired == left = 0

CheckDeadline ==
  /\ pc = "loop"
  /\ IF Expired
     THEN Return(FALSE) /\ UNCHANGED <<wait, turns>>
     ELSE /\ pc' = "recv"
          /\ wait' = 1
          /\ turns' = IF turns \in {None, 0} THEN turns ELSE turns - 1
          /\ UNCHANGED <<bound, result>>
  /\ UNCHANGED <<dev, xid, queue, left, sent, netVars, answered>>

Recv ==
  /\ pc = "recv"
  /\ queue # <<>>
  /\ queue' = Tail(queue)
  /\ IF IsForeign(Head(queue))
     THEN Return(TRUE)
     ELSE pc' = "loop" /\ UNCHANGED <<bound, result>>
  /\ UNCHANGED <<dev, xid, left, wait, sent, netVars, ghostVars>>

\* Mutant: the first receive timeout ends the probe.
RecvTimeoutGivesUp ==
  /\ pc = "recv"
  /\ queue = <<>>
  /\ wait = 0
  /\ Return(FALSE)
  /\ UNCHANGED <<dev, xid, queue, left, wait, sent, netVars, ghostVars>>

\* WouldBlock or TimedOut.
RecvTimeout ==
  /\ pc = "recv"
  /\ queue = <<>>
  /\ wait = 0
  /\ pc' = "loop"
  /\ UNCHANGED <<dev, xid, bound, queue, left, wait, sent, result, netVars, ghostVars>>

\* The caller takes the result.
Taken ==
  /\ pc = "done"
  /\ pc' = "idle"
  /\ dev' = None
  /\ xid' = None
  /\ result' = None
  /\ queue' = <<>>
  /\ sent' = FALSE
  /\ UNCHANGED <<bound, left, wait, netVars, ghostVars>>

-----------------------------------------------------------------------------
(* The clock and the segments.                                             *)

Clock ==
  /\ left > 0 \/ wait > 0
  /\ left' = IF left > 0 THEN left - 1 ELSE 0
  /\ wait' = 0
  /\ UNCHANGED <<pc, dev, xid, bound, queue, sent, result, netVars, ghostVars>>

Answer(id) ==
  /\ sent
  /\ dev \in servers
  /\ Cardinality(inFlight) < MaxInFlight
  /\ inFlight' = inFlight \cup
       {[dev |-> dev, xid |-> xid, chaddr |-> dev, flaw |-> None, id |-> id]}
  /\ answered' = TRUE
  /\ UNCHANGED <<probeVars, servers, turns>>

Traffic(p) ==
  /\ Cardinality(inFlight) < MaxInFlight
  /\ inFlight' = inFlight \cup {p}
  /\ UNCHANGED <<probeVars, servers, ghostVars>>

\* Before the deadline, or during the last recv_from.
InTime == left > 0 \/ pc = "recv"

\* A packet reaches the host, once or (kept) again later, and the socket if it is bound to
\* the device and has room; otherwise nobody gets it.
Deliver(p) ==
  /\ inFlight' \in {inFlight, inFlight \ {p}}
  /\ IF bound = p.dev /\ Len(queue) < BufferSize
     THEN queue' = Append(queue, p)
     ELSE UNCHANGED queue
  /\ turns' = IF /\ turns = None /\ pc # "idle" /\ InTime
                 /\ IsForeign(p) /\ p.dev = dev /\ Len(queue) < BufferSize
              THEN IF pc = "recv" THEN Len(queue) ELSE Len(queue) + 1
              ELSE turns
  /\ UNCHANGED <<pc, dev, xid, bound, left, wait, sent, result, servers, answered>>

Lose(p) ==
  /\ inFlight' = inFlight \ {p}
  /\ UNCHANGED <<probeVars, servers, ghostVars>>

ServerToggles(d) ==
  /\ servers' = IF d \in servers THEN servers \ {d} ELSE servers \cup {d}
  /\ UNCHANGED <<probeVars, inFlight, ghostVars>>

-----------------------------------------------------------------------------
Init ==
  /\ pc = "idle"
  /\ dev = None
  /\ xid = None
  /\ bound = None
  /\ queue = <<>>
  /\ left = 0
  /\ wait = 0
  /\ sent = FALSE
  /\ result = None
  /\ servers \in SUBSET Devs
  /\ inFlight = {}
  /\ answered = FALSE
  /\ turns = None

\* The steps of the probe once it is called.
Prober ==
  BindDevice \/ Bind \/ Send \/ CheckDeadline \/ Recv \/ RecvTimeout

Segments ==
  \/ \E id \in {"serverId", "source", None} : Answer(id)
  \/ \E p \in Strays : Traffic(p)
  \/ \E p \in inFlight : Deliver(p) \/ Lose(p)
  \/ \E d \in Devs : ServerToggles(d)

Next ==
  \/ \E d \in Devs : ProbeForeignDhcp(d)
  \/ Prober \/ SocketFails \/ Taken
  \/ Clock \/ Segments

Spec == Init /\ [][Next]_vars

\* The thread is scheduled and time passes; nothing is assumed of the segments.
FairSpec == Spec /\ WF_vars(Prober) /\ WF_vars(Clock)

-----------------------------------------------------------------------------
\* Client mode is chosen only for a server that has answered this very DISCOVER: no OFFER
\* to another station, to an earlier probe of this or another device, and no broken packet
\* is taken for one.
OfferAnswersUs == pc = "done" /\ result = TRUE => answered

\* An identifiable OFFER that reaches the host in time is overlooked only when the time runs
\* out before the loop gets to it: a probe says there is no server, although one such OFFER
\* came before its deadline or into its last recv_from, only with the deadline behind it and
\* fewer recv_from calls begun, the one under way when the OFFER came included, than the
\* OFFER was deep in the buffer.
NothingOverlooked ==
  pc = "done" /\ result = FALSE /\ turns # None => left = 0 /\ turns > 0

\* The probe ends, also under a stream of packets that never stops.
ProbeEnds == (pc # "idle") ~> (pc \in {"done", "idle"})
=============================================================================
