---------------------------- MODULE ProbeProofs ----------------------------
(***************************************************************************)
(* Theorems about Probe, for any devices and identifiers, any strays, any  *)
(* timeout and any room in the buffer and on the segments.                 *)
(***************************************************************************)
EXTENDS Probe, SequenceTheorems, TLAPS

-----------------------------------------------------------------------------
(* The inductive invariant.                                                *)

\* What holds at each step of the probe: there is a device and an identifier while there is
\* a probe, the socket is bound from the second option to the return, and a DISCOVER is
\* answered only once it is sent.
PlaceInv ==
  /\ pc = "idle" => dev = None /\ xid = None
  /\ pc # "idle" => dev \in Devs /\ xid \in Xids
  /\ pc \in {"idle", "done"} => bound = None
  /\ pc \in {"send", "loop", "recv"} => bound = dev
  /\ sent => pc \in {"loop", "recv", "done"}
  /\ answered /\ pc # "idle" => sent

\* Only a server that has answered can have an OFFER for us under way or in the buffer.
OfferInv ==
  /\ \A p \in inFlight : IsForeign(p) => answered
  /\ \A k \in DOMAIN queue : IsForeign(queue[k]) => answered
  /\ pc = "done" /\ result = TRUE => answered

\* One of the first n packets in the buffer is an OFFER for us.
OfferWithin(n) == \E k \in DOMAIN queue : k <= n /\ IsForeign(queue[k])

\* The packets that turns covers: the recv_from under way reads one more.
Reach == IF pc = "recv" THEN turns + 1 ELSE turns

\* The probe has returned, and says there is no server.
SaysNone == pc = "done" /\ result = FALSE

\* An OFFER that has reached the host in time stays in the buffer until it is found, no
\* deeper than the calls that are left to come to it.
ArrivedInv ==
  /\ turns # None /\ pc \notin {"idle", "done"} => OfferWithin(Reach)
  /\ SaysNone => left = 0 /\ (turns # None => turns > 0)

ProbeInv ==
  /\ PlaceInv
  /\ OfferInv
  /\ ArrivedInv

-----------------------------------------------------------------------------
(* Types.                                                                  *)

\* Every step of the probe, the clock and the segments keeps the types.
LEMMA StepKeepsType == TypeOK /\ PlaceInv /\ [Next]_vars => TypeOK'
<1> SUFFICES ASSUME TypeOK, PlaceInv, [Next]_vars PROVE TypeOK'
  OBVIOUS
<1> USE ProbeAssumption
<1>1. ASSUME NEW d \in Devs, ProbeForeignDhcp(d) PROVE TypeOK'
  BY <1>1 DEF TypeOK, ProbeForeignDhcp, Return, netVars, ghostVars
<1>2. CASE BindDevice
  BY <1>2 DEF TypeOK, BindDevice, After, netVars, ghostVars
<1>3. CASE Bind
  BY <1>3 DEF TypeOK, Bind, After, netVars, ghostVars
<1>4. CASE Send
  BY <1>4 DEF TypeOK, Send, After, Deadline, netVars, ghostVars
<1>5. CASE CheckDeadline
  BY <1>5 DEF TypeOK, CheckDeadline, Return, netVars, ghostVars
<1>6. CASE Recv
  <2>1. Tail(queue) \in Seq(Packets)
    BY <1>6 DEF Recv, TypeOK
  <2> QED
    BY <1>6, <2>1 DEF TypeOK, Recv, Return, netVars, ghostVars
<1>7. CASE RecvTimeout
  BY <1>7 DEF TypeOK, RecvTimeout, netVars, ghostVars
<1>8. CASE SocketFails
  BY <1>8 DEF TypeOK, SocketFails, Return, netVars, ghostVars
<1>9. CASE Taken
  BY <1>9 DEF TypeOK, Taken, netVars, ghostVars
<1>10. CASE Clock
  BY <1>10 DEF TypeOK, Clock, netVars, ghostVars
<1>11. ASSUME NEW id \in {"serverId", "source", None}, Answer(id) PROVE TypeOK'
  <2>1. dev \in Devs /\ xid \in Xids
    BY <1>11 DEF Answer, PlaceInv
  <2>2. [dev |-> dev, xid |-> xid, chaddr |-> dev, flaw |-> None, id |-> id] \in Packets
    BY <2>1 DEF Packets
  <2> QED
    BY <1>11, <2>2 DEF TypeOK, Answer, probeVars, ghostVars
<1>12. ASSUME NEW p \in Strays, Traffic(p) PROVE TypeOK'
  BY <1>12 DEF TypeOK, Traffic, probeVars, ghostVars
<1>13. ASSUME NEW p \in inFlight, Deliver(p) PROVE TypeOK'
  <2>1. Append(queue, p) \in Seq(Packets)
    BY DEF TypeOK
  <2>2. Len(queue) \in Nat
    BY DEF TypeOK
  <2>3. turns' \in 0 .. BufferSize \cup {None}
    BY <1>13, <2>2 DEF TypeOK, Deliver
  <2> QED
    BY <1>13, <2>1, <2>3 DEF TypeOK, Deliver
<1>14. ASSUME NEW p \in inFlight, Lose(p) PROVE TypeOK'
  BY <1>14 DEF TypeOK, Lose, probeVars, ghostVars
<1>15. ASSUME NEW d \in Devs, ServerToggles(d) PROVE TypeOK'
  BY <1>15 DEF TypeOK, ServerToggles, probeVars, ghostVars
<1>16. CASE UNCHANGED vars
  BY <1>16 DEF TypeOK, vars, probeVars, netVars, ghostVars
<1> QED
  BY <1>1, <1>2, <1>3, <1>4, <1>5, <1>6, <1>7, <1>8, <1>9, <1>10, <1>11, <1>12, <1>13, <1>14,
     <1>15, <1>16 DEF Next, Prober, Segments

\* So do they keep the device, the socket and the DISCOVER in step with the probe.
LEMMA StepKeepsPlace == TypeOK /\ PlaceInv /\ [Next]_vars => PlaceInv'
<1> SUFFICES ASSUME TypeOK, PlaceInv, [Next]_vars PROVE PlaceInv'
  OBVIOUS
<1> USE ProbeAssumption
<1>1. ASSUME NEW d \in Devs, ProbeForeignDhcp(d) PROVE PlaceInv'
  BY <1>1 DEF PlaceInv, ProbeForeignDhcp, Return
<1>2. CASE BindDevice
  BY <1>2 DEF PlaceInv, BindDevice, After, ghostVars
<1>3. CASE Bind
  BY <1>3 DEF PlaceInv, Bind, After, ghostVars
<1>4. CASE Send
  BY <1>4 DEF PlaceInv, Send, After, ghostVars
<1>5. CASE CheckDeadline
  BY <1>5 DEF PlaceInv, CheckDeadline, Return, ghostVars
<1>6. CASE Recv
  BY <1>6 DEF PlaceInv, Recv, Return, ghostVars
<1>7. CASE RecvTimeout
  BY <1>7 DEF PlaceInv, RecvTimeout, ghostVars
<1>8. CASE SocketFails
  BY <1>8 DEF PlaceInv, SocketFails, Return, ghostVars
<1>9. CASE Taken
  BY <1>9 DEF PlaceInv, Taken
<1>10. CASE Clock
  BY <1>10 DEF PlaceInv, Clock, ghostVars
<1>11. CASE \E id \in {"serverId", "source", None} : Answer(id)
  BY <1>11 DEF PlaceInv, Answer, probeVars
<1>12. CASE \E p \in Strays : Traffic(p)
  BY <1>12 DEF PlaceInv, Traffic, probeVars, ghostVars
<1>13. CASE \E p \in inFlight : Deliver(p)
  BY <1>13 DEF PlaceInv, Deliver
<1>14. CASE \E p \in inFlight : Lose(p)
  BY <1>14 DEF PlaceInv, Lose, probeVars, ghostVars
<1>15. CASE \E d \in Devs : ServerToggles(d)
  BY <1>15 DEF PlaceInv, ServerToggles, probeVars, ghostVars
<1>16. CASE UNCHANGED vars
  BY <1>16 DEF PlaceInv, vars, probeVars, ghostVars
<1> QED
  BY <1>1, <1>2, <1>3, <1>4, <1>5, <1>6, <1>7, <1>8, <1>9, <1>10, <1>11, <1>12, <1>13, <1>14,
     <1>15, <1>16 DEF Next, Prober, Segments

\* Before the first probe there is no device, no socket and no DISCOVER.
LEMMA InitPlace == Init => TypeOK /\ PlaceInv
BY ProbeAssumption DEF Init, TypeOK, PlaceInv

\* The types and the place hold together: an answer is typed because there is a device.
LEMMA PlaceInvariant == Spec => [](TypeOK /\ PlaceInv)
BY InitPlace, StepKeepsType, StepKeepsPlace, PTL DEF Spec

\* The probe, its socket and the segments keep the types of their state.
THEOREM TypeCorrect == Spec => []TypeOK
BY PlaceInvariant, PTL

-----------------------------------------------------------------------------
(* OFFERs on their way.                                                    *)

\* A packet of somebody else is never taken for an answer to us.
LEMMA StraysAreNotForeign ==
  ASSUME PlaceInv, NEW p \in Strays PROVE ~IsForeign(p)
<1>1. p \in Packets /\ (p.flaw # None \/ p.chaddr = None)
  BY ProbeAssumption
<1>2. CASE pc = "idle"
  BY <1>1, <1>2, ProbeAssumption DEF PlaceInv, Packets, IsForeign, DecodeMatchingOffer
<1>3. CASE pc # "idle"
  BY <1>1, <1>3, ProbeAssumption DEF PlaceInv, IsForeign, DecodeMatchingOffer
<1> QED
  BY <1>2, <1>3

\* A step that goes on with the same DISCOVER, takes nothing from the buffer and adds no OFFER
\* to the segments makes none up.
LEMMA OffersKept ==
  ASSUME OfferInv, UNCHANGED <<dev, xid, queue>>,
         answered => answered',
         \A p \in inFlight' : p \in inFlight \/ ~IsForeign(p) \/ answered',
         pc' = "done" /\ result' = TRUE => pc = "done" /\ result = TRUE
  PROVE  OfferInv'
<1>1. ASSUME NEW p \in inFlight', IsForeign(p)' PROVE answered'
  BY <1>1 DEF OfferInv, IsForeign, DecodeMatchingOffer, OfferIdentity
<1>2. ASSUME NEW k \in DOMAIN queue', IsForeign(queue[k])' PROVE answered'
  BY <1>2 DEF OfferInv, IsForeign, DecodeMatchingOffer, OfferIdentity
<1>3. ASSUME pc' = "done", result' = TRUE PROVE answered'
  BY <1>3 DEF OfferInv
<1> QED
  BY <1>1, <1>2, <1>3 DEF OfferInv

\* It keeps the OFFERs that are there, too, unless it says there is no server, which it may
\* between two calls of recv_from with the time over.
LEMMA QuietStepKeepsInv ==
  ASSUME TypeOK, ProbeInv, UNCHANGED <<dev, xid, queue, turns>>,
         answered => answered',
         \A p \in inFlight' : p \in inFlight \/ ~IsForeign(p) \/ answered',
         pc' \notin {"idle", "done"} => /\ pc \notin {"idle", "done"}
                                        /\ pc' = "recv" <=> pc = "recv",
         pc' = "done" => \/ pc = "done" /\ result' = result
                         \/ result' = None
                         \/ result' = FALSE /\ pc = "loop" /\ left' = 0,
         SaysNone => left' = 0
  PROVE  (OfferInv /\ ArrivedInv)'
<1>1. None # TRUE /\ None # FALSE
  BY ProbeAssumption
<1>2. OfferInv'
  BY <1>1, OffersKept DEF ProbeInv
<1>3. ASSUME turns' # None, pc' \notin {"idle", "done"} PROVE OfferWithin(Reach)'
  <2>1. OfferWithin(Reach) /\ Reach' = Reach
    BY <1>3 DEF ProbeInv, ArrivedInv, Reach
  <2> QED
    BY <2>1 DEF OfferWithin, IsForeign, DecodeMatchingOffer, OfferIdentity
<1>4. ASSUME SaysNone' PROVE left' = 0 /\ (turns' # None => turns' > 0)
  <2>1. CASE SaysNone
    BY <2>1 DEF ProbeInv, ArrivedInv
  <2>2. CASE pc = "loop" /\ left' = 0
    <3> SUFFICES ASSUME turns # None PROVE turns > 0
      BY <2>2
    <3>1. PICK k \in DOMAIN queue : k <= turns
      BY <2>2 DEF ProbeInv, ArrivedInv, OfferWithin, Reach
    <3>2. k \in Nat \ {0} /\ turns \in Nat
      BY ProbeAssumption DEF TypeOK
    <3> QED
      BY <3>1, <3>2
  <2> QED
    BY <1>1, <1>4, <2>1, <2>2 DEF SaysNone
<1> QED
  BY <1>2, <1>3, <1>4 DEF ArrivedInv

\* No step of the probe, the clock or the segments makes up or overlooks an OFFER.
LEMMA StepKeepsInv == TypeOK /\ ProbeInv /\ [Next]_vars => ProbeInv'
<1> SUFFICES ASSUME TypeOK, ProbeInv, [Next]_vars PROVE ProbeInv'
  OBVIOUS
<1>0. PlaceInv /\ PlaceInv' /\ TypeOK'
  BY StepKeepsPlace, StepKeepsType DEF ProbeInv
<1>a. SUFFICES (OfferInv /\ ArrivedInv)'
  BY <1>0 DEF ProbeInv
<1>1. ASSUME NEW d \in Devs, ProbeForeignDhcp(d)
      PROVE  (OfferInv /\ ArrivedInv)'
  <2>1. /\ xid' \in Xids \ {p.xid : p \in inFlight}
        /\ queue' = <<>>
        /\ answered' = FALSE /\ turns' = None
        /\ pc' = "done" => result' = None
        /\ inFlight' = inFlight
    BY <1>1 DEF ProbeForeignDhcp, Return, netVars
  <2>2. \A p \in inFlight' : ~IsForeign(p)'
    <3>1. \A p \in inFlight : p.xid # xid'
      BY <2>1
    <3> QED
      BY <2>1, <3>1 DEF IsForeign, DecodeMatchingOffer
  <2>3. ~(pc' = "done" /\ result' = TRUE) /\ ~SaysNone'
    BY <2>1, ProbeAssumption DEF SaysNone
  <2>4. DOMAIN queue' = {}
    BY <2>1
  <2>5. OfferInv'
    BY <2>2, <2>3, <2>4 DEF OfferInv
  <2>6. ArrivedInv'
    BY <2>1, <2>3 DEF ArrivedInv
  <2> QED
    BY <2>5, <2>6
<1>2. CASE BindDevice
  BY <1>2, QuietStepKeepsInv DEF BindDevice, After, netVars, ghostVars, SaysNone
<1>3. CASE Bind
  BY <1>3, QuietStepKeepsInv DEF Bind, After, netVars, ghostVars, SaysNone
<1>4. CASE Send
  BY <1>4, QuietStepKeepsInv DEF Send, After, netVars, ghostVars, SaysNone
<1>5. CASE CheckDeadline
  <2>1. CASE Expired
    BY <1>5, <2>1, QuietStepKeepsInv
       DEF CheckDeadline, Expired, Return, netVars, ghostVars, SaysNone
  <2>2. CASE ~Expired
    <3>1. /\ UNCHANGED <<dev, xid, queue, inFlight, answered>>
          /\ pc = "loop" /\ pc' = "recv"
          /\ turns' = IF turns \in {None, 0} THEN turns ELSE turns - 1
      BY <1>5, <2>2 DEF CheckDeadline, netVars
    <3>2. OfferInv'
      BY <3>1, OffersKept DEF ProbeInv
    <3>3. ASSUME turns' # None PROVE OfferWithin(Reach)'
      <4>1. turns # None
        BY <3>1, <3>3
      <4>2. PICK k \in DOMAIN queue : k <= turns /\ IsForeign(queue[k])
        BY <3>1, <4>1 DEF ProbeInv, ArrivedInv, OfferWithin, Reach
      <4>3. k \in Nat \ {0} /\ turns \in Nat
        BY <4>1, ProbeAssumption DEF TypeOK
      <4>4. Reach' = turns
        BY <3>1, <4>1, <4>2, <4>3 DEF Reach
      <4> QED
        BY <3>1, <4>2, <4>4 DEF OfferWithin, IsForeign, DecodeMatchingOffer, OfferIdentity
    <3> QED
      BY <3>1, <3>2, <3>3 DEF ArrivedInv, SaysNone
  <2> QED
    BY <2>1, <2>2
<1>6. CASE Recv
  <2>1. queue \in Seq(Packets) /\ queue # <<>> /\ queue' = Tail(queue)
    BY <1>6 DEF Recv, TypeOK
  <2>2. /\ UNCHANGED <<dev, xid, inFlight, answered, turns>>
        /\ pc = "recv"
        /\ IsForeign(queue[1]) => pc' = "done" /\ result' = TRUE
        /\ ~IsForeign(queue[1]) => pc' = "loop"
    BY <1>6, <2>1 DEF Recv, Return, netVars, ghostVars
  <2>3. /\ DOMAIN queue' = 1 .. (Len(queue) - 1)
        /\ \A k \in DOMAIN queue' : k + 1 \in DOMAIN queue /\ queue'[k] = queue[k + 1]
        /\ 1 \in DOMAIN queue
        /\ \A k \in DOMAIN queue : k # 1 => k - 1 \in DOMAIN queue' /\ queue'[k - 1] = queue[k]
    BY <2>1
  <2>4. \A k \in DOMAIN queue' : IsForeign(queue[k])' <=> IsForeign(queue[k + 1])
    BY <2>2, <2>3 DEF IsForeign, DecodeMatchingOffer, OfferIdentity
  <2>5. OfferInv'
    <3>1. ASSUME NEW p \in inFlight', IsForeign(p)' PROVE answered'
      BY <2>2, <3>1 DEF ProbeInv, OfferInv, IsForeign, DecodeMatchingOffer, OfferIdentity
    <3>2. ASSUME NEW k \in DOMAIN queue', IsForeign(queue[k])' PROVE answered'
      BY <2>2, <2>3, <2>4, <3>2 DEF ProbeInv, OfferInv
    <3>3. pc' = "done" => answered'
      BY <2>2, <2>3 DEF ProbeInv, OfferInv
    <3> QED
      BY <3>1, <3>2, <3>3 DEF OfferInv
  <2>6. CASE ~IsForeign(queue[1])
    <3>1. ASSUME turns' # None PROVE OfferWithin(Reach)'
      <4>1. PICK k \in DOMAIN queue : k <= turns + 1 /\ IsForeign(queue[k])
        BY <2>2, <3>1 DEF ProbeInv, ArrivedInv, OfferWithin, Reach
      <4>2. k \in Nat /\ k # 1 /\ k - 1 \in DOMAIN queue' /\ turns \in Nat
        BY <2>1, <2>2, <2>3, <2>6, <3>1, <4>1, ProbeAssumption DEF TypeOK
      <4>3. queue[(k - 1) + 1] = queue[k]
        BY <4>2
      <4>4. IsForeign(queue[k - 1])'
        BY <2>4, <4>1, <4>2, <4>3
      <4>5. k - 1 <= turns /\ Reach' = turns
        BY <2>2, <2>6, <4>1, <4>2 DEF Reach
      <4> QED
        BY <4>2, <4>4, <4>5 DEF OfferWithin
    <3>2. ArrivedInv'
      BY <2>2, <2>6, <3>1 DEF ArrivedInv, SaysNone
    <3> QED
      BY <2>5, <3>2
  <2>7. CASE IsForeign(queue[1])
    BY <2>2, <2>5, <2>7 DEF ArrivedInv, SaysNone
  <2> QED
    BY <2>6, <2>7
<1>7. CASE RecvTimeout
  <2>1. /\ UNCHANGED <<dev, xid, queue, inFlight, answered, turns>>
        /\ pc = "recv" /\ pc' = "loop" /\ DOMAIN queue = {}
    BY <1>7 DEF RecvTimeout, netVars, ghostVars
  <2>2. OfferInv'
    BY <2>1, OffersKept DEF ProbeInv
  <2>3. turns' = None
    BY <2>1 DEF ProbeInv, ArrivedInv, OfferWithin
  <2> QED
    BY <2>1, <2>2, <2>3 DEF ArrivedInv, SaysNone
<1>8. CASE SocketFails
  BY <1>8, QuietStepKeepsInv DEF SocketFails, Return, netVars, ghostVars, SaysNone
<1>9. CASE Taken
  <2>1. pc' = "idle" /\ xid' = None /\ queue' = <<>> /\ inFlight' = inFlight
    BY <1>9 DEF Taken, netVars
  <2>2. \A p \in inFlight' : ~IsForeign(p)'
    BY <2>1, ProbeAssumption DEF IsForeign, DecodeMatchingOffer, TypeOK, Packets
  <2> QED
    BY <2>1, <2>2 DEF OfferInv, ArrivedInv, SaysNone
<1>10. CASE Clock
  <2>1. SaysNone => left' = 0
    BY <1>10 DEF Clock, ProbeInv, ArrivedInv
  <2> QED
    BY <1>10, <2>1, QuietStepKeepsInv DEF Clock, netVars, ghostVars
<1>11. ASSUME NEW id \in {"serverId", "source", None}, Answer(id)
       PROVE  (OfferInv /\ ArrivedInv)'
  <2>1. SaysNone => left' = 0
    BY <1>11 DEF Answer, ProbeInv, ArrivedInv, probeVars
  <2> QED
    BY <1>11, <2>1, QuietStepKeepsInv DEF Answer, probeVars
<1>12. ASSUME NEW p \in Strays, Traffic(p)
       PROVE  (OfferInv /\ ArrivedInv)'
  <2>1. ~IsForeign(p)
    BY <1>0, StraysAreNotForeign
  <2>2. SaysNone => left' = 0
    BY <1>12 DEF Traffic, ProbeInv, ArrivedInv, probeVars
  <2> QED
    BY <1>12, <2>1, <2>2, QuietStepKeepsInv DEF Traffic, probeVars, ghostVars
<1>13. ASSUME NEW p \in inFlight, Deliver(p)
       PROVE  (OfferInv /\ ArrivedInv)'
  <2>1. /\ UNCHANGED <<dev, xid, pc, bound, result, left, answered>>
        /\ inFlight' \subseteq inFlight
        /\ p \in Packets /\ queue \in Seq(Packets)
    BY <1>13 DEF Deliver, TypeOK
  <2>2. CASE UNCHANGED <<queue, turns>>
    BY <2>1, <2>2, QuietStepKeepsInv DEF SaysNone, ProbeInv, ArrivedInv
  <2>3. CASE queue' = Append(queue, p) /\ bound = p.dev
    <3>0. PICK n \in Nat : n = Len(queue)
      BY <2>1
    <3>1. /\ DOMAIN queue' = 1 .. (n + 1)
          /\ DOMAIN queue = 1 .. n
          /\ \A k \in DOMAIN queue : queue'[k] = queue[k]
          /\ queue'[n + 1] = p
      BY <2>1, <2>3, <3>0
    <3>2. \A k \in DOMAIN queue : IsForeign(queue[k])' <=> IsForeign(queue[k])
      BY <2>1, <3>1 DEF IsForeign, DecodeMatchingOffer, OfferIdentity
    <3>3. IsForeign(queue[n + 1])' <=> IsForeign(p)
      BY <2>1, <2>3, <3>1 DEF IsForeign, DecodeMatchingOffer, OfferIdentity
    <3>4. OfferInv'
      <4>1. ASSUME NEW q \in inFlight', IsForeign(q)' PROVE answered'
        BY <2>1, <4>1 DEF ProbeInv, OfferInv, IsForeign, DecodeMatchingOffer, OfferIdentity
      <4>2. ASSUME NEW k \in DOMAIN queue', IsForeign(queue[k])' PROVE answered'
        <5>1. CASE k \in DOMAIN queue
          BY <2>1, <3>2, <4>2, <5>1 DEF ProbeInv, OfferInv
        <5>2. CASE k = n + 1
          BY <2>1, <3>3, <4>2, <5>2 DEF ProbeInv, OfferInv
        <5> QED
          BY <3>1, <5>1, <5>2
      <4>3. pc' = "done" /\ result' = TRUE => answered'
        BY <2>1 DEF ProbeInv, OfferInv
      <4> QED
        BY <4>1, <4>2, <4>3 DEF OfferInv
    <3>5. ASSUME turns' # None, pc' \notin {"idle", "done"} PROVE OfferWithin(Reach)'
      <4>1. CASE turns # None
        <5>1. turns' = turns /\ Reach' = Reach
          BY <1>13, <2>1, <4>1 DEF Deliver, Reach
        <5>2. PICK k \in DOMAIN queue : k <= Reach /\ IsForeign(queue[k])
          BY <2>1, <3>5, <4>1 DEF ProbeInv, ArrivedInv, OfferWithin
        <5>3. k \in DOMAIN queue' /\ IsForeign(queue[k])'
          BY <3>1, <3>2, <5>2
        <5> QED
          BY <5>1, <5>2, <5>3 DEF OfferWithin
      <4>2. CASE turns = None
        <5>1. /\ IsForeign(p)
              /\ turns' = IF pc = "recv" THEN n ELSE n + 1
          BY <1>13, <3>0, <3>5, <4>2 DEF Deliver
        <5>2. Reach' = n + 1
          BY <2>1, <5>1 DEF Reach
        <5>3. n + 1 \in DOMAIN queue' /\ IsForeign(queue[n + 1])'
          BY <3>1, <3>3, <5>1
        <5> QED
          BY <5>2, <5>3 DEF OfferWithin
      <4> QED
        BY <4>1, <4>2
    <3>6. SaysNone => UNCHANGED turns
      BY <1>13 DEF Deliver, InTime, SaysNone, ProbeInv, ArrivedInv
    <3>7. ArrivedInv'
      BY <2>1, <3>5, <3>6 DEF ArrivedInv, SaysNone, ProbeInv
    <3> QED
      BY <3>4, <3>7
  <2>4. ASSUME ~(queue' = Append(queue, p) /\ bound = p.dev), pc \notin {"done"}
        PROVE  UNCHANGED <<queue, turns>>
    <3>1. UNCHANGED queue /\ ~(bound = p.dev /\ Len(queue) < BufferSize)
      BY <1>13, <2>4 DEF Deliver
    <3>2. ASSUME IsForeign(p), pc # "idle" PROVE bound = dev
      <4>1. answered
        BY <3>2 DEF ProbeInv, OfferInv
      <4> QED
        BY <1>0, <2>4, <3>2, <4>1 DEF PlaceInv
    <3>3. ~(pc # "idle" /\ IsForeign(p) /\ Len(queue) < BufferSize /\ p.dev = dev)
      BY <3>1, <3>2
    <3> QED
      BY <1>13, <3>1, <3>3 DEF Deliver
  <2>5. CASE pc = "done"
    <3>1. UNCHANGED queue
      BY <1>0, <1>13, <2>1, <2>5, ProbeAssumption DEF Deliver, PlaceInv, Packets
    <3>2. OfferInv'
      BY <2>1, <3>1, OffersKept DEF ProbeInv
    <3>3. SaysNone => UNCHANGED turns
      BY <1>13 DEF Deliver, InTime, SaysNone, ProbeInv, ArrivedInv
    <3>4. ArrivedInv'
      BY <2>1, <2>5, <3>3 DEF ArrivedInv, SaysNone, ProbeInv
    <3> QED
      BY <3>2, <3>4
  <2> QED
    BY <2>2, <2>3, <2>4, <2>5
<1>14. ASSUME NEW p \in inFlight, Lose(p)
       PROVE  (OfferInv /\ ArrivedInv)'
  <2>1. SaysNone => left' = 0
    BY <1>14 DEF Lose, ProbeInv, ArrivedInv, probeVars
  <2> QED
    BY <1>14, <2>1, QuietStepKeepsInv DEF Lose, probeVars, ghostVars
<1>15. ASSUME NEW d \in Devs, ServerToggles(d)
       PROVE  (OfferInv /\ ArrivedInv)'
  <2>1. SaysNone => left' = 0
    BY <1>15 DEF ServerToggles, ProbeInv, ArrivedInv, probeVars
  <2> QED
    BY <1>15, <2>1, QuietStepKeepsInv DEF ServerToggles, probeVars, ghostVars
<1>16. CASE UNCHANGED vars
  <2>1. SaysNone => left' = 0
    BY <1>16 DEF vars, ProbeInv, ArrivedInv, probeVars
  <2> QED
    BY <1>16, <2>1, QuietStepKeepsInv DEF vars, probeVars, netVars, ghostVars
<1> QED
  BY <1>1, <1>2, <1>3, <1>4, <1>5, <1>6, <1>7, <1>8, <1>9, <1>10, <1>11, <1>12, <1>13, <1>14,
     <1>15, <1>16 DEF Next, Prober, Segments

\* What the verdict of a probe rests on holds always.
THEOREM ProbeInvariant == Spec => []ProbeInv
<1>1. Init => ProbeInv
  <2> SUFFICES ASSUME Init PROVE ProbeInv
    OBVIOUS
  <2>1. PlaceInv
    BY InitPlace
  <2>2. pc = "idle" /\ inFlight = {} /\ queue = <<>> /\ turns = None
    BY DEF Init
  <2> QED
    BY <2>1, <2>2 DEF ProbeInv, OfferInv, ArrivedInv, SaysNone
<1> QED
  BY <1>1, TypeCorrect, StepKeepsInv, PTL DEF Spec

\* Client mode only for a server that has answered this DISCOVER, whatever the segments
\* lose, repeat, delay and reorder, and whatever others send.
THEOREM OffersAnswerUs == Spec => []OfferAnswersUs
<1>1. ProbeInv => OfferAnswersUs
  BY DEF ProbeInv, OfferInv, OfferAnswersUs
<1> QED
  BY <1>1, ProbeInvariant, PTL

\* An OFFER that arrives in time is found, behind any number of other packets, unless the
\* time runs out before the loop has made the calls it takes to come to it.
THEOREM NothingIsOverlooked == Spec => []NothingOverlooked
<1>1. ProbeInv => NothingOverlooked
  BY DEF ProbeInv, ArrivedInv, SaysNone, NothingOverlooked
<1> QED
  BY <1>1, ProbeInvariant, PTL
=============================================================================
