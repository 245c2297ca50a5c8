------------------------------ MODULE Service ------------------------------
(***************************************************************************)
(* What the control of our dnsmasq promises its caller: there is at most   *)
(* one server, a stop leaves none, a reload leaves one that runs with the  *)
(* written file, or says that it did not. Module Host uses dnsmasq this    *)
(* way (DnsmasqReload); module Pidfile shows that the pidfile, the signals *)
(* and the checks of the command line deliver it.                          *)
(***************************************************************************)
CONSTANTS
  Bodies,   \* contents dnsmasq.conf can have
  None

VARIABLES
  server,   \* the configuration the server runs with, or None
  conf,     \* contents of dnsmasq.conf
  req,      \* the request being served: [op, body], or None
  changed,  \* the reload has changed dnsmasq.conf
  phase     \* how far the request is

vars == <<server, conf, req, changed, phase>>

Requests == {[op |-> "stop", body |-> None]} \cup {[op |-> "reload", body |-> b] : b \in Bodies}

Init ==
  /\ server = None
  /\ conf = None
  /\ req = None
  /\ changed = FALSE
  /\ phase = "idle"

Ask(r) ==
  /\ phase = "idle"
  /\ phase' = "asked"
  /\ req' = r
  /\ UNCHANGED <<server, conf, changed>>

\* A stop is served in one step, at the end of which nothing runs.
Stop ==
  /\ phase = "asked"
  /\ req.op = "stop"
  /\ server' = None
  /\ phase' = "served"
  /\ UNCHANGED <<conf, req, changed>>

\* A reload writes the file first, or fails and leaves the server as it is.
Write ==
  /\ phase = "asked"
  /\ req.op = "reload"
  /\ changed' = (conf # req.body)
  /\ conf' = req.body
  /\ phase' = "written"
  /\ UNCHANGED <<server, req>>

WriteFails ==
  /\ phase = "asked"
  /\ req.op = "reload"
  /\ conf' \in {conf, None}
  /\ phase' = "failed"
  /\ UNCHANGED <<server, req, changed>>

\* Only a changed file takes the running server down.
Halt ==
  /\ phase = "written"
  /\ changed
  /\ server' = None
  /\ UNCHANGED <<conf, req, changed, phase>>

\* A server that runs with an unchanged file is kept.
Keep ==
  /\ phase = "written"
  /\ ~changed
  /\ server # None
  /\ phase' = "served"
  /\ UNCHANGED <<server, conf, req, changed>>

\* A server is started where there is none, with the file as written.
Launch ==
  /\ phase = "written"
  /\ server = None
  /\ server' = req.body
  /\ phase' = "served"
  /\ UNCHANGED <<conf, req, changed>>

\* A reload that fails later than that leaves nothing running.
Fail ==
  /\ phase = "written"
  /\ server = None
  /\ phase' = "failed"
  /\ UNCHANGED <<server, conf, req, changed>>

Answer ==
  /\ phase \in {"served", "failed"}
  /\ phase' = "idle"
  /\ req' = None
  /\ UNCHANGED <<server, conf, changed>>

\* The server dies by itself, at any time.
Dies == server # None /\ server' = None /\ UNCHANGED <<conf, req, changed, phase>>

Next ==
  \/ \E r \in Requests : Ask(r)
  \/ Stop \/ Write \/ WriteFails \/ Halt \/ Keep \/ Launch \/ Fail \/ Answer \/ Dies

Spec == Init /\ [][Next]_vars
=============================================================================
