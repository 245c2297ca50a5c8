------------------------------ MODULE Control ------------------------------
(***************************************************************************)
(* The control socket (ipc/mod.rs, ipc/protocol.rs) and the commands that  *)
(* use it (main.rs, check_liveness): a server that answers one request per *)
(* connection and has room for a number of them, a channel from it to the  *)
(* daemon's loop, and clients that turn what they get into an exit code,   *)
(* while the daemon starts, stops and dies.                                *)
(*                                                                         *)
(* A "raw" client is any other program on the socket: it may stay          *)
(* connected without asking, ask for anything, and leave. `micronet info`  *)
(* prints what it knows itself and does not use the socket.                *)
(***************************************************************************)
EXTENDS Naturals, FiniteSets

CONSTANTS
  Clients,      \* processes that run a command
  MaxClients,   \* MAX_IPC_CLIENTS
  MaxEvents,    \* bound: events in the channel
  None

VARIABLES
  daemon,   \* "dead", "serving", or, on its way out, "leaving": the loop is left; "unlinked":
            \* the socket file is removed; "ending": run has returned
  healthy,  \* shared.health
  events,   \* events in the channel
  st,       \* where each client is
  cmd,      \* its command
  resp,     \* what ipc::call has returned, or will return
  seen,     \* history: what the daemon has been since the command began (Conditions)
  queued    \* history: the clients whose event was put before a loop that takes events

daemonVars == <<daemon, healthy, events>>
clientVars == <<st, cmd, resp, seen, queued>>
vars       == <<daemonVars, clientVars>>

CmdNames  == {"status", "check", "reconfigure", "raw"}
Places    == {"idle", "connect", "session", "asked", "queued", "done"}
Responses == {"healthy", "unhealthy", "info", "ok", "error", "unreachable", "closed"}

ASSUME ControlAssumption ==
  /\ MaxClients \in Nat \ {0}
  /\ MaxEvents \in Nat
  /\ None \notin CmdNames \cup Responses

TypeOK ==
  /\ daemon \in {"dead", "serving", "leaving", "unlinked", "ending"}
  /\ healthy \in BOOLEAN
  /\ events \in 0 .. MaxEvents
  /\ st \in [Clients -> Places]
  /\ cmd \in [Clients -> CmdNames \cup {None}]
  /\ resp \in [Clients -> Responses \cup {None}]
  /\ \A c \in Clients : st[c] # "idle" => cmd[c] # None
  /\ \A c \in Clients : st[c] = "done" => resp[c] # None
  /\ daemon \in {"dead", "ending"} => events = 0

-----------------------------------------------------------------------------
(* The server.                                                             *)

\* The socket is there from ipc::serve to remove_file.
Listening == daemon \in {"serving", "leaving"}

\* "ok" or "bad", as the health of a daemon that listens, and "away" while no loop runs.
Conditions ==
  {h \in {"ok", "bad"} : Listening /\ (h = "ok" <=> healthy)}
    \cup {a \in {"away"} : daemon # "serving"}

\* Every command in progress witnesses what becomes of the daemon.
Noticed == seen' = [c \in Clients |-> IF st[c] = "idle" THEN {} ELSE seen[c] \cup Conditions']

InSession == {c \in Clients : st[c] \in {"session", "asked", "queued"}}

\* StatusCmd, InfoCmd and ReconfigureCmd; MicronetHooks answers anything else with an error.
Replies(c) ==
  LET status == IF healthy THEN "healthy" ELSE "unhealthy"
  IN  CASE cmd[c] \in {"status", "check"} -> {status}
        [] cmd[c] = "reconfigure" -> {"ok"}
        [] cmd[c] = "raw" -> {status, "info", "error"}

Ends(c, r) == st' = [st EXCEPT ![c] = "done"] /\ resp' = [resp EXCEPT ![c] = r]
Moves(c, p) == st' = [st EXCEPT ![c] = p] /\ UNCHANGED resp

\* Mutant: the event is never sent.
SendNothing == FALSE

\* Mutant: the channel outlives the loop that reads it.
SendAfterEnd == daemon # "dead"

\* events.send fails once run has returned and dropped its end, and nobody looks. Before
\* that, with the loop left, it works and nobody takes the event.
SendWorks == daemon \in {"serving", "leaving", "unlinked"}

\* ReconfigureCmd: the event first, the answer after it.
Enqueue(c) ==
  /\ st[c] = "asked"
  /\ cmd[c] = "reconfigure"
  /\ SendWorks => events < MaxEvents
  /\ events' = IF SendWorks THEN events + 1 ELSE events
  /\ queued' = IF SendWorks /\ daemon = "serving" THEN queued \cup {c} ELSE queued
  /\ Moves(c, "queued")
  /\ UNCHANGED <<daemon, healthy, cmd, seen>>

Answer(c) ==
  /\ IF cmd[c] = "reconfigure" THEN st[c] = "queued" ELSE st[c] = "asked"
  /\ \E r \in Replies(c) : Ends(c, r)
  /\ UNCHANGED <<daemonVars, cmd, seen, queued>>

-----------------------------------------------------------------------------
(* ipc::call and the exit code of dispatch.                                *)

Run(c, k) ==
  /\ st[c] = "idle"
  /\ cmd' = [cmd EXCEPT ![c] = k]
  /\ seen' = [seen EXCEPT ![c] = Conditions]
  /\ Moves(c, "connect")
  /\ UNCHANGED <<daemonVars, queued>>

\* Mutant: a client that finds no room waits for it.
ConnectWaits(c) ==
  /\ st[c] = "connect"
  /\ IF ~Listening THEN Ends(c, "unreachable")
     ELSE Cardinality(InSession) < MaxClients /\ Moves(c, "session")
  /\ UNCHANGED <<daemonVars, cmd, seen, queued>>

\* There is no socket before serve binds it and after run removes it. Beyond MaxClients
\* (RejectReason::Busy) the connection is closed without an answer.
Connect(c) ==
  /\ st[c] = "connect"
  /\ IF ~Listening THEN Ends(c, "unreachable")
     ELSE IF Cardinality(InSession) < MaxClients THEN Moves(c, "session")
     ELSE Ends(c, "closed")
  /\ UNCHANGED <<daemonVars, cmd, seen, queued>>

Ask(c) ==
  /\ st[c] = "session"
  /\ Moves(c, "asked")
  /\ UNCHANGED <<daemonVars, cmd, seen, queued>>

\* Only a raw client stays as long as it likes, or goes without an answer.
HangUp(c) ==
  /\ st[c] = "session"
  /\ cmd[c] = "raw"
  /\ Ends(c, "closed")
  /\ UNCHANGED <<daemonVars, cmd, seen, queued>>

Exited(c) ==
  /\ st[c] = "done"
  /\ st' = [st EXCEPT ![c] = "idle"]
  /\ cmd' = [cmd EXCEPT ![c] = None]
  /\ resp' = [resp EXCEPT ![c] = None]
  /\ seen' = [seen EXCEPT ![c] = {}]
  /\ queued' = queued \ {c}
  /\ UNCHANGED daemonVars

\* Mutant: a daemon that cannot be reached passes for a healthy one.
SuccessUnreachable(c) == resp[c] \in {"healthy", "info", "ok", "error", "unreachable"}

\* check_liveness of the daemon's own check: only a status that says healthy will do.
CheckLiveness(c) == resp[c] = "healthy"

\* ExitCode::SUCCESS: reconfigure wants anything but an error, and status prints whatever
\* it gets.
Success(c) ==
  CASE cmd[c] = "check" -> CheckLiveness(c)
    [] cmd[c] = "reconfigure" -> resp[c] \notin {"error", "unreachable", "closed"}
    [] OTHER -> resp[c] \notin {"unreachable", "closed"}

-----------------------------------------------------------------------------
(* The daemon.                                                             *)

Serve ==
  /\ daemon = "dead"
  /\ daemon' = "serving"
  /\ healthy' = TRUE
  /\ UNCHANGED <<events, st, cmd, resp, queued>>
  /\ Noticed

\* The loop is left; then the socket file is removed; then run returns and drops ev_rx.
\* Sessions go on meanwhile, and until the file is gone new ones are accepted.
Stops ==
  /\ daemon = "serving"
  /\ daemon' = "leaving"
  /\ UNCHANGED <<healthy, events, st, cmd, resp, queued>>
  /\ Noticed

RemovesSocket ==
  /\ daemon = "leaving"
  /\ daemon' = "unlinked"
  /\ UNCHANGED <<healthy, events, st, cmd, resp, queued>>
  /\ Noticed

RunReturns ==
  /\ daemon = "unlinked"
  /\ daemon' = "ending"
  /\ events' = 0
  /\ UNCHANGED <<healthy, st, cmd, resp, queued>>
  /\ Noticed

\* The process ends, of itself or not: open connections are closed.
Dies ==
  /\ daemon # "dead"
  /\ daemon' = "dead"
  /\ events' = 0
  /\ st' = [c \in Clients |-> IF c \in InSession THEN "done" ELSE st[c]]
  /\ resp' = [c \in Clients |-> IF c \in InSession THEN "closed" ELSE resp[c]]
  /\ UNCHANGED <<healthy, cmd, queued>>
  /\ Noticed

HealthFlips ==
  /\ daemon = "serving"
  /\ healthy' = ~healthy
  /\ UNCHANGED <<daemon, events, st, cmd, resp, queued>>
  /\ Noticed

\* recv_timeout in the loop.
TakeEvent ==
  /\ daemon = "serving"
  /\ events > 0
  /\ events' = events - 1
  /\ UNCHANGED <<daemon, healthy, clientVars>>

-----------------------------------------------------------------------------
Init ==
  /\ daemon = "dead"
  /\ healthy = TRUE
  /\ events = 0
  /\ st = [c \in Clients |-> "idle"]
  /\ cmd = [c \in Clients |-> None]
  /\ resp = [c \in Clients |-> None]
  /\ seen = [c \in Clients |-> {}]
  /\ queued = {}

\* What a client does without waiting for anybody, and what the server does for it.
Proceeds(c) ==
  Connect(c) \/ (Ask(c) /\ cmd[c] # "raw") \/ Enqueue(c) \/ Answer(c)

Next ==
  \/ \E c \in Clients :
       \/ \E k \in CmdNames : Run(c, k)
       \/ Connect(c) \/ Ask(c) \/ Enqueue(c) \/ Answer(c) \/ HangUp(c) \/ Exited(c)
  \/ Serve \/ Stops \/ RemovesSocket \/ RunReturns \/ Dies \/ HealthFlips \/ TakeEvent

Spec == Init /\ [][Next]_vars

\* Clients, server and the daemon's thread are scheduled, which takes events or, once it has
\* left the loop, returns; a raw client may do nothing for ever.
FairSpec ==
  /\ Spec
  /\ \A c \in Clients : WF_vars(Proceeds(c))
  /\ WF_vars(TakeEvent \/ RemovesSocket \/ RunReturns)

-----------------------------------------------------------------------------
Exits(c, k) == st[c] = "done" /\ cmd[c] = k

\* `micronet check` succeeds only if the daemon listened and was healthy at some moment while
\* it ran, however the check crosses a stop, a crash, a restart or a change of health.
CheckIsTruthful == \A c \in Clients : Exits(c, "check") /\ Success(c) => "ok" \in seen[c]

\* A `micronet reconfigure` that succeeds has put its event before a loop that takes events,
\* healthy or not, unless the daemon was starting, on its way out or gone meanwhile.
ReconfigureIsHonest ==
  \A c \in Clients : Exits(c, "reconfigure") /\ Success(c) => c \in queued \/ "away" \in seen[c]

\* Every command comes to an exit code, also with all places taken by clients that never ask.
CommandsReturn ==
  \A c \in Clients : (st[c] = "connect") ~> (st[c] = "done" \/ cmd[c] = "raw")
=============================================================================
