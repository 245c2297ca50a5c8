----------------------------- MODULE Concurrent -----------------------------
(***************************************************************************)
(* The daemon beside the other processes of main.rs: `micronet apply` and  *)
(* `teardown`, a second `micronet serve`, and `configure-ethernet check`.  *)
(* Nothing keeps them apart: a command works on the same interfaces,       *)
(* pidfiles and dnsmasq.conf, with a call of its own, while the daemon     *)
(* applies, heals and watches. One command runs at a time.                 *)
(*                                                                         *)
(* A command is a disturbance of the daemon and counts as one.             *)
(***************************************************************************)
EXTENDS Daemon

CONSTANTS
  Commands   \* the commands that are run: of "apply", "teardown", "serve", "check"

VARIABLES
  cmd,       \* the command in progress, or None
  pc2, op2, job2, sel2, out2,  \* its call
  clear,     \* history: during the daemon's call the command has left the host alone
  clear2     \* history: and the daemon during the command's

Cmd == INSTANCE Apply WITH pc <- pc2, op <- op2, job <- job2, sel <- sel2, out <- out2

cmdVars  == <<cmd, pc2, op2, job2, sel2, out2>>
concVars == <<vars, cmdVars, clear, clear2>>

ASSUME ConcurrentAssumption == Commands \subseteq {"apply", "teardown", "serve", "check"}

\* The control socket answers.
Listening == loop \in {"watch"} \cup Looping

-----------------------------------------------------------------------------
(* The command.                                                            *)

\* apply_once and teardown load the file, serve creates a missing one, and check asks the
\* socket first. An invalid file is an error before anything is done.
Invoke(c) ==
  /\ cmd = None
  /\ file # Invalid
  /\ c = "check" => ~Listening
  /\ cmd' = c
  /\ Cmd!Begin(IF c = "teardown" THEN c ELSE "apply", Load(file))
  /\ file' = IF c = "serve" THEN Load(file) ELSE file
  /\ dirty' = (dirty \/ (file' # file /\ loop \in Looping))
  /\ clear2' = TRUE
  /\ Disturb
  /\ UNCHANGED <<hostVars, callVars, loop, sharedVars, linkState, event, events, signals, stop,
                 missed, probeFailed, clear>>

\* A step of the command's call; legacy_iface_up needs only its resolve_iface.
CommandRuns ==
  /\ cmd = "check" => pc2 \in {"resolve", "waitCarrier"}
  /\ Cmd!CallStep
  /\ clear' = (clear /\ (pc = "idle" \/ UNCHANGED hostVars))
  /\ UNCHANGED <<cmd, callVars, daemonVars, clear2>>

CommandGone == cmd' = None /\ Cmd!NoCall

\* The second serve finds the socket taken by a daemon that listens, and exits.
CommandExits ==
  /\ \/ cmd \in {"apply", "teardown"} /\ pc2 = "done"
     \/ cmd = "serve" /\ pc2 = "done" /\ Listening
     \/ cmd = "check" /\ pc2 \in {"isolate", "done"}
  /\ CommandGone
  /\ UNCHANGED <<vars, clear, clear2>>

CommandKilled ==
  /\ cmd # None
  /\ pc2 # "done"
  /\ CommandGone
  /\ Disturb
  /\ UNCHANGED <<hostVars, callVars, loop, sharedVars, linkState, inboxVars, fileVars,
                 probeFailed, clear, clear2>>

\* Nobody listens: the second serve is the daemon from here on. The first, if it is still
\* in its initial apply, will be the one that is refused; with that behind it, it is now.
TakesOver ==
  /\ cmd = "serve"
  /\ pc2 = "done"
  /\ ~Listening
  /\ loop' = "watch"
  /\ config' = job2
  /\ status' = IF out2 = None THEN EmptyStatus ELSE out2
  /\ missed' = (job2 # Load(file))
  /\ NoCall
  /\ IF loop = "start"
     THEN pc2' = pc /\ op2' = op /\ job2' = job /\ sel2' = sel /\ out2' = out /\ UNCHANGED cmd
     ELSE CommandGone
  /\ clear2' = clear
  /\ UNCHANGED <<hostVars, health, linkState, inboxVars, file, ghostVars, clear>>

-----------------------------------------------------------------------------
(* The daemon.                                                             *)

DaemonRuns ==
  /\ Thread
  /\ clear' = (pc = "idle" \/ clear)
  /\ clear2' = (clear2 /\ UNCHANGED hostVars)
  /\ UNCHANGED cmdVars

Beside(A) ==
  /\ A
  /\ clear' = (pc = "idle" \/ clear)
  /\ UNCHANGED <<cmdVars, clear2>>

Outside ==
  Beside(Serve \/ Crash \/ Term \/ IpcReconfigure \/ FileWrite \/ Debounce \/ Clock \/ Environment)

ConcInit ==
  /\ Init
  /\ cmd = None
  /\ pc2 = "idle" /\ op2 = None /\ job2 = None /\ sel2 = None /\ out2 = None
  /\ clear = TRUE
  /\ clear2 = TRUE

ConcNext ==
  \/ DaemonRuns \/ Outside
  \/ (\E c \in Commands : Invoke(c)) \/ CommandRuns
  \/ CommandExits \/ TakesOver \/ CommandKilled

ConcSpec == ConcInit /\ [][ConcNext]_concVars

\* The daemon's thread is scheduled and time passes. A command may stop anywhere for ever.
ConcFairSpec == ConcSpec /\ WF_concVars(DaemonRuns) /\ WF_concVars(Beside(Clock))

-----------------------------------------------------------------------------
\* While neither has been disturbed by the other, the probe and the ping of the daemon's
\* call and of the command's never discover micronet itself, whoever started the dnsmasq
\* or added the address and whatever a killed or refused process left.
UndisturbedProbes ==
  /\ clear => NoSelfDiscovery
  /\ clear2 => Cmd!NoSelfDiscovery

\* Whatever mess two processes working at the same time leave behind, the next call that
\* has the host to itself makes good: an apply puts the host in the mode it reports, and a
\* teardown leaves nothing.
NextCallRecovers ==
  [][/\ Completes("apply") /\ out' # None /\ clear => InMode(out)'
     /\ Cmd!Completes("apply") /\ out2' # None /\ clear2 => Cmd!InMode(out2)'
     /\ Cmd!Completes("teardown") /\ out2' # None /\ clear2 => Cmd!TornDown']_concVars

\* What the interface of the status has when all is well: an address, and the process.
Equipped == Cidr(status.iface) # None /\ ProcRunning

\* A daemon does not stay healthy over an interface that a teardown, an apply or a second
\* serve beside it has stripped, whichever step that command stopped or was killed at: its
\* ticks make good or report it, unless the link goes, another apply comes or it ends first.
StrippedIsNoticed ==
  (loop \in Looping /\ status.iface # None /\ ~Equipped)
    ~> (\/ health # "ok" \/ loop = "dead" \/ ~Quiet
        \/ status.iface # None /\ (Equipped \/ ~Carrier(status.iface)))
=============================================================================
