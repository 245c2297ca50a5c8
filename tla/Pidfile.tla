------------------------------ MODULE Pidfile ------------------------------
(***************************************************************************)
(* stop, start and reload_or_restart of our dnsmasq (pidfile.rs,           *)
(* dhcp/run.rs), step by step: a caller knows its server only through a    *)
(* pidfile, a look at /proc/<pid>/cmdline and signals to a number, while   *)
(* the server exits, ignores SIGTERM or removes the pidfile itself, and    *)
(* the kernel gives its number to other processes.                         *)
(*                                                                         *)
(* One caller is modelled; module PidfilePair adds a second.               *)
(***************************************************************************)
CONSTANTS
  Pids,        \* process numbers
  Bodies,      \* contents dnsmasq.conf can have
  Twins,       \* numbers that a foreign process with a matching command line may get
  Killable,    \* may the caller be killed in the middle of a request
  None         \* no pid, no process, no file, no request

VARIABLES
  kind,      \* what runs under each process number
  body,      \* the configuration that process has read, if it is a dnsmasq of ours
  pidfile,   \* the number in dnsmasq.pid; None when there is no readable one
  conf,      \* contents of dnsmasq.conf
  pc,        \* next step of the request in progress; "idle" when there is none
  req,       \* the request: [op, body]
  changed,   \* conf_changed
  pid,       \* the caller's local: the number it read, or spawned
  result,    \* once pc = "done": "ok" or "err"
  fresh,     \* history: numbers given away since the caller's last look at /proc
  cutShort   \* history: a caller was killed while the dnsmasq it started was starting

procVars   == <<kind, body>>
callerVars == <<pc, req, changed, pid, result, fresh>>
vars       == <<kind, body, pidfile, conf, callerVars, cutShort>>

\* young: spawned, pidfile not written yet; told: has got SIGTERM; leaving: has removed
\* the pidfile and is about to exit; killed: SIGKILL is pending; failed: exited with an
\* error the caller has not collected; other and twin: not ours.
Live  == {"server", "told"}
Ours  == Live \cup {"young", "leaving", "killed", "failed"}
Kinds == Ours \cup {"free", "other", "twin"}

Requests == {[op |-> "stop", body |-> None]} \cup {[op |-> "reload", body |-> b] : b \in Bodies}

StopSteps   == {"read", "check", "term", "recheck", "kill", "remove"}
StartSteps  == {"start", "sweep", "clear", "spawn", "spawned"}
ReloadSteps == {"ensure", "running", "hupRead", "hupCheck", "hup", "hupWait"}
Steps       == StopSteps \cup StartSteps \cup ReloadSteps

ASSUME PidfileAssumption ==
  /\ None \notin Pids
  /\ None \notin Bodies
  /\ None \notin Requests
  /\ Twins \subseteq Pids
  /\ Killable \in BOOLEAN

FlagsOK == changed \in BOOLEAN /\ cutShort \in BOOLEAN

FieldsOK ==
  /\ kind \in [Pids -> Kinds]
  /\ body \in [Pids -> Bodies \cup {None}]
  /\ pidfile \in Pids \cup {None}
  /\ conf \in Bodies \cup {None}
  /\ pc \in Steps \cup {"idle", "done"}
  /\ req \in Requests \cup {None}
  /\ pid \in Pids \cup {None}
  /\ result \in {"ok", "err", None}
  /\ fresh \subseteq Pids
  /\ pc # "idle" => req \in Requests
  /\ pc \in ReloadSteps \cup StartSteps => req.op = "reload"
  /\ pc \in {"check", "term", "recheck", "kill", "hupCheck", "hup", "spawned"} => pid \in Pids

TypeOK == FlagsOK /\ FieldsOK

-----------------------------------------------------------------------------
(* What the caller sees and does.                                          *)

\* cmdline_matches: an argument is, or ends in, the name of the binary. An exited process
\* has no command line, a foreign one may match.
CmdlineMatches(k) == k \in {"young", "server", "told", "leaving", "killed", "twin"}

\* is_alive_in, is_running: reads the pidfile again.
IsAlive == pidfile # None /\ CmdlineMatches(kind[pidfile])

Goto(p) == pc' = p /\ UNCHANGED <<req, changed, result>>
Finish(r) == pc' = "done" /\ result' = r /\ UNCHANGED <<req, changed>>
\* After a look at /proc whatever is given away later is fresh.
Looked == fresh' = {} /\ UNCHANGED pid

\* A foreign process may die of the signal; SIGTERM leaves it to ours when to exit.
Terminate(p) ==
  kind' = [kind EXCEPT ![p] = IF @ = "server" THEN "told"
                              ELSE IF @ = "young" THEN "failed"
                              ELSE IF @ \in {"other", "twin"} THEN "free" ELSE @]

SendKill(p) ==
  kind' = [kind EXCEPT ![p] = IF @ \in Live \cup {"young", "leaving"} THEN "killed"
                              ELSE IF @ \in {"other", "twin"} THEN "free" ELSE @]

-----------------------------------------------------------------------------
(* pidfile::stop_in.                                                       *)

\* Mutant: an unreadable pidfile is not a reason to stop here.
ReadPidRegardless ==
  /\ pc = "read"
  /\ pid' = pidfile
  /\ Goto("check")
  /\ UNCHANGED <<procVars, pidfile, conf, fresh>>

ReadPid ==
  /\ pc = "read"
  /\ pid' = pidfile
  /\ Goto(IF pidfile = None THEN "remove" ELSE "check")
  /\ UNCHANGED <<procVars, pidfile, conf, fresh>>

\* Mutant: the process is signalled without a look at its command line.
CheckNothing ==
  /\ pc = "check"
  /\ Goto("term")
  /\ UNCHANGED <<procVars, pidfile, conf, pid, fresh>>

Check ==
  /\ pc = "check"
  /\ Goto(IF IsAlive THEN "term" ELSE "remove")
  /\ Looked
  /\ UNCHANGED <<procVars, pidfile, conf>>

SigTerm ==
  /\ pc = "term"
  /\ Terminate(pid)
  /\ Goto("recheck")
  /\ UNCHANGED <<body, pidfile, conf, pid, fresh>>

\* Mutant: SIGTERM is trusted to have worked.
RecheckNothing ==
  /\ pc = "recheck"
  /\ Goto("remove")
  /\ UNCHANGED <<procVars, pidfile, conf, pid, fresh>>

\* After PROCESS_TERM_WAIT.
Recheck ==
  /\ pc = "recheck"
  /\ Goto(IF IsAlive THEN "kill" ELSE "remove")
  /\ Looked
  /\ UNCHANGED <<procVars, pidfile, conf>>

\* The number is the one read at first, not the one the recheck found.
SigKill ==
  /\ pc = "kill"
  /\ SendKill(pid)
  /\ Goto("remove")
  /\ UNCHANGED <<body, pidfile, conf, pid, fresh>>

Remove ==
  /\ pc = "remove"
  /\ pidfile' = None
  /\ IF req.op = "stop" THEN Finish("ok") ELSE Goto("start")
  /\ UNCHANGED <<procVars, conf, pid, fresh>>

-----------------------------------------------------------------------------
(* start. A missing binary, a directory that cannot be made and a failing  *)
(* exec are errors.                                                        *)

Start ==
  /\ pc = "start"
  /\ \/ Finish("err")
     \/ IF IsAlive THEN Finish("ok") ELSE Goto("sweep")
  /\ UNCHANGED <<procVars, pidfile, conf, pid, fresh>>

Sweep ==
  /\ pc = "sweep"
  /\ Goto(IF IsAlive THEN "spawn" ELSE "clear")
  /\ UNCHANGED <<procVars, pidfile, conf, pid, fresh>>

Clear ==
  /\ pc = "clear"
  /\ pidfile' = None
  /\ Goto("spawn")
  /\ UNCHANGED <<procVars, conf, pid, fresh>>

\* dnsmasq reads the file that is there now.
Spawn ==
  /\ pc = "spawn"
  /\ \/ \E p \in Pids :
          /\ kind[p] = "free"
          /\ kind' = [kind EXCEPT ![p] = "young"]
          /\ body' = [body EXCEPT ![p] = conf]
          /\ pid' = p
          /\ fresh' = fresh \cup {p}
          /\ Goto("spawned")
     \/ Finish("err") /\ UNCHANGED <<procVars, pid, fresh>>
  /\ UNCHANGED <<pidfile, conf>>

\* The command returns when dnsmasq is a daemon, or with its exit code.
Spawned ==
  /\ pc = "spawned"
  /\ kind[pid] # "young"
  /\ IF kind[pid] = "failed"
     THEN /\ kind' = [kind EXCEPT ![pid] = "free"]
          /\ body' = [body EXCEPT ![pid] = None]
          /\ Finish("err")
     ELSE UNCHANGED procVars /\ Finish("ok")
  /\ UNCHANGED <<pidfile, conf, pid, fresh>>

-----------------------------------------------------------------------------
(* ensure_conf and reload_or_restart.                                      *)

EnsureConf ==
  /\ pc = "ensure"
  /\ \/ /\ changed' = (conf # req.body)
        /\ conf' = req.body
        /\ pc' = "running"
        /\ UNCHANGED <<req, result>>
     \/ conf' \in {conf, None} /\ Finish("err")
  /\ UNCHANGED <<procVars, pidfile, pid, fresh>>

Running ==
  /\ pc = "running"
  /\ Goto(IF ~IsAlive THEN "start" ELSE IF changed THEN "read" ELSE "hupRead")
  /\ UNCHANGED <<procVars, pidfile, conf, pid, fresh>>

\* sighup: its error, wherever it comes from, leads to stop and start.
HupRead ==
  /\ pc = "hupRead"
  /\ pid' = pidfile
  /\ Goto(IF pidfile = None THEN "read" ELSE "hupCheck")
  /\ UNCHANGED <<procVars, pidfile, conf, fresh>>

HupCheck ==
  /\ pc = "hupCheck"
  /\ Goto(IF IsAlive THEN "hup" ELSE "read")
  /\ Looked
  /\ UNCHANGED <<procVars, pidfile, conf>>

\* dnsmasq does not re-read its main file; what a foreign process does is its own affair.
Hup ==
  /\ pc = "hup"
  /\ Goto(IF kind[pid] = "free" THEN "read" ELSE "hupWait")
  /\ \/ kind' = [kind EXCEPT ![pid] = IF @ \in {"other", "twin"} THEN "free" ELSE @]
     \/ UNCHANGED kind
  /\ UNCHANGED <<body, pidfile, conf, pid, fresh>>

\* Mutant: a server that vanished after SIGHUP is not missed.
HupTrusted ==
  /\ pc = "hupWait"
  /\ Finish("ok")
  /\ UNCHANGED <<procVars, pidfile, conf, pid, fresh>>

HupWait ==
  /\ pc = "hupWait"
  /\ IF IsAlive THEN Finish("ok") ELSE Goto("start")
  /\ UNCHANGED <<procVars, pidfile, conf, pid, fresh>>

-----------------------------------------------------------------------------
Invoke(r) ==
  /\ pc = "idle"
  /\ req' = r
  /\ pc' = IF r.op = "stop" THEN "read" ELSE "ensure"
  /\ UNCHANGED <<procVars, pidfile, conf, changed, pid, result, fresh>>

Idle == pc' = "idle" /\ req' = None /\ pid' = None /\ result' = None /\ fresh' = {}

Return == pc = "done" /\ Idle /\ UNCHANGED <<procVars, pidfile, conf, changed>>

\* What the caller was starting goes on without it; init collects what has failed.
Killed ==
  /\ Killable
  /\ pc \in Steps
  /\ Idle
  /\ cutShort' = (cutShort \/ (pc = "spawned" /\ kind[pid] = "young"))
  /\ kind' = IF pc = "spawned" /\ kind[pid] = "failed" THEN [kind EXCEPT ![pid] = "free"] ELSE kind
  /\ UNCHANGED <<body, pidfile, conf, changed>>

CallerStep ==
  \/ ReadPid \/ Check \/ SigTerm \/ Recheck \/ SigKill \/ Remove
  \/ Start \/ Sweep \/ Clear \/ Spawn \/ Spawned
  \/ EnsureConf \/ Running \/ HupRead \/ HupCheck \/ Hup \/ HupWait

Caller ==
  \/ ((\E r \in Requests : Invoke(r)) \/ CallerStep \/ Return) /\ UNCHANGED cutShort
  \/ Killed

-----------------------------------------------------------------------------
(* The processes and the kernel.                                           *)

\* A young dnsmasq binds its sockets, which fails where another holds the address, writes
\* the pidfile and lets the command that started it return.
Settles(p) ==
  /\ kind[p] = "young"
  /\ \/ /\ \A q \in Pids : kind[q] \in Live \cup {"leaving", "killed"} => body[q] # body[p]
        /\ kind' = [kind EXCEPT ![p] = "server"]
        /\ pidfile' = p
     \/ kind' = [kind EXCEPT ![p] = "failed"] /\ UNCHANGED pidfile
  /\ UNCHANGED <<body, conf, callerVars>>

\* On SIGTERM, from whomever, dnsmasq removes the pidfile, by its path, and exits.
Leaves(p) ==
  /\ kind[p] \in Live
  /\ kind' = [kind EXCEPT ![p] = "leaving"]
  /\ pidfile' = None
  /\ UNCHANGED <<body, conf, callerVars>>

\* A server crashes; one that is leaving or killed is gone; a foreign process ends.
Exits(p) ==
  /\ kind[p] \in Live \cup {"leaving", "killed", "other", "twin"}
  /\ kind' = [kind EXCEPT ![p] = "free"]
  /\ body' = [body EXCEPT ![p] = None]
  /\ UNCHANGED <<pidfile, conf, callerVars>>

\* The kernel gives a number to a process that has nothing to do with us.
Reused(p) ==
  /\ kind[p] = "free"
  /\ \/ kind' = [kind EXCEPT ![p] = "other"]
     \/ p \in Twins /\ kind' = [kind EXCEPT ![p] = "twin"]
  /\ fresh' = fresh \cup {p}
  /\ UNCHANGED <<body, pidfile, conf, pc, req, changed, pid, result>>

Processes ==
  /\ \E p \in Pids : Settles(p) \/ Leaves(p) \/ Exits(p) \/ Reused(p)
  /\ UNCHANGED cutShort

Init ==
  /\ kind = [p \in Pids |-> "free"]
  /\ body = [p \in Pids |-> None]
  /\ pidfile = None
  /\ conf = None
  /\ pc = "idle"
  /\ req = None
  /\ changed = FALSE
  /\ pid = None
  /\ result = None
  /\ fresh = {}
  /\ cutShort = FALSE

Next == Caller \/ Processes

Spec == Init /\ [][Next]_vars

-----------------------------------------------------------------------------
(* What a caller can rely on.                                              *)

\* Every dnsmasq of ours that serves is the one the pidfile names, so that a later stop
\* reaches it: through crashes, ignored signals, reused numbers, look-alikes and callers
\* killed at any step but the start of a server. Servers that have been killed or are
\* leaving may linger unnamed.
NoOrphan == ~cutShort => \A p \in Pids : kind[p] \in Live => pidfile = p

\* A signal reaches a process that never looked like ours only if the number changed hands
\* after the last look at its command line.
ForeignSpared ==
  ~cutShort /\ pc \in {"term", "kill", "hup"} /\ kind[pid] = "other" => pid \in fresh

NoServer == \A p \in Pids : kind[p] \notin Live
Pending(k) == k \in {"young", "failed"}

\* What the steps of a request find: the inductive invariant behind the two above.
OwnerInv ==
  ~cutShort =>
    /\ NoOrphan
    /\ ForeignSpared
    /\ \A p \in Pids : Pending(kind[p]) => pc = "spawned" /\ pid = p
    /\ pc = "spawned" /\ Pending(kind[pid]) => NoServer
    /\ pc \in {"start", "sweep", "clear", "spawn", "remove"} => NoServer
    /\ pc \in {"check", "term", "recheck", "kill", "hupCheck", "hup"} => pidfile \in {pid, None}

Undisturbed == Twins = {} /\ ~Killable

\* What they find besides when nobody imitates the server and no caller is killed: the
\* pidfile names a server that serves or a dead process, and a server that runs with an
\* unchanged file is never on its way to being stopped.
ServiceInv ==
  Undisturbed =>
    /\ ~cutShort
    /\ \A p \in Pids : kind[p] # "twin"
    /\ pidfile # None /\ kind[pidfile] = "killed" => pc = "remove"
    /\ pidfile # None => kind[pidfile] \notin {"young", "failed", "leaving"}
    /\ pc = "spawn" \/ (pc = "spawned" /\ Pending(kind[pid])) => pidfile = None
    /\ pc \in StopSteps /\ req.op = "reload" /\ ~changed => NoServer
    /\ pc \in Steps \ {"ensure"} /\ req.op = "reload" => conf = req.body
    /\ pc = "spawned" /\ Pending(kind[pid]) => body[pid] = req.body
    /\ pc = "done" => result \in {"ok", "err"}
    /\ pc \in {"hupRead", "hupCheck", "hup", "hupWait"} => ~changed
    /\ \A p \in Pids : kind[p] \in Live \cup {"young"} => body[p] \in Bodies

\* "Own a single process via a pidfile": NoOrphan without the exception.
OneOwnedProcess == \A p \in Pids : kind[p] \in Live => pidfile = p

-----------------------------------------------------------------------------
(* The server as its callers think of it, and the refinement.              *)

ServerConf == IF pidfile # None /\ kind[pidfile] \in Live THEN body[pidfile] ELSE None

\* A stop is served once SIGKILL is sent or nothing was found alive, a reload once the new
\* server has settled or the old one has been seen after SIGHUP.
Asked == pc = "ensure" \/ (pc \in StopSteps \ {"remove"} /\ req.op = "stop")
Served ==
  \/ pc = "done" /\ result = "ok"
  \/ pc = "remove" /\ req.op = "stop"
  \/ pc = "spawned" /\ ~Pending(kind[pid])

Phase ==
  IF pc = "idle" THEN "idle"
  ELSE IF Asked THEN "asked"
  ELSE IF Served THEN "served"
  ELSE IF pc = "done" THEN "failed"
  ELSE "written"

Abstract == INSTANCE Service WITH server <- ServerConf, phase <- Phase

\* Every step of the pidfile protocol is a step of the abstract service: a stop ends with no
\* server; a reload ends with the server it found if its file is unchanged, and with one
\* started with the written file otherwise, unless the server has died by itself, which it
\* may at any time; an error means that none runs, or that the file could not be written and
\* the server is as it was. That a reload does not take down a server whose file is
\* unchanged is a matter of ServiceInv.
ImplementsService == Abstract!Spec
=============================================================================
