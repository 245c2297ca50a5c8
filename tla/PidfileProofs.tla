--------------------------- MODULE PidfileProofs ---------------------------
(***************************************************************************)
(* Theorems about Pidfile: one caller at a time owns its server, and the   *)
(* protocol implements the abstract Service.                               *)
(***************************************************************************)
EXTENDS Pidfile, TLAPS

\* The part of the assumption on the constants that the proofs use throughout.
LEMMA Distinct ==
  /\ None \notin Pids
  /\ None \notin Bodies
  /\ None \notin Requests
  /\ Twins \subseteq Pids
  BY PidfileAssumption

USE Distinct

-----------------------------------------------------------------------------
(* Types.                                                                  *)

\* The initial state has the types of the fields.
LEMMA InitTypes == Init => FieldsOK
  BY DEF Init, FieldsOK, Kinds, Ours, Live, Steps, StopSteps, StartSteps, ReloadSteps

\* The steps of a request keep them.
LEMMA CallerStepTypes == FieldsOK /\ CallerStep => FieldsOK'
  <1> SUFFICES ASSUME FieldsOK, CallerStep PROVE FieldsOK'
    OBVIOUS
  <1> USE DEF FieldsOK, Kinds, Ours, Live, Steps, StopSteps, StartSteps, ReloadSteps,
              procVars, Goto, Finish, Looked
  <1>1. CASE ReadPid
    BY <1>1 DEF ReadPid
  <1>2. CASE Check
    BY <1>2 DEF Check
  <1>3. CASE SigTerm
    BY <1>3 DEF SigTerm, Terminate
  <1>4. CASE Recheck
    BY <1>4 DEF Recheck
  <1>5. CASE SigKill
    BY <1>5 DEF SigKill, SendKill
  <1>6. CASE Remove
    BY <1>6 DEF Remove, Requests
  <1>7. CASE Start
    BY <1>7 DEF Start
  <1>8. CASE Sweep
    BY <1>8 DEF Sweep
  <1>9. CASE Clear
    BY <1>9 DEF Clear
  <1>10. CASE Spawn
    BY <1>10 DEF Spawn
  <1>11. CASE Spawned
    BY <1>11 DEF Spawned
  <1>12. CASE EnsureConf
    BY <1>12 DEF EnsureConf, Requests
  <1>13. CASE Running
    BY <1>13 DEF Running
  <1>14. CASE HupRead
    BY <1>14 DEF HupRead
  <1>15. CASE HupCheck
    BY <1>15 DEF HupCheck
  <1>16. CASE Hup
    BY <1>16 DEF Hup
  <1>17. CASE HupWait
    BY <1>17 DEF HupWait
  <1> QED
    BY <1>1, <1>2, <1>3, <1>4, <1>5, <1>6, <1>7, <1>8, <1>9, <1>10, <1>11, <1>12, <1>13,
       <1>14, <1>15, <1>16, <1>17 DEF CallerStep

\* So do requests coming and going and the processes' own steps.
LEMMA NextTypes == FieldsOK /\ [Next]_vars => FieldsOK'
  <1> SUFFICES ASSUME FieldsOK, [Next]_vars PROVE FieldsOK'
    OBVIOUS
  <1> USE DEF FieldsOK, Kinds, Ours, Live, Steps, StopSteps, StartSteps, ReloadSteps
  <1>1. ASSUME NEW r \in Requests, Invoke(r), UNCHANGED cutShort PROVE FieldsOK'
    BY <1>1 DEF Invoke, Requests, procVars
  <1>2. CASE CallerStep /\ UNCHANGED cutShort
    BY <1>2, CallerStepTypes
  <1>3. CASE Return /\ UNCHANGED cutShort
    BY <1>3 DEF Return, Idle, procVars
  <1>4. CASE Killed
    BY <1>4 DEF Killed, Idle
  <1>5. ASSUME NEW p \in Pids, Settles(p), UNCHANGED cutShort PROVE FieldsOK'
    BY <1>5 DEF Settles, callerVars
  <1>6. ASSUME NEW p \in Pids, Leaves(p), UNCHANGED cutShort PROVE FieldsOK'
    BY <1>6 DEF Leaves, callerVars
  <1>7. ASSUME NEW p \in Pids, Exits(p), UNCHANGED cutShort PROVE FieldsOK'
    BY <1>7 DEF Exits, callerVars
  <1>8. ASSUME NEW p \in Pids, Reused(p), UNCHANGED cutShort PROVE FieldsOK'
    BY <1>8 DEF Reused
  <1>9. CASE UNCHANGED vars
    BY <1>9 DEF vars, callerVars
  <1> QED
    BY <1>1, <1>2, <1>3, <1>4, <1>5, <1>6, <1>7, <1>8, <1>9 DEF Next, Caller, Processes

\* conf_changed and the history flag are Boolean.
LEMMA NextFlags == FlagsOK /\ [Next]_vars => FlagsOK'
  <1> SUFFICES ASSUME FlagsOK, [Next]_vars PROVE FlagsOK'
    OBVIOUS
  <1> USE DEF FlagsOK
  <1>1. ASSUME CallerStep PROVE changed' \in BOOLEAN
    <2>1. ASSUME EnsureConf PROVE changed' \in BOOLEAN
      <3>1. changed' = changed \/ changed' = (conf # req.body)
        BY <2>1, Zenon DEF EnsureConf, Finish
      <3> QED
        BY <3>1, Zenon
    <2>2. ASSUME ~EnsureConf PROVE changed' = changed
      BY <1>1, <2>2, Zenon DEF CallerStep, ReadPid, Check, SigTerm, Recheck, SigKill, Remove, Start,
         Sweep, Clear, Spawn, Spawned, Running, HupRead, HupCheck, Hup, HupWait, Goto, Finish
    <2> QED
      BY <2>1, <2>2, Zenon
  <1>2. ASSUME NEW r \in Requests, Invoke(r) PROVE changed' = changed
    BY <1>2, Zenon DEF Invoke
  <1>3. ASSUME Return \/ Killed PROVE changed' = changed
    BY <1>3, Zenon DEF Return, Killed
  <1>4. ASSUME Processes PROVE changed' = changed
    BY <1>4, Zenon DEF Processes, Settles, Leaves, Exits, Reused, callerVars
  <1>5. changed' \in BOOLEAN
    BY <1>1, <1>2, <1>3, <1>4, Zenon DEF Next, Caller, vars, callerVars
  <1>6. ASSUME Killed PROVE cutShort' \in BOOLEAN
    <2>1. cutShort' = (cutShort \/ (pc = "spawned" /\ kind[pid] = "young"))
      BY <1>6, Zenon DEF Killed
    <2> QED
      BY <2>1, Zenon
  <1>7. ASSUME ~Killed PROVE cutShort' = cutShort
    BY <1>7, Zenon DEF Next, Caller, Processes, vars
  <1> QED
    BY <1>5, <1>6, <1>7, Zenon

\* Every variable of the protocol keeps its type, whatever the processes do.
THEOREM TypesHold == Spec => []TypeOK
  <1>1. Init => TypeOK
    <2>1. Init => FlagsOK
      BY Zenon DEF Init, FlagsOK
    <2> QED
      BY <2>1, InitTypes, Zenon DEF TypeOK
  <1>2. TypeOK /\ [Next]_vars => TypeOK'
    BY NextTypes, NextFlags, Zenon DEF TypeOK
  <1> QED
    BY <1>1, <1>2, PTL DEF Spec

-----------------------------------------------------------------------------
(* Ownership.                                                              *)

\* The steps of a request keep the server owned and foreign processes spared.
LEMMA CallerStepOwns ==
  ASSUME FieldsOK, OwnerInv, ~cutShort, CallerStep, UNCHANGED cutShort
  PROVE  OwnerInv'
  <1> USE DEF FieldsOK, OwnerInv, NoOrphan, ForeignSpared, NoServer, Pending, Live, procVars,
              Goto, Finish, Looked
  <1>1. CASE ReadPid
    BY <1>1 DEF ReadPid
  <1>2. CASE Check
    BY <1>2 DEF Check, IsAlive, CmdlineMatches
  <1>3. CASE SigTerm
    BY <1>3 DEF SigTerm, Terminate, Kinds, Ours
  <1>4. CASE Recheck
    BY <1>4 DEF Recheck, IsAlive, CmdlineMatches
  <1>5. CASE SigKill
    BY <1>5 DEF SigKill, SendKill, Kinds, Ours
  <1>6. CASE Remove
    BY <1>6 DEF Remove
  <1>7. CASE Start
    BY <1>7 DEF Start
  <1>8. CASE Sweep
    BY <1>8 DEF Sweep
  <1>9. CASE Clear
    BY <1>9 DEF Clear
  <1>10. CASE Spawn
    BY <1>10 DEF Spawn
  <1>11. CASE Spawned
    BY <1>11 DEF Spawned
  <1>12. CASE EnsureConf
    BY <1>12 DEF EnsureConf
  <1>13. CASE Running
    BY <1>13 DEF Running, IsAlive, CmdlineMatches
  <1>14. CASE HupRead
    BY <1>14 DEF HupRead
  <1>15. CASE HupCheck
    BY <1>15 DEF HupCheck, IsAlive, CmdlineMatches
  <1>16. CASE Hup
    BY <1>16 DEF Hup
  <1>17. CASE HupWait
    BY <1>17 DEF HupWait, IsAlive, CmdlineMatches
  <1> QED
    BY <1>1, <1>2, <1>3, <1>4, <1>5, <1>6, <1>7, <1>8, <1>9, <1>10, <1>11, <1>12, <1>13,
       <1>14, <1>15, <1>16, <1>17, CallerStep DEF CallerStep

\* So does everything else, until a caller is killed while its server is starting.
LEMMA NextOwns == FieldsOK /\ FlagsOK /\ OwnerInv /\ [Next]_vars => OwnerInv'
  <1> SUFFICES ASSUME FieldsOK, FlagsOK, OwnerInv, [Next]_vars, ~cutShort' PROVE OwnerInv'
    BY DEF OwnerInv
  <1>0. ~cutShort
    BY Zenon DEF Next, Caller, Processes, Killed, vars
  <1> USE <1>0 DEF FieldsOK, OwnerInv, NoOrphan, ForeignSpared, NoServer, Pending, Live
  <1>1. ASSUME NEW r \in Requests, Invoke(r) PROVE OwnerInv'
    BY <1>1 DEF Invoke, procVars
  <1>2. CASE CallerStep /\ UNCHANGED cutShort
    BY <1>2, CallerStepOwns
  <1>3. CASE Return
    BY <1>3 DEF Return, Idle, procVars
  <1>4. CASE Killed
    <2>1. ~(pc = "spawned" /\ kind[pid] = "young")
      BY <1>4, Zenon DEF Killed
    <2> QED
      BY <1>4, <2>1 DEF Killed, Idle
  <1>5. ASSUME NEW p \in Pids, Settles(p) PROVE OwnerInv'
    BY <1>5 DEF Settles, callerVars
  <1>6. ASSUME NEW p \in Pids, Leaves(p) PROVE OwnerInv'
    BY <1>6 DEF Leaves, callerVars
  <1>7. ASSUME NEW p \in Pids, Exits(p) PROVE OwnerInv'
    BY <1>7 DEF Exits, callerVars
  <1>8. ASSUME NEW p \in Pids, Reused(p) PROVE OwnerInv'
    BY <1>8 DEF Reused
  <1>9. CASE UNCHANGED vars
    BY <1>9 DEF vars, callerVars
  <1> QED
    BY <1>1, <1>2, <1>3, <1>4, <1>5, <1>6, <1>7, <1>8, <1>9 DEF Next, Caller, Processes

\* The inductive invariant of the protocol.
THEOREM OwnerInvariant == Spec => []OwnerInv
  <1>1. Init => OwnerInv
    BY DEF Init, OwnerInv, NoOrphan, ForeignSpared, NoServer, Pending, Live
  <1>2. TypeOK /\ OwnerInv /\ [Next]_vars => OwnerInv'
    BY NextOwns, Zenon DEF TypeOK
  <1> QED
    BY <1>1, <1>2, TypesHold, PTL DEF Spec

\* A server that serves is always the one the pidfile names, unless a caller was killed
\* while its server was starting.
THEOREM ServersAreOwned == Spec => []NoOrphan
  <1>1. OwnerInv => NoOrphan
    BY Zenon DEF OwnerInv, NoOrphan
  <1> QED
    BY <1>1, OwnerInvariant, PTL

\* stop and sighup signal a foreign process only when it got the number after the check.
THEOREM ForeignProcessesAreSpared == Spec => []ForeignSpared
  <1>1. OwnerInv => ForeignSpared
    BY Zenon DEF OwnerInv, ForeignSpared
  <1> QED
    BY <1>1, OwnerInvariant, PTL

-----------------------------------------------------------------------------
(* The refinement.                                                         *)

\* With no imitation around, is_alive answers whether a server serves, except between
\* SIGKILL and the removal of the pidfile.
LEMMA AliveMeansServer ==
  ASSUME FieldsOK, OwnerInv, ServiceInv, Undisturbed, pc # "remove"
  PROVE  /\ IsAlive <=> ~NoServer
         /\ IsAlive <=> ServerConf # None
  <1>1. ~cutShort
    BY DEF ServiceInv
  <1>2. IsAlive => pidfile # None /\ kind[pidfile] \in Live
    BY DEF FieldsOK, ServiceInv, IsAlive, CmdlineMatches, Live
  <1>3. ~NoServer => IsAlive
    BY <1>1 DEF FieldsOK, OwnerInv, NoOrphan, IsAlive, CmdlineMatches, NoServer, Live
  <1>4. ServerConf # None => ~NoServer
    BY DEF FieldsOK, ServerConf, NoServer
  <1>5. IsAlive => ServerConf # None
    BY <1>2, <1>1 DEF FieldsOK, ServiceInv, ServerConf
  <1> QED
    BY <1>3, <1>4, <1>5

\* Without a server there is no configuration in use.
LEMMA NoServerNoConf == FieldsOK /\ NoServer => ServerConf = None
  BY DEF FieldsOK, NoServer, ServerConf

\* The steps of a request keep what the refinement rests on.
LEMMA CallerStepServes ==
  ASSUME FieldsOK, OwnerInv, ServiceInv, Undisturbed, CallerStep, UNCHANGED cutShort
  PROVE  ServiceInv'
  <1>0. ~cutShort
    BY DEF ServiceInv
  <1> USE <1>0 DEF FieldsOK, OwnerInv, NoOrphan, ServiceInv, Undisturbed, NoServer, Pending, Live,
              procVars, Goto, Finish, Looked, Steps, StopSteps, StartSteps, ReloadSteps
  <1>1. CASE ReadPid
    BY <1>1 DEF ReadPid
  <1>2. CASE Check
    BY <1>2 DEF Check, IsAlive, CmdlineMatches
  <1>3. CASE SigTerm
    BY <1>3 DEF SigTerm, Terminate, Kinds, Ours
  <1>4. CASE Recheck
    BY <1>4 DEF Recheck, IsAlive, CmdlineMatches
  <1>5. CASE SigKill
    BY <1>5 DEF SigKill, SendKill, Kinds, Ours
  <1>6. CASE Remove
    BY <1>6 DEF Remove
  <1>7. CASE Start
    BY <1>7 DEF Start
  <1>8. CASE Sweep
    BY <1>8 DEF Sweep, IsAlive, CmdlineMatches
  <1>9. CASE Clear
    BY <1>9 DEF Clear
  <1>10. CASE Spawn
    BY <1>10 DEF Spawn, Requests
  <1>11. CASE Spawned
    BY <1>11 DEF Spawned
  <1>12. CASE EnsureConf
    BY <1>12 DEF EnsureConf
  <1>13. CASE Running
    BY <1>13 DEF Running, IsAlive, CmdlineMatches
  <1>14. CASE HupRead
    BY <1>14 DEF HupRead
  <1>15. CASE HupCheck
    BY <1>15 DEF HupCheck, IsAlive, CmdlineMatches
  <1>16. CASE Hup
    BY <1>16 DEF Hup, Kinds, Ours
  <1>17. CASE HupWait
    BY <1>17 DEF HupWait, IsAlive, CmdlineMatches
  <1> QED
    BY <1>1, <1>2, <1>3, <1>4, <1>5, <1>6, <1>7, <1>8, <1>9, <1>10, <1>11, <1>12, <1>13,
       <1>14, <1>15, <1>16, <1>17, CallerStep DEF CallerStep

\* So does everything else.
LEMMA NextServes == FieldsOK /\ OwnerInv /\ ServiceInv /\ [Next]_vars => ServiceInv'
  <1> SUFFICES ASSUME FieldsOK, OwnerInv, ServiceInv, [Next]_vars, Undisturbed PROVE ServiceInv'
    BY DEF ServiceInv, Undisturbed
  <1>0. ~cutShort /\ ~Killed
    BY DEF ServiceInv, Killed, Undisturbed
  <1>a. UNCHANGED cutShort
    BY <1>0, Zenon DEF Next, Caller, Processes, vars
  <1> USE <1>0, <1>a DEF FieldsOK, OwnerInv, NoOrphan, ServiceInv, Undisturbed, NoServer, Pending, Live,
              Steps, StopSteps, StartSteps, ReloadSteps
  <1>1. ASSUME NEW r \in Requests, Invoke(r) PROVE ServiceInv'
    BY <1>1 DEF Invoke, procVars, Requests
  <1>2. CASE CallerStep
    BY <1>2, CallerStepServes
  <1>3. CASE Return
    BY <1>3 DEF Return, Idle, procVars
  <1>5. ASSUME NEW p \in Pids, Settles(p) PROVE ServiceInv'
    BY <1>5 DEF Settles, callerVars
  <1>6. ASSUME NEW p \in Pids, Leaves(p) PROVE ServiceInv'
    BY <1>6 DEF Leaves, callerVars
  <1>7. ASSUME NEW p \in Pids, Exits(p) PROVE ServiceInv'
    BY <1>7 DEF Exits, callerVars
  <1>8. ASSUME NEW p \in Pids, Reused(p) PROVE ServiceInv'
    BY <1>8 DEF Reused
  <1>9. CASE UNCHANGED vars
    BY <1>9 DEF vars, callerVars
  <1> QED
    BY <1>1, <1>2, <1>3, <1>5, <1>6, <1>7, <1>8, <1>9 DEF Next, Caller, Processes

\* A step that keeps the server's configuration, the file, the request and the phase is a
\* stuttering step of the service.
LEMMA Stutters ==
  ASSUME UNCHANGED <<ServerConf, conf, req, changed, Phase>>
  PROVE  UNCHANGED Abstract!vars
  BY DEF Abstract!vars

\* The steps of pidfile::stop: the request to stop is served by the look at /proc that
\* finds nothing, or by SIGKILL.
LEMMA StopRefines ==
  ASSUME FieldsOK, OwnerInv, ServiceInv, Undisturbed,
         ReadPid \/ Check \/ SigTerm \/ Recheck \/ SigKill \/ Remove
  PROVE  [Abstract!Next]_(Abstract!vars)
  <1>0. ~cutShort
    BY DEF ServiceInv
  <1> USE <1>0 DEF FieldsOK, procVars, Goto, Finish, Looked, Steps, StopSteps, StartSteps, ReloadSteps
  <1>1. ASSUME pc \in {"read", "check", "recheck"}, pc' = "remove", req.op = "stop", NoServer,
               UNCHANGED <<procVars, pidfile, conf, req, changed>>
        PROVE  Abstract!Stop
    <2>1. ServerConf' = None
      BY <1>1 DEF NoServer, ServerConf
    <2>2. Phase = "asked" /\ Phase' = "served"
      BY <1>1 DEF Phase, Asked, Served
    <2> QED
      BY <1>1, <2>1, <2>2 DEF Abstract!Stop
  <1>2. ASSUME pc \in StopSteps, pc' \in StopSteps, pc' # "remove" \/ req.op = "reload",
               pc # "remove", req \in Requests,
               UNCHANGED <<ServerConf, conf, req, changed>>
        PROVE  UNCHANGED Abstract!vars
    <2>1. Phase' = Phase
      BY <1>2 DEF Phase, Asked, Served
    <2> QED
      BY <1>2, <2>1, Stutters
  <1>3. CASE ReadPid
    <2>1. pidfile = None => NoServer
      BY DEF OwnerInv, NoOrphan, NoServer
    <2>2. UNCHANGED ServerConf
      BY <1>3 DEF ReadPid, ServerConf
    <2> QED
      BY <1>1, <1>2, <1>3, <2>1, <2>2 DEF ReadPid, Requests, Abstract!Next
  <1>4. CASE Check \/ Recheck
    <2>1. ~IsAlive => NoServer
      BY <1>4, AliveMeansServer DEF Check, Recheck
    <2>2. UNCHANGED ServerConf
      BY <1>4 DEF Check, Recheck, ServerConf
    <2> QED
      BY <1>1, <1>2, <1>4, <2>1, <2>2 DEF Check, Recheck, Requests, Abstract!Next
  <1>5. CASE SigTerm
    <2>1. UNCHANGED ServerConf
      BY <1>5 DEF SigTerm, Terminate, ServerConf, Live, Kinds, Ours
    <2> QED
      BY <1>2, <1>5, <2>1 DEF SigTerm
  <1>6. CASE SigKill
    <2>1. ServerConf' = None
      BY <1>6 DEF SigKill, SendKill, ServerConf, Live, Kinds, Ours, OwnerInv, NoOrphan
    <2>2. CASE req.op = "stop"
      <3>1. Phase = "asked" /\ Phase' = "served"
        BY <1>6, <2>2 DEF SigKill, Phase, Asked, Served
      <3> QED
        BY <1>6, <2>1, <2>2, <3>1 DEF SigKill, Abstract!Next, Abstract!Stop
    <2>3. CASE req.op = "reload" /\ changed
      <3>1. Phase = "written" /\ Phase' = "written"
        BY <1>6, <2>3 DEF SigKill, Phase, Asked, Served
      <3> QED
        BY <1>6, <2>1, <2>3, <3>1 DEF SigKill, Abstract!Next, Abstract!Halt
    <2>4. CASE req.op = "reload" /\ ~changed
      <3>1. NoServer
        BY <1>6, <2>4 DEF SigKill, ServiceInv
      <3>2. UNCHANGED ServerConf
        BY <2>1, <3>1, NoServerNoConf
      <3> QED
        BY <1>2, <1>6, <2>4, <3>2 DEF SigKill
    <2> QED
      BY <1>6, <2>2, <2>3, <2>4 DEF SigKill, Requests
  <1>7. CASE Remove
    <2>1. NoServer
      BY <1>7 DEF Remove, OwnerInv
    <2>2. ServerConf = None /\ ServerConf' = None
      BY <1>7, <2>1, NoServerNoConf DEF Remove, ServerConf
    <2>3. Phase' = Phase
      BY <1>7 DEF Remove, Phase, Asked, Served
    <2> QED
      BY <1>7, <2>2, <2>3, Stutters DEF Remove
  <1> QED
    BY <1>3, <1>4, <1>5, <1>6, <1>7

\* The steps of start: an error comes when nothing runs.
LEMMA StartRefines ==
  ASSUME FieldsOK, OwnerInv, ServiceInv, Undisturbed,
         Start \/ Sweep \/ Clear \/ Spawn \/ Spawned
  PROVE  [Abstract!Next]_(Abstract!vars)
  <1>0. ~cutShort
    BY DEF ServiceInv
  <1> USE <1>0 DEF FieldsOK, procVars, Goto, Finish, Steps, StopSteps, StartSteps, ReloadSteps
  <1>1. ASSUME Phase = "written", NoServer, ServerConf' = None, pc' = "done", result' = "err",
               UNCHANGED <<conf, req, changed>>
        PROVE  Abstract!Next
    <2>1. ServerConf = None
      BY <1>1, NoServerNoConf
    <2>2. Phase' = "failed"
      BY <1>1 DEF Phase, Asked, Served
    <2> QED
      BY <1>1, <2>1, <2>2 DEF Abstract!Next, Abstract!Fail
  <1>2. CASE Start
    <2>1. NoServer /\ ~IsAlive
      BY <1>2, AliveMeansServer DEF Start, OwnerInv
    <2>2. UNCHANGED ServerConf
      BY <1>2 DEF Start, ServerConf
    <2>3. Phase = "written" /\ (pc' = "sweep" => Phase' = "written")
      BY <1>2 DEF Start, Phase, Asked, Served
    <2>4. CASE pc' = "done"
      BY <1>1, <1>2, <2>1, <2>2, <2>3, <2>4, NoServerNoConf DEF Start
    <2>5. CASE pc' = "sweep"
      BY <1>2, <2>2, <2>3, <2>5, Stutters DEF Start
    <2> QED
      BY <1>2, <2>1, <2>4, <2>5 DEF Start
  <1>3. CASE Sweep \/ Clear
    <2>1. NoServer
      BY <1>3 DEF Sweep, Clear, OwnerInv
    <2>2. ServerConf = None /\ ServerConf' = None
      BY <1>3, <2>1, NoServerNoConf DEF Sweep, Clear, ServerConf
    <2>3. Phase' = Phase
      BY <1>3 DEF Sweep, Clear, Phase, Asked, Served
    <2> QED
      BY <1>3, <2>2, <2>3, Stutters DEF Sweep, Clear
  <1>4. CASE Spawn
    <2>1. NoServer /\ pidfile = None
      BY <1>4 DEF Spawn, OwnerInv, ServiceInv
    <2>2. ServerConf = None /\ ServerConf' = None
      BY <1>4, <2>1 DEF Spawn, ServerConf
    <2>3. Phase = "written"
      BY <1>4 DEF Spawn, Phase, Asked, Served
    <2>4. CASE pc' = "done"
      BY <1>1, <1>4, <2>1, <2>2, <2>3, <2>4 DEF Spawn
    <2>5. CASE pc' = "spawned"
      <3>1. Phase' = "written"
        BY <1>4, <2>5 DEF Spawn, Phase, Asked, Served, Pending
      <3> QED
        BY <1>4, <2>2, <2>3, <2>5, <3>1, Stutters DEF Spawn
    <2> QED
      BY <1>4, <2>4, <2>5 DEF Spawn
  <1>5. CASE Spawned
    <2>1. CASE kind[pid] = "failed"
      <3>1. NoServer /\ pidfile = None
        BY <1>5, <2>1 DEF Spawned, OwnerInv, ServiceInv, Pending
      <3>2. ServerConf' = None
        BY <1>5, <2>1, <3>1 DEF Spawned, ServerConf
      <3>3. Phase = "written"
        BY <1>5, <2>1 DEF Spawned, Phase, Asked, Served, Pending
      <3> QED
        BY <1>1, <1>5, <2>1, <3>1, <3>2, <3>3 DEF Spawned
    <2>2. CASE kind[pid] # "failed"
      <3>1. UNCHANGED ServerConf
        BY <1>5, <2>2 DEF Spawned, ServerConf
      <3>2. Phase' = Phase
        BY <1>5, <2>2 DEF Spawned, Phase, Asked, Served, Pending
      <3> QED
        BY <1>5, <2>2, <3>1, <3>2, Stutters DEF Spawned
    <2> QED
      BY <2>1, <2>2
  <1> QED
    BY <1>2, <1>3, <1>4, <1>5

\* The steps of a reload: the file is written first; an unchanged one keeps its server.
LEMMA ReloadRefines ==
  ASSUME FieldsOK, OwnerInv, ServiceInv, Undisturbed,
         EnsureConf \/ Running \/ HupRead \/ HupCheck \/ Hup \/ HupWait
  PROVE  [Abstract!Next]_(Abstract!vars)
  <1>0. ~cutShort
    BY DEF ServiceInv
  <1> USE <1>0 DEF FieldsOK, procVars, Goto, Finish, Looked, Steps, StopSteps, StartSteps, ReloadSteps
  <1>1. CASE EnsureConf
    <2>1. UNCHANGED <<ServerConf, req>> /\ req.op = "reload"
      BY <1>1 DEF EnsureConf, ServerConf
    <2>2. Phase = "asked"
      BY <1>1 DEF EnsureConf, Phase, Asked
    <2>3. CASE pc' = "running"
      <3>1. Phase' = "written"
        BY <2>3 DEF Phase, Asked, Served
      <3>2. conf' = req.body /\ changed' = (conf # req.body)
        BY <1>1, <2>3, Zenon DEF EnsureConf, Finish
      <3> QED
        BY <2>1, <2>2, <3>1, <3>2, Zenon DEF Abstract!Next, Abstract!Write
    <2>4. CASE pc' = "done"
      <3>1. conf' \in {conf, None} /\ result' = "err" /\ UNCHANGED changed
        BY <1>1, <2>4 DEF EnsureConf
      <3>2. Phase' = "failed"
        BY <2>4, <3>1 DEF Phase, Asked, Served
      <3> QED
        BY <2>1, <2>2, <3>1, <3>2, Zenon DEF Abstract!Next, Abstract!WriteFails
    <2> QED
      BY <1>1, <2>3, <2>4 DEF EnsureConf
  <1>2. CASE Running \/ HupRead \/ HupCheck \/ Hup
    <2>1. UNCHANGED ServerConf
      BY <1>2 DEF Running, HupRead, HupCheck, Hup, ServerConf, Live
    <2>2. Phase' = Phase
      BY <1>2 DEF Running, HupRead, HupCheck, Hup, Phase, Asked, Served
    <2> QED
      BY <1>2, <2>1, <2>2, Stutters DEF Running, HupRead, HupCheck, Hup
  <1>3. CASE HupWait
    <2>1. Phase = "written" /\ ~changed
      BY <1>3 DEF HupWait, Phase, Asked, Served, ServiceInv
    <2>2. UNCHANGED <<ServerConf, conf, req, changed>>
      BY <1>3 DEF HupWait, ServerConf
    <2>3. CASE IsAlive
      <3>1. ServerConf # None
        BY <1>3, <2>3, AliveMeansServer DEF HupWait
      <3>2. Phase' = "served"
        BY <1>3, <2>3 DEF HupWait, Phase, Asked, Served
      <3> QED
        BY <2>1, <2>2, <3>1, <3>2, Zenon DEF Abstract!Next, Abstract!Keep
    <2>4. CASE ~IsAlive
      <3>1. Phase' = "written"
        BY <1>3, <2>4 DEF HupWait, Phase, Asked, Served
      <3> QED
        BY <2>1, <2>2, <3>1, Stutters
    <2> QED
      BY <2>3, <2>4
  <1> QED
    BY <1>1, <1>2, <1>3

\* What the processes do by themselves: a server that settles is the launch of the service,
\* one that ends or leaves is its death, and strangers are not seen.
LEMMA ProcessesRefine ==
  ASSUME FieldsOK, OwnerInv, ServiceInv, Undisturbed, NEW p \in Pids,
         Settles(p) \/ Leaves(p) \/ Exits(p) \/ Reused(p)
  PROVE  [Abstract!Next]_(Abstract!vars)
  <1>0. ~cutShort
    BY DEF ServiceInv
  <1> USE <1>0 DEF FieldsOK, callerVars, Steps, StopSteps, StartSteps, ReloadSteps
  <1>1. CASE Settles(p)
    <2>1. pc = "spawned" /\ pid = p /\ NoServer /\ pidfile = None /\ body[p] = req.body
      BY <1>1 DEF Settles, OwnerInv, ServiceInv, Pending
    <2>2. ServerConf = None /\ Phase = "written"
      BY <1>1, <2>1 DEF Settles, ServerConf, Phase, Asked, Served, Pending
    <2>3. CASE kind'[p] = "server"
      <3>1. ServerConf' = req.body
        BY <1>1, <2>1, <2>3 DEF Settles, ServerConf, Live
      <3>2. Phase' = "served"
        BY <1>1, <2>1, <2>3 DEF Settles, Phase, Asked, Served, Pending
      <3> QED
        BY <1>1, <2>2, <3>1, <3>2, Zenon DEF Settles, Abstract!Next, Abstract!Launch
    <2>4. CASE kind'[p] # "server"
      <3>1. ServerConf' = None
        BY <1>1, <2>1, <2>4 DEF Settles, ServerConf
      <3>2. Phase' = "written"
        BY <1>1, <2>1, <2>4 DEF Settles, Phase, Asked, Served, Pending
      <3> QED
        BY <1>1, <2>2, <3>1, <3>2, Stutters DEF Settles
    <2> QED
      BY <2>3, <2>4
  <1>2. CASE Leaves(p) \/ Exits(p) \/ Reused(p)
    <2>1. UNCHANGED <<conf, req, changed>>
      BY <1>2 DEF Leaves, Exits, Reused
    <2>2. Phase' = Phase
      BY <1>2 DEF Leaves, Exits, Reused, Phase, Asked, Served, Pending, Live
    <2>3. ServerConf' \in {ServerConf, None}
      BY <1>2 DEF Leaves, Exits, Reused, ServerConf, Live
    <2>4. CASE ServerConf' = ServerConf
      BY <2>1, <2>2, <2>4, Stutters
    <2>5. CASE ServerConf # None /\ ServerConf' = None
      BY <2>1, <2>2, <2>5, Zenon DEF Abstract!Next, Abstract!Dies
    <2> QED
      BY <2>3, <2>4, <2>5
  <1> QED
    BY <1>1, <1>2

\* Every step of the protocol is a step of the service or stutters.
LEMMA NextRefines ==
  ASSUME FieldsOK, OwnerInv, ServiceInv, Undisturbed, [Next]_vars
  PROVE  [Abstract!Next]_(Abstract!vars)
  <1>1. ASSUME NEW r \in Requests, Invoke(r) PROVE Abstract!Next
    <2>1. ServerConf' = ServerConf
      BY <1>1 DEF Invoke, ServerConf, procVars
    <2>2. Phase = "idle" /\ Phase' = "asked"
      BY <1>1 DEF Invoke, Phase, Asked, Served, Requests, StopSteps
    <2>3. r \in Abstract!Requests
      BY <1>1 DEF Requests, Abstract!Requests
    <2>4. Abstract!Ask(r)
      BY <1>1, <2>1, <2>2, Zenon DEF Invoke, Abstract!Ask
    <2> QED
      BY <2>3, <2>4, Zenon DEF Abstract!Next
  <1>2. CASE Return
    <2>1. UNCHANGED <<ServerConf, conf, changed>> /\ req' = None
      BY <1>2 DEF Return, Idle, ServerConf, procVars
    <2>2. Phase \in {"served", "failed"} /\ Phase' = "idle"
      BY <1>2 DEF Return, Idle, Phase, Asked, Served, StopSteps
    <2> QED
      BY <2>1, <2>2, Zenon DEF Abstract!Next, Abstract!Answer
  <1>3. CASE CallerStep
    BY <1>3, StopRefines, StartRefines, ReloadRefines, Zenon DEF CallerStep
  <1>4. CASE Processes
    BY <1>4, ProcessesRefine, Zenon DEF Processes
  <1>5. CASE UNCHANGED vars
    BY <1>5, Stutters DEF vars, callerVars, ServerConf, Phase, Asked, Served
  <1>6. ~Killed
    BY DEF Killed, Undisturbed
  <1> QED
    BY <1>1, <1>2, <1>3, <1>4, <1>5, <1>6 DEF Next, Caller

\* The invariant the refinement rests on.
THEOREM ServiceInvariant == Spec => []ServiceInv
  <1>1. Init => ServiceInv
    BY DEF Init, ServiceInv, NoServer, Pending, Live, Steps, StopSteps, StartSteps, ReloadSteps
  <1>2. TypeOK /\ OwnerInv /\ ServiceInv /\ [Next]_vars => ServiceInv'
    BY NextServes, Zenon DEF TypeOK
  <1> QED
    BY <1>1, <1>2, TypesHold, OwnerInvariant, PTL DEF Spec

\* As long as nothing imitates dnsmasq and no caller is killed in the middle, the pidfile,
\* the signals and the looks at /proc implement the abstract service that Host assumes.
THEOREM PidfileImplementsService == ASSUME Undisturbed PROVE Spec => ImplementsService
  <1>1. Init => Abstract!Init
    BY DEF Init, Abstract!Init, ServerConf, Phase
  <1>2. TypeOK /\ OwnerInv /\ ServiceInv /\ [Next]_vars => [Abstract!Next]_(Abstract!vars)
    BY NextRefines DEF TypeOK
  <1> QED
    BY <1>1, <1>2, TypesHold, OwnerInvariant, ServiceInvariant, PTL
       DEF Spec, ImplementsService, Abstract!Spec
=============================================================================
