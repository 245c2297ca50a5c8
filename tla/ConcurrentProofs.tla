-------------------------- MODULE ConcurrentProofs --------------------------
(***************************************************************************)
(* What holds of the daemon and a command beside it, for any hardware,     *)
(* configurations, failing steps, commands and number of disturbances.     *)
(*                                                                         *)
(* What ApplyProofs shows of a call holds of the command's as well: CmdP   *)
(* has the definitions of Cmd and those lemmas.                            *)
(***************************************************************************)
EXTENDS Concurrent, DaemonProofs

CmdP == INSTANCE ApplyProofs WITH pc <- pc2, op <- op2, job <- job2, sel <- sel2, out <- out2

\* A call is made with a configuration, and keeps it to the end: the one that a second
\* serve has applied is the one it serves with.
JobsTypeOK ==
  /\ pc # "idle" => job \in Configs
  /\ pc2 # "idle" => job2 \in Configs

ConcTypeOK ==
  /\ DaemonTypeOK
  /\ CmdP!ApplyTypeOK
  /\ JobsTypeOK
  /\ cmd \in Commands \cup {None}
  /\ clear \in BOOLEAN
  /\ clear2 \in BOOLEAN

\* A call that has had the host to itself finds at each step what the steps before it were
\* to establish; of the host nothing is known but that what is gone is bare.
CallsInv ==
  /\ GoneIsBare
  /\ clear => CallInv
  /\ clear2 => CmdP!CallInv

ConcInv == OwnCall /\ HealthInv /\ CallsInv

-----------------------------------------------------------------------------
(* The lemmas of ApplyProofs, for the call of the command.                 *)

\* The assumptions on the constants are the same for both calls.
LEMMA SameAssumptions == CmdP!HostAssumption /\ CmdP!ApplyAssumption
  BY HostAssumption, ApplyAssumption
     DEF Steps, Statuses, Routes, ConfBodies, ApplySteps, TeardownSteps, Modes, Addrs,
         SelectSteps, AfterSelect, GatewayIp, StaticIp, LeaseIp, PrepareSteps, DecideSteps,
         ClientSteps, StaticSteps, GatewaySteps, CmdP!Steps, CmdP!Statuses, CmdP!Routes,
         CmdP!ConfBodies, CmdP!ApplySteps, CmdP!TeardownSteps, CmdP!Modes, CmdP!Addrs,
         CmdP!SelectSteps, CmdP!AfterSelect, CmdP!GatewayIp, CmdP!StaticIp, CmdP!LeaseIp,
         CmdP!PrepareSteps, CmdP!DecideSteps, CmdP!ClientSteps, CmdP!StaticSteps,
         CmdP!GatewaySteps,
         CmdP!HostAssumption, CmdP!ApplyAssumption

\* So is the host: its types, what happens to it by itself, and what is gone.
LEMMA SameHost ==
  /\ HostTypeOK <=> CmdP!HostTypeOK
  /\ HostEnv <=> CmdP!HostEnv
  /\ GoneIsBare <=> CmdP!GoneIsBare
  /\ HostTypeOK' <=> CmdP!HostTypeOK'
  /\ GoneIsBare' <=> CmdP!GoneIsBare'
<1>1. (HostTypeOK <=> CmdP!HostTypeOK) /\ (HostTypeOK' <=> CmdP!HostTypeOK')
  BY DEF HostTypeOK, Addrs, Routes, ConfBodies, GatewayIp, StaticIp, LeaseIp, CmdP!HostTypeOK,
         CmdP!Addrs, CmdP!Routes, CmdP!ConfBodies, CmdP!GatewayIp, CmdP!StaticIp, CmdP!LeaseIp
<1>2. HostEnv <=> CmdP!HostEnv
  BY DEF HostEnv, HostEvent, LeaseAcquired, CableFlips, DeviceAppears, DeviceVanishes,
         DhclientDies, DnsmasqDies, Carrier, HasAddr, LeaseIp, FlushAddr, RouteWithout,
         CmdP!HostEnv, CmdP!HostEvent, CmdP!LeaseAcquired, CmdP!CableFlips, CmdP!DeviceAppears,
         CmdP!DeviceVanishes, CmdP!DhclientDies, CmdP!DnsmasqDies, CmdP!Carrier, CmdP!HasAddr,
         CmdP!LeaseIp, CmdP!FlushAddr, CmdP!RouteWithout
<1>3. (GoneIsBare <=> CmdP!GoneIsBare) /\ (GoneIsBare' <=> CmdP!GoneIsBare')
  BY DEF GoneIsBare, CmdP!GoneIsBare
<1> QED
  BY <1>1, <1>2, <1>3

\* The command's call takes the steps that ApplyProofs is about.
LEMMA SameStep == Cmd!CallStep <=> CmdP!CallStep
  BY DEF Cmd!CallStep, Cmd!ResolvePinned, Cmd!ResolveAutoFails, Cmd!ResolveAutoCarrier,
         Cmd!ResolveAutoBringUp, Cmd!ResolveAutoPoll, Cmd!IsolateIface, Cmd!BringUp,
         Cmd!StopDhclient, Cmd!StopOwnDnsmasq, Cmd!ProbeForeignDhcp, Cmd!AssignStatic,
         Cmd!CheckLocal, Cmd!Ping, Cmd!ClientStop, Cmd!ClientFlush, Cmd!ClientStart,
         Cmd!ClientWait, Cmd!StaticStop, Cmd!StaticRoute, Cmd!GatewayFlush, Cmd!GatewayAdd,
         Cmd!GatewayRoute, Cmd!GatewayDnsmasq, Cmd!TdResolve, Cmd!TdStop, Cmd!TdFlush,
         Cmd!TdRoute, Cmd!At, Cmd!Resolved, Cmd!Fail, Cmd!hostVars, Cmd!FailsAt,
         Cmd!WithCarrier, Cmd!First, Cmd!Spared, Cmd!Others, Cmd!RouteWithout, Cmd!Goto,
         Cmd!addrVars, Cmd!procVars, Cmd!linkVars, Cmd!Carrier, Cmd!Cidr, Cmd!AddAddr,
         Cmd!StaticIp, Cmd!AddrIsLocal, Cmd!GatewayIp, Cmd!FlushAddr, Cmd!StartDhclient,
         Cmd!Return, Cmd!Status, Cmd!CanAdd, Cmd!DelDefault, Cmd!DnsmasqReload, Cmd!HasAddr,
         Cmd!DnsmasqReloadFails, Cmd!NeedsIsolation, CmdP!CallStep, CmdP!ResolvePinned,
         CmdP!ResolveAutoFails, CmdP!ResolveAutoCarrier, CmdP!ResolveAutoBringUp,
         CmdP!ResolveAutoPoll, CmdP!IsolateIface, CmdP!BringUp, CmdP!StopDhclient,
         CmdP!StopOwnDnsmasq, CmdP!ProbeForeignDhcp, CmdP!AssignStatic, CmdP!CheckLocal,
         CmdP!Ping, CmdP!ClientStop, CmdP!ClientFlush, CmdP!ClientStart, CmdP!ClientWait,
         CmdP!StaticStop, CmdP!StaticRoute, CmdP!GatewayFlush, CmdP!GatewayAdd,
         CmdP!GatewayRoute, CmdP!GatewayDnsmasq, CmdP!TdResolve, CmdP!TdStop, CmdP!TdFlush,
         CmdP!TdRoute, CmdP!At, CmdP!Resolved, CmdP!Fail, CmdP!hostVars, CmdP!FailsAt,
         CmdP!WithCarrier, CmdP!First, CmdP!Spared, CmdP!Others, CmdP!RouteWithout, CmdP!Goto,
         CmdP!addrVars, CmdP!procVars, CmdP!linkVars, CmdP!Carrier, CmdP!Cidr, CmdP!AddAddr,
         CmdP!StaticIp, CmdP!AddrIsLocal, CmdP!GatewayIp, CmdP!FlushAddr, CmdP!StartDhclient,
         CmdP!Return, CmdP!Status, CmdP!CanAdd, CmdP!DelDefault, CmdP!DnsmasqReload,
         CmdP!HasAddr, CmdP!DnsmasqReloadFails, CmdP!NeedsIsolation

\* A step of the command's call keeps the types, and the configuration.
LEMMA CommandKeepsTypes ==
  ASSUME CmdP!ApplyTypeOK, Cmd!CallStep
  PROVE  CmdP!ApplyTypeOK' /\ pc2 # "idle" /\ job2' = job2
<1>1. CmdP!ApplyTypeOK'
  BY SameAssumptions, SameStep, CmdP!CallKeepsTypes DEF CmdP!CallKeepsTypes
<1>2. pc2 \in CmdP!Steps /\ UNCHANGED <<op2, job2>>
  BY SameAssumptions, SameStep, CmdP!CallStepShape DEF CmdP!CallStepShape
<1> QED
  BY <1>1, <1>2 DEF CmdP!Steps, CmdP!ApplySteps, CmdP!TeardownSteps, CmdP!SelectSteps,
     CmdP!AfterSelect, CmdP!PrepareSteps, CmdP!DecideSteps, CmdP!ClientSteps, CmdP!StaticSteps,
     CmdP!GatewaySteps

\* A step of the command's call raises nothing that is gone, and hands the next step what
\* it finds.
LEMMA CommandKeepsCall ==
  ASSUME CmdP!ApplyTypeOK, GoneIsBare, Cmd!CallStep
  PROVE  GoneIsBare' /\ (CmdP!CallInv => CmdP!CallInv')
<1>1. GoneIsBare'
  BY SameAssumptions, SameStep, SameHost, CmdP!CallKeepsGone DEF CmdP!CallKeepsGone
<1>2. ASSUME CmdP!CallInv PROVE CmdP!CallInv'
  BY <1>2, SameAssumptions, SameStep, CmdP!CallKeepsInv DEF CmdP!CallKeepsInv
<1> QED
  BY <1>1, <1>2

\* The host by itself does not disturb the command's call.
LEMMA HostKeepsCommand ==
  ASSUME CmdP!ApplyTypeOK, CmdP!CallInv, HostEnv, UNCHANGED cmdVars
  PROVE  CmdP!CallInv'
  BY SameAssumptions, SameHost, CmdP!HostKeepsInv DEF CmdP!HostKeepsInv, CmdP!callVars, cmdVars

\* A command that is over, or has only just begun, owes nothing to what is on the host.
LEMMA CommandFresh ==
  ASSUME GoneIsBare', pc2' \in {"idle", "resolve", "tdResolve"}
  PROVE  CmdP!CallInv'
  BY SameAssumptions, SameHost, CmdP!CallFresh DEF CmdP!CallFresh

-----------------------------------------------------------------------------
(* Types.                                                                  *)

\* The daemon is well typed as long as the host it works on is.
LEMMA HostTypesSuffice ==
  ASSUME DaemonTypeOK, HostTypeOK', UNCHANGED <<callVars, daemonVars>>
  PROVE  DaemonTypeOK'
  BY DEF DaemonTypeOK, FlagsTypeOK, ApplyTypeOK, callVars, daemonVars, sharedVars, linkState,
         inboxVars, fileVars, ghostVars

\* So is the command.
LEMMA HostTypesSufficeForCommand ==
  ASSUME CmdP!ApplyTypeOK, HostTypeOK', UNCHANGED cmdVars
  PROVE  CmdP!ApplyTypeOK'
<1>1. CmdP!HostTypeOK'
  BY SameHost
<1> QED
  BY <1>1 DEF CmdP!ApplyTypeOK, cmdVars

\* The daemon's call is made with a configuration too.
LEMMA DaemonKeepsJob ==
  ASSUME DaemonTypeOK, DaemonTypeOK', pc # "idle" => job \in Configs, [Next]_vars
  PROVE  pc' # "idle" => job' \in Configs
<1>1. ASSUME NoCall \/ UNCHANGED callVars PROVE pc' # "idle" => job' \in Configs
  BY <1>1 DEF NoCall, callVars
<1>2. ASSUME NEW c, Begin("apply", c) PROVE pc' # "idle" => job' \in Configs
  <2>1. pc' \in Steps
    BY <1>2 DEF Begin, Steps, ApplySteps, SelectSteps
  <2> QED
    BY <2>1 DEF DaemonTypeOK, ApplyTypeOK
<1>3. CASE Serve \/ OnConfigReload \/ OnReconfigure \/ TickNoCarrier
  BY <1>1, <1>2, <1>3 DEF Serve, OnConfigReload, OnReconfigure, TickNoCarrier, Call
<1>4. CASE InitialApplyReturns \/ StoreStatus \/ CallFailed
  BY <1>1, <1>4 DEF InitialApplyReturns, StoreStatus, CallFailed
<1>5. CASE Crash \/ Term \/ LoopTop
  BY <1>1, <1>5 DEF Crash, Term, LoopTop, Exit
<1>6. CASE ApplyRuns
  BY <1>6, CallStepShape
     DEF ApplyRuns, DaemonTypeOK, Steps, ApplySteps, TeardownSteps, SelectSteps, AfterSelect,
         PrepareSteps, DecideSteps, ClientSteps, StaticSteps, GatewaySteps
<1>7. CASE \/ StartListening \/ SetHealthy \/ NoTick \/ TickEmptyIface \/ TickCarrier
           \/ MaybeSelfHeal \/ TickRefresh \/ TickVerdict
  BY <1>1, <1>7 DEF StartListening, SetHealthy, NoTick, TickEmptyIface, TickCarrier,
                    MaybeSelfHeal, TickRefresh, TickVerdict
<1>8. CASE IpcReconfigure \/ FileWrite \/ Debounce \/ Clock \/ Environment \/ UNCHANGED vars
  BY <1>1, <1>8 DEF IpcReconfigure, FileWrite, Debounce, Clock, Environment, vars
<1> QED
  BY <1>3, <1>4, <1>5, <1>6, <1>7, <1>8 DEF Next, Thread

\* A step of the daemon, of its other threads or of the world is one of module Daemon.
LEMMA BesideIsNext ==
  ASSUME DaemonRuns \/ Outside
  PROVE  Next /\ UNCHANGED cmdVars /\ clear' = (pc = "idle" \/ clear)
  BY DEF DaemonRuns, Outside, Beside, Next

\* The steps of the daemon, of the command and of the world keep every variable in its type.
LEMMA ConcKeepsTypes ==
  ASSUME ConcTypeOK, [ConcNext]_concVars
  PROVE  ConcTypeOK'
<1>0. CmdP!ApplyTypeOK /\ DaemonTypeOK /\ HostTypeOK
  BY DEF ConcTypeOK, DaemonTypeOK, ApplyTypeOK
<1>1. CASE DaemonRuns \/ Outside
  <2>1. Next /\ UNCHANGED cmdVars /\ clear' = (pc = "idle" \/ clear)
    BY <1>1, BesideIsNext
  <2>2. DaemonTypeOK'
    BY <1>0, <2>1, DaemonKeepsTypes
  <2>3. CmdP!ApplyTypeOK'
    BY <1>0, <2>1, <2>2, HostTypesSufficeForCommand DEF DaemonTypeOK, ApplyTypeOK
  <2>4. JobsTypeOK'
    BY <1>0, <2>1, <2>2, DaemonKeepsJob DEF ConcTypeOK, JobsTypeOK, cmdVars
  <2>5. clear' \in BOOLEAN
    BY <2>1
  <2>6. clear2' \in BOOLEAN
    BY <1>1 DEF DaemonRuns, Outside, Beside, ConcTypeOK
  <2>7. (cmd \in Commands \cup {None})'
    BY <2>1 DEF ConcTypeOK, cmdVars
  <2> QED
    BY <2>2, <2>3, <2>4, <2>5, <2>6, <2>7 DEF ConcTypeOK
<1>2. ASSUME NEW c \in Commands, Invoke(c) PROVE ConcTypeOK'
  <2>1. Load(file) \in Configs
    BY <1>0, <1>2, LoadValid DEF Invoke, DaemonTypeOK
  <2>2. UNCHANGED hostVars /\ UNCHANGED callVars /\ HostTypeOK'
    BY <1>0, <1>2 DEF Invoke, HostTypeOK, hostVars
  <2>3. DaemonTypeOK'
    <3>1. FlagsTypeOK'
      <4>1. dirty' \in BOOLEAN
        BY <1>2 DEF Invoke
      <4> QED
        BY <1>0, <1>2, <4>1 DEF Invoke, DaemonTypeOK, FlagsTypeOK, linkState
    <3>2. file' \in Files \cup {DefaultConfig}
      BY <1>0, <1>2 DEF Invoke, DaemonTypeOK, Load
    <3>3. ApplyTypeOK'
      BY <1>0, <2>2 DEF DaemonTypeOK, ApplyTypeOK, callVars
    <3>4. inputs' \in 0 .. MaxInputs
      BY <1>0, <1>2, DaemonAssumption DEF Invoke, DaemonTypeOK, Disturb
    <3> QED
      BY <1>0, <1>2, <3>1, <3>2, <3>3, <3>4 DEF Invoke, DaemonTypeOK, linkState, sharedVars
  <2>4. /\ pc2' \in {"resolve", "tdResolve"}
        /\ op2' = IF pc2' = "resolve" THEN "apply" ELSE "teardown"
        /\ job2' = Load(file)
        /\ UNCHANGED <<sel2, out2>>
    BY <1>2, ConcurrentAssumption DEF Invoke, Cmd!Begin
  <2>5. CmdP!ApplyTypeOK'
    <3>1. CmdP!HostTypeOK'
      BY <2>2, SameHost
    <3> QED
      BY <1>0, <2>1, <2>4, <3>1
         DEF CmdP!ApplyTypeOK, CmdP!Steps, CmdP!ApplySteps, CmdP!TeardownSteps, CmdP!SelectSteps,
             CmdP!AfterSelect, CmdP!PrepareSteps, CmdP!DecideSteps, CmdP!ClientSteps,
             CmdP!StaticSteps, CmdP!GatewaySteps
  <2>6. JobsTypeOK'
    BY <2>1, <2>2, <2>4 DEF ConcTypeOK, JobsTypeOK, callVars
  <2>7. cmd' \in Commands /\ clear2' = TRUE /\ UNCHANGED clear
    BY <1>2 DEF Invoke
  <2> QED
    BY <2>3, <2>5, <2>6, <2>7 DEF ConcTypeOK
<1>3. CASE CommandRuns
  <2>1. Cmd!CallStep /\ UNCHANGED <<cmd, callVars, daemonVars, clear2>> /\ clear' \in BOOLEAN
    BY <1>3 DEF CommandRuns
  <2>2. CmdP!ApplyTypeOK' /\ pc2 # "idle" /\ job2' = job2
    BY <1>0, <2>1, CommandKeepsTypes
  <2>3. HostTypeOK'
    BY <2>2, SameHost DEF CmdP!ApplyTypeOK
  <2>4. DaemonTypeOK'
    BY <1>0, <2>1, <2>3, HostTypesSuffice
  <2>5. JobsTypeOK'
    BY <2>1, <2>2 DEF ConcTypeOK, JobsTypeOK, callVars
  <2> QED
    BY <2>1, <2>2, <2>4, <2>5 DEF ConcTypeOK
<1>4. ASSUME CommandGone, HostTypeOK' PROVE CmdP!ApplyTypeOK' /\ pc2' = "idle" /\ cmd' = None
  <2>1. CmdP!HostTypeOK'
    BY <1>4, SameHost
  <2> QED
    BY <1>4, <2>1
       DEF CommandGone, Cmd!NoCall, CmdP!ApplyTypeOK, CmdP!Steps, CmdP!ApplySteps,
           CmdP!TeardownSteps, CmdP!SelectSteps, CmdP!AfterSelect, CmdP!PrepareSteps,
           CmdP!DecideSteps, CmdP!ClientSteps, CmdP!StaticSteps, CmdP!GatewaySteps
<1>5. CASE CommandExits \/ CommandKilled
  <2>1. CommandGone /\ UNCHANGED <<hostVars, callVars, clear, clear2>>
    BY <1>5 DEF CommandExits, CommandKilled, vars
  <2>2. HostTypeOK'
    BY <1>0, <2>1 DEF HostTypeOK, hostVars
  <2>3. DaemonTypeOK'
    <3>1. CASE CommandExits
      BY <1>0, <2>2, <3>1, HostTypesSuffice DEF CommandExits, vars
    <3>2. CASE CommandKilled
      <4>1. inputs' \in 0 .. MaxInputs
        BY <1>0, <3>2, DaemonAssumption DEF CommandKilled, DaemonTypeOK, Disturb
      <4>2. ApplyTypeOK'
        BY <1>0, <2>1, <2>2 DEF DaemonTypeOK, ApplyTypeOK, callVars
      <4>3. FlagsTypeOK'
        BY <1>0, <3>2 DEF CommandKilled, DaemonTypeOK, FlagsTypeOK, linkState, inboxVars, fileVars
      <4> QED
        BY <1>0, <3>2, <4>1, <4>2, <4>3
           DEF CommandKilled, DaemonTypeOK, sharedVars, linkState, inboxVars, fileVars
    <3> QED
      BY <1>5, <3>1, <3>2
  <2>4. CmdP!ApplyTypeOK' /\ pc2' = "idle" /\ cmd' = None
    BY <1>4, <2>1, <2>2
  <2> QED
    BY <2>1, <2>3, <2>4 DEF ConcTypeOK, JobsTypeOK, callVars
<1>6. CASE TakesOver
  <2>1. /\ UNCHANGED <<hostVars, health, linkState, inboxVars, file, ghostVars, clear>>
        /\ NoCall /\ loop' = "watch" /\ config' = job2 /\ clear2' = clear
        /\ status' = (IF out2 = None THEN EmptyStatus ELSE out2)
        /\ missed' \in BOOLEAN
    BY <1>6 DEF TakesOver
  <2>2. HostTypeOK'
    BY <1>0, <2>1 DEF HostTypeOK, hostVars
  <2>3. job2 \in Configs
    BY <1>6 DEF TakesOver, ConcTypeOK, JobsTypeOK
  <2>4. status' \in Statuses
    <3>1. out2 \in CmdP!Statuses \cup {None}
      BY <1>0 DEF CmdP!ApplyTypeOK
    <3>2. CmdP!Statuses = Statuses
      BY DEF CmdP!Statuses, CmdP!Modes, CmdP!Addrs, CmdP!GatewayIp, CmdP!StaticIp, CmdP!LeaseIp,
             Statuses, Modes, Addrs, GatewayIp, StaticIp, LeaseIp
    <3>3. EmptyStatus \in Statuses
      BY DEF EmptyStatus, Statuses, Modes
    <3> QED
      BY <2>1, <3>1, <3>2, <3>3
  <2>5. DaemonTypeOK'
    <3>1. ApplyTypeOK'
      BY <2>1, <2>2 DEF NoCall, ApplyTypeOK, Steps, ApplySteps, TeardownSteps, SelectSteps,
         AfterSelect, PrepareSteps, DecideSteps, ClientSteps, StaticSteps, GatewaySteps
    <3>2. FlagsTypeOK'
      BY <1>0, <2>1 DEF DaemonTypeOK, FlagsTypeOK, linkState, inboxVars, ghostVars
    <3> QED
      BY <1>0, <2>1, <2>3, <2>4, <3>1, <3>2
         DEF DaemonTypeOK, linkState, inboxVars, ghostVars, Starting
  <2>6. CASE CommandGone
    <3>1. CmdP!ApplyTypeOK' /\ pc2' = "idle" /\ cmd' = None
      BY <1>4, <2>2, <2>6
    <3> QED
      BY <2>1, <2>5, <3>1 DEF ConcTypeOK, JobsTypeOK, NoCall
  <2>7. CASE pc2' = pc /\ op2' = op /\ job2' = job /\ sel2' = sel /\ out2' = out /\ UNCHANGED cmd
    <3>1. CmdP!ApplyTypeOK'
      <4>1. CmdP!HostTypeOK'
        BY <2>2, SameHost
      <4>2. ApplyTypeOK
        BY <1>0 DEF DaemonTypeOK
      <4>3. CmdP!Statuses = Statuses /\ CmdP!Steps = Steps /\ CmdP!AfterSelect = AfterSelect
             /\ CmdP!ApplySteps = ApplySteps /\ CmdP!TeardownSteps = TeardownSteps
        BY DEF CmdP!Statuses, CmdP!Modes, CmdP!Addrs, CmdP!GatewayIp, CmdP!StaticIp, CmdP!LeaseIp,
               Statuses, Modes, Addrs, GatewayIp, StaticIp, LeaseIp,
               CmdP!Steps, CmdP!ApplySteps, CmdP!TeardownSteps, CmdP!SelectSteps,
               CmdP!AfterSelect, CmdP!PrepareSteps, CmdP!DecideSteps, CmdP!ClientSteps,
               CmdP!StaticSteps, CmdP!GatewaySteps, Steps, ApplySteps, TeardownSteps, SelectSteps,
               AfterSelect, PrepareSteps, DecideSteps, ClientSteps, StaticSteps, GatewaySteps
      <4> QED
        BY <2>7, <4>1, <4>2, <4>3 DEF CmdP!ApplyTypeOK, ApplyTypeOK
    <3> QED
      BY <2>1, <2>5, <2>7, <3>1 DEF ConcTypeOK, JobsTypeOK, NoCall
  <2> QED
    BY <1>6, <2>6, <2>7 DEF TakesOver
<1>7. CASE UNCHANGED concVars
  <2>1. UNCHANGED <<hostVars, callVars, daemonVars, cmdVars, clear, clear2>>
    BY <1>7 DEF concVars, vars
  <2>2. HostTypeOK'
    BY <1>0, <2>1 DEF HostTypeOK, hostVars
  <2>3. DaemonTypeOK' /\ CmdP!ApplyTypeOK'
    BY <1>0, <2>1, <2>2, HostTypesSuffice, HostTypesSufficeForCommand
  <2> QED
    BY <2>1, <2>3 DEF ConcTypeOK, JobsTypeOK, callVars, cmdVars
<1> QED
  BY <1>1, <1>2, <1>3, <1>5, <1>6, <1>7 DEF ConcNext
-----------------------------------------------------------------------------
(* The inductive invariant.                                                *)

\* A call keeps what it found while the host and the call itself stand still.
LEMMA CallAtRest ==
  ASSUME UNCHANGED hostVars
  PROVE  /\ GoneIsBare => GoneIsBare'
         /\ UNCHANGED callVars /\ CallInv => CallInv'
         /\ UNCHANGED cmdVars /\ CmdP!CallInv => CmdP!CallInv'
<1> USE DEF hostVars, linkVars, addrVars, procVars
<1>1. GoneIsBare => GoneIsBare'
  BY DEF GoneIsBare
<1>2. UNCHANGED callVars /\ CallInv => CallInv'
  BY DEF callVars, CallInv, GoneIsBare, NoSelfDiscovery, Isolated, Works, IsolationHolds,
         AddrIsLocal, HasAddr
<1>3. UNCHANGED cmdVars /\ CmdP!CallInv => CmdP!CallInv'
  BY DEF cmdVars, CmdP!CallInv, CmdP!GoneIsBare, CmdP!NoSelfDiscovery, CmdP!Isolated,
         CmdP!Works, CmdP!IsolationHolds, CmdP!AddrIsLocal, CmdP!HasAddr
<1> QED
  BY <1>1, <1>2, <1>3

\* The call of a daemon that is refused goes on as the command's, owing what it owed.
LEMMA CallIsHandedOver ==
  ASSUME CallInv, UNCHANGED hostVars,
         pc2' = pc, op2' = op, job2' = job, sel2' = sel, out2' = out
  PROVE  CmdP!CallInv'
  BY DEF hostVars, linkVars, addrVars, procVars,
         CallInv, GoneIsBare, NoSelfDiscovery, Isolated, Works, IsolationHolds,
         AddrIsLocal, HasAddr, GatewayIp, LeaseIp, Silent, Unleased, AfterSelect, PrepareSteps,
         DecideSteps, ClientSteps, StaticSteps, GatewaySteps,
         CmdP!CallInv, CmdP!GoneIsBare, CmdP!NoSelfDiscovery, CmdP!Isolated, CmdP!Works,
         CmdP!IsolationHolds, CmdP!AddrIsLocal, CmdP!HasAddr, CmdP!GatewayIp, CmdP!LeaseIp,
         CmdP!Silent, CmdP!Unleased, CmdP!AfterSelect, CmdP!PrepareSteps, CmdP!DecideSteps,
         CmdP!ClientSteps, CmdP!StaticSteps, CmdP!GatewaySteps

\* What happens beside the daemon's thread leaves the host alone, or is the host's own doing.
LEMMA OutsideHost ==
  ASSUME Outside
  PROVE  HostEnv \/ UNCHANGED hostVars
<1>1. CASE Environment
  BY <1>1 DEF Environment, HostEnv
<1>2. CASE Serve \/ Crash \/ Term
  BY <1>2 DEF Serve, Crash, Term, Exit
<1>3. CASE IpcReconfigure \/ FileWrite \/ Debounce \/ Clock
  BY <1>3 DEF IpcReconfigure, FileWrite, Debounce, Clock
<1> QED
  BY <1>1, <1>2, <1>3 DEF Outside, Beside

\* Whatever the daemon, the command and the world do, a call that has the host to itself
\* finds its own work undone by nobody, and the health of the daemon stays in order.
LEMMA ConcKeepsInv ==
  ASSUME ConcTypeOK, ConcInv, [ConcNext]_concVars
  PROVE  ConcInv'
<1>0. /\ DaemonTypeOK /\ CmdP!ApplyTypeOK /\ OwnCall /\ HealthInv /\ GoneIsBare
      /\ clear => CallInv
      /\ clear2 => CmdP!CallInv
  BY DEF ConcTypeOK, ConcInv, CallsInv
<1>1. ASSUME DaemonRuns \/ Outside PROVE ConcInv'
  <2>1. Next /\ UNCHANGED cmdVars /\ clear' = (pc = "idle" \/ clear)
    BY <1>1, BesideIsNext
  <2>2. OwnCall' /\ HealthInv' /\ GoneIsBare'
    BY <1>0, <2>1, DaemonKeepsOwnCall, DaemonKeepsHealth, DaemonKeepsGone
  <2>3. clear' => CallInv'
    <3>1. pc = "idle" => CallInv
      BY <1>0, FreshCall
    <3> QED
      BY <1>0, <2>1, <3>1, DaemonKeepsCallInv
  <2>4. clear2' => CmdP!CallInv'
    <3>1. CASE DaemonRuns
      BY <1>0, <2>1, <3>1, CallAtRest DEF DaemonRuns
    <3>2. CASE Outside
      <4>1. clear2' = clear2
        BY <3>2 DEF Outside, Beside
      <4> QED
        BY <1>0, <2>1, <3>2, <4>1, OutsideHost, HostKeepsCommand, CallAtRest
    <3> QED
      BY <1>1, <3>1, <3>2
  <2> QED
    BY <2>2, <2>3, <2>4 DEF ConcInv, CallsInv
\* The daemon and its call stand still.
<1>2. ASSUME UNCHANGED <<callVars, loop, sharedVars, linkState>> PROVE OwnCall' /\ HealthInv'
  <2>1. OwnCall'
    BY <1>0, <1>2 DEF OwnCall, callVars
  <2> QED
    BY <1>0, <1>2, <2>1, HealthUntouched DEF linkState, callVars
<1>3. ASSUME NEW c \in Commands, Invoke(c) PROVE ConcInv'
  <2>1. UNCHANGED <<hostVars, callVars, loop, sharedVars, linkState, clear>>
    BY <1>3 DEF Invoke
  <2>2. pc2' \in {"resolve", "tdResolve"}
    BY <1>3 DEF Invoke, Cmd!Begin
  <2>3. GoneIsBare' /\ (clear' => CallInv')
    BY <1>0, <2>1, CallAtRest
  <2>4. CmdP!CallInv'
    BY <2>2, <2>3, CommandFresh
  <2> QED
    BY <1>2, <2>1, <2>3, <2>4 DEF ConcInv, CallsInv
<1>4. ASSUME CommandRuns PROVE ConcInv'
  <2>1. /\ Cmd!CallStep
        /\ UNCHANGED <<callVars, daemonVars, clear2>>
        /\ clear' = (clear /\ (pc = "idle" \/ UNCHANGED hostVars))
    BY <1>4 DEF CommandRuns
  <2>2. GoneIsBare' /\ (clear2' => CmdP!CallInv')
    BY <1>0, <2>1, CommandKeepsCall
  <2>3. clear' => CallInv'
    <3>1. pc = "idle" => pc' = "idle"
      BY <2>1 DEF callVars
    <3> QED
      BY <1>0, <2>1, <2>2, <3>1, CallFresh, CallAtRest
  <2>4. OwnCall' /\ HealthInv'
    BY <1>2, <2>1 DEF daemonVars
  <2> QED
    BY <2>2, <2>3, <2>4 DEF ConcInv, CallsInv
<1>5. ASSUME CommandExits \/ CommandKilled PROVE ConcInv'
  <2>1. /\ UNCHANGED <<hostVars, callVars, loop, sharedVars, linkState, clear>>
        /\ pc2' = "idle"
    BY <1>5 DEF CommandExits, CommandKilled, CommandGone, Cmd!NoCall, vars, daemonVars
  <2>2. GoneIsBare' /\ (clear' => CallInv')
    BY <1>0, <2>1, CallAtRest
  <2>3. CmdP!CallInv'
    BY <2>1, <2>2, CommandFresh
  <2> QED
    BY <1>2, <2>1, <2>2, <2>3 DEF ConcInv, CallsInv
<1>6. ASSUME TakesOver PROVE ConcInv'
  <2>1. /\ UNCHANGED <<hostVars, health, linkState, clear>>
        /\ ~Listening /\ loop' = "watch" /\ pc' = "idle" /\ clear2' = clear
    BY <1>6 DEF TakesOver, NoCall
  <2>2. GoneIsBare'
    BY <1>0, <2>1, CallAtRest
  <2>3. CallInv'
    BY <2>1, <2>2, CallFresh
  <2>4. OwnCall'
    BY <2>1 DEF OwnCall
  <2>5. HealthInv'
    <3>1. loop \in {"dead"} \cup Starting
      BY <1>0, <2>1 DEF Listening, DaemonTypeOK
    <3>2. health = "ok" /\ streak = 0 /\ down = None
      BY <1>0, <3>1 DEF HealthInv
    <3> QED
      BY <2>1, <3>2, DaemonAssumption
         DEF HealthInv, HealthIsHysteretic, LinkDownIsHealthy, ReasonMatchesStatus, linkState,
             Starting
  <2>6. clear2' => CmdP!CallInv'
    <3>1. CASE loop = "start"
      BY <1>0, <1>6, <2>1, <3>1, CallIsHandedOver DEF TakesOver
    <3>2. CASE loop # "start"
      BY <1>6, <2>2, <3>2, CommandFresh DEF TakesOver, CommandGone, Cmd!NoCall
    <3> QED
      BY <3>1, <3>2
  <2> QED
    BY <2>2, <2>3, <2>4, <2>5, <2>6 DEF ConcInv, CallsInv
<1>7. ASSUME UNCHANGED concVars PROVE ConcInv'
  <2>1. /\ UNCHANGED <<hostVars, callVars, loop, sharedVars, linkState, cmdVars, clear, clear2>>
    BY <1>7 DEF concVars, vars, daemonVars
  <2>2. GoneIsBare' /\ (clear' => CallInv') /\ (clear2' => CmdP!CallInv')
    BY <1>0, <2>1, CallAtRest
  <2> QED
    BY <1>2, <2>1, <2>2 DEF ConcInv, CallsInv
<1> QED
  BY <1>1, <1>3, <1>4, <1>5, <1>6, <1>7 DEF ConcNext

-----------------------------------------------------------------------------
(* The theorems.                                                           *)

\* A freshly booted host, with neither a daemon nor a command, is in order.
LEMMA ConcStarts == ConcInit => ConcTypeOK /\ ConcInv
<1> SUFFICES ASSUME ConcInit PROVE ConcTypeOK /\ ConcInv
  OBVIOUS
<1>1. DaemonTypeOK
  BY DaemonStartsTyped DEF ConcInit
<1>2. DaemonInv
  BY DaemonStartsInv DEF ConcInit
<1>3. CmdP!ApplyTypeOK
  <2>1. CmdP!HostTypeOK
    BY <1>1, SameHost DEF DaemonTypeOK, ApplyTypeOK
  <2> QED
    BY <2>1 DEF ConcInit, CmdP!ApplyTypeOK, CmdP!Steps, CmdP!ApplySteps, CmdP!TeardownSteps,
       CmdP!SelectSteps, CmdP!AfterSelect, CmdP!PrepareSteps, CmdP!DecideSteps, CmdP!ClientSteps,
       CmdP!StaticSteps, CmdP!GatewaySteps
<1>4. CmdP!CallInv
  <2>1. CmdP!GoneIsBare
    BY <1>2, SameHost DEF DaemonInv, CallInv
  <2> QED
    BY <2>1, SameAssumptions, CmdP!FreshCall DEF CmdP!FreshCall, ConcInit
<1>5. ConcTypeOK
  BY <1>1, <1>3 DEF ConcInit, Init, CallInit, ConcTypeOK, JobsTypeOK
<1>6. ConcInv
  BY <1>2, <1>4 DEF DaemonInv, ServerInv, CallInv, ConcInv, CallsInv
<1> QED
  BY <1>5, <1>6

\* Every reachable state of the daemon and the command beside it is well typed.
THEOREM ConcTypeCorrect == ConcSpec => []ConcTypeOK
<1> QED
  BY ConcStarts, ConcKeepsTypes, PTL DEF ConcSpec

\* However the steps of the daemon and of commands interleave, whatever is killed, refused
\* or taken over, a call that has had the host to itself finds at each step what the steps
\* before it were to establish.
THEOREM ConcInvariant == ConcSpec => []ConcInv
<1> QED
  BY ConcStarts, ConcKeepsInv, ConcTypeCorrect, PTL DEF ConcSpec

\* The probe and the ping of a call that is not disturbed by the other process never
\* discover micronet itself.
THEOREM ProbesBesideCommands == ConcSpec => []UndisturbedProbes
<1>1. Cmd!NoSelfDiscovery <=> CmdP!NoSelfDiscovery
  BY DEF Cmd!NoSelfDiscovery, Cmd!AddrIsLocal, Cmd!HasAddr, Cmd!GatewayIp,
         CmdP!NoSelfDiscovery, CmdP!AddrIsLocal, CmdP!HasAddr, CmdP!GatewayIp
<1>2. ConcInv => UndisturbedProbes
  BY <1>1 DEF ConcInv, CallsInv, UndisturbedProbes, CallInv, CmdP!CallInv
<1> QED
  BY <1>2, ConcInvariant, PTL

\* Beside a command, too, only a step of the daemon's call completes it.
LEMMA DaemonCompletesBeside ==
  ASSUME [ConcNext]_concVars, Completes("apply")
  PROVE  CallStep
<1>1. ASSUME NoCall \/ UNCHANGED callVars PROVE FALSE
  BY <1>1 DEF Completes, NoCall, callVars
<1>2. CASE DaemonRuns \/ Outside
  BY <1>2, BesideIsNext, DaemonCompletes
<1>3. ASSUME NEW c \in Commands, Invoke(c) PROVE FALSE
  BY <1>1, <1>3 DEF Invoke
<1>4. CASE CommandRuns \/ CommandExits \/ CommandKilled \/ TakesOver \/ UNCHANGED concVars
  BY <1>1, <1>4 DEF CommandRuns, CommandExits, CommandKilled, TakesOver, concVars, vars
<1> QED
  BY <1>2, <1>3, <1>4 DEF ConcNext

\* Only a step of the command's call completes it; a call that a second serve hands over
\* took its steps as the daemon's.
LEMMA CommandCompletes ==
  ASSUME [ConcNext]_concVars, pc2 # "done", pc2' = "done"
  PROVE  Cmd!CallStep
<1>1. CASE DaemonRuns \/ Outside
  BY <1>1, BesideIsNext DEF cmdVars
<1>2. ASSUME NEW c \in Commands, Invoke(c) PROVE FALSE
  BY <1>2 DEF Invoke, Cmd!Begin
<1>3. CASE CommandRuns
  BY <1>3 DEF CommandRuns
<1>4. CASE CommandExits \/ CommandKilled
  BY <1>4 DEF CommandExits, CommandKilled, CommandGone, Cmd!NoCall
<1>5. CASE TakesOver
  BY <1>5 DEF TakesOver
<1>6. CASE UNCHANGED concVars
  BY <1>6 DEF concVars, cmdVars
<1> QED
  BY <1>1, <1>2, <1>3, <1>4, <1>5, <1>6 DEF ConcNext

\* The next call that has the host to itself makes good whatever mess two processes left.
THEOREM NextCallMakesGood == ConcSpec => NextCallRecovers
<1>1. ASSUME ConcTypeOK, ConcInv, [ConcNext]_concVars, Completes("apply"), out' # None, clear
      PROVE  InMode(out)'
  <2>1. CallStep
    BY <1>1, DaemonCompletesBeside
  <2>2. ApplyTypeOK /\ CallInv
    BY <1>1 DEF ConcTypeOK, DaemonTypeOK, ConcInv, CallsInv
  <2> QED
    BY <1>1, <2>1, <2>2, ApplyEndsInMode
<1>2. ASSUME ConcTypeOK, ConcInv, [ConcNext]_concVars, NEW o, Cmd!Completes(o), clear2
      PROVE  CmdP!ApplyTypeOK /\ CmdP!CallInv /\ CmdP!CallStep /\ CmdP!Completes(o)
  <2>1. Cmd!CallStep
    BY <1>2, CommandCompletes DEF Cmd!Completes
  <2> QED
    BY <1>2, <2>1, SameStep DEF ConcTypeOK, ConcInv, CallsInv, Cmd!Completes, CmdP!Completes
<1>3. ASSUME ConcTypeOK, ConcInv, [ConcNext]_concVars, Cmd!Completes("apply"), out2' # None, clear2
      PROVE  Cmd!InMode(out2)'
  <2>1. CmdP!ApplyTypeOK /\ CmdP!CallInv /\ CmdP!CallStep /\ CmdP!Completes("apply")
    BY <1>2, <1>3
  <2>2. CmdP!InMode(out2)'
    BY <1>3, <2>1, SameAssumptions, CmdP!ApplyEndsInMode DEF CmdP!ApplyEndsInMode
  <2> QED
    BY <2>2 DEF Cmd!InMode, Cmd!Works, Cmd!LeaseIp, Cmd!GatewayIp, Cmd!HasAddr,
                CmdP!InMode, CmdP!Works, CmdP!LeaseIp, CmdP!GatewayIp, CmdP!HasAddr
<1>4. ASSUME ConcTypeOK, ConcInv, [ConcNext]_concVars, Cmd!Completes("teardown"), out2' # None, clear2
      PROVE  Cmd!TornDown'
  <2>1. CmdP!ApplyTypeOK /\ CmdP!CallInv /\ CmdP!CallStep /\ CmdP!Completes("teardown")
    BY <1>2, <1>4
  <2>2. CmdP!TornDown'
    BY <1>4, <2>1, SameAssumptions, CmdP!TeardownEndsClean DEF CmdP!TeardownEndsClean
  <2> QED
    BY <2>2 DEF Cmd!TornDown, Cmd!Works, CmdP!TornDown, CmdP!Works
<1>5. ASSUME ConcTypeOK, ConcInv, [ConcNext]_concVars
      PROVE  [/\ Completes("apply") /\ out' # None /\ clear => InMode(out)'
              /\ Cmd!Completes("apply") /\ out2' # None /\ clear2 => Cmd!InMode(out2)'
              /\ Cmd!Completes("teardown") /\ out2' # None /\ clear2 => Cmd!TornDown']_concVars
  BY <1>1, <1>3, <1>4, <1>5
<1> QED
  BY <1>5, ConcTypeCorrect, ConcInvariant, PTL DEF ConcSpec, NextCallRecovers
=============================================================================
