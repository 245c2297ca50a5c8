---------------------------- MODULE DaemonProofs ----------------------------
(***************************************************************************)
(* What holds of the daemon for any hardware, configurations, failing      *)
(* steps, health threshold and number of disturbances.                     *)
(***************************************************************************)
EXTENDS Daemon, ApplyProofs

\* config::load gives a configuration for every file that is not invalid.
LEMMA LoadValid ==
  ASSUME file \in Files \cup {DefaultConfig}, file # Invalid
  PROVE  Load(file) \in Configs
  BY DaemonAssumption DEF Load

\* The Boolean variables stay Boolean.
LEMMA FlagsKeepTypes ==
  ASSUME FlagsTypeOK, [Next]_vars
  PROVE  FlagsTypeOK'
<1> USE DEF FlagsTypeOK, inboxVars, fileVars, ghostVars, linkState
<1>1. CASE Serve
  BY <1>1 DEF Serve
<1>2. CASE InitialApplyReturns \/ StartListening
  BY <1>2 DEF InitialApplyReturns, StartListening
<1>3. ASSUME Exit PROVE FlagsTypeOK'
  BY <1>3 DEF Exit, Forget
<1>4. CASE Crash \/ Term
  BY <1>3, <1>4 DEF Crash, Term
<1>5. CASE IpcReconfigure \/ Environment
  BY <1>5, Zenon DEF IpcReconfigure, Environment
<1>15. CASE FileWrite
  BY <1>15, SMT DEF FileWrite
<1>14. CASE Debounce \/ Clock
  BY <1>14, Zenon DEF Debounce, Clock
<1>6. CASE LoopTop
  <2>1. CASE stop
    BY <1>3, <1>6, <2>1 DEF LoopTop
  <2>2. CASE ~stop
    BY <1>6, <2>2, SMT DEF LoopTop
  <2> QED
    BY <2>1, <2>2
<1>7. CASE OnConfigReload \/ OnReconfigure
  BY <1>7 DEF OnConfigReload, OnReconfigure, Call
<1>8. CASE ApplyRuns \/ StoreStatus
  BY <1>8 DEF ApplyRuns, StoreStatus
<1>9. CASE SetHealthy \/ CallFailed
  BY <1>9 DEF SetHealthy, CallFailed, Resume
<1>10. CASE NoTick \/ TickEmptyIface \/ TickCarrier
  BY <1>10 DEF NoTick, TickEmptyIface, TickCarrier, TickDone
<1>11. CASE TickNoCarrier
  BY <1>11 DEF TickNoCarrier, TickDone, Call
<1>12. CASE MaybeSelfHeal \/ TickRefresh \/ TickVerdict
  BY <1>12 DEF MaybeSelfHeal, TickRefresh, TickVerdict, TickDone
<1>13. CASE UNCHANGED vars
  BY <1>13 DEF vars, daemonVars
<1> QED
  BY <1>1, <1>2, <1>4, <1>5, <1>6, <1>7, <1>8, <1>9, <1>10, <1>11, <1>12, <1>13, <1>14,
     <1>15 DEF Next, Thread

\* An exit, expected or not, leaves the host as it is and forgets the rest.
LEMMA ExitKeepsTypes ==
  ASSUME DaemonTypeOK, Exit, FlagsTypeOK', inputs' \in 0 .. MaxInputs
  PROVE  DaemonTypeOK'
<1> USE DaemonAssumption DEF DaemonTypeOK, ApplyTypeOK, HostTypeOK, Exit, NoCall, Forget, hostVars
<1>1. ApplyTypeOK'
  BY DEF Steps, ApplySteps, TeardownSteps, SelectSteps, AfterSelect, PrepareSteps, DecideSteps,
         ClientSteps, StaticSteps, GatewaySteps
<1>2. EmptyStatus \in Statuses
  BY DEF EmptyStatus, Statuses, Modes
<1> QED
  BY <1>1, <1>2

\* refresh_live_status changes neither the mode nor the interface of the status.
LEMMA RefreshType ==
  ASSUME DaemonTypeOK, status.iface \in Ifaces, Refresh
  PROVE  status' \in Statuses /\ status'.iface = status.iface /\ status'.mode = status.mode
<1>1. Cidr(status.iface) \in Addrs \cup {None}
  BY CidrType DEF DaemonTypeOK, ApplyTypeOK
<1> QED
  BY <1>1 DEF Refresh, DaemonTypeOK, Statuses

\* Every step of the daemon's thread, of its other threads and of the world keeps every
\* variable in its type.
LEMMA DaemonKeepsTypes ==
  ASSUME DaemonTypeOK, [Next]_vars
  PROVE  DaemonTypeOK'
<1> USE DaemonAssumption
    DEF DaemonTypeOK, ApplyTypeOK, HostTypeOK, Starting, Looping, Ticking, Calling, Reasons,
        Steps, ApplySteps, TeardownSteps, SelectSteps, AfterSelect, PrepareSteps, DecideSteps,
        ClientSteps, StaticSteps, GatewaySteps,
        hostVars, linkVars, addrVars, procVars, callVars,
        sharedVars, linkState, inboxVars, fileVars, ghostVars
<1>0. FlagsTypeOK'
  BY FlagsKeepTypes
<1>1. CASE Serve
  BY <1>0, <1>1 DEF Serve, Begin
<1>2. CASE InitialApplyReturns
  BY <1>0, <1>2 DEF InitialApplyReturns, NoCall, EmptyStatus, Statuses, Modes
<1>3. CASE StartListening
  BY <1>0, <1>3 DEF StartListening
<1>4. CASE Crash \/ Term
  <2>1. inputs' \in 0 .. MaxInputs
    BY <1>4 DEF Crash, Term, Disturb
  <2>2. CASE Exit
    BY <1>0, <2>1, <2>2, ExitKeepsTypes
  <2>3. CASE Term /\ ~Exit
    BY <1>0, <2>1, <2>3 DEF Term
  <2> QED
    BY <1>4, <2>2, <2>3 DEF Crash
<1>5. CASE IpcReconfigure
  BY <1>0, <1>5 DEF IpcReconfigure, Disturb
<1>6. CASE FileWrite
  BY <1>0, <1>6 DEF FileWrite, Disturb
<1>7. CASE Debounce
  BY <1>0, <1>7 DEF Debounce
<1>8. CASE Clock
  BY <1>0, <1>8 DEF Clock
<1>9. CASE LoopTop
  <2>1. CASE stop
    BY <1>0, <1>9, <2>1, ExitKeepsTypes DEF LoopTop
  <2>2. CASE ~stop
    BY <1>0, <1>9, <2>2 DEF LoopTop
  <2> QED
    BY <2>1, <2>2
<1>10. CASE OnConfigReload
  BY <1>0, <1>10, LoadValid DEF OnConfigReload, Call, Begin
<1>11. CASE OnReconfigure
  BY <1>0, <1>11 DEF OnReconfigure, Call, Begin
<1>12. CASE StoreStatus
  BY <1>0, <1>12 DEF StoreStatus, NoCall
<1>13. CASE SetHealthy
  BY <1>0, <1>13 DEF SetHealthy, ResetHealth, Resume
<1>14. CASE CallFailed
  BY <1>0, <1>14 DEF CallFailed, NoCall, Resume
<1>15. CASE NoTick
  BY <1>0, <1>15 DEF NoTick
<1>16. CASE TickEmptyIface
  BY <1>0, <1>16 DEF TickEmptyIface, RecordVerdict, ResetHealth, TickDone
<1>17. CASE TickNoCarrier
  <2>1. down' \in Nat
    BY <1>17 DEF TickNoCarrier, DownSince
  <2>2. CASE Call(config, "reselecting")
    <3>1. ApplyTypeOK' /\ loop' \in Calling
      BY <1>17, <2>2 DEF TickNoCarrier, Call, Begin
    <3> QED
      BY <1>0, <1>17, <2>1, <3>1 DEF TickNoCarrier, ResetHealth
  <2>3. CASE TickDone /\ UNCHANGED callVars
    BY <1>0, <1>17, <2>1, <2>3 DEF TickNoCarrier, ResetHealth, TickDone
  <2> QED
    BY <1>17, <2>2, <2>3 DEF TickNoCarrier
<1>18. CASE TickVerdict
  BY <1>0, <1>18 DEF TickVerdict, RecordVerdict, ResetHealth, Assess, TickDone
<1>19. CASE TickCarrier
  BY <1>0, <1>19, RefreshType DEF TickCarrier, Carrier
<1>20. CASE TickRefresh
  BY <1>0, <1>20, RefreshType DEF TickRefresh
<1>21. CASE MaybeSelfHeal
  <2>1. config.gw \in Nets /\ status.iface \in Ifaces
    BY <1>0, <1>21, ConfigTypes DEF MaybeSelfHeal
  <2>2. /\ dnsmasq' \in ConfBodies \cup {None}
        /\ conf' \in ConfBodies \cup {None}
        /\ dhclient' \in SUBSET Ifaces
    BY <1>0, <1>21, <2>1, DnsmasqTypes DEF MaybeSelfHeal, HealDnsmasq, HealDhclient, StartDhclient
  <2> QED
    BY <1>0, <1>21, <2>2 DEF MaybeSelfHeal
<1>22. CASE ApplyRuns
  <2>1. ApplyTypeOK'
    BY <1>0, <1>22, CallKeepsTypes DEF ApplyRuns
  <2> QED
    BY <1>0, <1>22, <2>1 DEF ApplyRuns
<1>23. CASE Environment
  <2>1. HostTypeOK'
    BY <1>0, <1>23, HostKeepsTypes DEF Environment, HostEnv
  <2> QED
    BY <1>0, <1>23, <2>1 DEF Environment, Disturb
<1>24. CASE UNCHANGED vars
  BY <1>0, <1>24 DEF vars, daemonVars
<1> QED
  BY <1>1, <1>2, <1>3, <1>4, <1>5, <1>6, <1>7, <1>8, <1>9, <1>10, <1>11, <1>12, <1>13, <1>14,
     <1>15, <1>16, <1>17, <1>18, <1>19, <1>20, <1>21, <1>22, <1>23, <1>24
     DEF Next, Thread

\* Without a process the daemon's memory is blank, and well typed.
LEMMA DaemonStartsTyped == Init => DaemonTypeOK
<1> SUFFICES ASSUME Init PROVE DaemonTypeOK
  OBVIOUS
<1>1. FlagsTypeOK
  BY Zenon DEF Init, Blank, FlagsTypeOK
<1>2. ApplyTypeOK
  BY CliStartsTyped DEF Init, CliInit
<1> QED
  BY <1>1, <1>2, DaemonAssumption DEF Init, Blank, EmptyStatus, Statuses, Modes, DaemonTypeOK

\* Every reachable state of the daemon is well typed.
THEOREM DaemonTypeCorrect == Spec => []DaemonTypeOK
<1> QED
  BY DaemonStartsTyped, DaemonKeepsTypes, PTL DEF Spec

-----------------------------------------------------------------------------
(* The inductive invariant, one lemma for each of its parts.               *)

\* An apply starts dnsmasq in its last step only, and then on the interface it returns.
LEMMA CallServes ==
  ASSUME ApplyTypeOK, CallInv, CallStep, op = "apply"
  PROVE  /\ pc' = "done" /\ out' # None => out'.iface # None /\ ServedBy(out)'
         /\ ~(pc' = "done" /\ out' # None) => dnsmasq' = dnsmasq \/ dnsmasq' = None
<1> USE DEF At, Goto, FailsAt, Fail, Resolved, hostVars, linkVars, addrVars, procVars
<1>1. CASE \/ ResolvePinned \/ ResolveAutoFails \/ ResolveAutoCarrier
           \/ ResolveAutoBringUp \/ ResolveAutoPoll
  BY <1>1 DEF ResolvePinned, ResolveAutoFails, ResolveAutoCarrier, ResolveAutoBringUp,
              ResolveAutoPoll
<1>2. CASE IsolateIface \/ BringUp \/ StopDhclient \/ StopOwnDnsmasq
  BY <1>2 DEF IsolateIface, BringUp, StopDhclient, StopOwnDnsmasq
<1>3. CASE ProbeForeignDhcp \/ AssignStatic \/ CheckLocal \/ Ping
  BY <1>3 DEF ProbeForeignDhcp, AssignStatic, CheckLocal, Ping
<1>4. CASE ClientStop \/ ClientFlush \/ ClientStart \/ StaticStop
  BY <1>4 DEF ClientStop, ClientFlush, ClientStart, StaticStop
<1>5. CASE GatewayFlush \/ GatewayAdd \/ GatewayRoute
  BY <1>5 DEF GatewayFlush, GatewayAdd, GatewayRoute
<1>6. CASE ClientWait \/ StaticRoute
  <2>1. sel \in Ifaces /\ dnsmasq = None
    BY <1>6 DEF ClientWait, StaticRoute, ApplyTypeOK, CallInv, Silent, AfterSelect, ClientSteps,
                StaticSteps
  <2> QED
    BY <1>6, <2>1, HostAssumption DEF ClientWait, StaticRoute, Return, Status, ServedBy
<1>7. CASE GatewayDnsmasq
  <2>1. sel \in Ifaces /\ dnsmasq = None
    BY <1>7 DEF GatewayDnsmasq, ApplyTypeOK, CallInv, Silent, AfterSelect, GatewaySteps
  <2>2. CASE DnsmasqReload(sel, job.gw) /\ Return(Status("gateway", GatewayIp(job.gw), dnsmasq' # None))
    <3>1. dnsmasq' = [iface |-> sel, gw |-> job.gw]
      BY <2>1, <2>2 DEF DnsmasqReload
    <3>2. pc' = "done" /\ out' = Status("gateway", GatewayIp(job.gw), dnsmasq' # None)
      BY <2>2 DEF Return
    <3>3. out'.iface = sel /\ out'.mode = "gateway"
      BY <3>2 DEF Status
    <3>4. GatewayIp(job.gw) \in Addrs
      BY <1>7, ConfigTypes DEF GatewayDnsmasq, ApplyTypeOK, Steps, ApplySteps, AfterSelect,
                               GatewaySteps, Addrs
    <3>5. out' \in Statuses
      BY <2>1, <3>2, <3>4, StatusType DEF Modes
    <3> QED
      BY <2>1, <3>1, <3>2, <3>3, <3>5, HostAssumption, ApplyAssumption DEF ServedBy
  <2>3. CASE Fail /\ DnsmasqReloadFails(sel, job.gw)
    BY <2>3 DEF DnsmasqReloadFails
  <2> QED
    BY <1>7, <2>2, <2>3 DEF GatewayDnsmasq
<1>8. CASE TdResolve \/ TdStop \/ TdFlush \/ TdRoute
  BY <1>8 DEF TdResolve, TdStop, TdFlush, TdRoute, ApplyTypeOK, TeardownSteps
<1> QED
  BY <1>1, <1>2, <1>3, <1>4, <1>5, <1>6, <1>7, <1>8 DEF CallStep

\* The loop's own steps change no link, address or process, except the self-heal, which
\* runs between calls.
LEMMA DaemonKeepsCallInv ==
  ASSUME DaemonTypeOK, OwnCall, CallInv, [Next]_vars
  PROVE  CallInv'
<1>1. ASSUME UNCHANGED <<hostVars, callVars>> PROVE CallInv'
  BY <1>1 DEF hostVars, callVars, CallInv, GoneIsBare, NoSelfDiscovery, Isolated, Works, IsolationHolds,
              AddrIsLocal, HasAddr
<1>2. ASSUME UNCHANGED hostVars, NoCall PROVE CallInv'
  BY <1>2, CallFresh DEF NoCall, CallInv, GoneIsBare, hostVars
<1>3. ASSUME UNCHANGED hostVars, NEW c, Begin("apply", c) PROVE CallInv'
  BY <1>3, CallFresh DEF Begin, CallInv, GoneIsBare, hostVars
<1>4. CASE Serve \/ OnConfigReload \/ OnReconfigure \/ TickNoCarrier
  BY <1>1, <1>3, <1>4 DEF Serve, OnConfigReload, OnReconfigure, TickNoCarrier, Call
<1>5. CASE InitialApplyReturns \/ StoreStatus \/ CallFailed
  BY <1>2, <1>5 DEF InitialApplyReturns, StoreStatus, CallFailed
<1>6. CASE Crash \/ Term \/ LoopTop
  BY <1>1, <1>2, <1>6 DEF Crash, Term, LoopTop, Exit
<1>7. CASE StartListening \/ IpcReconfigure \/ FileWrite \/ Debounce \/ Clock \/ SetHealthy
  BY <1>1, <1>7 DEF StartListening, IpcReconfigure, FileWrite, Debounce, Clock, SetHealthy
<1>8. CASE NoTick \/ TickEmptyIface \/ TickCarrier \/ TickRefresh \/ TickVerdict
  BY <1>1, <1>8 DEF NoTick, TickEmptyIface, TickCarrier, TickRefresh, TickVerdict
<1>9. CASE ApplyRuns
  BY <1>9, CallKeepsInv DEF ApplyRuns, DaemonTypeOK
<1>10. CASE Environment
  BY <1>10, HostKeepsInv DEF Environment, HostEnv, DaemonTypeOK
<1>11. CASE MaybeSelfHeal
  <2>1. pc = "idle"
    BY <1>11 DEF MaybeSelfHeal, OwnCall, Calling
  <2>2. UNCHANGED <<present, up, addrs, callVars>>
    BY <1>11 DEF MaybeSelfHeal, linkVars, addrVars
  <2> QED
    BY <2>1, <2>2, CallFresh DEF callVars, CallInv, GoneIsBare
<1>12. CASE UNCHANGED vars
  BY <1>1, <1>12 DEF vars
<1> QED
  BY <1>4, <1>5, <1>6, <1>7, <1>8, <1>9, <1>10, <1>11, <1>12 DEF Next, Thread

\* No step raises or addresses a device that is gone, whatever is on the host.
LEMMA DaemonKeepsGone ==
  ASSUME DaemonTypeOK, GoneIsBare, [Next]_vars
  PROVE  GoneIsBare'
<1>1. ASSUME UNCHANGED <<present, up, addrs>> PROVE GoneIsBare'
  BY <1>1 DEF GoneIsBare
<1> USE DEF hostVars, linkVars, addrVars
<1>2. CASE \/ Serve \/ OnConfigReload \/ OnReconfigure \/ TickNoCarrier \/ InitialApplyReturns
           \/ StoreStatus \/ CallFailed \/ SetHealthy
  BY <1>1, <1>2 DEF Serve, OnConfigReload, OnReconfigure, TickNoCarrier, InitialApplyReturns,
                    StoreStatus, CallFailed, SetHealthy
<1>3. CASE Crash \/ Term \/ LoopTop \/ StartListening
  BY <1>1, <1>3 DEF Crash, Term, LoopTop, StartListening, Exit
<1>4. CASE IpcReconfigure \/ FileWrite \/ Debounce \/ Clock \/ UNCHANGED vars
  BY <1>1, <1>4 DEF IpcReconfigure, FileWrite, Debounce, Clock, vars
<1>5. CASE \/ NoTick \/ TickEmptyIface \/ TickCarrier \/ TickRefresh \/ TickVerdict
           \/ MaybeSelfHeal
  BY <1>1, <1>5 DEF NoTick, TickEmptyIface, TickCarrier, TickRefresh, TickVerdict, MaybeSelfHeal
<1>6. CASE ApplyRuns
  BY <1>6, CallKeepsGone DEF ApplyRuns, DaemonTypeOK
<1>7. CASE Environment
  BY <1>7, HostKeepsGone DEF Environment, HostEnv, DaemonTypeOK, ApplyTypeOK
<1> QED
  BY <1>2, <1>3, <1>4, <1>5, <1>6, <1>7 DEF Next, Thread

\* A step that touches neither the status, the health nor the loop, starts no call and no
\* wait for a link keeps the health in order.
LEMMA HealthUntouched ==
  ASSUME HealthInv, UNCHANGED <<loop, sharedVars, streak>>,
         down = None => down' = None,
         pc = "idle" => pc' = "idle"
  PROVE  HealthInv'
  BY DEF HealthInv, HealthIsHysteretic, LinkDownIsHealthy, ReasonMatchesStatus, Torn, sharedVars

\* record_verdict keeps the health and the fail streak in step.
LEMMA VerdictKeepsHealth ==
  ASSUME DaemonTypeOK, HealthIsHysteretic, NEW r \in Reasons \cup {"ok"}, RecordVerdict(r)
  PROVE  HealthIsHysteretic' /\ health' \in {"ok", r}
  BY DaemonAssumption DEF DaemonTypeOK, HealthIsHysteretic, Reasons, RecordVerdict, ResetHealth

\* Ticks, applies, reloads, exits and failures keep the health in order.
LEMMA DaemonKeepsHealth ==
  ASSUME DaemonTypeOK, HealthInv, [Next]_vars
  PROVE  HealthInv'
<1>1. ASSUME Exit PROVE HealthInv'
  BY <1>1, DaemonAssumption
     DEF Exit, Forget, HealthInv, HealthIsHysteretic, LinkDownIsHealthy, ReasonMatchesStatus,
         EmptyStatus
<1>3. CASE Serve
  BY <1>3 DEF Serve, linkState, HealthInv, HealthIsHysteretic, LinkDownIsHealthy,
              ReasonMatchesStatus, Starting
<1>4. CASE InitialApplyReturns
  BY <1>4, DaemonAssumption
     DEF InitialApplyReturns, linkState, HealthInv, HealthIsHysteretic, LinkDownIsHealthy,
         ReasonMatchesStatus, Starting
<1>5. CASE StartListening
  BY <1>5 DEF StartListening, linkState, sharedVars, callVars, HealthInv, HealthIsHysteretic,
              LinkDownIsHealthy, ReasonMatchesStatus, Torn, Starting, Calling
<1>6. CASE Crash \/ Term
  BY <1>1, <1>6, HealthUntouched DEF Crash, Term, callVars, linkState
<1>7. CASE IpcReconfigure \/ FileWrite \/ Debounce \/ Clock \/ Environment
  BY <1>7, HealthUntouched
     DEF IpcReconfigure, FileWrite, Debounce, Clock, Environment, callVars, linkState
<1>8. CASE LoopTop
  <2>1. CASE Exit
    BY <1>1, <2>1
  <2>2. CASE ~Exit
    BY <1>8, <2>2 DEF LoopTop, linkState, sharedVars, callVars, HealthInv, HealthIsHysteretic,
       LinkDownIsHealthy, ReasonMatchesStatus, Torn, Calling, Starting
  <2> QED
    BY <2>1, <2>2
<1>9. CASE OnConfigReload \/ OnReconfigure \/ NoTick
  BY <1>9 DEF OnConfigReload, OnReconfigure, NoTick, Call, linkState, sharedVars, callVars,
     HealthInv, HealthIsHysteretic, LinkDownIsHealthy, ReasonMatchesStatus, Torn, Calling, Starting
<1>10. CASE ApplyRuns
  BY <1>10, CallStepShape, HealthUntouched
     DEF ApplyRuns, DaemonTypeOK, linkState, Steps, ApplySteps, TeardownSteps, SelectSteps,
         AfterSelect, PrepareSteps, DecideSteps, ClientSteps, StaticSteps, GatewaySteps
<1>11. CASE StoreStatus
  BY <1>11 DEF StoreStatus, NoCall, HealthInv, HealthIsHysteretic, LinkDownIsHealthy,
               ReasonMatchesStatus, Torn, Calling, Starting
<1>12. CASE SetHealthy
  BY <1>12, DaemonAssumption
     DEF SetHealthy, Resume, ResetHealth, HealthInv, HealthIsHysteretic, LinkDownIsHealthy,
         ReasonMatchesStatus, Calling, Starting
<1>13. CASE CallFailed
  BY <1>13 DEF CallFailed, Resume, sharedVars, HealthInv, HealthIsHysteretic, LinkDownIsHealthy,
               ReasonMatchesStatus, Torn, Calling, Starting
<1>14. CASE TickEmptyIface
  <2>1. down = None
    BY <1>14 DEF TickEmptyIface, HealthInv
  <2>2. HealthIsHysteretic' /\ health' \in {"ok", "emptyIface"}
    BY <1>14, VerdictKeepsHealth DEF TickEmptyIface, HealthInv, Reasons
  <2> QED
    BY <1>14, <2>1, <2>2 DEF TickEmptyIface, TickDone, HealthInv, LinkDownIsHealthy,
       ReasonMatchesStatus, Starting
<1>15. CASE TickCarrier
  <2>1. status'.iface = status.iface /\ status'.mode = status.mode
    BY <1>15, RefreshType DEF TickCarrier, DaemonTypeOK, Statuses
  <2> QED
    BY <1>15, <2>1 DEF TickCarrier, HealthInv, HealthIsHysteretic, LinkDownIsHealthy,
       ReasonMatchesStatus, Torn, Calling, Starting
<1>16. CASE TickNoCarrier
  <2>1. loop' \in {"top", "reselecting"} /\ health' = "ok" /\ streak' = 0 /\ status' = status
    BY <1>16 DEF TickNoCarrier, TickDone, Call, ResetHealth
  <2>2. status.iface # None
    BY <1>16 DEF TickNoCarrier
  <2>3. HealthIsHysteretic'
    BY <2>1, DaemonAssumption DEF HealthIsHysteretic
  <2> QED
    BY <2>1, <2>2, <2>3 DEF HealthInv, LinkDownIsHealthy, ReasonMatchesStatus, Starting
<1>17. CASE MaybeSelfHeal
  BY <1>17 DEF MaybeSelfHeal, linkState, sharedVars, HealthInv, HealthIsHysteretic,
               LinkDownIsHealthy, ReasonMatchesStatus, Torn, Calling, Starting
<1>18. CASE TickRefresh
  <2>1. status'.iface = status.iface /\ status'.mode = status.mode
    BY <1>18, RefreshType DEF TickRefresh, DaemonTypeOK
  <2> QED
    BY <1>18, <2>1 DEF TickRefresh, linkState, HealthInv, HealthIsHysteretic, LinkDownIsHealthy,
       ReasonMatchesStatus, Torn, Calling, Starting
<1>19. CASE TickVerdict
  <2>1. /\ Assess \in Reasons \cup {"ok"}
        /\ Assess = "noDnsmasq" => status.mode = "gateway"
        /\ Assess = "noDhclient" => status.mode = "client"
        /\ Assess # "emptyIface"
    BY DEF Assess, Reasons, ProcRunning, DaemonTypeOK, Statuses, Modes
  <2>2. HealthIsHysteretic' /\ health' \in {"ok", Assess}
    BY <1>19, <2>1, VerdictKeepsHealth DEF TickVerdict, HealthInv
  <2>3. status.iface \in Ifaces /\ down = None
    BY <1>19 DEF TickVerdict, HealthInv, DaemonTypeOK
  <2> QED
    BY <1>19, <2>1, <2>2, <2>3, HostAssumption
       DEF TickVerdict, TickDone, HealthInv, LinkDownIsHealthy, ReasonMatchesStatus, Starting
<1>20. CASE UNCHANGED vars
  BY <1>20, HealthUntouched DEF vars, daemonVars, callVars, linkState
<1> QED
  BY <1>3, <1>4, <1>5, <1>6, <1>7, <1>8, <1>9, <1>10, <1>11, <1>12, <1>13, <1>14, <1>15,
     <1>16, <1>17, <1>18, <1>19, <1>20 DEF Next, Thread

\* Reloads keep what the watcher owes the loop.
LEMMA DaemonKeepsReloads ==
  ASSUME DaemonTypeOK, DaemonInv, [Next]_vars
  PROVE  ReloadInv'
<1> USE DEF DaemonInv, ReloadInv, NoLostReload, Starting, Looping, Ticking, Calling
<1>1. ASSUME Exit PROVE ReloadInv'
  BY <1>1 DEF Exit
<1>2. ASSUME UNCHANGED <<config, dirty, signals, file, missed>>,
             loop' \in Looping => loop \in Looping,
             loop' \in Starting => loop \in Starting
      PROVE  ReloadInv'
  BY <1>2 DEF Load
<1>3. CASE Serve
  BY <1>3, DaemonAssumption DEF Serve
<1>4. CASE InitialApplyReturns
  BY <1>2, <1>4 DEF InitialApplyReturns, inboxVars, fileVars
<1>5. CASE StartListening
  BY <1>5 DEF StartListening, sharedVars, inboxVars, fileVars, Load
<1>6. CASE Crash \/ Term
  BY <1>1, <1>2, <1>6 DEF Crash, Term, sharedVars, fileVars
<1>7. CASE IpcReconfigure
  BY <1>2, <1>7 DEF IpcReconfigure, sharedVars, fileVars
<1>8. CASE FileWrite
  BY <1>8 DEF FileWrite, sharedVars
<1>9. CASE Debounce
  BY <1>9 DEF Debounce, DaemonTypeOK, sharedVars, fileVars, Load
<1>10. CASE Clock \/ Environment \/ ApplyRuns \/ MaybeSelfHeal \/ NoTick
  BY <1>2, <1>10
     DEF Clock, Environment, ApplyRuns, MaybeSelfHeal, NoTick, sharedVars, inboxVars, fileVars
<1>11. CASE LoopTop
  BY <1>1, <1>2, <1>11 DEF LoopTop, sharedVars, fileVars
<1>12. CASE OnConfigReload
  BY <1>12 DEF OnConfigReload, Call, DaemonTypeOK, fileVars, Load
<1>13. CASE OnReconfigure \/ TickNoCarrier
  BY <1>2, <1>13 DEF OnReconfigure, TickNoCarrier, TickDone, Call, sharedVars, inboxVars, fileVars
<1>14. CASE StoreStatus \/ SetHealthy \/ CallFailed
  BY <1>2, <1>14 DEF StoreStatus, SetHealthy, CallFailed, Resume, sharedVars, inboxVars, fileVars
<1>15. CASE TickEmptyIface \/ TickCarrier \/ TickRefresh \/ TickVerdict
  BY <1>2, <1>15
     DEF TickEmptyIface, TickCarrier, TickRefresh, TickVerdict, TickDone, inboxVars, fileVars
<1>16. CASE UNCHANGED vars
  BY <1>2, <1>16 DEF vars, daemonVars, sharedVars, inboxVars, fileVars
<1> QED
  BY <1>3, <1>4, <1>5, <1>6, <1>7, <1>8, <1>9, <1>10, <1>11, <1>12, <1>13, <1>14, <1>15,
     <1>16 DEF Next, Thread

\* A call in progress belongs to an apply of the loop.
LEMMA DaemonKeepsOwnCall ==
  ASSUME DaemonTypeOK, OwnCall, [Next]_vars
  PROVE  OwnCall'
<1> USE DEF OwnCall, Calling
<1>1. ASSUME NoCall PROVE OwnCall'
  BY <1>1 DEF NoCall
<1>2. CASE Serve \/ OnConfigReload \/ OnReconfigure \/ TickNoCarrier
  BY <1>2 DEF Serve, OnConfigReload, OnReconfigure, TickNoCarrier, TickDone, Call, Begin, callVars
<1>3. CASE InitialApplyReturns \/ StoreStatus \/ CallFailed
  BY <1>1, <1>3 DEF InitialApplyReturns, StoreStatus, CallFailed
<1>4. CASE Crash \/ Term \/ LoopTop
  BY <1>1, <1>4 DEF Crash, Term, LoopTop, Exit, callVars
<1>5. CASE ApplyRuns
  BY <1>5, CallStepShape
     DEF ApplyRuns, DaemonTypeOK, Steps, ApplySteps, TeardownSteps, SelectSteps, AfterSelect,
         PrepareSteps, DecideSteps, ClientSteps, StaticSteps, GatewaySteps
<1>6. CASE StartListening \/ SetHealthy \/ NoTick \/ TickEmptyIface \/ TickCarrier
  BY <1>6 DEF StartListening, SetHealthy, NoTick, TickEmptyIface, TickCarrier, callVars
<1>7. CASE MaybeSelfHeal \/ TickRefresh \/ TickVerdict
  BY <1>7 DEF MaybeSelfHeal, TickRefresh, TickVerdict, callVars
<1>8. CASE IpcReconfigure \/ FileWrite \/ Debounce \/ Clock \/ Environment \/ UNCHANGED vars
  BY <1>8 DEF IpcReconfigure, FileWrite, Debounce, Clock, Environment, vars, daemonVars, callVars
<1> QED
  BY <1>2, <1>3, <1>4, <1>5, <1>6, <1>7, <1>8 DEF Next, Thread

\* The running dnsmasq belongs to the result of the call or to the status in use.
LEMMA DaemonKeepsServer ==
  ASSUME DaemonTypeOK, DaemonInv, [Next]_vars
  PROVE  ServerInv'
<1> USE DEF DaemonInv, ServerInv, OwnCall, Starting, Looping, Ticking, Calling
<1>1. ASSUME Exit PROVE ServerInv'
  BY <1>1 DEF Exit, NoCall
<1>2. ASSUME UNCHANGED <<callVars, loop>>, status'.iface = status.iface,
             status'.mode = status.mode, dnsmasq' = dnsmasq \/ dnsmasq' = None
      PROVE  ServerInv'
  BY <1>2 DEF callVars, ServedBy
<1>3. ASSUME UNCHANGED <<callVars, dnsmasq>>, pc = "idle", status'.iface = status.iface,
             status'.mode = status.mode,
             loop' \in {"serve", "watch"} \cup Looping => loop \in {"serve", "watch"} \cup Looping
      PROVE  ServerInv'
  BY <1>3 DEF callVars, ServedBy
<1>4. CASE Serve
  BY <1>4 DEF Serve, Begin
<1>5. CASE InitialApplyReturns
  BY <1>5 DEF InitialApplyReturns, NoCall, ServedBy, EmptyStatus, hostVars
<1>6. CASE StartListening \/ NoTick \/ TickEmptyIface \/ TickVerdict
  BY <1>3, <1>6 DEF StartListening, NoTick, TickEmptyIface, TickVerdict, TickDone, hostVars,
                    sharedVars
<1>7. CASE Crash \/ Term
  BY <1>1, <1>2, <1>7 DEF Crash, Term, hostVars, sharedVars
<1>8. CASE IpcReconfigure \/ FileWrite \/ Debounce \/ Clock
  BY <1>2, <1>8 DEF IpcReconfigure, FileWrite, Debounce, Clock, hostVars, sharedVars
<1>9. CASE Environment
  <2>1. dnsmasq' = dnsmasq \/ dnsmasq' = None
    BY <1>9 DEF Environment, HostEvent, LeaseAcquired, CableFlips, DeviceAppears, DeviceVanishes,
                DhclientDies, DnsmasqDies
  <2> QED
    BY <1>2, <1>9, <2>1 DEF Environment, sharedVars
<1>10. CASE LoopTop
  BY <1>1, <1>3, <1>10 DEF LoopTop, hostVars, sharedVars
<1>11. CASE OnConfigReload \/ OnReconfigure
  BY <1>11 DEF OnConfigReload, OnReconfigure, Call, Begin, hostVars, callVars, sharedVars, ServedBy
<1>12. CASE ApplyRuns
  <2>1. pc \in Steps /\ pc' # "idle" /\ op' = op
    BY <1>12, CallStepShape DEF ApplyRuns, DaemonTypeOK
  <2>2. pc # "idle" /\ pc # "done"
    BY <2>1 DEF Steps, ApplySteps, TeardownSteps, SelectSteps, AfterSelect, PrepareSteps,
                DecideSteps, ClientSteps, StaticSteps, GatewaySteps
  <2>3. /\ pc' = "done" /\ out' # None => out'.iface # None /\ ServedBy(out)'
        /\ ~(pc' = "done" /\ out' # None) => dnsmasq' = dnsmasq \/ dnsmasq' = None
    BY <1>12, <2>2, CallServes DEF ApplyRuns, DaemonTypeOK
  <2> QED
    BY <1>12, <2>1, <2>2, <2>3 DEF ApplyRuns, sharedVars, ServedBy
<1>13. CASE StoreStatus
  BY <1>13 DEF StoreStatus, NoCall, hostVars, ServedBy
<1>14. CASE SetHealthy
  BY <1>3, <1>14 DEF SetHealthy, Resume, hostVars
<1>15. CASE CallFailed
  BY <1>15 DEF CallFailed, NoCall, Resume, hostVars, sharedVars, ServedBy
<1>16. CASE TickNoCarrier
  BY <1>16 DEF TickNoCarrier, TickDone, Call, Begin, hostVars, callVars, ServedBy
<1>17. CASE TickCarrier \/ TickRefresh
  <2>1. status'.iface = status.iface /\ status'.mode = status.mode
    BY <1>17, RefreshType DEF TickCarrier, TickRefresh, DaemonTypeOK, Statuses
  <2> QED
    BY <1>3, <1>17, <2>1 DEF TickCarrier, TickRefresh, hostVars
<1>18. CASE MaybeSelfHeal
  <2>1. pc = "idle" /\ pc' = "idle" /\ status' = status /\ loop' = "recheck"
    BY <1>18 DEF MaybeSelfHeal, callVars, sharedVars
  <2>2. ServedBy(status)
    BY <1>18, <2>1 DEF MaybeSelfHeal
  <2>3. CASE UNCHANGED dnsmasq
    BY <2>1, <2>2, <2>3 DEF ServedBy
  <2>4. CASE HealDnsmasq /\ ~ProcRunning
    <3>1. status.mode = "gateway" /\ dnsmasq = None
      BY <2>4 DEF HealDnsmasq, ProcRunning
    <3>2. dnsmasq' = [iface |-> status.iface, gw |-> config.gw] \/ dnsmasq' = None
      BY <2>4, <3>1 DEF HealDnsmasq, DnsmasqReload, DnsmasqReloadFails
    <3> QED
      BY <2>1, <3>1, <3>2 DEF ServedBy
  <2> QED
    BY <1>18, <2>3, <2>4 DEF MaybeSelfHeal, HealDhclient, procVars
<1>19. CASE UNCHANGED vars
  BY <1>2, <1>19 DEF vars, daemonVars, sharedVars, hostVars
<1> QED
  BY <1>4, <1>5, <1>6, <1>7, <1>8, <1>9, <1>10, <1>11, <1>12, <1>13, <1>14, <1>15,
     <1>16, <1>17, <1>18, <1>19 DEF Next, Thread

-----------------------------------------------------------------------------
(* The theorems.                                                           *)

\* The blank memory owes nothing to a freshly booted host.
LEMMA DaemonStartsInv == Init => DaemonInv
<1> SUFFICES ASSUME Init PROVE DaemonInv
  OBVIOUS
<1>1. CallInv
  BY CliStartsInv DEF Init, CliInit
<1> QED
  BY <1>1, DaemonAssumption
     DEF Init, CallInit, Blank, EmptyStatus, DaemonInv, HealthInv, HealthIsHysteretic,
         LinkDownIsHealthy, ReasonMatchesStatus, ReloadInv, NoLostReload, ServerInv, OwnCall,
         Starting, Looping, Ticking, Calling

\* In every reachable state the daemon's memory, the call in progress and the running
\* dnsmasq fit together.
THEOREM DaemonInvariant == Spec => []DaemonInv
<1>1. ASSUME DaemonTypeOK, DaemonInv, [Next]_vars PROVE DaemonInv'
  BY <1>1, DaemonKeepsCallInv, DaemonKeepsHealth, DaemonKeepsReloads, DaemonKeepsServer
     DEF DaemonInv, ServerInv
<1> QED
  BY <1>1, DaemonStartsInv, DaemonTypeCorrect, PTL DEF Spec

\* Health is the fail streak's verdict, whatever the order of ticks, reloads and applies.
THEOREM HealthFollowsStreak == Spec => []HealthIsHysteretic
<1>1. DaemonInv => HealthIsHysteretic
  BY DEF DaemonInv, HealthInv
<1> QED
  BY <1>1, DaemonInvariant, PTL

\* A daemon that waits for a lost link is healthy.
THEOREM WaitingIsHealthy == Spec => []LinkDownIsHealthy
<1>1. DaemonInv => LinkDownIsHealthy
  BY DEF DaemonInv, HealthInv
<1> QED
  BY <1>1, DaemonInvariant, PTL

\* A reported reason fits the status reported with it, except between store_status and
\* set_health.
THEOREM ReasonsFit == Spec => []ReasonMatchesStatus
<1>1. DaemonInv => ReasonMatchesStatus
  BY DEF DaemonInv, HealthInv
<1> QED
  BY <1>1, DaemonInvariant, PTL

\* No dnsmasq of ours runs in another mode or on another interface than the status says.
THEOREM ServerFitsStatus == Spec => []DnsmasqServesStatus
<1>1. DaemonInv => DnsmasqServesStatus
  BY DEF DaemonInv, ServerInv, DnsmasqServesStatus
<1> QED
  BY <1>1, DaemonInvariant, PTL

\* An edit made while the watch runs is in use or on its way.
THEOREM ReloadsAreKept == Spec => []NoLostReload
<1>1. DaemonInv => NoLostReload
  BY DEF DaemonInv, ReloadInv
<1> QED
  BY <1>1, DaemonInvariant, PTL
-----------------------------------------------------------------------------
(* The promises of a call, for the calls of the daemon.                    *)

\* Only a step of the daemon's call completes it.
LEMMA DaemonCompletes ==
  ASSUME [Next]_vars, NEW o, Completes(o)
  PROVE  CallStep
<1>1. pc # "done" /\ pc' = "done"
  BY DEF Completes
<1>2. ASSUME NoCall \/ UNCHANGED callVars PROVE FALSE
  BY <1>1, <1>2 DEF NoCall, callVars
<1>3. ASSUME NEW c, Begin("apply", c) PROVE FALSE
  BY <1>1, <1>3 DEF Begin
<1>4. CASE Serve \/ OnConfigReload \/ OnReconfigure \/ TickNoCarrier
  BY <1>2, <1>3, <1>4 DEF Serve, OnConfigReload, OnReconfigure, TickNoCarrier, Call
<1>5. CASE InitialApplyReturns \/ StoreStatus \/ CallFailed
  BY <1>2, <1>5 DEF InitialApplyReturns, StoreStatus, CallFailed
<1>6. CASE Crash \/ Term \/ LoopTop
  BY <1>2, <1>6 DEF Crash, Term, LoopTop, Exit
<1>7. CASE ApplyRuns
  BY <1>7 DEF ApplyRuns
<1>8. CASE \/ StartListening \/ SetHealthy \/ NoTick \/ TickEmptyIface \/ TickCarrier
           \/ MaybeSelfHeal \/ TickRefresh \/ TickVerdict
  BY <1>2, <1>8 DEF StartListening, SetHealthy, NoTick, TickEmptyIface, TickCarrier,
                    MaybeSelfHeal, TickRefresh, TickVerdict
<1>9. CASE IpcReconfigure \/ FileWrite \/ Debounce \/ Clock \/ Environment \/ UNCHANGED vars
  BY <1>2, <1>9 DEF IpcReconfigure, FileWrite, Debounce, Clock, Environment, vars
<1> QED
  BY <1>4, <1>5, <1>6, <1>7, <1>8, <1>9 DEF Next, Thread

\* The daemon's probe never hears its own dnsmasq and its ping never reaches its own address,
\* whatever it healed between two calls or left behind when it was killed.
THEOREM DaemonProbesSeeOthers == Spec => []NoSelfDiscovery
<1>1. DaemonInv => NoSelfDiscovery
  BY DEF DaemonInv, CallInv
<1> QED
  BY <1>1, DaemonInvariant, PTL

\* While the daemon applies, every Ethernet but the selected one is down and unaddressed.
THEOREM DaemonIsolates == Spec => []Isolated
<1>1. DaemonInv => Isolated
  BY DEF DaemonInv, CallInv
<1> QED
  BY <1>1, DaemonInvariant, PTL

\* The status the daemon stores after Ok from apply is the mode the host is in, after any
\* failed applies, self-heals, crashes and restarts.
THEOREM DaemonAppliesInMode == Spec => AppliedMode
<1>1. ASSUME DaemonTypeOK, DaemonInv, [Next]_vars
      PROVE  [Completes("apply") /\ out' # None => InMode(out)']_cliVars
  <2>1. ApplyTypeOK /\ CallInv
    BY <1>1 DEF DaemonTypeOK, DaemonInv
  <2> QED
    BY <1>1, <2>1, DaemonCompletes, ApplyEndsInMode
<1> QED
  BY <1>1, DaemonTypeCorrect, DaemonInvariant, PTL DEF Spec, AppliedMode
=============================================================================
