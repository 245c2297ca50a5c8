------------------------------- MODULE Daemon -------------------------------
(***************************************************************************)
(* `micronet serve` (daemon/mod.rs): one thread that applies the           *)
(* configuration, then loops over IPC events, configuration reloads and a  *)
(* periodic tick that watches the chosen link, restarts the process of the *)
(* mode and keeps the health verdict that `micronet check` reads. The IPC  *)
(* thread, the inotify thread, signals, the operator's edits of the file   *)
(* and the host run concurrently with it; the process can die at any step. *)
(***************************************************************************)
EXTENDS Apply

CONSTANTS
  Invalid,         \* a configuration file that does not parse or validate
  Missing,         \* no configuration file
  DefaultConfig,   \* Config::default
  Files,           \* what the configuration file can be: configurations, Invalid, Missing
  FailThreshold,   \* HEALTH_FAIL_THRESHOLD
  MaxEvents,       \* bound: Reconfigure events in the IPC channel
  MaxSignals,      \* bound: reload signals in the watcher's channel
  MaxInputs        \* bound: disturbances from outside (see Disturb)

VARIABLES
  loop,         \* where the daemon's thread is; "dead" when there is no process
  config,       \* shared.config
  status,       \* shared.status
  health,       \* shared.health: "ok", or the reason it is unhealthy
  streak,       \* fail_streak; every value from FailThreshold on acts alike
  down,         \* link.down_since: periods elapsed since then, or None
  due,          \* Instant::now() >= next_refresh
  event,        \* the event received in this iteration
  events,       \* events waiting in the IPC channel
  signals,      \* debounced reload signals waiting
  dirty,        \* inotify has seen a change that is not debounced yet
  stop,         \* the flag SIGTERM and SIGINT set
  file,         \* contents of micronet.json
  missed,       \* history: the file changed after it was loaded and before it was watched
  probeFailed,  \* history: the latest call ended in a probe that did not complete
  inputs        \* disturbances so far

sharedVars  == <<config, status, health>>
linkState   == <<streak, down, due>>
inboxVars   == <<event, events, signals, dirty, stop>>
fileVars    == <<file, missed>>
ghostVars   == <<probeFailed, inputs>>
daemonVars  == <<loop, sharedVars, linkState, inboxVars, fileVars, ghostVars>>
vars        == <<hostVars, callVars, daemonVars>>

Reasons ==
  {"emptyIface", "noIpv4", "noDnsmasq", "noDhclient"}

\* Status::empty, stored when the initial apply fails.
EmptyStatus == [mode |-> "gateway", iface |-> None, cidr |-> None, dns |-> FALSE]

Starting == {"start", "serve", "watch"}
Calling  == {"reloading", "reconfiguring", "reselecting"}
Ticking  == {"tick", "heal", "recheck", "verdict"}
Looping  == {"top", "reload", "event"} \cup Ticking \cup Calling

MaxRetry == CHOOSE r \in {c.retry : c \in Configs} : \A c \in Configs : c.retry <= r

ASSUME DaemonAssumption ==
  /\ Invalid \notin Configs
  /\ Missing \notin Configs
  /\ DefaultConfig \in Configs
  /\ Files \subseteq Configs \cup {Invalid, Missing}
  /\ FailThreshold \in Nat \ {0}
  /\ MaxEvents \in Nat
  /\ MaxSignals \in Nat
  /\ MaxInputs \in Nat

FlagsTypeOK ==
  /\ due \in BOOLEAN
  /\ event \in BOOLEAN
  /\ dirty \in BOOLEAN
  /\ stop \in BOOLEAN
  /\ missed \in BOOLEAN
  /\ probeFailed \in BOOLEAN

DaemonTypeOK ==
  /\ ApplyTypeOK
  /\ FlagsTypeOK
  /\ loop \in {"dead"} \cup Starting \cup Looping
  /\ config \in Configs
  /\ status \in Statuses
  /\ health \in Reasons \cup {"ok"}
  /\ streak \in 0 .. FailThreshold
  /\ down \in Nat \cup {None}
  /\ events \in 0 .. MaxEvents
  /\ signals \in 0 .. MaxSignals
  /\ file \in Files \cup {DefaultConfig}
  /\ inputs \in 0 .. MaxInputs
  /\ loop \in {"heal", "recheck", "verdict"} => status.iface \in Ifaces

-----------------------------------------------------------------------------
(* Starting and stopping.                                                  *)

Disturb == inputs < MaxInputs /\ inputs' = inputs + 1

\* The daemon's memory when there is no process.
Blank ==
  /\ config = DefaultConfig
  /\ status = EmptyStatus
  /\ health = "ok"
  /\ streak = 0
  /\ down = None
  /\ due = FALSE
  /\ event = FALSE
  /\ events = 0
  /\ signals = 0
  /\ dirty = FALSE
  /\ stop = FALSE
  /\ missed = FALSE
  /\ probeFailed = FALSE

Forget ==
  /\ config' = DefaultConfig
  /\ status' = EmptyStatus
  /\ health' = "ok"
  /\ streak' = 0
  /\ down' = None
  /\ due' = FALSE
  /\ event' = FALSE
  /\ events' = 0
  /\ signals' = 0
  /\ dirty' = FALSE
  /\ stop' = FALSE
  /\ missed' = FALSE
  /\ probeFailed' = FALSE

Exit == loop' = "dead" /\ NoCall /\ Forget /\ UNCHANGED <<hostVars, file>>

\* run: load_or_create writes the defaults when there is no file; an invalid one is an
\* error, and the process exits having done nothing.
Serve ==
  /\ loop = "dead"
  /\ file # Invalid
  /\ file' = IF file = Missing THEN DefaultConfig ELSE file
  /\ config' = file'
  /\ Begin("apply", file')
  /\ loop' = "start"
  /\ UNCHANGED <<hostVars, status, health, linkState, inboxVars, missed, probeFailed, inputs>>

\* The initial apply returns: its status, or Status::empty, goes into Shared.
InitialApplyReturns ==
  /\ loop = "start"
  /\ pc = "done"
  /\ status' = IF out = None THEN EmptyStatus ELSE out
  /\ loop' = "serve"
  /\ NoCall
  /\ UNCHANGED <<hostVars, config, health, linkState, inboxVars, fileVars, ghostVars>>

\* ipc::serve, then watch::spawn and signals::install. Their errors end the process, as
\* Crash does.
StartListening ==
  /\ loop \in {"serve", "watch"}
  /\ loop' = IF loop = "serve" THEN "watch" ELSE "top"
  /\ UNCHANGED <<hostVars, callVars, sharedVars, linkState, inboxVars, fileVars, ghostVars>>

Crash == loop # "dead" /\ Exit /\ Disturb

\* SIGTERM or SIGINT: before signals::install they kill the process.
Term ==
  /\ loop # "dead"
  /\ ~stop
  /\ Disturb
  /\ IF loop \in Starting
     THEN Exit
     ELSE /\ stop' = TRUE
          /\ UNCHANGED <<hostVars, callVars, loop, sharedVars, linkState, event, events,
                         signals, dirty, fileVars, probeFailed>>

-----------------------------------------------------------------------------
(* The other threads, the operator and the clock.                          *)

\* ReconfigureCmd, in the IPC thread.
IpcReconfigure ==
  /\ loop \in {"watch"} \cup Looping
  /\ events < MaxEvents
  /\ events' = events + 1
  /\ Disturb
  /\ UNCHANGED <<hostVars, callVars, loop, sharedVars, linkState, event, signals, dirty, stop,
                 fileVars, probeFailed>>

\* The operator saves, breaks or deletes micronet.json.
FileWrite ==
  /\ file' \in Files \ {file}
  /\ dirty' = (dirty \/ loop \in Looping)
  /\ missed' = (loop \in Starting)
  /\ Disturb
  /\ UNCHANGED <<hostVars, callVars, loop, sharedVars, linkState, event, events, signals, stop,
                 probeFailed>>

\* The inotify thread, CONFIG_DEBOUNCE after the last change.
Debounce ==
  /\ dirty
  /\ signals < MaxSignals
  /\ dirty' = FALSE
  /\ signals' = signals + 1
  /\ UNCHANGED <<hostVars, callVars, loop, sharedVars, linkState, event, events, stop,
                 fileVars, ghostVars>>

\* A STATUS_REFRESH period passes.
Clock ==
  /\ loop \in Looping
  /\ ~due \/ (down # None /\ down < MaxRetry)
  /\ due' = TRUE
  /\ down' = IF down # None /\ down < MaxRetry THEN down + 1 ELSE down
  /\ UNCHANGED <<hostVars, callVars, loop, sharedVars, streak, inboxVars, fileVars, ghostVars>>

Environment ==
  /\ \/ (\E i \in Ifaces : LeaseAcquired(i)) /\ UNCHANGED inputs
     \/ HostEvent /\ Disturb
  /\ UNCHANGED <<callVars, loop, sharedVars, linkState, inboxVars, fileVars, probeFailed>>

-----------------------------------------------------------------------------
(* The loop: stop flag and recv_timeout, reload, reconfigure, tick.        *)

LoopTop ==
  /\ loop = "top"
  /\ IF stop
     THEN Exit
     ELSE /\ loop' = "reload"
          /\ event' = (events > 0)
          /\ events' = IF events > 0 THEN events - 1 ELSE 0
          /\ UNCHANGED <<hostVars, callVars, sharedVars, linkState, signals, dirty, stop, fileVars,
                         probeFailed>>
  /\ UNCHANGED inputs

\* Mutant: the defaults for a missing file are forgotten.
LoadAsIs(f) == f

\* config::load: a missing file means the defaults.
Load(f) == IF f = Missing THEN DefaultConfig ELSE f

\* apply_now.
Call(c, caller) ==
  /\ Begin("apply", c)
  /\ loop' = caller
  /\ probeFailed' = FALSE

\* Mutant: the new configuration is applied but not kept in shared.config.
OnConfigReloadUnstored ==
  /\ loop = "reload"
  /\ signals' = IF signals > 0 THEN signals - 1 ELSE 0
  /\ IF signals > 0 /\ file # Invalid
     THEN Call(Load(file), "reloading")
     ELSE loop' = "event" /\ UNCHANGED <<callVars, probeFailed>>
  /\ UNCHANGED <<hostVars, sharedVars, linkState, event, events, dirty, stop, fileVars, inputs>>

OnConfigReload ==
  /\ loop = "reload"
  /\ signals' = IF signals > 0 THEN signals - 1 ELSE 0
  /\ IF signals > 0 /\ file # Invalid
     THEN config' = Load(file) /\ Call(Load(file), "reloading")
     ELSE loop' = "event" /\ UNCHANGED <<config, callVars, probeFailed>>
  /\ UNCHANGED <<hostVars, status, health, linkState, event, events, dirty, stop, fileVars, inputs>>

OnReconfigure ==
  /\ loop = "event"
  /\ event' = FALSE
  /\ IF event
     THEN Call(config, "reconfiguring")
     ELSE loop' = "tick" /\ UNCHANGED <<callVars, probeFailed>>
  /\ UNCHANGED <<hostVars, sharedVars, linkState, events, signals, dirty, stop, fileVars, inputs>>

\* A step of the apply in progress. probeFailed records how its probe ended.
ApplyRuns ==
  /\ CallStep
  /\ probeFailed' = (probeFailed \/ (pc = "probe" /\ pc' = "done"))
  /\ UNCHANGED <<loop, sharedVars, linkState, inboxVars, fileVars, inputs>>

\* Back to the loop: next_refresh is set again after a tick.
Resume ==
  /\ loop' = CASE loop = "reloading" -> "event"
               [] loop = "reconfiguring" -> "tick"
               [] loop = "reselecting" -> "top"
  /\ due' = (due /\ loop # "reselecting")

\* Mutant: neither the streak nor the health is reset.
KeepHealth == UNCHANGED <<streak, health>>

\* fail_streak = 0 and set_health(true, None).
ResetHealth == streak' = 0 /\ health' = "ok"

\* Ok(s): store_status, then (a separate lock) fail_streak = 0 and set_health(true).
StoreStatus ==
  /\ loop \in Calling
  /\ pc = "done"
  /\ out # None
  /\ status' = out
  /\ down' = None
  /\ NoCall
  /\ UNCHANGED <<hostVars, loop, config, health, streak, due, inboxVars, fileVars, ghostVars>>

SetHealthy ==
  /\ loop \in Calling
  /\ pc = "idle"
  /\ ResetHealth
  /\ Resume
  /\ UNCHANGED <<hostVars, callVars, config, status, down, inboxVars, fileVars, ghostVars>>

\* Err(e): logged; status, health and down_since stay as they were.
CallFailed ==
  /\ loop \in Calling
  /\ pc = "done"
  /\ out = None
  /\ NoCall
  /\ Resume
  /\ UNCHANGED <<hostVars, sharedVars, streak, down, inboxVars, fileVars, ghostVars>>

-----------------------------------------------------------------------------
(* tick.                                                                   *)

\* Mutant: a healthy verdict does not start the count again.
RecordVerdictKeepingStreak(reason) ==
  IF reason = "ok"
  THEN health' = "ok" /\ UNCHANGED streak
  ELSE /\ streak' = IF streak < FailThreshold THEN streak + 1 ELSE streak
       /\ health' = IF streak' >= FailThreshold THEN reason ELSE health

\* record_verdict and set_health; reason "ok" is Verdict::Healthy.
RecordVerdict(reason) ==
  IF reason = "ok"
  THEN ResetHealth
  ELSE /\ streak' = IF streak < FailThreshold THEN streak + 1 ELSE streak
       /\ health' = IF streak' >= FailThreshold THEN reason ELSE health

TickDone == loop' = "top" /\ due' = FALSE

NoTick ==
  /\ loop = "tick"
  /\ ~due
  /\ loop' = "top"
  /\ UNCHANGED <<hostVars, callVars, sharedVars, linkState, inboxVars, fileVars, ghostVars>>

\* Mutant: nothing to watch, nothing to report.
TickEmptyIfaceSilent ==
  /\ loop = "tick"
  /\ due
  /\ status.iface = None
  /\ TickDone
  /\ UNCHANGED <<hostVars, callVars, sharedVars, streak, down, inboxVars, fileVars, ghostVars>>

TickEmptyIface ==
  /\ loop = "tick"
  /\ due
  /\ status.iface = None
  /\ RecordVerdict("emptyIface")
  /\ TickDone
  /\ UNCHANGED <<hostVars, callVars, config, status, down, inboxVars, fileVars, ghostVars>>

\* refresh_live_status.
Refresh == status' = [status EXCEPT !.cidr = Cidr(status.iface), !.dns = (dnsmasq # None)]

TickCarrier ==
  /\ loop = "tick"
  /\ due
  /\ status.iface # None
  /\ Carrier(status.iface)
  /\ down' = None
  /\ Refresh
  /\ loop' = "heal"
  /\ UNCHANGED <<hostVars, callVars, config, health, streak, due, inboxVars, fileVars, ghostVars>>

\* Mutant: every tick without carrier starts the wait again.
DownSinceThisTick == 0

\* down_since is set by the first tick without carrier.
DownSince == IF down = None THEN 0 ELSE down

\* should_reselect compares the time without carrier with linkRetrySecs.
TickNoCarrier ==
  /\ loop = "tick"
  /\ due
  /\ status.iface # None
  /\ ~Carrier(status.iface)
  /\ down' = DownSince
  /\ ResetHealth
  /\ IF down' >= config.retry
     THEN Call(config, "reselecting") /\ UNCHANGED due
     ELSE TickDone /\ UNCHANGED <<callVars, probeFailed>>
  /\ UNCHANGED <<hostVars, config, status, inboxVars, fileVars, inputs>>

\* The process the mode needs (true in static mode).
ProcRunning ==
  CASE status.mode = "gateway" -> dnsmasq # None
    [] status.mode = "client"  -> status.iface \in dhclient
    [] status.mode = "static"  -> TRUE

\* Mutant: whatever is missing, dnsmasq is what gets restarted.
HealDnsmasqInAnyMode ==
  /\ \/ DnsmasqReload(status.iface, config.gw)
     \/ DnsmasqReloadFails(status.iface, config.gw)
  /\ UNCHANGED dhclient

\* maybe_self_heal; an error is only logged.
HealDnsmasq ==
  /\ status.mode = "gateway"
  /\ \/ DnsmasqReload(status.iface, config.gw)
     \/ /\ ~HasAddr(status.iface, GatewayIp(config.gw)) \/ "gatewayDnsmasq" \in FailingSteps
        /\ DnsmasqReloadFails(status.iface, config.gw)
  /\ UNCHANGED dhclient

HealDhclient ==
  /\ status.mode = "client"
  /\ \/ StartDhclient(status.iface)
     \/ "clientStart" \in FailingSteps /\ UNCHANGED dhclient
  /\ UNCHANGED <<dnsmasq, conf>>

MaybeSelfHeal ==
  /\ loop = "heal"
  /\ IF ProcRunning THEN UNCHANGED procVars ELSE HealDnsmasq \/ HealDhclient
  /\ loop' = "recheck"
  /\ UNCHANGED <<linkVars, addrVars, callVars, sharedVars, linkState, inboxVars, fileVars, ghostVars>>

TickRefresh ==
  /\ loop = "recheck"
  /\ Refresh
  /\ loop' = "verdict"
  /\ UNCHANGED <<hostVars, callVars, config, health, linkState, inboxVars, fileVars, ghostVars>>

\* Mutant: an address is enough.
AssessAddressOnly == IF Cidr(status.iface) = None THEN "noIpv4" ELSE "ok"

\* Mutant: the process is enough.
AssessProcessOnly ==
  IF ProcRunning THEN "ok" ELSE IF status.mode = "gateway" THEN "noDnsmasq" ELSE "noDhclient"

Assess ==
  IF Cidr(status.iface) = None THEN "noIpv4"
  ELSE IF ProcRunning THEN "ok"
  ELSE IF status.mode = "gateway" THEN "noDnsmasq"
  ELSE "noDhclient"

TickVerdict ==
  /\ loop = "verdict"
  /\ RecordVerdict(Assess)
  /\ TickDone
  /\ UNCHANGED <<hostVars, callVars, config, status, down, inboxVars, fileVars, ghostVars>>

-----------------------------------------------------------------------------
Init ==
  /\ HostBoot
  /\ CallInit
  /\ loop = "dead"
  /\ Blank
  /\ file \in Files
  /\ inputs = 0

\* The steps of the daemon's own thread.
Thread ==
  \/ InitialApplyReturns \/ StartListening
  \/ LoopTop \/ OnConfigReload \/ OnReconfigure
  \/ ApplyRuns \/ StoreStatus \/ SetHealthy \/ CallFailed
  \/ NoTick \/ TickEmptyIface \/ TickCarrier \/ TickNoCarrier
  \/ MaybeSelfHeal \/ TickRefresh \/ TickVerdict

Next ==
  \/ Serve \/ Thread
  \/ Crash \/ Term \/ IpcReconfigure \/ FileWrite \/ Debounce \/ Clock \/ Environment

Spec == Init /\ [][Next]_vars

\* The thread is scheduled, time passes and the inotify thread delivers. Nothing is
\* assumed of the host, of the operator, or of commands succeeding.
FairSpec == Spec /\ WF_vars(Thread) /\ WF_vars(Clock) /\ WF_vars(Debounce)

-----------------------------------------------------------------------------
(* Safety.                                                                 *)

\* The health `micronet check` sees is the fail streak's: unhealthy exactly while the last
\* HEALTH_FAIL_THRESHOLD verdicts in a row were bad, across ticks, reloads, failed and
\* successful applies.
HealthIsHysteretic == (health # "ok") <=> (streak >= FailThreshold)

\* While the daemon waits for a lost link (down_since is set) it is healthy and starts
\* counting from zero: a link that is down never gets the daemon restarted.
LinkDownIsHealthy == down # None => health = "ok" /\ streak = 0

\* Between store_status and set_health a reader can see the new status with the old health.
Torn == loop \in Calling /\ pc = "idle"

\* A reported reason is about the mode and interface reported next to it.
ReasonMatchesStatus ==
  ~Torn =>
    /\ health = "noDnsmasq" => status.mode = "gateway"
    /\ health = "noDhclient" => status.mode = "client"
    /\ health # "ok" => (health = "emptyIface" <=> status.iface = None)

ServedBy(s) ==
  dnsmasq # None /\ s.iface # None => s.mode = "gateway" /\ dnsmasq.iface = s.iface

\* Our dnsmasq, whenever it runs under a daemon that has an interface, serves that
\* interface, and the daemon says it is a gateway: through failed re-applies, self-heals
\* and restarts no server is left behind on another port or in another mode.
DnsmasqServesStatus ==
  loop \in Looping /\ pc # "done" => ServedBy(status)

\* A valid configuration file that is not the one in use has been seen by the watcher,
\* unless it was written between the load and the start of the watch.
NoLostReload ==
  loop \in Looping /\ file # Invalid /\ ~missed =>
    config = Load(file) \/ dirty \/ signals > 0

\* What the health of the daemon rests on besides: a link is being waited for only while
\* there is an interface, and never in the part of a tick that ends in a verdict.
HealthInv ==
  /\ HealthIsHysteretic
  /\ LinkDownIsHealthy
  /\ ReasonMatchesStatus
  /\ loop \in {"dead"} \cup Starting => health = "ok" /\ streak = 0 /\ down = None
  /\ loop \in {"heal", "recheck", "verdict"} => down = None
  /\ down # None => status.iface # None

\* Until the watch starts, the file is the loaded one or has been missed.
ReloadInv ==
  /\ NoLostReload
  /\ loop \in Starting /\ ~missed => file # Missing /\ config = file

\* A call in progress is an apply, and the loop waits for it.
OwnCall == pc # "idle" => loop \in {"start"} \cup Calling /\ op = "apply"

\* The dnsmasq that runs is the one of the status a call is about to return or, failing
\* that, of the status in use.
ServerInv ==
  /\ OwnCall
  /\ pc = "done" /\ out # None => out.iface # None /\ ServedBy(out)
  /\ loop \in {"serve", "watch"} \cup Looping /\ ~(pc = "done" /\ out # None) => ServedBy(status)

\* The inductive invariant behind the five properties above: what the daemon's memory, the
\* call in progress and the running dnsmasq have to do with each other at every step.
DaemonInv == CallInv /\ HealthInv /\ ReloadInv /\ ServerInv

\* "Do not start dnsmasq when the probe did not complete" (ARCHITECTURE 6.4).
FailClosed == [][dnsmasq = None /\ dnsmasq' # None => ~probeFailed]_vars

-----------------------------------------------------------------------------
(* Liveness, under FairSpec.                                               *)

Quiet == pc = "idle" /\ loop \notin Calling

\* A link that is lost and stays lost is re-selected: the daemon calls apply again.
LinkLossReselects ==
  (loop \in Looping /\ status.iface # None /\ ~Carrier(status.iface))
    ~> (Carrier(status.iface) \/ ~Quiet \/ loop = "dead")

\* A daemon whose initial apply failed does not stay silently healthy without an interface.
EmptyIsReported ==
  (loop \in Looping /\ status.iface = None)
    ~> (health # "ok" \/ status.iface # None \/ loop = "dead")

\* The process of the mode goes missing on a live link: it is back at a later tick, or the
\* daemon reports itself unhealthy, unless another apply or a link loss comes first.
MissingProcessNoticed ==
  (loop \in Looping /\ status.iface # None /\ ~ProcRunning)
    ~> (ProcRunning \/ health # "ok" \/ ~Carrier(status.iface) \/ ~Quiet \/ loop = "dead")

\* An edit the watcher saw is loaded, or the file no longer is valid, or the daemon stops.
EditIsLoaded ==
  (loop \in Looping /\ dirty) ~> (config = Load(file) \/ file = Invalid \/ loop = "dead")

\* SIGTERM ends the daemon, whatever it is doing.
TermStops == stop ~> loop = "dead"
=============================================================================
