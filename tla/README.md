# micronet: TLA+ models, model checking and proofs

micronet (`src/crates/micronet`) is a small Rust daemon that configures the
physical Ethernet of an appliance. It picks one interface, takes the others
down, listens once for a foreign DHCP server, pings its own gateway address and
then puts the host in one of three modes: *client* (dhclient), *static* (a fixed
address and a default route) or *gateway* (the gateway address and dnsmasq).
Afterwards it watches the link, restarts the process its mode needs and keeps a
health verdict that the supervisor polls.

## 1. Inventory

| Component | State it keeps | Operations | What makes it correct |
|---|---|---|---|
| apply / teardown (`apply/mod.rs`) | none of its own; changes the host | `apply_with`, `teardown_with`, `isolate_iface`, `flush_all_ethernet`, `apply_client/static/gateway`, `decide` | Ok means the host is in the mode reported, whatever was left by earlier calls; one Ethernet is up; it never discovers itself |
| host commands (`net/mod.rs`, `net/addr.rs`) | links, addresses, default route, dhclient per interface | `resolve_iface`, `bring_up`, `set_down`, `flush_addr`, `add_addr`, `ping`, `start/stop_dhclient`, `wait_ipv4`, routes | errors are returned or dropped as written; a vanished device makes commands fail |
| dnsmasq control (`dhcp/`) | dnsmasq, `dnsmasq.conf` | `ensure_conf`, `start`, `stop`, `reload_or_restart` | the running dnsmasq has the written configuration |
| pidfiles (`pidfile.rs`) | pidfile per process | `read_pid`, `is_alive`, `stop` | a server that runs is named by the pidfile; only our own process is signalled |
| DHCP probe (`net/probe.rs`) | a socket | `probe_foreign_dhcp`, `decode_matching_offer`, `offer_identity` | only an answer to this DISCOVER counts, one that came in time is read unless the time runs out before the reads get to it, and the probe ends |
| daemon (`daemon/mod.rs`, `signals.rs`) | `Shared` (config, status, applying, health), `down_since`, `fail_streak`, `next_refresh` | `run`, `on_config_reload`, `on_reconfigure`, `tick`, `maybe_self_heal`, `record_verdict`, `set_health` | health is hysteretic and true of the status; a lost link is re-selected; dnsmasq runs only where the status says; edits are loaded |
| configuration (`config/mod.rs`, `config/watch.rs`) | `micronet.json`, inotify watch | `load_or_create`, `load`, `validate`, `parse_sticky`, `normalize_dns_name`, `spawn` | what passes validation makes a usable `dnsmasq.conf`; no edit made under the watch is lost |
| IPC (`ipc/`) | socket, client places, event channel | `status`, `info`, `reconfigure` | an exit code means what it says; every command returns |
| command line (`main.rs`) | none | `serve`, `apply`, `teardown`, `check`, ... | dispatches to the above |
| version, errors, constants | none | reports | - |

How they interact: the daemon's one thread runs everything that changes the
host, by calling `apply` (blocking, for tens of seconds). An IPC thread reads
`Shared` and sends `Reconfigure` over a channel; an inotify thread sends
debounced reload signals over another; signal handlers set a flag. `micronet
apply` and `micronet teardown` call the same code from a process of their own.
dnsmasq and dhclient are separate processes found through pidfiles. The kernel,
USB hot-plugging, cables, the LAN and the operator change things underneath.

What is hard: the host moves between any two commands of a call; most commands
can fail, and some failures are dropped; a call or the daemon can die anywhere
and the next one starts from what is left; status and health are written under
different locks; the loop acts on a status that a failed apply did not update;
reloads, reconfigures and ticks interleave; several things must happen
eventually although every single failure is only logged. `PROJECT.json` lists
these hazards with the line where each one bites.

## 2. Modules

| Module | Models |
|---|---|
| `Host` | The host as the code sees and changes it: devices that exist, admin state, cables, addresses in the order `ip addr show` prints them, default route, live dhclients, the configuration dnsmasq runs with, `dnsmasq.conf`. Its actions are what the host does by itself. |
| `Apply` (extends `Host`) | `apply_with` and `teardown_with`, one action per command (but one for the loop over the devices in `isolate_iface`, and one for that in `flush_all_ethernet`), `pc` naming the next one; `job`, `sel` and `out` are the call's configuration, interface and result (`None` is `Err`). `CliSpec` is the one-shot use: a call at a time, any of them killed at any step. |
| `Daemon` (extends `Apply`) | `micronet serve`: `loop` is where the thread is, the other variables are `Shared`, the loop's locals, the two channels, the stop flag and the file. Calls run through the same actions as in `CliSpec` (`ApplyRuns`). |
| `Concurrent` (extends `Daemon`, a second instance of `Apply`) | The daemon beside a command of another process (`apply`, `teardown`, a second `serve`, `configure-ethernet check`) on the same host, with a call of its own. |
| `Service` | What a caller of `dhcp::stop` and `dhcp::reload_or_restart` believes: one server, or none, and the file it has read. |
| `Pidfile` (implements `Service`) | The same operations as they are: `stop_in`, `start`, `reload_or_restart`, `sighup` and `ensure_conf`, one action per system call, against processes that exit, ignore SIGTERM, remove their pidfile, linger after SIGKILL, and numbers that are reused. |
| `PidfilePair` (two instances of `Pidfile`) | Two callers on one pidfile. |
| `Probe` | `probe_foreign_dhcp`: the socket, the DISCOVER, the receive loop and `decode_matching_offer`, on segments that lose, delay, duplicate and reorder. |
| `Config` | Defaults, `validate`, `parse_sticky`, `normalize_dns_name`, the derived addresses, `load_or_create` and `render_conf`. |
| `Control` | The socket server and its clients: places, requests, replies, the event channel, exit codes; the daemon starting, stopping and dying. |
| `ApplyProofs`, `DaemonProofs`, `ConcurrentProofs`, `PidfileProofs`, `ProbeProofs`, `ConfigProofs`, `ControlProofs` | Theorems and their proofs, each module extending the one it is named after. |
| `MC*` | Instances for TLC. |

Correspondence, where it is not evident:

- `FailingSteps` names the steps whose commands may fail for reasons of their
  own. A command that the host makes impossible (its device is gone, `ip addr
  add` of an address that is there) fails regardless of it. Steps whose error
  the code drops are *best-effort*: if named, they may fail on any subset of
  what they work on (`Spared`) and the call goes on.
- In `Apply` the probe, the ping and the waits for carrier and for a lease are
  single steps with every outcome that the links then allow. An offer or a reply
  needs a live link. `Probe` opens up the first of them.
- Routes go with the addresses or the link of their device, as the kernel does.
- In `Host` a pidfile-owned process is running or not. `Pidfile` opens that up,
  and its refinement of `Service` is what justifies it for a single caller: a
  stop ends with no server, a reload with the server that has the written file.
- A subnet (`Nets`) stands for `gateway.ip` with its /24 and its static host. A
  configuration of `Daemon` has an interface, a subnet and `linkRetrySecs` in
  ticks; the other fields do not influence its control and are in `Config`.
- `down` counts refresh periods since `down_since`; `streak` stops at the
  threshold, beyond which all values act alike (`saturating_add` in the code).
- `SetHealthy` is a step of its own because `store_status` and `set_health` take
  different locks; a status request is a read of the state between any two
  steps. `tick` is five steps, as the host can change between its commands.
- The `applying` flag is not a variable: the thread that sets it is the only
  one that reads it, when it is false.
- A `Concurrent` command is a disturbance of the daemon. A second `serve` applies
  first and tries the socket afterwards; it exits if the daemon listens, and
  takes its place if that is still in its initial apply (`TakesOver`).
- A server of `Pidfile` is `young` from its spawn until it has written its
  pidfile, as dnsmasq and not the caller writes it. `fresh` records which numbers
  have changed hands since the caller's last look at `/proc`.
- `Control` follows the end of `run` step by step: the loop is left (`leaving`),
  the socket file is removed (`unlinked`), `run` returns and drops its end of the
  channel (`ending`), the process is gone (`dead`). Until the third of these a
  send still works, with nobody left to take the event.
- In `Probe` a packet has the fields that are looked at; `flaw` is the first
  other check it fails. Times count down in units of the receive timeout.
- In `Config` a name is a sequence of character classes (`Chars`), an address is network
  and last octet, and `MaxU64` stands for the largest `u64`: in the run it is
  small, so that products of the lease time cross it. `parse_sticky` only checks:
  what dnsmasq makes of the text, with a width of its own, is not modelled.
- `missed`, `probeFailed`, `clear`, `clear2`, `fresh`, `cutShort`, `answered`,
  `turns`, `seen` and `queued` are history variables used by properties only.
- Poisoned locks and a disconnected event channel inside the loop are left out:
  no thread panics in this code.

Mutants (definitions marked so in comments, each beside the definition it
replaces) are plausible mistakes that the properties are shown to catch.

## 3. Runs

| Run | Checks |
|---|---|
| `apply` | `NoSelfDiscovery`, `Isolated`, `AppliedMode`, `TeardownClean`, `CallInv`, `ApplyTypeOK`. Two Ethernets, one of them hot-pluggable, two subnets, automatic or pinned selection; every command whose error ends the call may fail; no bound on the number of calls, so calls that start from what failed and killed ones left are covered. 586,000 states. |
| `daemon` | `HealthIsHysteretic`, `ReasonMatchesStatus`, `LinkDownIsHealthy`, `DnsmasqServesStatus`, `NoLostReload`, `DaemonInv`, `DaemonTypeOK`. Two Ethernets, two configurations on different subnets, invalid and missing files, link loss, hot-plugging, dying processes, crashes, failing isolation, probe and dnsmasq. 1.9 million states. |
| `daemon_live` | `LinkLossReselects`, `EmptyIsReported`, `MissingProcessNoticed`, `EditIsLoaded`, `TermStops` under `FairSpec`. 218,000 states. |
| `pidfile` | `ImplementsService` (refinement), `OwnerInv`, `ServiceInv`, `TypeOK`. Three process numbers, two files, no bound on requests. 146,000 states. |
| `pidfile_twins` | `NoOrphan`, `ForeignSpared` with a look-alike and callers killed at any step. 294,000 states. |
| `config` | `PoolIsOurs`, `LeaseIsExact`, `EveryRecordServed`, `FileIsConfig` on every file of `MCConfig`: all octets next to the defaults and the ends of a `u8`, lease times around the largest product that fits, every name of up to four characters and pairs of up to two. 15,000 states. |
| `probe` | `OfferAnswersUs`, `NothingOverlooked`, `ProbeEnds`, `TypeOK`: probes one after the other on two devices with servers that come and go, and on a third without a usable address. 165,000 states. |
| `concurrent` | `UndisturbedProbes`, `NextCallRecovers` with the four commands beside the daemon. 1.5 million states. |
| `concurrent_live` | `StrippedIsNoticed` under `ConcFairSpec`: a daemon whose interface a teardown or a second `serve` has stripped, complete, killed or stuck at any step, repairs or reports it. 828,000 states. |
| `control` | `CheckIsTruthful`, `ReconfigureIsHonest`, `CommandsReturn`, `TypeOK` with two clients and one place, across every step of the daemon's end. 97,000 states. |

Bounds. `MaxInputs` caps disturbances (host events other than leases, crashes,
signals, reconfigures, edits, commands): two reach any pair of them in any order
and at any step, a crash during the apply that an edit has caused for example;
the safety properties of the daemon are proved without the bound. The liveness
premises need one. `MaxEvents` and `MaxSignals` of `Daemon` are one: the loop
takes one of each per iteration, so a longer queue only repeats iterations.
`FailThreshold` is the code's 3 in `daemon_live` and 2 elsewhere. Ticks, failing commands
and leases are not capped. The best-effort steps are shared out among `apply`,
`daemon`, `daemon_live` and the two runs of `Concurrent`, as a promise that rests on one is only made where it
works. Three process numbers let a server, its successor and a foreign process
exist at once. A probe has two receive timeouts and a buffer of two packets: one
to be skipped and one to be found. `MaxInFlight` is one, with duplicates made on
delivery, and `Xids` has two identifiers, so that stale answers meet a new probe;
the clock-derived identifier is taken not to repeat one that is still under way.
One place and two clients fill the socket.

Fairness. `Daemon!FairSpec` assumes weak fairness of the daemon's thread (it is
scheduled, and every external command it waits for returns), of
the clock and of the inotify thread. It assumes nothing of the host, the
operator, or of commands succeeding. That commands return is an assumption about
`ip`, `ping`, `dhclient` and `dnsmasq`: the code bounds its own waits (for a
carrier, a lease, an OFFER, the end of a process) but neither `run_cmd`
(`net/mod.rs:427`) nor the `.status()` of dnsmasq (`dhcp/run.rs:44`) has a timeout,
and a command that hangs stops the daemon's thread, SIGTERM included. All of
`LinkLossReselects`, `EmptyIsReported`, `MissingProcessNoticed`, `EditIsLoaded`,
`TermStops` and `StrippedIsNoticed` rest on it. `Concurrent!ConcFairSpec` assumes
the same of the daemon's thread and the clock, and nothing of the command beside
it, which may hang anywhere. `Probe!FairSpec` assumes that the thread
runs and time passes, and nothing of the segments. `Control!FairSpec` assumes
that clients, the server's threads and the daemon's thread are scheduled (it takes
events or, once out of the loop, returns); a client of
another program may stay connected and silent for ever.

Deadlock is checked except for `Daemon`, where a dead daemon is not restarted
while its file is invalid, and `Config`, where an invalid file ends the program.

Violation runs state what a document or comment says and the code does not do;
`PROJECT.json` quotes the lines.

| Run | Shows |
|---|---|
| `fail_closed` | the self-heal starts dnsmasq after a re-apply whose probe failed |
| `pair_orphan` | a stop that finds no pidfile because another process's dnsmasq has not written it yet removes the file once it is written; nothing in the program can stop that server any more |

Other places where documents and code part, met while modelling and confirmed
with TLC on the same models, one formula each:

- An edit during the initial apply is not loaded before the next edit: the file is
  loaded at `daemon/mod.rs:101` and watched from `:125` on, and not compared when
  the watch starts. "inotify hot-reload" (`README.md:4`) promises no particular
  edit; `NoLostReload` has the exception (`missed`).
- A reload with an unchanged `dnsmasq.conf` sends SIGHUP (`dhcp/run.rs:75`), against
  "Unchanged conf → do not touch the process" (`ARCHITECTURE.md:229`).
- `teardown_with` returns when the interface cannot be resolved, before it stops
  dnsmasq (`apply/mod.rs:171`), against "Stop managed dnsmasq/dhclient and flush
  every physical Ethernet" (`apply/mod.rs:166`).
- Static mode reports `.252` also when the interface kept another address
  (`apply/mod.rs:147`, `:274`), against "`status.cidr` is always a real IPv4
  prefix" (`ARCHITECTURE.md:171`).
- An unhealthy daemon stays unhealthy while it applies, as `applying` is never
  seen set (`daemon/mod.rs:230`), and `micronet check` fails during the initial
  apply, as the socket is bound after it (`daemon/mod.rs:123`), against "Apply in
  progress → healthy" (`ARCHITECTURE.md:247`).
- A re-apply that fails at dnsmasq has deleted the default route of the static
  mode that goes on being reported (`daemon/mod.rs:219`, `ARCHITECTURE.md:40`).
- A teardown beside the daemon can return Ok with dnsmasq running again
  (`daemon/mod.rs:381`, `ARCHITECTURE.md:256`), and an apply beside it can probe
  while the self-heal has started dnsmasq (`net/probe.rs:82`: "any matching offer
  is foreign").
- A status of client mode with dnsmasq running is stored when a second `serve`
  applies at the same time (`daemon/mod.rs:104`, `ARCHITECTURE.md:82`).
- The check of an alias raises links that apply has taken down
  (`daemon/mod.rs:424`, `ARCHITECTURE.md:30`).
- A second caller can make `stop_in` vouch for one number and signal another:
  `is_alive` reads the pidfile again (`pidfile.rs:24`, `:37`, `:45`).
- A caller killed while its dnsmasq is starting leaves it without an owner
  (`dhcp/run.rs:44`); `NoOrphan` makes that exception explicit.
- Names that end in several dots are accepted (`config/mod.rs:310` against
  `:308`).
- `micronet check` fails on a healthy daemon whose client places are taken
  (`ipc/mod.rs:155`, `ARCHITECTURE.md:66`), and the event channel has no bound
  (`daemon/mod.rs:122` against "Bounded channels", `ARCHITECTURE.md:86`).

## 4. Proofs

The proof modules are checked by TLAPS, for any devices, subnets,
configurations, files, process numbers and failing steps, any threshold and any
bounds. They rest on the named assumptions of the modules only:
`HostAssumption` and `ApplyAssumption` say that device names are ordered like
numbers, that the model values for "none" and "auto" differ from real values and
that configurations are records of the right kind with a positive retry time
(which `validate` enforces); `DaemonAssumption` that the default configuration is
valid, that files are configurations, invalid or missing, and that the threshold
is positive; `ConcurrentAssumption` that there are four commands;
`PidfileAssumption`, `ProbeAssumption` and `ControlAssumption` that "none" differs
from real values, that stray packets are for nobody or flawed, and that the
timeout, the buffer and the limits are numbers; `ConfigAssumption` that the fields of a file have the types the JSON
reader enforces and that the records are a list of texts.

*Calls.* None of the promises of a call is inductive: that our dnsmasq is down
during the probe depends on it having been stopped two steps earlier and on
nothing starting it since; that a gateway has no dhclient depends on
`stop_dhclient` eight steps before. `CallInv` says, per step, what the steps
before have established: dnsmasq is down (`Silent`), the selected interface has
no dhclient (`Unleased`), the others are isolated, a client's addresses are
leases, a gateway's route is gone. The one part that needs an argument is that
the host does not undo it: a lease needs a live dhclient on an interface that is
up, after isolation only the selected one is up, and its dhclient has been
stopped (`HostKeepsInv`). `GoneIsBare` covers devices that vanish and come back.
From `CallInv` follow `ProbesSeeOthers`, `OthersAreIsolated`, `ApplyIsInMode` and
`TeardownIsClean`; the last two are action properties, proved from the shape of
the steps that can end a call with Ok.

*The daemon.* `DaemonInv` is `CallInv` and three parts, each with a lemma of its
own. `HealthInv` adds to the three health properties that nothing is waited for
without an interface, and that the part of a tick that ends in a verdict runs
with `down_since` empty; without these `LinkDownIsHealthy` would be broken by a
verdict. `ReloadInv` adds that until the watch starts the loaded configuration is
the file or the edit has been missed. `ServerInv` says whose dnsmasq is running:
that of the result a finished call is about to hand over or, failing that, that
of the status in use; it needs `CallInv` for the fact that an apply starts
dnsmasq in its last step only (`CallServes`). `DaemonKeepsTypes` and these lemmas
give `DaemonInvariant`, and the five safety properties follow. As `CallInv` is
part of it, what is promised of a call holds of the daemon's as well
(`DaemonProbesSeeOthers`, `DaemonIsolates`, `DaemonAppliesInMode`): no self-heal,
crash or failed apply between two calls can break it.

*Two processes.* In `Concurrent` the daemon and a command undo each other's work,
so `CallInv` holds of neither call. `ConcInv` keeps it for the calls that have
had the host to themselves so far (`clear`, `clear2`), and for the rest only what
needs no call: the daemon's call is an apply that its loop waits for (`OwnCall`),
its health is consistent (`HealthInv`), and what is unplugged is bare
(`GoneIsBare`). The lemmas about calls are proved once, in `ApplyProofs`;
`CmdP == INSTANCE ApplyProofs WITH pc <- pc2, ...` states them of the command's
variables, and `SameAssumptions`, `SameHost` and `SameStep` show that both sets
of definitions speak of the same constants, host and steps. The daemon's lemmas
in `DaemonProofs` assume no more than the part of `DaemonInv` they need, so that
they can be used where `ServerInv` is false. The cases that need an argument are
the ones where a process changes roles: a call that ends or begins owes nothing
to the host (`CallFresh`, `CommandFresh`), and when a second `serve` takes over,
the first one's call becomes the command's with what it owed
(`CallIsHandedOver`). `NextCallMakesGood` then follows from the lemmas behind
`ApplyIsInMode` and `TeardownIsClean`, as only a step of a call completes it.

*Pidfiles.* `NoOrphan` is not inductive: a stop removes the pidfile by its path,
which is safe only because at that point no server of ours serves. `OwnerInv`
carries that through the steps: from `remove` to `spawn` there is no server, a
server that has not settled yet is the one being waited for, and between a look
and a signal the pidfile is gone or names the number that was read. The last
conjunct is what one caller has and two have not. From it follow
`ServersAreOwned` and `ForeignProcessesAreSpared`, for any look-alikes and killed
callers, with the exception that `cutShort` records. For the refinement
(`PidfileImplementsService`) look-alikes and killed callers are excluded
(`Undisturbed`); `ServiceInv` adds what the mapping needs: the pidfile never
names a server that is leaving or starting, a reload whose file is unchanged is
only ever on its way through a stop when there is no server, and a server being
started has the file of the request. `StopRefines`, `StartRefines`,
`ReloadRefines` and `ProcessesRefine` take each step to a step of `Service` or to
a stutter.

*The probe.* `ProbeInv` has three parts. `PlaceInv` ties the device, the
identifier, the socket and the DISCOVER to the step the probe is at; without it
not even the types hold, as a server answers with the device of the probe.
`OfferInv` says that no OFFER for this device and identifier is on the segments
or in the buffer unless a server has answered: `decode_matching_offer` turns
everything else down, whatever strays and answers to earlier probes are under way
(an identifier is not reused while such an answer is). `ArrivedInv` is about the
reads: `turns` counts the `recv_from` calls the probe has yet to begin before it
comes to the first OFFER that arrived in time, and the invariant says that an
OFFER is at most that deep in the buffer (`Reach`). A read takes one packet from
the head and, if that is the OFFER, finds it; a receive timeout takes none, but
then the buffer was empty. So a probe that ends with "none" after an OFFER in time
has had its whole timeout and was still short of reads.

*The socket.* `ControlInv` relates what a client has in hand at each step to what
it has seen of the daemon since its command began (`seen`, with `Conditions`: the
health of a daemon that listens, and whether a loop runs): a session is with a
process that is there, and an answer "healthy" was computed by one that has
listened and been healthy since; the answer to reconfigure comes after the event
was put before a loop, or no loop ran. A client remembers more than the present,
so each of these survives the end of the loop, of the socket and of the process,
crashes and restarts. `RoomIsKept` counts sessions: with the cardinality
theorems of the library, only a connection that finds room adds one.

*Configuration.* `ConfigInv` says that a configuration in use is one that
`validate` accepted, with numbers of the right ranges, that it is what the file
reads back as, and that the `dnsmasq.conf` was rendered from it. With it
`PoolHolds` follows from the inequalities of `validate`, `LeaseHolds` from
`ParseSticky`, and `FileHolds` from `DefaultsReadBack`: the file written for a
missing one parses to the defaults although it leaves fields out. `RecordsHold`
is about names: `validate` compares normalized names and `render_conf` normalizes
them again when it writes the file. `NormalizeTwice` shows that this changes
nothing: a name that passed has no blank, does not end in a dot, and lower case
moves no label (`NothingToTrim`, `Ends`). So the list of normalized names is an
injection, and there are as many names as records.

Only model-checked: the liveness properties (`LinkLossReselects`,
`EmptyIsReported`, `MissingProcessNoticed`, `EditIsLoaded`, `TermStops`,
`StrippedIsNoticed`, `ProbeEnds`, `CommandsReturn`), as fairness is out of the prover's reach, and what
the violation runs are about. Every invariant and every action property of a
passing run is a theorem.

## 5. Not modelled, and what comes next

Not modelled, because it keeps no state or makes no decision: the parsing of
arguments and argv0 aliases, IPC framing and threads (in the external crate
`bigfred-shared-daemon`), the bytes of a DHCP packet, the syntax of JSON and of
`dnsmasq.conf`, ethtool tweaks, version reporting. When `dhclient -nw` writes its
pidfile is not known from this repository, so `Host` has dhclient running or not.

Next:

1. `LinkWatch`: an abstract specification of "choose once, then watch the link"
   and of the health report, with `Daemon` shown to implement it.
2. What does hold of two callers on one pidfile (`PidfilePair`), as an invariant
   that says how far the ownership of a server goes.
