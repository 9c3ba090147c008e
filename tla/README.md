# GLPI agent (Rust): verification project

TLA+ models of the agent, the TLC runs that check them on small instances and
the TLAPS proofs that establish the most important properties for every
instance. Paths are relative to the repository's `crates/`; `file:line` refers
to the commit the models were written from. `PROJECT.json` maps every
definition to the lines it stands for and lists the components, the runs, the
mutated definitions that show each property can fail, the hazards of the code
and the theorems.

## 1. Inventory of the system

The agent is a Cargo workspace of fifteen crates. For each component: the state
it keeps, its operations, its partners, and where it is modelled.

| component | state | operations | interacts with | modules |
|---|---|---|---|---|
| delta inventory: `glpi-core/src/protocol/delta.rs`, `submit_inventory` of `glpi-cli/src/main.rs` | a state file per device | `load_state`, `plan`, submit to each server, `save_state`, `prune_stale` | GLPI servers, the state directory | `DeltaState`, `DeltaInventory` |
| PID file: `glpi-scheduler/src/lifecycle.rs` | the pid file | `acquire`, `Drop` | other instances, the process table | `PidFile` |
| task workers: `glpi-scheduler/src/{ipc,fork}.rs`, `forked_scan`, `run_task_worker` | two processes and a pipe of frames | spawn, send the event, read frames, wait; in the child: log, progress, result, done | daemon loop, the task | `TaskRun`, `TaskFork` |
| daemon loop: `run_daemon` | schedule, configuration held, event in hand | scheduled run, event, reload, Ctrl-C | control server, workers, files, signals | `Daemon` |
| control server: `glpi-http/src/server.rs`, `glpi-scheduler/src/event.rs` | channel of 32 events | `/now`, `/status`, `/` | HTTP clients, daemon loop | `Daemon`, `ProxyRelay` |
| proxy plugin: `glpi-http/src/proxy.rs`, `glpi-plugins/src/proxy.rs` | stored submissions | decide, store, forward | agents, other proxies, GLPI servers | `ProxyRelay` |
| remote inventory: `run_remoteinventory`, `glpi-inventory-remote` | results by target, `known_hosts` | connect, collect, submit in order, prune | SSH hosts, delta inventory | `RemoteInventory` |
| WinRM session: `glpi-inventory-remote/src/winrm.rs` | a shell and a command on the remote | create, command, receive, signal | remote Windows host | `WinRmSession` |
| deploy: `glpi-deploy/src` | the machine's disk | checks, download and verify, actions, report | mirrors, other programs | `Deploy` |
| discovery: `glpi-discovery/src/tasks/net_discovery.rs`, `ip_range.rs`, `methods` | one task per address | parse, iterate, probe, join | the network | `NetDiscovery` |
| SNMP: `glpi-discovery/src/snmp`, `tasks/net_inventory.rs` | one socket, one device being filled | connect, get, walk, retry; about seventy MIB modules | SNMP agents | `Credentials`, `MibDevice`, `VendorMibs`, `MibModules`, `SnmpInventory` |
| vSphere: `glpi-vsphere/src`, `run_esx` | a session, a dump file | login, retrieve, logout, parse, submit, dump, replay | vCenter, GLPI servers | `EsxInventory` |
| local inventory: `glpi-inventory-local/src`, `run_inventory` | content collected so far | 18 categories on three platforms, submit | files and commands of the machine | `LocalCategories`, `LocalMachine`, `LocalInventory` |
| configuration: `glpi-core/src/config` | layers | parse, apply, resolve | all of the above | `ConfigLayers` |
| transport client: `glpi-transport/src` | none | post with a timeout | GLPI servers | inside the submitting modules |
| others (section 6) | none, or no caller | | | not modelled |

What is hard in each, and what it must guarantee:

- **Delta inventory.** The file and the servers change in separate steps and
  nothing makes them atomic: a run may be refused by the second server after the
  first applied it, lose an answer, crash inside `fs::write`, or have its file
  pruned. Correct: the file describes every server unless a run failed after
  reaching one; full inventories repair every divergence, and soon enough.
- **PID file.** Read, probe, truncate, write and remove are separate calls without
  a lock; processes crash anywhere and pids are reused. Correct: one instance,
  found through the file, and never locked out by a crash.
- **Task workers.** Either process can die at any byte, the pipe is bounded, and
  after `Done` the parent waits. Correct: no misaligned frame, no mutual wait,
  success only with everything the task produced.
- **Daemon loop.** Handlers run to their end while requests pile up; `select!`
  drops the futures of the arms it does not pick. Correct: no accepted event is
  lost, repeated or overtaken; no arm starves.
- **Proxy.** Store and forwards are a sequence that fails in the middle; proxies
  wait for proxies, in a circle too. Correct: an OK means stored and delivered.
- **Remote inventory.** Concurrent hosts, one `known_hosts` file, connections that
  drop inside a command, ordered submission that aborts. Correct: each host is
  accounted for, and gets its inventory in the end.
- **WinRM, vSphere.** Sessions over requests any of which may fail before or after
  the remote acted on it. Correct: remote resources are released where the code
  can release them, and what is reported is whole.
- **Deploy.** A disk shared with other programs and mirrors that answer with
  anything. Correct: actions begin on verified files only, and the report is true.
- **Discovery.** Address arithmetic at the limits of the width, tasks that lose
  answers or panic. Correct: every address once, every answer with its address.
- **SNMP.** Retries on one socket, late answers, tables without an end, modules
  that meet on one device. Correct: whole device or none, nothing undone.
- **Local inventory and configuration.** Joins of several commands while the
  machine changes; fallbacks that mix sources; layers of lists. Correct: nothing
  invented, everything reported, to the configured servers.

## 2. Modules

| module | models | kind |
|---|---|---|
| `DeltaState` | the pure part of delta.rs | operators |
| `DeltaInventory` | one device, several servers; EXTENDS `DeltaState` | state machine |
| `PidFile` | `acquire`, `Drop`, kills, pid reuse | state machine |
| `TaskRun` | what a run in a child process promises the daemon | abstract specification |
| `TaskFork` | framed IPC and both of its ends; implements `TaskRun` | state machine |
| `Daemon` | `run_daemon`, the `/now` handler, the event mapping | state machine |
| `RemoteInventory` | several devices over one state directory; EXTENDS `DeltaState` | state machine |
| `ProxyRelay` | a graph of proxies and servers | state machine |
| `NetDiscovery` | ranges, tasks, semaphore, join; EXTENDS `Credentials` | state machine |
| `Credentials` | SNMP credentials of all versions and which of them make a session | operators |
| `MibDevice`, `VendorMibs`, `MibModules` | a device and the modules that fill it, in registration order | operators |
| `SnmpInventory` | client, datagrams, credentials; EXTENDS `Credentials`, `MibModules` | state machine |
| `Deploy` | one order from checks to report | state machine |
| `WinRmSession` | the session and `collect_windows` | state machine |
| `EsxInventory` | session, parser, conversion, submissions | state machine |
| `ConfigLayers` | lines, layers and their order | operators |
| `LocalCategories` | what each category asks and makes of the answers | operators |
| `LocalMachine` | the machine and what its commands say of it (environment) | operators |
| `LocalInventory` | a run from configuration to submission; EXTENDS the last three | state machine |
| `MC*` | instances | definitions for TLC |
| `RemoteInventoryProofs`, `ProxyRelayProofs`, `NetDiscoveryProofs`, `SnmpInventoryProofs` | theorems about the module each is named after | TLAPS |
| `TaskProofs` | theorems about `DeltaInventory` and `Deploy`, the tasks that leave something on the disk | TLAPS |
| `ProcessProofs` | theorems about `TaskFork`, `Daemon` and `PidFile`, the processes of the agent | TLAPS |
| `SessionProofs` | theorems about `EsxInventory` and `WinRmSession`, the sessions with another machine | TLAPS |
| `DataLemmas` | induction over sets of numbers, recursive functions, sequences that collect | TLAPS |

Operators named `X_Y` are wrong variants of the operator `X`, the form a bug of
the code would take; `PROJECT.json` lists the property each of them violates.

### DeltaState and DeltaInventory

`content` is what collecting the device would return now, `file` the state file
(absent, torn, or saved with its `InventoryState`), `run` the `DeltaPlan` in
progress, `next` the loop index over the `active` servers and `view[i]` what
server `i` holds. `StartRun` is collect, `load_state` and `plan`; each server is
one of `SubmitOk`, `SubmitFails` (refused, or the process dies before) and
`ResponseLost` (applied, answer lost: the run fails); `SaveState` ends a run,
`SaveFails` leaves the file as it was or torn. `ContentChanges`, `AddServer` and
`prune_stale` may come at any time the code allows. `Merge` (what a server does
with a full and a partial) is the one assumption about the server. `diverged`
and `partials` are history variables. Checksums are not assumed injective, so
the properties speak of checksums.

### PidFile

`proc[p]` is what runs under pid `p`: nothing, an unrelated program, or an agent
at the step of `acquire` or `Drop` it has reached; `file` holds a pid, nothing
that parses, or does not exist. With `Serialized` a start waits until no other
instance is inside `acquire` or `Drop`, as under a service manager; without it
any two interleave. Other programs take free pids, recycled ones included.

### TaskRun and TaskFork

A frame is three pieces (part of the length, its rest, the body), the smallest
division that shows every place a frame can be cut. `out` is what the worker
still has to write of its frame, `pipe` what is in flight, at most `Capacity`
pieces; `got` is what `read_message` has consumed. Results are small or huge (a
frame over `MAX_FRAME_LEN`). `End` is the error exit, where `kill_on_drop` ends
a worker that is still there; a killed daemon (`ParentDies`) drops nothing.
`Abstract` maps the state to `TaskRun`: the task is the worker's `verdict`, and
the outcome appears when `forked_scan` returns.

### Daemon

`pc` is where the loop stands: in `select!`, sleeping for an event's delay,
scanning, or stopped. `waiters` are the `/now` handlers blocked in `send`, in
order, `channel` the events sent, `current` the request in hand. `due`, `tick`
and `signal` say that the timer, the reload interval and the Ctrl-C future of
this turn are ready; taking any arm resets `signal`, since `select!` drops the
other futures. `into_event`, `from_params` and `run_now` translate a query to
the fields of the event the loop looks at. A scan is an interval with an end;
`TaskFork` refines it for `--fork-tasks`, and its liveness property justifies
the fairness on `ScanEnds`.

### RemoteInventory

`task[t]` and `result[t]` are the spawned tasks and their slots of `results`; a
task needs one of `Workers` permits. `Collect` takes the whole exchange with a
host at once: where the connection breaks (`Answers`, `Fault`) decides which
commands were answered, cut short or not asked, and `collect` makes sections of
the answers, with the tools of the host, the probing of its package manager, the
perl mode and the two SSH transports, which differ in what a broken connection
looks like. `resolve` names the device by the full name, where the host tells it
(`hostname -f`, or `hostfqdn` in perl mode), else by its host name, else by the host
of the URL. `ConnectFails` and `CollectRefused` are the two ways to get nothing;
`known` and `key` are the recorded and the presented host key. A collector may panic
(`Panics`): the join then fails and with it the run (`JoinFails`), before anything is
submitted. Otherwise (`Joined`) the loop
(`CountFailure`, `Submit`, `Malformed`) goes through the targets in order and
leaves at the first refusal; a run ends with `prune_stale` only when it gets
there. `exit` tells the four ends apart. The plan, the state files and the server are those of `DeltaState`.

### ProxyRelay

A submission on its way is a `stack` of handlers, each in a phase (`plan`,
`store`, `write`, `forward`, `failed`) and at an index of its servers; the top
one moves. `Decide` is `plan` of the plugin, storing truncates and then writes
the device's file, a forward pushes a handler or reaches a GLPI server. Every
caller, agent or proxy, has the client's timeout (`Timeout`), which drops the
handlers above it; a server may apply what it received before (`late`).
`MaxDepth` bounds a circle, whose handlers would otherwise only be limited by
the timeout.

### NetDiscovery

Addresses have `Width` bits and a last part of `OctetWidth`; `parse` and `next`
do the code's arithmetic, `Covers` says what the forms mean without it. Tasks
are queued, take a permit, go through the methods (`icmp`, then `tcp` where the
process may not open a raw socket), then the credentials, and are joined in any
order. `left` is what remains of a method's timeout: waiting for an ICMP reply
uses all of it, so that only a process without an ICMP socket tries TCP.

### Credentials

What a credential has is its version and the set of its fields that are set
(`SnmpCredentials`); the algorithms change what is on the wire and nothing else.
`Malformed` are those `SnmpClient::connect` refuses before it sends anything: of v1
and v2c without a community (`community`), of v3 without a user name or with
encryption and no authentication (`security_level`, `build_security`). The command
line and the daemon only build v2c sets; the tasks take any.

### MibDevice, VendorMibs, MibModules, SnmpInventory

`Reads` is the sequence of requests of all registered modules, in order, each
with its module, and the field it is made for where the code asks only for what
is missing; `After(k, device, read)` is what the modules have made of the
answers so far. The client sends one request at a time: `net` holds the requests
that are or will be answered, `inbox` the answers in the socket. The library
numbers requests, so that a late answer makes the next receive an error; that is
the external part. A credential may be refused, a socket may not be had (`NoSocket`),
and a v3 session starts with the agent's engine being asked for, once and under the
timeout (`NoEngine`). `Looping` columns start again at their end, which
`walk_ends` has to notice; `Contents` are the devices.

Twenty-six vendor modules are there: those that meet on one device, and those whose
requests depend on earlier answers or whose answers are taken apart (status
summaries, tagged and paired versions, descriptions, the fallbacks of the power
supplies).

Three facts the tables show: Dell PowerConnect and iDRAC identifiers lie under
EMC's subtree, so that three modules meet on one device; Cisco and UCS boards
share one; Ricoh's counters replace what is there, and Brother takes
its name off a model another module has set; all others fill gaps.

### Deploy

`disk` maps paths to contents or `Dir`; a content is the sequence of its parts
and stands for its own digest. All checks are evaluated, and a failed one of level `ko`
stops the order after the last; each file
is fetched part by part, mirror after mirror, assembled, verified and stored;
actions run to the first that fails. `Intrude` is another program that changes
the disk at any moment. `done` is a history of what the order did.

### WinRmSession

Each HTTP request is a step that succeeds, fails before or after the host acted
on it, is refused from some point on, or is never answered (the client sets no
timeout). A Receive that is answered while the command runs may bring output or none
(`Waits`), and the code asks again without a bound. `commands` are the commands the
host still keeps. `collect_windows`
turns the answers into sections.

### EsxInventory

The answer lists hosts and machines in any order; `BrokenOff` are the answers
that end too soon, which the parser does not notice. `parse_hosts` resolves the
references and `content` converts a host. Runs are live, dump to a file, or
replay one; machines move at any time (`placement`), and `truth` remembers where
they were when vSphere was asked.

### ConfigLayers, LocalCategories, LocalMachine, LocalInventory

`ConfigLayers` reads lines (pairs, blank, bare), takes comments off before quotes
as the code does, and applies layers. `LocalCategories` has, for each category
and platform, the sources it asks as far as its earlier answers tell (`*_reads`)
and the section it makes of them (`*_section`). `LocalMachine` is not code of the
agent: a machine, what its files and commands say of it (`Says`), and what a
complete and correct section is (`Truth`), as far as the platform's tools tell it: a
macOS interface has a status where `ifconfig` prints a line for it, which it does not
for the loopback. `LocalInventory` reads the sources
one by one; between two of them a part of the machine may change, or a source
may fail or never end. Fields that are read like a modelled one (sizes, dates,
captions) are left out.

## 3. Runs

| run | instance | shows |
|---|---|---|
| `delta` | 2 servers and a third added later, 2 sections, postpone 1, pruning | `StateMatchesServers`, `PartialHasBaseline`, `FullRunRepairs`, `TornStopsDevice`, `Converges` |
| `pid` | 3 pids, other programs, serialised starts | `OneInstance`, `HolderRecorded`, `DropRemovesOwn`, `RunsAgain` |
| `fork` | 2 small results and a huge one, pipe of 2 pieces | `FrameAligned`, `WaitedWorkerIsDone`, `TaskRunSpec`, `RunEnds` |
| `daemon` | 3 requests (for all tasks with a delay, partial, from an untrusted address), channel of 1, 3 configurations, two of which `describe_changes` does not tell apart | `AcceptedInOrder`, `AcceptedIsHandled`, `ScansForever`, `ReloadCatchesUp` |
| `remote` | 3 targets on 2 hosts with different tools, two workers, both SSH transports, 2 faults, one host that may be reinstalled | `StateMatchesServer`, `RunAccounts`, `RemoteRunEnds`, `Heals` |
| `proxy` | 4 proxies (a chain, a circle, an archive), 2 servers, 2 submissions, depth 4 | `OkMeansDelivered`, `StoredBeforeForwarded`, `Answered` |
| `snmp` | 25 devices, 4 credentials (a v3 set without authentication to its encryption, which is refused, a v3 set the device does not know, a v3 and a v2c set it accepts), one retry, one fault, two columns that start again | `CompleteOrNothing`, `AnswersFound`, `NeverClobbered`, `InventoryEnds` |
| `scan` | addresses of 2 bits, 7 command lines, 2 permits, 3 credentials, 2 faults | `ScanFaithful` |
| `deploy` | 5 orders, 2 disks, mirrors serving 3 parts, 2 intrusions | `ActionsOnVerified`, `ReportAccounts` |
| `winrm` | 2 hosts, all 19 queries less one disabled, 2 faults | `SectionsWhole`, `CommandsForgotten`, `SessionEnds` |
| `esx` | 2 hosts with shared or missing identifiers, a machine that moves, 2 servers, one fault | `CompletedIsComplete`, `SessionsClosed`, `HostsConverge` |
| `local` | 3 platforms, with and without root, a machine for every join and fallback, 5 configurations, one failure or change | `NothingInvented`, `Complete`, `ServersCatchUp` |

The runs with liveness use the module's `FairSpec`, so that safety and liveness
are checked on one state graph. Type correctness of the ten state machines that have
a proof is proved (section 4) and not run.

Why the bounds are enough.

- `delta`: two sections let one change while the other does not, and one value be
  removed; three servers give a first, a middle and a last one, and one that
  joins late; postpone 1 gives runs that are full, partial, and full again
  because the bound is reached. Servers do not interact, and the state after a
  full run does not depend on what came before.
- `pid`: two agents and a third party (a stale owner, or an unrelated program)
  meet in every order; one pid is always left, or nothing could start.
- `fork`: the worker's program is linear, and with a pipe smaller than a frame each
  side waits for the other as often as it can.
- `daemon`: a full channel, a request waiting behind it and then in hand. Requests
  appear once each, which bounds `accepted` and `handled`.
- `remote`: of three targets one always waits for a permit, and an abort has targets
  before and after it; a panic meets tasks that wait, run and are done. Two targets are
  one host, named twice. A fault is a broken connection, a panic, a refusal, a lost
  answer or a reinstalled host. `MaxFaults` is per behaviour: two faults
  meet in one run or in two.
- `proxy`: `relay` in front of `inner` gives forwards of depth two whose failures
  come before, between and after others; `loop` is the shortest circle, and
  depth 4 goes round it more than once. Two submissions of one device meet in the store.
- `snmp`: rows beyond the second repeat what the second shows; the devices are
  those on which several modules meet, each vendor module at least once.
- `scan`: with two bits the prefixes 0 and 2 and the last address are the limits
  of the width; ranges overlap, begin after they end, or lie in one octet.
- `deploy`: two parts are a first and a last one, two files an earlier and a later
  one of one path; intrusions hit the file before and after its verification.
- `winrm`: output of no, one and two pieces, each way a command can end.
- `esx`: a machine moves before, between or after the requests of a run.
- `local`: a category is over before the next begins, so that one fault or change
  meets every pair of its sources. With a fault and a change in one run
  (`MaxTroubles` 2) the properties hold as well, over more than a million states.

`MaxFaults`, `MaxTroubles`, `MaxMoves`, `MaxIntrusions` and `MaxDepth` are the
bounds the models add; nothing in the code limits what they count. Only `local`
disables the deadlock check: an agent whose configuration does not load never
starts. Everywhere else the states in which a run may really end are named
(`Finished`, `Stopped`, `Terminated`).

### What the code does that its documentation does not say

Modelled as the code does it; none of the properties claims the sentence.

| sentence | the code |
|---|---|
| delta.rs:40, the checksum of the last-submitted value | a run that fails after the first server took a new value, then a change back: the section is left out and the old checksum saved. The next completed full inventory repairs it (`FullRunRepairs`, proved) |
| delta.rs:9, the bound on consecutive partials | partials delivered by runs that failed later are not counted |
| lifecycle.rs:8, refuses a second live instance | two overlapping starts both pass the check (:41); a stale file whose pid went to another program is not taken over |
| ipc.rs:13, arbitrarily large messages | the reader refuses a frame above 64 MiB (:108), which the writer accepts |
| main.rs:607, stops on Ctrl-C | a signal during a handler is lost: `ctrl_c` (:724) is created anew on every turn |
| server.rs:56, `delay` is carried through | not for a partial event (event.rs:209) |
| session.rs:24 of the remote inventory, an error if the transport fails | russh.rs:253 takes a channel that ends without a status for success: a section cut short is submitted and its checksum saved |
| proxy.rs:37 of the plugin, the loop guard | the hop count is not sent on (glpi-http proxy.rs:72), so that every hop of a circle sees the first |
| proxy.rs:140 of glpi-http, stores a submission | two handlers of one device write one file at a time (:150): the file may mix both |
| mib/mod.rs:11, modules only set what they can determine | an empty chassis serial number is promoted (entity_mib.rs:138) and keeps later modules from asking |
| credentials.rs:115, credentials without a required passphrase are refused | an algorithm without its passphrase is taken for none (:43), and the device is asked without authentication |
| ping.rs:197, falls back to TCP on a timeout | the ICMP wait takes the whole timeout of the method, and nothing is left for the fallback |
| sources.rs:29, lines that start with `#` or `;` are comments | both cut a line anywhere, in quotes too |

A few more facts a reader may want to know. The first server that refuses ends
the run, also of a remote inventory, whose later hosts are then not submitted; and a
collector that panics ends it before the first is.
`no-category = hardware` takes the host name away, and all machines configured so
submit as `glpi-agent`. A `systemd-detect-virt` that fails makes a machine
"Physical". Commands of the local inventory have no timeout, nor has the WinRM
client or a forked worker.

### Fairness

- `DeltaInventory`: starting a run, the next submission, the save. The agent is run
  periodically and a run ends; `Converges` assumes that failures stop
  (`<>[][Work]_vars`), as do `Heals`, `ServersCatchUp` and `HostsConverge`.
- `PidFile`: a started agent goes on, and the service manager starts the agent when
  none runs. `RunsAgain` is conditional on nobody stopping or killing it.
- `TaskFork`: both processes run as long as they can, a scan ends since every probe
  has a timeout, nobody is forced to die.
- `Daemon`: delays and scans end, time passes, and strong fairness of the arms of
  `select!`, which polls them from a random start. A disconnection, an edit of the
  configuration and a signal are never forced.
- `RemoteInventory`: runs are started, a task that has a permit ends (the SSH
  library reports a lost connection), a queued one gets a permit that is free, and
  the loop over the finished tasks goes on, or fails at one that panicked. A panic is
  a fault and bounded: one that came again in every run would keep `Heals` from
  holding.
- `ProxyRelay`: handlers run; a request has the client's timeout, so that some
  caller of a stack that does not move gives up.
- `SnmpInventory`: the task runs, timeouts expire, an answer that is on its way is
  delivered.
- `WinRmSession`: the session runs on; an answer that never comes is a step of its
  own (`hung`), which `SessionEnds` allows. It is assumed that a command comes to its
  end: the code asks for ever of one that does not.
- `EsxInventory`: runs go on, and runs against the live vCenter are started again
  and again (strong fairness of the handshake, as dumps and replays may come
  between).
- `LocalInventory`: runs are started, each step of a run is taken, a run that hangs
  is killed from outside.

## 4. Proofs

All proofs are for every value of the constants, from the assumptions named in
the modules (`DataAssumption`, `ContentAssumption`, `ConfigAssumption`,
`PidAssumption`, `ForkAssumption`, `DaemonAssumption`, `DeployAssumption`,
`RemoteAssumption`, `ProxyAssumption`, `WinRmAssumption`, `EsxAssumption`,
`DiscoveryAssumption`, `SnmpAssumption`, `CredentialsAssumption`), which TLC evaluates. They say of what kind the constants
are, and nothing of their size: the numbers of servers, hosts, proxies, files,
actions, addresses, faults and frames are arbitrary. Every inductive invariant was
run on the module's TLC instance before it was proved.

Three of the proof modules are about several state machines and extend them all; so that
their names do not meet, `Daemon`, `PidFile`, `WinRmSession` and `Deploy` give their parts a
prefix (`LoopInit`, `LoopSpec`, `LoopInv`; `PidSpec`; `WinRmSpec`; `DeploySpec`).

`DataLemmas`. The library states induction for an operator, which the provers cannot
instantiate. Said of a *set* of numbers that contains 0 and with every number the
next one (`Induction`, `BoundedInduction`), it is a fact they can cite: one proves
it from the least number outside the set (`LeastNumber`), which exists as `Nat` has
no infinite descent in the finite sets of the library. `Recursion` gives the
existence of a recursive function on `Nat`, needed before anything can be said of
its values; `Collecting` and `CollectingAll` say what a sequence built by appending
some elements of another contains. The powers of two of the address arithmetic, the
methods that found a host and the hosts parsed from a listing rest on them.

`TaskProofs`, of `DeltaInventory`. `StateMatchesServers` is not inductive: it speaks of the
state between runs. `IInv` adds what holds in the middle of one. `RunInv`: the
run in progress is a plan of the content it collected and its index fits its pc.
`SentInv`: the servers already passed hold what the run sends. `UnsentInv`: the
servers still to come agree with the sections a partial leaves out. `FileInv`:
until a first server is reached, the old file describes all of them.
`BaselineInv`: a saved file means that the first servers have a baseline. A
submission moves one server from `UnsentInv` to `SentInv`; `SaveState` turns
`SentInv` into `FileInv`; `StartRun` turns `FileInv` into `UnsentInv`, which is
where the meaning of `Changed` is used. Theorems: `Invariance`, `TypeCorrect`,
`StateMatchesServersHolds`, `PartialHasBaselineHolds`, `FullRunRepairsHolds`,
`TornStopsDeviceHolds`.

`ProcessProofs`, of `PidFile`. `SerialInv` says that at most one agent is inside `acquire`, at
most one holds the file, that the file then holds its pid, and that an agent
which is about to write has seen no holder. Theorems: `PidFileInvariance`,
`OneInstanceHolds`, `HolderRecordedHolds`, `DropRemovesOwnHolds`.

`ProcessProofs`, of `Daemon`. `AcceptedInOrder` needs to know when something is in hand:
`HandInv` says nothing is between two turns, and an event is during a delay.
Each step then moves one request across one boundary of
`handled \o InHand \o channel`, by associativity of concatenation. Theorems:
`DaemonInvariance`, `DaemonTypeCorrect`, `AcceptedInOrderHolds`.

`ProcessProofs`, of `TaskFork`. The properties speak of the pipe, and what is still in the
worker's hands comes after it: the invariant is about `Stream`, the pipe and the
rest of the frame being written. `FrameInv`: the stream goes on where
`read_message` stands, its pieces follow each other, and it ends with a whole
frame while its writer lives. `DoneInv`: `Done` is the last message, so that the
parent that read it waits for a worker with nothing to write. `ResultInv`: the
one result crosses once, and ahead of the `Done(true)` that vouches for it;
`WorkerInv` is the order of the worker's program, and `OutcomeInv` what a success
says. A message that is emitted appends a frame, a death cuts the stream, a read
takes its head; each step is one of the three, or leaves the stream alone.
Theorems: `Invariance`, `TypeCorrect`, `FrameAlignedHolds`,
`WaitedWorkerIsDoneHolds`, and `Refines`: every behaviour of the protocol is one
of `TaskRun`.

`TaskProofs`, of `Deploy`. Both properties speak of one moment (the first action, the end),
so that the invariant has to follow the order there. `Checking`, `Downloading` and
`Running` say that the history `done`, the outcomes and the place in the order are
those of its phase. `Stored(n)` is `ActionsOnVerified` for the first `n` files: each
is as verified, or its path was touched, or a later one of the `n` has the same
path. Storing file `n + 1` may undo an earlier one only by having its path; an
intrusion only by entering the path in `touched`. Theorems: `DeployInvariance`,
`DeployTypeCorrect`, `VerifiedFirst` (`ActionsOnVerified`), `TrueReport` (`ReportAccounts`).

`RemoteInventoryProofs`. `StateMatchesServer` is inductive together with the types:
a plan computed from a state file that agrees with the server, applied by `Merge`,
leaves the server with the content whose checksums the run saves (`PlanAgrees`),
however the sections were cut short on their way, since the submission and the
checksums are of one content. A submission that was applied and not saved enters
its device in `diverged`; of the other devices neither the file (`OwnFile`) nor
the server's view moves. `RunAccounts` looks at every step that ends a run, from the
join or from the loop: `StartInv` says that nothing is accepted before the join is
over, `CollectInv` that all targets have a result and none has panicked when the loop
begins, `SubmitInv` that `accepted` and `failures` are those of the targets passed.
The count of failures needs cardinalities of sets of targets. Theorems:
`Invariance`, `TypeCorrect`, `StateOfServer` (`StateMatchesServer`), `RunsAccount`
(`RunAccounts`, an action property).

`ProxyRelayProofs`. An answer travels down a stack of handlers, and `OkMeansDelivered`
only speaks of the bottom of it. `Sound` says for each handler that what lies behind
the servers it has passed (`j < next`) is delivered, and that it has stored when it
forwards; `WaitsFor` that each caller waits at the server the handler above it is.
So a handler that has passed all its servers has delivered to everything it is
meant to reach, and its OK moves this to its caller (`ReturnInv`); a handler that
fails or is dropped takes nothing back, as stored and applied submissions stay.
What a node is meant to reach is the least set closed under forwarding (`Reach`),
so that the argument holds in a graph with circles, and without the bound on the
depth. `EntryInv` adds what servers were sent and have not applied yet. Theorems:
`Invariance`, `TypeCorrect`, `AnswerIsKept` (`OkMeansDelivered`), `StoredFirst`
(`StoredBeforeForwarded`).

`SessionProofs`, of `WinRmSession`. `SectionsWhole` is about the end, `Received` about the way
there: what was received of a command is what the host has sent of it, and what
is signalled is the whole output and the exit code. `AllAnswered` says that every
answer is `Honest` (the host's own, or one of its requests failed) and that no
query before the present one was passed over. `CommandsForgotten` is part of the
invariant, since a command that stays must be one that was hit. Theorems:
`SessionInvariance`, `SessionTypeCorrect`, `NoCommandLeft` (`CommandsForgotten`), `WholeOrMissing`
(`SectionsWhole`).

`SessionProofs`, of `EsxInventory`. `SessionsClosed` speaks of the time between runs,
`SessionInv` of any: the sessions open are those whose answer was lost and the run's
own, between its login and its logout. `CompletedIsComplete` is about the end of a
chain: what came back is a whole listing (`AnswerInv`), so that every host of the
vCenter is among the parsed ones, with its machines, wherever in the listing they
stood (`ListingIsWhole`, `ParsedHosts`: a listing as long as there are objects, no
two of one reference, has them all, which is the pigeonhole principle); a dump keeps
that (`FileInv`, `AllOf`), for a later replay; and the submission loop has given each
server passed every host passed, or one of the same identifier (`SubmitInv`,
`Delivered`). Machines may move meanwhile, since `truth` is what the listing showed.
Theorems: `Invariance`, `CompletedIsCompleteHolds`, `SessionsClosedHolds`.

`NetDiscoveryProofs`. `ScanFaithful` counts: as many tasks for an address as
specifications that cover it. `SpawnInv` has the bijection behind it, `from`: each task
stems from one place of one range, no two from the same, and the places are those
`Before` where the iterator stands. `RangeInv` puts the iterator inside its range, the
last address of the address space included, where it must not wrap (`Step`).
That a parsed range spans what its specification covers (`Parsed`) is arithmetic
of powers of two of any width: `TwoTo` (`Powers`, `Doubling`), and the block of a
prefix is the numbers of one quotient (`Blocks`, `SameBlock`). Of the answers,
`Told(t, n, c)` says that a task has been told exactly what the methods before the
`n`-th and the credentials before `c` have to tell that no loss took away, so that a
loss or a panic of one task leaves `TaskInv` of every other alone (`Elsewhere`), and
`JoinInv` that what is reported of a task is what it was told, and only once it is
joined. Theorems: `Invariance`, `ScanFaithfulHolds`.

`SnmpInventoryProofs`. The reference, `Inventoried`, runs one module after the other
over a device that answers everything (`done`, `Inventory`); the client sends one
request after the other, rows of tables included. First, `done` exists and adds one
request at a time (`Reading...`, `MakingExists`, `DoneNext`), by induction over sets of
numbers; it needs that `Reads` is a list of requests of known modules, which is shown
of each module's list (`VendorProgram`, `StandardProgram`). Then `UpTo`: between two
requests the device and what was read of it are those of `done`, and in a walk there
is also a `Part` of the column, up to the row it has come to. `TakeUpTo` is the step
that matters: the answer to a get or the next row of a walk leads from one to the
other, and a walk ends where the column does. `Matched` says that whatever comes under
the number of the request that is open is its answer, so that retries and late
answers cannot take the place of one. `AnswersFound` is about credentials: as long as
every answer comes in time, the answer to the request is on its way (`Expected`), the
credential tried is not beyond one the device accepts (`Looking`), and no module of
the thirty-four takes the description away which `NoResponse` asks for.

`NeverClobbered` is about each module and all those before it. The requests of a
module are one block of `Reads`, and the blocks come in the order of `Place`
(`Program`, `RanBefore`), so that each module is run once, after those before it.
`Fresh` says what is not there before a module has run because nothing else
determines it: the ports before the interfaces, components, supplies, addresses and
learned stations before their modules; counters and plugs are those of a module that
applies to the device, and of those there is one (`Applying`). Modules that replace
something therefore find nothing to replace (`RunFresh`), and all others only fill
gaps: `Grows` is kept by every field that is filled and every part a module may change
(`FilledGrows`, `Filling`, `Changing`), one after the other (`RunGrows`).

Theorems: `Invariance`, `CompleteOrNothingHolds`, `AnswersFoundHolds`,
`NeverClobberedHolds`.

Only model-checked:

- all liveness properties, which need reasoning about fairness and ENABLED;
- `NothingInvented` and `Complete` of `LocalInventory`: what the categories make of the
  answers is about 900 lines of operators on sets of records, each a case of its own.

## 5. Plan

1. The proofs that are left: `NothingInvented` and `Complete` of `LocalInventory`,
   category by category, each a lemma about what it makes of its answers.
2. Two runs over one state directory as a variant of `RemoteInventory`.
3. The CIDR match of `trust.rs`, as an operator against the form `Covers` has.
4. Further vendor MIB modules in `VendorMibs`, where they meet others.

## 6. Not modelled, and why

- Without state or control of their own: protocol messages, logging, wake on LAN
  (one datagram per address), TLS set-up and the SSL plugin, SNMP walk captures
  (a parser of recorded walks), the collect task (one read-only pass), the re-exec
  of `detach`.
- Without a caller outside tests: `scanner.rs`, `p2p.rs` of the deploy task,
  `Backoff`, `TaskWorker::send` and `close_input`.
- IEC 61850 probing wraps a C library whose behaviour is not in the repository.
- Of the transport client, compression, contact and configuration requests and the
  OAuth token; the trust gate is a set of trusted requests or clients, the CIDR
  match of `trust.rs` is left out.
- Of the MIB modules, some forty-five vendor modules that ask for a few values and only
  fill gaps.
- Of the local inventory, sizes, speeds, dates and captions that are read like a
  modelled field, and the desktop and session details of users. Parsing of text
  character by character is abstracted everywhere: a source is a set of lines with
  the fields the parsers look at.
- Non-Unix builds differ in `process_is_alive` (always true there: the wrong
  variant of `RunsAgain` is that build's definition) and are otherwise covered
  only in the categories of the local and WinRM inventories.
- Two concurrent runs of the agent over one state directory: nothing in the code
  excludes them and each saves a state that the other's submissions contradict;
  the models have one run at a time.
- Two daemons that start at once: both pass the check, and the run of `PidFile` has
  the starts one after the other, as a service manager makes them.
- The reads and appends of concurrent connections to `known_hosts`, which are the SSH
  library's: `RemoteInventory` has a record per host, and a host whose key may not
  have been written. That dropping `recv` between turns loses no event is the channel
  library's as well; `Daemon` takes an event in one step.
- Two device identifiers that `sanitize` maps to one file: excluded by `OwnFile`.
