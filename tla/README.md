# A verification of ShaPrint

ShaPrint lets one computer share its printers with others on the local network.
A *Server* publishes its printers over IPPS; *Clients* find it by UDP discovery,
approve its certificate, and print through a loopback proxy that the operating
system's print queue points at. The desktop application (Windows, Linux) hosts
both roles in one process. On Linux in machine mode a daemon, `shaprintd`, hosts
them instead and the desktop controls it over a local socket. An Android
application is a second client.

This directory holds TLA+ modules of the Rust backend
(`apps/desktop/src-tauri/src`, called *backend* below), TLC configurations that
model-check them, and TLAPS proofs of almost all of the safety properties. To
check a configuration: `tlc -config X.cfg M`, with the module named in the table
of [runs](#runs); to check proofs: `tlapm M.tla`.

Contents: [inventory](#inventory), [modules](#modules), [runs](#runs),
[bounds](#why-the-bounds-are-enough),
[disagreements](#disagreements-found), [fairness](#fairness), [proofs](#proofs),
[what is only model-checked](#what-is-only-model-checked),
[what is not modelled](#what-is-not-modelled), [plan](#plan).

## Inventory

The parts of the system, what each keeps, does and calls, and what makes it
right. **M** marks a part that is modelled, **p** one that is modelled in part;
the rest is not.

### Processes, threads and shared state

All backend code runs on one tokio multi-threaded runtime: IPC commands, control
connections, service loops, connections and periodic ticks are tasks that run in
parallel on several threads. Locks are `std::sync::Mutex` (held only between
awaits), `tokio::sync::Mutex` (held across awaits in the approval store, the
channel store and the update gate) and `watch` channels. Blocking work (spooler,
file system, elevation) runs in `spawn_blocking` threads that cannot be
cancelled: a request that is dropped or given up leaves its thread running.
Three TCP/UDP ports are bound: 48631 (endpoint), 48632 (proxy, on loopback),
48633 (discovery). Privileged changes run in other processes: an elevated
helper on Windows, `pkexec shaprintctl` and the daemon on Linux.

```
 UI / tray / control socket ──> RuntimeCoordinator ──spawns──> server sharing ──> IppsServer
   │        │                        ▲                    ├──> client proxy ───> remote IppsServer
   │        │                        │ shutdown()         └──> discovery ······> remote discovery
   │        ▼                        │
   │ UpdateCoordinator ── restart worker ──permit──> JobTracker <──leases── endpoint, proxy
   │        ▲                                            ▲                     │
   │  background checker                     drain (control socket)     native spooler
   │                                                                           ▲
   └──> queue installation, test print, firewall, purge, startup ──────────────┘
        (elevated helper / pkexec shaprintctl)
```

### Components

| part | state | operations | hard behaviour | right when |
|---|---|---|---|---|
| **M** Runtime coordinator (`application/coordinator.rs`, `runtime.rs`, `domain/service.rs`) | status registry, the `running` map of task handles, a start gate per service | `start`, `stop`, `shutdown`, `supervise`, hooks | callers overlap at every await; the control socket drops calls after 15 s; a UAC prompt of unbounded length inside `start`; deadlines on readiness and joins; early `?` returns that drop handles | no running task without an owner that can cancel it; a published *running* is real; calls return |
| **M** Print-job tracker (`application/job_tracker.rs`) | two counters, `accepting`, `draining`, two timestamps, a `Notify` | leases, `drain`, `try_begin_restart`, permits | counters beside RAII leases; a wake-up between look and sleep; several drains on one flag | counters are the leases; no lost wake-up; a permit excludes work |
| **p** Updater (`application/updater.rs`, workers in `lib.rs`) | update state, stored package, `waiting_for_jobs`, check gate | `check`, `request_restart`, `install_if_requested`, the restart worker | each method takes the state lock several times; clicks; failures after the services were stopped | nothing prints while the update installs; a queued restart is not lost; admission reopens |
| **M** Sharing endpoint (`adapters/ipps/{mod,endpoint,http}.rs`) | connections, the job store (64 entries, state, lease, creation time) | accept loop, Print-Job, Create-Job, Send-Document, Cancel-Job, Validate-Job, queries, expiry tick, stop | a job's life spread over several connections; aborts where a connection awaits; hand-offs that outlive it; requests in pieces | leases and jobs agree; a job is submitted once; a request is read as it was sent |
| **M** IPP wire protocol (`adapters/ipps/protocol.rs`, `printers/media.rs`) | none | parse, encode, rewrite of addresses, percent code, media collections | rewriting while a message is streamed; writers and readers kept by hand in several places | what the queue wrote is what the endpoint reads; what is offered is granted |
| **M** Network Channel (`adapters/ipps/channel.rs`, `execute_cli_command`) | verifier and client secret, in memory and in two files | `configure`, `verify`, restore | four copies replaced one after the other; requests given up | client and server of a computer are on one channel |
| **M** Client proxy (`adapters/client_proxy.rs`) | connections, `pending_jobs` with leases | `run`, `forward`, cleanup tick | leases that wait for the last Send-Document, on other connections; a map that outlives `run()`; servers that forget and reuse ids | a lease ends with its job, its lifetime or the proxy |
| **M** Server approvals (`adapters/client_connections.rs`) | trusted fingerprints, on disk and in memory | `approve`, `forget`, pinned requests | the pin is read under a lock that is released before the connection is used; a file replaced by a thread that outlives its request | only a reviewed certificate carries a job; no change is lost |
| **M** Sharing selection (`application/sharing.rs`, `adapters/server_sharing.rs`) | shared printers, *enabled* flag, settings file, watch channel | `set_shared`, `restore`, hooks, `persist` | compare and publish outside the lock; two writers of one file in place | memory, advertisement and file agree |
| **M** Discovery (`application/discovery.rs`, `adapters/discovery/*`, `domain/discovery.rs`) | cache of servers by address, last seen; two sockets | advertise, answer, withdraw, browse, sweep, prune, publish; the packets | lost and reordered datagrams; a packet encoded before a withdrawal; lengths cut down | a server that left disappears; one that shares is found as it is |
| **M** Guided test print (`application/test_print.rs`, `printers/{linux,windows}_test_print.rs`) | one session, run numbers, an in-flight guard | open, refresh, send, confirm, close | a submission that outlives its timeout and its session | one page at a time; an outcome reaches its own session and is true |
| **p** Local troubleshooting (`application/troubleshooting.rs`) | none | findings | – | what it offers can be done |
| **M** Port reclaiming (`adapters/port_binding.rs`) | none | bind, inspect, terminate, bind again | numbers reused between inspection and signal | only a stale ShaPrint is ended |
| **M** Login startup, legacy import (`application/{startup,legacy}.rs` and adapters) | recorded choice, task, Run key, import record | set, restore, import | stores written one after the other; launches, crashes | the user's choice stays |
| **M** Setup and elevation (`adapters/{elevation,elevated_ctl}.rs`, `*/setup.rs`) | the firewall's | check, change, recheck; argument lists and exit codes | another administrator; changes rule by rule; answers lost | *ready* means reachable; *done* means done |
| **M** Purge (`adapters/purge.rs`) | the installation's files, queues, rules | one step after the other | steps that fail; a daemon that writes again | what is left is named |
| **M** Client queue installation (`application/queue_installation.rs`, `domain/queue.rs`, `adapters/queue_installation/*`) | the system's print queues | install, repair, remove; names | prerequisites read before a prompt of unbounded length; replaced in several steps; helper outlives its caller | a queue is only touched if it is ShaPrint's; a failure leaves the one there was |
| **M** Linux daemon (`adapters/daemon.rs`, `bin/*`) | socket path, connections, coordinator, tracker | launch, requests, drain, shutdown | requests given up after 15 s; launches racing for a path; shutdown order | the way down is orderly and ends; one daemon listens |
| **p** Spooler adapters (`adapters/printers/*`) | none | list, submit, render | answers lost; failures between two calls | a job reported accepted is complete |
| **M** Certificate identity (`adapters/identity.rs`) | key and certificate files | load or create | a crash between the two; launches that overlap | clients keep seeing the certificate they approved |
| **p** IPC commands (`ipc/*`) | none | callers of the above | – | – |
| Print failures, diagnostics, window and tray, frontend, Android, landing page, packaging | – | – | – | – |

`PROJECT.json` lists the same parts with their files, and the hazards of the code
at their lines with the properties that are about them.

## Modules

| module | models | kind |
|---|---|---|
| `RuntimeCoordinator` | `coordinator.rs`, `runtime.rs`, `domain/service.rs` | component: callers, tasks, deadlines |
| `TaskOwnership` | what the coordinator promises about task handles | abstract specification |
| `JobTracker` | `job_tracker.rs` | component, and abstract specification for the next three |
| `UpdateRestart` | `updater.rs`, the workers of `lib.rs`, over `JobTracker` | composition |
| `ServerJobs` | `ipps/mod.rs`, `ipps/endpoint.rs`, over `JobTracker` | composition |
| `ClientProxy` | `client_proxy.rs`, over `JobTracker` | composition |
| `IppMessage`, `PrintJourney` | `ipps/protocol.rs`, `printers/media.rs`; a message from the queue's spooler through the proxy to the endpoint and back | operators; pipeline |
| `HttpExchange` | `ipps/http.rs`, the readers of `client_proxy.rs`, `forward_ipp` | protocol: sender, network, two receivers |
| `ServerTrust`, `Sharing`, `NetworkChannel`, `Identity` | `client_connections.rs`, `application/sharing.rs`, `ipps/channel.rs`, `identity.rs` | stores in memory and on disk, with failures, crashes and requests given up |
| `Discovery`, `DiscoveryWire` | advertisement and browser; `discovery/wire.rs` | protocol over a lossy network; packets |
| `DaemonControl` | `daemon.rs`, `bin/*` | processes, connections, way down |
| `NativePrint`, `TestPrint` | `printers/{cups,windows_render,*_test_print}.rs`; `application/test_print.rs` | component; composition |
| `QueueSetup`, `QueueNames` | `queue_installation/*`; `domain/queue.rs`, the helper's command line | component; names |
| `Firewall`, `Purge`, `Launch`, `PortReclaim`, `CommandLine` | `setup.rs` and `elevation.rs`; `purge.rs`; `startup.rs` and `legacy.rs`; `port_binding.rs`; `elevated_ctl.rs`, `ipc/control.rs` and the command line of `daemon.rs` | one component each, with the operating system as a second actor |
| `MC*` | instances for TLC | |
| `*Proofs` | theorems and proofs: `JobTrackerProofs` of the module it is named after; `ConnectionProofs` of `DaemonControl` and `HttpExchange`; `RuntimeCoordinatorProofs`, `UpdateRestartProofs`, `ServerJobsProofs`, `StoresProofs`, `TestPrintProofs`, `HostProofs` of the components that the `MC` module of that name brings together, `HostProofs` of `Discovery` as well | |

*Composition* is by `INSTANCE JobTracker` with its variables among the composing
module's: a composing action conjoins the tracker's own action (`Jobs!DropLease`,
`Jobs!TryBeginRestart`, …) with its own changes. `TrackerRespected` states that
nothing touches the tracker in any other way; it is a refinement, proved for
`UpdateRestart`, `ServerJobs` and `ClientProxy`: they implement `JobTracker` for
the requests they see. `RuntimeCoordinator` implements `TaskOwnership`. `TestPrint` extends
`NativePrint`, `PrintJourney` and `QueueNames` extend `IppMessage`, and
`DiscoveryWire` extends `QueueNames`: the names that travel in one are those the
other writes.

*Scenes.* Parts that share no state are checked together where that is cheap:
`MCStores`, `MCHost`, `MCServerJobs`, `MCTestPrint` and `MCPrintJourney` choose a
`scene` in the initial state, the module of that scene moves and the others stand
still. Their properties say which scene they are about; the state space is the
sum of the scenes', not the product. What bounds an instance (`Pids`, `MaxSpawns`,
`WindowsRules`, …) is a constant of the `MC` module with its value in the
configuration, so that the theorems about the scenes are not about the bounds.

*Variants.* A definition whose name is that of another with a suffix
(`StopJoin_Detached` beside `StopJoin`) is the same code with a plausible mistake.
No specification uses one. `PROJECT.json` pairs each property with a variant that
breaks it, which shows that the property says something about the code.

### RuntimeCoordinator

A caller is one call of the API; a step of it is the code between two points
where a lock is released or a future awaited.

| code | model |
|---|---|
| `StatusRegistry`, `record` | `state`, `Record` (an illegal transition is logged and dropped) |
| `running: Mutex<HashMap<…>>` | `slot` |
| `start_gates` | `gate` (tried, never queued for) |
| `Shutdown` handle of a task, dropped or used | `cancelled` |
| local variables of a call | `held` (entries taken from the map), `joining` (handles awaited), `view` (whether the state it read was live, forgotten where the code reads that last) |
| `supervise` and `run()` | `phase`, `verdict`: the result is judged by a state read in one step and recorded in another |
| `start` | `StartCall`, `StartPrepared`/`StartRefused`, `StartReset` (which runs `stop`), `StartSpawn`/`StartSpawnRejected`, `Await*`, `StartedHook` |
| `discard` | `Discard`, `DiscardJoin`, `DiscardCheck`, `DiscardRecord` |
| `stop` | `StopCall` … `StopHook` |
| `shutdown` | `ShutdownCall`, `ShutdownCheck`, `ShutdownMark`, `ShutdownJoin` |
| `timeout(IO_TIMEOUT, process_stream(…))` of the daemon, around any of them | `GiveUp`, wherever the call awaits; `givenUp` records the services whose last start ended so |

`StuckTasks` says whether a service may ignore its cancellation past the join's
deadline. `runtime.rs` asks services not to; the coordinator has a deadline for
the case that they do. `start_autostart` is a caller that starts one service
after the other. The map's iteration order in `shutdown` is any order.
The settings file's flag, which the hooks of server sharing write, is part of
the state; how it is written is in `Sharing`.

### JobTracker

Leases are `none`, `request` or `job`. `drain` is split where it lets others
run: `arm` (the fresh `Notified` is created and enabled), `look` (counters read
under the lock), `seen` (the lock is released, `select!` not yet polled),
`waiting`. `woken` and `late` are the two futures it selects from. The two time
constants are flags: `cooling` (less than 8 s since the last job) and `quiet` (15
minutes without one). A process is a desktop, with update workers and no drains,
or a daemon, with drains and no worker; `Init` chooses.

### UpdateRestart

Actors are threads, so code between two lock acquisitions interleaves even where
nothing is awaited: `request_restart` reads the state in `RequestRead` and writes
it back in `RequestWrite`. Storing a package and publishing *ready* are two steps,
as are clearing it and publishing *failed*. The worker's loop is `poll`, `auto`
(the unattended trigger), `decide`, `reserve`, `stopping`, `install`, `take`,
`installing`, then `restarted` or the failure path `giveUp`, `fail`, `restore`.
The download, the installer and `runtime.shutdown()` may fail. `Install` and
`Restore` may also never return (`WorkerAnswered`, outside the fair `WorkerStep`):
the installer is the platform's, and `restore_services_after_failed_update` awaits
`start_autostart`, whose `prepare` shows a UAC prompt or runs a system command
without a time limit, all with the restart permit held.

### ServerJobs

A connection is `idle`, reads a `body` under its request lease, is `creating`
(between the promotion of its lease and the store's lock), `sending` (awaits the
spooler thread) or `answering`. The store gives each job a state, a lease and an
age: `new`, `stale` (past five minutes, the life of a pending job) or `old` (past
an hour, the life of any other). `expire_locked` gives leases back one at a time
under the tracker's lock, so `Expire` is a step per job, and the methods that
begin with it wait until nothing expired is left. The serve loop is `off`,
`serving`, `closing` (connections are aborted where they await) or `aborting`
(`abort_incomplete`).

Abstractions: eviction picks the oldest finished job by age class; a new job has
any id not in the store; requests that change nothing (attribute queries,
refused authorisation or a wrong channel) are either steps that only release the
lease or are left out; sizes, formats and attributes are not represented. An id
does not come round while a submission of its former job runs (there are 2^31),
and a connection whose abandoned submission still runs is not used for another
request. What a connection does between the end of the loop and its abort could
have been done before the loop ended. One `serve` runs at a time, which
`RuntimeCoordinator` is about. Fifteen minutes do not pass: nothing here reads
`quiet`.

### ClientProxy

| code | model |
|---|---|
| a connection's task, its `RequestLease` | `cpc`, `held`; `kind` and `key` (the operation it forwards and the job that names, forgotten once the answer is known) |
| `pending_jobs`, `PendingJob::created_at` | `pending`, `age` (fresh, or past the two minutes) |
| the remote server's record of a job | `remote`: it creates, extends, finishes and forgets jobs, reuses their ids, and its answers may be lost |
| `serve_client`, `forward` | `Arrive`, `BodyFails`, `Reject`, `Submit`, `Follow`, `Query`, `Answered`, `ForwardFails`, `Respond`; it may be aborted wherever it awaits |
| `cleanup` tick, `try_lock` | `ExpirePending` (only while `run()` runs and nobody holds the lock) |
| `run()` and its end | `Serve`, `LeaveLoop`, `AbortConnection`, `Stopped`: connections are aborted, the map stays |

### IppMessage and PrintJourney

A message is a sequence of tokens, one per tag byte. Everything that decides what
a reader makes of a message is kept: groups, repeated attributes, further values
with an empty name, collections, the end tag and the document behind it. Names of
printers are sequences of bytes, because `percent_encode` and the five decoders of
addresses are modelled by what they do. `Write` is the spooler's message (any
offered attributes, in any order and number up to `MaxAttributes`), `Forward` is
`prepare_proxy_request` and the routing of the proxy, `Serve` is `respond` of the
endpoint with all operations, `Return` is `rewrite_printer_uri_supported`. What
becomes of an accepted job is `ServerJobs`'.

### HttpExchange

The sender's bytes are tokens: CR and LF are one each (and occur in documents),
a request line, header or chunk size is one. `Arrive` delivers any further piece,
`Cut` ends the connection, `Timeout` is the head's or body's deadline.

| code | model |
|---|---|
| `read_head` of the endpoint (pieces of a buffer, search for the empty line) | `ReadPiece`, `EmptyLine` |
| `read_head` of the proxy (line by line, with its limit) | `ReadLine` |
| checks of method, length, transfer coding, `Expect` | `CheckAtEndpoint`, `CheckAtProxy` |
| `Content-Length` body, surplus after the head | `ReadExact` |
| `read_chunked_body` | `ReadSize`, `ReadExact`, `ReadDelimiter`, `ReadTrailer` |
| routing by `Host` | `CheckHost` |
| the answer and its reading in `forward_ipp` | `Answer` (limit, head, truncated answers) |

What may be sent is described by `Framed` and `Chunked`; the field `chunks` of a
request names the place of each chunk in its frame, for the description only: no
action reads it.

### ServerTrust, Sharing, NetworkChannel, Identity

`ServerTrust`: a request is `idle` or at one of its awaits (`observe` the peer's
certificate, `approve` and `forget` under `approval_lock`, `persist`, then `pin`,
`connect`, `exchange` for one that carries a job). `thread` is the blocking write:
`open` and `write` the temporary file, `rename`. In the daemon a request may be
given up at any await; its thread goes on while the lock is already free.
`Restart` is a crash at any point. The history variables `reviewed` and `settled`
record what the user asked for and what the last completed change left.

`Sharing`: a call is a path through the critical sections `check`, `store`,
`publish`, `choose`, `filter`, `disable`, `flag`, `snapshot`, `open` (truncates) and
`write`. `CatalogChanges` is the spooler's doing; `CrashAndRestart` loads what the
file holds.

`NetworkChannel`: three ways to be set (`mode`): a Windows desktop with one file, a
daemon asked by root (`shaprintctl` writes the credential, then asks, and
`PutBack` undoes; or it is killed or fails to, `NotPutBack`), a daemon asked by its
user. `disturbed` remembers the cases in which the daemon's copies do diverge.

`Identity`: `Launch`, `Look`, `WriteKey`, `WriteCert`, `RemoveKey` and the end of the
process between any two of them.

### Discovery and DiscoveryWire

| code | model |
|---|---|
| the loop of `ServerSharingService::run` and its `watch` | `StartSharing`, `Select`, `Replace`, `dirty` |
| `Responder` and its task | `Advertise`, `Hear`, `Reply`, `Withdraw`, `StopResponder`, `ResponderEnds`; `reply` is encoded in one step and sent in another |
| the network | `query`, `answers` (a set: any order), `LoseQuery`, `LoseAnswer`; `Vanish` is a server that dies |
| browser task | `Ask`, `Deliver`, `Sweep` |
| `nearby_servers` of the window | `NearbyServers` (prunes without publishing) |
| time to live, prune | `Tick`, `life` |

`DiscoveryWire` writes and reads packets as byte sequences: labels, the three
records, compression pointers with `MAX_NAME_JUMPS`, TXT strings with their
limit, lifetimes in milliseconds rounded to seconds, cut packets.
`AnnouncementIsRead` says that what a server announced is what a browser lists.

### DaemonControl

`pc` of a daemon is where `main()` is (`Launch`, `Probe`, `Remove`, `Bind`,
`Restore`, then serving, `Drained` or `DrainTimeout`, `Stop`, `Unlink`, `Leave`);
`accept` is the accept task, which on the way down joins its connections. A
connection's task is at one of the awaits of its request and may be given up there
(`GiveUp`, `IO_TIMEOUT`). Services are a flag and jobs a number, since the modules
above have them in detail. `busy` is a daemon with a call on a blocking thread
(`CallBegins`, `CallsEnd`): the firewall commands of `prepare` or the print system.
Neither a dropped request nor a stopped service ends such a call, and once `main()`
has returned the drop of its runtime waits for it, while a failed `shutdown` ends
the process by `exit(1)`. `raced` marks launches that overlapped another launch or
an exit before it removed the socket.

### NativePrint and TestPrint

A submission has the steps `decode`, `media`, `queue`, `jobs`, `create`, `stream`,
`finish`; which of them exist depends on its kind. Each may be refused, fail, or be
carried out and its answer lost. `queue` and `default` change under it.

`TestPrint` has `Open`, `Refresh`, `Send`, `Confirm`, `Close` by overlapping callers;
`Inspect` and `InspectMedia` run without the lock and `SettleRefresh`, `SettleSend`
take it again; `Worker` is the blocking thread that keeps the guard; `Outcome` is
what the caller gets before its 30 s pass; `GiveUp` is a dropped daemon request.

### QueueSetup and QueueNames

A request passes `Inspect` (the application's own look), the authorisation
(`Authorise`, `Declined`), then its privileged part: `Look`, `Count`, `Configure`,
`Undo`, `OptionsCups` on Linux; `Look`, `Count`, `Remove`, `Add`, `SyncWindows` on
Windows. Between any two of them the user prints, jobs end, the user removes the
queue, another request acts, or the caller stops waiting (`GiveUp`) or ends the
helper (`Terminate`). What stands at the name of the queue is told apart by where it
prints to: this proxy, an earlier port of it, somebody else's printer, or a printer of
the user's own that Windows renamed. `told` remembers which operation was reported
done, and `DoneIsTrue` says what must then stand there; it names the two queues that
are reported done and do not print to this proxy.

`QueueNames` has the names themselves: slugs, limits, copies, addresses,
`classify`, and the helper's command line (`quote_argument`, `Split`,
`parse_queue_request`). `NamesAreKept` checks that a queue ShaPrint installs is recognised as
its own and that the helper reads what it was given.

### Firewall, Purge, Launch, PortReclaim, CommandLine

`Firewall`: the policy as Windows profiles and rules, firewalld's zones in two
configurations or UFW's list; `Check`, `Elevate`, `Apply` (one rule), `Fail`,
`Finish`, `GiveUp`, `Recheck`, and an `Administrator` who changes it meanwhile. What
the code reads of the policy (`inbound_sharing_allowed`) and where a packet gets in
(`Reaches`) are two definitions: a Windows rule or a UFW line may match a port without
naming it, in a range or because it is about every port, a line of UFW may be for one
network or for what the computer sends, and firewalld has zones besides the default
one and rich rules that reject. `Overlooked` names each of these that the code takes
no notice of; `ServingIsReachable` excepts them and nothing else. One firewall is
active, and which interface is in which profile or zone does not change.

`Purge`: one action per step of `purge.rs`, each of which may fail; `warned` is
what the user is told to remove by hand; `DaemonWrites` is a daemon that is still
alive.

`Launch`: two threads (the launch or window, and status queries) step through
registration, Run key and preference; the import is `Look`, `Store`,
`TruncateMarker`, `WriteMarker`; `End` is the process's end between any two.

`PortReclaim`: `ReadTable`, `ReadNames`, `Judge`, `Verify`, `Signal`, `JudgeAgain`; the
operating system's `Exits`, `Releases` and `Starts` in between give numbers away
again.

`CommandLine`: the window's `CheckDaemon`, `EnterGate`, `Pkexec`; the parser of
`shaprintctl` over argument strings; the daemon that acts or refuses; answers that
get lost; `ReadBack` of payloads, error lines and exit codes.

## Runs

| run | module, configuration | instance | what it shows |
|---|---|---|---|
| `coordinator_overlap` | `MCRuntimeCoordinator`, `RuntimeCoordinator_overlap.cfg` | 2 services, 2 callers, 2 tasks that may be stuck; symmetry; in part of the behaviours one caller alone | `OwnershipInv`: no task out of reach, none with two owners. `OwnershipRefined`: the coordinator implements `TaskOwnership`. `LiveIsReal`: a state that says live has a task behind it, and *starting* a call, or its start was given up. `SoleCallsAgree`: with one caller, states, tasks and the persisted flag agree, but for the flag of a start given up |
| `coordinator_calls_return` | `RuntimeCoordinator`, `RuntimeCoordinator_live.cfg` | 1 service, 2 callers, 2 tasks that may be stuck | `CallsReturn`: every call past its prompt returns |
| `tracker_lifecycle` | `MCJobTracker`, `JobTracker_lifecycle.cfg` | 2 leases; 2 drains or 2 workers | `NoLostWakeup`; `RestartExclusive` |
| `updates` | `MCUpdateRestart`, `UpdateRestart.cfg` | 2 leases, 2 checkers, a clicking user or none | `InstallExclusive`: no request or job is alive from the stop of the services to the end of the installation; `AdmissionReturns`, and `UpdateApplied` once traffic ends, both unless the installer or a prompt of the restored services never answers; `UnattendedIsReal`: what is shown, stored, checked and queued agree without clicks |
| `print_jobs` | `MCServerJobs`, `ServerJobs.cfg` | endpoint or proxy: 2 leases, 2 connections, 1 job id, a store of 1, a drain or an update worker | `ActiveJobsAreLeased`, `EveryLeaseHasOneOwner`, `ProcessingIsSent`, `ProxyKeepsLeases`, `AbandonedJobsLeave` |
| `server_hand_off` | `ServerJobs`, `ServerJobs_handoff.cfg` | 1 connection, 1 job | disagreement 1 |
| `saved_choices` | `MCStores`, `Stores.cfg` | 2 requests, 2 addresses (queues), 2 certificates (channels), restarts at any point | `OnlyReviewedServers`; `NoChangeIsLost` (but for trust requests given up and overlapping launches); `SharingIsRemembered`; `OneChannel` (but for the disturbances it names) |
| `discovery` | `Discovery`, `Discovery.cfg` | 3 queues, one of them too long for the wire, 1 printer per datagram, 2 ticks of life, 2 datagrams in flight | `StoppedServerLeaves`; `SharedIsFound` |
| `daemon` | `DaemonControl`, `Daemon.cfg` | 2 daemons, 2 connections to one of them, 1 job | `StopsIdle`, `OneDaemon`, `DaemonEnds`: a daemon told to end, its services restored, stops them and removes its socket, and its process ends unless a call on a blocking thread never returns |
| `test_print` | `MCTestPrint`, `TestPrint.cfg` | 2 callers, 2 media, 2 sessions, 3 runs; or submissions of all four kinds | `OutcomeIsTrue`, `OfferedWhenFree`, `PrintsWhatWasShown` |
| `print_journey` | `MCPrintJourney`, `PrintJourney.cfg` | messages with up to 2 of 11 written attributes, 3 printers, all operations; or requests of up to 17 tokens of head and 4 of body in any pieces | `DeliveredAsSent`: settings, document, address and the secret the proxy read, and no other, are what the server gets (and the framing loses no byte: `EmptyLine_InPiece` in the place of `EmptyLine` breaks that half); `QueueSpeaksForItself`; `SharedIsReached`; `OfferIsGranted` |
| `host` | `MCHost`, `Host.cfg` | eight scenes with 2 actors each | `QueueDone`, `QueueStays`, `NamesAreKept`, `ServingIsReachable`, `LeftIsNamed`, `UsersChoicesStay`, `OnlyStaleIsEnded`, `AnswersAreTrue` |

### Why the bounds are enough

*Coordinator.* The interesting cases need a second call that interferes with the
first, a second task that replaces the first, and a second entry in `shutdown`'s
list. Two of each give all three. Ownership holds for any numbers by the proofs.
The number of tasks bounds the number of spawns: a call that has no task left to
spawn stops there (`NoTaskLeft`), which `CallsReturn` excepts by name.

*Tracker.* A lost wake-up needs a drain and one lease; a counter mistake needs one
lease of each kind; the shared drain flag needs two drains. The safety properties
of the run are proved for any number.

*Updater.* The check gate serialises checks, so a background and a manual checker
cover the order of any number. One clicking user is enough for a click to meet
a check, a job and the worker at once.

*Endpoint and proxy.* Two connections race for one job; a store of one with a
limit of one is full and can evict; two leases let a job hold one while a
connection holds the other. One id comes round again and again. Ages have the
values the code tells apart. The lease properties of the endpoint are proved for
any number.

*Stores.* What goes wrong between two requests shows with two; a second address
(queue, certificate, channel) is needed for one change to be lost under another.
Restarts are not bounded.

*Discovery.* One datagram too many for the limit, one name too long, two datagrams
that can overtake each other, and a life of two ticks, so that an entry can be
refreshed half way. `MaxInFlight` bounds the network only by dropping, which it may
do anyway.

*Daemon.* Two launches race for the path; two connections let one hold the way
down up while the other starts a service. Only the first daemon gets requests and
jobs, and only its blocking calls are seen (`Addressed`): the second is there for
the path.

*Test print.* An outcome can be one session late with two sessions, and a refresh
can be overtaken with three runs. The session scene has the daemon's callers
(`Machine`), whose requests may be dropped: a superset of the desktop's.

*Messages.* The client has no channel, the server's, or another that the queue may
also write. The database of an answer has all 21 papers, and the collection of
each with either margin is asked for one by one. Each attribute of `MCOffered` is
one that is treated in its own way (address, secret, identity, media, job options), or repeated, multi-valued or
foreign; pairs show whatever one does to the next. Printer names have both cases, a
space, an escape sign and a comma. The HTTP limits are scaled down (a head of 17
tokens, a body of 4, a chunk line of 4, an answer of 12) and met exactly, below and
above.

*Host.* The values are in `Host.cfg`, those that are not plain sets in `MCHost`. Two queue
requests (one from a terminal, which does not pass the application's gate); names of up to three parts out of the separators the code
looks for; firewall policies of up to eight Windows rules (an allowance for one
profile, one network or everybody, a block of this program, of others, of one profile
or of a range), five settings of firewalld in two zones, or two of nine lines of UFW
(allow, deny and limit, for everybody or one network, outgoing, a range, every port),
plus an administrator's change, which may remove a rule or add one, before the others
too; two imports
and three launches; two process numbers that can be given away twice (`MaxSpawns`); announcements at the limits of a label, a TXT string, the list and the
packet.

`CHECK_DEADLOCK FALSE` stands where the system may stop: the coordinator when its
tasks are used up and nothing can be stopped, the updater once its process has
been replaced, and `Host.cfg` and `PrintJourney.cfg`, whose scenes are requests and
messages that come to an end.

## Disagreements found

The first is a listed run. The configurations named with the others are kept
beside it and are violated when run; where a property is named with a
configuration, the latter is violated with that property as its INVARIANT.

1. **Stopping the server hides a hand-off from the restart guard**
   (`ipps/mod.rs:164`, run `server_hand_off`). The aborted connection drops its
   lease, the blocking spooler call goes on, and eight seconds later a restart
   counts as safe. ADR 0012 (line 17) says neither side "can tolerate an abrupt
   process termination while an IPP/IPPS print job stream or spooler handoff is
   active."

Coordinator, tracker, updater:

- The end of an old task is recorded against the new one (`coordinator.rs:484`;
  `RuntimeCoordinator_managedLive.cfg`). `supervise` and `settle_stopped` know a
  task by its service only. `domain/service.rs:86` describes `is_live` as "Whether
  a task exists that the shell still has to stop."
- `shutdown` returns at the first service that failed meanwhile
  (`coordinator.rs:351`; `RuntimeCoordinator_joins.cfg`): the rest is cancelled but
  not joined. `coordinator.rs:338`: "Stops every service the shell started".
- One drain's timeout reopens admission under another that succeeded
  (`job_tracker.rs:207`; `MCJobTracker`, `JobTracker_overlap.cfg`).
- A late `stopped()` clears the persisted flag of a server started again
  (`coordinator.rs:315`), and starting a failed service runs the stop hook
  (`coordinator.rs:243`) although `runtime.rs:127` ties it to a service "explicitly
  stopped by the user". `SoleCallsAgree` is therefore about calls that do not
  overlap.
- The control socket drops a request after 15 s (`daemon.rs:700`), and `start` may
  take 10 s to become ready, 5 s to join and any time to prepare. A start dropped
  while it waits leaves the service *starting* without a deadline
  (`coordinator.rs:18`: "How long a service may take to report ready before the
  shell reports a timeout"; `MCRuntimeCoordinator`, `StartingIsWatched` in
  `RuntimeCoordinator_overlap.cfg`), and when it becomes ready after all its
  `started` hook has not run: sharing runs and will not be restored. A stop dropped
  while it joins lets the next one report *stopped* over a task that still runs
  (`StoppedHasNoTask` in `RuntimeCoordinator_joins.cfg`).
  `LiveIsReal` and `SoleCallsAgree` except the first two by name (`givenUp`); the
  last is not among the behaviours of one caller in `MCRuntimeCoordinator`.
- `request_restart` writes back a state read under an earlier lock
  (`updater.rs:202`–`217`): a click racing a check can revert it, and the worker
  stops services for a package that is not there.

Endpoint and proxy:

- A response is written without a timeout (`ipps/mod.rs:317`): a client that stops
  reading keeps its lease until the server stops.
- Stopping the proxy stops its cleanup tick: pending leases hold back restarts
  until it runs again (`client_proxy.rs:204`). A failed Send-Document or a Cancel
  removes the pending lease while the remote job may still be open.
- Attributes of a group that stand before `printer-uri-supported` are not
  rewritten, and the request parser attaches a nameless value after a group
  delimiter to the attribute before it while `prepare_proxy_request` does not. Our
  own endpoint and the spoolers write neither.
- A chunk-size line longer than its limit is cut and the rest read as data
  (`client_proxy.rs:550`); no spooler writes one.

Stores:

- Two daemons launched at once on a fresh directory replace the identity: it is
  made (`daemon.rs:438`) before the socket is bound (`MCStores`,
  `IdentitySurvivesRaces` in `Stores.cfg`; ADR 0003, line 66: "survive restarts"). A crash between
  key and certificate leaves half an identity that every later launch reports.
- Overlapping channel changes by root, one that is given up, a `shaprintctl` that is
  killed between writing the credential and putting it back, and a put-back that
  fails (`daemon.rs:2125`, `2131` ignore it) leave credential and verifier of
  different channels (`MCStores`, `NeverDiverge` in `Stores.cfg`; `daemon.rs:2107`:
  "never diverge").
- Overlapping `set_shared` calls leave memory, advertisement and file different;
  the settings file is written in place (`sharing.rs:259`).

Discovery:

- An answer encoded before `withdraw` may be sent after the goodbye
  (`advertise.rs:437` against `375`): a stopped server is listed until its lifetime
  ends. Once the discovery service is stopped nothing sweeps the list.
- A printer name past the limit of a TXT string hides the whole server.

Daemon:

- A drain request of more than 15 s is dropped and leaves admission closed
  (`daemon.rs:700` against `job_tracker.rs:181`; `DaemonControl`,
  `Daemon_drain.cfg`); the package's `prerm` relies on it.
- A daemon whose restored services wait for a firewall command cannot be told to end
  but by a kill, and one whose spooler call does not return stays a process without a
  socket (`launch_with_effective_uid`, `bin/shaprintd.rs:30`).
- A socket `shutdown` stops the services before anything drains; when it takes more
  than 15 s the daemon stays alive with its services stopped.
- Launches that overlap may take the socket of a live daemon for stale
  (`daemon.rs:683` against `407`).

Queues and printing:

- Of two overlapping CUPS installations the one that fails deletes the other's
  queue. On Windows a failure between `Remove-Printer` and `Add-Printer` loses the
  queue, jobs that arrive between the count and the removal are discarded, and an
  install over an older port removes the queue without looking at its jobs.
  `QueueStays` excepts these by name.
- A user's own WSD printer of the same name may be renamed and taken for the new
  queue (`OwnPrinterUntouched`, `QueueSetup_own.cfg`;
  `queue_installation/windows.rs:70`–`102`).
- On Linux an installation that finds the queue at an earlier port of the proxy leaves
  it and reports it done (`cups.rs:115`), where a recognised queue "is updated
  idempotently" (`cups.rs:9`) and re-installing it "updates its loopback port in place"
  (ADR 0014, line 7); Windows makes it again (`windows.rs:137`). The queue prints to a
  port nobody listens at until it is repaired (`DoneIsCurrent`, `QueueSetup_own.cfg`).
- A helper that was given up goes on.
- An IPv6 server's WSD queue is recognised with an address that is not the server's;
  `percent_decode` swallows two bytes after a broken escape; a genuine network
  printer under `/ipp/print/` cannot be shared (`domain/queue.rs`).
- A lost answer to `cupsFinishDocument` is reported as an error although the
  document may print. A test print dropped by the daemon after 15 s stays
  *checking* (`test_print.rs:261`, `daemon.rs:47`; `MCTestPrint`,
  `CheckingIsCarried` in `TestPrint.cfg`).

Host:

- A server is reported ready although clients cannot reach it
  (`application/setup.rs:71`; `ClientsGetIn`, `Host.cfg`). UFW: an *allow* line for one
  network, or for outgoing packets, counts, and so does one behind a *deny* or a
  *limit* for a range, a network or both protocols, which `ufw allow` does not replace
  (`elevation.rs:535`–`560`). Windows: a rule that blocks a range of ports is not
  recognised (`PortMatches`, `elevation.rs:1157`). firewalld: only the default zone is
  asked about and opened, and a rich rule that rejects is not seen
  (`elevation.rs:809`); after a failed permanent change a second attempt looks at the
  running configuration only.
- Purge: firewall rules and service are reported removed whatever the commands
  answered (`purge.rs`, ADR 0018, line 15).
- Startup: a program that was moved is still reported as registered
  (`application/startup.rs:66`); `status()` "without changing anything" migrates the
  Run key (`application/startup.rs:64`), and removes its value before the task
  exists. An import can replace a channel that the user set between its look and
  its store.
- Ports: between the identity check and `/bin/kill` a number can be reused
  (`port_binding.rs:483`); on Windows only the name is compared again.
- Elevated commands: operands that begin with a hyphen are taken for options
  (`sharing set -y` reports success without the printer); a change that timed out
  may be carried out later. `AnswersAreTrue` excepts the first by name.

## Fairness

Only what the runtime and the clock do by themselves is fair.

- *Coordinator*: a caller is a future that tokio polls when it can go on, and
  every wait of it has a deadline, so each caller is weakly fair past the prompt.
  `supervise` records a result (weak). A cancelled task need not return
  (`StuckTasks`). Nobody is obliged to call, to answer a prompt, or to become
  ready, and no call is given up because it has to be.
- *Tracker*: a runnable drain runs and its deadline passes (weak). Its timeout is
  strongly fair: `select!` starts at a random branch, so a drain woken again and
  again still takes its deadline when both are ready. No lease has to be dropped.
- *Updater*: the restart worker is one spawned loop whose timer fires and whose
  shutdown bounds its joins, and the cooldown ends (weak). Jobs, checks and clicks
  are not fair, nor are the installer and the restart of the services. The two
  liveness properties assume in their statement that neither of these waits for
  ever (`PromptsAnswered`), and `UpdateApplied` that print traffic ends.
- *Endpoint*: time passes for each job, the 30-second tick expires what is old,
  a loop that was left aborts its connections and jobs and ends, and the step
  from promoted lease to store, which awaits nothing, is taken. A client need not
  send, and a spooler call need not return.
- *Proxy*: time passes for pending jobs, and the cleanup tick of a running proxy
  expires what is old (weak). It only tries the lock, but nobody holds that across
  an await.
- *Discovery*: the server's loop sees a changed selection and its responder sends
  what it encoded, the browser asks and sweeps on its ticks, and time passes (weak).
  A question that is sent again and again is heard, and of datagrams that keep
  arriving some are delivered (strong): the network may lose any number of them,
  but not all of an unending repetition. Nobody has to start, stop or select.
- *Daemon*: the steps of `main()` and of the accept task on the way down, each of
  which ends by itself or by its deadline, `IO_TIMEOUT` of a connection, and the end
  of a process whose runtime waits for nothing (weak). Clients and jobs owe nothing,
  and neither do the commands that a launch waits for while it restores the services
  nor the calls on blocking threads: `DaemonEnds` names both.

The other modules state no liveness and no fairness.

## Proofs

The theorems hold for every value of the constants under the modules' named
assumptions: null values are not members of the sets they stand beside,
`Leases` is finite (so that it has a cardinality), `ServerSharing` is a service,
the worker is not a requester, bounds are natural numbers. TLC evaluates them in
each run. The assumptions that say more are named below.

Each safety property is proved in the same way: the property is seldom
inductive, so a stronger invariant (`…Inv`) says what holds between the steps of
an operation; a lemma `Init…` shows that it holds at first, a lemma `Step…` that
every action keeps it, with one step for each action, and the theorem combines
them. TLC has checked each of these invariants on the run of its module.

**`RuntimeCoordinatorProofs`.** `NoOrphan` and `OneOwner` are not inductive: they
say nothing of who may hold an entry. `OwnershipInv` adds that a slot's task was
spawned for its service and is not cancelled, that a call holds entries only
between taking and marking them, and that what it holds was spawned and not
cancelled. With it, `TypeCorrect`, `OwnershipInvariant`, `NeverOrphaned`,
`SingleOwner`. `LivesAreReal` is by two more: `LiveSettles` names the task behind
a live state, one that has not returned or one whose verdict the state still
admits, whoever else moves the state meanwhile; `StartWatched` says that a service
is *starting* only while a start call waits for it or discards it, or after that call
was given up.
`SoleCallersAgree` is about calls made one at a time and tasks that return when
they are told to; it is false without either (see the disagreements). Its
invariant `SoleInv` says in whose hands the one task is at each step of a call, or
that a start given up left it astray, and uses the three others: when the call has
joined what it took there is no task, so by `LiveSettles` nothing is live. `Refinement` maps each task to `new`,
`managed`, `claimed` or `cancelled` and shows that each step is one of
`TaskOwnership` or a stutter. A task that fell out of all four would map to
`lost`, which the abstract specification does not have.

**`JobTrackerProofs`.** `CountersAreExact` is inductive with types, by the
cardinality of a set that gains or loses one element; it is what makes the
saturating subtractions exact. `WakeupsAreKept` follows: a drain past its look
that is not woken saw a lease, and the drop of the last one wakes every armed
drain. `PermitExcludesWork` and `PermitIsUnique` are by an invariant that a permit
is unique, implies closed admission and no lease, and is only held in a desktop,
where no drain's timeout can reopen admission under it. `SingleDrainHolds` is the
positive side of the disagreement about overlapping drains: with at most one drain,
`DrainHolds` is a theorem.

**`UpdateRestartProofs`.** `UsesTracker` (every step is a step of the tracker or a
stutter), from which the tracker's invariants carry over;
`PermitFollowsWorker`; `NothingPrintsDuringInstall` for any number of
requests, checkers and clicks. `UnattendedUpdates` is for a user who does not click,
and false for one who does (see the disagreements). Its invariant `QuietInv` says
that a check which goes on after its look at the state and an update on offer
exclude each other, so that from the poll to the installation nobody but the worker
moves the state; that gives the invariant and the action property alike.

**`ServerJobsProofs`.** `LeaseInv`: a connection under way owns a live lease, a
promoted one between the steps of Create-Job; an active job owns a live job lease
and any other none; no two owners share one; no live lease is without owner. It
gives `JobsAreLeased`, `LeasesHaveOneOwner` and `UsesTracker` (each drop the
endpoint makes is of a live lease). `SubmitInv` adds the relation between
connections, submissions and the serve loop's position, and gives `SubmittedOnce`,
`StopLeavesNothing` and `JobsLive`. Because the endpoint implements the tracker,
the theorems of `JobTrackerProofs` hold of it: combined with `LeaseInv` they say that
a restart permit (`RestartSparesStore`) and a drain that succeeded
(`DrainEmptiesStore`) leave no stored job that still has to print. `ProxyInv` is
`LeaseInv` for the proxy, whose owners are connections and pending entries;
`ProxyUsesTracker` is its refinement and `ProxyLeasesAreKept` the property the run
checks. What is said of drains has the hypothesis that there is one drainer: with
two it is false (see the disagreements), as in `SingleDrainHolds`.

**`StoresProofs`.** `PinsAreReviewed` is by `TrustInv`: whatever is in memory, in the
temporary file, in the thread's image or in a request's hand was reviewed for its
address. `ChangesAreKept` has two parts. `WriterInv`: until a request is given up
only the one with the lock has a thread, what that writes is the settled records
but for one address, and a file that is renamed is whole. `IdentityInv`: launches
that do not overlap never have a certificate without its key.
`SharingStays`: `FlagInv` (a flag that is not in the file has a call that will write
it; this one holds when calls overlap, too) and `SoloInv`, how far a call that runs
alone has brought memory, watch channel and file together. `ChannelsAgree`:
`ChannelInv` says the same of a channel's four copies along a request, for each of
the three ways to set one.

**`ConnectionProofs`.** The daemon: `StopsWhenIdle` needs that `wait()` goes on only
after the accept task has ended and that this task has joined its connections, so
that on the way down nobody else can end a drain or reopen admission
(`AcceptFollowsMain`, `ConnectionsAreOwned`, `WayDown`). `OneListens` is by
`PathInv`: without overlapping launches, whoever is past its probe and has not yet
removed its socket is alone.

HTTP: `DocumentsAreTaken` states three of the four parts of
`DeliveredAsSent` (`BodyIsWhole`, `SentIsTaken`, `NoStandOff`), `AnswersAreWhole` the
fourth, for documents, frames and answers of any length, any number of chunks and any
limits. `ReadInv` says for each stage where the receiver is in the stream and how much
of the document the body has: before the end of the head the head read so far is the
beginning of the stream, and it has no empty line (`HeadInv`); a body of known length
begins where the head ends (`CountedInv`); where a size is read a chunk begins, and the
body has what the chunks before it carry (`SizeInv`, `DataInv`, `DelimiterInv`). The
lemmas under it are about the readers: `LineRead` (a line that is read ends at the
first end of a line, at the limit or where the sender stopped), `EmptyLineFrom` (the
endpoint's search finds the empty lines of the stream) and `HeadOfAnswer`. No step
needs induction over a document, because a request carries, in `chunks`, the place of
each chunk and what stands before it. `Framed` is the hypothesis on requests, what
HTTP/1.1 says of a frame: the only empty line of the head ends it, headers that are
repeated agree, a length is that of the document, chunks follow one another and carry
the document, and the line of a chunk's size is within the reader's limit. It says
nothing of methods, hosts, codings, or the sizes of head, body and document: faults in
those are among the requests, but a chunk line beyond its limit is not. A head with an empty line in the middle, or with two
lengths that differ, is another message than its sender means, and the readers
disagree about it; that is why they are excluded. `Bounds` and `AnswerLimits`: limits
are natural numbers, and the proxy's allowance for a head is more than the endpoint
writes. TLC evaluates `Framed` for the instance's requests (`FramingAssumption`).

**`TestPrintProofs`.** `OutcomesAreTrue` is by the relation of a submission's step, its
job in the spooler and its result, for each of the four kinds. `OffersWhenFree` and
`ShownIsPrinted` are by `GuardInv`: the flag `submitting` has one holder, a call on its
way to the spooler or a submission which outlives its call.

**`HostProofs`.** Each part but the last is about the behaviours of one scene of
`MCHost`; the last is about `Discovery`.

- `LeftoversAreNamed`: what the purge has passed is gone or named.
- `OnlyStaleProcessesEnd`: a number given again has a later birth, so one with the
  birth that was checked is the process that was checked (`TargetInv`); a socket of the
  program's own is seen at every look (`OwnSocketInv`). `SelfAssumption`: the
  program's own number is not given to others while it runs. The property allows the
  window between check and signal by name.
- `ChoicesStay`: from a choice on, no thread is about to register from an old Run
  value unless something spoiled it (`DoneInv`), and the launch follows the file
  (`DefaultInv`); an import that looked saw no channel of the user's (`ImportInv`).
- `DoneIsDone` and the action property `QueuesAreKept`: `LinuxInv` and `WindowsInv` say
  what a privileged part that is alone has left at the name. There is no hypothesis: the
  queue at an earlier port that Linux leaves, and the user's printer that Windows
  renames, are disjuncts of the property.
- `ReadyIsReachable`: with any rules, zones and ports, and any administrator who changes
  them until the moment of the answer. `AllowedIsReached` compares what the code reads
  with where a packet gets in: the difference is `Overlooked`, and nothing else. There
  the theorem claims nothing, and the code is wrong (see the disagreements).
- `AnswersHold`: until the helper hands over its command nothing has happened, pkexec's
  codes 126 and 127 are only seen when there was no helper, and a success is that of
  the command understood. That the parser understands what the window wrote is
  `MutationsAssumption`: the parser folds over the arguments, so for all arguments it
  is induction over data. TLC evaluates it for the instance's changes.
- `StoppedIsSilent`, the first half of `StoppedServerLeaves`: a server that is off has
  no responder (`ResponderInv`), so that no question and no selection that was on its
  way makes it send. It holds when the service is aborted, too.

## What is only model-checked

- Liveness, which the prover cannot handle under fairness: `CallsReturn`,
  `AdmissionReturns`, `UpdateApplied`, `AbandonedJobsLeave`, `StoppedServerLeaves`
  (its first half, that a server which is off is silent, is proved), `SharedIsFound`,
  `DaemonEnds`.
- What functions over messages, packets and names compute (`DeliveredAsSent` for
  messages, `QueueSpeaksForItself`, `SharedIsReached`, `OfferIsGranted`,
  `NamesAreKept`): they walk over sequences, and the prover has no induction over
  data. Of the framing `DeliveredAsSent` is proved.

## What is not modelled

- Field lengths of IPP messages and messages cut inside a field, the TLS handshake,
  key derivation, the drawn test page, rasters and device modes, drivers and PPDs,
  socket tables as text, log and advice text. None of them decides a step of the
  modules.
- A poisoned mutex (the code recovers the value), allocation failure, a panic in a
  task other than as a failed result.
- Print failures: a watch channel with the last one; each method is one assignment.
  Diagnostics: reads the other parts and formats. Window and tray: one pure
  decision. IPC commands are the callers of the modules; those that go through
  polkit are in `CommandLine`.
- The React frontend, the Android client (a second client of the endpoint, whose
  requests are those a connection of `ServerJobs` can make), the landing page,
  packaging and release scripts.
- Fifteen minutes without a job, in `ServerJobs` and `ClientProxy`: nothing there
  reads `quiet`.

## Plan

The planned modules and proofs are done. What would be added next: that what an
answer in the network says was selected once, and the codecs (`IppMessage`,
`QueueNames`, `DiscoveryWire`) for messages of any length, which takes a prover with
induction over data.
