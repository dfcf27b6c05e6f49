--------------------------- MODULE DaemonControl ---------------------------
(***************************************************************************)
(* The Linux daemon shaprintd and its control socket (adapters/daemon.rs,  *)
(* bin/shaprintd.rs, bin/shaprintctl.rs): taking the socket path at launch,*)
(* serving control requests in tasks of their own, each given up after     *)
(* IO_TIMEOUT wherever it awaits, and the way down: the accept task joins  *)
(* its connections, wait() drains the print jobs, stops the services and   *)
(* removes the socket file, and the process ends when no call is left on a *)
(* blocking thread: the drop of the runtime waits for those that began.    *)
(*                                                                         *)
(* The services are one flag and the jobs one number: RuntimeCoordinator,  *)
(* JobTracker and the modules of the services have them in detail.  The    *)
(* requests on trust, sharing, the channel and queues only take time here. *)
(***************************************************************************)
EXTENDS Naturals, FiniteSets

CONSTANTS
  Daemons,      \* processes that may be started for one socket path
  Connections,  \* concurrent control connections
  Addressed,    \* bound: the daemons whose requests, jobs and calls are seen
  Nobody,       \* no daemon
  MaxJobs       \* bound: print jobs in flight in one daemon

ASSUME NobodyAssumption == Nobody \notin Daemons
ASSUME AddressedAssumption == Addressed \subseteq Daemons
ASSUME MaxJobsAssumption == MaxJobs \in Nat

VARIABLES
  pc,        \* [Daemons -> where main() is]
  accept,    \* [Daemons -> the accept task: "none", "open", "joining", "done"]
  cancel,    \* daemons whose cancel channel holds TRUE
  serving,   \* daemons whose coordinator has a service
  jobs,      \* [Daemons -> print jobs in flight]
  draining,  \* daemons whose tracker refuses new jobs
  socket,    \* the daemon that bound the file at the socket path, or Nobody
  at,        \* [Connections -> where its task is]
  peer,      \* [Connections -> the daemon it is connected to, or Nobody]
  busy,      \* daemons with a call on a blocking thread (spawn_blocking)
  drained,   \* daemons whose last drain ended well
  raced      \* a launch overlapped another launch, or an exit

daemonVars  == <<pc, accept, cancel>>
serviceVars == <<serving, jobs, draining, drained>>
connVars    == <<at, peer>>
vars == <<pc, accept, cancel, serving, jobs, draining, socket, at, peer,
          busy, drained, raced>>

TypeOK ==
  /\ pc \in [Daemons -> {"off", "probe", "remove", "bind", "restore", "wait",
                         "drain", "stop", "unlink", "leave"}]
  /\ accept \in [Daemons -> {"none", "open", "joining", "done"}]
  /\ cancel \subseteq Daemons /\ serving \subseteq Daemons
  /\ draining \subseteq Daemons /\ drained \subseteq Daemons
  /\ busy \subseteq Daemons
  /\ jobs \in [Daemons -> 0..MaxJobs]
  /\ socket \in Daemons \cup {Nobody}
  /\ at \in [Connections -> {"idle", "request", "start", "stop", "drain",
                             "draining", "shutdown", "answer", "told"}]
  /\ peer \in [Connections -> Daemons \cup {Nobody}]
  /\ raced \in BOOLEAN

Init ==
  /\ pc = [d \in Daemons |-> "off"]
  /\ accept = [d \in Daemons |-> "none"]
  /\ cancel = {} /\ serving = {} /\ draining = {} /\ drained = {}
  /\ busy = {}
  /\ jobs = [d \in Daemons |-> 0]
  /\ socket = Nobody
  /\ at = [c \in Connections |-> "idle"]
  /\ peer = [c \in Connections |-> Nobody]
  /\ raced = FALSE

Goto(d, to) == pc' = [pc EXCEPT ![d] = to]

(* The kernel answers a connect while the listener exists, and the accept  *)
(* task owns it until it ends.                                             *)
Listening(d) == accept[d] \in {"open", "joining"}

ConnectionsOf(d) == {c \in Connections : peer[c] = d}

(* The process is gone and with it its tasks, services and leases.         *)
Gone(d) ==
  /\ Goto(d, "off")
  /\ accept' = [accept EXCEPT ![d] = "none"]
  /\ cancel' = cancel \ {d}
  /\ serving' = serving \ {d}
  /\ jobs' = [jobs EXCEPT ![d] = 0]
  /\ draining' = draining \ {d}
  /\ drained' = drained \ {d}
  /\ busy' = busy \ {d}
  /\ at' = [c \in Connections |-> IF peer[c] = d THEN "idle" ELSE at[c]]
  /\ peer' = [c \in Connections |-> IF peer[c] = d THEN Nobody ELSE peer[c]]

-----------------------------------------------------------------------------
(* launch.                                                                 *)

Launch(d) ==
  /\ pc[d] = "off" /\ Goto(d, "probe")
  /\ UNCHANGED <<accept, cancel, serviceVars, socket, connVars, raced, busy>>

Launching(d) == pc[d] \in {"probe", "remove", "bind"}
Ending(d)    == accept[d] = "done" /\ pc[d] # "leave"
Overlap(d)   == \E e \in Daemons \ {d} : Launching(e) \/ Ending(e)

(* Variant: a socket file is taken for stale without connecting to it.     *)
Probe_Blind(d) ==
  /\ pc[d] = "probe"
  /\ raced' = (raced \/ Overlap(d))
  /\ Goto(d, IF socket = Nobody THEN "bind" ELSE "remove")
  /\ UNCHANGED <<accept, cancel, serviceVars, socket, connVars, busy>>

(* cleanup_stale_socket: a socket that answers belongs to a live daemon,   *)
(* and launch ends with an error.                                          *)
Probe(d) ==
  /\ pc[d] = "probe"
  /\ raced' = (raced \/ Overlap(d))
  /\ \/ socket = Nobody /\ Goto(d, "bind")
     \/ socket # Nobody /\ ~Listening(socket) /\ Goto(d, "remove")
     \/ socket # Nobody /\ Listening(socket) /\ Goto(d, "off")
  /\ UNCHANGED <<accept, cancel, serviceVars, socket, connVars, busy>>

(* remove_file takes away whatever is at the path by now; a file that is   *)
(* no longer there is an error.                                            *)
Remove(d) ==
  /\ pc[d] = "remove"
  /\ Goto(d, IF socket = Nobody THEN "off" ELSE "bind")
  /\ socket' = Nobody
  /\ UNCHANGED <<accept, cancel, serviceVars, connVars, raced, busy>>

(* UnixListener::bind refuses a path that exists; the accept task starts.  *)
Bind(d) ==
  /\ pc[d] = "bind"
  /\ IF socket = Nobody
       THEN /\ socket' = d /\ Goto(d, "restore")
            /\ accept' = [accept EXCEPT ![d] = "open"]
       ELSE Goto(d, "off") /\ UNCHANGED <<socket, accept>>
  /\ UNCHANGED <<cancel, serviceVars, connVars, raced, busy>>

(* restore and start_autostart; their failures are only logged.            *)
Restore(d) ==
  /\ pc[d] = "restore" /\ Goto(d, "wait")
  /\ serving' \in {serving, serving \cup {d}}
  /\ UNCHANGED <<accept, cancel, jobs, draining, drained, socket, connVars,
                 raced, busy>>

-----------------------------------------------------------------------------
(* The accept task.                                                        *)

Connect(c) ==
  /\ at[c] = "idle"
  /\ socket \in Addressed /\ accept[socket] = "open"
  /\ at' = [at EXCEPT ![c] = "request"]
  /\ peer' = [peer EXCEPT ![c] = socket]
  /\ UNCHANGED <<daemonVars, serviceVars, socket, raced, busy>>

(* select! notices the cancel channel and leaves the loop.                 *)
StopAccepting(d) ==
  /\ accept[d] = "open" /\ d \in cancel
  /\ accept' = [accept EXCEPT ![d] = "joining"]
  /\ UNCHANGED <<pc, cancel, serviceVars, socket, connVars, raced, busy>>

(* Variant: the task ends without joining its connections.                 *)
Joined_Detached(d) ==
  /\ accept[d] = "joining"
  /\ accept' = [accept EXCEPT ![d] = "done"]
  /\ UNCHANGED <<pc, cancel, serviceVars, socket, connVars, raced, busy>>

(* The task ends once every connection has; its listener is closed.        *)
Joined(d) ==
  /\ accept[d] = "joining" /\ ConnectionsOf(d) = {}
  /\ accept' = [accept EXCEPT ![d] = "done"]
  /\ UNCHANGED <<pc, cancel, serviceVars, socket, connVars, raced, busy>>

-----------------------------------------------------------------------------
(* process_stream.                                                         *)

Step(c, to) == at' = [at EXCEPT ![c] = to] /\ UNCHANGED peer
EndTask(c) ==
  /\ at' = [at EXCEPT ![c] = "idle"]
  /\ peer' = [peer EXCEPT ![c] = Nobody]

(* The request is read.  A read-only request, one that is not authorised   *)
(* and one that does not parse go to the answer.                           *)
Request(c) ==
  /\ at[c] = "request"
  /\ \E to \in {"start", "stop", "drain", "shutdown", "answer"} : Step(c, to)
  /\ UNCHANGED <<daemonVars, serviceVars, socket, raced, busy>>

(* RuntimeCoordinator::start: the service is running from its spawn on,    *)
(* whether or not the request is there to see it become ready.             *)
StartService(c) ==
  /\ at[c] = "start" /\ Step(c, "answer")
  /\ serving' \in {serving, serving \cup {peer[c]}}
  /\ UNCHANGED <<daemonVars, jobs, draining, drained, socket, raced, busy>>

(* The services of d are cancelled, and their connections aborted.         *)
StopServices(d) ==
  /\ serving' = serving \ {d}
  /\ jobs' = [jobs EXCEPT ![d] = 0]
  /\ UNCHANGED <<draining, drained>>

StopService(c) ==
  /\ at[c] = "stop" /\ Step(c, "answer")
  /\ StopServices(peer[c])
  /\ UNCHANGED <<daemonVars, socket, raced, busy>>

(* RuntimeCoordinator::shutdown; with a service that does not end in time  *)
(* it is an error, and the daemon goes on.                                 *)
ShutdownRuntime(c) ==
  /\ at[c] = "shutdown"
  /\ Step(c, "told") \/ Step(c, "answer")
  /\ StopServices(peer[c])
  /\ UNCHANGED <<daemonVars, socket, raced, busy>>

(* PrintJobTracker::drain, which closes admission first, and keeps it      *)
(* closed when it ends well.                                               *)
BeginDrain(c) ==
  /\ at[c] = "drain" /\ Step(c, "draining")
  /\ draining' = draining \cup {peer[c]}
  /\ UNCHANGED <<daemonVars, serving, jobs, drained, socket, raced, busy>>

RequestDrained(c) ==
  /\ at[c] = "draining" /\ jobs[peer[c]] = 0 /\ Step(c, "answer")
  /\ drained' = drained \cup {peer[c]}
  /\ UNCHANGED <<daemonVars, serving, jobs, draining, socket, raced, busy>>

(* The window of the request expires first: cancel_drain.  An IPP request  *)
(* that is not a print job, not counted here, holds a drain up as well.    *)
RequestDrainTimeout(c) ==
  /\ at[c] = "draining" /\ Step(c, "answer")
  /\ draining' = draining \ {peer[c]}
  /\ drained' = drained \ {peer[c]}
  /\ UNCHANGED <<daemonVars, serving, jobs, socket, raced, busy>>

(* write_json_line; after it, a Shutdown that stopped the services stops   *)
(* the daemon, whether or not the answer was written.                      *)
Answer(c) ==
  /\ at[c] \in {"answer", "told"} /\ EndTask(c)
  /\ cancel' = IF at[c] = "told" THEN cancel \cup {peer[c]} ELSE cancel
  /\ UNCHANGED <<pc, accept, serviceVars, socket, raced, busy>>

(* Variant: the timeout covers the work but not the reading of a request.  *)
GiveUp_NotReading(c) ==
  /\ at[c] \notin {"idle", "request"} /\ EndTask(c)
  /\ UNCHANGED <<daemonVars, serviceVars, socket, raced, busy>>

(* handle_connection: IO_TIMEOUT drops the request where it is.            *)
GiveUp(c) ==
  /\ at[c] # "idle" /\ EndTask(c)
  /\ UNCHANGED <<daemonVars, serviceVars, socket, raced, busy>>

-----------------------------------------------------------------------------
(* The print jobs of the services.                                         *)

JobArrives(d) ==
  /\ d \in (serving \ draining) \cap Addressed /\ jobs[d] < MaxJobs
  /\ jobs' = [jobs EXCEPT ![d] = @ + 1]
  /\ UNCHANGED <<daemonVars, serving, draining, drained, socket, connVars,
                 raced, busy>>

JobEnds(d) ==
  /\ jobs[d] > 0
  /\ jobs' = [jobs EXCEPT ![d] = @ - 1]
  /\ UNCHANGED <<daemonVars, serving, draining, drained, socket, connVars,
                 raced, busy>>

-----------------------------------------------------------------------------
(* Calls on blocking threads: the firewall commands of prepare, the print  *)
(* system for a job or a request.  Neither a dropped request nor a stopped *)
(* service ends them, and they need not return.                            *)

CallBegins(d) ==
  /\ d \in Addressed
  /\ \/ pc[d] = "restore" \/ jobs[d] > 0
     \/ \E c \in ConnectionsOf(d) : at[c] \in {"start", "answer"}
  /\ busy' = busy \cup {d}
  /\ UNCHANGED <<daemonVars, serviceVars, socket, connVars, raced>>

CallsEnd(d) ==
  /\ busy' = busy \ {d}
  /\ UNCHANGED <<daemonVars, serviceVars, socket, connVars, raced>>

-----------------------------------------------------------------------------
(* wait, and the ends of the process.                                      *)

(* SIGTERM or SIGINT; the handler exists once launch has returned.         *)
Signal(d) ==
  /\ pc[d] = "wait" /\ d \notin cancel
  /\ cancel' = cancel \cup {d}
  /\ UNCHANGED <<pc, accept, serviceVars, socket, connVars, raced, busy>>

AcceptEnded(d) ==
  /\ pc[d] = "wait" /\ accept[d] = "done" /\ Goto(d, "drain")
  /\ draining' = draining \cup {d}
  /\ drained' = drained \ {d}
  /\ UNCHANGED <<accept, cancel, serving, jobs, socket, connVars, raced, busy>>

Drained(d) ==
  /\ pc[d] = "drain" /\ jobs[d] = 0 /\ Goto(d, "stop")
  /\ drained' = drained \cup {d}
  /\ UNCHANGED <<accept, cancel, serving, jobs, draining, socket, connVars,
                 raced, busy>>

(* After fifteen seconds wait() goes on, with admission open again.        *)
DrainTimeout(d) ==
  /\ pc[d] = "drain" /\ Goto(d, "stop")
  /\ draining' = draining \ {d}
  /\ UNCHANGED <<accept, cancel, serving, jobs, drained, socket, connVars,
                 raced, busy>>

Stop(d) ==
  /\ pc[d] = "stop" /\ Goto(d, "unlink")
  /\ StopServices(d)
  /\ UNCHANGED <<accept, cancel, socket, connVars, raced, busy>>

(* The file at the path is removed, whoever bound it.  After a failed      *)
(* shutdown main() calls exit(1), which waits for nothing.                 *)
Unlink(d) ==
  /\ pc[d] = "unlink"
  /\ \/ /\ Goto(d, "leave")
        /\ UNCHANGED <<accept, cancel, serviceVars, connVars, busy>>
     \/ Gone(d)
  /\ socket' = Nobody
  /\ UNCHANGED raced

(* main() returned: the drop of its runtime waits for the blocking threads.*)
Leave(d) ==
  /\ pc[d] = "leave" /\ d \notin busy /\ Gone(d)
  /\ UNCHANGED <<socket, raced>>

(* The process is killed, or the machine goes down: the file stays.        *)
Kill(d) ==
  /\ pc[d] # "off" /\ Gone(d)
  /\ UNCHANGED <<socket, raced>>

-----------------------------------------------------------------------------
Next ==
  \/ \E d \in Daemons :
       \/ Launch(d) \/ Probe(d) \/ Remove(d) \/ Bind(d) \/ Restore(d)
       \/ StopAccepting(d) \/ Joined(d) \/ JobArrives(d) \/ JobEnds(d)
       \/ Signal(d) \/ AcceptEnded(d) \/ Drained(d) \/ DrainTimeout(d)
       \/ CallBegins(d) \/ CallsEnd(d)
       \/ Stop(d) \/ Unlink(d) \/ Leave(d) \/ Kill(d)
  \/ \E c \in Connections :
       \/ Connect(c) \/ Request(c) \/ StartService(c) \/ StopService(c)
       \/ ShutdownRuntime(c) \/ BeginDrain(c) \/ RequestDrained(c)
       \/ RequestDrainTimeout(c) \/ Answer(c) \/ GiveUp(c)

(* The tasks of a daemon run, and its timers fire: IO_TIMEOUT for every    *)
(* connection, fifteen seconds for the drain of wait().  A restore waits   *)
(* for the commands of prepare, and these and the print system owe nothing.*)
Fairness ==
  /\ \A d \in Daemons : WF_vars(StopAccepting(d))
                        /\ WF_vars(Joined(d)) /\ WF_vars(AcceptEnded(d))
                        /\ WF_vars(Drained(d) \/ DrainTimeout(d))
                        /\ WF_vars(Stop(d)) /\ WF_vars(Unlink(d))
                        /\ WF_vars(Leave(d))
  /\ \A c \in Connections : WF_vars(GiveUp(c))

Spec == Init /\ [][Next]_vars /\ Fairness

-----------------------------------------------------------------------------
(* The way down is orderly: when the drain of wait() has ended well, no    *)
(* print job is in flight as the services are stopped, and no connection   *)
(* task starts a service once the runtime was shut down, whatever requests *)
(* and services were under way when the daemon was told to end (wait, and  *)
(* the comment at the end of the accept task).                             *)
StopsIdle ==
  \A d \in Daemons :
    /\ pc[d] = "stop" /\ d \in drained => jobs[d] = 0
    /\ pc[d] \in {"unlink", "leave"} => d \notin serving /\ jobs[d] = 0

(* A duplicate instance does not disturb the listener of a live one: with  *)
(* no launch overlapping another launch or the end of a daemon, one daemon *)
(* at most listens, and the file at the path is its socket.                *)
OneDaemon ==
  ~raced => \A d \in Daemons : Listening(d) =>
              /\ socket = d
              /\ \A e \in Daemons \ {d} : ~Listening(e)

(* A daemon that was told to end, and whose services were restored, stops  *)
(* them and removes its socket, whatever its clients, jobs and commands do;*)
(* its process then ends, unless a call on a blocking thread never returns.*)
DaemonEnds ==
  \A d \in Daemons :
    /\ (pc[d] = "wait" /\ d \in cancel) ~> (pc[d] \in {"leave", "off"})
    /\ (pc[d] = "leave" /\ d \notin busy) ~> (pc[d] = "off")

(* The documentation of PrintJobTracker::drain: it restores admission when *)
(* the window expires before the work is finished.  A tracker that refuses *)
(* jobs has a drain under way or a drain that ended well behind it.        *)
DrainRestoresAdmission ==
  \A d \in Daemons : d \in draining =>
    \/ d \in drained \/ pc[d] \in {"drain", "stop", "unlink", "leave"}
    \/ \E c \in ConnectionsOf(d) : at[c] = "draining"
=============================================================================
