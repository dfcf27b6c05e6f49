----------------------------- MODULE JobTracker -----------------------------
(***************************************************************************)
(* The in-flight print job tracker (application/job_tracker.rs) shared by  *)
(* the client proxy and the sharing endpoint.  Every IPP request holds a   *)
(* RequestLease, promoted to a Print job once its operation is decoded.    *)
(* Two kinds of caller wait for the leases to go:                          *)
(*   - drainers, in the daemon: `drain' calls over the control socket;     *)
(*   - the desktop's update worker, which polls `try_begin_restart' and    *)
(*     holds a RestartPermit that closes admission.                        *)
(* Every method takes the tracker's lock once, so it is one step; `drain'  *)
(* awaits, and is split where it lets other tasks run.                     *)
(***************************************************************************)
EXTENDS Naturals, FiniteSets

CONSTANTS
  Leases,    \* concurrent requests; a lease is reused once it is dropped
  Drainers,  \* concurrent `drain' calls of the daemon
  Workers    \* update workers of the desktop application

ASSUME LeasesAssumption == IsFiniteSet(Leases)

VARIABLES
  lease,           \* [Leases -> "none", "request" or "job"]
  activeJobs,      \* TrackerState::active_jobs
  activeRequests,  \* TrackerState::active_requests
  accepting,       \* TrackerState::accepting_jobs
  draining,        \* TrackerState::draining
  cooling,         \* last_completed_at is less than DRAIN_COOLDOWN ago
  quiet,           \* last_busy_at is at least QUIET_WINDOW ago
  pc,              \* [Drainers -> where the drain call is, "absent" in the
                   \* desktop application]
  woken,           \* drainers whose `Notified' future is ready
  late,            \* drainers whose deadline has passed
  permits          \* workers holding a RestartPermit

counts    == <<lease, activeJobs, activeRequests>>
timers    == <<cooling, quiet>>
drainVars == <<pc, woken, late>>
vars      == <<lease, activeJobs, activeRequests, accepting, draining,
               cooling, quiet, pc, woken, late, permits>>

Waiting == {"arm", "look", "seen", "waiting"}

(* The desktop application never drains and the daemon has no worker: the  *)
(* process is one or the other from the start.                             *)
IsDesktop == \A d \in Drainers : pc[d] = "absent"

Init ==
  /\ lease = [r \in Leases |-> "none"]
  /\ activeJobs = 0 /\ activeRequests = 0
  /\ accepting = TRUE /\ draining = FALSE
  /\ cooling = FALSE /\ quiet = FALSE
  /\ \E place \in {"idle", "absent"} : pc = [d \in Drainers |-> place]
  /\ woken = {} /\ late = {} /\ permits = {}

(* usize::saturating_sub(1).                                               *)
Less(n) == IF n = 0 THEN 0 ELSE n - 1

-----------------------------------------------------------------------------
(* Leases.                                                                 *)

(* try_acquire_request: refused only while a permit is held; a draining    *)
(* tracker still lets status queries and Send-Document through.            *)
TryAcquireRequest(r) ==
  /\ lease[r] = "none"
  /\ accepting
  /\ lease' = [lease EXCEPT ![r] = "request"]
  /\ activeRequests' = activeRequests + 1
  /\ UNCHANGED <<activeJobs, accepting, draining, timers, drainVars, permits>>

(* mark_print_job on a request lease; refused, the lease stays a request,  *)
(* and on a lease already promoted it does nothing.                        *)
MarkPrintJob(r) ==
  /\ lease[r] = "request"
  /\ ~draining /\ accepting
  /\ lease' = [lease EXCEPT ![r] = "job"]
  /\ activeRequests' = Less(activeRequests)
  /\ activeJobs' = activeJobs + 1
  /\ quiet' = FALSE
  /\ UNCHANGED <<accepting, draining, cooling, drainVars, permits>>

(* Variant: only drainers already asleep are registered with the Notify.   *)
Armed_Asleep == {d \in Drainers : pc[d] = "waiting"}

(* Drainers registered with drain_notify: enabled before the counters are  *)
(* read.                                                                   *)
Armed == {d \in Drainers : pc[d] \in {"look", "seen", "waiting"}}

(* Drop for RequestLease.  The last job starts the cooldown; the last      *)
(* lease of either kind wakes the armed drainers.                          *)
DropLease(r) ==
  /\ lease[r] # "none"
  /\ lease' = [lease EXCEPT ![r] = "none"]
  /\ IF lease[r] = "job"
       THEN /\ activeJobs' = Less(activeJobs)
            /\ cooling' = (cooling \/ activeJobs' = 0)
            /\ quiet' = (quiet /\ activeJobs' # 0)
            /\ UNCHANGED activeRequests
       ELSE /\ activeRequests' = Less(activeRequests)
            /\ UNCHANGED <<activeJobs, timers>>
  /\ woken' = IF activeJobs' = 0 /\ activeRequests' = 0
                THEN woken \cup Armed ELSE woken
  /\ UNCHANGED <<accepting, draining, pc, late, permits>>

(* Eight seconds, and fifteen minutes, after the last job.                 *)
CoolDown ==
  /\ cooling
  /\ cooling' = FALSE
  /\ UNCHANGED <<counts, accepting, draining, quiet, drainVars, permits>>

QuietWindow ==
  /\ ~quiet /\ ~cooling
  /\ quiet' = TRUE
  /\ UNCHANGED <<counts, accepting, draining, cooling, drainVars, permits>>

(* is_restart_safe and is_idle_for(QUIET_WINDOW).                          *)
IsRestartSafe == activeJobs = 0 /\ activeRequests = 0 /\ ~cooling
IsIdleForQuietWindow == activeJobs = 0 /\ quiet

-----------------------------------------------------------------------------
(* drain.                                                                  *)

Move(d, to) == pc' = [pc EXCEPT ![d] = to]

(* A control connection may ask again after its drain has ended.           *)
BeginDrain(d) ==
  /\ pc[d] \in {"idle", "drained", "timedOut"}
  /\ draining' = TRUE
  /\ Move(d, "arm")
  /\ late' = late \ {d}
  /\ UNCHANGED <<counts, accepting, timers, woken, permits>>

(* A fresh Notified future, enabled before the counters are read.          *)
ArmDrain(d) ==
  /\ pc[d] = "arm"
  /\ Move(d, "look")
  /\ woken' = woken \ {d}
  /\ UNCHANGED <<counts, accepting, draining, timers, late, permits>>

(* Returning Ok leaves the tracker draining.                               *)
LookDrain(d) ==
  /\ pc[d] = "look"
  /\ Move(d, IF activeJobs = 0 /\ activeRequests = 0
               THEN "drained" ELSE "seen")
  /\ UNCHANGED <<counts, accepting, draining, timers, woken, late, permits>>

(* The lock has been released by the time the select! is polled.           *)
SleepDrain(d) ==
  /\ pc[d] = "seen"
  /\ Move(d, "waiting")
  /\ UNCHANGED <<counts, accepting, draining, timers, woken, late, permits>>

(* The two branches of the select!.                                        *)
WakeDrain(d) ==
  /\ pc[d] = "waiting" /\ d \in woken
  /\ Move(d, "arm")
  /\ UNCHANGED <<counts, accepting, draining, timers, woken, late, permits>>

(* cancel_drain and the timeout error.                                     *)
DrainTimeout(d) ==
  /\ pc[d] = "waiting" /\ d \in late
  /\ Move(d, "timedOut")
  /\ draining' = FALSE
  /\ accepting' = TRUE
  /\ UNCHANGED <<counts, timers, woken, late, permits>>

(* The deadline is fixed when drain is called.                             *)
Deadline(d) ==
  /\ pc[d] \in Waiting /\ d \notin late
  /\ late' = late \cup {d}
  /\ UNCHANGED <<counts, accepting, draining, timers, pc, woken, permits>>

-----------------------------------------------------------------------------
(* RestartPermit.                                                          *)

(* Variant: provisional requests do not hold back a restart.               *)
TryBeginRestart_IgnoresRequests(w) ==
  /\ accepting /\ activeJobs = 0 /\ ~cooling
  /\ accepting' = FALSE
  /\ permits' = permits \cup {w}
  /\ UNCHANGED <<counts, draining, timers, drainVars>>

TryBeginRestart(w) ==
  /\ accepting /\ IsRestartSafe
  /\ accepting' = FALSE
  /\ permits' = permits \cup {w}
  /\ UNCHANGED <<counts, draining, timers, drainVars>>

(* Drop for RestartPermit.                                                 *)
DropPermit(w) ==
  /\ w \in permits
  /\ permits' = permits \ {w}
  /\ accepting' = TRUE
  /\ UNCHANGED <<counts, draining, timers, drainVars>>

-----------------------------------------------------------------------------
LeaseStep(r) == TryAcquireRequest(r) \/ MarkPrintJob(r) \/ DropLease(r)

DrainStep(d) == ArmDrain(d) \/ LookDrain(d) \/ SleepDrain(d) \/ WakeDrain(d)

Next ==
  \/ \E r \in Leases : LeaseStep(r)
  \/ CoolDown \/ QuietWindow
  \/ \E d \in Drainers :
       BeginDrain(d) \/ DrainStep(d) \/ DrainTimeout(d) \/ Deadline(d)
  \/ IsDesktop /\ \E w \in Workers : TryBeginRestart(w) \/ DropPermit(w)

(* A runnable drain runs, time passes, and a select! that finds both       *)
(* branches ready picks each of them again and again (tokio starts at a    *)
(* random branch).  Nothing makes a request finish.                        *)
Fairness ==
  \A d \in Drainers :
    WF_vars(DrainStep(d)) /\ WF_vars(Deadline(d)) /\ SF_vars(DrainTimeout(d))

Spec == Init /\ [][Next]_vars /\ Fairness

-----------------------------------------------------------------------------
(* Properties.                                                             *)

FlagsOK ==
  /\ accepting \in BOOLEAN /\ draining \in BOOLEAN
  /\ cooling \in BOOLEAN /\ quiet \in BOOLEAN

(* The shape of the state (TrackerState and the drain calls).              *)
TypeOK ==
  /\ FlagsOK
  /\ lease \in [Leases -> {"none", "request", "job"}]
  /\ activeJobs \in Nat /\ activeRequests \in Nat
  /\ pc \in [Drainers ->
               Waiting \cup {"idle", "absent", "drained", "timedOut"}]
  /\ woken \in SUBSET Drainers /\ late \in SUBSET Drainers
  /\ permits \in SUBSET Workers

Holding(k) == {r \in Leases : lease[r] = k}

(* The counters are the leases: however requests are admitted, promoted,   *)
(* refused and dropped, no lease is counted twice or given back twice, so  *)
(* the saturating subtractions in promote_request and release never hide   *)
(* a miscount.                                                             *)
CountsLeases ==
  /\ activeRequests = Cardinality(Holding("request"))
  /\ activeJobs = Cardinality(Holding("job"))

(* A drain that goes to sleep has something to wait for: a release between *)
(* its read of the counters and its sleep wakes it (drain's enable()       *)
(* before the read).                                                       *)
NoLostWakeup ==
  \A d \in Drainers :
    pc[d] \in {"seen", "waiting"} /\ d \notin woken =>
      activeJobs + activeRequests > 0

(* While try_begin_restart's permit is held no request is being decoded    *)
(* and no job is in flight, and admission is closed.                       *)
RestartExclusive ==
  permits # {} => ~accepting /\ \A r \in Leases : lease[r] = "none"

(* try_begin_restart is atomic: two callers never both hold a permit.      *)
OnePermit == \A v, w \in permits : v = w

(* begin_drain: once a drain has reported success no new Print job is      *)
(* admitted.                                                               *)
DrainHolds ==
  \A d \in Drainers : pc[d] = "drained" => Holding("job") = {}

=============================================================================
