---------------------------- MODULE UpdateRestart ----------------------------
(***************************************************************************)
(* The desktop's self-update: the UpdateCoordinator                        *)
(* (application/updater.rs), its background checker and restart worker     *)
(* (lib.rs, start_update_workers), the user's clicks, and the job tracker  *)
(* they share with the print services.                                     *)
(*                                                                         *)
(* Actors are operating-system threads, so code between two locks          *)
(* interleaves even where nothing is awaited: request_restart reads the    *)
(* state under one lock and writes it under another, and is two steps.     *)
(***************************************************************************)
EXTENDS Naturals, FiniteSets

CONSTANTS
  Leases,      \* concurrent IPP requests
  Checkers,    \* callers of check: the background loop and user commands
  Background,  \* the checker that reports no errors
  Requesters,  \* callers of apply_update_and_restart
  Worker,      \* the restart worker
  NoChecker    \* a free check gate

ASSUME LeasesFinite        == IsFiniteSet(Leases)
ASSUME NoCheckerAssumption == NoChecker \notin Checkers
ASSUME WorkerAssumption    == Worker \notin Requesters

VARIABLES
  lease, activeJobs, activeRequests, accepting, draining, cooling, quiet,
  pc, woken, late, permits,  \* JobTracker's variables
  upd,      \* UpdateState; "Requested" is Ready with restart_requested
  pkg,      \* a downloaded package is stored
  waiting,  \* waiting_for_jobs
  gate,     \* the holder of check_gate
  cpc,      \* [Checkers -> where the check is]
  pending,  \* [actors -> the state request_restart is about to write]
  wpc       \* where the restart worker is

(* The desktop application: no drain calls.                                *)
Jobs == INSTANCE JobTracker WITH Drainers <- {}, Workers <- {Worker}

jobVars    == <<lease, activeJobs, activeRequests, accepting, draining,
                cooling, quiet, pc, woken, late, permits>>
statusVars == <<upd, pkg, waiting>>
checkVars  == <<gate, cpc>>
updateVars == <<upd, pkg, waiting, gate, cpc, pending, wpc>>
vars == <<lease, activeJobs, activeRequests, accepting, draining, cooling,
          quiet, pc, woken, late, permits,
          upd, pkg, waiting, gate, cpc, pending, wpc>>

Actors == Requesters \cup {Worker}

UpdateState == {"Idle", "Checking", "Available", "Downloading", "Ready",
                "Requested", "Failed"}

Init ==
  /\ Jobs!Init
  /\ upd = "Idle" /\ pkg = FALSE /\ waiting = FALSE
  /\ gate = NoChecker
  /\ cpc = [c \in Checkers |-> "idle"]
  /\ pending = [a \in Actors |-> "none"]
  /\ wpc = "poll"

(* The worker's process image is replaced once the update is installed.    *)
Alive == wpc # "restarted"

SetState(next, wait) == upd' = next /\ waiting' = wait

-----------------------------------------------------------------------------
(* The print services and the clock.                                       *)

JobStep ==
  /\ Alive
  /\ \/ \E r \in Leases : Jobs!LeaseStep(r)
     \/ Jobs!QuietWindow
  /\ UNCHANGED updateVars

CoolDown == Alive /\ Jobs!CoolDown /\ UNCHANGED updateVars

-----------------------------------------------------------------------------
(* check: one at a time behind check_gate.                                 *)

CheckAt(c, from, to) == Alive /\ cpc[c] = from /\ cpc' = [cpc EXCEPT ![c] = to]

CheckLock(c) ==
  /\ gate = NoChecker
  /\ CheckAt(c, "idle", "decide")
  /\ gate' = c
  /\ UNCHANGED <<jobVars, statusVars, pending, wpc>>

(* A downloaded update is kept.                                            *)
CheckSkips(c) ==
  /\ upd \in {"Ready", "Requested"}
  /\ CheckAt(c, "decide", "idle")
  /\ gate' = NoChecker
  /\ UNCHANGED <<jobVars, statusVars, pending, wpc>>

CheckGoesOn(c) ==
  /\ upd \notin {"Ready", "Requested"}
  /\ CheckAt(c, "decide", "begin")
  /\ UNCHANGED <<jobVars, statusVars, gate, pending, wpc>>

CheckBegins(c) ==
  /\ CheckAt(c, "begin", "asking")
  /\ SetState("Checking", FALSE)
  /\ UNCHANGED <<jobVars, pkg, gate, pending, wpc>>

CheckFinds(c) ==
  /\ CheckAt(c, "asking", "found")
  /\ SetState("Available", FALSE)
  /\ UNCHANGED <<jobVars, pkg, gate, pending, wpc>>

CheckDownloads(c) ==
  /\ CheckAt(c, "found", "downloading")
  /\ SetState("Downloading", FALSE)
  /\ UNCHANGED <<jobVars, pkg, gate, pending, wpc>>

(* Variant: the package is dropped once it is downloaded.                  *)
CheckStores_Drops(c) ==
  /\ CheckAt(c, "downloading", "stored")
  /\ UNCHANGED <<jobVars, statusVars, gate, pending, wpc>>

CheckStores(c) ==
  /\ CheckAt(c, "downloading", "stored")
  /\ pkg' = TRUE
  /\ UNCHANGED <<jobVars, upd, waiting, gate, pending, wpc>>

CheckPublishes(c) ==
  /\ CheckAt(c, "stored", "idle")
  /\ SetState("Ready", FALSE)
  /\ gate' = NoChecker
  /\ UNCHANGED <<jobVars, pkg, pending, wpc>>

(* Nothing newer, or an error of the background check.                     *)
CheckClears(c) ==
  /\ \/ CheckAt(c, "asking", "cleared")
     \/ c = Background /\ CheckAt(c, "downloading", "cleared")
  /\ pkg' = FALSE
  /\ UNCHANGED <<jobVars, upd, waiting, gate, pending, wpc>>

CheckIdles(c) ==
  /\ CheckAt(c, "cleared", "idle")
  /\ SetState("Idle", FALSE)
  /\ gate' = NoChecker
  /\ UNCHANGED <<jobVars, pkg, pending, wpc>>

(* An error of a manual check is shown.                                    *)
CheckFails(c) ==
  /\ c # Background
  /\ CheckAt(c, "asking", "idle") \/ CheckAt(c, "downloading", "idle")
  /\ SetState("Failed", FALSE)
  /\ gate' = NoChecker
  /\ UNCHANGED <<jobVars, pkg, pending, wpc>>

-----------------------------------------------------------------------------
(* request_restart, by a click or by the worker on behalf of a hidden      *)
(* window.                                                                 *)

RestartIntent == IF upd = "Ready" THEN "Requested" ELSE upd

RequestRead(a) ==
  /\ Alive
  /\ pending[a] = "none"
  /\ a = Worker => wpc = "auto"
  /\ pending' = [pending EXCEPT ![a] = RestartIntent]
  /\ UNCHANGED <<jobVars, statusVars, checkVars, wpc>>

(* Whatever was read is written back.                                      *)
RequestWrite(a) ==
  /\ Alive
  /\ pending[a] # "none"
  /\ SetState(pending[a], ~Jobs!IsRestartSafe)
  /\ pending' = [pending EXCEPT ![a] = "none"]
  /\ wpc' = IF a = Worker THEN "decide" ELSE wpc
  /\ UNCHANGED <<jobVars, pkg, checkVars>>

-----------------------------------------------------------------------------
(* The restart worker.                                                     *)

WorkAt(from, to) == wpc = from /\ wpc' = to

(* request_auto_restart_if_idle of a hidden window.                        *)
PollHidden ==
  /\ WorkAt("poll", "auto")
  /\ Jobs!IsIdleForQuietWindow /\ Jobs!IsRestartSafe
  /\ upd = "Ready"
  /\ UNCHANGED <<jobVars, statusVars, checkVars, pending>>

PollVisible ==
  /\ WorkAt("poll", "decide")
  /\ UNCHANGED <<jobVars, statusVars, checkVars, pending>>

Decide ==
  /\ WorkAt("decide", IF upd = "Requested" THEN "reserve" ELSE "poll")
  /\ UNCHANGED <<jobVars, statusVars, checkVars, pending>>

(* Variant: the worker only looks whether a restart is safe.               *)
Reserve_Looks ==
  /\ WorkAt("reserve", "stopping")
  /\ Jobs!IsRestartSafe
  /\ UNCHANGED <<jobVars, statusVars, checkVars, pending>>

Reserve ==
  /\ WorkAt("reserve", "stopping")
  /\ Jobs!TryBeginRestart(Worker)
  /\ UNCHANGED <<statusVars, checkVars, pending>>

(* Variant: the worker returns where it should try again.                  *)
ReserveBusy_Returns ==
  /\ WorkAt("reserve", "returned")
  /\ ~(accepting /\ Jobs!IsRestartSafe)
  /\ UNCHANGED <<jobVars, statusVars, checkVars, pending>>

ReserveBusy ==
  /\ WorkAt("reserve", "poll")
  /\ ~(accepting /\ Jobs!IsRestartSafe)
  /\ UNCHANGED <<jobVars, statusVars, checkVars, pending>>

(* runtime.shutdown(), with either outcome.                                *)
StopServices ==
  /\ WorkAt("stopping", "install") \/ WorkAt("stopping", "giveUp")
  /\ UNCHANGED <<jobVars, statusVars, checkVars, pending>>

(* install_if_requested: the restart must still be wanted and safe...      *)
InstallCheck ==
  /\ IF upd = "Requested" /\ Jobs!IsRestartSafe
       THEN WorkAt("install", "take") /\ UNCHANGED waiting
       ELSE WorkAt("install", "giveUp") /\ waiting' = (upd = "Requested")
  /\ UNCHANGED <<jobVars, upd, pkg, checkVars, pending>>

(* ...and the package is taken under the lock that looks again.            *)
TakePackage ==
  /\ IF upd = "Requested" /\ pkg
       THEN WorkAt("take", "installing") /\ waiting' = FALSE
       ELSE WorkAt("take", "giveUp") /\ UNCHANGED waiting
  /\ pkg' = (pkg /\ upd # "Requested")
  /\ UNCHANGED <<jobVars, upd, checkVars, pending>>

Install ==
  /\ WorkAt("installing", "restarted") \/ WorkAt("installing", "giveUp")
  /\ UNCHANGED <<jobVars, statusVars, checkVars, pending>>

(* fail: clear_package and set_state.                                      *)
FailClears ==
  /\ WorkAt("giveUp", "fail")
  /\ pkg' = FALSE
  /\ UNCHANGED <<jobVars, upd, waiting, checkVars, pending>>

FailPublishes ==
  /\ WorkAt("fail", "restore")
  /\ SetState("Failed", FALSE)
  /\ UNCHANGED <<jobVars, pkg, checkVars, pending>>

(* Variant: the permit outlives the failed attempt.                        *)
Restore_KeepsPermit ==
  /\ WorkAt("restore", "poll")
  /\ UNCHANGED <<jobVars, statusVars, checkVars, pending>>

(* restore_services_after_failed_update, then the permit is dropped.       *)
Restore ==
  /\ WorkAt("restore", "poll")
  /\ Jobs!DropPermit(Worker)
  /\ UNCHANGED <<statusVars, checkVars, pending>>

-----------------------------------------------------------------------------
CheckStep(c) ==
  \/ CheckLock(c) \/ CheckSkips(c) \/ CheckGoesOn(c) \/ CheckBegins(c)
  \/ CheckFinds(c) \/ CheckDownloads(c) \/ CheckStores(c) \/ CheckPublishes(c)
  \/ CheckClears(c) \/ CheckIdles(c) \/ CheckFails(c)

WorkerStep ==
  \/ PollHidden \/ PollVisible \/ Decide \/ Reserve \/ ReserveBusy
  \/ StopServices \/ InstallCheck \/ TakePackage
  \/ FailClears \/ FailPublishes
  \/ RequestRead(Worker) \/ RequestWrite(Worker)

(* The two calls that may wait for ever, the permit held: the platform's   *)
(* installer, and start_autostart, whose prepare shows a UAC prompt or     *)
(* runs a system command, neither with a time limit.                       *)
WorkerAnswered == Install \/ Restore
WorkerAsks     == wpc \in {"installing", "restore"}

Next ==
  \/ JobStep \/ CoolDown
  \/ \E c \in Checkers : CheckStep(c)
  \/ \E a \in Requesters : RequestRead(a) \/ RequestWrite(a)
  \/ WorkerStep \/ WorkerAnswered

(* The worker is a spawned loop: its timer fires and shutdown bounds its   *)
(* joins.  Time passes.  Nothing makes a print job, a check or a click     *)
(* happen, or the installer and the restart of the services return.        *)
Spec == Init /\ [][Next]_vars /\ WF_vars(WorkerStep) /\ WF_vars(CoolDown)

-----------------------------------------------------------------------------
(* Properties.                                                             *)

(* The shape of the state (CoordinatorState and the threads' positions).   *)
TypeOK ==
  /\ Jobs!TypeOK
  /\ upd \in UpdateState /\ pkg \in BOOLEAN /\ waiting \in BOOLEAN
  /\ gate \in Checkers \cup {NoChecker}
  /\ cpc \in [Checkers -> {"idle", "decide", "begin", "asking", "found",
                           "downloading", "stored", "cleared"}]
  /\ pending \in [Actors -> UpdateState \cup {"none"}]
  /\ wpc \in {"poll", "auto", "decide", "reserve", "stopping", "install",
              "take", "installing", "giveUp", "fail", "restore", "restarted"}

Reserved == {"stopping", "install", "take", "installing", "giveUp", "fail",
             "restore", "restarted"}

(* From the moment the worker stops the services until the update is       *)
(* installed or the services are back, no request is decoded and no job is *)
(* in flight (ADR 0012, section 2; the permit of start_update_workers).    *)
InstallExclusive ==
  wpc \in Reserved => \A r \in Leases : lease[r] = "none"

(* The permit is held exactly along the worker's critical section: no      *)
(* path through it, failed or not, leaks it or drops it early.             *)
PermitMatchesWorker == permits = IF wpc \in Reserved THEN {Worker} ELSE {}

(* What the window shows of an update is real: an update offered for       *)
(* restart is stored until the worker takes it, the state says that a      *)
(* check runs only while one does, and the services are stopped only for   *)
(* a package that is there (UpdateCoordinator::check, install_if_requested,*)
(* fail).  Only without clicks: a click writes back the state it read.     *)
ReadyHasPackage ==
  upd \in {"Ready", "Requested"} =>
    pkg \/ wpc \in {"installing", "giveUp", "fail", "restarted"}
CheckIsReal ==
  upd \in {"Checking", "Available", "Downloading"} => gate # NoChecker
StopsForPackage == wpc = "stopping" => pkg
StatusIsReal == ReadyHasPackage /\ CheckIsReal /\ StopsForPackage

(* No installation and no restart of the services waits for ever.          *)
PromptsAnswered == []<>~WorkerAsks

(* Admission is not closed for ever: it reopens or the process restarts,   *)
(* except that the worker holds the permit while it waits for an installer *)
(* or a prompt that never answers (start_update_workers).                  *)
AdmissionReturns == PromptsAnswered => (~accepting ~> (accepting \/ ~Alive))

(* If print traffic ends, a queued restart is carried out or reported,     *)
(* with the same exception.                                                *)
UpdateApplied ==
  PromptsAnswered /\ <>[](\A r \in Leases : lease[r] = "none")
    => (upd = "Requested" ~> (upd # "Requested" \/ ~Alive))

(* The updater uses the tracker only as the tracker's own specification    *)
(* allows.                                                                 *)
TrackerRespected == Jobs!Init /\ [][Jobs!Next]_(Jobs!vars)
=============================================================================
