------------------------ MODULE UpdateRestartProofs ------------------------
(* Theorems about UpdateRestart.  The tracker's own theorems are reused:   *)
(* every step of the updater is a step of the tracker or leaves it alone.  *)
EXTENDS MCUpdateRestart, TLAPS

Tracker == INSTANCE JobTrackerProofs WITH Drainers <- {}, Workers <- {Worker}

USE DEF vars, jobVars, statusVars, checkVars, updateVars

-----------------------------------------------------------------------------
(* The updater as a user of the tracker.                                   *)

LEMMA StepsOfTracker == [Next]_vars => [Jobs!Next]_(Jobs!vars)
<1> SUFFICES ASSUME [Next]_vars PROVE Jobs!Next \/ UNCHANGED Jobs!vars
  OBVIOUS
<1> USE DEF Jobs!vars
<1>1. CASE JobStep
  BY <1>1 DEF JobStep, Jobs!Next
<1>2. CASE CoolDown
  BY <1>2 DEF CoolDown, Jobs!Next
<1>3. CASE Reserve
  BY <1>3 DEF Reserve, Jobs!Next, Jobs!IsDesktop
<1>4. CASE Restore
  BY <1>4 DEF Restore, Jobs!Next, Jobs!IsDesktop
<1>5. CASE UNCHANGED jobVars
  BY <1>5
<1>6. ASSUME NEW c \in Checkers, CheckStep(c) PROVE UNCHANGED jobVars
  BY <1>6 DEF CheckStep, CheckLock, CheckSkips, CheckGoesOn, CheckBegins,
              CheckFinds, CheckDownloads, CheckStores, CheckPublishes,
              CheckClears, CheckIdles, CheckFails
<1>7. ASSUME NEW a, RequestRead(a) \/ RequestWrite(a) PROVE UNCHANGED jobVars
  BY <1>7 DEF RequestRead, RequestWrite
<1>8. CASE PollHidden \/ PollVisible \/ Decide \/ ReserveBusy \/ StopServices
           \/ InstallCheck \/ TakePackage \/ Install \/ FailClears
           \/ FailPublishes
  BY <1>8 DEF PollHidden, PollVisible, Decide, ReserveBusy, StopServices,
              InstallCheck, TakePackage, Install, FailClears, FailPublishes
<1>9. QED
  BY <1>1, <1>2, <1>3, <1>4, <1>5, <1>6, <1>7, <1>8 DEF Next, WorkerStep, WorkerAnswered

LEMMA InitOfTracker == Init => Jobs!Init
BY DEF Init

(* Every behaviour of the updater is one the tracker's specification       *)
(* allows: start_update_workers and the print services reach its counters  *)
(* only through its operations.                                            *)
THEOREM UsesTracker == Spec => TrackerRespected
BY InitOfTracker, StepsOfTracker, PTL DEF Spec, TrackerRespected

-----------------------------------------------------------------------------
(* Calls of request_restart.                                               *)

CallInv ==
  /\ upd \in UpdateState
  /\ pending \in [Actors -> UpdateState \cup {"none"}]
  /\ pending[Worker] # "none" => wpc = "auto"

LEMMA InitCalls == Init => CallInv
BY DEF Init, CallInv, UpdateState, Actors

LEMMA StepCalls == CallInv /\ [Next]_vars => CallInv'
<1> SUFFICES ASSUME CallInv, [Next]_vars PROVE CallInv'
  OBVIOUS
<1> USE DEF CallInv, UpdateState, Actors, WorkAt, SetState
<1>1. CASE JobStep \/ CoolDown
  BY <1>1 DEF JobStep, CoolDown
<1>2. ASSUME NEW c \in Checkers, CheckStep(c) PROVE CallInv'
  BY <1>2 DEF CheckStep, CheckLock, CheckSkips, CheckGoesOn, CheckBegins,
              CheckFinds, CheckDownloads, CheckStores, CheckPublishes,
              CheckClears, CheckIdles, CheckFails
<1>3. ASSUME NEW a \in Actors, RequestRead(a) PROVE CallInv'
  BY <1>3 DEF RequestRead, RestartIntent
<1>4. ASSUME NEW a \in Actors, RequestWrite(a) PROVE CallInv'
  BY <1>4, WorkerAssumption DEF RequestWrite
<1>5. CASE PollHidden \/ PollVisible \/ Decide \/ Reserve \/ ReserveBusy
  BY <1>5 DEF PollHidden, PollVisible, Decide, Reserve, ReserveBusy
<1>6. CASE StopServices \/ InstallCheck \/ TakePackage \/ Install
  BY <1>6 DEF StopServices, InstallCheck, TakePackage, Install
<1>7. CASE FailClears \/ FailPublishes \/ Restore
  BY <1>7 DEF FailClears, FailPublishes, Restore
<1>8. CASE UNCHANGED vars
  BY <1>8
<1>9. QED
  BY <1>1, <1>2, <1>3, <1>4, <1>5, <1>6, <1>7, <1>8 DEF Next, WorkerStep, WorkerAnswered

-----------------------------------------------------------------------------
(* Where the permit is.                                                    *)

LEMMA InitPermit == Init => PermitMatchesWorker
BY DEF Init, Jobs!Init, PermitMatchesWorker, Reserved

LEMMA StepPermit ==
  CallInv /\ PermitMatchesWorker /\ [Next]_vars => PermitMatchesWorker'
<1> SUFFICES ASSUME CallInv, PermitMatchesWorker, [Next]_vars
             PROVE  PermitMatchesWorker'
  OBVIOUS
<1> USE DEF PermitMatchesWorker, Reserved, WorkAt
<1>1. CASE JobStep
  BY <1>1 DEF JobStep, Jobs!LeaseStep, Jobs!TryAcquireRequest,
              Jobs!MarkPrintJob, Jobs!DropLease, Jobs!QuietWindow
<1>2. CASE CoolDown
  BY <1>2 DEF CoolDown, Jobs!CoolDown
<1>3. ASSUME NEW c \in Checkers, CheckStep(c) PROVE PermitMatchesWorker'
  BY <1>3 DEF CheckStep, CheckLock, CheckSkips, CheckGoesOn, CheckBegins,
              CheckFinds, CheckDownloads, CheckStores, CheckPublishes,
              CheckClears, CheckIdles, CheckFails
<1>4. ASSUME NEW a, RequestRead(a) PROVE PermitMatchesWorker'
  BY <1>4 DEF RequestRead
<1>5. ASSUME NEW a \in Requesters, RequestWrite(a) PROVE PermitMatchesWorker'
  BY <1>5, WorkerAssumption DEF RequestWrite
<1>6. CASE PollHidden \/ PollVisible \/ Decide \/ ReserveBusy
  BY <1>6 DEF PollHidden, PollVisible, Decide, ReserveBusy
<1>7. CASE Reserve
  BY <1>7 DEF Reserve, Jobs!TryBeginRestart
<1>8. CASE StopServices \/ InstallCheck \/ TakePackage \/ Install
  BY <1>8 DEF StopServices, InstallCheck, TakePackage, Install
<1>9. CASE FailClears \/ FailPublishes
  BY <1>9 DEF FailClears, FailPublishes
<1>10. CASE Restore
  BY <1>10 DEF Restore, Jobs!DropPermit
<1>11. CASE UNCHANGED vars
  BY <1>11
<1>12. CASE RequestWrite(Worker)
  BY <1>12 DEF RequestWrite, CallInv
<1>13. QED
  BY <1>1, <1>2, <1>3, <1>4, <1>5, <1>6, <1>7, <1>8, <1>9, <1>10, <1>11,
     <1>12 DEF Next, WorkerStep, WorkerAnswered

(* The permit is held exactly along the worker's critical section.         *)
THEOREM PermitFollowsWorker == Spec => []PermitMatchesWorker
BY InitCalls, StepCalls, InitPermit, StepPermit, PTL DEF Spec

-----------------------------------------------------------------------------
(* Nothing prints while the update installs.                               *)

JobsInv ==
  Tracker!TypeOK /\ Tracker!CountsLeases /\ Tracker!PermitInv

(* The tracker's assumption on its requests.                               *)
LEMMA TrackerLeases == Tracker!IsFiniteSet(Leases)
BY LeasesFinite DEF Tracker!IsFiniteSet, IsFiniteSet

(* The tracker reached through its proofs is the tracker.                  *)
LEMMA SameInit == Jobs!Init <=> Tracker!Init
BY DEF Jobs!Init, Tracker!Init

LEMMA SameLeaseStep ==
  ASSUME NEW r PROVE Jobs!LeaseStep(r) => Tracker!LeaseStep(r)
<1>1. Jobs!TryAcquireRequest(r) => Tracker!TryAcquireRequest(r)
  BY Zenon DEF Jobs!TryAcquireRequest, Tracker!TryAcquireRequest,
     Jobs!timers, Tracker!timers, Jobs!drainVars, Tracker!drainVars
<1>2. Jobs!MarkPrintJob(r) => Tracker!MarkPrintJob(r)
  BY Zenon DEF Jobs!MarkPrintJob, Tracker!MarkPrintJob, Jobs!Less,
     Tracker!Less, Jobs!drainVars, Tracker!drainVars
<1>3. Jobs!DropLease(r) => Tracker!DropLease(r)
  BY Zenon DEF Jobs!DropLease, Tracker!DropLease, Jobs!Less, Tracker!Less,
     Jobs!Armed, Tracker!Armed, Jobs!timers, Tracker!timers
<1>4. QED
  BY <1>1, <1>2, <1>3 DEF Jobs!LeaseStep, Tracker!LeaseStep

LEMMA SameNext == Jobs!Next => Tracker!Next
<1>1. Jobs!CoolDown => Tracker!CoolDown
  BY Zenon DEF Jobs!CoolDown, Tracker!CoolDown, Jobs!counts, Tracker!counts,
     Jobs!drainVars, Tracker!drainVars
<1>2. Jobs!QuietWindow => Tracker!QuietWindow
  BY Zenon DEF Jobs!QuietWindow, Tracker!QuietWindow, Jobs!counts,
     Tracker!counts, Jobs!drainVars, Tracker!drainVars
<1>3. ASSUME NEW w
      PROVE  Jobs!TryBeginRestart(w) => Tracker!TryBeginRestart(w)
  BY Zenon DEF Jobs!TryBeginRestart, Tracker!TryBeginRestart,
     Jobs!IsRestartSafe, Tracker!IsRestartSafe, Jobs!counts, Tracker!counts,
     Jobs!timers, Tracker!timers, Jobs!drainVars, Tracker!drainVars
<1>4. ASSUME NEW w PROVE Jobs!DropPermit(w) => Tracker!DropPermit(w)
  BY Zenon DEF Jobs!DropPermit, Tracker!DropPermit, Jobs!counts,
     Tracker!counts, Jobs!timers, Tracker!timers, Jobs!drainVars,
     Tracker!drainVars
<1>5. QED
  BY <1>1, <1>2, <1>3, <1>4, SameLeaseStep
  DEF Jobs!Next, Tracker!Next, Jobs!IsDesktop, Tracker!IsDesktop

LEMMA InitJobs == Init => JobsInv
<1>1. Init => Tracker!Init
  BY InitOfTracker, SameInit
<1>2. Tracker!Init => Tracker!TypeOK
  BY TrackerLeases, Tracker!InitTyped
<1>3. Tracker!Init => Tracker!CountsLeases
  BY TrackerLeases, Tracker!InitCounts
<1>4. Tracker!Init => Tracker!PermitInv
  BY TrackerLeases, Tracker!InitPermits
<1>5. QED
  BY <1>1, <1>2, <1>3, <1>4 DEF JobsInv

LEMMA StepJobs == JobsInv /\ [Next]_vars => JobsInv'
<1>1. [Jobs!Next]_(Jobs!vars) => [Tracker!Next]_(Tracker!vars)
  BY SameNext DEF Jobs!vars, Tracker!vars
<1>2. Tracker!TypeOK /\ [Tracker!Next]_(Tracker!vars) => Tracker!TypeOK'
  BY TrackerLeases, Tracker!StepTyped
<1>3. Tracker!TypeOK /\ Tracker!CountsLeases /\ [Tracker!Next]_(Tracker!vars)
        => Tracker!CountsLeases'
  BY TrackerLeases, Tracker!StepCounts
<1>4. Tracker!TypeOK /\ Tracker!CountsLeases /\ Tracker!PermitInv
        /\ [Tracker!Next]_(Tracker!vars) => Tracker!PermitInv'
  BY TrackerLeases, Tracker!StepPermits
<1>5. QED
  BY <1>1, <1>2, <1>3, <1>4, StepsOfTracker DEF JobsInv

(* ADR 0012's promise for every number of requests, checks and clicks: the *)
(* services stop and the update installs with no request or job alive.     *)
THEOREM NothingPrintsDuringInstall == Spec => []InstallExclusive
<1>1. JobsInv /\ PermitMatchesWorker => InstallExclusive
  BY DEF JobsInv, PermitMatchesWorker, InstallExclusive, Tracker!PermitInv,
         Tracker!RestartExclusive
<1>2. QED
  BY InitJobs, StepJobs, InitCalls, StepCalls, InitPermit, StepPermit, <1>1,
     PTL DEF Spec

-----------------------------------------------------------------------------
(* Without clicks.                                                         *)

(* A check that has looked at the state and goes on; it will write the     *)
(* state without looking again.                                            *)
Looked  == {"begin", "asking", "found", "downloading", "stored", "cleared"}
Shown   == {"Checking", "Available", "Downloading"}
Offered == {"Ready", "Requested"}

CheckTyped ==
  /\ pkg \in BOOLEAN
  /\ gate \in Checkers \cup {NoChecker}
  /\ cpc \in [Checkers -> {"idle", "decide"} \cup Looked]

(* check_gate: one check at a time.                                        *)
OneCheck == \A c \in Checkers : cpc[c] # "idle" => gate = c

(* No click is on its way, and a hidden window's request writes what the   *)
(* worker saw.                                                             *)
NoClicks ==
  /\ \A a \in Requesters : pending[a] = "none"
  /\ pending[Worker] \in {"none", "Requested"}

(* A check and an offered update exclude each other.                       *)
ChecksMove ==
  /\ \A c \in Checkers : cpc[c] \in Looked => upd \notin Offered
  /\ \A c \in Checkers : cpc[c] = "stored" => pkg
  /\ upd \in Shown => \E c \in Checkers : cpc[c] \in Looked

(* The offer is still there when the worker acts on it.                    *)
WorkerActs ==
  /\ wpc = "auto" => upd = "Ready"
  /\ wpc \in {"reserve", "stopping", "install", "take", "installing", "giveUp",
              "fail", "restarted"} => upd = "Requested"

QuietInv ==
  ~clicks => CheckTyped /\ OneCheck /\ NoClicks /\ ChecksMove /\ WorkerActs
               /\ ReadyHasPackage

LEMMA InitQuiet == MCInit => QuietInv
<1> SUFFICES ASSUME MCInit PROVE QuietInv
  OBVIOUS
<1> USE DEF MCInit, Init, Actors
<1>1. CheckTyped /\ OneCheck
  BY DEF CheckTyped, OneCheck
<1>2. NoClicks /\ ChecksMove /\ WorkerActs /\ ReadyHasPackage
  BY DEF NoClicks, ChecksMove, WorkerActs, ReadyHasPackage, Offered, Shown, Looked
<1> QED BY <1>1, <1>2 DEF QuietInv

LEMMA StepQuiet ==
  ASSUME CallInv, QuietInv, MCNext, ~clicks PROVE QuietInv'
<1> USE DEF CallInv, UpdateState, Actors, WorkAt, SetState, CheckAt
<1>0. /\ ~clicks' /\ \A a \in Requesters : pending'[a] = "none"
      /\ CheckTyped /\ OneCheck /\ NoClicks /\ ChecksMove /\ WorkerActs
      /\ ReadyHasPackage
  BY DEF MCNext, QuietInv
<1> USE DEF CheckTyped, OneCheck, NoClicks, ChecksMove, WorkerActs,
            ReadyHasPackage, Offered, Shown, Looked
<1>1. ASSUME UNCHANGED updateVars PROVE QuietInv'
  BY <1>0, <1>1 DEF QuietInv
<1>2. ASSUME NEW c \in Checkers,
             CheckLock(c) \/ CheckSkips(c) \/ CheckGoesOn(c)
      PROVE  QuietInv'
  BY <1>0, <1>2, NoCheckerAssumption
  DEF QuietInv, CheckLock, CheckSkips, CheckGoesOn
<1>3. ASSUME NEW c \in Checkers,
             CheckBegins(c) \/ CheckFinds(c) \/ CheckDownloads(c)
      PROVE  QuietInv'
  BY <1>0, <1>3 DEF QuietInv, CheckBegins, CheckFinds, CheckDownloads
<1>4. ASSUME NEW c \in Checkers, CheckStores(c) \/ CheckPublishes(c) PROVE QuietInv'
  <2>1. CASE CheckStores(c)
    BY <1>0, <2>1 DEF QuietInv, CheckStores
  <2>2. CASE CheckPublishes(c)
    BY <1>0, <2>2 DEF QuietInv, CheckPublishes
  <2> QED BY <1>4, <2>1, <2>2
<1>5. ASSUME NEW c \in Checkers,
             CheckClears(c) \/ CheckIdles(c) \/ CheckFails(c)
      PROVE  QuietInv'
  <2>1. /\ cpc[c] \in Looked /\ gate = c
        /\ \A d \in Checkers \ {c} : cpc[d] = "idle"
    BY <1>0, <1>5 DEF CheckClears, CheckIdles, CheckFails
  <2>2. CASE CheckClears(c)
    <3>1. /\ cpc' = [cpc EXCEPT ![c] = "cleared"] /\ pkg' = FALSE
          /\ UNCHANGED <<upd, gate, pending, wpc>>
      BY <2>2 DEF CheckClears
    <3>2. CheckTyped' /\ OneCheck' /\ NoClicks'
      BY <1>0, <2>1, <3>1
    <3>3. upd \notin Offered
      BY <1>0, <2>1
    <3>4. ChecksMove' /\ WorkerActs' /\ ReadyHasPackage'
      BY <1>0, <2>1, <3>1, <3>3
    <3>5. QED
      BY <3>2, <3>4 DEF QuietInv
  <2>3. CASE CheckIdles(c) \/ CheckFails(c)
    BY <1>0, <2>1, <2>3 DEF QuietInv, CheckIdles, CheckFails
  <2> QED BY <1>5, <2>2, <2>3
<1>6. ASSUME NEW a \in Requesters, RequestRead(a) \/ RequestWrite(a)
      PROVE  QuietInv'
  BY <1>0, <1>6, WorkerAssumption
  DEF QuietInv, RequestRead, RequestWrite, RestartIntent
<1>7. ASSUME RequestRead(Worker) \/ RequestWrite(Worker) PROVE QuietInv'
  BY <1>0, <1>7, WorkerAssumption
  DEF QuietInv, RequestRead, RequestWrite, RestartIntent
<1>8. ASSUME PollHidden \/ PollVisible \/ Decide \/ Reserve \/ ReserveBusy
      PROVE  QuietInv'
  BY <1>0, <1>8 DEF QuietInv, PollHidden, PollVisible, Decide, Reserve, ReserveBusy
<1>9. ASSUME StopServices \/ InstallCheck \/ TakePackage \/ Install
      PROVE  QuietInv'
  BY <1>0, <1>9 DEF QuietInv, StopServices, InstallCheck, TakePackage, Install
<1>10. ASSUME FailClears \/ FailPublishes \/ Restore PROVE QuietInv'
  BY <1>0, <1>10 DEF QuietInv, FailClears, FailPublishes, Restore
<1> QED
  BY <1>1, <1>2, <1>3, <1>4, <1>5, <1>6, <1>7, <1>8, <1>9, <1>10
  DEF MCNext, Next, JobStep, CoolDown, CheckStep, WorkerStep, WorkerAnswered

(* A hidden window's update: what is shown of it is real at every step, and*)
(* a queued restart stays queued until the worker reports its failure      *)
(* (request_auto_restart_if_idle, install_if_requested, fail).             *)
THEOREM UnattendedUpdates == MCSpec => UnattendedIsReal
<1> DEFINE Queued == ~clicks /\ upd = "Requested" => upd' = "Requested" \/ wpc = "fail"
<1>1. MCInit => CallInv /\ QuietInv
  BY InitCalls, InitQuiet DEF MCInit
<1>2. CallInv /\ QuietInv /\ [MCNext]_<<vars, clicks>> => CallInv' /\ QuietInv'
  <2> SUFFICES ASSUME CallInv, QuietInv, [MCNext]_<<vars, clicks>>
               PROVE  CallInv' /\ QuietInv'
    OBVIOUS
  <2>1. CallInv'
    BY StepCalls DEF MCNext
  <2>2. CASE MCNext /\ ~clicks
    BY <2>1, <2>2, StepQuiet
  <2>3. CASE MCNext /\ clicks
    BY <2>1, <2>3 DEF MCNext, QuietInv
  <2>4. CASE UNCHANGED <<vars, clicks>>
    BY <2>1, <2>4
    DEF QuietInv, CheckTyped, OneCheck, NoClicks, ChecksMove, WorkerActs,
        ReadyHasPackage
  <2> QED BY <2>2, <2>3, <2>4
<1>3. QuietInv => (~clicks => StatusIsReal)
  BY NoCheckerAssumption
  DEF QuietInv, StatusIsReal, CheckIsReal, StopsForPackage, ReadyHasPackage,
      OneCheck, ChecksMove, WorkerActs, Looked, Shown
<1>4. QuietInv /\ [MCNext]_<<vars, clicks>> => [Queued]_vars
  <2> SUFFICES ASSUME QuietInv, MCNext, ~clicks, upd = "Requested", wpc # "fail"
               PROVE  upd' = "Requested"
    OBVIOUS
  <2> USE DEF SetState, CheckAt, WorkAt
  <2>0. NoClicks /\ \A c \in Checkers : cpc[c] \notin Looked
    BY DEF QuietInv, ChecksMove, Offered
  <2>1. ASSUME NEW c \in Checkers, CheckStep(c) PROVE upd' = "Requested"
    BY <2>0, <2>1
    DEF Looked, CheckStep, CheckLock, CheckSkips, CheckGoesOn, CheckBegins,
        CheckFinds, CheckDownloads, CheckStores, CheckPublishes, CheckClears,
        CheckIdles, CheckFails
  <2>2. ASSUME NEW a \in Actors, RequestRead(a) \/ RequestWrite(a)
        PROVE  upd' = "Requested"
    BY <2>0, <2>2 DEF NoClicks, Actors, RequestRead, RequestWrite
  <2>3. CASE PollHidden \/ PollVisible \/ Decide \/ Reserve \/ ReserveBusy
               \/ StopServices \/ InstallCheck \/ TakePackage \/ Install
               \/ FailClears \/ FailPublishes \/ Restore
    BY <2>3 DEF PollHidden, PollVisible, Decide, Reserve, ReserveBusy,
                StopServices, InstallCheck, TakePackage, Install, FailClears,
                FailPublishes, Restore
  <2>4. CASE JobStep \/ CoolDown
    BY <2>4 DEF JobStep, CoolDown
  <2> QED
    BY <2>1, <2>2, <2>3, <2>4 DEF MCNext, Next, WorkerStep, WorkerAnswered, Actors
<1> QED
  BY <1>1, <1>2, <1>3, <1>4, PTL DEF MCSpec, UnattendedIsReal
=============================================================================
