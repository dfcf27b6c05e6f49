-------------------------- MODULE ServerJobsProofs --------------------------
(* Theorems about the two users of the job tracker, ServerJobs and (at the *)
(* end) ClientProxy, for any number of connections, jobs, leases and drain *)
(* calls.                                                                  *)
EXTENDS MCServerJobs, TLAPS

USE DEF vars, jobVars, connVars, storeVars

-----------------------------------------------------------------------------
(* What is known of the leases, the connections and the stored jobs.       *)

LeaseTypes ==
  /\ lease \in [Leases -> {"none", "request", "job"}]
  /\ cpc \in [Clients -> {"idle", "body", "creating", "sending", "answering"}]
  /\ held \in [Clients -> Leases \cup {NoLease}]
  /\ sends \in [Clients -> JobIds \cup {NoJob}]
  /\ job \in [JobIds -> {"none"} \cup Active \cup Terminal]
  /\ jobLease \in [JobIds -> Leases \cup {NoLease}]

(* A connection under way owns a live lease; between its two steps         *)
(* Create-Job owns a Print job's.                                          *)
ConnectionsAreLeased ==
  \A c \in Clients :
    /\ cpc[c] = "idle" => held[c] = NoLease
    /\ cpc[c] # "idle" => held[c] \in Leases /\ lease[held[c]] # "none"
    /\ cpc[c] = "creating" => lease[held[c]] = "job"
    /\ sends[c] # NoJob => cpc[c] = "sending"

NoneShared ==
  /\ \A c, d \in Clients : held[c] = held[d] /\ held[c] # NoLease => c = d
  /\ \A i, j \in JobIds :
       jobLease[i] = jobLease[j] /\ jobLease[i] # NoLease => i = j
  /\ \A c \in Clients, i \in JobIds :
       held[c] = jobLease[i] => held[c] = NoLease

NoneLost ==
  \A r \in Leases :
    lease[r] # "none" => \/ \E c \in Clients : held[c] = r
                         \/ \E i \in JobIds : jobLease[i] = r

LeaseInv ==
  LeaseTypes /\ ConnectionsAreLeased /\ ActiveJobsAreLeased /\ NoneShared
    /\ NoneLost

LEMMA InitLeases == Init => LeaseInv
BY DEF Init, Jobs!Init, LeaseInv, LeaseTypes, ConnectionsAreLeased,
       ActiveJobsAreLeased, NoneShared, NoneLost, Active, Terminal

(* What JobStore::create does when it admits the job.                      *)
Replaces(gone, i, r) ==
  /\ job' = [j \in JobIds |-> IF j = i THEN "pending"
                              ELSE IF j \in gone THEN "none" ELSE job[j]]
  /\ jobLease' = [jobLease EXCEPT ![i] = r]
  /\ UNCHANGED jobVars

LEMMA StoresOne ==
  ASSUME NEW c \in Clients, CreateStore(c), Evictions # {}
  PROVE  \E gone \in Evictions : \E i \in (JobIds \ Stored) \cup gone :
           Replaces(gone, i, held[c])
BY Zenon DEF CreateStore, Replaces

(* Room is made by finished jobs only.                                     *)
LEMMA EvictsDone ==
  ASSUME NEW gone \in Evictions
  PROVE  gone \subseteq {j \in JobIds : job[j] \in Terminal}
<1>1. CASE Evictions = {{}}
  BY <1>1
<1>2. CASE Evictions # {{}}
  <2>1. PICK j \in {k \in Stored : job[k] \in Terminal} : gone = {j}
    BY <1>2 DEF Evictions
  <2>2. QED
    BY <2>1 DEF Stored
<1>3. QED
  BY <1>1, <1>2

LEMMA StepLeases == LeaseInv /\ [Next]_vars => LeaseInv'
<1> SUFFICES ASSUME LeaseInv, [Next]_vars PROVE LeaseInv'
  OBVIOUS
<1> USE NoLeaseAssumption, NoJobAssumption
    DEF LeaseInv, LeaseTypes, ConnectionsAreLeased, ActiveJobsAreLeased,
        NoneShared, NoneLost, Active, Terminal, ConnAt, Replaces
<1>1. CASE TrackerStep
  BY <1>1
  DEF TrackerStep, Jobs!CoolDown, Jobs!BeginDrain, Jobs!DrainStep,
      Jobs!ArmDrain, Jobs!LookDrain, Jobs!SleepDrain, Jobs!WakeDrain,
      Jobs!DrainTimeout, Jobs!Deadline, Jobs!TryBeginRestart,
      Jobs!DropPermit, Jobs!counts
<1>2. ASSUME NEW c \in Clients, Arrive(c) PROVE LeaseInv'
  BY <1>2 DEF Arrive, Jobs!TryAcquireRequest
<1>3. ASSUME NEW c \in Clients,
             Release(c) \/ Respond(c) \/ AbortConnection(c)
      PROVE  LeaseInv'
  BY <1>3 DEF Release, Respond, AbortConnection, EndConnection, Jobs!DropLease
<1>4. ASSUME NEW c \in Clients, AnswerLeased(c) \/ ThreadEnds(c)
      PROVE  LeaseInv'
  BY <1>4 DEF AnswerLeased, ThreadEnds
<1>5. ASSUME NEW c \in Clients, PrintJob(c) \/ CreateMark(c)
      PROVE  LeaseInv'
  BY <1>5 DEF PrintJob, CreateMark, Jobs!MarkPrintJob
<1>6. ASSUME NEW c \in Clients, CreateStore(c) PROVE LeaseInv'
  <2>1. CASE Evictions = {}
    BY <1>6, <2>1 DEF CreateStore, Jobs!DropLease
  <2>2. CASE Evictions # {}
    <3>1. PICK gone \in Evictions : \E i \in (JobIds \ Stored) \cup gone :
            Replaces(gone, i, held[c])
      BY <1>6, <2>2, StoresOne
    <3>2. PICK i \in (JobIds \ Stored) \cup gone : Replaces(gone, i, held[c])
      BY <3>1
    <3>3. gone \subseteq {j \in JobIds : job[j] \in Terminal}
      BY EvictsDone
    <3>4. i \in JobIds
      BY <3>3
    <3>5. jobLease[i] = NoLease
      BY <3>3, <3>4 DEF Stored
    <3>6. /\ cpc[c] = "creating" /\ cpc' = [cpc EXCEPT ![c] = "idle"]
          /\ held' = [held EXCEPT ![c] = NoLease]
          /\ UNCHANGED sends
      BY <1>6 DEF CreateStore
    <3>7. LeaseTypes' /\ ConnectionsAreLeased'
      <4>1. job' \in [JobIds -> {"none"} \cup Active \cup Terminal]
        BY <3>2, <3>4
      <4>2. LeaseTypes'
        BY <3>2, <3>6, <3>4, <4>1
      <4>3. ConnectionsAreLeased'
        BY <3>2, <3>6, <3>4
      <4>4. QED
        BY <4>2, <4>3
    <3>8. ActiveJobsAreLeased'
      <4>1. job'[i] = "pending" /\ jobLease'[i] = held[c]
        BY <3>2, <3>4
      <4>2. ASSUME NEW j \in JobIds, j # i
            PROVE  /\ jobLease'[j] = jobLease[j]
                   /\ \/ job'[j] = job[j]
                      \/ job'[j] = "none" /\ job[j] \in Terminal
        BY <3>2, <3>3, <4>2
      <4>3. QED
        BY <3>2, <3>6, <3>4, <4>1, <4>2
    <3>9. NoneShared'
      BY <3>2, <3>5, <3>6, <3>4
    <3>10. NoneLost'
      BY <3>2, <3>5, <3>6, <3>4
    <3>11. QED
      BY <3>7, <3>8, <3>9, <3>10
  <2>3. QED
    BY <2>1, <2>2
<1>7. ASSUME NEW c \in Clients, SendLast(c) PROVE LeaseInv'
  BY <1>7 DEF SendLast
<1>8. ASSUME NEW c \in Clients, Finish(c) PROVE LeaseInv'
  BY <1>8 DEF Finish, GiveBack, Stored, Settled, Jobs!DropLease
<1>9. ASSUME NEW c \in Clients, Cancel(c) PROVE LeaseInv'
  BY <1>9 DEF Cancel, GiveBack, Jobs!DropLease
<1>10. ASSUME NEW i \in JobIds, Age(i) PROVE LeaseInv'
  BY <1>10 DEF Age
<1>11. ASSUME NEW i \in JobIds, Expire(i) \/ AbortJob(i) PROVE LeaseInv'
  BY <1>11 DEF Expire, AbortJob, Incomplete, GiveBack, Jobs!DropLease
<1>12. CASE Serve \/ LeaveLoop \/ ConnectionsGone \/ Served
  BY <1>12 DEF Serve, LeaveLoop, ConnectionsGone, Served
<1>13. CASE UNCHANGED vars
  BY <1>13
<1>14. QED
  BY <1>1, <1>2, <1>3, <1>4, <1>5, <1>6, <1>7, <1>8, <1>9, <1>10, <1>11,
     <1>12, <1>13 DEF Next, ClientStep, StoreStep

(* Every job that still has to print is held by a Print-job lease, and no  *)
(* other job is (Create-Job to finish, cancel, expiry or abort_incomplete).*)
THEOREM JobsAreLeased == Spec => []ActiveJobsAreLeased
<1>1. LeaseInv => ActiveJobsAreLeased
  BY DEF LeaseInv
<1>2. QED
  BY InitLeases, StepLeases, <1>1, PTL DEF Spec

LEMMA OneOwner == LeaseInv => EveryLeaseHasOneOwner
<1> SUFFICES ASSUME LeaseInv, NEW r \in Leases
             PROVE  /\ lease[r] = "none" => OwnersOf(r) = {}
                    /\ lease[r] # "none" =>
                         \E o \in OwnersOf(r) : OwnersOf(r) = {o}
  BY DEF EveryLeaseHasOneOwner
<1> USE NoLeaseAssumption
    DEF LeaseInv, LeaseTypes, ConnectionsAreLeased, ActiveJobsAreLeased,
        NoneShared, NoneLost, Active, Terminal
<1>1. ASSUME lease[r] = "none" PROVE OwnersOf(r) = {}
  <2>1. {x \in Clients : held[x] = r} = {}
    BY <1>1
  <2>2. {x \in JobIds : jobLease[x] = r} = {}
    BY <1>1
  <2>3. QED
    BY <2>1, <2>2 DEF OwnersOf
<1>2. ASSUME NEW c \in Clients, held[c] = r
      PROVE  OwnersOf(r) = {<<"client", c>>}
  <2>1. {x \in Clients : held[x] = r} = {c}
    BY <1>2
  <2>2. {x \in JobIds : jobLease[x] = r} = {}
    BY <1>2
  <2>3. QED
    BY <2>1, <2>2 DEF OwnersOf
<1>3. ASSUME NEW i \in JobIds, jobLease[i] = r
      PROVE  OwnersOf(r) = {<<"job", i>>}
  <2>1. {x \in JobIds : jobLease[x] = r} = {i}
    BY <1>3
  <2>2. {x \in Clients : held[x] = r} = {}
    BY <1>3
  <2>3. QED
    BY <2>1, <2>2 DEF OwnersOf
<1>4. CASE lease[r] # "none"
  <2>1. CASE \E c \in Clients : held[c] = r
    BY <1>2, <2>1, <1>4
  <2>2. CASE \E i \in JobIds : jobLease[i] = r
    BY <1>3, <2>2, <1>4
  <2>3. QED
    BY <1>4, <2>1, <2>2
<1>5. QED
  BY <1>1, <1>4

(* No lease is leaked, and none is given back by two owners.               *)
THEOREM LeasesHaveOneOwner == Spec => []EveryLeaseHasOneOwner
BY InitLeases, StepLeases, OneOwner, PTL DEF Spec

-----------------------------------------------------------------------------
(* The endpoint as a user of the tracker: it drops a lease only while the  *)
(* lease is alive, which is what the invariant above is about.             *)

LEMMA StepsOfTracker == LeaseInv /\ [Next]_vars => [Jobs!Next]_(Jobs!vars)
<1> SUFFICES ASSUME LeaseInv, [Next]_vars
             PROVE  Jobs!Next \/ UNCHANGED Jobs!vars
  OBVIOUS
<1> USE NoLeaseAssumption
    DEF Jobs!vars, LeaseInv, LeaseTypes, ConnectionsAreLeased, ConnAt
<1>1. CASE TrackerStep
  BY <1>1 DEF TrackerStep, Jobs!Next
<1>2. ASSUME NEW r \in Leases, Jobs!LeaseStep(r) PROVE Jobs!Next
  BY <1>2 DEF Jobs!Next
<1>3. ASSUME NEW r \in Leases, Jobs!DropLease(r) PROVE Jobs!Next
  BY <1>2, <1>3 DEF Jobs!LeaseStep
<1>4. ASSUME NEW c \in Clients, Arrive(c) PROVE Jobs!Next
  BY <1>2, <1>4 DEF Arrive, Jobs!LeaseStep
<1>5. ASSUME NEW c \in Clients,
             Release(c) \/ Respond(c) \/ AbortConnection(c)
      PROVE  Jobs!Next
  BY <1>3, <1>5 DEF Release, Respond, AbortConnection, EndConnection
<1>6. ASSUME NEW c \in Clients, PrintJob(c) \/ CreateMark(c) PROVE Jobs!Next
  BY <1>2, <1>6 DEF PrintJob, CreateMark, Jobs!LeaseStep
<1>7. ASSUME NEW c \in Clients, CreateStore(c)
      PROVE  Jobs!Next \/ UNCHANGED Jobs!vars
  BY <1>3, <1>7 DEF CreateStore
<1>8. ASSUME NEW i \in JobIds, GiveBack(i)
      PROVE  Jobs!Next \/ UNCHANGED Jobs!vars
  BY <1>3, <1>8 DEF GiveBack
<1>9. ASSUME NEW c \in Clients, Finish(c) \/ Cancel(c)
      PROVE  Jobs!Next \/ UNCHANGED Jobs!vars
  BY <1>8, <1>9 DEF Finish, Cancel, Stored
<1>10. ASSUME NEW i \in JobIds, StoreStep(i)
       PROVE  Jobs!Next \/ UNCHANGED Jobs!vars
  BY <1>8, <1>10 DEF StoreStep, Age, Expire, AbortJob
<1>11. ASSUME NEW c \in Clients,
              AnswerLeased(c) \/ SendLast(c) \/ ThreadEnds(c)
       PROVE  UNCHANGED Jobs!vars
  BY <1>11 DEF AnswerLeased, SendLast, ThreadEnds
<1>12. CASE Serve \/ LeaveLoop \/ ConnectionsGone \/ Served \/ UNCHANGED vars
  BY <1>12 DEF Serve, LeaveLoop, ConnectionsGone, Served
<1>13. QED
  BY <1>1, <1>4, <1>5, <1>6, <1>7, <1>9, <1>10, <1>11, <1>12
  DEF Next, ClientStep

(* Every behaviour of the endpoint is one the tracker's specification      *)
(* allows, so the theorems of JobTrackerProofs hold of the leases it takes.*)
THEOREM UsesTracker == Spec => TrackerRespected
<1>1. Init => Jobs!Init
  BY DEF Init
<1>2. QED
  BY <1>1, InitLeases, StepLeases, StepsOfTracker, PTL
  DEF Spec, TrackerRespected

-----------------------------------------------------------------------------
(* Stored jobs, their submissions and the serve loop.                      *)

ServeInv ==
  /\ serving \in {"off", "serving", "closing", "aborting"}
  /\ serving \in {"off", "aborting"} => \A c \in Clients : cpc[c] = "idle"
  /\ serving = "off" => \A i \in JobIds : job[i] \notin Active

SubmitInv == LeaseInv /\ ServeInv /\ ProcessingIsSent

LEMMA InitSubmits == Init => SubmitInv
BY InitLeases DEF Init, SubmitInv, ServeInv, ProcessingIsSent, Active

LEMMA StepSubmits == SubmitInv /\ [Next]_vars => SubmitInv'
<1> SUFFICES ASSUME SubmitInv, [Next]_vars PROVE ServeInv' /\ ProcessingIsSent'
  BY StepLeases DEF SubmitInv
<1> USE NoJobAssumption
    DEF SubmitInv, LeaseInv, LeaseTypes, ConnectionsAreLeased, ServeInv,
        ProcessingIsSent, Active, Terminal, ConnAt
<1>1. CASE TrackerStep
  BY <1>1 DEF TrackerStep
<1>2. ASSUME NEW c \in Clients, Arrive(c) \/ AnswerLeased(c) \/ CreateMark(c)
      PROVE  ServeInv' /\ ProcessingIsSent'
  BY <1>2 DEF Arrive, AnswerLeased, CreateMark
<1>3. ASSUME NEW c \in Clients,
             Release(c) \/ Respond(c) \/ AbortConnection(c)
      PROVE  ServeInv' /\ ProcessingIsSent'
  BY <1>3 DEF Release, Respond, AbortConnection, EndConnection
<1>4. ASSUME NEW c \in Clients, ThreadEnds(c) \/ PrintJob(c)
      PROVE  ServeInv' /\ ProcessingIsSent'
  BY <1>4 DEF ThreadEnds, PrintJob
<1>5. ASSUME NEW c \in Clients, CreateStore(c)
      PROVE  ServeInv' /\ ProcessingIsSent'
  BY <1>5 DEF CreateStore
<1>6. ASSUME NEW c \in Clients, SendLast(c)
      PROVE  ServeInv' /\ ProcessingIsSent'
  BY <1>6 DEF SendLast
<1>7. ASSUME NEW c \in Clients, Finish(c)
      PROVE  ServeInv' /\ ProcessingIsSent'
  BY <1>7 DEF Finish, Stored, Settled
<1>8. ASSUME NEW c \in Clients, Cancel(c)
      PROVE  ServeInv' /\ ProcessingIsSent'
  BY <1>8 DEF Cancel
<1>9. ASSUME NEW i \in JobIds, StoreStep(i)
      PROVE  ServeInv' /\ ProcessingIsSent'
  BY <1>9 DEF StoreStep, Age, Expire, AbortJob, Incomplete
<1>10. CASE Serve \/ LeaveLoop \/ ConnectionsGone
  BY <1>10 DEF Serve, LeaveLoop, ConnectionsGone
<1>11. CASE Served
  BY <1>11 DEF Served, Incomplete
<1>12. CASE UNCHANGED vars
  BY <1>12
<1>13. QED
  BY <1>1, <1>2, <1>3, <1>4, <1>5, <1>6, <1>7, <1>8, <1>9, <1>10, <1>11,
     <1>12 DEF Next, ClientStep

(* append_document hands a job to one connection, and finish settles it:   *)
(* no two connections ever submit the same stored job, and no job is left  *)
(* processing without one while the server runs.                           *)
THEOREM SubmittedOnce == Spec => []ProcessingIsSent
<1>1. SubmitInv => ProcessingIsSent
  BY DEF SubmitInv
<1>2. QED
  BY InitSubmits, StepSubmits, <1>1, PTL DEF Spec

(* When IppsServer::serve has returned, no job is under way and no lease   *)
(* is alive, however the connections and the store stood when it was       *)
(* stopped.                                                                *)
THEOREM StopLeavesNothing == Spec => []StoppedIsEmpty
<1>1. SubmitInv => StoppedIsEmpty
  BY NoLeaseAssumption
  DEF SubmitInv, LeaseInv, LeaseTypes, ConnectionsAreLeased,
      ActiveJobsAreLeased, NoneLost, ServeInv, StoppedIsEmpty
<1>2. QED
  BY InitSubmits, StepSubmits, <1>1, PTL DEF Spec

LifeStep ==
  \A i \in JobIds : job'[i] # job[i] =>
    /\ <<job[i], job'[i]>> \in Moves
    /\ job[i] \in Active /\ job'[i] = "none" => i \in Expired

LEMMA StepLives == SubmitInv /\ [Next]_vars => [LifeStep]_vars
<1> SUFFICES ASSUME SubmitInv, Next PROVE LifeStep
  BY DEF LifeStep
<1> USE NoJobAssumption
    DEF SubmitInv, LeaseInv, LeaseTypes, ConnectionsAreLeased,
        ProcessingIsSent, Active, Terminal, Moves, LifeStep
<1>1. CASE UNCHANGED job
  BY <1>1
<1>2. ASSUME NEW c \in Clients, CreateStore(c) PROVE LifeStep
  <2>1. CASE UNCHANGED job
    BY <2>1
  <2>2. CASE Evictions # {}
    <3>1. PICK gone \in Evictions : \E i \in (JobIds \ Stored) \cup gone :
            Replaces(gone, i, held[c])
      BY <1>2, <2>2, StoresOne
    <3>2. PICK i \in (JobIds \ Stored) \cup gone : Replaces(gone, i, held[c])
      BY <3>1
    <3>3. gone \subseteq {j \in JobIds : job[j] \in Terminal}
      BY EvictsDone
    <3>4. QED
      BY <3>2, <3>3 DEF Replaces, Stored
  <2>3. QED
    BY <1>2, <2>1, <2>2 DEF CreateStore
<1>3. ASSUME NEW c \in Clients, SendLast(c) PROVE LifeStep
  BY <1>3 DEF SendLast
<1>4. ASSUME NEW c \in Clients, Finish(c) PROVE LifeStep
  BY <1>4 DEF Finish, Stored, Settled, ConnAt
<1>5. ASSUME NEW c \in Clients, Cancel(c) PROVE LifeStep
  BY <1>5 DEF Cancel
<1>6. ASSUME NEW i \in JobIds, StoreStep(i) PROVE LifeStep
  BY <1>6 DEF StoreStep, Age, Expire, AbortJob, Incomplete
<1>7. QED
  BY <1>1, <1>2, <1>3, <1>4, <1>5, <1>6
  DEF Next, ClientStep, TrackerStep, Arrive, Release, AnswerLeased, PrintJob,
      CreateMark, ThreadEnds, Respond, AbortConnection, Serve, LeaveLoop,
      ConnectionsGone, Served

(* A stored job never leaves its life cycle, and never makes room for a    *)
(* new one while it still has to print.                                    *)
THEOREM JobsLive == Spec => JobLifecycle
BY InitSubmits, StepSubmits, StepLives, PTL DEF Spec, JobLifecycle, LifeStep

-----------------------------------------------------------------------------
(* The client proxy, as the scene of MCServerJobs that it is.              *)

ProxyTypes ==
  /\ pxLease \in [Leases -> {"none", "request", "job"}]
  /\ pxCpc \in [Clients -> {"idle", "body", "forwarding", "done", "answering"}]
  /\ kind \in [Clients -> {"none", "print", "create", "send", "end"}]
  /\ key \in [Clients -> JobIds \cup {NoJob}]
  /\ pxHeld \in [Clients -> Leases \cup {NoLease}]
  /\ pending \in [JobIds -> Leases \cup {NoLease}]

(* A connection owns a live lease until it answers; what it submits is     *)
(* counted as a Print job, and so is what waits in the map.                *)
ProxyIsLeased ==
  /\ \A c \in Clients :
       /\ pxCpc[c] = "idle" => pxHeld[c] = NoLease
       /\ pxHeld[c] # NoLease => pxLease[pxHeld[c]] # "none"
       /\ pxCpc[c] \in {"body", "forwarding", "done"} => pxHeld[c] # NoLease
       /\ Px!Forwarding(c) /\ kind[c] \in {"print", "create"} =>
            pxLease[pxHeld[c]] = "job"
  /\ \A k \in JobIds : pending[k] # NoLease => pxLease[pending[k]] = "job"

ProxySharesNone ==
  /\ \A c, d \in Clients : pxHeld[c] = pxHeld[d] /\ pxHeld[c] # NoLease => c = d
  /\ \A k, j \in JobIds : pending[k] = pending[j] /\ pending[k] # NoLease => k = j
  /\ \A c \in Clients, k \in JobIds : pxHeld[c] = pending[k] => pxHeld[c] = NoLease

ProxyLosesNone ==
  \A r \in Leases : pxLease[r] # "none" => \/ \E c \in Clients : pxHeld[c] = r
                                            \/ \E k \in JobIds : pending[k] = r

ProxyInv == ProxyTypes /\ ProxyIsLeased /\ ProxySharesNone /\ ProxyLosesNone

LEMMA InitProxy == Px!Init => ProxyInv
BY DEF Px!Init, Px!Jobs!Init, ProxyInv, ProxyTypes, ProxyIsLeased,
       ProxySharesNone, ProxyLosesNone, Px!Forwarding

LEMMA StepProxy == ProxyInv /\ [Px!Next]_proxyVars => ProxyInv'
<1> SUFFICES ASSUME ProxyInv, [Px!Next]_proxyVars PROVE ProxyInv'
  OBVIOUS
<1> USE NoLeaseAssumption, NoJobAssumption
    DEF ProxyInv, ProxyTypes, ProxyIsLeased, ProxySharesNone, ProxyLosesNone,
        Px!Forwarding, Px!Go, Px!jobVars, Px!connVars, Px!mapVars
<1>1. CASE Px!TrackerStep
  BY <1>1
  DEF Px!TrackerStep, Px!Jobs!CoolDown, Px!Jobs!BeginDrain, Px!Jobs!DrainStep,
      Px!Jobs!ArmDrain, Px!Jobs!LookDrain, Px!Jobs!SleepDrain,
      Px!Jobs!WakeDrain, Px!Jobs!DrainTimeout, Px!Jobs!Deadline,
      Px!Jobs!TryBeginRestart, Px!Jobs!DropPermit, Px!Jobs!counts
<1>2. ASSUME NEW c \in Clients, Px!Arrive(c) PROVE ProxyInv'
  BY <1>2 DEF Px!Arrive, Px!Jobs!TryAcquireRequest
<1>3. ASSUME NEW c \in Clients,
             \/ Px!BodyFails(c) \/ Px!Query(c) \/ Px!Respond(c)
             \/ Px!AbortConnection(c)
      PROVE  ProxyInv'
  <2> USE DEF Px!EndConnection, Px!GiveBack, Px!Jobs!DropLease
  <2>1. CASE Px!BodyFails(c)
    BY <2>1 DEF Px!BodyFails
  <2>2. CASE Px!Query(c)
    BY <2>2 DEF Px!Query
  <2>3. CASE Px!Respond(c)
    BY <2>3 DEF Px!Respond
  <2>4. CASE Px!AbortConnection(c)
    BY <2>4 DEF Px!AbortConnection
  <2>5. QED
    BY <1>3, <2>1, <2>2, <2>3, <2>4
<1>4. ASSUME NEW c \in Clients,
             Px!Reject(c) \/ Px!SubmitRefused(c) \/ Px!Follow(c)
      PROVE  ProxyInv'
  BY <1>4 DEF Px!Reject, Px!SubmitRefused, Px!Follow
<1>5. ASSUME NEW c \in Clients, Px!Submit(c) PROVE ProxyInv'
  BY <1>5 DEF Px!Submit, Px!Jobs!MarkPrintJob
<1>6. ASSUME NEW c \in Clients, Px!ServerDoes(c) PROVE ProxyInv'
  BY <1>6 DEF Px!ServerDoes
<1>7. ASSUME NEW c \in Clients, Px!Answered(c) PROVE ProxyInv'
  <2>1. Px!Forwarding(c) /\ Px!Answer(c)
    BY <1>7 DEF Px!Answered
  <2>2. CASE Px!KeepPending(c) /\ kind[c] = "create" /\ key[c] \in JobIds
    <3>1. CASE pending[key[c]] = NoLease
      BY <2>1, <2>2, <3>1, SMTT(20) DEF Px!Answer, Px!KeepPending, Px!GiveBack
    <3>2. CASE pending[key[c]] # NoLease
      BY <2>1, <2>2, <3>2, SMTT(20)
      DEF Px!Answer, Px!KeepPending, Px!GiveBack, Px!Jobs!DropLease
    <3>3. QED
      BY <3>1, <3>2
  <2>3. CASE Px!EndPending(c) /\ UNCHANGED pxHeld
    BY <2>1, <2>3, SMTT(20)
    DEF Px!Answer, Px!EndPending, Px!GiveBack, Px!Jobs!DropLease
  <2>4. CASE UNCHANGED <<pxHeld, Px!mapVars, Px!jobVars>>
    BY <2>1, <2>4 DEF Px!Answer
  <2>5. QED
    BY <1>7, <2>2, <2>3, <2>4 DEF Px!Answered
<1>8. ASSUME NEW c \in Clients, Px!ForwardFails(c) PROVE ProxyInv'
  <2>1. Px!Forwarding(c) /\ Px!Answer(c) /\ UNCHANGED pxHeld
    BY <1>8 DEF Px!ForwardFails
  <2>2. CASE Px!EndPending(c)
    BY <2>1, <2>2, SMTT(20)
    DEF Px!Answer, Px!EndPending, Px!GiveBack, Px!Jobs!DropLease
  <2>3. CASE UNCHANGED <<Px!mapVars, Px!jobVars>>
    BY <2>1, <2>3 DEF Px!Answer
  <2>4. QED
    BY <1>8, <2>2, <2>3 DEF Px!ForwardFails
<1>9. ASSUME NEW k \in JobIds, Px!Age(k) \/ Px!ServerForgets(k) PROVE ProxyInv'
  BY <1>9 DEF Px!Age, Px!ServerForgets
<1>10. ASSUME NEW k \in JobIds, Px!ExpirePending(k) PROVE ProxyInv'
  BY <1>10 DEF Px!ExpirePending, Px!GiveBack, Px!Jobs!DropLease
<1>11. CASE Px!Serve \/ Px!LeaveLoop \/ Px!Stopped
  BY <1>11 DEF Px!Serve, Px!LeaveLoop, Px!Stopped
<1>12. CASE UNCHANGED proxyVars
  BY <1>12 DEF proxyVars
<1>13. QED
  BY <1>1, <1>2, <1>3, <1>4, <1>5, <1>6, <1>7, <1>8, <1>9, <1>10, <1>11,
     <1>12 DEF Px!Next, Px!ConnStep

LEMMA StepsOfProxyTracker ==
  ProxyInv /\ [Px!Next]_proxyVars => [Px!Jobs!Next]_(Px!Jobs!vars)
<1> SUFFICES ASSUME ProxyInv, [Px!Next]_proxyVars
             PROVE  Px!Jobs!Next \/ UNCHANGED Px!Jobs!vars
  OBVIOUS
<1> USE NoLeaseAssumption
    DEF Px!Jobs!vars, Px!jobVars, ProxyInv, ProxyTypes, ProxyIsLeased,
        Px!Forwarding
<1>1. CASE Px!TrackerStep
  BY <1>1 DEF Px!TrackerStep, Px!Jobs!Next
<1>2. ASSUME NEW r \in Leases, Px!Jobs!LeaseStep(r) PROVE Px!Jobs!Next
  BY <1>2 DEF Px!Jobs!Next
<1>3. ASSUME NEW r \in Leases \cup {NoLease}, Px!GiveBack(r)
      PROVE  Px!Jobs!Next \/ UNCHANGED Px!Jobs!vars
  BY <1>2, <1>3 DEF Px!GiveBack, Px!Jobs!LeaseStep
<1>4. ASSUME NEW c \in Clients, Px!Arrive(c) \/ Px!Submit(c)
      PROVE  Px!Jobs!Next
  BY <1>2, <1>4 DEF Px!Arrive, Px!Submit, Px!Jobs!LeaseStep
<1>5. ASSUME NEW c \in Clients,
             \/ Px!BodyFails(c) \/ Px!Query(c) \/ Px!Respond(c)
             \/ Px!AbortConnection(c)
      PROVE  Px!Jobs!Next \/ UNCHANGED Px!Jobs!vars
  BY <1>3, <1>5
  DEF Px!BodyFails, Px!Query, Px!Respond, Px!AbortConnection, Px!EndConnection
<1>6. ASSUME NEW c \in Clients, Px!EndPending(c)
      PROVE  Px!Jobs!Next \/ UNCHANGED Px!Jobs!vars
  BY <1>3, <1>6 DEF Px!EndPending
<1>7. ASSUME NEW c \in Clients, Px!Answered(c) \/ Px!ForwardFails(c)
      PROVE  Px!Jobs!Next \/ UNCHANGED Px!Jobs!vars
  BY <1>3, <1>6, <1>7 DEF Px!Answered, Px!ForwardFails, Px!KeepPending
<1>8. ASSUME NEW k \in JobIds, Px!ExpirePending(k)
      PROVE  Px!Jobs!Next \/ UNCHANGED Px!Jobs!vars
  BY <1>3, <1>8 DEF Px!ExpirePending
<1>9. QED
  BY <1>1, <1>4, <1>5, <1>7, <1>8
  DEF Px!Next, Px!ConnStep, proxyVars, Px!Reject, Px!SubmitRefused, Px!Follow,
      Px!ServerDoes, Px!Age, Px!ServerForgets, Px!Serve, Px!LeaveLoop,
      Px!Stopped

-----------------------------------------------------------------------------
(* What JobTrackerProofs proves of the tracker holds of the two trackers.  *)

Tr  == INSTANCE JobTrackerProofs
PxTr == INSTANCE JobTrackerProofs WITH
          lease <- pxLease, activeJobs <- pxActiveJobs,
          activeRequests <- pxActiveRequests, accepting <- pxAccepting,
          draining <- pxDraining, cooling <- pxCooling, quiet <- pxQuiet,
          pc <- pxPc, woken <- pxWoken, late <- pxLate, permits <- pxPermits

LEMMA LeasesAreFinite == Tr!IsFiniteSet(Leases) /\ PxTr!IsFiniteSet(Leases)
BY LeasesFinite, Zenon DEF IsFiniteSet, Tr!IsFiniteSet, PxTr!IsFiniteSet

LEMMA ServerTracker ==
  /\ Jobs!Init => Tr!Init
  /\ [Jobs!Next]_(Jobs!vars) => [Tr!Next]_(Tr!vars)
<1>1. Jobs!Init => Tr!Init
  BY DEF Jobs!Init, Tr!Init
<1>2. Jobs!Next => Tr!Next
  BY Zenon
  DEF Jobs!Next, Tr!Next, Jobs!LeaseStep, Tr!LeaseStep, Jobs!TryAcquireRequest,
      Tr!TryAcquireRequest, Jobs!MarkPrintJob, Tr!MarkPrintJob, Jobs!DropLease,
      Tr!DropLease, Jobs!Less, Tr!Less, Jobs!Armed, Tr!Armed, Jobs!CoolDown,
      Tr!CoolDown, Jobs!QuietWindow, Tr!QuietWindow, Jobs!BeginDrain,
      Tr!BeginDrain, Jobs!DrainStep, Tr!DrainStep, Jobs!ArmDrain, Tr!ArmDrain,
      Jobs!LookDrain, Tr!LookDrain, Jobs!SleepDrain, Tr!SleepDrain,
      Jobs!WakeDrain, Tr!WakeDrain, Jobs!DrainTimeout, Tr!DrainTimeout,
      Jobs!Deadline, Tr!Deadline, Jobs!Move, Tr!Move, Jobs!Waiting, Tr!Waiting,
      Jobs!IsDesktop, Tr!IsDesktop, Jobs!TryBeginRestart, Tr!TryBeginRestart,
      Jobs!IsRestartSafe, Tr!IsRestartSafe, Jobs!DropPermit, Tr!DropPermit,
      Jobs!counts, Tr!counts, Jobs!timers, Tr!timers, Jobs!drainVars,
      Tr!drainVars
<1>3. QED
  BY <1>1, <1>2 DEF Jobs!vars, Tr!vars

LEMMA ProxyTracker ==
  /\ Px!Jobs!Init => PxTr!Init
  /\ [Px!Jobs!Next]_(Px!Jobs!vars) => [PxTr!Next]_(PxTr!vars)
<1>1. Px!Jobs!Init => PxTr!Init
  BY DEF Px!Jobs!Init, PxTr!Init
<1>2. Px!Jobs!Next => PxTr!Next
  BY Zenon
  DEF Px!Jobs!Next, PxTr!Next, Px!Jobs!LeaseStep, PxTr!LeaseStep,
      Px!Jobs!TryAcquireRequest, PxTr!TryAcquireRequest, Px!Jobs!MarkPrintJob,
      PxTr!MarkPrintJob, Px!Jobs!DropLease, PxTr!DropLease, Px!Jobs!Less,
      PxTr!Less, Px!Jobs!Armed, PxTr!Armed, Px!Jobs!CoolDown, PxTr!CoolDown,
      Px!Jobs!QuietWindow, PxTr!QuietWindow, Px!Jobs!BeginDrain,
      PxTr!BeginDrain, Px!Jobs!DrainStep, PxTr!DrainStep, Px!Jobs!ArmDrain,
      PxTr!ArmDrain, Px!Jobs!LookDrain, PxTr!LookDrain, Px!Jobs!SleepDrain,
      PxTr!SleepDrain, Px!Jobs!WakeDrain, PxTr!WakeDrain, Px!Jobs!DrainTimeout,
      PxTr!DrainTimeout, Px!Jobs!Deadline, PxTr!Deadline, Px!Jobs!Move,
      PxTr!Move, Px!Jobs!Waiting, PxTr!Waiting, Px!Jobs!IsDesktop,
      PxTr!IsDesktop, Px!Jobs!TryBeginRestart, PxTr!TryBeginRestart,
      Px!Jobs!IsRestartSafe, PxTr!IsRestartSafe, Px!Jobs!DropPermit,
      PxTr!DropPermit, Px!Jobs!counts, PxTr!counts, Px!Jobs!timers, PxTr!timers,
      Px!Jobs!drainVars, PxTr!drainVars
<1>3. QED
  BY <1>1, <1>2 DEF Px!Jobs!vars, PxTr!vars

ServerTracked == Tr!TypeOK /\ Tr!CountsLeases /\ Tr!PermitInv

LEMMA ServerIsTracked ==
  /\ Tr!Init => ServerTracked
  /\ ServerTracked /\ [Tr!Next]_(Tr!vars) => ServerTracked'
<1>1. /\ Tr!Init => Tr!TypeOK
      /\ Tr!TypeOK /\ [Tr!Next]_(Tr!vars) => Tr!TypeOK'
  BY LeasesAreFinite, Tr!InitTyped, Tr!StepTyped
<1>2. /\ Tr!Init => Tr!CountsLeases
      /\ Tr!TypeOK /\ Tr!CountsLeases /\ [Tr!Next]_(Tr!vars)
           => Tr!CountsLeases'
  BY LeasesAreFinite, Tr!InitCounts, Tr!StepCounts
<1>3. /\ Tr!Init => Tr!PermitInv
      /\ ServerTracked /\ [Tr!Next]_(Tr!vars) => Tr!PermitInv'
  BY LeasesAreFinite, Tr!InitPermits, Tr!StepPermits DEF ServerTracked
<1>4. QED
  BY <1>1, <1>2, <1>3 DEF ServerTracked

ProxyTracked == PxTr!TypeOK /\ PxTr!CountsLeases /\ PxTr!PermitInv

LEMMA ProxyIsTracked ==
  /\ PxTr!Init => ProxyTracked
  /\ ProxyTracked /\ [PxTr!Next]_(PxTr!vars) => ProxyTracked'
<1>1. /\ PxTr!Init => PxTr!TypeOK
      /\ PxTr!TypeOK /\ [PxTr!Next]_(PxTr!vars) => PxTr!TypeOK'
  BY LeasesAreFinite, PxTr!InitTyped, PxTr!StepTyped
<1>2. /\ PxTr!Init => PxTr!CountsLeases
      /\ PxTr!TypeOK /\ PxTr!CountsLeases /\ [PxTr!Next]_(PxTr!vars)
           => PxTr!CountsLeases'
  BY LeasesAreFinite, PxTr!InitCounts, PxTr!StepCounts
<1>3. /\ PxTr!Init => PxTr!PermitInv
      /\ ProxyTracked /\ [PxTr!Next]_(PxTr!vars) => PxTr!PermitInv'
  BY LeasesAreFinite, PxTr!InitPermits, PxTr!StepPermits DEF ProxyTracked
<1>4. QED
  BY <1>1, <1>2, <1>3 DEF ProxyTracked

-----------------------------------------------------------------------------
(* While the update worker holds a permit the endpoint has no connection   *)
(* past its head and no stored job that still has to print, so the restart *)
(* interrupts nothing it has answered for (try_begin_restart and           *)
(* StoredJob::_pending_lease).  A submission whose connection was aborted  *)
(* is not counted: see HandOffIsCounted.                                   *)
RestartSeesStore ==
  permits # {} => /\ \A c \in Clients : cpc[c] = "idle"
                  /\ \A i \in JobIds : job[i] \notin Active

THEOREM RestartSparesStore == Spec => []RestartSeesStore
<1>1. Init => LeaseInv /\ ServerTracked
  BY InitLeases, ServerTracker, ServerIsTracked DEF Init
<1>2. LeaseInv /\ ServerTracked /\ [Next]_vars => LeaseInv' /\ ServerTracked'
  BY StepLeases, StepsOfTracker, ServerTracker, ServerIsTracked
<1>3. LeaseInv /\ ServerTracked => RestartSeesStore
  BY DEF LeaseInv, LeaseTypes, ConnectionsAreLeased, ActiveJobsAreLeased,
         ServerTracked, Tr!PermitInv, Tr!RestartExclusive, RestartSeesStore
<1>4. QED
  BY <1>1, <1>2, <1>3, PTL DEF Spec

(* After a drain has succeeded, and as long as no second one begins, the   *)
(* store holds no job that still has to print (drain, Create-Job's lease). *)
THEOREM DrainEmptiesStore ==
  ASSUME \A d, e \in Drainers : d = e
  PROVE  Spec => []DrainedMeansIdle
<1>1. Init => LeaseInv /\ ServerTracked /\ Tr!DrainInv
  BY InitLeases, ServerTracker, ServerIsTracked, LeasesAreFinite, Tr!InitDrains
  DEF Init
<1>2. LeaseInv /\ ServerTracked /\ Tr!DrainInv /\ [Next]_vars
        => LeaseInv' /\ ServerTracked' /\ Tr!DrainInv'
  BY StepLeases, StepsOfTracker, ServerTracker, ServerIsTracked,
     LeasesAreFinite, Tr!StepDrains
  DEF ServerTracked
<1>3. LeaseInv /\ Tr!DrainInv => DrainedMeansIdle
  BY DEF LeaseInv, ActiveJobsAreLeased, Tr!DrainInv, Tr!Holding,
         DrainedMeansIdle
<1>4. QED
  BY <1>1, <1>2, <1>3, PTL DEF Spec

-----------------------------------------------------------------------------
(* The proxy's leases.                                                     *)

LEMMA ProxyOneOwner == ProxyInv => Px!EveryLeaseHasOneOwner
<1> SUFFICES ASSUME ProxyInv, NEW r \in Leases
             PROVE  /\ pxLease[r] = "none" => Px!OwnersOf(r) = {}
                    /\ pxLease[r] # "none" =>
                         \E o \in Px!OwnersOf(r) : Px!OwnersOf(r) = {o}
  BY DEF Px!EveryLeaseHasOneOwner
<1> USE NoLeaseAssumption
    DEF ProxyInv, ProxyTypes, ProxyIsLeased, ProxySharesNone, ProxyLosesNone
<1>1. ASSUME pxLease[r] = "none" PROVE Px!OwnersOf(r) = {}
  <2>1. /\ {x \in Clients : pxHeld[x] = r} = {}
        /\ {x \in JobIds : pending[x] = r} = {}
    BY <1>1
  <2>2. QED
    BY <2>1 DEF Px!OwnersOf
<1>2. ASSUME NEW c \in Clients, pxHeld[c] = r
      PROVE  Px!OwnersOf(r) = {<<"connection", c>>}
  <2>1. /\ {x \in Clients : pxHeld[x] = r} = {c}
        /\ {x \in JobIds : pending[x] = r} = {}
    BY <1>2
  <2>2. QED
    BY <2>1 DEF Px!OwnersOf
<1>3. ASSUME NEW k \in JobIds, pending[k] = r
      PROVE  Px!OwnersOf(r) = {<<"pending", k>>}
  <2>1. /\ {x \in JobIds : pending[x] = r} = {k}
        /\ {x \in Clients : pxHeld[x] = r} = {}
    BY <1>3
  <2>2. QED
    BY <2>1 DEF Px!OwnersOf
<1>4. QED
  BY <1>1, <1>2, <1>3

(* The proxy uses the tracker as the tracker's specification allows: it    *)
(* drops no lease twice, and drops one it replaces or forgets in a step of *)
(* the tracker (GiveBack).                                                 *)
THEOREM ProxyUsesTracker ==
  MCSpec => Px!Jobs!Init /\ [][Px!Jobs!Next]_(Px!Jobs!vars)
<1>1. MCInit => ProxyInv /\ Px!Jobs!Init
  BY InitProxy DEF MCInit, Px!Init
<1>2. [MCNext]_<<scene, vars, proxyVars>> => [Px!Next]_proxyVars
  BY DEF MCNext
<1>3. QED
  BY <1>1, <1>2, StepProxy, StepsOfProxyTracker, PTL DEF MCSpec

(* A lease of the proxy alive has one owner, what waits for its            *)
(* Send-Document counts as a Print job, and neither a restart nor a drain  *)
(* that succeeded overlooks one, through replaced entries, expiry, lost    *)
(* answers and aborted connections (PendingJob::_lease).  Of the drain     *)
(* this holds for one call at a time, as in JobTracker.                    *)
THEOREM ProxyLeasesAreKept ==
  ASSUME \A d, e \in Drainers : d = e
  PROVE  MCSpec => []ProxyKeepsLeases
<1> DEFINE Inv == ProxyInv /\ ProxyTracked /\ PxTr!DrainInv
<1>1. MCInit => Inv
  BY InitProxy, ProxyTracker, ProxyIsTracked, LeasesAreFinite, PxTr!InitDrains
  DEF MCInit, Px!Init
<1>2. Inv /\ [MCNext]_<<scene, vars, proxyVars>> => Inv'
  <2>1. [MCNext]_<<scene, vars, proxyVars>> => [Px!Next]_proxyVars
    BY DEF MCNext
  <2>2. Inv /\ [Px!Next]_proxyVars => Inv'
    BY StepProxy, StepsOfProxyTracker, ProxyTracker, ProxyIsTracked,
       LeasesAreFinite, PxTr!StepDrains
    DEF ProxyTracked
  <2>3. QED
    BY <2>1, <2>2
<1>3. Inv => ProxyKeepsLeases
  <2> SUFFICES ASSUME Inv PROVE ProxyKeepsLeases
    OBVIOUS
  <2>1. Px!RestartSeesJobs
    BY NoLeaseAssumption
    DEF ProxyInv, ProxyTypes, ProxyIsLeased, ProxyTracked, PxTr!PermitInv,
        PxTr!RestartExclusive, Px!RestartSeesJobs, Px!Forwarding
  <2>2. Px!DrainedMeansIdle
    BY NoLeaseAssumption
    DEF ProxyInv, ProxyTypes, ProxyIsLeased, PxTr!DrainInv, PxTr!Holding,
        Px!DrainedMeansIdle, Px!Forwarding
  <2>3. QED
    BY <2>1, <2>2, ProxyOneOwner DEF ProxyKeepsLeases
<1>4. QED
  BY <1>1, <1>2, <1>3, PTL DEF MCSpec
=============================================================================
