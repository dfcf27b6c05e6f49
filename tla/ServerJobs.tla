----------------------------- MODULE ServerJobs -----------------------------
(***************************************************************************)
(* Printing at the sharing endpoint: the connections IppsServer::serve     *)
(* accepts (adapters/ipps/mod.rs), the IPP operations they carry out and   *)
(* the JobStore of multi-step jobs (adapters/ipps/endpoint.rs), the        *)
(* blocking spooler hand-off behind PrintJobSubmitter::submit, and the job *)
(* tracker that decides when the process may be restarted.                 *)
(*                                                                         *)
(* A connection is a task: it is aborted only where it awaits, so a step   *)
(* is the code between two awaits, split further where it takes two locks. *)
(* The store's and the tracker's methods hold their lock from start to     *)
(* end.  Requests that are refused before a lease is taken, and reads of   *)
(* the store, change nothing and are left out.                             *)
(***************************************************************************)
EXTENDS Naturals, FiniteSets

CONSTANTS
  Leases,      \* RequestLease values; a dropped one is used again
  Drainers,    \* drain calls of the daemon's control socket
  Workers,     \* update workers of the desktop application
  Clients,     \* concurrent connections
  JobIds,      \* job-ids
  MaxTracked,  \* MAX_TRACKED_JOBS
  NoLease,     \* no RequestLease
  NoJob        \* the connection is not handing over a stored job

ASSUME LeasesFinite      == IsFiniteSet(Leases)
ASSUME NoLeaseAssumption == NoLease \notin Leases
ASSUME NoJobAssumption   == NoJob \notin JobIds

VARIABLES
  lease, activeJobs, activeRequests, accepting, draining, cooling, quiet,
  pc, woken, late, permits,  \* JobTracker's variables
  serving,   \* where IppsServer::serve is
  cpc,       \* [Clients -> where the connection is]
  held,      \* [Clients -> the lease the connection's future owns]
  sends,     \* [Clients -> the stored job the connection hands over]
  thread,    \* [Clients -> its spawn_blocking submission]
  job,       \* [JobIds -> JobEntry::state, "none" if not in the store]
  jobLease,  \* [JobIds -> StoredJob::_pending_lease]
  age        \* [JobIds -> created_at, against the two lifetimes]

Jobs == INSTANCE JobTracker

jobVars   == <<lease, activeJobs, activeRequests, accepting, draining,
               cooling, quiet, pc, woken, late, permits>>
connVars  == <<cpc, held, sends, thread>>
storeVars == <<job, jobLease, age>>
vars == <<lease, activeJobs, activeRequests, accepting, draining, cooling,
          quiet, pc, woken, late, permits, serving, cpc, held, sends, thread,
          job, jobLease, age>>

(* pending-job-incomplete ... completed: 3, 5, 7, 8 and 9.                 *)
Active   == {"pending", "processing"}
Terminal == {"canceled", "aborted", "completed"}

Init ==
  /\ Jobs!Init
  /\ serving = "off"
  /\ cpc = [c \in Clients |-> "idle"]
  /\ held = [c \in Clients |-> NoLease]
  /\ sends = [c \in Clients |-> NoJob]
  /\ thread = [c \in Clients |-> "none"]
  /\ job = [i \in JobIds |-> "none"]
  /\ jobLease = [i \in JobIds |-> NoLease]
  /\ age = [i \in JobIds |-> "new"]

ConnAt(c, from, to) == cpc[c] = from /\ cpc' = [cpc EXCEPT ![c] = to]

-----------------------------------------------------------------------------
(* The tracker's other users: drain calls, the update worker, the clock.   *)
TrackerStep ==
  /\ \/ Jobs!CoolDown
     \/ \E d \in Drainers : \/ Jobs!BeginDrain(d) \/ Jobs!DrainStep(d)
                            \/ Jobs!DrainTimeout(d) \/ Jobs!Deadline(d)
     \/ Jobs!IsDesktop /\ \E w \in Workers : \/ Jobs!TryBeginRestart(w)
                                             \/ Jobs!DropPermit(w)
  /\ UNCHANGED <<serving, connVars, storeVars>>

-----------------------------------------------------------------------------
(* The store's clock.  expire_locked runs at the head of every method but  *)
(* finish and abort_incomplete, and on the cleanup tick: a step of its own *)
(* per job, because each lease is given back under the tracker's lock; the *)
(* methods wait until nothing expired is left.                             *)

(* Five minutes for a pending job, an hour for every other one.            *)
Expired ==
  {i \in JobIds : \/ job[i] = "pending" /\ age[i] # "new"
                  \/ job[i] # "none" /\ age[i] = "old"}

(* created_at passes one lifetime, then the other; past its own a job is   *)
(* expired however long that was ago.                                      *)
Age(i) ==
  /\ job[i] # "none" /\ age[i] # "old" /\ i \notin Expired
  /\ age' = [age EXCEPT ![i] = IF @ = "new" THEN "stale" ELSE "old"]
  /\ UNCHANGED <<jobVars, serving, connVars, job, jobLease>>

(* A removed job's lease is dropped with it.                               *)
GiveBack(i) ==
  /\ jobLease' = [jobLease EXCEPT ![i] = NoLease]
  /\ IF jobLease[i] = NoLease THEN UNCHANGED jobVars
                              ELSE Jobs!DropLease(jobLease[i])

(* Variant: the entry goes and its lease stays counted.                    *)
Expire_LeavesLease(i) ==
  /\ serving \in {"serving", "closing"}
  /\ i \in Expired
  /\ job' = [job EXCEPT ![i] = "none"]
  /\ jobLease' = [jobLease EXCEPT ![i] = NoLease]
  /\ age' = [age EXCEPT ![i] = "new"]
  /\ UNCHANGED <<jobVars, serving, connVars>>

Expire(i) ==
  /\ serving \in {"serving", "closing"}
  /\ i \in Expired
  /\ job' = [job EXCEPT ![i] = "none"]
  /\ age' = [age EXCEPT ![i] = "new"]
  /\ GiveBack(i)
  /\ UNCHANGED <<serving, connVars>>

-----------------------------------------------------------------------------
(* A connection (serve_client, answer_request_with_store, answer_job).     *)

(* The head has been read; the body is read under the lease.  Bound: a     *)
(* connection whose abandoned submission still runs is not used again.     *)
Arrive(c) ==
  /\ serving = "serving"
  /\ thread[c] = "none"
  /\ ConnAt(c, "idle", "body")
  /\ \E r \in Leases :
       Jobs!TryAcquireRequest(r) /\ held' = [held EXCEPT ![c] = r]
  /\ UNCHANGED <<serving, sends, thread, storeVars>>

EndConnection(c) ==
  /\ cpc' = [cpc EXCEPT ![c] = "idle"]
  /\ held' = [held EXCEPT ![c] = NoLease]
  /\ sends' = [sends EXCEPT ![c] = NoJob]
  /\ Jobs!DropLease(held[c])

(* A body that does not come, a query, a Validate-Job, a refusal before    *)
(* the operation is known to print: the lease is gone before the answer.   *)
Release(c) ==
  /\ cpc[c] = "body"
  /\ EndConnection(c)
  /\ UNCHANGED <<serving, thread, storeVars>>

(* Answers given under the lease: a Send-Document or Cancel-Job that is    *)
(* refused, and a Send-Document with more to come.                         *)
AnswerLeased(c) ==
  /\ ConnAt(c, "body", "answering")
  /\ UNCHANGED <<jobVars, serving, held, sends, thread, storeVars>>

(* Print-Job: the lease is promoted, the rest of the request may still be  *)
(* refused.                                                                *)
PrintJob(c) ==
  /\ cpc[c] = "body"
  /\ Jobs!MarkPrintJob(held[c])
  /\ \/ ConnAt(c, "body", "answering") /\ UNCHANGED thread
     \/ /\ ConnAt(c, "body", "sending")
        /\ thread' = [thread EXCEPT ![c] = "busy"]
  /\ UNCHANGED <<serving, held, sends, storeVars>>

(* Create-Job promotes the lease...                                        *)
CreateMark(c) ==
  /\ ConnAt(c, "body", "creating")
  /\ Jobs!MarkPrintJob(held[c])
  /\ UNCHANGED <<serving, held, sends, thread, storeVars>>

Stored == {i \in JobIds : job[i] # "none"}

(* No job in the store was created before i, as far as the ages tell.      *)
Oldest(i, S) ==
  \A j \in S : age[j] = age[i] \/ age[j] = "new" \/ age[i] = "old"

(* A full store gives up its oldest terminal job, or refuses.              *)
Evictions ==
  LET done == {i \in Stored : job[i] \in Terminal} IN
  IF Cardinality(Stored) < MaxTracked THEN {{}}
  ELSE {{i} : i \in {j \in done : Oldest(j, done)}}

(* ...and moves it into the store.  next_id: some id that is not stored.   *)
(* Bound: ids do not come round during a submission (there are 2^31).      *)
CreateStore(c) ==
  /\ ConnAt(c, "creating", "idle")
  /\ Expired = {}
  /\ held' = [held EXCEPT ![c] = NoLease]
  /\ IF Evictions = {}
       THEN Jobs!DropLease(held[c]) /\ UNCHANGED storeVars
       ELSE \E gone \in Evictions :
            \E i \in (JobIds \ Stored) \cup gone :
              /\ \A d \in Clients : sends[d] # i
              /\ job' = [j \in JobIds |-> IF j = i THEN "pending"
                                          ELSE IF j \in gone THEN "none"
                                          ELSE job[j]]
              /\ jobLease' = [jobLease EXCEPT ![i] = held[c]]
              /\ age' = [j \in JobIds |-> IF j \in gone \cup {i} THEN "new"
                                                                ELSE age[j]]
              /\ UNCHANGED jobVars
  /\ UNCHANGED <<serving, sends, thread>>

(* Variant: the job is not marked as processing under the store's lock.    *)
SendLast_Unmarked(c) ==
  /\ ConnAt(c, "body", "sending")
  /\ Expired = {}
  /\ \E i \in JobIds :
       /\ job[i] = "pending"
       /\ sends' = [sends EXCEPT ![c] = i]
  /\ thread' = [thread EXCEPT ![c] = "busy"]
  /\ UNCHANGED <<jobVars, serving, held, storeVars>>

(* Send-Document with the last document: the connection keeps its request  *)
(* lease, the job its own.                                                 *)
SendLast(c) ==
  /\ ConnAt(c, "body", "sending")
  /\ Expired = {}
  /\ \E i \in JobIds :
       /\ job[i] = "pending"
       /\ job' = [job EXCEPT ![i] = "processing"]
       /\ sends' = [sends EXCEPT ![c] = i]
  /\ thread' = [thread EXCEPT ![c] = "busy"]
  /\ UNCHANGED <<jobVars, serving, held, jobLease, age>>

(* The spooler call returns; nobody hears of it if the connection is gone. *)
ThreadEnds(c) ==
  /\ thread[c] = "busy"
  /\ \E outcome \in {"accepted", "rejected"} :
       thread' = [thread EXCEPT
                    ![c] = IF cpc[c] = "sending" THEN outcome ELSE "none"]
  /\ UNCHANGED <<jobVars, serving, cpc, held, sends, storeVars>>

Settled(c) == IF thread[c] = "accepted" THEN "completed" ELSE "aborted"

(* Variant: a finished job keeps its lease.                                *)
Finish_KeepsLease(c) ==
  LET i == sends[c] IN
  /\ thread[c] \in {"accepted", "rejected"}
  /\ ConnAt(c, "sending", "answering")
  /\ thread' = [thread EXCEPT ![c] = "none"]
  /\ sends' = [sends EXCEPT ![c] = NoJob]
  /\ job' = IF i \in Stored THEN [job EXCEPT ![i] = Settled(c)] ELSE job
  /\ UNCHANGED <<jobVars, serving, held, jobLease, age>>

(* The answer to the submission; JobStore::finish if the job is a stored   *)
(* one that has not expired meanwhile.                                     *)
Finish(c) ==
  LET i == sends[c] IN
  /\ thread[c] \in {"accepted", "rejected"}
  /\ ConnAt(c, "sending", "answering")
  /\ thread' = [thread EXCEPT ![c] = "none"]
  /\ sends' = [sends EXCEPT ![c] = NoJob]
  /\ IF i \in Stored
       THEN job' = [job EXCEPT ![i] = Settled(c)] /\ GiveBack(i)
       ELSE UNCHANGED <<job, jobLease, jobVars>>
  /\ UNCHANGED <<serving, held, age>>

(* Cancel-Job of a pending job releases the job's lease and keeps its own. *)
Cancel(c) ==
  /\ ConnAt(c, "body", "answering")
  /\ Expired = {}
  /\ \E i \in JobIds :
       /\ job[i] = "pending"
       /\ job' = [job EXCEPT ![i] = "canceled"]
       /\ GiveBack(i)
  /\ UNCHANGED <<serving, held, sends, thread, age>>

(* The response is written, or cannot be.                                  *)
Respond(c) ==
  /\ cpc[c] = "answering"
  /\ EndConnection(c)
  /\ UNCHANGED <<serving, thread, storeVars>>

-----------------------------------------------------------------------------
(* IppsServer::serve.  What a connection still does after the loop is left *)
(* and before it is aborted could as well have been done before.           *)

Serve ==
  /\ serving = "off" /\ serving' = "serving"
  /\ UNCHANGED <<jobVars, connVars, storeVars>>

LeaveLoop ==
  /\ serving = "serving" /\ serving' = "closing"
  /\ UNCHANGED <<jobVars, connVars, storeVars>>

(* connections.shutdown(): futures are dropped where they await, threads   *)
(* go on.                                                                  *)
AbortConnection(c) ==
  /\ serving = "closing"
  /\ cpc[c] \in {"body", "sending", "answering"}
  /\ EndConnection(c)
  /\ thread' = [thread EXCEPT ![c] = IF @ = "busy" THEN @ ELSE "none"]
  /\ UNCHANGED <<serving, storeVars>>

ConnectionsGone ==
  /\ serving = "closing" /\ serving' = "aborting"
  /\ \A c \in Clients : cpc[c] = "idle"
  /\ UNCHANGED <<jobVars, connVars, storeVars>>

Incomplete == {i \in JobIds : job[i] \in Active}

(* abort_incomplete: one lease after the other, under the store's lock.    *)
AbortJob(i) ==
  /\ serving = "aborting"
  /\ i \in Incomplete
  /\ job' = [job EXCEPT ![i] = "aborted"]
  /\ GiveBack(i)
  /\ UNCHANGED <<serving, connVars, age>>

Served ==
  /\ serving = "aborting" /\ serving' = "off"
  /\ Incomplete = {}
  /\ UNCHANGED <<jobVars, connVars, storeVars>>

-----------------------------------------------------------------------------
ClientStep(c) ==
  \/ Arrive(c) \/ Release(c) \/ AnswerLeased(c) \/ PrintJob(c)
  \/ CreateMark(c) \/ CreateStore(c) \/ SendLast(c) \/ ThreadEnds(c)
  \/ Finish(c) \/ Cancel(c) \/ Respond(c) \/ AbortConnection(c)

StoreStep(i) == Age(i) \/ Expire(i) \/ AbortJob(i)

Next ==
  \/ TrackerStep
  \/ \E c \in Clients : ClientStep(c)
  \/ \E i \in JobIds : StoreStep(i)
  \/ Serve \/ LeaveLoop \/ ConnectionsGone \/ Served

(* Time passes, the cleanup tick comes, and a serve loop that was left is  *)
(* carried to its end.  Nothing makes a client send, or a spooler answer.  *)
Fairness ==
  /\ \A i \in JobIds : WF_vars(Age(i)) /\ WF_vars(Expire(i))
  /\ \A i \in JobIds : WF_vars(AbortJob(i))
  /\ \A c \in Clients : WF_vars(CreateStore(c)) /\ WF_vars(AbortConnection(c))
  /\ WF_vars(ConnectionsGone) /\ WF_vars(Served)

Spec == Init /\ [][Next]_vars /\ Fairness

-----------------------------------------------------------------------------
(* Properties.                                                             *)

(* The shape of the state (JobStoreState, the connections' positions).     *)
TypeOK ==
  /\ Jobs!TypeOK
  /\ serving \in {"off", "serving", "closing", "aborting"}
  /\ cpc \in [Clients -> {"idle", "body", "creating", "sending", "answering"}]
  /\ held \in [Clients -> Leases \cup {NoLease}]
  /\ sends \in [Clients -> JobIds \cup {NoJob}]
  /\ thread \in [Clients -> {"none", "busy", "accepted", "rejected"}]
  /\ job \in [JobIds -> {"none"} \cup Active \cup Terminal]
  /\ jobLease \in [JobIds -> Leases \cup {NoLease}]
  /\ age \in [JobIds -> {"new", "stale", "old"}]

(* A stored job holds a Print-job lease exactly while it is pending or     *)
(* processing, so the tracker sees every job between Create-Job and the    *)
(* last answer (StoredJob::_pending_lease).                                *)
ActiveJobsAreLeased ==
  \A i \in JobIds :
    IF job[i] \in Active
      THEN jobLease[i] \in Leases /\ lease[jobLease[i]] = "job"
      ELSE jobLease[i] = NoLease

(* No lease leaks and none is shared: each one alive has one owner, a      *)
(* connection or a stored job, through expiry, cancellation, eviction,     *)
(* aborted connections and a stopped server.                               *)
OwnersOf(r) ==
  {<<"client", c>> : c \in {x \in Clients : held[x] = r}}
    \cup {<<"job", i>> : i \in {x \in JobIds : jobLease[x] = r}}

EveryLeaseHasOneOwner ==
  \A r \in Leases :
    /\ lease[r] = "none" => OwnersOf(r) = {}
    /\ lease[r] # "none" => \E o \in OwnersOf(r) : OwnersOf(r) = {o}

(* A stored job is handed to the spooler by one connection: two racing     *)
(* last Send-Documents print once, and while the server runs a processing  *)
(* job is never forgotten (append_document, finish).                       *)
ProcessingIsSent ==
  /\ \A c \in Clients : sends[c] # NoJob =>
       /\ job[sends[c]] \in {"processing", "none"}
       /\ \A d \in Clients : sends[d] = sends[c] => d = c
  /\ serving = "serving" =>
       \A i \in JobIds :
         job[i] = "processing" => \E c \in Clients : sends[c] = i

(* After a drain has succeeded the store holds no job that still has to    *)
(* print (one drain call at a time).                                       *)
DrainedMeansIdle ==
  \A d \in Drainers :
    pc[d] = "drained" => \A i \in JobIds : job[i] \notin Active

(* A stopped server has no job under way and holds no lease: a stop never  *)
(* blocks an update afterwards.                                            *)
StoppedIsEmpty ==
  serving = "off" =>
    /\ \A i \in JobIds : job[i] \notin Active
    /\ \A r \in Leases : lease[r] = "none"

Moves ==
  {<<"none", "pending">>, <<"pending", "processing">>,
   <<"pending", "canceled">>, <<"pending", "aborted">>,
   <<"processing", "completed">>, <<"processing", "aborted">>}
    \cup (Terminal \X {"none", "pending"}) \cup (Active \X {"none"})

(* Jobs move along their life cycle only, and one that still has to print  *)
(* leaves the store by its age and never to make room.                     *)
JobLifecycle ==
  [][\A i \in JobIds : job'[i] # job[i] =>
       /\ <<job[i], job'[i]>> \in Moves
       /\ job[i] \in Active /\ job'[i] = "none" => i \in Expired]_vars

(* A client that creates a job and disappears does not hold back a drain   *)
(* or a restart for ever.                                                  *)
PendingLeaves ==
  \A i \in JobIds : job[i] = "pending" ~> job[i] # "pending"

(* ADR 0012, section 2: a spooler hand-off under way is visible to the     *)
(* guard that allows a restart.                                            *)
HandOffIsCounted ==
  \A c \in Clients : thread[c] = "busy" => activeJobs + activeRequests > 0

(* The endpoint uses the tracker only as the tracker's specification       *)
(* allows.                                                                 *)
TrackerRespected == Jobs!Init /\ [][Jobs!Next]_(Jobs!vars)
=============================================================================
