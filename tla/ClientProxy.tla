---------------------------- MODULE ClientProxy ----------------------------
(***************************************************************************)
(* The local client proxy (adapters/client_proxy.rs): connections of the   *)
(* operating system's print queue, forwarded to approved servers, and the  *)
(* map of jobs created by Create-Job whose Send-Document is still to come. *)
(* A job of that map holds a Print-job lease of the tracker, so that the   *)
(* process is not restarted between two requests of one job.               *)
(*                                                                         *)
(* A connection is a task that is aborted only where it awaits: reading    *)
(* the body, forwarding, and writing the answer.  The servers are          *)
(* external: they create, extend, finish and forget jobs, and their        *)
(* answers may be lost.                                                    *)
(***************************************************************************)
EXTENDS Naturals, FiniteSets

CONSTANTS
  Leases, Drainers, Workers,  \* as in JobTracker
  Conns,    \* concurrent connections
  JobKeys,  \* (server address, job-id) pairs
  NoLease,  \* no RequestLease
  NoJob     \* the request names no usable job-id

VARIABLES
  lease, activeJobs, activeRequests, accepting, draining, cooling, quiet,
  pc, woken, late, permits,  \* JobTracker's variables
  running,  \* where ClientProxyService::run is
  cpc,      \* [Conns -> where the connection is]
  kind,     \* [Conns -> the operation it forwards]
  key,      \* [Conns -> the job its request or its answer names]
  held,     \* [Conns -> the lease its future owns]
  pending,  \* pending_jobs: [JobKeys -> PendingJob::_lease]
  age,      \* [JobKeys -> PendingJob::created_at, against two minutes]
  remote    \* [JobKeys -> the server's own record of the job]

Jobs == INSTANCE JobTracker

jobVars  == <<lease, activeJobs, activeRequests, accepting, draining,
              cooling, quiet, pc, woken, late, permits>>
connVars == <<cpc, kind, key, held>>
mapVars  == <<pending, age>>
vars == <<lease, activeJobs, activeRequests, accepting, draining, cooling,
          quiet, pc, woken, late, permits, running, cpc, kind, key, held,
          pending, age, remote>>

Init ==
  /\ Jobs!Init
  /\ running = "off"
  /\ cpc = [c \in Conns |-> "idle"]
  /\ kind = [c \in Conns |-> "none"]
  /\ key = [c \in Conns |-> NoJob]
  /\ held = [c \in Conns |-> NoLease]
  /\ pending = [k \in JobKeys |-> NoLease]
  /\ age = [k \in JobKeys |-> "new"]
  /\ remote = [k \in JobKeys |-> "none"]

Go(c, to) == cpc' = [cpc EXCEPT ![c] = to]

(* forward_ipp is awaited; "done": the server has carried the request out. *)
Forwarding(c) == cpc[c] \in {"forwarding", "done"}

TrackerStep ==
  /\ \/ Jobs!CoolDown
     \/ \E d \in Drainers : \/ Jobs!BeginDrain(d) \/ Jobs!DrainStep(d)
                            \/ Jobs!DrainTimeout(d) \/ Jobs!Deadline(d)
     \/ Jobs!IsDesktop /\ \E w \in Workers : \/ Jobs!TryBeginRestart(w)
                                             \/ Jobs!DropPermit(w)
  /\ UNCHANGED <<running, connVars, mapVars, remote>>

-----------------------------------------------------------------------------
(* The map of pending jobs.                                                *)

(* A removed or replaced entry drops its lease.                            *)
GiveBack(r) ==
  IF r = NoLease THEN UNCHANGED jobVars ELSE Jobs!DropLease(r)

Age(k) ==
  /\ pending[k] # NoLease /\ age[k] = "new"
  /\ age' = [age EXCEPT ![k] = "old"]
  /\ UNCHANGED <<jobVars, running, connVars, pending, remote>>

(* Variant: the tick cleans up only once the loop is left.                 *)
ExpirePending_AtExit(k) ==
  /\ running = "closing"
  /\ pending[k] # NoLease /\ age[k] = "old"
  /\ GiveBack(pending[k])
  /\ pending' = [pending EXCEPT ![k] = NoLease]
  /\ age' = [age EXCEPT ![k] = "new"]
  /\ UNCHANGED <<running, connVars, remote>>

(* The tick of run() and the try_lock at the head of a request: the leases *)
(* are given back one by one, while the proxy runs.                        *)
ExpirePending(k) ==
  /\ running # "off"
  /\ pending[k] # NoLease /\ age[k] = "old"
  /\ GiveBack(pending[k])
  /\ pending' = [pending EXCEPT ![k] = NoLease]
  /\ age' = [age EXCEPT ![k] = "new"]
  /\ UNCHANGED <<running, connVars, remote>>

-----------------------------------------------------------------------------
(* A connection (serve_client).                                            *)

(* The head is read without a lease, the body under a request lease.  A    *)
(* head that is not an IPP POST, or a tracker that refuses, changes        *)
(* nothing.                                                                *)
Arrive(c) ==
  /\ running = "serving"
  /\ cpc[c] = "idle" /\ Go(c, "body")
  /\ \E r \in Leases :
       Jobs!TryAcquireRequest(r) /\ held' = [held EXCEPT ![c] = r]
  /\ UNCHANGED <<running, kind, key, mapVars, remote>>

EndConnection(c) ==
  /\ Go(c, "idle")
  /\ kind' = [kind EXCEPT ![c] = "none"]
  /\ key' = [key EXCEPT ![c] = NoJob]
  /\ held' = [held EXCEPT ![c] = NoLease]
  /\ GiveBack(held[c])

(* A body that is too slow, cut off or wrongly chunked.                    *)
BodyFails(c) ==
  /\ cpc[c] = "body"
  /\ EndConnection(c)
  /\ UNCHANGED <<running, mapVars, remote>>

(* The answer is known: the operation and its job are not read again.      *)
Answer(c) ==
  /\ Go(c, "answering")
  /\ kind' = [kind EXCEPT ![c] = "none"]
  /\ key' = [key EXCEPT ![c] = NoJob]

(* No length or too long, not IPP, a version or operation that is not      *)
(* supported, no queue in the URI or the path, and a Send-Document or      *)
(* Cancel-Job without a Network Channel: answered under the lease.         *)
Reject(c) ==
  /\ cpc[c] = "body" /\ Go(c, "answering")
  /\ UNCHANGED <<jobVars, running, kind, key, held, mapVars, remote>>

(* Variant: the lease stays that of a request.                             *)
Submit_Unmarked(c) ==
  /\ cpc[c] = "body" /\ Go(c, "forwarding")
  /\ ~draining /\ accepting
  /\ \E op \in {"print", "create"} : kind' = [kind EXCEPT ![c] = op]
  /\ UNCHANGED <<jobVars, running, key, held, mapVars, remote>>

(* Print-Job and Create-Job: the lease is promoted; a client without a     *)
(* Network Channel is told so, and the user too.                           *)
Submit(c) ==
  /\ cpc[c] = "body"
  /\ Jobs!MarkPrintJob(held[c])
  /\ \/ /\ Go(c, "forwarding")
        /\ \E op \in {"print", "create"} : kind' = [kind EXCEPT ![c] = op]
     \/ Go(c, "answering") /\ UNCHANGED kind
  /\ UNCHANGED <<running, key, held, mapVars, remote>>

(* not-accepting-jobs.                                                     *)
SubmitRefused(c) ==
  /\ cpc[c] = "body" /\ Go(c, "answering")
  /\ draining \/ ~accepting
  /\ UNCHANGED <<jobVars, running, kind, key, held, mapVars, remote>>

(* Send-Document and Cancel-Job keep the request lease; "end": the last    *)
(* document or the cancellation, after which the job takes no more.        *)
Follow(c) ==
  /\ cpc[c] = "body" /\ Go(c, "forwarding")
  /\ \E op \in {"send", "end"}, k \in JobKeys \cup {NoJob} :
       /\ kind' = [kind EXCEPT ![c] = op]
       /\ key' = [key EXCEPT ![c] = k]
  /\ UNCHANGED <<jobVars, running, held, mapVars, remote>>

(* Validate-Job and queries give the lease back before they are forwarded; *)
(* from there on they change nothing here.                                 *)
Query(c) ==
  /\ cpc[c] = "body"
  /\ EndConnection(c)
  /\ UNCHANGED <<running, mapVars, remote>>

(* External: the server carries the request out (ServerJobs is about how). *)
(* A job-id is new to the server, which may have been restarted since it   *)
(* last gave it out.  A Print-Job leaves no job behind to be named.        *)
ServerDoes(c) ==
  /\ cpc[c] = "forwarding" /\ Go(c, "done")
  /\ \/ /\ kind[c] = "create"
        /\ \E k \in {j \in JobKeys : remote[j] = "none"} :
             /\ remote' = [remote EXCEPT ![k] = "open"]
             /\ key' = [key EXCEPT ![c] = k]
     \/ /\ kind[c] \in {"send", "end"}
        /\ key[c] \in JobKeys /\ remote[key[c]] = "open"
        /\ remote' = IF kind[c] = "send" THEN remote
                     ELSE [remote EXCEPT ![key[c]] = "none"]
        /\ UNCHANGED key
  /\ UNCHANGED <<jobVars, running, kind, held, mapVars>>

(* External: the job expires, or the server stops.                         *)
ServerForgets(k) ==
  /\ remote[k] = "open"
  /\ remote' = [remote EXCEPT ![k] = "none"]
  /\ UNCHANGED <<jobVars, running, connVars, mapVars>>

(* Create-Job was accepted: its lease moves into the map, in the place of  *)
(* what an earlier job of the same id left there.                          *)
KeepPending(c) ==
  /\ pending' = [pending EXCEPT ![key[c]] = held[c]]
  /\ age' = [age EXCEPT ![key[c]] = "new"]
  /\ held' = [held EXCEPT ![c] = NoLease]
  /\ GiveBack(pending[key[c]])

EndPending(c) ==
  IF key[c] \notin JobKeys \/ pending[key[c]] = NoLease
    THEN UNCHANGED <<mapVars, jobVars>>
    ELSE /\ pending' = [pending EXCEPT ![key[c]] = NoLease]
         /\ age' = [age EXCEPT ![key[c]] = "new"]
         /\ GiveBack(pending[key[c]])

(* The server's answer; one that refuses leaves the server's job alone.    *)
(* The last Send-Document, a refused one and every Cancel-Job end the      *)
(* pending job.                                                            *)
Answered(c) ==
  /\ Forwarding(c) /\ Answer(c)
  /\ CASE kind[c] = "create" /\ key[c] \in JobKeys -> KeepPending(c)
       [] kind[c] = "end"
            \/ (kind[c] = "send" /\ cpc[c] = "forwarding") ->
            EndPending(c) /\ UNCHANGED held
       [] OTHER -> UNCHANGED <<held, mapVars, jobVars>>
  /\ UNCHANGED <<running, remote>>

(* Not trusted, another certificate, not reachable, not answered in time:  *)
(* the server may or may not have carried out the request.                 *)
ForwardFails(c) ==
  /\ Forwarding(c) /\ Answer(c)
  /\ IF kind[c] \in {"send", "end"}
       THEN EndPending(c)
       ELSE UNCHANGED <<mapVars, jobVars>>
  /\ UNCHANGED <<running, held, remote>>

(* The answer is written, without a timeout, or cannot be.                 *)
Respond(c) ==
  /\ cpc[c] = "answering"
  /\ EndConnection(c)
  /\ UNCHANGED <<running, mapVars, remote>>

-----------------------------------------------------------------------------
(* ClientProxyService::run.  The map is the service's, not the run's.      *)

Serve ==
  /\ running = "off" /\ running' = "serving"
  /\ UNCHANGED <<jobVars, connVars, mapVars, remote>>

LeaveLoop ==
  /\ running = "serving" /\ running' = "closing"
  /\ UNCHANGED <<jobVars, connVars, mapVars, remote>>

AbortConnection(c) ==
  /\ running = "closing" /\ cpc[c] # "idle"
  /\ EndConnection(c)
  /\ UNCHANGED <<running, mapVars, remote>>

Stopped ==
  /\ running = "closing" /\ running' = "off"
  /\ \A c \in Conns : cpc[c] = "idle"
  /\ UNCHANGED <<jobVars, connVars, mapVars, remote>>

-----------------------------------------------------------------------------
ConnStep(c) ==
  \/ Arrive(c) \/ BodyFails(c) \/ Reject(c) \/ Submit(c) \/ SubmitRefused(c)
  \/ Follow(c) \/ Query(c) \/ ServerDoes(c)
  \/ Answered(c) \/ ForwardFails(c) \/ Respond(c) \/ AbortConnection(c)

Next ==
  \/ TrackerStep
  \/ \E c \in Conns : ConnStep(c)
  \/ \E k \in JobKeys : Age(k) \/ ExpirePending(k) \/ ServerForgets(k)
  \/ Serve \/ LeaveLoop \/ Stopped

(* Time passes and the tick comes again and again while the loop runs; the *)
(* loop is never obliged to.                                               *)
Fairness == \A k \in JobKeys : WF_vars(Age(k)) /\ WF_vars(ExpirePending(k))

Spec == Init /\ [][Next]_vars /\ Fairness

-----------------------------------------------------------------------------
(* Properties.                                                             *)

OwnersOf(r) ==
  {<<"connection", c>> : c \in {x \in Conns : held[x] = r}}
    \cup {<<"pending", k>> : k \in {x \in JobKeys : pending[x] = r}}

(* A lease alive has one owner, a connection or a pending job, whatever is *)
(* replaced, expires, is aborted or stopped (serve_client's job_lease).    *)
EveryLeaseHasOneOwner ==
  \A r \in Leases :
    /\ lease[r] = "none" => OwnersOf(r) = {}
    /\ lease[r] # "none" => \E o \in OwnersOf(r) : OwnersOf(r) = {o}

(* What waits in the map counts as a Print job, so neither a drain nor a   *)
(* restart overlooks it, and while a restart is permitted no job is        *)
(* pending, submitted or sent (PendingJob::_lease).                        *)
RestartSeesJobs ==
  /\ \A k \in JobKeys : pending[k] # NoLease => lease[pending[k]] = "job"
  /\ permits # {} =>
       /\ \A k \in JobKeys : pending[k] = NoLease
       /\ \A c \in Conns : ~Forwarding(c)

(* After a drain has succeeded no job is being submitted or is pending     *)
(* (one drain call at a time).                                             *)
DrainedMeansIdle ==
  \A d \in Drainers : pc[d] = "drained" =>
    /\ \A k \in JobKeys : pending[k] = NoLease
    /\ \A c \in Conns :
         Forwarding(c) => kind[c] \notin {"print", "create"}
=============================================================================
