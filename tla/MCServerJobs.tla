---------------------------- MODULE MCServerJobs ----------------------------
(***************************************************************************)
(* Small instances of ServerJobs and ClientProxy for TLC.  A behaviour is  *)
(* one of the two, chosen by scene; the other keeps its initial state.     *)
(***************************************************************************)
EXTENDS ServerJobs, TLC

VARIABLES
  scene,
  pxLease, pxActiveJobs, pxActiveRequests, pxAccepting, pxDraining, pxCooling,
  pxQuiet, pxPc, pxWoken, pxLate, pxPermits,
  running, pxCpc, kind, key, pxHeld, pending, pxAge, remote

proxyVars == <<pxLease, pxActiveJobs, pxActiveRequests, pxAccepting,
               pxDraining, pxCooling, pxQuiet, pxPc, pxWoken, pxLate,
               pxPermits, running, pxCpc, kind, key, pxHeld, pending, pxAge,
               remote>>

Px == INSTANCE ClientProxy WITH
        Conns <- Clients, JobKeys <- JobIds,
        lease <- pxLease, activeJobs <- pxActiveJobs,
        activeRequests <- pxActiveRequests, accepting <- pxAccepting,
        draining <- pxDraining, cooling <- pxCooling, quiet <- pxQuiet,
        pc <- pxPc, woken <- pxWoken, late <- pxLate, permits <- pxPermits,
        cpc <- pxCpc, held <- pxHeld, age <- pxAge

(* Both are of one process, the desktop application's or the daemon's.     *)
MCInit == Init /\ Px!Init /\ pxPc = pc /\ scene \in {"server", "proxy"}

MCNext ==
  \/ scene = "server" /\ Next /\ UNCHANGED <<scene, proxyVars>>
  \/ scene = "proxy" /\ Px!Next /\ UNCHANGED <<scene, vars>>

(* The fairness of ServerJobs and of ClientProxy, each about steps that    *)
(* its initial state does not allow, so that it asks nothing of the one    *)
(* that stands still.                                                      *)
ProxyFairness ==
  \A k \in JobIds : WF_proxyVars(Px!Age(k)) /\ WF_proxyVars(Px!ExpirePending(k))

MCSpec ==
  MCInit /\ [][MCNext]_<<scene, vars, proxyVars>> /\ Fairness /\ ProxyFairness

(* The leases of the proxy's pending jobs: each lease alive has one owner, *)
(* a pending job counts as a Print job, so that no restart is permitted    *)
(* and no drain succeeds while one is pending or being submitted           *)
(* (PendingJob::_lease, serve_client's job_lease).                         *)
ProxyKeepsLeases ==
  Px!EveryLeaseHasOneOwner /\ Px!RestartSeesJobs /\ Px!DrainedMeansIdle

(* A job whose client disappears is given up, by the server after its five *)
(* minutes and by the proxy after two as long as it runs, so that it       *)
(* cannot hold back an update for ever (expire_locked, the proxy's tick).  *)
AbandonedJobsLeave ==
  /\ PendingLeaves
  /\ <>[](running = "serving") =>
       \A k \in JobIds, r \in Leases : pending[k] = r ~> pending[k] # r
=============================================================================
