---------------------------- MODULE TaskOwnership ----------------------------
(***************************************************************************)
(* What the runtime coordinator promises about the tasks it spawns: a      *)
(* service has at most one managed task, and a task leaves management only *)
(* to be cancelled ("services cannot be orphaned", application/runtime.rs).*)
(* The promise says nothing of locks, states or deadlines.                 *)
(***************************************************************************)
CONSTANTS Services, Tasks

VARIABLES
  stage,  \* [Tasks -> Stage]: who answers for the task
  home    \* [Tasks -> Services]: the service a task was spawned for

vars == <<stage, home>>

(* new: not spawned; managed: in the coordinator's map; claimed: taken out *)
(* by a call that will cancel it; cancelled: told to stop, for good.       *)
Stage == {"new", "managed", "claimed", "cancelled"}

Init ==
  /\ stage = [t \in Tasks |-> "new"]
  /\ home \in [Tasks -> Services]

Spawn(s, t) ==
  /\ stage[t] = "new"
  /\ \A u \in Tasks : home[u] = s => stage[u] # "managed"
  /\ stage' = [stage EXCEPT ![t] = "managed"]
  /\ home' = [home EXCEPT ![t] = s]

(* shutdown claims every managed task at once.                             *)
Claim(T) ==
  /\ \A t \in T : stage[t] = "managed"
  /\ stage' = [t \in Tasks |-> IF t \in T THEN "claimed" ELSE stage[t]]
  /\ UNCHANGED home

Cancel(T) ==
  /\ \A t \in T : stage[t] \in {"managed", "claimed"}
  /\ stage' = [t \in Tasks |-> IF t \in T THEN "cancelled" ELSE stage[t]]
  /\ UNCHANGED home

Next ==
  \/ \E s \in Services, t \in Tasks : Spawn(s, t)
  \/ \E T \in SUBSET Tasks : Claim(T) \/ Cancel(T)

Spec == Init /\ [][Next]_vars
=============================================================================
