----------------------- MODULE MCRuntimeCoordinator -----------------------
(***************************************************************************)
(* Small instances of RuntimeCoordinator for TLC.  In half of the          *)
(* behaviours calls overlap and tasks outlive deadlines; in the others one *)
(* caller, sole, makes every call, a join ends with its task, which is     *)
(* what StuckTasks = FALSE says, and one service is used.  There a start   *)
(* may be given up wherever it waits, a stop or shutdown not while it joins*)
(* (RuntimeCoordinator_joins.cfg is about those).                          *)
(***************************************************************************)
EXTENDS RuntimeCoordinator, TLC

VARIABLE sole

MCInit == Init /\ sole \in Callers \cup {NoCaller}

MCNext ==
  /\ Next /\ UNCHANGED sole
  /\ sole # NoCaller =>
       /\ \A c \in Callers \ {sole} : pc'[c] = "idle"
       /\ \A s \in Services \ {ServerSharing} : state'[s] = "Stopped"
       /\ \A c \in Callers : \A t \in joining[c] \ joining'[c] :
            phase[t] = "ended" \/ (pc[c] = "discardJoin" /\ pc'[c] = "idle")

MCSpec == MCInit /\ [][MCNext]_<<vars, sole>>

(* Calls one at a time and tasks that return when cancelled: states, tasks *)
(* and the persisted flag agree, across resets, failures, shutdowns and    *)
(* starts given up, but for the flag of a start given up before its hook   *)
(* (ServiceState::is_live, RuntimeService::started and stopped).           *)
SoleCallsAgree ==
  sole # NoCaller =>
    ManagedTaskIsLive /\ StoppedHasNoTask /\ OneTaskPerService /\ RunningIsRemembered

(* Tasks are spawned in no particular order and callers run the same code; *)
(* services are not symmetric, ServerSharing is singled out.               *)
Symmetry == Permutations(Tasks) \cup Permutations(Callers)
=============================================================================
