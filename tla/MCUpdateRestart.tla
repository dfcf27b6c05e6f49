--------------------------- MODULE MCUpdateRestart ---------------------------
(* Small instances of UpdateRestart for TLC: the user clicks at any time,  *)
(* or never does and only hidden windows restart.                          *)
EXTENDS UpdateRestart

VARIABLE clicks  \* whether the user clicks in this behaviour

MCInit == Init /\ clicks \in BOOLEAN

MCNext ==
  /\ Next
  /\ ~clicks => \A a \in Requesters : pending'[a] = "none"
  /\ UNCHANGED clicks

MCSpec ==
  /\ MCInit /\ [][MCNext]_<<vars, clicks>>
  /\ WF_vars(WorkerStep) /\ WF_vars(CoolDown)

(* Without clicks, what the window shows is real: an update offered for    *)
(* restart is stored, a check is shown only while one runs, the services   *)
(* are stopped only for a package that is there, and a queued restart      *)
(* stays queued until the worker reports its failure                       *)
(* (UpdateCoordinator::check, install_if_requested, fail).                 *)
UnattendedIsReal ==
  /\ [](~clicks => StatusIsReal)
  /\ [][~clicks /\ upd = "Requested" =>
           upd' = "Requested" \/ wpc = "fail"]_vars
=============================================================================
