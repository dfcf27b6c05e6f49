-------------------------------- MODULE Purge --------------------------------
(***************************************************************************)
(* The confirmed purge of a Linux installation (adapters/purge.rs): the    *)
(* service is stopped, then the client queues, the firewall rules, the     *)
(* credentials, the state and the configuration are removed, one after the *)
(* other.  A step that fails does not stop the next; what could not be     *)
(* removed is reported, for the user to remove by hand.                    *)
(*                                                                         *)
(* present is what is there; a directory can go only when nothing is in    *)
(* it.  A daemon that could not be stopped, or one the user runs beside    *)
(* the service, writes its files again while the purge goes on.            *)
(***************************************************************************)
EXTENDS FiniteSets

CONSTANTS
  OwnQueues, OtherQueues  \* queues classify recognises, and all the others

VARIABLES
  at,        \* the step of the purge, "idle" before and "done" after
  alive,     \* a daemon runs
  present,
  left,      \* own queues the purge has not looked at yet
  warned,    \* what a warning or a recovery action names
  report,    \* what the report calls removed
  disturbed  \* a daemon has written while the purge ran

vars == <<at, alive, present, left, warned, report, disturbed>>

InDir(d) == CASE d = "credentialDir" -> {"credential"}
              [] d = "stateDir" -> {"identity", "settings"}
              [] d = "configDir" -> {"config", "foreign"}
Rules == {"runtimeRule", "permanentRule", "ufwRule"}
Files == {"credential", "identity", "settings", "config"}
Dirs == {"credentialDir", "stateDir", "configDir"}
Things == OwnQueues \cup OtherQueues \cup Rules \cup Files \cup Dirs \cup {"foreign", "socket"}

Init ==
  /\ at = "idle" /\ alive \in BOOLEAN
  /\ \E gone \in SUBSET ({"credential", "identity", "config", "foreign"} \cup OwnQueues) :
       present = Things \ gone
  /\ left = {} /\ warned = {} /\ report = {} /\ disturbed = FALSE

(* execute_purge without --confirm or without root does nothing at all.    *)
Refuse ==
  /\ at = "idle" /\ at' = "done"
  /\ UNCHANGED <<alive, present, left, warned, report, disturbed>>

(* stop_and_disable_service looks at no result; the socket goes anyway.    *)
StopService ==
  /\ at = "idle" /\ at' = "query"
  /\ alive' \in {FALSE, alive}
  /\ present' = present \ {"socket"}
  /\ report' = {"service"}
  /\ UNCHANGED <<left, warned, disturbed>>

QueryQueues ==
  /\ at = "query"
  /\ \/ at' = "queues" /\ left' = present \cap OwnQueues /\ UNCHANGED warned
     \/ at' = "firewalld" /\ warned' = warned \cup OwnQueues /\ UNCHANGED left
  /\ UNCHANGED <<alive, present, report, disturbed>>

(* lpadmin -x, for each queue that is recognised.                          *)
RemoveQueue(q) ==
  /\ at = "queues" /\ q \in left /\ left' = left \ {q}
  /\ \/ present' = present \ {q} /\ report' = report \cup {q} /\ UNCHANGED warned
     \/ warned' = warned \cup {q} /\ UNCHANGED <<present, report>>
  /\ UNCHANGED <<at, alive, disturbed>>

QueuesDone ==
  /\ at = "queues" /\ left = {} /\ at' = "firewalld"
  /\ UNCHANGED <<alive, present, left, warned, report, disturbed>>

(* Only a firewall-cmd that cannot be run is a failure; what its commands, *)
(* and those of ufw, answer is not looked at.                              *)
RemoveRules ==
  /\ at = "firewalld" /\ at' = "credentials"
  /\ \/ \E gone \in SUBSET Rules :
          present' = present \ gone /\ report' = report \cup {"firewall"} /\ UNCHANGED warned
     \/ \E gone \in SUBSET {"ufwRule"} :
          present' = present \ gone /\ warned' = warned \cup Rules /\ UNCHANGED report
  /\ UNCHANGED <<alive, left, disturbed>>

(* A file, then its directory, which goes only when it is empty.           *)
Emptied(d, gone) == InDir(d) \cap (present \ gone) = {}

(* Variant: the state directory is left to the daemon.                     *)
RemoveDir_Quiet(d, files, next) ==
  /\ at' = next
  /\ \E gone \in SUBSET (files \cap present) :
       \/ /\ Emptied(d, gone)
          /\ present' = present \ (gone \cup {d})
          /\ report' = report \cup {d} /\ UNCHANGED warned
       \/ /\ present' = present \ gone
          /\ warned' = warned \cup ((files \cap present) \ gone)
          /\ UNCHANGED report
  /\ UNCHANGED <<alive, left, disturbed>>

RemoveDir(d, files, next) ==
  /\ at' = next
  /\ \E gone \in SUBSET (files \cap present) :
       \/ /\ Emptied(d, gone)
          /\ present' = present \ (gone \cup {d})
          /\ report' = report \cup {d} /\ UNCHANGED warned
       \/ /\ present' = present \ gone
          /\ warned' = warned \cup ((files \cap present) \ gone) \cup {d}
          /\ UNCHANGED report
  /\ UNCHANGED <<alive, left, disturbed>>

purge_credentials == at = "credentials" /\ RemoveDir("credentialDir", {"credential"}, "state")
purge_state_and_identity == at = "state" /\ RemoveDir("stateDir", {"identity", "settings"}, "config")
purge_config == at = "config" /\ RemoveDir("configDir", {"config"}, "socket")

RemoveSocket ==
  /\ at = "socket" /\ at' = "done"
  /\ present' \in {present, present \ {"socket"}}
  /\ UNCHANGED <<alive, left, warned, report, disturbed>>

(* A daemon that runs saves its settings and identity, creating their      *)
(* directory, serves its socket, and may install a queue.                  *)
DaemonWrites ==
  /\ alive
  /\ \E t \in {"identity", "settings", "socket"} \cup OwnQueues :
       present' = present \cup {t} \cup (IF t \in {"identity", "settings"} THEN {"stateDir"} ELSE {})
  /\ disturbed' = (disturbed \/ at # "idle")
  /\ UNCHANGED <<at, alive, left, warned, report>>

DaemonEnds ==
  /\ alive /\ alive' = FALSE
  /\ UNCHANGED <<at, present, left, warned, report, disturbed>>

Next ==
  \/ Refuse \/ StopService \/ QueryQueues \/ (\E q \in OwnQueues : RemoveQueue(q)) \/ QueuesDone
  \/ RemoveRules \/ purge_credentials \/ purge_state_and_identity \/ purge_config
  \/ RemoveSocket \/ DaemonWrites \/ DaemonEnds

Spec == Init /\ [][Next]_vars

-----------------------------------------------------------------------------
(* Unless a daemon that could not be stopped writes again, everything of   *)
(* ShaPrint's that is still there after a purge is named to the user;      *)
(* firewall rules and the socket excepted, whose removal the code does not *)
(* look at.                                                                *)
LeftIsNamed ==
  at = "done" /\ "service" \in report /\ ~disturbed =>
    \A t \in present \cap (OwnQueues \cup Files \cup Dirs) :
      t \in warned \/ \E d \in Dirs \cap warned : t \in InDir(d)
=============================================================================
