-------------------------------- MODULE Launch --------------------------------
(***************************************************************************)
(* What a launch of the desktop app does with choices that were made       *)
(* before it: whether ShaPrint starts at login (application/startup.rs,    *)
(* adapters/startup.rs, Windows) and the Network Channel of the previous   *)
(* application (application/legacy.rs, adapters/legacy.rs).                *)
(*                                                                         *)
(* Login startup is a task of the Task Scheduler; a value under the Run    *)
(* key, from an older release, is turned into one wherever it is met, even *)
(* by a query.  The user's choice is a file written in place, which an end *)
(* of the process between truncation and writing leaves torn.  A thread is *)
(* one call at a time: "call" the one that changes the registration (the   *)
(* shell's launch, then the window, which waits for each answer), "status" *)
(* the one that asks for it.                                               *)
(***************************************************************************)
EXTENDS Naturals

CONSTANTS
  Imports,      \* calls of the import: the launch's, and those of the window
  MaxLaunches,  \* bound: launches
  MaxForeign,   \* bound: Run values another program writes
  MaxChoices    \* bound: choices of the user, in either matter

VARIABLES
  launches, foreign, choices,
  up,         \* the app runs
  at, job,    \* per thread: the step, and the call it belongs to
  task, run,  \* registered with the Task Scheduler; a Run value is there
  preference, \* the file: "absent", "torn", "on", "off"
  asked,      \* what the user last asked for and was told is done
  spoiled,    \* a removal failed, or another program registered, since then
  legacy,     \* what the previous app has: "absent", "placeholder", "channel", "protected"
  channel,    \* "none", "users" or "imported"
  marker,     \* the import record: "absent", "torn", "imported"
  importing,  \* per import call: "idle", "looked", "truncate", "write"
  mine        \* the user set a channel: "no", "yes", or "raced" with an import's store

loginVars == <<at, job, task, run, preference, asked, spoiled>>
importVars == <<legacy, channel, marker, importing, mine>>
bounds == <<launches, foreign, choices>>
vars == <<bounds, up, loginVars, importVars>>

Threads == {"call", "status"}

Init ==
  /\ launches = 0 /\ foreign = 0 /\ choices = 0 /\ up = FALSE
  /\ at = [t \in Threads |-> "idle"] /\ job = [t \in Threads |-> "status"]
  /\ task \in BOOLEAN /\ run \in BOOLEAN
  /\ preference = "absent" /\ asked = "nothing" /\ spoiled = FALSE
  /\ legacy \in {"absent", "placeholder", "channel", "protected"}
  /\ channel = "none" /\ marker = "absent"
  /\ importing = [i \in Imports |-> "idle"] /\ mine = "no"

-----------------------------------------------------------------------------
(* The steps of a thread.  Goto is where it is after this one.             *)

Goto(t, step) == at' = [at EXCEPT ![t] = step]
Keep == UNCHANGED <<bounds, up, importVars>>

(* What the file says when a launch reads it: torn counts as "off".        *)
Recorded == IF preference = "torn" THEN "off" ELSE preference

(* Where a call goes once it knows whether ShaPrint is registered: the     *)
(* constructor's migration is followed by apply_default.                   *)
AfterQuery(t, registered) ==
  CASE job[t] = "migrate" -> "query"
    [] job[t] = "default" ->
         IF Recorded = "off" THEN IF registered THEN "deleteRun" ELSE "idle"
         ELSE IF ~registered THEN "deleteRun"
              ELSE IF Recorded = "on" THEN "idle" ELSE "truncate"
    [] OTHER -> "idle"

Answered(t) == job' = [job EXCEPT ![t] = IF @ = "migrate" THEN "default" ELSE @]

Failed(t) ==
  /\ IF job[t] = "migrate" THEN Goto(t, "query") ELSE Goto(t, "idle")
  /\ Answered(t)

is_task_enabled == task
read_run_value == run

(* registered_command, migrate_legacy_run_key: a query of the task; then   *)
(* the Run value is removed, whether or not that works, and if there was   *)
(* no task one is made for it.                                             *)
Query(t) ==
  /\ at[t] = "query"
  /\ \/ /\ is_task_enabled \/ ~read_run_value
        /\ run' \in {FALSE, run} /\ spoiled' = (spoiled \/ run')
        /\ Goto(t, AfterQuery(t, task)) /\ Answered(t)
     \/ /\ ~is_task_enabled /\ read_run_value
        /\ run' \in BOOLEAN /\ spoiled' = (spoiled \/ run')
        /\ Goto(t, "migrate") /\ UNCHANGED job
     \/ Failed(t) /\ UNCHANGED <<run, spoiled>>
  /\ UNCHANGED <<task, preference, asked>> /\ Keep

Migrate(t) ==
  /\ at[t] = "migrate"
  /\ \/ task' = TRUE /\ Goto(t, AfterQuery(t, TRUE)) /\ Answered(t)
     \/ UNCHANGED task /\ Failed(t)
  /\ UNCHANGED <<run, preference, asked, spoiled>> /\ Keep

(* set_enabled of the registration: on, unless the choice is off.          *)
Wanted(t) == IF job[t] = "default" THEN IF Recorded = "off" THEN "off" ELSE "on" ELSE job[t]

DeleteRun(t) ==
  /\ at[t] = "deleteRun"
  /\ run' \in {FALSE, run} /\ spoiled' = (spoiled \/ run')
  /\ Goto(t, IF Wanted(t) = "on" THEN "create" ELSE "delete")
  /\ UNCHANGED <<job, task, preference, asked>> /\ Keep

(* The launch only writes down a choice it made itself.                    *)
Create(t) ==
  /\ at[t] = "create"
  /\ \/ /\ task' = TRUE
        /\ Goto(t, IF job[t] = "default" /\ preference # "absent" THEN "idle" ELSE "truncate")
     \/ UNCHANGED task /\ Goto(t, "idle")
  /\ UNCHANGED <<job, run, preference, asked, spoiled>> /\ Keep

(* What schtasks answers to a deletion is not looked at.                   *)
Delete(t) ==
  /\ at[t] = "delete"
  /\ task' \in {FALSE, task} /\ spoiled' = (spoiled \/ task')
  /\ Goto(t, IF job[t] = "default" THEN "idle" ELSE "truncate")
  /\ UNCHANGED <<job, run, preference, asked>> /\ Keep

(* remember                                                                *)
Truncate(t) ==
  /\ at[t] = "truncate"
  /\ \/ preference' = "torn" /\ Goto(t, "write")
     \/ UNCHANGED preference /\ Goto(t, "idle")
  /\ UNCHANGED <<job, task, run, asked, spoiled>> /\ Keep

(* Variant: only that there is a choice is written.                        *)
Write_Forgets(t) ==
  /\ at[t] = "write"
  /\ \/ /\ preference' = "on"
        /\ asked' = IF job[t] = "default" THEN asked ELSE job[t]
        /\ IF job[t] = "default" THEN Goto(t, "idle") /\ UNCHANGED job
           ELSE Goto(t, "query") /\ job' = [job EXCEPT ![t] = "status"]
     \/ Goto(t, "idle") /\ UNCHANGED <<preference, asked, job>>
  /\ UNCHANGED <<task, run, spoiled>> /\ Keep

Write(t) ==
  /\ at[t] = "write"
  /\ \/ /\ preference' = IF job[t] = "default" THEN "on" ELSE job[t]
        /\ asked' = IF job[t] = "default" THEN asked ELSE job[t]
        /\ IF job[t] = "default" THEN Goto(t, "idle") /\ UNCHANGED job
           ELSE Goto(t, "query") /\ job' = [job EXCEPT ![t] = "status"]
     \/ Goto(t, "idle") /\ UNCHANGED <<preference, asked, job>>
  /\ UNCHANGED <<task, run, spoiled>> /\ Keep

Step(t) ==
  \/ Query(t) \/ Migrate(t) \/ DeleteRun(t) \/ Create(t) \/ Delete(t) \/ Truncate(t) \/ Write(t)

-----------------------------------------------------------------------------
(* WindowsStartup::new, then apply_default in the shell's setup.           *)
Open ==
  /\ ~up /\ launches < MaxLaunches
  /\ up' = TRUE /\ launches' = launches + 1
  /\ Goto("call", "query") /\ job' = [job EXCEPT !["call"] = "migrate"]
  /\ UNCHANGED <<foreign, choices, task, run, preference, asked, spoiled, importVars>>

Ready == up /\ job["call"] # "migrate" /\ (job["call"] = "default" => at["call"] = "idle")

(* The window's switch, which waits for the answer of the last change.     *)
Choose(enabled) ==
  /\ Ready /\ at["call"] = "idle" /\ choices < MaxChoices
  /\ choices' = choices + 1
  /\ Goto("call", "deleteRun") /\ job' = [job EXCEPT !["call"] = enabled]
  /\ asked' = "something" /\ spoiled' = (run \/ at["status"] = "migrate")
  /\ UNCHANGED <<launches, foreign, up, task, run, preference, importVars>>

(* get_startup_status                                                      *)
Status ==
  /\ Ready /\ at["status"] = "idle" /\ Goto("status", "query")
  /\ UNCHANGED <<bounds, up, job, task, run, preference, asked, spoiled, importVars>>

(* The previous release, or the previous app, registers itself again.      *)
WritesRun ==
  /\ foreign < MaxForeign /\ foreign' = foreign + 1
  /\ run' = TRUE /\ spoiled' = TRUE
  /\ UNCHANGED <<launches, choices, up, at, job, task, preference, asked, importVars>>

(* The process ends, at any step of anything.                              *)
End ==
  /\ up /\ up' = FALSE
  /\ at' = [t \in Threads |-> "idle"] /\ job' = [t \in Threads |-> "status"]
  /\ importing' = [i \in Imports |-> "idle"]
  /\ UNCHANGED <<bounds, task, run, preference, asked, spoiled, legacy, channel, marker, mine>>

-----------------------------------------------------------------------------
(* The import.                                                             *)

classify_legacy_channel == legacy = "channel"
is_configured == channel # "none"

outcome ==
  CASE marker = "imported" -> "imported"
    [] is_configured -> "kept-existing"
    [] OTHER -> "importable"

(* apply: the snapshot, the record and what is configured, then the store. *)
Look(i) ==
  /\ Ready /\ importing[i] = "idle" /\ classify_legacy_channel
  /\ outcome = "importable"
  /\ importing' = [importing EXCEPT ![i] = "looked"]
  /\ UNCHANGED <<bounds, up, loginVars, legacy, channel, marker, mine>>

(* ChannelStore::store, the channel's own set_channel.                     *)
Store(i) ==
  /\ importing[i] = "looked"
  /\ \/ channel' = "imported" /\ importing' = [importing EXCEPT ![i] = "truncate"]
     \/ UNCHANGED channel /\ importing' = [importing EXCEPT ![i] = "idle"]
  /\ UNCHANGED <<bounds, up, loginVars, legacy, marker, mine>>

(* write_marker, whose failure is only logged.                             *)
TruncateMarker(i) ==
  /\ importing[i] = "truncate"
  /\ \/ marker' = "torn" /\ importing' = [importing EXCEPT ![i] = "write"]
     \/ UNCHANGED marker /\ importing' = [importing EXCEPT ![i] = "idle"]
  /\ UNCHANGED <<bounds, up, loginVars, legacy, channel, mine>>

WriteMarker(i) ==
  /\ importing[i] = "write"
  /\ marker' \in {"imported", marker}
  /\ importing' = [importing EXCEPT ![i] = "idle"]
  /\ UNCHANGED <<bounds, up, loginVars, legacy, channel, mine>>

(* The user sets a Network Channel in the window.                          *)
SetChannel ==
  /\ Ready /\ choices < MaxChoices /\ choices' = choices + 1
  /\ channel' = "users"
  /\ mine' = IF \E i \in Imports : importing[i] = "looked" THEN "raced" ELSE "yes"
  /\ UNCHANGED <<launches, foreign, up, loginVars, legacy, marker, importing>>

Next ==
  \/ Open \/ End \/ Status \/ WritesRun \/ SetChannel
  \/ \E e \in {"on", "off"} : Choose(e)
  \/ \E t \in Threads : Step(t)
  \/ \E i \in Imports : Look(i) \/ Store(i) \/ TruncateMarker(i) \/ WriteMarker(i)

Spec == Init /\ [][Next]_vars

-----------------------------------------------------------------------------
(* What the user was told is done outlives every launch and every end of   *)
(* the process: startup that was turned off stays off, and startup that    *)
(* was turned on stays on, unless a removal failed or a Run value was      *)
(* there, or written, since; and a Network Channel the user set is never   *)
(* replaced by the previous app's, with a torn or lost import record or    *)
(* without, unless it was set between an import's look and its store.      *)
UsersChoicesStay ==
  /\ at["call"] = "idle" /\ at["status"] = "idle" /\ ~spoiled =>
       /\ asked = "off" => ~task /\ ~run
       /\ asked = "on" => task
  /\ mine = "yes" => channel = "users"
=============================================================================
