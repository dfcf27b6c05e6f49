------------------------- MODULE RuntimeCoordinator -------------------------
(***************************************************************************)
(* The runtime coordinator of the desktop shell                            *)
(* (apps/desktop/src-tauri/src/application/coordinator.rs): it owns the    *)
(* supervised services, publishes one ServiceState per service, and is     *)
(* called concurrently by IPC command handlers, the daemon's control       *)
(* socket and the shutdown hook.                                           *)
(*                                                                         *)
(* Three kinds of actor take steps:                                        *)
(*   - a caller runs `start', `stop' or `shutdown'; a step of a caller is  *)
(*     the code between two points where a lock is released or a future is *)
(*     awaited, so every interleaving of two callers is explored;          *)
(*   - a task is one spawned `supervise' future around RuntimeService::run;*)
(*   - time: a deadline may pass while a caller waits, or that of the      *)
(*     control request which makes the call, and then the call is dropped. *)
(*                                                                         *)
(* slot is the `running' map, gate the start gates, state the status       *)
(* registry.  A lock is never held across an await, so a critical section  *)
(* is one step.                                                            *)
(***************************************************************************)
EXTENDS Naturals, FiniteSets

CONSTANTS
  Services,       \* the supervised ServiceIds
  ServerSharing,  \* the one service whose started/stopped hooks persist state
  Callers,        \* concurrent callers of the coordinator's API
  Tasks,          \* spawned tasks; bounds the number of spawns in a run
  NoTask,         \* an empty slot
  NoCaller,       \* a free start gate
  StuckTasks      \* TRUE: a task may outlive the deadline of a join

ASSUME NoTaskAssumption   == NoTask \notin Tasks
ASSUME NoCallerAssumption == NoCaller \notin Callers
ASSUME SharingAssumption  == ServerSharing \in Services
ASSUME StuckAssumption    == StuckTasks \in BOOLEAN

VARIABLES
  state,      \* [Services -> ServiceState]: the status registry
  slot,       \* [Services -> Tasks or NoTask]: the running map
  gate,       \* [Services -> Callers or NoCaller]: the start gates
  phase,      \* [Tasks -> Phase]: how far a task has come
  svc,        \* [Tasks -> Services]: the service a task runs
  verdict,    \* [Tasks -> state supervise will record, "keep" for none]
  cancelled,  \* set of tasks whose Shutdown handle resolves
  pc,         \* [Callers -> where the call is]
  op,         \* [Callers -> which operation the call performs]
  target,     \* [Callers -> the service a start or stop is for]
  held,       \* [Callers -> tasks taken out of the map, not yet cancelled]
  joining,    \* [Callers -> cancelled tasks the call waits for]
  view,       \* [Callers -> the state the call has read is live]
  enabled,    \* the persisted "sharing was on" flag
  givenUp     \* history: services whose last start was given up

regVars  == <<state, slot, gate>>
taskVars == <<phase, svc, verdict, cancelled>>
callVars == <<pc, op, target, held, joining, view>>
vars     == <<state, slot, gate, phase, svc, verdict, cancelled,
              pc, op, target, held, joining, view, enabled, givenUp>>

-----------------------------------------------------------------------------
(* Lifecycle rules (domain/service.rs).                                    *)

ServiceState == {"Stopped", "Starting", "Running", "Stopping", "Failed"}

IsLive(st) == st \in {"Starting", "Running", "Stopping"}

LegalMoves ==
  { <<"Stopped", "Starting">>,  <<"Starting", "Running">>,
    <<"Starting", "Stopping">>, <<"Starting", "Failed">>,
    <<"Running", "Stopping">>,  <<"Running", "Failed">>,
    <<"Stopping", "Stopped">>,  <<"Stopping", "Failed">>,
    <<"Failed", "Starting">>,   <<"Failed", "Stopped">> }

(* Variant: a stopping service cannot settle.                              *)
CanTransition_NoSettle(from, to) ==
  <<from, to>> \in LegalMoves \ {<<"Stopping", "Stopped">>}

CanTransition(from, to) == <<from, to>> \in LegalMoves

(* StatusRegistry::record: an illegal transition is logged and dropped.    *)
Record(s, to) ==
  state' = IF CanTransition(state[s], to)
             THEN [state EXCEPT ![s] = to]
             ELSE state

-----------------------------------------------------------------------------
(* Vocabulary.                                                             *)

Phase == {"unborn", "up", "serving", "refused", "returned", "ended"}

Alive(t) == phase[t] \notin {"unborn", "ended"}

StartSteps == {"prepare", "reset", "spawn", "await", "started",
               "discard", "discardJoin", "discardCheck", "discardRecord"}
StopSteps  == {"stopEnter", "stopTake", "stopMark", "stopJoin", "stopSettle",
               "stopOrphan", "stopHook", "stopStuck"}
DownSteps  == {"downCheck", "downMark", "downJoin"}
Steps      == {"idle"} \cup StartSteps \cup StopSteps \cup DownSteps

(* The call ends; a start lets go of its gate (the guard is dropped).      *)
Return(c) ==
  /\ pc' = [pc EXCEPT ![c] = "idle"]
  /\ gate' = IF op[c] = "start" THEN [gate EXCEPT ![target[c]] = NoCaller]
                                ELSE gate

(* stop() returned Ok: a plain stop is done, start() goes on to spawn.     *)
StopSucceeds(c) ==
  IF op[c] = "start"
    THEN pc' = [pc EXCEPT ![c] = "spawn"] /\ UNCHANGED gate
    ELSE Return(c)

Goto(c, step) == pc' = [pc EXCEPT ![c] = step]

(* RuntimeService::started/stopped; only ServerSharing overrides them.     *)
Hook(s, on) == enabled' = IF s = ServerSharing THEN on ELSE enabled

-----------------------------------------------------------------------------
Init ==
  /\ state = [s \in Services |-> "Stopped"]
  /\ slot = [s \in Services |-> NoTask]
  /\ gate = [s \in Services |-> NoCaller]
  /\ phase = [t \in Tasks |-> "unborn"]
  /\ svc = [t \in Tasks |-> ServerSharing]
  /\ verdict = [t \in Tasks |-> "keep"]
  /\ cancelled = {}
  /\ pc = [c \in Callers |-> "idle"]
  /\ op = [c \in Callers |-> "stop"]
  /\ target = [c \in Callers |-> ServerSharing]
  /\ held = [c \in Callers |-> {}]
  /\ joining = [c \in Callers |-> {}]
  /\ view = [c \in Callers |-> FALSE]
  /\ enabled \in BOOLEAN          \* what an earlier run left on disk
  /\ givenUp = {}

-----------------------------------------------------------------------------
(* start(id)                                                               *)

(* Bound: a start is only called while a task is left for it to spawn, or  *)
(* if an entry that a late stop has left behind makes it fail.             *)
SpawnBudget(s) ==
  \/ state[s] = "Stopped" /\ slot[s] # NoTask
  \/ Cardinality({ t \in Tasks : phase[t] = "unborn" }) >
     Cardinality({ c \in Callers :
                     op[c] = "start"
                       /\ pc[c] \in {"prepare", "reset", "spawn"} \cup StopSteps })

(* The gate is tried, not queued for; a live service is rejected.  Both    *)
(* rejections return an error and change nothing.                          *)
StartCall(c, s) ==
  /\ pc[c] = "idle"
  /\ SpawnBudget(s)
  /\ gate[s] = NoCaller
  /\ ~IsLive(state[s])
  /\ gate' = [gate EXCEPT ![s] = c]
  /\ op' = [op EXCEPT ![c] = "start"]
  /\ target' = [target EXCEPT ![c] = s]
  /\ Goto(c, "prepare")
  /\ UNCHANGED <<state, slot, taskVars, held, joining, view, enabled, givenUp>>

(* preflight, prepare (it may wait for a UAC answer) and preflight again.  *)
StartPrepared(c) ==
  /\ pc[c] = "prepare"
  /\ Goto(c, "reset")
  /\ UNCHANGED <<regVars, taskVars, op, target, held, joining, view, enabled, givenUp>>

StartRefused(c) ==
  /\ pc[c] = "prepare"
  /\ Return(c)
  /\ UNCHANGED <<state, slot, taskVars, op, target, held, joining, view,
                 enabled, givenUp>>

(* A failed service is reset by running stop() first.                      *)
StartReset(c) ==
  /\ pc[c] = "reset"
  /\ Goto(c, IF state[target[c]] = "Failed" THEN "stopEnter" ELSE "spawn")
  /\ UNCHANGED <<regVars, taskVars, op, target, held, joining, view, enabled, givenUp>>

(* Under the running lock: an occupied slot or an illegal transition is an *)
(* error, otherwise the task is spawned and entered in the map.            *)
StartSpawn(c) ==
  LET s == target[c] IN
  /\ pc[c] = "spawn"
  /\ slot[s] = NoTask
  /\ CanTransition(state[s], "Starting")
  /\ \E t \in Tasks :
       /\ phase[t] = "unborn"
       /\ phase' = [phase EXCEPT ![t] = "up"]
       /\ svc' = [svc EXCEPT ![t] = s]
       /\ slot' = [slot EXCEPT ![s] = t]
  /\ state' = [state EXCEPT ![s] = "Starting"]
  /\ givenUp' = givenUp \ {s}
  /\ Goto(c, "await")
  /\ UNCHANGED <<gate, verdict, cancelled, op, target, held, joining, view,
                 enabled>>

StartSpawnRejected(c) ==
  LET s == target[c] IN
  /\ pc[c] = "spawn"
  /\ slot[s] # NoTask \/ ~CanTransition(state[s], "Starting")
  /\ Return(c)
  /\ UNCHANGED <<state, slot, taskVars, op, target, held, joining, view,
                 enabled, givenUp>>

(* await_ready: the registry is read on every change until the deadline.   *)
AwaitReady(c) ==
  /\ pc[c] = "await"
  /\ state[target[c]] = "Running"
  /\ Goto(c, "started")
  /\ UNCHANGED <<regVars, taskVars, op, target, held, joining, view, enabled, givenUp>>

AwaitFailed(c) ==
  /\ pc[c] = "await"
  /\ state[target[c]] = "Failed"
  /\ Goto(c, "discard")
  /\ UNCHANGED <<regVars, taskVars, op, target, held, joining, view, enabled, givenUp>>

AwaitTimeout(c) ==
  /\ pc[c] = "await"
  /\ state[target[c]] \notin {"Running", "Failed"}
  /\ Goto(c, "discard")
  /\ UNCHANGED <<regVars, taskVars, op, target, held, joining, view, enabled, givenUp>>

(* Variant: the started hook is not called.                                *)
StartedHook_Skipped(c) ==
  /\ pc[c] = "started"
  /\ Return(c)
  /\ UNCHANGED <<state, slot, taskVars, op, target, held, joining, view,
                 enabled, givenUp>>

StartedHook(c) ==
  /\ pc[c] = "started"
  /\ Hook(target[c], TRUE)
  /\ Return(c)
  /\ UNCHANGED <<state, slot, taskVars, op, target, held, joining, view, givenUp>>

(* Variant: the entry is removed but its task is not told to stop.         *)
Discard_Forgets(c) ==
  LET s == target[c] IN
  /\ pc[c] = "discard"
  /\ slot' = [slot EXCEPT ![s] = NoTask]
  /\ Goto(c, "discardCheck")
  /\ UNCHANGED <<state, gate, taskVars, op, target, held, joining, view,
                 enabled, givenUp>>

(* discard: whatever task is in the slot now is removed and cancelled.     *)
Discard(c) ==
  LET s == target[c] IN
  /\ pc[c] = "discard"
  /\ IF slot[s] = NoTask
       THEN Goto(c, "discardCheck") /\ UNCHANGED <<slot, cancelled, joining>>
       ELSE /\ Goto(c, "discardJoin")
            /\ slot' = [slot EXCEPT ![s] = NoTask]
            /\ cancelled' = cancelled \cup {slot[s]}
            /\ joining' = [joining EXCEPT ![c] = {slot[s]}]
  /\ UNCHANGED <<state, gate, phase, svc, verdict, op, target, held, view,
                 enabled, givenUp>>

DiscardJoin(c) ==
  /\ pc[c] = "discardJoin"
  /\ StuckTasks \/ \A t \in joining[c] : phase[t] = "ended"
  /\ joining' = [joining EXCEPT ![c] = {}]
  /\ Goto(c, "discardCheck")
  /\ UNCHANGED <<regVars, taskVars, op, target, held, view, enabled, givenUp>>

(* The state is read, then recorded: two acquisitions of the registry.     *)
DiscardCheck(c) ==
  /\ pc[c] = "discardCheck"
  /\ IF state[target[c]] = "Starting"
       THEN Goto(c, "discardRecord") /\ UNCHANGED gate
       ELSE Return(c)
  /\ UNCHANGED <<state, slot, taskVars, op, target, held, joining, view,
                 enabled, givenUp>>

DiscardRecord(c) ==
  /\ pc[c] = "discardRecord"
  /\ Record(target[c], "Failed")
  /\ Return(c)
  /\ UNCHANGED <<slot, taskVars, op, target, held, joining, view, enabled, givenUp>>

-----------------------------------------------------------------------------
(* stop(id), also run by start() to reset a failed service                 *)

StopCall(c, s) ==
  /\ pc[c] = "idle"
  /\ op' = [op EXCEPT ![c] = "stop"]
  /\ target' = [target EXCEPT ![c] = s]
  /\ Goto(c, "stopEnter")
  /\ UNCHANGED <<regVars, taskVars, held, joining, view, enabled, givenUp>>

StopEnter(c) ==
  LET st == state[target[c]] IN
  /\ pc[c] = "stopEnter"
  /\ IF st = "Stopped"
       THEN Return(c) /\ UNCHANGED view
       ELSE /\ Goto(c, "stopTake")
            /\ view' = [view EXCEPT ![c] = IsLive(st)]
            /\ UNCHANGED gate
  /\ UNCHANGED <<state, slot, taskVars, op, target, held, joining, enabled, givenUp>>

StopTake(c) ==
  LET s == target[c] IN
  /\ pc[c] = "stopTake"
  /\ IF slot[s] = NoTask
       THEN /\ Goto(c, "stopOrphan")
            /\ view' = [view EXCEPT ![c] = FALSE]
            /\ UNCHANGED <<slot, held>>
       ELSE /\ Goto(c, "stopMark")
            /\ slot' = [slot EXCEPT ![s] = NoTask]
            /\ held' = [held EXCEPT ![c] = {slot[s]}]
            /\ UNCHANGED view
  /\ UNCHANGED <<state, gate, taskVars, op, target, joining, enabled, givenUp>>

(* What was read at stopEnter decides; it may be stale by now.  If the     *)
(* transition is illegal `?' drops the entry, which cancels the task.      *)
StopMark(c) ==
  LET s  == target[c]
      ok == view[c] => CanTransition(state[s], "Stopping")
  IN
  /\ pc[c] = "stopMark"
  /\ view' = [view EXCEPT ![c] = FALSE]
  /\ cancelled' = cancelled \cup held[c]
  /\ held' = [held EXCEPT ![c] = {}]
  /\ IF ok
       THEN /\ state' = IF view[c]
                          THEN [state EXCEPT ![s] = "Stopping"] ELSE state
            /\ joining' = [joining EXCEPT ![c] = held[c]]
            /\ Goto(c, "stopJoin")
            /\ UNCHANGED gate
       ELSE /\ Return(c)
            /\ UNCHANGED <<state, joining>>
  /\ UNCHANGED <<slot, phase, svc, verdict, op, target, enabled, givenUp>>

StopJoin(c) ==
  /\ pc[c] = "stopJoin"
  /\ \A t \in joining[c] : phase[t] = "ended"
  /\ joining' = [joining EXCEPT ![c] = {}]
  /\ Goto(c, "stopSettle")
  /\ UNCHANGED <<regVars, taskVars, op, target, held, view, enabled, givenUp>>

(* Variant: the join has no deadline.                                      *)
StopJoinTimeout_Never(c) == FALSE

StopJoinTimeout(c) ==
  /\ pc[c] = "stopJoin"
  /\ StuckTasks
  /\ \E t \in joining[c] : phase[t] # "ended"
  /\ joining' = [joining EXCEPT ![c] = {}]
  /\ Goto(c, "stopStuck")
  /\ UNCHANGED <<regVars, taskVars, op, target, held, view, enabled, givenUp>>

StopStuck(c) ==
  /\ pc[c] = "stopStuck"
  /\ Record(target[c], "Failed")
  /\ Return(c)
  /\ UNCHANGED <<slot, taskVars, op, target, held, joining, view, enabled, givenUp>>

(* settle_stopped after a join; the same record when no task was left.     *)
StopSettle(c) ==
  /\ pc[c] \in {"stopSettle", "stopOrphan"}
  /\ Record(target[c], "Stopped")
  /\ Goto(c, "stopHook")
  /\ UNCHANGED <<slot, gate, taskVars, op, target, held, joining, view,
                 enabled, givenUp>>

StopHook(c) ==
  /\ pc[c] = "stopHook"
  /\ Hook(target[c], FALSE)
  /\ StopSucceeds(c)
  /\ UNCHANGED <<state, slot, taskVars, op, target, held, joining, view, givenUp>>

-----------------------------------------------------------------------------
(* shutdown(): takes the whole map, marks and cancels every entry, then    *)
(* joins them.  It takes no gate and calls no hook.  The map's order is    *)
(* abstracted to any order.  An empty map returns at once.                 *)

Entries == { slot[s] : s \in Services } \ {NoTask}

(* Variant: the entries are copied and the map is left as it was.          *)
ShutdownCall_Copies(c) ==
  /\ pc[c] = "idle"
  /\ Entries # {}
  /\ held' = [held EXCEPT ![c] = Entries]
  /\ op' = [op EXCEPT ![c] = "shutdown"]
  /\ Goto(c, "downCheck")
  /\ UNCHANGED <<regVars, taskVars, target, joining, view, enabled, givenUp>>

ShutdownCall(c) ==
  /\ pc[c] = "idle"
  /\ Entries # {}
  /\ slot' = [s \in Services |-> NoTask]
  /\ held' = [held EXCEPT ![c] = Entries]
  /\ op' = [op EXCEPT ![c] = "shutdown"]
  /\ Goto(c, "downCheck")
  /\ UNCHANGED <<state, gate, taskVars, target, joining, view, enabled, givenUp>>

ShutdownCheck(c) ==
  /\ pc[c] = "downCheck"
  /\ \E t \in held[c] :
       /\ target' = [target EXCEPT ![c] = svc[t]]
       /\ view' = [view EXCEPT ![c] = IsLive(state[svc[t]])]
  /\ Goto(c, "downMark")
  /\ UNCHANGED <<regVars, taskVars, op, held, joining, enabled, givenUp>>

(* As in stop(): the transition may have become illegal since the state    *)
(* was read; `?' then drops, and so cancels, every entry not yet marked.   *)
ShutdownMark(c) ==
  LET s     == target[c]
      entry == { t \in held[c] : svc[t] = s }
      ok    == view[c] => CanTransition(state[s], "Stopping")
  IN
  /\ pc[c] = "downMark"
  /\ view' = [view EXCEPT ![c] = FALSE]
  /\ IF ok
       THEN /\ state' = IF view[c]
                          THEN [state EXCEPT ![s] = "Stopping"] ELSE state
            /\ cancelled' = cancelled \cup entry
            /\ held' = [held EXCEPT ![c] = @ \ entry]
            /\ joining' = [joining EXCEPT ![c] = @ \cup entry]
            /\ Goto(c, IF held[c] = entry THEN "downJoin" ELSE "downCheck")
            /\ UNCHANGED gate
       ELSE /\ cancelled' = cancelled \cup held[c]
            /\ held' = [held EXCEPT ![c] = {}]
            /\ joining' = [joining EXCEPT ![c] = {}]
            /\ Return(c)
            /\ UNCHANGED state
  /\ UNCHANGED <<slot, phase, svc, verdict, op, target, enabled, givenUp>>

(* One entry is settled: `stopped' when its task ended, `failed' when the  *)
(* shared deadline passed first.                                           *)
ShutdownJoin(c) ==
  /\ pc[c] = "downJoin"
  /\ \E t \in joining[c] :
       /\ \/ phase[t] = "ended" /\ Record(svc[t], "Stopped")
          \/ phase[t] # "ended" /\ StuckTasks /\ Record(svc[t], "Failed")
       /\ joining' = [joining EXCEPT ![c] = @ \ {t}]
       /\ IF joining[c] = {t} THEN Return(c)
                              ELSE UNCHANGED <<pc, gate>>
  /\ UNCHANGED <<slot, taskVars, op, target, held, view, enabled, givenUp>>

-----------------------------------------------------------------------------
(* A request of the control socket has IO_TIMEOUT for all it does; after   *)
(* that the future of the call it made is dropped where it awaits: its gate*)
(* and its handles are dropped, nothing is recorded and no hook is called. *)
Awaits == {"prepare", "await", "discardJoin", "stopJoin", "downJoin"}

GiveUp(c) ==
  /\ pc[c] \in Awaits
  /\ givenUp' = IF pc[c] \in {"await", "discardJoin"} THEN givenUp \cup {target[c]}
                                                     ELSE givenUp
  /\ joining' = [joining EXCEPT ![c] = {}]
  /\ Return(c)
  /\ UNCHANGED <<state, slot, taskVars, op, target, held, view, enabled>>

-----------------------------------------------------------------------------
(* A task: supervise() around one service's run().                         *)

(* ServiceReporter::ready; a rejected transition is an error run returns.  *)
TaskReady(t) ==
  LET legal == CanTransition(state[svc[t]], "Running") IN
  /\ phase[t] = "up"
  /\ state' = IF legal THEN [state EXCEPT ![svc[t]] = "Running"] ELSE state
  /\ phase' = [phase EXCEPT ![t] = IF legal THEN "serving" ELSE "refused"]
  /\ UNCHANGED <<slot, gate, svc, verdict, cancelled, callVars, enabled, givenUp>>

(* What supervise makes of run()'s result: a clean return is a stop only   *)
(* while the service is stopping; a stopped service is left alone.         *)
Verdict(clean, seen) ==
  CASE seen = "Stopped"           -> "keep"
    [] clean /\ seen = "Stopping" -> "Stopped"
    [] OTHER                      -> "Failed"

(* run() returns and supervise reads the state it will judge by.           *)
TaskReturn(t, clean) ==
  /\ phase[t] \in {"up", "serving", "refused"}
  /\ clean => phase[t] # "refused"
  /\ phase' = [phase EXCEPT ![t] = "returned"]
  /\ verdict' = [verdict EXCEPT ![t] = Verdict(clean, state[svc[t]])]
  /\ UNCHANGED <<regVars, svc, cancelled, callVars, enabled, givenUp>>

TaskRecord(t) ==
  /\ phase[t] = "returned"
  /\ IF verdict[t] = "keep" THEN UNCHANGED state
                            ELSE Record(svc[t], verdict[t])
  /\ phase' = [phase EXCEPT ![t] = "ended"]
  /\ UNCHANGED <<slot, gate, svc, verdict, cancelled, callVars, enabled, givenUp>>

-----------------------------------------------------------------------------
StartStep(c) ==
  \/ StartReset(c) \/ StartSpawn(c) \/ StartSpawnRejected(c)
  \/ AwaitReady(c) \/ AwaitFailed(c) \/ AwaitTimeout(c) \/ StartedHook(c)
  \/ Discard(c) \/ DiscardJoin(c) \/ DiscardCheck(c) \/ DiscardRecord(c)

StopStep(c) ==
  \/ StopEnter(c) \/ StopTake(c) \/ StopMark(c) \/ StopJoin(c)
  \/ StopJoinTimeout(c) \/ StopStuck(c) \/ StopSettle(c) \/ StopHook(c)

ShutdownStep(c) == ShutdownCheck(c) \/ ShutdownMark(c) \/ ShutdownJoin(c)

(* Steps a caller takes by itself once its call is past the UAC prompt.    *)
CallerStep(c) == StartStep(c) \/ StopStep(c) \/ ShutdownStep(c)

Call(c) ==
  \/ \E s \in Services : StartCall(c, s) \/ StopCall(c, s)
  \/ ShutdownCall(c)

Prompted(c) == StartPrepared(c) \/ StartRefused(c)

TaskStep(t) ==
  TaskReady(t) \/ (\E clean \in BOOLEAN : TaskReturn(t, clean)) \/ TaskRecord(t)

Next ==
  \/ \E c \in Callers : Call(c) \/ Prompted(c) \/ CallerStep(c) \/ GiveUp(c)
  \/ \E t \in Tasks : TaskStep(t)

(* A task that keeps the RuntimeService contract returns once cancelled.   *)
CancelledReturns(t) ==
  ~StuckTasks /\ t \in cancelled /\ \E clean \in BOOLEAN : TaskReturn(t, clean)

(* Callers are futures the runtime polls, deadlines pass, and supervise    *)
(* runs to its end.  Nothing makes a user call, answer UAC, or a service   *)
(* become ready, and no call has to be given up.                           *)
Fairness ==
  /\ \A c \in Callers : WF_vars(CallerStep(c))
  /\ \A t \in Tasks : WF_vars(TaskRecord(t)) /\ WF_vars(CancelledReturns(t))

Spec == Init /\ [][Next]_vars /\ Fairness

-----------------------------------------------------------------------------
(* Properties.                                                             *)

(* Every variable has its type: the registry, the map and the gates hold   *)
(* the values coordinator.rs declares.                                     *)
TypeOK ==
  /\ state \in [Services -> ServiceState]
  /\ slot \in [Services -> Tasks \cup {NoTask}]
  /\ gate \in [Services -> Callers \cup {NoCaller}]
  /\ phase \in [Tasks -> Phase]
  /\ svc \in [Tasks -> Services]
  /\ verdict \in [Tasks -> {"keep", "Stopped", "Failed"}]
  /\ cancelled \in SUBSET Tasks
  /\ pc \in [Callers -> Steps]
  /\ op \in [Callers -> {"start", "stop", "shutdown"}]
  /\ target \in [Callers -> Services]
  /\ held \in [Callers -> SUBSET Tasks]
  /\ joining \in [Callers -> SUBSET Tasks]
  /\ view \in [Callers -> BOOLEAN]
  /\ enabled \in BOOLEAN
  /\ givenUp \in SUBSET Services

(* A task that has not been cancelled is still reachable for cancelling:   *)
(* it is in the running map, or a stop or shutdown holds its entry.        *)
(* coordinator.rs drops entries on several error paths; runtime.rs says    *)
(* a dropped handle cancels, "so services cannot be orphaned".             *)
NoOrphan ==
  \A t \in Tasks :
    Alive(t) /\ t \notin cancelled =>
      slot[svc[t]] = t \/ \E c \in Callers : t \in held[c]

(* The entry of a task has one owner: the map or one caller.  Two owners   *)
(* would let one call join or drop a task another one still manages.       *)
OneOwner ==
  /\ \A s \in Services : slot[s] # NoTask =>
       /\ svc[slot[s]] = s
       /\ slot[s] \notin cancelled
       /\ \A c \in Callers : slot[s] \notin held[c]
  /\ \A c, d \in Callers : c # d => held[c] \cap held[d] = {}

(* The inductive form of the two: every spawned task that was not cancelled*)
(* has exactly one owner, and only a call between taking an entry and      *)
(* marking it holds one.                                                   *)
SlotsOwn ==
  \A s \in Services : slot[s] # NoTask =>
    /\ svc[slot[s]] = s
    /\ phase[slot[s]] # "unborn"
    /\ slot[s] \notin cancelled
    /\ \A c \in Callers : slot[s] \notin held[c]

HoldersOwn ==
  /\ \A c \in Callers : held[c] # {} => pc[c] \in {"stopMark", "downCheck", "downMark"}
  /\ \A c \in Callers : \A t \in held[c] : phase[t] # "unborn" /\ t \notin cancelled
  /\ \A c, d \in Callers : c # d => held[c] \cap held[d] = {}

TasksOwned ==
  \A t \in Tasks :
    /\ t \in cancelled => phase[t] # "unborn"
    /\ phase[t] # "unborn" /\ t \notin cancelled =>
         slot[svc[t]] = t \/ \E c \in Callers : t \in held[c]

OwnershipInv == SlotsOwn /\ HoldersOwn /\ TasksOwned

(* What the registry says is live is never a ghost, at no step of any call:*)
(* a service that is starting, running or stopping has a task that is not  *)
(* at its end, so that whoever reads it has something to wait for; and one *)
(* that is starting has the start call that will see it through            *)
(* (await_ready, discard), unless it was that call which was given up.     *)
Watches(c, s) ==
  /\ target[c] = s
  /\ pc[c] \in {"await", "discard", "discardJoin", "discardCheck", "discardRecord"}

LiveIsReal ==
  \A s \in Services :
    /\ IsLive(state[s]) => \E t \in Tasks : svc[t] = s /\ Alive(t)
    /\ state[s] = "Starting" => s \in givenUp \/ \E c \in Callers : Watches(c, s)

(* "How long a service may take to report ready before the shell reports a *)
(* timeout" (START_TIMEOUT): a starting service has a call with a deadline.*)
StartingIsWatched ==
  \A s \in Services : state[s] = "Starting" => \E c \in Callers : Watches(c, s)

(* Once past the UAC prompt every call returns, whatever tasks and other   *)
(* callers do: deadlines bound every wait of start, stop and shutdown.     *)
(* Bound: where the entry a late stop left behind was removed after all, a *)
(* start may find no task left that it could spawn.                        *)
NoTaskLeft(c) == pc[c] = "spawn" /\ \A t \in Tasks : phase[t] # "unborn"
CallsReturn ==
  \A c \in Callers :
    pc[c] \notin {"idle", "prepare"} ~> pc[c] = "idle" \/ NoTaskLeft(c)

(* What the coordinator promises about task handles, as a specification of *)
(* its own.  A task whose entry nobody owns would map to "lost".           *)
StageOf(t) ==
  IF phase[t] = "unborn" THEN "new"
  ELSE IF t \in cancelled THEN "cancelled"
  ELSE IF \E c \in Callers : t \in held[c] THEN "claimed"
  ELSE IF slot[svc[t]] = t THEN "managed"
  ELSE "lost"

Ownership == INSTANCE TaskOwnership
               WITH stage <- [t \in Tasks |-> StageOf(t)], home <- svc

(* Every step of the coordinator is a step TaskOwnership allows: a service *)
(* gets a new task only while it has no managed one, and a task leaves the *)
(* map only to be cancelled.                                               *)
OwnershipRefined == Ownership!Spec

-----------------------------------------------------------------------------
(* Properties of the runs in which calls do not overlap or services keep   *)
(* their contract.                                                         *)

(* ServiceState::is_live, "whether a task exists that the shell still has  *)
(* to stop": a task in the map that has not ended is reported as live.     *)
ManagedTaskIsLive ==
  \A s \in Services :
    slot[s] # NoTask /\ Alive(slot[s]) => IsLive(state[s])

(* ServiceState::Stopped, "not started, or stopped after having run": no   *)
(* task of a stopped service is left running.                              *)
StoppedHasNoTask ==
  \A s \in Services :
    state[s] = "Stopped" => \A t \in Tasks : svc[t] = s => ~Alive(t)

(* A service never has two tasks at once: both would bind the same port.   *)
OneTaskPerService ==
  \A t, u \in Tasks : Alive(t) /\ Alive(u) /\ svc[t] = svc[u] => t = u

(* shutdown() "stops every service the shell started": when it returns,    *)
(* and is not given up, the task of every entry it took has ended.         *)
JoinsAll ==
  \A c \in Callers :
    op[c] = "shutdown" /\ pc[c] # "idle" /\ pc'[c] = "idle" /\ ~GiveUp(c) =>
      \A t \in held[c] \cup joining[c] : phase[t] = "ended"
ShutdownJoinsAll == [][JoinsAll]_vars

(* "Persistent Server Sharing Across Reboots": when no call is in progress *)
(* and sharing runs, the flag that restores it at the next start is on,    *)
(* unless the start was given up before its hook.                          *)
RunningIsRemembered ==
  (\A c \in Callers : pc[c] = "idle") /\ state[ServerSharing] = "Running"
    => enabled \/ ServerSharing \in givenUp
=============================================================================
