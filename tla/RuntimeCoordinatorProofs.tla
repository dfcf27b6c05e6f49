---------------------- MODULE RuntimeCoordinatorProofs ----------------------
(* Theorems about RuntimeCoordinator, for any number of services, callers  *)
(* and tasks, and whether or not tasks keep their contract; and about its  *)
(* calls when they are made one at a time (MCRuntimeCoordinator).          *)
EXTENDS MCRuntimeCoordinator, TLAPS

(* The tuples of variables used by UNCHANGED.                              *)
USE DEF vars, regVars, taskVars, callVars

LEMMA InitTyped == Init => TypeOK
BY SharingAssumption DEF Init, TypeOK, ServiceState, Phase, Steps

LEMMA RecordTyped ==
  ASSUME TypeOK, NEW s \in Services, NEW to \in ServiceState, Record(s, to)
  PROVE  state' \in [Services -> ServiceState]
BY DEF TypeOK, Record

LEMMA ReturnTyped ==
  ASSUME TypeOK, NEW c \in Callers, Return(c)
  PROVE  /\ pc' \in [Callers -> Steps]
         /\ gate' \in [Services -> Callers \cup {NoCaller}]
BY DEF TypeOK, Return, Steps

LEMMA GotoTyped ==
  ASSUME TypeOK, NEW c \in Callers, NEW step \in Steps, Goto(c, step)
  PROVE  pc' \in [Callers -> Steps]
BY DEF TypeOK, Goto

LEMMA StepTyped == TypeOK /\ [Next]_vars => TypeOK'
<1> SUFFICES ASSUME TypeOK, [Next]_vars PROVE TypeOK'
  OBVIOUS
<1> USE DEF StartSteps, StopSteps, DownSteps
<1>1. ASSUME NEW c \in Callers, NEW s \in Services, StartCall(c, s) PROVE TypeOK'
  BY <1>1 DEF TypeOK, StartCall, Goto, Steps
<1>2. ASSUME NEW c \in Callers, StartPrepared(c) PROVE TypeOK'
  BY <1>2 DEF TypeOK, StartPrepared, Goto, Steps
<1>3. ASSUME NEW c \in Callers, StartRefused(c) PROVE TypeOK'
  BY <1>3, ReturnTyped DEF TypeOK, StartRefused
<1>4. ASSUME NEW c \in Callers, StartReset(c) PROVE TypeOK'
  BY <1>4 DEF TypeOK, StartReset, Goto, Steps
<1>5. ASSUME NEW c \in Callers, StartSpawn(c) PROVE TypeOK'
  BY <1>5 DEF TypeOK, StartSpawn, Goto, Steps, Phase, ServiceState
<1>6. ASSUME NEW c \in Callers, StartSpawnRejected(c) PROVE TypeOK'
  BY <1>6, ReturnTyped DEF TypeOK, StartSpawnRejected
<1>7. ASSUME NEW c \in Callers, AwaitReady(c) \/ AwaitFailed(c) \/ AwaitTimeout(c)
      PROVE  TypeOK'
  BY <1>7 DEF TypeOK, AwaitReady, AwaitFailed, AwaitTimeout, Goto, Steps
<1>8. ASSUME NEW c \in Callers, StartedHook(c) PROVE TypeOK'
  BY <1>8, ReturnTyped DEF TypeOK, StartedHook, Hook
<1>9. ASSUME NEW c \in Callers, Discard(c) PROVE TypeOK'
  BY <1>9 DEF TypeOK, Discard, Goto, Steps
<1>10. ASSUME NEW c \in Callers, DiscardJoin(c) PROVE TypeOK'
  BY <1>10 DEF TypeOK, DiscardJoin, Goto, Steps
<1>11. ASSUME NEW c \in Callers, DiscardCheck(c) PROVE TypeOK'
  BY <1>11, ReturnTyped DEF TypeOK, DiscardCheck, Goto, Steps
<1>12. ASSUME NEW c \in Callers, DiscardRecord(c) PROVE TypeOK'
  BY <1>12, ReturnTyped, RecordTyped DEF TypeOK, DiscardRecord, ServiceState
<1>13. ASSUME NEW c \in Callers, NEW s \in Services, StopCall(c, s) PROVE TypeOK'
  BY <1>13 DEF TypeOK, StopCall, Goto, Steps
<1>14. ASSUME NEW c \in Callers, StopEnter(c) PROVE TypeOK'
  <2>1. view' \in [Callers -> BOOLEAN]
    <3>1. IsLive(state[target[c]]) \in BOOLEAN
      BY DEF IsLive
    <3>2. view' = view \/ view' = [view EXCEPT ![c] = IsLive(state[target[c]])]
      BY <1>14 DEF StopEnter
    <3> QED BY <3>1, <3>2 DEF TypeOK
  <2> QED BY <1>14, <2>1, ReturnTyped DEF TypeOK, StopEnter, Goto, Steps
<1>15. ASSUME NEW c \in Callers, StopTake(c) PROVE TypeOK'
  <2>1. view' \in [Callers -> BOOLEAN]
    BY <1>15 DEF TypeOK, StopTake
  <2> QED BY <1>15, <2>1 DEF TypeOK, StopTake, Goto, Steps
<1>16. ASSUME NEW c \in Callers, StopMark(c) PROVE TypeOK'
  <2>1. state' \in [Services -> ServiceState]
    BY <1>16 DEF TypeOK, StopMark, ServiceState
  <2>2. /\ pc' \in [Callers -> Steps]
        /\ gate' \in [Services -> Callers \cup {NoCaller}]
    BY <1>16, ReturnTyped DEF TypeOK, StopMark, Goto, Steps
  <2> QED BY <1>16, <2>1, <2>2 DEF TypeOK, StopMark
<1>17. ASSUME NEW c \in Callers, StopJoin(c) \/ StopJoinTimeout(c) PROVE TypeOK'
  BY <1>17 DEF TypeOK, StopJoin, StopJoinTimeout, Goto, Steps
<1>18. ASSUME NEW c \in Callers, StopStuck(c) PROVE TypeOK'
  BY <1>18, ReturnTyped, RecordTyped DEF TypeOK, StopStuck, ServiceState
<1>19. ASSUME NEW c \in Callers, StopSettle(c) PROVE TypeOK'
  BY <1>19, RecordTyped DEF TypeOK, StopSettle, ServiceState, Goto, Steps
<1>20. ASSUME NEW c \in Callers, StopHook(c) PROVE TypeOK'
  <2>1. /\ pc' \in [Callers -> Steps]
        /\ gate' \in [Services -> Callers \cup {NoCaller}]
    BY <1>20, ReturnTyped DEF TypeOK, StopHook, StopSucceeds, Steps
  <2> QED BY <1>20, <2>1 DEF TypeOK, StopHook, Hook
<1>21. ASSUME NEW c \in Callers, ShutdownCall(c) PROVE TypeOK'
  BY <1>21 DEF TypeOK, ShutdownCall, Entries, Goto, Steps
<1>22. ASSUME NEW c \in Callers, ShutdownCheck(c) PROVE TypeOK'
  BY <1>22 DEF TypeOK, ShutdownCheck, Goto, Steps, IsLive
<1>23. ASSUME NEW c \in Callers, ShutdownMark(c) PROVE TypeOK'
  <2>1. state' \in [Services -> ServiceState]
    BY <1>23 DEF TypeOK, ShutdownMark, ServiceState
  <2>2. /\ pc' \in [Callers -> Steps]
        /\ gate' \in [Services -> Callers \cup {NoCaller}]
    BY <1>23, ReturnTyped DEF TypeOK, ShutdownMark, Goto, Steps
  <2>3. /\ held' \in [Callers -> SUBSET Tasks]
        /\ joining' \in [Callers -> SUBSET Tasks]
        /\ cancelled' \in SUBSET Tasks
    BY <1>23 DEF TypeOK, ShutdownMark
  <2> QED BY <1>23, <2>1, <2>2, <2>3 DEF TypeOK, ShutdownMark
<1>24. ASSUME NEW c \in Callers, ShutdownJoin(c) PROVE TypeOK'
  <2>1. PICK t \in joining[c] :
          /\ Record(svc[t], "Stopped") \/ Record(svc[t], "Failed")
          /\ joining' = [joining EXCEPT ![c] = @ \ {t}]
          /\ IF joining[c] = {t} THEN Return(c) ELSE UNCHANGED <<pc, gate>>
    BY <1>24 DEF ShutdownJoin
  <2>2. svc[t] \in Services
    BY <2>1 DEF TypeOK
  <2>3. state' \in [Services -> ServiceState]
    BY <2>1, <2>2, RecordTyped DEF ServiceState
  <2>4. /\ pc' \in [Callers -> Steps]
        /\ gate' \in [Services -> Callers \cup {NoCaller}]
    BY <2>1, ReturnTyped DEF TypeOK
  <2> QED BY <1>24, <2>1, <2>3, <2>4 DEF TypeOK, ShutdownJoin
<1>25. ASSUME NEW t \in Tasks, TaskReady(t) PROVE TypeOK'
  BY <1>25 DEF TypeOK, TaskReady, Phase, ServiceState
<1>26. ASSUME NEW t \in Tasks, NEW clean \in BOOLEAN, TaskReturn(t, clean)
       PROVE  TypeOK'
  BY <1>26 DEF TypeOK, TaskReturn, Phase, Verdict
<1>27. ASSUME NEW t \in Tasks, TaskRecord(t) PROVE TypeOK'
  BY <1>27 DEF TypeOK, TaskRecord, Record, Phase, ServiceState
<1>28. ASSUME NEW c \in Callers, GiveUp(c) PROVE TypeOK'
  <2>1. givenUp' \in SUBSET Services
    BY <1>28 DEF TypeOK, GiveUp
  <2> QED BY <1>28, <2>1, ReturnTyped DEF TypeOK, GiveUp
<1>29. CASE UNCHANGED vars
  BY <1>29 DEF TypeOK
<1> QED
  BY <1>1, <1>2, <1>3, <1>4, <1>5, <1>6, <1>7, <1>8, <1>9, <1>10, <1>11, <1>12,
     <1>13, <1>14, <1>15, <1>16, <1>17, <1>18, <1>19, <1>20, <1>21, <1>22,
     <1>23, <1>24, <1>25, <1>26, <1>27, <1>28, <1>29
     DEF Next, Call, Prompted, CallerStep, StartStep, StopStep, ShutdownStep,
         TaskStep

(* Every variable keeps its type in every behaviour of the coordinator.    *)
THEOREM TypeCorrect == Spec => []TypeOK
BY InitTyped, StepTyped, PTL DEF Spec

-----------------------------------------------------------------------------
(* Ownership.  The steps fall into four groups: those that touch no entry, *)
(* those that move one into the map, out of it, or to the cancelled set.   *)

LEMMA InitOwned == Init => OwnershipInv
BY DEF Init, OwnershipInv, SlotsOwn, HoldersOwn, TasksOwned

(* A caller's step that touches no entry and is not taken by a holder.     *)
LEMMA CallerKeepsOwnership ==
  ASSUME TypeOK, OwnershipInv, NEW c \in Callers, NEW step \in Steps,
         pc[c] \notin {"stopMark", "downCheck", "downMark"},
         pc' = [pc EXCEPT ![c] = step],
         UNCHANGED <<slot, phase, svc, cancelled, held>>
  PROVE  OwnershipInv'
<1>1. \A d \in Callers : held[d] # {} => pc'[d] = pc[d]
  BY DEF TypeOK, OwnershipInv, HoldersOwn
<1> QED
  BY <1>1 DEF OwnershipInv, SlotsOwn, HoldersOwn, TasksOwned

(* A task's step: it has been spawned and stays so.                        *)
LEMMA TaskKeepsOwnership ==
  ASSUME TypeOK, OwnershipInv, NEW t \in Tasks, NEW to \in Phase \ {"unborn"},
         phase[t] # "unborn",
         phase' = [phase EXCEPT ![t] = to],
         UNCHANGED <<slot, svc, cancelled, held, pc>>
  PROVE  OwnershipInv'
<1>1. \A u \in Tasks : (phase'[u] = "unborn") <=> (phase[u] = "unborn")
  BY DEF TypeOK
<1>2. /\ \A s \in Services : slot[s] # NoTask => slot[s] \in Tasks
      /\ \A c \in Callers : held[c] \subseteq Tasks
  BY DEF TypeOK
<1> QED
  BY <1>1, <1>2 DEF OwnershipInv, SlotsOwn, HoldersOwn, TasksOwned

(* shutdown cancels some of the entries it holds, and holds none at rest.  *)
LEMMA MarkCancels ==
  ASSUME NEW c \in Callers, ShutdownMark(c)
  PROVE  \E T \in SUBSET held[c], step \in Steps :
           /\ cancelled' = cancelled \cup T
           /\ held' = [held EXCEPT ![c] = @ \ T]
           /\ pc' = [pc EXCEPT ![c] = step]
           /\ held[c] # T => step = "downCheck"
<1> USE DEF StartSteps, StopSteps, DownSteps
<1> DEFINE entry == { t \in held[c] : svc[t] = target[c] }
           next  == IF held[c] = entry THEN "downJoin" ELSE "downCheck"
<1>1. CASE view[c] => CanTransition(state[target[c]], "Stopping")
  <2>1. /\ cancelled' = cancelled \cup entry
        /\ held' = [held EXCEPT ![c] = @ \ entry]
        /\ pc' = [pc EXCEPT ![c] = next]
    BY <1>1 DEF ShutdownMark, Goto
  <2>2. entry \in SUBSET held[c] /\ next \in Steps
    BY DEF Steps
  <2> QED BY <2>1, <2>2
<1>2. CASE ~(view[c] => CanTransition(state[target[c]], "Stopping"))
  <2>1. /\ cancelled' = cancelled \cup held[c]
        /\ held' = [held EXCEPT ![c] = {}]
        /\ pc' = [pc EXCEPT ![c] = "idle"]
    BY <1>2 DEF ShutdownMark, Return
  <2>2. held' = [held EXCEPT ![c] = @ \ held[c]]
    BY <2>1
  <2> QED BY <2>1, <2>2 DEF Steps
<1> QED BY <1>1, <1>2

LEMMA StepOwned == TypeOK /\ OwnershipInv /\ [Next]_vars => OwnershipInv'
<1> SUFFICES ASSUME TypeOK, OwnershipInv, [Next]_vars PROVE OwnershipInv'
  OBVIOUS
<1> USE DEF StartSteps, StopSteps, DownSteps
<1>1. ASSUME NEW c \in Callers, NEW s \in Services, StartCall(c, s)
      PROVE  OwnershipInv'
  BY <1>1, CallerKeepsOwnership DEF StartCall, Goto, Steps
<1>2. ASSUME NEW c \in Callers,
             \/ StartPrepared(c) \/ StartReset(c) \/ AwaitReady(c)
             \/ AwaitFailed(c) \/ AwaitTimeout(c)
      PROVE  OwnershipInv'
  BY <1>2, CallerKeepsOwnership
     DEF StartPrepared, StartReset, AwaitReady, AwaitFailed, AwaitTimeout, Goto,
         Steps
<1>3. ASSUME NEW c \in Callers,
             StartRefused(c) \/ StartSpawnRejected(c) \/ StartedHook(c) \/ GiveUp(c)
      PROVE  OwnershipInv'
  BY <1>3, CallerKeepsOwnership
     DEF StartRefused, StartSpawnRejected, StartedHook, GiveUp, Awaits, Return, Steps
<1>4. ASSUME NEW c \in Callers, StartSpawn(c) PROVE OwnershipInv'
  <2> DEFINE s == target[c]
  <2>1. PICK t \in Tasks :
          /\ phase[t] = "unborn"
          /\ phase' = [phase EXCEPT ![t] = "up"]
          /\ svc' = [svc EXCEPT ![t] = s]
          /\ slot' = [slot EXCEPT ![s] = t]
    BY <1>4 DEF StartSpawn
  <2>2. /\ s \in Services
        /\ slot[s] = NoTask
        /\ pc[c] = "spawn"
        /\ pc' = [pc EXCEPT ![c] = "await"]
        /\ UNCHANGED <<cancelled, held>>
    BY <1>4 DEF StartSpawn, Goto, TypeOK
  (* No entry of an unborn task exists anywhere.                           *)
  <2>3. /\ \A r \in Services : slot[r] # t
        /\ \A d \in Callers : t \notin held[d]
        /\ t \notin cancelled
    BY <2>1, NoTaskAssumption DEF OwnershipInv, SlotsOwn, HoldersOwn, TasksOwned
  <2>4. SlotsOwn'
    BY <2>1, <2>2, <2>3 DEF TypeOK, OwnershipInv, SlotsOwn
  <2>5. HoldersOwn'
    BY <2>1, <2>2, <2>3 DEF TypeOK, OwnershipInv, HoldersOwn
  <2>6. TasksOwned'
    BY <2>1, <2>2, <2>3, NoTaskAssumption DEF TypeOK, OwnershipInv, TasksOwned
  <2> QED BY <2>4, <2>5, <2>6 DEF OwnershipInv
<1>5. ASSUME NEW c \in Callers, Discard(c) PROVE OwnershipInv'
  <2>1. CASE slot[target[c]] = NoTask
    BY <1>5, <2>1, CallerKeepsOwnership DEF Discard, Goto, Steps
  <2>2. CASE slot[target[c]] # NoTask
    <3> DEFINE s == target[c]
    <3>1. /\ s \in Services
          /\ slot[s] \in Tasks
          /\ pc[c] = "discard"
          /\ pc' = [pc EXCEPT ![c] = "discardJoin"]
          /\ slot' = [slot EXCEPT ![s] = NoTask]
          /\ cancelled' = cancelled \cup {slot[s]}
          /\ UNCHANGED <<phase, svc, held>>
      BY <1>5, <2>2 DEF Discard, Goto, TypeOK
    <3>2. \A r \in Services \ {s} : slot[r] # NoTask => slot[r] # slot[s]
      BY <2>2, <3>1 DEF OwnershipInv, SlotsOwn
    <3>3. SlotsOwn'
      BY <3>1, <3>2 DEF TypeOK, OwnershipInv, SlotsOwn
    <3>4. HoldersOwn'
      BY <2>2, <3>1 DEF TypeOK, OwnershipInv, SlotsOwn, HoldersOwn
    <3>5. TasksOwned'
      BY <2>2, <3>1 DEF TypeOK, OwnershipInv, SlotsOwn, TasksOwned
    <3> QED BY <3>3, <3>4, <3>5 DEF OwnershipInv
  <2> QED BY <2>1, <2>2
<1>6. ASSUME NEW c \in Callers, DiscardJoin(c) \/ DiscardCheck(c) \/ DiscardRecord(c)
      PROVE  OwnershipInv'
  BY <1>6, CallerKeepsOwnership
     DEF DiscardJoin, DiscardCheck, DiscardRecord, Return, Goto, Steps
<1>7. ASSUME NEW c \in Callers, NEW s \in Services, StopCall(c, s)
      PROVE  OwnershipInv'
  BY <1>7, CallerKeepsOwnership DEF StopCall, Goto, Steps
<1>8. ASSUME NEW c \in Callers,
             \/ StopEnter(c) \/ StopJoin(c) \/ StopJoinTimeout(c)
             \/ StopStuck(c) \/ StopSettle(c) \/ StopHook(c)
      PROVE  OwnershipInv'
  BY <1>8, CallerKeepsOwnership
     DEF StopEnter, StopJoin, StopJoinTimeout, StopStuck, StopSettle, StopHook,
         StopSucceeds, Return, Goto, Steps
<1>9. ASSUME NEW c \in Callers, StopTake(c) PROVE OwnershipInv'
  <2>1. CASE slot[target[c]] = NoTask
    BY <1>9, <2>1, CallerKeepsOwnership DEF StopTake, Goto, Steps
  <2>2. CASE slot[target[c]] # NoTask
    <3> DEFINE s == target[c]
    <3>1. /\ s \in Services
          /\ slot[s] \in Tasks
          /\ pc' = [pc EXCEPT ![c] = "stopMark"]
          /\ slot' = [slot EXCEPT ![s] = NoTask]
          /\ held' = [held EXCEPT ![c] = {slot[s]}]
          /\ UNCHANGED <<phase, svc, cancelled>>
      BY <1>9, <2>2 DEF StopTake, Goto, TypeOK
    <3>2. held[c] = {}
      BY <1>9 DEF StopTake, OwnershipInv, HoldersOwn
    <3>3. \A r \in Services \ {s} : slot[r] # NoTask => slot[r] # slot[s]
      BY <2>2, <3>1 DEF OwnershipInv, SlotsOwn
    <3>4. SlotsOwn'
      BY <3>1, <3>3 DEF TypeOK, OwnershipInv, SlotsOwn
    <3>5. HoldersOwn'
      BY <2>2, <3>1 DEF TypeOK, OwnershipInv, SlotsOwn, HoldersOwn
    <3>6. TasksOwned'
      BY <3>1, <3>2 DEF TypeOK, OwnershipInv, TasksOwned
    <3> QED BY <3>4, <3>5, <3>6 DEF OwnershipInv
  <2> QED BY <2>1, <2>2
<1>10. ASSUME NEW c \in Callers, StopMark(c) PROVE OwnershipInv'
  <2>1. PICK step \in Steps \ {"stopMark"} : pc' = [pc EXCEPT ![c] = step]
    BY <1>10 DEF StopMark, Return, Goto, Steps
  <2>2. /\ cancelled' = cancelled \cup held[c]
        /\ held' = [held EXCEPT ![c] = {}]
        /\ UNCHANGED <<slot, phase, svc>>
    BY <1>10 DEF StopMark
  <2>3. SlotsOwn'
    BY <2>2 DEF TypeOK, OwnershipInv, SlotsOwn
  <2>4. HoldersOwn'
    BY <2>1, <2>2 DEF TypeOK, OwnershipInv, HoldersOwn
  <2>5. TasksOwned'
    BY <2>2 DEF TypeOK, OwnershipInv, HoldersOwn, TasksOwned
  <2> QED BY <2>3, <2>4, <2>5 DEF OwnershipInv
<1>11. ASSUME NEW c \in Callers, ShutdownCall(c) PROVE OwnershipInv'
  <2>1. /\ slot' = [s \in Services |-> NoTask]
        /\ held' = [held EXCEPT ![c] = Entries]
        /\ pc' = [pc EXCEPT ![c] = "downCheck"]
        /\ UNCHANGED <<phase, svc, cancelled>>
    BY <1>11 DEF ShutdownCall, Goto
  <2>2. held[c] = {}
    BY <1>11 DEF ShutdownCall, OwnershipInv, HoldersOwn
  <2>3. \A t \in Entries :
          /\ phase[t] # "unborn"
          /\ t \notin cancelled
          /\ \A d \in Callers : t \notin held[d]
    BY DEF Entries, OwnershipInv, SlotsOwn
  <2>4. SlotsOwn'
    BY <2>1 DEF SlotsOwn
  <2>5. HoldersOwn'
    BY <2>1, <2>3 DEF TypeOK, OwnershipInv, HoldersOwn
  <2>6. TasksOwned'
    BY <2>1, <2>2, NoTaskAssumption DEF TypeOK, Entries, OwnershipInv, TasksOwned
  <2> QED BY <2>4, <2>5, <2>6 DEF OwnershipInv
<1>12. ASSUME NEW c \in Callers, ShutdownCheck(c) PROVE OwnershipInv'
  <2>1. /\ pc' = [pc EXCEPT ![c] = "downMark"]
        /\ UNCHANGED <<slot, phase, svc, cancelled, held>>
    BY <1>12 DEF ShutdownCheck, Goto
  <2> QED BY <2>1 DEF TypeOK, OwnershipInv, SlotsOwn, HoldersOwn, TasksOwned
<1>13. ASSUME NEW c \in Callers, ShutdownMark(c) PROVE OwnershipInv'
  <2>1. PICK T \in SUBSET held[c], step \in Steps :
          /\ cancelled' = cancelled \cup T
          /\ held' = [held EXCEPT ![c] = @ \ T]
          /\ pc' = [pc EXCEPT ![c] = step]
          /\ held[c] # T => step = "downCheck"
    BY <1>13, MarkCancels
  <2>2. UNCHANGED <<slot, phase, svc>>
    BY <1>13 DEF ShutdownMark
  <2>3. SlotsOwn'
    BY <2>1, <2>2 DEF TypeOK, OwnershipInv, SlotsOwn
  <2>4. HoldersOwn'
    BY <2>1, <2>2 DEF TypeOK, OwnershipInv, HoldersOwn
  <2>5. TasksOwned'
    BY <2>1, <2>2 DEF TypeOK, OwnershipInv, HoldersOwn, TasksOwned
  <2> QED BY <2>3, <2>4, <2>5 DEF OwnershipInv
<1>14. ASSUME NEW c \in Callers, ShutdownJoin(c) PROVE OwnershipInv'
  <2>1. /\ pc[c] = "downJoin"
        /\ UNCHANGED <<slot, phase, svc, cancelled, held>>
        /\ \/ pc' = [pc EXCEPT ![c] = "idle"]
           \/ pc' = pc
    BY <1>14 DEF ShutdownJoin, Return
  <2>2. CASE pc' = pc
    BY <2>1, <2>2 DEF OwnershipInv, SlotsOwn, HoldersOwn, TasksOwned
  <2>3. CASE pc' = [pc EXCEPT ![c] = "idle"]
    BY <2>1, <2>3, CallerKeepsOwnership DEF Steps
  <2> QED BY <2>1, <2>2, <2>3
<1>15. ASSUME NEW t \in Tasks, TaskReady(t) PROVE OwnershipInv'
  BY <1>15, TaskKeepsOwnership DEF TaskReady, Phase
<1>16. ASSUME NEW t \in Tasks, NEW clean \in BOOLEAN, TaskReturn(t, clean)
       PROVE  OwnershipInv'
  BY <1>16, TaskKeepsOwnership DEF TaskReturn, Phase
<1>17. ASSUME NEW t \in Tasks, TaskRecord(t) PROVE OwnershipInv'
  BY <1>17, TaskKeepsOwnership DEF TaskRecord, Phase
<1>18. CASE UNCHANGED vars
  BY <1>18 DEF OwnershipInv, SlotsOwn, HoldersOwn, TasksOwned
<1> QED
  BY <1>1, <1>2, <1>3, <1>4, <1>5, <1>6, <1>7, <1>8, <1>9, <1>10, <1>11, <1>12,
     <1>13, <1>14, <1>15, <1>16, <1>17, <1>18
     DEF Next, Call, Prompted, CallerStep, StartStep, StopStep, ShutdownStep,
         TaskStep

(* Every spawned task that was not cancelled has exactly one owner.        *)
THEOREM OwnershipInvariant == Spec => []OwnershipInv
BY InitTyped, StepTyped, InitOwned, StepOwned, PTL DEF Spec

(* No spawned task is out of reach for cancelling.                         *)
THEOREM NeverOrphaned == Spec => []NoOrphan
<1>1. OwnershipInv => NoOrphan
  BY DEF OwnershipInv, TasksOwned, NoOrphan, Alive
<1> QED BY <1>1, OwnershipInvariant, PTL

(* No two owners share an entry.                                           *)
THEOREM SingleOwner == Spec => []OneOwner
<1>1. OwnershipInv => OneOwner
  BY DEF OwnershipInv, SlotsOwn, HoldersOwn, OneOwner
<1> QED BY <1>1, OwnershipInvariant, PTL

-----------------------------------------------------------------------------
(* What is published as live is backed by a task.  The strengthening says  *)
(* which one: a task still to return, or one about to record an end which  *)
(* the state it finds accepts.                                             *)

Settles(t, s) ==
  /\ svc[t] = s
  /\ \/ phase[t] \in {"up", "serving", "refused"}
     \/ phase[t] = "returned" /\ CanTransition(state[s], verdict[t])

LiveSettles == \A s \in Services : IsLive(state[s]) => \E t \in Tasks : Settles(t, s)

StartWatched ==
  \A s \in Services :
    state[s] = "Starting" => s \in givenUp \/ \E c \in Callers : Watches(c, s)

LEMMA InitLive == Init => LiveSettles /\ StartWatched
BY DEF Init, LiveSettles, StartWatched, IsLive

(* What a live service may become: a task that could settle it still can,  *)
(* unless somebody else has settled it.                                    *)
LEMMA SettlesStays ==
  ASSUME TypeOK, LiveSettles, UNCHANGED <<phase, svc, verdict>>,
         \A s \in Services :
           IsLive(state'[s]) =>
             state'[s] = state[s] \/ (IsLive(state[s]) /\ state'[s] = "Stopping")
  PROVE  LiveSettles'
<1> SUFFICES ASSUME NEW s \in Services, IsLive(state'[s])
             PROVE  \E t \in Tasks : Settles(t, s)'
  BY DEF LiveSettles
<1>1. PICK t \in Tasks : Settles(t, s)
  BY DEF LiveSettles
<1>2. phase[t] = "returned" => CanTransition(state'[s], verdict[t])
  BY <1>1 DEF Settles, TypeOK, CanTransition, LegalMoves, IsLive
<1> QED
  BY <1>1, <1>2 DEF Settles, CanTransition

(* Recording the end of a service makes none live.                         *)
LEMMA RecordSettles ==
  ASSUME TypeOK, NEW s \in Services, NEW to \in {"Stopped", "Failed"},
         Record(s, to)
  PROVE  \A r \in Services : IsLive(state'[r]) => state'[r] = state[r]
BY DEF TypeOK, Record, IsLive

(* A call marks a service that is starting or running.                     *)
LEMMA MarkStops ==
  ASSUME TypeOK, NEW c \in Callers, StopMark(c) \/ ShutdownMark(c)
  PROVE  \A s \in Services :
           state'[s] = state[s] \/ (IsLive(state[s]) /\ state'[s] = "Stopping")
<1>1. \/ state' = state
      \/ /\ CanTransition(state[target[c]], "Stopping")
         /\ state' = [state EXCEPT ![target[c]] = "Stopping"]
  <2>1. CASE StopMark(c)
    BY <2>1 DEF StopMark
  <2>2. CASE ShutdownMark(c)
    BY <2>2 DEF ShutdownMark
  <2> QED BY <2>1, <2>2
<1> QED
  BY <1>1 DEF TypeOK, CanTransition, LegalMoves, IsLive

LEMMA StepSettles == TypeOK /\ LiveSettles /\ [Next]_vars => LiveSettles'
<1> SUFFICES ASSUME TypeOK, LiveSettles, [Next]_vars PROVE LiveSettles'
  OBVIOUS
<1>1. ASSUME NEW c \in Callers,
             \/ \E s \in Services : StartCall(c, s) \/ StopCall(c, s)
             \/ Prompted(c) \/ StartReset(c) \/ StartSpawnRejected(c)
             \/ AwaitReady(c) \/ AwaitFailed(c) \/ AwaitTimeout(c)
             \/ StartedHook(c) \/ Discard(c) \/ DiscardJoin(c) \/ DiscardCheck(c)
             \/ StopEnter(c) \/ StopTake(c) \/ StopJoin(c) \/ StopJoinTimeout(c)
             \/ StopHook(c) \/ ShutdownCall(c) \/ ShutdownCheck(c) \/ GiveUp(c)
      PROVE  LiveSettles'
  <2>1. UNCHANGED <<state, phase, svc, verdict>>
    BY <1>1
    DEF StartCall, StopCall, Prompted, StartPrepared, StartRefused, StartReset,
        StartSpawnRejected, AwaitReady, AwaitFailed, AwaitTimeout, StartedHook,
        Discard, DiscardJoin, DiscardCheck, StopEnter, StopTake, StopJoin,
        StopJoinTimeout, StopHook, ShutdownCall, ShutdownCheck, GiveUp
  <2> QED BY <2>1, SettlesStays
<1>2. ASSUME NEW c \in Callers, DiscardRecord(c) \/ StopStuck(c) \/ StopSettle(c)
      PROVE  LiveSettles'
  <2>1. target[c] \in Services
    BY DEF TypeOK
  <2> QED BY <1>2, <2>1, RecordSettles, SettlesStays
             DEF DiscardRecord, StopStuck, StopSettle
<1>3. ASSUME NEW c \in Callers, StopMark(c) \/ ShutdownMark(c)
      PROVE  LiveSettles'
  BY <1>3, MarkStops, SettlesStays DEF StopMark, ShutdownMark
<1>4. ASSUME NEW c \in Callers, ShutdownJoin(c) PROVE LiveSettles'
  <2>1. PICK t \in joining[c] : Record(svc[t], "Stopped") \/ Record(svc[t], "Failed")
    BY <1>4 DEF ShutdownJoin
  <2>2. svc[t] \in Services
    BY <2>1 DEF TypeOK
  <2> QED BY <1>4, <2>1, <2>2, RecordSettles, SettlesStays DEF ShutdownJoin
<1>5. ASSUME NEW c \in Callers, StartSpawn(c) PROVE LiveSettles'
  <2>1. PICK t \in Tasks :
          /\ phase[t] = "unborn"
          /\ phase' = [phase EXCEPT ![t] = "up"]
          /\ svc' = [svc EXCEPT ![t] = target[c]]
    BY <1>5 DEF StartSpawn
  <2>2. /\ state' = [state EXCEPT ![target[c]] = "Starting"]
        /\ UNCHANGED verdict
    BY <1>5 DEF StartSpawn
  <2>3. ASSUME NEW s \in Services, IsLive(state'[s]), s # target[c]
        PROVE  \E u \in Tasks : Settles(u, s)'
    <3>1. PICK u \in Tasks : Settles(u, s)
      BY <2>2, <2>3 DEF TypeOK, LiveSettles
    <3> QED BY <2>1, <2>2, <2>3, <3>1 DEF TypeOK, Settles, CanTransition
  <2>4. \A s \in Services : s = target[c] => Settles(t, s)'
    BY <1>5, <2>1 DEF TypeOK, Settles, StartSpawn
  <2>5. \A s \in Services : IsLive(state'[s]) => \E u \in Tasks : Settles(u, s)'
    BY <2>3, <2>4
  <2> QED BY <2>5 DEF LiveSettles
<1>6. ASSUME NEW t \in Tasks, TaskReady(t) PROVE LiveSettles'
  <2>1. /\ phase'[t] \in {"serving", "refused"}
        /\ \A u \in Tasks \ {t} : phase'[u] = phase[u]
        /\ UNCHANGED <<svc, verdict>>
    BY <1>6 DEF TypeOK, TaskReady
  <2>2. \A s \in Services :
          IsLive(state'[s]) =>
            /\ IsLive(state[s])
            /\ state'[s] = state[s] \/ (state[s] = "Starting" /\ state'[s] = "Running")
    BY <1>6 DEF TypeOK, TaskReady, CanTransition, LegalMoves, IsLive
  <2>3. ASSUME NEW s \in Services, IsLive(state'[s])
        PROVE  \E u \in Tasks : Settles(u, s)'
    <3>1. PICK u \in Tasks : Settles(u, s)
      BY <2>2, <2>3 DEF LiveSettles
    <3>2. phase[u] = "returned" => CanTransition(state'[s], verdict[u])
      BY <2>2, <2>3, <3>1 DEF TypeOK, Settles, CanTransition, LegalMoves
    <3> QED BY <2>1, <3>1, <3>2 DEF TypeOK, Settles, CanTransition
  <2> QED BY <2>3 DEF LiveSettles
<1>7. ASSUME NEW t \in Tasks, NEW clean \in BOOLEAN, TaskReturn(t, clean)
      PROVE  LiveSettles'
  <2>1. IsLive(state[svc[t]]) =>
          CanTransition(state[svc[t]], Verdict(clean, state[svc[t]]))
    BY DEF TypeOK, ServiceState, IsLive, Verdict, CanTransition, LegalMoves
  <2>2. /\ phase' = [phase EXCEPT ![t] = "returned"]
        /\ verdict' = [verdict EXCEPT ![t] = Verdict(clean, state[svc[t]])]
        /\ UNCHANGED <<state, svc>>
    BY <1>7 DEF TaskReturn
  <2>3. ASSUME NEW s \in Services, NEW u \in Tasks, IsLive(state[s]), Settles(u, s)
        PROVE  Settles(u, s)'
    BY <2>1, <2>2, <2>3 DEF TypeOK, Settles, CanTransition
  <2> QED BY <2>2, <2>3 DEF LiveSettles
<1>8. ASSUME NEW t \in Tasks, TaskRecord(t) PROVE LiveSettles'
  <2>1. svc[t] \in Services /\ verdict[t] \in {"keep", "Stopped", "Failed"}
    BY DEF TypeOK
  <2>2. /\ phase[t] = "returned" /\ UNCHANGED <<svc, verdict>>
        /\ \A u \in Tasks \ {t} : phase'[u] = phase[u]
    BY <1>8 DEF TypeOK, TaskRecord
  <2>3. \A r \in Services : IsLive(state'[r]) => state'[r] = state[r]
    BY <1>8, <2>1, RecordSettles DEF TypeOK, TaskRecord
  (* If t was the witness, its end has just been recorded.                 *)
  <2>4. CanTransition(state[svc[t]], verdict[t]) => ~IsLive(state'[svc[t]])
    BY <1>8, <2>1
    DEF TypeOK, TaskRecord, Record, CanTransition, LegalMoves, IsLive
  <2>5. ASSUME NEW s \in Services, IsLive(state'[s])
        PROVE  \E u \in Tasks : Settles(u, s)'
    <3>1. PICK u \in Tasks : Settles(u, s)
      BY <2>3, <2>5 DEF LiveSettles
    <3>2. u # t
      BY <2>2, <2>3, <2>4, <2>5, <3>1 DEF Settles
    <3> QED BY <2>2, <2>3, <2>5, <3>1, <3>2 DEF Settles, CanTransition
  <2> QED BY <2>5 DEF LiveSettles
<1>9. CASE UNCHANGED vars
  BY <1>9, SettlesStays
<1> QED
  BY <1>1, <1>2, <1>3, <1>4, <1>5, <1>6, <1>7, <1>8, <1>9
     DEF Next, Call, CallerStep, StartStep, StopStep, ShutdownStep, TaskStep

(* Only a spawn makes a service starting.                                  *)
LEMMA OnlySpawnStarts ==
  ASSUME TypeOK, [Next]_vars, NEW s \in Services,
         state[s] # "Starting", state'[s] = "Starting"
  PROVE  \E c \in Callers : StartSpawn(c) /\ target[c] = s
<1>1. ASSUME NEW r \in Services, NEW to \in {"Stopped", "Failed"}, Record(r, to)
      PROVE  FALSE
  BY <1>1 DEF TypeOK, Record
<1>2. ASSUME NEW c \in Callers, Call(c) \/ Prompted(c) \/ GiveUp(c) PROVE FALSE
  BY <1>2 DEF Call, StartCall, StopCall, ShutdownCall, Prompted, StartPrepared,
              StartRefused, GiveUp
<1>3. ASSUME NEW c \in Callers, StartStep(c), ~StartSpawn(c) PROVE FALSE
  <2>1. CASE DiscardRecord(c)
    BY <1>1, <2>1 DEF TypeOK, DiscardRecord
  <2> QED
    BY <1>3, <2>1
    DEF StartStep, StartReset, StartSpawnRejected, AwaitReady, AwaitFailed,
        AwaitTimeout, StartedHook, Discard, DiscardJoin, DiscardCheck
<1>4. ASSUME NEW c \in Callers, StopStep(c) PROVE FALSE
  <2>1. CASE StopStuck(c) \/ StopSettle(c)
    BY <1>1, <2>1 DEF TypeOK, StopStuck, StopSettle
  <2>2. CASE StopMark(c)
    BY <2>2, MarkStops
  <2> QED
    BY <1>4, <2>1, <2>2
    DEF StopStep, StopEnter, StopTake, StopJoin, StopJoinTimeout, StopHook
<1>5. ASSUME NEW c \in Callers, ShutdownStep(c) PROVE FALSE
  <2>1. CASE ShutdownMark(c)
    BY <2>1, MarkStops
  <2>2. CASE ShutdownJoin(c)
    BY <1>1, <2>2 DEF TypeOK, ShutdownJoin
  <2> QED
    BY <1>5, <2>1, <2>2 DEF ShutdownStep, ShutdownCheck
<1>6. ASSUME NEW t \in Tasks, TaskStep(t) PROVE FALSE
  <2>1. CASE TaskRecord(t)
    BY <1>1, <2>1 DEF TypeOK, TaskRecord
  <2>2. CASE TaskReady(t)
    BY <2>2 DEF TypeOK, TaskReady
  <2> QED
    BY <1>6, <2>1, <2>2 DEF TaskStep, TaskReturn
<1>7. PICK c \in Callers : StartSpawn(c)
  BY <1>2, <1>3, <1>4, <1>5, <1>6 DEF Next, CallerStep
<1> QED
  BY <1>7 DEF TypeOK, StartSpawn

(* A start call lets go of a service only when it is no longer starting, or*)
(* when the call is given up.                                              *)
LEMMA WatcherStays ==
  ASSUME TypeOK, [Next]_vars, NEW s \in Services, state[s] = "Starting",
         state'[s] = "Starting", NEW c \in Callers, Watches(c, s)
  PROVE  s \in givenUp' \/ Watches(c, s)'
<1>1. ASSUME NEW d \in Callers, d # c,
             Call(d) \/ Prompted(d) \/ CallerStep(d) \/ GiveUp(d)
      PROVE  pc'[c] = pc[c] /\ target'[c] = target[c]
  <2>1. pc \in [Callers -> Steps] /\ target \in [Callers -> Services]
    BY DEF TypeOK
  <2> USE DEF Return, Goto
  <2>2. CASE Call(d) \/ Prompted(d) \/ GiveUp(d)
    BY <1>1, <2>1, <2>2
    DEF Call, Prompted, StartCall, StopCall, ShutdownCall, StartPrepared,
        StartRefused, GiveUp
  <2>3. CASE StartStep(d)
    <3>1. CASE \/ AwaitReady(d) \/ AwaitFailed(d) \/ AwaitTimeout(d) \/ StartedHook(d)
               \/ DiscardJoin(d) \/ DiscardCheck(d) \/ DiscardRecord(d)
      BY <1>1, <2>1, <3>1
      DEF AwaitReady, AwaitFailed, AwaitTimeout, StartedHook, DiscardJoin,
          DiscardCheck, DiscardRecord
    <3>2. CASE StartReset(d) \/ StartSpawn(d) \/ StartSpawnRejected(d) \/ Discard(d)
      BY <1>1, <2>1, <3>2 DEF StartReset, StartSpawn, StartSpawnRejected, Discard
    <3> QED BY <2>3, <3>1, <3>2 DEF StartStep
  <2>4. CASE StopStep(d)
    BY <1>1, <2>1, <2>4
    DEF StopStep, StopEnter, StopTake, StopMark, StopJoin, StopJoinTimeout,
        StopStuck, StopSettle, StopHook, StopSucceeds
  <2>5. CASE ShutdownStep(d)
    BY <1>1, <2>1, <2>5 DEF ShutdownStep, ShutdownCheck, ShutdownMark, ShutdownJoin
  <2> QED
    BY <1>1, <2>2, <2>3, <2>4, <2>5 DEF CallerStep
<1>2. CASE Call(c) \/ Prompted(c) \/ StopStep(c) \/ ShutdownStep(c)
  BY <1>2
  DEF Watches, Call, Prompted, StopStep, ShutdownStep, StartCall, StopCall,
      ShutdownCall, StartPrepared, StartRefused, StopEnter, StopTake, StopMark,
      StopJoin, StopJoinTimeout, StopStuck, StopSettle, StopHook, ShutdownCheck,
      ShutdownMark, ShutdownJoin
<1>3. CASE StartStep(c)
  BY <1>3
  DEF TypeOK, Watches, StartStep, StartReset, StartSpawn, StartSpawnRejected,
      AwaitReady, AwaitFailed, AwaitTimeout, StartedHook, Discard, DiscardJoin,
      DiscardCheck, DiscardRecord, Record, CanTransition, LegalMoves, Goto
<1>4. CASE UNCHANGED callVars
  BY <1>4 DEF Watches
<1>5. ASSUME NEW t \in Tasks, TaskStep(t) PROVE UNCHANGED callVars
  BY <1>5 DEF TaskStep, TaskReady, TaskReturn, TaskRecord
<1>6. CASE GiveUp(c)
  BY <1>6 DEF GiveUp, Awaits, Watches
<1> QED
  BY <1>1, <1>2, <1>3, <1>4, <1>5, <1>6 DEF Next, CallerStep, Watches

(* Only the next spawn of a service makes up for a start given up.         *)
LEMMA GivenUpStays ==
  ASSUME TypeOK, [Next]_vars, NEW s \in Services, s \in givenUp, s \notin givenUp'
  PROVE  state[s] # "Starting"
<1>1. ASSUME NEW c \in Callers, StartSpawn(c) PROVE state[s] # "Starting"
  BY <1>1 DEF StartSpawn, CanTransition, LegalMoves
<1>2. ASSUME NEW c \in Callers,
             \/ Call(c) \/ Prompted(c) \/ GiveUp(c) \/ StopStep(c) \/ ShutdownStep(c)
             \/ StartStep(c) /\ ~StartSpawn(c)
      PROVE  FALSE
  BY <1>2
  DEF Call, Prompted, StartStep, StopStep, ShutdownStep, StartCall, StopCall,
      ShutdownCall, StartPrepared, StartRefused, GiveUp, StartReset,
      StartSpawnRejected, AwaitReady, AwaitFailed, AwaitTimeout, StartedHook,
      Discard, DiscardJoin, DiscardCheck, DiscardRecord, StopEnter, StopTake,
      StopMark, StopJoin, StopJoinTimeout, StopStuck, StopSettle, StopHook,
      ShutdownCheck, ShutdownMark, ShutdownJoin
<1>3. ASSUME NEW t \in Tasks, TaskStep(t) PROVE FALSE
  BY <1>3 DEF TaskStep, TaskReady, TaskReturn, TaskRecord
<1> QED
  BY <1>1, <1>2, <1>3 DEF Next, CallerStep

LEMMA StepWatched == TypeOK /\ StartWatched /\ [Next]_vars => StartWatched'
<1> SUFFICES ASSUME TypeOK, StartWatched, [Next]_vars,
                    NEW s \in Services, state'[s] = "Starting"
             PROVE  s \in givenUp' \/ \E c \in Callers : Watches(c, s)'
  BY DEF StartWatched
<1>1. CASE state[s] # "Starting"
  BY <1>1, OnlySpawnStarts DEF TypeOK, StartSpawn, Goto, Watches
<1>2. CASE state[s] = "Starting"
  BY <1>2, WatcherStays, GivenUpStays DEF StartWatched
<1> QED
  BY <1>1, <1>2

(* Whoever reads that a service is live reads of a task that is not at its *)
(* end; and a service is starting only while a start call watches it, or   *)
(* after the control socket's deadline has taken that call away.           *)
THEOREM LivesAreReal == Spec => []LiveIsReal
<1>1. LiveSettles /\ StartWatched => LiveIsReal
  BY DEF LiveSettles, StartWatched, LiveIsReal, Settles, Alive
<1> QED
  BY InitTyped, StepTyped, InitLive, StepSettles, StepWatched, <1>1, PTL DEF Spec

-----------------------------------------------------------------------------
(* Calls one at a time.                                                    *)

(* The steps at which the call has taken the entry out of the map.         *)
TakenSteps ==
  {"stopMark", "stopJoin", "stopSettle", "stopOrphan", "stopHook", "discardJoin",
   "discardCheck", "downCheck", "downMark", "downJoin"}
(* Those which a call gets to for server sharing only.                     *)
SharingSteps ==
  {"await", "started", "discard", "discardJoin", "discardCheck", "stopTake",
   "stopMark", "stopJoin", "stopSettle", "stopOrphan", "stopHook", "downMark"}

(* Those from which the task of a start given up can be seen at work.      *)
StraySteps ==
  {"idle", "prepare", "reset", "spawn", "stopEnter", "stopTake", "stopOrphan",
   "stopHook"}

(* One caller makes all calls, for the one service.                        *)
OneCaller ==
  /\ \A c \in Callers \ {sole} : pc[c] = "idle"
  /\ pc[sole] \in SharingSteps => target[sole] = ServerSharing
  /\ pc[sole] \notin {"stopStuck", "discardRecord"}
OneService ==
  /\ \A s \in Services \ {ServerSharing} : state[s] = "Stopped" /\ slot[s] = NoTask
  /\ \A t \in Tasks : svc[t] = ServerSharing

(* It has taken no entry, or the one there was.                            *)
Handles ==
  /\ \A t, u \in held[sole] : t = u
  /\ \A t, u \in joining[sole] : t = u
  /\ joining[sole] # {} => pc[sole] \in {"stopJoin", "discardJoin", "downJoin"}
  /\ pc[sole] \in TakenSteps => slot[ServerSharing] = NoTask

(* A start given up while it joined has left its task behind, cancelled.   *)
Stray ==
  /\ ServerSharing \in givenUp
  /\ slot[ServerSharing] = NoTask
  /\ pc[sole] \in StraySteps

(* A task that has not ended has its service live and is in somebody's     *)
(* hands or astray, there is no second one, and only a call that will join *)
(* it stops it.                                                            *)
OneTask ==
  /\ \A t, u \in Tasks : Alive(t) /\ Alive(u) => t = u
  /\ \A t \in Tasks : Alive(t) =>
       /\ IsLive(state[ServerSharing])
       /\ t = slot[ServerSharing] \/ t \in held[sole] \cup joining[sole] \/ Stray
  /\ state[ServerSharing] = "Stopping" => pc[sole] \in {"stopJoin", "downJoin"}

(* Sharing runs with its flag, but for the start that will set it or give  *)
(* up, or was given up.                                                    *)
Remembered ==
  state[ServerSharing] = "Running" =>
    \/ enabled
    \/ pc[sole] \in {"await", "started", "discard", "discardJoin"}
    \/ ServerSharing \in givenUp

SoleInv ==
  sole \in Callers => OneCaller /\ OneService /\ Handles /\ OneTask /\ Remembered

Known == TypeOK /\ OwnershipInv /\ LiveSettles /\ StartWatched /\ SoleInv

LEMMA InitSole == Init => SoleInv
<1> SUFFICES ASSUME Init, sole \in Callers
             PROVE  OneCaller /\ OneService /\ Handles /\ OneTask /\ Remembered
  BY DEF SoleInv
<1>1. OneCaller /\ OneService /\ Remembered
  BY SharingAssumption DEF Init, OneCaller, OneService, Remembered, SharingSteps
<1>2. Handles /\ OneTask
  BY SharingAssumption DEF Init, Handles, OneTask, TakenSteps, Alive
<1> QED
  BY <1>1, <1>2

(* With nothing in anybody's hands there is no task, and nothing is live.  *)
LEMMA EmptyHands ==
  ASSUME Known, sole \in Callers, slot[ServerSharing] = NoTask,
         held[sole] = {}, \A t \in joining[sole] : phase[t] = "ended", ~Stray
  PROVE  /\ ~IsLive(state[ServerSharing])
         /\ \A t \in Tasks : ~Alive(t)
<1>1. \A t \in Tasks : ~Alive(t)
  BY NoTaskAssumption DEF Known, SoleInv, OneTask, Alive
<1>2. \A t \in Tasks : ~Settles(t, ServerSharing)
  BY <1>1 DEF Settles, Alive
<1> QED
  BY <1>1, <1>2, SharingAssumption DEF Known, LiveSettles

(* A step that only moves the call on.                                     *)
LEMMA CallGoesOn ==
  ASSUME Known, sole \in Callers, UNCHANGED sole, NEW step \in Steps,
         pc' = [pc EXCEPT ![sole] = step],
         UNCHANGED <<state, slot, phase, svc, held, joining, enabled, givenUp>>,
         step \notin {"stopStuck", "discardRecord"},
         pc[sole] \in StraySteps => step \in StraySteps \/ slot[ServerSharing] # NoTask,
         step \in SharingSteps => target'[sole] = ServerSharing,
         joining[sole] # {} => step = pc[sole],
         step \in TakenSteps => slot[ServerSharing] = NoTask,
         state[ServerSharing] # "Stopping",
         state[ServerSharing] = "Running" =>
           \/ enabled
           \/ step \in {"await", "started", "discard", "discardJoin"}
           \/ ServerSharing \in givenUp
  PROVE  SoleInv'
<1>1. OneCaller'
  BY DEF Known, TypeOK, SoleInv, OneCaller
<1>2. OneService' /\ Handles' /\ OneTask' /\ Remembered'
  BY DEF Known, TypeOK, SoleInv, OneService, Handles, OneTask, Stray, Remembered, Alive
<1> QED
  BY <1>1, <1>2 DEF SoleInv

LEMMA StepSole ==
  ASSUME Known, MCNext, sole \in Callers
  PROVE  SoleInv'
<1> DEFINE c == sole
           S == ServerSharing
<1> USE SharingAssumption, NoTaskAssumption
<1>0. /\ UNCHANGED sole
      /\ \A d \in Callers \ {c} : pc[d] = "idle" /\ pc'[d] = "idle"
      /\ \A s \in Services \ {S} : state'[s] = "Stopped"
      /\ \A t \in joining[c] \ joining'[c] :
           phase[t] = "ended" \/ (pc[c] = "discardJoin" /\ pc'[c] = "idle")
      /\ c # NoCaller
  BY NoCallerAssumption DEF MCNext, Known, SoleInv, OneCaller
<1> USE DEF StartSteps, StopSteps, DownSteps, Steps, SharingSteps, TakenSteps,
           StraySteps
<1>1. pc[c] = "idle" => /\ state[S] # "Stopping"
                        /\ state[S] = "Running" => enabled \/ S \in givenUp
  BY DEF Known, SoleInv, OneTask, Stray, Remembered
<1>2. ASSUME NEW s \in Services, StartCall(c, s) \/ StopCall(c, s) PROVE SoleInv'
  <2>1. joining[c] = {}
    BY <1>2 DEF Known, SoleInv, Handles, StartCall, StopCall
  <2>2. CASE StartCall(c, s)
    BY <1>0, <1>1, <2>1, <2>2, CallGoesOn DEF StartCall, Goto
  <2>3. CASE StopCall(c, s)
    BY <1>0, <1>1, <2>1, <2>3, CallGoesOn DEF StopCall, Goto
  <2> QED BY <1>2, <2>2, <2>3
(* The states in which the call is at rest or on its way to the entry.     *)
<1>3. pc[c] \notin {"stopJoin", "discardJoin", "downJoin"} =>
        joining[c] = {} /\ state[S] # "Stopping"
  BY DEF Known, SoleInv, Handles, OneTask
<1>4. pc[c] \notin {"stopMark", "downCheck", "downMark"} => held[c] = {}
  BY DEF Known, OwnershipInv, HoldersOwn
<1>5. pc[c] \notin {"await", "started", "discard", "discardJoin"} =>
        (state[S] = "Running" => enabled \/ S \in givenUp)
  BY DEF Known, SoleInv, Remembered
<1>6. pc[c] \in SharingSteps => target[c] = S
  BY DEF Known, SoleInv, OneCaller
<1>7. pc[c] \in TakenSteps => slot[S] = NoTask
  BY DEF Known, SoleInv, Handles
<1>8. ASSUME StartPrepared(c) \/ StartReset(c) PROVE SoleInv'
  <2>1. /\ pc[c] \in {"prepare", "reset"}
        /\ UNCHANGED <<state, slot, phase, svc, held, joining, enabled, target,
                       givenUp>>
    BY <1>8 DEF StartPrepared, StartReset
  <2>2. \E step \in {"reset", "spawn", "stopEnter"} : pc' = [pc EXCEPT ![c] = step]
    BY <1>8 DEF StartPrepared, StartReset, Goto
  <2> QED BY <1>0, <1>3, <1>5, <2>1, <2>2, CallGoesOn
<1>9. ASSUME StartRefused(c) \/ StartSpawnRejected(c) PROVE SoleInv'
  <2>1. /\ pc[c] \in {"prepare", "spawn"} /\ pc' = [pc EXCEPT ![c] = "idle"]
        /\ UNCHANGED <<state, slot, phase, svc, held, joining, enabled, target,
                       givenUp>>
    BY <1>9 DEF StartRefused, StartSpawnRejected, Return
  <2> QED BY <1>0, <1>3, <1>5, <2>1, CallGoesOn
<1>10. ASSUME AwaitReady(c) \/ AwaitFailed(c) \/ AwaitTimeout(c) PROVE SoleInv'
  <2>1. /\ pc[c] = "await"
        /\ UNCHANGED <<state, slot, phase, svc, held, joining, enabled, target,
                       givenUp>>
    BY <1>10 DEF AwaitReady, AwaitFailed, AwaitTimeout
  <2>2. \E step \in {"started", "discard"} : pc' = [pc EXCEPT ![c] = step]
    BY <1>10 DEF AwaitReady, AwaitFailed, AwaitTimeout, Goto
  <2> QED BY <1>0, <1>3, <1>6, <2>1, <2>2, CallGoesOn
<1>11. ASSUME StopEnter(c) PROVE SoleInv'
  <2>1. target[c] = S \/ state[target[c]] = "Stopped"
    BY DEF Known, TypeOK, SoleInv, OneService
  <2>2. /\ pc[c] = "stopEnter"
        /\ UNCHANGED <<state, slot, phase, svc, held, joining, enabled, target,
                       givenUp>>
    BY <1>11 DEF StopEnter
  <2>3. \/ pc' = [pc EXCEPT ![c] = "idle"]
        \/ target[c] = S /\ pc' = [pc EXCEPT ![c] = "stopTake"]
    BY <1>11, <2>1 DEF StopEnter, Return, Goto
  <2> QED BY <1>0, <1>3, <1>5, <2>2, <2>3, CallGoesOn
<1>12. ASSUME ShutdownCheck(c) PROVE SoleInv'
  <2>1. PICK t \in held[c] : target' = [target EXCEPT ![c] = svc[t]]
    BY <1>12 DEF ShutdownCheck
  <2>2. target'[c] = S
    BY <2>1 DEF Known, TypeOK, SoleInv, OneService
  <2>3. /\ pc[c] = "downCheck" /\ pc' = [pc EXCEPT ![c] = "downMark"]
        /\ UNCHANGED <<state, slot, phase, svc, held, joining, enabled, givenUp>>
    BY <1>12 DEF ShutdownCheck, Goto
  <2> QED BY <1>0, <1>3, <1>5, <1>7, <2>2, <2>3, CallGoesOn
(* Where the call has nothing in its hands any more there is no task.      *)
<1>13. /\ pc[c] \in {"stopSettle", "discardCheck"} =>
            ~IsLive(state[S]) /\ \A t \in Tasks : ~Alive(t)
       /\ pc[c] \in {"stopOrphan", "stopHook"} =>
            S \in givenUp \/ (~IsLive(state[S]) /\ \A t \in Tasks : ~Alive(t))
  BY <1>3, <1>4, <1>7, EmptyHands DEF Stray
<1>14. ASSUME DiscardCheck(c) PROVE SoleInv'
  <2>1. /\ pc[c] = "discardCheck"
        /\ UNCHANGED <<state, slot, phase, svc, held, joining, enabled, target,
                       givenUp>>
    BY <1>14 DEF DiscardCheck
  <2>2. pc' = [pc EXCEPT ![c] = "idle"]
    BY <1>6, <1>13, <1>14, <2>1 DEF DiscardCheck, Return, IsLive
  <2> QED BY <1>0, <1>3, <1>5, <2>1, <2>2, CallGoesOn
(* The conjuncts, each from what a step leaves of its subject.             *)
<1>15. ASSUME NEW step \in Steps \ {"stopStuck", "discardRecord"},
              pc' = [pc EXCEPT ![c] = step], UNCHANGED target,
              step \in SharingSteps => target[c] = S
       PROVE  OneCaller'
  BY <1>0, <1>15 DEF Known, TypeOK, OneCaller
<1>16. ASSUME UNCHANGED svc, \A s \in Services \ {S} : slot'[s] = slot[s]
       PROVE  OneService'
  BY <1>0, <1>16 DEF Known, SoleInv, OneService
<1>17. ASSUME StartedHook(c) PROVE SoleInv'
  <2>1. /\ pc[c] = "started" /\ pc' = [pc EXCEPT ![c] = "idle"] /\ enabled'
        /\ UNCHANGED <<state, slot, phase, svc, held, joining, target, givenUp>>
    BY <1>6, <1>17 DEF StartedHook, Hook, Return
  <2>2. OneCaller' /\ OneService'
    BY <1>15, <1>16, <2>1
  <2>3. Handles' /\ OneTask' /\ Remembered'
    BY <1>0, <1>3, <2>1
    DEF Known, TypeOK, SoleInv, Handles, OneTask, Stray, Remembered, Alive
  <2> QED BY <2>2, <2>3 DEF SoleInv
<1>18. ASSUME StopHook(c) PROVE SoleInv'
  <2>1. /\ pc[c] = "stopHook"
        /\ UNCHANGED <<state, slot, phase, svc, held, joining, target, givenUp>>
    BY <1>18 DEF StopHook
  <2>2. \E step \in {"idle", "spawn"} : pc' = [pc EXCEPT ![c] = step]
    BY <1>18 DEF StopHook, StopSucceeds, Return
  <2>3. OneCaller' /\ OneService'
    BY <1>15, <1>16, <2>1, <2>2
  <2>4. Handles' /\ OneTask' /\ Remembered'
    BY <1>0, <1>3, <1>13, <2>1, <2>2
    DEF Known, TypeOK, SoleInv, Handles, OneTask, Stray, Remembered, Alive, IsLive
  <2> QED BY <2>3, <2>4 DEF SoleInv
<1>19. ASSUME StopTake(c) PROVE SoleInv'
  <2>1. /\ pc[c] = "stopTake" /\ target[c] = S
        /\ UNCHANGED <<state, phase, svc, joining, target, enabled, givenUp>>
    BY <1>6, <1>19 DEF StopTake
  <2>2. CASE slot[S] = NoTask
    <3>1. pc' = [pc EXCEPT ![c] = "stopOrphan"] /\ UNCHANGED <<slot, held>>
      BY <1>19, <2>1, <2>2 DEF StopTake, Goto
    <3> QED BY <1>0, <1>3, <1>5, <2>1, <2>2, <3>1, CallGoesOn
  <2>3. CASE slot[S] # NoTask
    <3>1. /\ pc' = [pc EXCEPT ![c] = "stopMark"]
          /\ slot' = [slot EXCEPT ![S] = NoTask]
          /\ held' = [held EXCEPT ![c] = {slot[S]}]
      BY <1>19, <2>1, <2>3 DEF StopTake, Goto
    <3>2. OneCaller' /\ OneService'
      BY <1>15, <1>16, <2>1, <3>1 DEF Known, TypeOK
    <3>3. \A t \in Tasks : Alive(t) => t = slot[S]
      BY <1>3, <1>4, <2>1, <2>3 DEF Known, SoleInv, OneTask, Stray
    <3>4. Handles' /\ OneTask' /\ Remembered'
      BY <1>0, <1>3, <1>4, <1>5, <2>1, <3>1, <3>3
      DEF Known, TypeOK, SoleInv, Handles, OneTask, Remembered, Alive
    <3> QED BY <3>2, <3>4 DEF SoleInv
  <2> QED BY <2>2, <2>3
<1>20. ASSUME StopMark(c) PROVE SoleInv'
  <2> DEFINE ok == view[c] => CanTransition(state[S], "Stopping")
  <2>1. /\ pc[c] = "stopMark" /\ target[c] = S
        /\ UNCHANGED <<slot, phase, svc, target, enabled, givenUp>>
        /\ held' = [held EXCEPT ![c] = {}]
    BY <1>6, <1>20 DEF StopMark
  <2>2. CASE ok
    <3>1. /\ pc' = [pc EXCEPT ![c] = "stopJoin"]
          /\ joining' = [joining EXCEPT ![c] = held[c]]
          /\ state' = state \/ state' = [state EXCEPT ![S] = "Stopping"]
      BY <1>20, <2>1, <2>2 DEF StopMark, Goto
    <3>2. OneCaller' /\ OneService'
      BY <1>15, <1>16, <2>1, <3>1
    <3>3. Handles' /\ OneTask' /\ Remembered'
      BY <1>0, <1>3, <1>5, <1>7, <2>1, <3>1
      DEF Known, TypeOK, SoleInv, Handles, OneTask, Stray, Remembered, Alive, IsLive
    <3> QED BY <3>2, <3>3 DEF SoleInv
  (* The state moved on, so the task has ended.                            *)
  <2>3. CASE ~ok
    <3>1. pc' = [pc EXCEPT ![c] = "idle"] /\ UNCHANGED <<state, joining>>
      BY <1>20, <2>1, <2>3 DEF StopMark, Return
    <3>2. ~IsLive(state[S])
      BY <1>3, <2>1, <2>3 DEF IsLive, CanTransition, LegalMoves
    <3>3. OneCaller' /\ OneService'
      BY <1>15, <1>16, <2>1, <3>1
    <3>4. Handles' /\ OneTask' /\ Remembered'
      BY <1>0, <1>3, <2>1, <3>1, <3>2
      DEF Known, TypeOK, SoleInv, Handles, OneTask, Stray, Remembered, Alive, IsLive
    <3> QED BY <3>3, <3>4 DEF SoleInv
  <2> QED BY <2>2, <2>3
<1>21. ASSUME StopJoinTimeout(c) \/ StopStuck(c) \/ DiscardRecord(c) PROVE FALSE
  <2>1. CASE StopJoinTimeout(c)
    BY <1>0, <2>1 DEF Known, TypeOK, StopJoinTimeout
  <2> QED
    BY <1>21, <2>1 DEF StopStuck, DiscardRecord, Known, SoleInv, OneCaller
<1>22. ASSUME StopJoin(c) \/ DiscardJoin(c) PROVE SoleInv'
  <2>1. /\ pc[c] \in {"stopJoin", "discardJoin"} /\ target[c] = S
        /\ UNCHANGED <<state, slot, phase, svc, held, target, enabled, givenUp>>
        /\ joining' = [joining EXCEPT ![c] = {}]
    BY <1>6, <1>22 DEF StopJoin, DiscardJoin
  <2>2. \E step \in {"stopSettle", "discardCheck"} : pc' = [pc EXCEPT ![c] = step]
    BY <1>22 DEF StopJoin, DiscardJoin, Goto
  <2>3. ~IsLive(state[S]) /\ \A t \in Tasks : ~Alive(t)
    BY <1>0, <1>4, <1>7, <2>1, <2>2, EmptyHands DEF Known, TypeOK, Stray
  <2>4. OneCaller' /\ OneService'
    BY <1>15, <1>16, <2>1, <2>2
  <2>5. Handles' /\ OneTask' /\ Remembered'
    BY <1>0, <1>7, <2>1, <2>2, <2>3
    DEF Known, TypeOK, SoleInv, Handles, OneTask, Stray, Remembered, Alive, IsLive
  <2> QED BY <2>4, <2>5 DEF SoleInv
<1>23. ASSUME Discard(c) PROVE SoleInv'
  <2>1. /\ pc[c] = "discard" /\ target[c] = S
        /\ UNCHANGED <<state, phase, svc, held, target, enabled, givenUp>>
    BY <1>6, <1>23 DEF Discard
  <2>2. CASE slot[S] = NoTask
    <3>1. pc' = [pc EXCEPT ![c] = "discardCheck"] /\ UNCHANGED <<slot, joining>>
      BY <1>23, <2>1, <2>2 DEF Discard, Goto
    <3>2. ~IsLive(state[S])
      BY <1>3, <1>4, <2>1, <2>2, EmptyHands DEF Stray
    <3> QED BY <1>0, <1>3, <2>1, <2>2, <3>1, <3>2, CallGoesOn DEF IsLive
  <2>3. CASE slot[S] # NoTask
    <3>1. /\ pc' = [pc EXCEPT ![c] = "discardJoin"]
          /\ slot' = [slot EXCEPT ![S] = NoTask]
          /\ joining' = [joining EXCEPT ![c] = {slot[S]}]
      BY <1>23, <2>1, <2>3 DEF Discard, Goto
    <3>2. OneCaller' /\ OneService'
      BY <1>15, <1>16, <2>1, <3>1 DEF Known, TypeOK
    <3>3. Handles' /\ OneTask' /\ Remembered'
      BY <1>0, <1>3, <1>4, <2>1, <3>1
      DEF Known, TypeOK, SoleInv, Handles, OneTask, Stray, Remembered, Alive
    <3> QED BY <3>2, <3>3 DEF SoleInv
  <2> QED BY <2>2, <2>3
<1>24. ASSUME StopSettle(c) PROVE SoleInv'
  <2>1. /\ pc[c] \in {"stopSettle", "stopOrphan"} /\ Record(S, "Stopped")
        /\ pc' = [pc EXCEPT ![c] = "stopHook"]
        /\ UNCHANGED <<slot, phase, svc, held, joining, target, enabled, givenUp>>
    BY <1>6, <1>24 DEF StopSettle, Goto
  <2>2. /\ \A t \in Tasks : Alive(t) => IsLive(state'[S])
        /\ state'[S] # "Stopping"
        /\ state'[S] = "Running" => state[S] = "Running"
    BY <1>3, <2>1
    DEF Known, TypeOK, SoleInv, OneTask, Record, CanTransition, LegalMoves, IsLive
  <2>3. OneCaller' /\ OneService'
    BY <1>6, <1>15, <1>16, <2>1
  <2>4. Handles' /\ OneTask' /\ Remembered'
    BY <1>0, <1>3, <1>5, <1>7, <1>13, <2>1, <2>2
    DEF Known, TypeOK, SoleInv, Handles, OneTask, Stray, Remembered, Alive, IsLive
  <2> QED BY <2>3, <2>4 DEF SoleInv
<1>25. ASSUME StartSpawn(c) PROVE SoleInv'
  <2>1. target[c] = S
    BY <1>0, <1>25 DEF Known, TypeOK, StartSpawn
  <2>2. PICK t \in Tasks :
          /\ phase[t] = "unborn"
          /\ phase' = [phase EXCEPT ![t] = "up"]
          /\ svc' = [svc EXCEPT ![t] = S]
          /\ slot' = [slot EXCEPT ![S] = t]
    BY <1>25, <2>1 DEF StartSpawn
  <2>3. /\ pc[c] = "spawn" /\ pc' = [pc EXCEPT ![c] = "await"]
        /\ state' = [state EXCEPT ![S] = "Starting"] /\ ~IsLive(state[S])
        /\ UNCHANGED <<held, joining, target, enabled>>
    BY <1>25, <2>1 DEF StartSpawn, Goto, IsLive, CanTransition, LegalMoves
  <2>4. \A u \in Tasks : ~Alive(u)
    BY <2>3 DEF Known, SoleInv, OneTask
  <2>5. OneCaller'
    BY <1>15, <2>1, <2>3
  <2>6. OneService'
    BY <1>0, <2>2 DEF Known, TypeOK, SoleInv, OneService
  <2>7. Handles' /\ OneTask' /\ Remembered'
    BY <1>0, <1>3, <2>2, <2>3, <2>4
    DEF Known, TypeOK, SoleInv, Handles, OneTask, Stray, Remembered, Alive, IsLive
  <2> QED BY <2>5, <2>6, <2>7 DEF SoleInv
<1>26. ASSUME ShutdownCall(c) PROVE SoleInv'
  <2>1. /\ pc[c] = "idle" /\ pc' = [pc EXCEPT ![c] = "downCheck"]
        /\ slot' = [s \in Services |-> NoTask]
        /\ held' = [held EXCEPT ![c] = Entries]
        /\ UNCHANGED <<state, phase, svc, joining, target, enabled, givenUp>>
    BY <1>26 DEF ShutdownCall, Goto
  <2>2. Entries = {slot[S]} /\ slot[S] # NoTask
    BY <1>26 DEF Known, SoleInv, OneService, Entries, ShutdownCall
  <2>3. OneCaller' /\ OneService'
    BY <1>0, <1>15, <2>1 DEF Known, SoleInv, OneService
  <2>4. Handles' /\ OneTask' /\ Remembered'
    BY <1>0, <1>3, <1>4, <1>5, <2>1, <2>2
    DEF Known, TypeOK, SoleInv, Handles, OneTask, Stray, Remembered, Alive
  <2> QED BY <2>3, <2>4 DEF SoleInv
<1>27. ASSUME ShutdownMark(c) PROVE SoleInv'
  <2> DEFINE ok == view[c] => CanTransition(state[S], "Stopping")
  <2>1. pc[c] = "downMark" /\ target[c] = S /\ UNCHANGED <<slot, phase, svc, target, enabled, givenUp>>
    BY <1>6, <1>27 DEF ShutdownMark
  <2>2. { t \in held[c] : svc[t] = S } = held[c]
    BY DEF Known, TypeOK, SoleInv, OneService
  <2>3. CASE ok
    <3>1. /\ pc' = [pc EXCEPT ![c] = "downJoin"]
          /\ held' = [held EXCEPT ![c] = @ \ held[c]]
          /\ joining' = [joining EXCEPT ![c] = @ \cup held[c]]
          /\ state' = state \/ state' = [state EXCEPT ![S] = "Stopping"]
      BY <1>27, <2>1, <2>2, <2>3 DEF ShutdownMark, Goto
    <3>2. OneCaller' /\ OneService'
      BY <1>15, <1>16, <2>1, <3>1
    <3>3. Handles' /\ OneTask' /\ Remembered'
      BY <1>0, <1>3, <1>5, <1>7, <2>1, <3>1
      DEF Known, TypeOK, SoleInv, Handles, OneTask, Stray, Remembered, Alive, IsLive
    <3> QED BY <3>2, <3>3 DEF SoleInv
  <2>4. CASE ~ok
    <3>1. /\ pc' = [pc EXCEPT ![c] = "idle"]
          /\ held' = [held EXCEPT ![c] = {}]
          /\ joining' = [joining EXCEPT ![c] = {}] /\ UNCHANGED state
      BY <1>27, <2>1, <2>4 DEF ShutdownMark, Return
    <3>2. ~IsLive(state[S])
      BY <1>3, <2>1, <2>4 DEF IsLive, CanTransition, LegalMoves
    <3>3. OneCaller' /\ OneService'
      BY <1>15, <1>16, <2>1, <3>1
    <3>4. Handles' /\ OneTask' /\ Remembered'
      BY <1>0, <1>3, <2>1, <3>1, <3>2
      DEF Known, TypeOK, SoleInv, Handles, OneTask, Stray, Remembered, Alive, IsLive
    <3> QED BY <3>3, <3>4 DEF SoleInv
  <2> QED BY <2>3, <2>4
<1>28. ASSUME ShutdownJoin(c) PROVE SoleInv'
  <2>1. PICK t \in joining[c] :
          /\ \/ phase[t] = "ended" /\ Record(svc[t], "Stopped")
             \/ phase[t] # "ended" /\ StuckTasks /\ Record(svc[t], "Failed")
          /\ joining' = [joining EXCEPT ![c] = @ \ {t}]
          /\ IF joining[c] = {t} THEN Return(c) ELSE UNCHANGED <<pc, gate>>
    BY <1>28 DEF ShutdownJoin
  <2>2. /\ pc[c] = "downJoin"
        /\ UNCHANGED <<slot, phase, svc, held, target, enabled, givenUp>>
    BY <1>28 DEF ShutdownJoin
  <2>3. joining[c] = {t} /\ t \in Tasks /\ svc[t] = S
    BY <2>1 DEF Known, TypeOK, SoleInv, Handles, OneService
  <2>4. phase[t] = "ended" /\ Record(S, "Stopped") /\ joining'[c] = {}
    BY <1>0, <2>1, <2>2, <2>3 DEF Known, TypeOK
  <2>5. ~IsLive(state[S]) /\ \A u \in Tasks : ~Alive(u)
    BY <1>4, <1>7, <2>2, <2>3, <2>4, EmptyHands DEF Stray
  <2>6. ~IsLive(state'[S])
    BY <2>4, <2>5 DEF Known, TypeOK, Record, IsLive
  <2>7. pc' = [pc EXCEPT ![c] = "idle"]
    BY <2>1, <2>3 DEF Return
  <2>8. OneCaller' /\ OneService'
    BY <1>15, <1>16, <2>2, <2>7
  <2>9. Handles' /\ OneTask' /\ Remembered'
    BY <1>0, <1>4, <2>2, <2>4, <2>5, <2>6, <2>7
    DEF Known, TypeOK, SoleInv, Handles, OneTask, Stray, Remembered, Alive, IsLive
  <2> QED BY <2>8, <2>9 DEF SoleInv
(* The tasks.                                                              *)
<1>29. ASSUME NEW t \in Tasks, TaskReady(t) PROVE SoleInv'
  <2>1. /\ UNCHANGED <<slot, svc, pc, target, held, joining, enabled, givenUp>>
        /\ Alive(t) /\ \A u \in Tasks : Alive(u)' => Alive(u)
    BY <1>29 DEF Known, TypeOK, TaskReady, callVars, Alive
  <2>2. \/ state' = state
        \/ /\ state[S] = "Starting"
           /\ state' = [state EXCEPT ![S] = "Running"]
    BY <1>29 DEF Known, TypeOK, SoleInv, OneService, TaskReady, CanTransition,
                 LegalMoves
  <2>3. state[S] = "Starting" =>
          pc[c] \in {"await", "discard", "discardJoin"} \/ S \in givenUp
    <3>1. ASSUME state[S] = "Starting", NEW d \in Callers, Watches(d, S)
          PROVE  d = c /\ pc[c] \notin {"discardCheck", "discardRecord"}
      BY <1>0, <1>13, <3>1 DEF Watches, IsLive, Known, SoleInv, OneCaller
    <3> QED BY <3>1 DEF Known, StartWatched, Watches
  <2>4. OneCaller' /\ OneService'
    BY <1>0, <2>1 DEF Known, SoleInv, OneCaller, OneService
  <2>5. Handles' /\ OneTask'
    BY <1>0, <2>1, <2>2 DEF Known, TypeOK, SoleInv, Handles, OneTask, Stray, IsLive
  <2>6. Remembered'
    BY <1>0, <2>1, <2>2, <2>3 DEF Known, TypeOK, SoleInv, Remembered
  <2> QED BY <2>4, <2>5, <2>6 DEF SoleInv
<1>30. ASSUME NEW t \in Tasks, NEW clean \in BOOLEAN, TaskReturn(t, clean)
       PROVE  SoleInv'
  <2>1. /\ UNCHANGED <<state, slot, svc, pc, target, held, joining, enabled, givenUp>>
        /\ Alive(t) /\ \A u \in Tasks : Alive(u)' => Alive(u)
    BY <1>30 DEF Known, TypeOK, TaskReturn, regVars, callVars, Alive
  <2>2. OneCaller' /\ OneService'
    BY <1>0, <2>1 DEF Known, SoleInv, OneCaller, OneService
  <2>3. Handles' /\ OneTask' /\ Remembered'
    BY <1>0, <2>1 DEF Known, SoleInv, Handles, OneTask, Stray, Remembered
  <2> QED BY <2>2, <2>3 DEF SoleInv
(* With the one task at its end, nothing is left that could be live.       *)
<1>31. ASSUME NEW t \in Tasks, TaskRecord(t) PROVE SoleInv'
  <2>1. /\ UNCHANGED <<slot, svc, pc, target, held, joining, enabled, givenUp>>
        /\ Alive(t) /\ ~Alive(t)'
        /\ \A u \in Tasks : Alive(u)' => Alive(u)
    BY <1>31 DEF Known, TypeOK, TaskRecord, callVars, Alive
  <2>2. \A u \in Tasks : ~Alive(u)'
    BY <2>1 DEF Known, SoleInv, OneTask
  <2>3. LiveSettles'
    BY StepSettles DEF Known, MCNext
  <2>4. ~IsLive(state'[S])
    BY <2>2, <2>3 DEF LiveSettles, Settles, Alive
  <2>5. OneCaller' /\ OneService'
    BY <1>0, <2>1 DEF Known, SoleInv, OneCaller, OneService
  <2>6. Handles' /\ OneTask' /\ Remembered'
    BY <1>0, <2>1, <2>2, <2>4
    DEF Known, SoleInv, Handles, OneTask, Stray, Remembered, IsLive
  <2> QED BY <2>5, <2>6 DEF SoleInv
(* The call is given up: before there is a task, while its task starts, or *)
(* with a task that was told to stop.                                      *)
<1>32. ASSUME GiveUp(c) PROVE SoleInv'
  <2>1. /\ pc[c] \in Awaits /\ pc' = [pc EXCEPT ![c] = "idle"]
        /\ joining' = [joining EXCEPT ![c] = {}]
        /\ UNCHANGED <<state, slot, phase, svc, held, target, enabled>>
        /\ givenUp \subseteq givenUp'
        /\ pc[c] \in {"await", "discardJoin"} => S \in givenUp'
    BY <1>6, <1>32 DEF GiveUp, Awaits, Return
  <2>2. OneCaller' /\ OneService'
    BY <1>15, <1>16, <2>1
  <2>3. pc[c] \in {"stopJoin", "downJoin"} =>
          ~IsLive(state[S]) /\ \A t \in Tasks : ~Alive(t)
    BY <1>0, <1>4, <1>7, <2>1, EmptyHands DEF Known, TypeOK, Stray
  <2>4. joining'[c] = {} /\ held'[c] = held[c] /\ pc'[c] = "idle"
    BY <2>1 DEF Known, TypeOK
  <2>5. state[S] # "Stopping"
    BY <2>1, <2>3 DEF Awaits, IsLive, Known, SoleInv, OneTask
  <2>6. Handles'
    BY <1>0, <2>1, <2>4 DEF Known, SoleInv, Handles
  <2>7. ASSUME NEW t \in Tasks, Alive(t)
        PROVE  t = slot[S] \/ t \in held[c] \/ Stray'
    BY <1>0, <1>3, <1>7, <2>1, <2>3, <2>4, <2>7
    DEF Awaits, Known, SoleInv, OneTask, Stray
  <2>8. OneTask'
    BY <1>0, <2>1, <2>4, <2>5, <2>7 DEF Known, SoleInv, OneTask, Alive
  <2>9. Remembered'
    BY <1>0, <1>5, <2>1, <2>3 DEF Awaits, IsLive, Remembered
  <2> QED BY <2>2, <2>6, <2>8, <2>9 DEF SoleInv
(* No other caller makes a step: it is idle and would not stay so.         *)
<1>33. ASSUME NEW d \in Callers \ {c},
              Call(d) \/ Prompted(d) \/ CallerStep(d) \/ GiveUp(d)
       PROVE  FALSE
  <2>1. pc[d] = "idle" /\ pc'[d] = "idle"
    BY <1>0
  <2>2. ~Prompted(d) /\ ~CallerStep(d) /\ ~GiveUp(d)
    BY <2>1
    DEF GiveUp, Awaits, Prompted, CallerStep, StartStep, StopStep, ShutdownStep,
        StartPrepared, StartRefused, StartReset, StartSpawn, StartSpawnRejected, AwaitReady,
        AwaitFailed, AwaitTimeout, StartedHook, Discard, DiscardJoin,
        DiscardCheck, DiscardRecord, StopEnter, StopTake, StopMark, StopJoin,
        StopJoinTimeout, StopStuck, StopSettle, StopHook, ShutdownCheck,
        ShutdownMark, ShutdownJoin
  <2>3. ~Call(d)
    BY <2>1 DEF Known, TypeOK, Call, StartCall, StopCall, ShutdownCall, Goto
  <2> QED BY <1>33, <2>2, <2>3
<1>34. ASSUME StartStep(c) PROVE SoleInv'
  BY <1>8, <1>9, <1>10, <1>14, <1>17, <1>21, <1>22, <1>23, <1>25, <1>34
     DEF StartStep
<1>35. ASSUME StopStep(c) PROVE SoleInv'
  BY <1>11, <1>18, <1>19, <1>20, <1>21, <1>22, <1>24, <1>35 DEF StopStep
<1>36. ASSUME ShutdownStep(c) PROVE SoleInv'
  BY <1>12, <1>27, <1>28, <1>36 DEF ShutdownStep
<1>37. ASSUME Call(c) \/ Prompted(c) PROVE SoleInv'
  BY <1>2, <1>8, <1>9, <1>26, <1>37 DEF Call, Prompted
<1>38. ASSUME NEW t \in Tasks, TaskStep(t) PROVE SoleInv'
  BY <1>29, <1>30, <1>31, <1>38 DEF TaskStep
<1>39. \/ \E d \in Callers : Call(d) \/ Prompted(d) \/ CallerStep(d) \/ GiveUp(d)
      \/ \E t \in Tasks : TaskStep(t)
  BY DEF MCNext, Next
<1> QED
  BY <1>32, <1>33, <1>34, <1>35, <1>36, <1>37, <1>38, <1>39 DEF CallerStep

LEMMA SoleStays == Known /\ [MCNext]_<<vars, sole>> => SoleInv'
<1> SUFFICES ASSUME Known, [MCNext]_<<vars, sole>> PROVE SoleInv'
  OBVIOUS
<1>1. CASE MCNext /\ sole \in Callers
  BY <1>1, StepSole
<1>2. CASE MCNext /\ sole \notin Callers
  BY <1>2 DEF MCNext, SoleInv
<1>3. CASE UNCHANGED <<vars, sole>>
  BY <1>3 DEF vars, Known, SoleInv, OneCaller, OneService, Handles, OneTask,
              Stray, Remembered, Alive
<1> QED BY <1>1, <1>2, <1>3

(* Calls made one at a time, with tasks that return when they are told to: *)
(* what the shell reports, what runs and what it will restore at the next  *)
(* start agree (start, stop, shutdown, and the hooks of server sharing).   *)
THEOREM SoleCallersAgree == MCSpec => []SoleCallsAgree
<1> DEFINE Named == sole \in Callers \cup {NoCaller}
<1>1. MCInit => TypeOK /\ OwnershipInv /\ LiveSettles /\ StartWatched /\ SoleInv /\ Named
  BY InitTyped, InitOwned, InitLive, InitSole DEF MCInit
<1>2. Known /\ Named /\ [MCNext]_<<vars, sole>> => Known' /\ Named'
  <2> SUFFICES ASSUME Known, Named, [MCNext]_<<vars, sole>> PROVE Known' /\ Named'
    OBVIOUS
  <2>1. [Next]_vars
    BY DEF MCNext
  <2> QED
    BY <2>1, SoleStays, StepTyped, StepOwned, StepSettles, StepWatched
       DEF Known, MCNext
<1>3. Known /\ Named => SoleCallsAgree
  <2> SUFFICES ASSUME Known, Named, sole # NoCaller
               PROVE  ManagedTaskIsLive /\ StoppedHasNoTask /\ OneTaskPerService
                        /\ RunningIsRemembered
    BY DEF SoleCallsAgree
  <2>1. sole \in Callers
    OBVIOUS
  <2>2. ManagedTaskIsLive
    BY <2>1 DEF ManagedTaskIsLive, Known, SoleInv, OneService, OneTask, TypeOK
  <2>3. StoppedHasNoTask
    BY <2>1 DEF StoppedHasNoTask, Known, SoleInv, OneService, OneTask, IsLive
  <2>4. OneTaskPerService /\ RunningIsRemembered
    BY <2>1 DEF OneTaskPerService, RunningIsRemembered, Known, SoleInv, OneTask,
                Remembered
  <2> QED BY <2>2, <2>3, <2>4
<1> QED
  BY <1>1, <1>2, <1>3, PTL DEF MCSpec, Known

-----------------------------------------------------------------------------
(* Refinement of TaskOwnership.                                            *)

stageBar == [t \in Tasks |-> StageOf(t)]

LEMMA InitRefines == Init => Ownership!Init
<1> SUFFICES ASSUME Init PROVE Ownership!Init
  OBVIOUS
<1>1. \A t \in Tasks : StageOf(t) = "new"
  BY DEF Init, StageOf
<1> QED BY <1>1, SharingAssumption DEF Init, Ownership!Init

(* Nothing that tells stages apart has moved.                              *)
LEMMA SameStages ==
  ASSUME UNCHANGED <<slot, svc, cancelled, held>>,
         \A t \in Tasks : phase'[t] = "unborn" <=> phase[t] = "unborn"
  PROVE  UNCHANGED Ownership!vars
<1>1. \A t \in Tasks : StageOf(t)' = StageOf(t)
  BY DEF StageOf
<1> QED BY <1>1 DEF Ownership!vars

(* The entries of T leave the map for the hands of c.                      *)
LEMMA ClaimRefines ==
  ASSUME TypeOK, OwnershipInv, NEW c \in Callers, NEW S \in SUBSET Services,
         \A s \in S : slot[s] # NoTask,
         slot' = [s \in Services |-> IF s \in S THEN NoTask ELSE slot[s]],
         held[c] = {},
         held' = [held EXCEPT ![c] = { slot[s] : s \in S }],
         UNCHANGED <<phase, svc, cancelled>>
  PROVE  Ownership!Claim({ slot[s] : s \in S })
<1> DEFINE T == { slot[s] : s \in S }
<1>1. \A t \in T : /\ t \in Tasks
                   /\ phase[t] # "unborn"
                   /\ t \notin cancelled
                   /\ \A d \in Callers : t \notin held[d]
                   /\ slot[svc[t]] = t
  BY DEF TypeOK, OwnershipInv, SlotsOwn
<1>2. \A t \in T : StageOf(t) = "managed"
  BY <1>1 DEF StageOf
<1>3. \A t \in T : StageOf(t)' = "claimed"
  BY <1>1 DEF TypeOK, StageOf
<1>4. \A t \in Tasks \ T : StageOf(t)' = StageOf(t)
  <2> SUFFICES ASSUME NEW t \in Tasks \ T PROVE StageOf(t)' = StageOf(t)
    OBVIOUS
  <2>1. (\E d \in Callers : t \in held'[d]) <=> (\E d \in Callers : t \in held[d])
    BY DEF TypeOK
  <2>2. svc[t] \in Services
    BY DEF TypeOK
  <2>3. slot'[svc[t]] = t <=> slot[svc[t]] = t
    BY <2>2, NoTaskAssumption
  <2> QED BY <2>1, <2>3 DEF StageOf
<1>5. /\ \A t \in T : stageBar[t] = "managed"
      /\ stageBar' = [t \in Tasks |-> IF t \in T THEN "claimed" ELSE stageBar[t]]
  BY <1>1, <1>2, <1>3, <1>4 DEF stageBar
<1> QED BY <1>5 DEF Ownership!Claim, stageBar

(* The tasks of T are cancelled; what held them, if a caller, lets go.     *)
LEMMA CancelRefines ==
  ASSUME TypeOK, OwnershipInv, NEW T \in SUBSET Tasks,
         \A t \in T : /\ \/ slot[svc[t]] = t
                         \/ \E c \in Callers : t \in held[c]
                      /\ phase[t] # "unborn"
                      /\ t \notin cancelled,
         cancelled' = cancelled \cup T,
         \A t \in Tasks \ T : /\ slot'[svc[t]] = t <=> slot[svc[t]] = t
                              /\ \A c \in Callers : t \in held'[c] <=> t \in held[c],
         UNCHANGED <<phase, svc>>
  PROVE  Ownership!Cancel(T)
<1>1. \A t \in T : StageOf(t) \in {"managed", "claimed"}
  BY DEF StageOf
<1>2. \A t \in T : StageOf(t)' = "cancelled"
  BY DEF StageOf
<1>3. \A t \in Tasks \ T : StageOf(t)' = StageOf(t)
  BY DEF StageOf
<1>4. /\ \A t \in T : stageBar[t] \in {"managed", "claimed"}
      /\ stageBar' = [t \in Tasks |-> IF t \in T THEN "cancelled" ELSE stageBar[t]]
  BY <1>1, <1>2, <1>3 DEF stageBar
<1> QED BY <1>4 DEF Ownership!Cancel, stageBar

LEMMA SpawnRefines ==
  ASSUME TypeOK, OwnershipInv, NEW c \in Callers, StartSpawn(c)
  PROVE  \E s \in Services, t \in Tasks : Ownership!Spawn(s, t)
<1> DEFINE s == target[c]
<1>1. PICK t \in Tasks :
        /\ phase[t] = "unborn"
        /\ phase' = [phase EXCEPT ![t] = "up"]
        /\ svc' = [svc EXCEPT ![t] = s]
        /\ slot' = [slot EXCEPT ![s] = t]
  BY DEF StartSpawn
<1>2. /\ s \in Services
      /\ slot[s] = NoTask
      /\ UNCHANGED <<cancelled, held>>
  BY DEF StartSpawn, TypeOK
<1>3. /\ t \notin cancelled
      /\ \A d \in Callers : t \notin held[d]
      /\ \A r \in Services : slot[r] # t
  BY <1>1, NoTaskAssumption DEF OwnershipInv, SlotsOwn, HoldersOwn, TasksOwned
<1>4. StageOf(t) = "new" /\ StageOf(t)' = "managed"
  BY <1>1, <1>2, <1>3 DEF StageOf, TypeOK
<1>5. \A u \in Tasks : svc[u] = s => StageOf(u) # "managed"
  BY <1>2, NoTaskAssumption DEF StageOf
<1>6. \A u \in Tasks \ {t} : StageOf(u)' = StageOf(u)
  <2> SUFFICES ASSUME NEW u \in Tasks \ {t} PROVE StageOf(u)' = StageOf(u)
    OBVIOUS
  <2>1. svc'[u] = svc[u] /\ phase'[u] = phase[u] /\ svc[u] \in Services
    BY <1>1 DEF TypeOK
  <2>2. slot'[svc[u]] = u <=> slot[svc[u]] = u
    BY <1>1, <1>2, <2>1, NoTaskAssumption DEF TypeOK
  <2> QED BY <1>2, <2>1, <2>2 DEF StageOf
<1>7. /\ stageBar[t] = "new"
      /\ \A u \in Tasks : svc[u] = s => stageBar[u] # "managed"
      /\ stageBar' = [stageBar EXCEPT ![t] = "managed"]
  BY <1>4, <1>5, <1>6 DEF stageBar
<1>8. Ownership!Spawn(s, t)
  BY <1>1, <1>7 DEF Ownership!Spawn, stageBar
<1> QED BY <1>2, <1>8

LEMMA StepRefines ==
  TypeOK /\ OwnershipInv /\ [Next]_vars => [Ownership!Next]_(Ownership!vars)
<1> SUFFICES ASSUME TypeOK, OwnershipInv, [Next]_vars
             PROVE  Ownership!Next \/ UNCHANGED Ownership!vars
  OBVIOUS
<1>1. ASSUME NEW c \in Callers, StartSpawn(c) PROVE Ownership!Next
  BY <1>1, SpawnRefines DEF Ownership!Next
<1>2. ASSUME NEW c \in Callers, Discard(c)
      PROVE  Ownership!Next \/ UNCHANGED Ownership!vars
  <2>1. CASE slot[target[c]] = NoTask
    BY <1>2, <2>1, SameStages DEF Discard
  <2>2. CASE slot[target[c]] # NoTask
    <3> DEFINE s == target[c]
               T == {slot[s]}
    <3>1. /\ s \in Services
          /\ T \in SUBSET Tasks
          /\ slot' = [slot EXCEPT ![s] = NoTask]
          /\ cancelled' = cancelled \cup T
          /\ UNCHANGED <<phase, svc, held>>
      BY <1>2, <2>2 DEF Discard, TypeOK
    <3>2. \A t \in T : /\ slot[svc[t]] = t
                       /\ phase[t] # "unborn"
                       /\ t \notin cancelled
      BY <2>2, <3>1 DEF OwnershipInv, SlotsOwn
    <3>3. \A t \in Tasks \ T : slot'[svc[t]] = t <=> slot[svc[t]] = t
      BY <3>1, NoTaskAssumption DEF TypeOK
    <3>4. Ownership!Cancel(T)
      BY <3>1, <3>2, <3>3, CancelRefines
    <3> QED BY <3>1, <3>4 DEF Ownership!Next
  <2> QED BY <2>1, <2>2
<1>3. ASSUME NEW c \in Callers, StopTake(c)
      PROVE  Ownership!Next \/ UNCHANGED Ownership!vars
  <2>1. CASE slot[target[c]] = NoTask
    BY <1>3, <2>1, SameStages DEF StopTake
  <2>2. CASE slot[target[c]] # NoTask
    <3> DEFINE S == {target[c]}
               T == { slot[s] : s \in S }
    <3>1. /\ S \in SUBSET Services
          /\ slot' = [s \in Services |-> IF s \in S THEN NoTask ELSE slot[s]]
          /\ held[c] = {}
          /\ held' = [held EXCEPT ![c] = T]
          /\ UNCHANGED <<phase, svc, cancelled>>
      BY <1>3, <2>2 DEF StopTake, TypeOK, OwnershipInv, HoldersOwn
    <3>2. T \in SUBSET Tasks
      BY <2>2, <3>1 DEF TypeOK
    <3>3. Ownership!Claim(T)
      BY <2>2, <3>1, ClaimRefines
    <3> QED BY <3>2, <3>3 DEF Ownership!Next
  <2> QED BY <2>1, <2>2
<1>4. ASSUME NEW c \in Callers, ShutdownCall(c) PROVE Ownership!Next
  <2> DEFINE S == { s \in Services : slot[s] # NoTask }
             T == { slot[s] : s \in S }
  <2>1. T = Entries
    BY DEF Entries
  <2>2. /\ slot' = [s \in Services |-> IF s \in S THEN NoTask ELSE slot[s]]
        /\ held[c] = {}
        /\ held' = [held EXCEPT ![c] = T]
        /\ UNCHANGED <<phase, svc, cancelled>>
    BY <1>4, <2>1 DEF ShutdownCall, OwnershipInv, HoldersOwn
  <2>3. T \in SUBSET Tasks
    BY DEF TypeOK
  <2>4. Ownership!Claim(T)
    BY <2>2, ClaimRefines
  <2> QED BY <2>3, <2>4 DEF Ownership!Next
<1>5. ASSUME NEW c \in Callers, NEW T \in SUBSET held[c],
             cancelled' = cancelled \cup T,
             held' = [held EXCEPT ![c] = @ \ T],
             UNCHANGED <<slot, phase, svc>>
      PROVE  Ownership!Next
  <2>1. T \in SUBSET Tasks
    BY DEF TypeOK
  <2>2. \A t \in T : /\ \E d \in Callers : t \in held[d]
                     /\ phase[t] # "unborn"
                     /\ t \notin cancelled
    BY DEF OwnershipInv, HoldersOwn
  <2>3. \A t \in Tasks \ T : \A d \in Callers : t \in held'[d] <=> t \in held[d]
    BY <1>5 DEF TypeOK
  <2>4. Ownership!Cancel(T)
    BY <1>5, <2>1, <2>2, <2>3, CancelRefines
  <2> QED BY <2>1, <2>4 DEF Ownership!Next
<1>6. ASSUME NEW c \in Callers, StopMark(c) PROVE Ownership!Next
  <2>1. /\ cancelled' = cancelled \cup held[c]
        /\ held' = [held EXCEPT ![c] = @ \ held[c]]
        /\ UNCHANGED <<slot, phase, svc>>
    BY <1>6 DEF StopMark
  <2> QED BY <1>5, <2>1
<1>7. ASSUME NEW c \in Callers, ShutdownMark(c) PROVE Ownership!Next
  <2>1. PICK T \in SUBSET held[c] :
          /\ cancelled' = cancelled \cup T
          /\ held' = [held EXCEPT ![c] = @ \ T]
    BY <1>7, MarkCancels
  <2> QED BY <1>5, <1>7, <2>1 DEF ShutdownMark
<1>8. ASSUME NEW t \in Tasks,
             TaskReady(t) \/ (\E clean \in BOOLEAN : TaskReturn(t, clean)) \/ TaskRecord(t)
      PROVE  UNCHANGED Ownership!vars
  BY <1>8, SameStages DEF TypeOK, TaskReady, TaskReturn, TaskRecord
<1>9. ASSUME NEW c \in Callers,
             \/ \E s \in Services : StartCall(c, s) \/ StopCall(c, s)
             \/ Prompted(c) \/ StartReset(c) \/ StartSpawnRejected(c)
             \/ AwaitReady(c) \/ AwaitFailed(c) \/ AwaitTimeout(c)
             \/ StartedHook(c) \/ DiscardJoin(c) \/ DiscardCheck(c)
             \/ DiscardRecord(c) \/ StopEnter(c) \/ StopJoin(c)
             \/ StopJoinTimeout(c) \/ StopStuck(c) \/ StopSettle(c)
             \/ StopHook(c) \/ ShutdownCheck(c) \/ ShutdownJoin(c) \/ GiveUp(c)
      PROVE  UNCHANGED Ownership!vars
  BY <1>9, SameStages
     DEF StartCall, StopCall, Prompted, StartPrepared, StartRefused, StartReset,
         StartSpawnRejected, AwaitReady, AwaitFailed, AwaitTimeout, StartedHook,
         DiscardJoin, DiscardCheck, DiscardRecord, StopEnter, StopJoin,
         StopJoinTimeout, StopStuck, StopSettle, StopHook, ShutdownCheck,
         ShutdownJoin, GiveUp
<1>10. CASE UNCHANGED vars
  BY <1>10, SameStages
<1> QED
  BY <1>1, <1>2, <1>3, <1>4, <1>6, <1>7, <1>8, <1>9, <1>10
     DEF Next, Call, CallerStep, StartStep, StopStep, ShutdownStep, TaskStep

(* The coordinator implements TaskOwnership: at most one managed task per  *)
(* service, and none leaves management except to be cancelled.             *)
THEOREM Refinement == Spec => OwnershipRefined
<1>1. Spec => []TypeOK /\ []OwnershipInv
  BY TypeCorrect, OwnershipInvariant
<1> QED
  BY <1>1, InitRefines, StepRefines, PTL
     DEF Spec, OwnershipRefined, Ownership!Spec
=============================================================================
