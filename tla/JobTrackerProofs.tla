-------------------------- MODULE JobTrackerProofs --------------------------
(* Theorems about JobTracker, for any finite set of requests and any number*)
(* of drain calls and workers.                                             *)
EXTENDS JobTracker, FiniteSetTheorems, TLAPS

USE DEF vars, counts, timers, drainVars

(* The Boolean fields, apart from the others.                              *)
LEMMA StepFlags == FlagsOK /\ [Next]_vars => FlagsOK'
<1> SUFFICES ASSUME FlagsOK, [Next]_vars PROVE FlagsOK'
  OBVIOUS
<1> USE DEF FlagsOK
<1>1. ASSUME NEW r \in Leases, LeaseStep(r) PROVE FlagsOK'
  BY <1>1, Zenon DEF LeaseStep, TryAcquireRequest, MarkPrintJob, DropLease
<1>2. CASE CoolDown \/ QuietWindow
  BY <1>2, Zenon DEF CoolDown, QuietWindow
<1>3. ASSUME NEW d \in Drainers,
             BeginDrain(d) \/ DrainStep(d) \/ DrainTimeout(d) \/ Deadline(d)
      PROVE  FlagsOK'
  BY <1>3, Zenon DEF BeginDrain, DrainStep, ArmDrain, LookDrain,
                     SleepDrain, WakeDrain,
                     DrainTimeout, Deadline
<1>4. ASSUME NEW w \in Workers, TryBeginRestart(w) \/ DropPermit(w)
      PROVE  FlagsOK'
  BY <1>4, Zenon DEF TryBeginRestart, DropPermit
<1>5. CASE UNCHANGED vars
  BY <1>5, Zenon
<1>6. QED
  BY <1>1, <1>2, <1>3, <1>4, <1>5, Zenon DEF Next

LEMMA InitTyped == Init => TypeOK
<1> SUFFICES ASSUME Init PROVE TypeOK
  OBVIOUS
<1>1. FlagsOK
  BY Zenon DEF Init, FlagsOK
<1>2. QED
  BY <1>1 DEF Init, TypeOK, Waiting

LEMMA StepTyped == TypeOK /\ [Next]_vars => TypeOK'
<1> SUFFICES ASSUME TypeOK, [Next]_vars PROVE TypeOK'
  OBVIOUS
<1>0. FlagsOK'
  BY StepFlags DEF TypeOK
<1> USE <1>0 DEF TypeOK, Waiting, Less, Move
<1>1. ASSUME NEW r \in Leases, TryAcquireRequest(r) PROVE TypeOK'
  BY <1>1 DEF TryAcquireRequest
<1>2. ASSUME NEW r \in Leases, MarkPrintJob(r) PROVE TypeOK'
  BY <1>2 DEF MarkPrintJob
<1>3. ASSUME NEW r \in Leases, DropLease(r) PROVE TypeOK'
  <2>1. woken' \in SUBSET Drainers
    BY <1>3 DEF DropLease, Armed
  <2>2. activeJobs' \in Nat /\ activeRequests' \in Nat
    BY <1>3 DEF DropLease
  <2>3. QED BY <1>3, <2>1, <2>2 DEF DropLease
<1>4. CASE CoolDown \/ QuietWindow
  BY <1>4 DEF CoolDown, QuietWindow
<1>5. ASSUME NEW d \in Drainers, BeginDrain(d) \/ DrainStep(d) PROVE TypeOK'
  BY <1>5 DEF BeginDrain, DrainStep, ArmDrain, LookDrain, SleepDrain, WakeDrain
<1>6. ASSUME NEW d \in Drainers, DrainTimeout(d) \/ Deadline(d) PROVE TypeOK'
  BY <1>6 DEF DrainTimeout, Deadline
<1>7. ASSUME NEW w \in Workers, TryBeginRestart(w) \/ DropPermit(w)
      PROVE  TypeOK'
  BY <1>7 DEF TryBeginRestart, DropPermit
<1>8. CASE UNCHANGED vars
  BY <1>8
<1>9. QED
  BY <1>1, <1>2, <1>3, <1>4, <1>5, <1>6, <1>7, <1>8 DEF Next, LeaseStep

(* JobTracker's variables keep their types (TrackerState's fields and the  *)
(* places a drain call can be at).                                         *)
THEOREM TypeCorrect == Spec => []TypeOK
BY InitTyped, StepTyped, PTL DEF Spec

-----------------------------------------------------------------------------
(* The counters are the leases.                                            *)

LEMMA HoldingFinite ==
  ASSUME NEW k PROVE IsFiniteSet(Holding(k)) /\ Cardinality(Holding(k)) \in Nat
<1>1. Holding(k) \in SUBSET Leases
  BY DEF Holding
<1>2. QED
  BY <1>1, LeasesAssumption, FS_Subset, FS_CardinalityType

(* A lease that moves from one kind to another leaves the first set and    *)
(* joins the second.                                                       *)
LEMMA LeaseMoves ==
  ASSUME TypeOK, NEW r \in Leases, NEW from, NEW to,
         lease[r] = from, lease' = [lease EXCEPT ![r] = to], from # to
  PROVE  /\ Holding(to)' = Holding(to) \cup {r}
         /\ Holding(from)' = Holding(from) \ {r}
<1>1. \A q \in Leases : lease'[q] = IF q = r THEN to ELSE lease[q]
  BY DEF TypeOK
<1>2. QED
  BY <1>1, Zenon DEF Holding

LEMMA OthersStay ==
  ASSUME TypeOK, NEW r \in Leases, NEW to,
         lease' = [lease EXCEPT ![r] = to]
  PROVE  /\ "request" \notin {lease[r], to} =>
              Holding("request")' = Holding("request")
         /\ "job" \notin {lease[r], to} => Holding("job")' = Holding("job")
<1>1. \A q \in Leases : lease'[q] = IF q = r THEN to ELSE lease[q]
  BY DEF TypeOK
<1>2. QED
  BY <1>1, Zenon DEF Holding

LEMMA LeaseMovesCount ==
  ASSUME TypeOK, NEW r \in Leases, NEW from, NEW to,
         lease[r] = from, lease' = [lease EXCEPT ![r] = to], from # to
  PROVE  /\ Cardinality(Holding(to))' = Cardinality(Holding(to)) + 1
         /\ Cardinality(Holding(from)) > 0
         /\ Cardinality(Holding(from))' = Cardinality(Holding(from)) - 1
<1>1. r \notin Holding(to) /\ r \in Holding(from)
  BY DEF Holding
<1>2. Cardinality(Holding(to)) + 1 = Cardinality(Holding(to) \cup {r})
  BY <1>1, HoldingFinite, FS_AddElement
<1>3. Cardinality(Holding(from) \ {r}) = Cardinality(Holding(from)) - 1
  BY <1>1, HoldingFinite, FS_RemoveElement
<1>4. Cardinality(Holding(from)) # 0
  BY <1>1, HoldingFinite, FS_EmptySet
<1>5. Cardinality(Holding(from)) > 0
  BY <1>4, HoldingFinite
<1>6. QED
  BY <1>2, <1>3, <1>5, LeaseMoves

LEMMA StepCounts == TypeOK /\ CountsLeases /\ [Next]_vars => CountsLeases'
<1> SUFFICES ASSUME TypeOK, CountsLeases, [Next]_vars PROVE CountsLeases'
  OBVIOUS
<1>1. ASSUME NEW r \in Leases, TryAcquireRequest(r) PROVE CountsLeases'
  <2>1. lease' = [lease EXCEPT ![r] = "request"] /\ lease[r] = "none"
    BY <1>1 DEF TryAcquireRequest
  <2>2. /\ Cardinality(Holding("request"))' = Cardinality(Holding("request")) + 1
        /\ Cardinality(Holding("job"))' = Cardinality(Holding("job"))
    BY <2>1, LeaseMovesCount, OthersStay
  <2>3. QED
    BY <1>1, <2>2 DEF TryAcquireRequest, CountsLeases
<1>2. ASSUME NEW r \in Leases, MarkPrintJob(r) PROVE CountsLeases'
  <2>1. lease' = [lease EXCEPT ![r] = "job"] /\ lease[r] = "request"
    BY <1>2 DEF MarkPrintJob
  <2>2. /\ Cardinality(Holding("request")) > 0
        /\ Cardinality(Holding("request"))' = Cardinality(Holding("request")) - 1
        /\ Cardinality(Holding("job"))' = Cardinality(Holding("job")) + 1
    BY <2>1, LeaseMovesCount
  <2>3. QED
    BY <1>2, <2>2, HoldingFinite DEF MarkPrintJob, CountsLeases, Less
<1>3. ASSUME NEW r \in Leases, DropLease(r) PROVE CountsLeases'
  <2>1. lease' = [lease EXCEPT ![r] = "none"] /\ lease[r] # "none"
    BY <1>3 DEF DropLease
  <2>2. lease[r] \in {"request", "job"}
    BY <2>1 DEF TypeOK
  <2>3. CASE lease[r] = "job"
    <3>1. /\ Cardinality(Holding("job")) > 0
          /\ Cardinality(Holding("job"))' = Cardinality(Holding("job")) - 1
          /\ Cardinality(Holding("request"))' = Cardinality(Holding("request"))
      BY <2>1, <2>3, LeaseMovesCount, OthersStay
    <3>2. QED
      BY <1>3, <2>3, <3>1, HoldingFinite DEF DropLease, CountsLeases, Less
  <2>4. CASE lease[r] = "request"
    <3>1. /\ Cardinality(Holding("request")) > 0
          /\ Cardinality(Holding("request"))' = Cardinality(Holding("request")) - 1
          /\ Cardinality(Holding("job"))' = Cardinality(Holding("job"))
      BY <2>1, <2>4, LeaseMovesCount, OthersStay
    <3>2. QED
      BY <1>3, <2>4, <3>1, HoldingFinite DEF DropLease, CountsLeases, Less
  <2>5. QED BY <2>2, <2>3, <2>4
<1>4. CASE UNCHANGED counts
  BY <1>4 DEF CountsLeases, Holding
<1>5. QED
  BY <1>1, <1>2, <1>3, <1>4
  DEF Next, LeaseStep, DrainStep, CoolDown, QuietWindow, BeginDrain, ArmDrain,
      LookDrain, SleepDrain, WakeDrain, DrainTimeout, Deadline,
      TryBeginRestart, DropPermit

LEMMA InitCounts == Init => CountsLeases
<1> SUFFICES ASSUME Init PROVE CountsLeases
  OBVIOUS
<1>1. Holding("job") = {} /\ Holding("request") = {}
  BY DEF Init, Holding
<1>2. QED
  BY <1>1, FS_EmptySet DEF Init, CountsLeases

(* active_jobs and active_requests always equal the leases alive: the      *)
(* saturating subtractions never saturate.                                 *)
THEOREM CountersAreExact == Spec => []CountsLeases
BY InitTyped, StepTyped, InitCounts, StepCounts, PTL DEF Spec

LEMMA ZeroMeansNone ==
  ASSUME TypeOK, CountsLeases
  PROVE  /\ activeJobs = 0 => Holding("job") = {}
         /\ activeJobs = 0 /\ activeRequests = 0 =>
              \A r \in Leases : lease[r] = "none"
<1>1. activeJobs = 0 => Holding("job") = {}
  BY HoldingFinite, FS_EmptySet DEF CountsLeases
<1>2. activeRequests = 0 => Holding("request") = {}
  BY HoldingFinite, FS_EmptySet DEF CountsLeases
<1>3. QED
  BY <1>1, <1>2 DEF TypeOK, Holding

-----------------------------------------------------------------------------
(* The Notify is never missed.                                             *)

LEMMA StepWakes == TypeOK /\ NoLostWakeup /\ [Next]_vars => NoLostWakeup'
<1> SUFFICES ASSUME TypeOK, NoLostWakeup, [Next]_vars,
                    NEW e \in Drainers, pc'[e] \in {"seen", "waiting"},
                    e \notin woken'
             PROVE  activeJobs' + activeRequests' > 0
  BY DEF NoLostWakeup
<1> USE DEF TypeOK, NoLostWakeup
<1>1. ASSUME NEW r \in Leases, TryAcquireRequest(r)
      PROVE  activeJobs' + activeRequests' > 0
  BY <1>1 DEF TryAcquireRequest
<1>2. ASSUME NEW r \in Leases, MarkPrintJob(r)
      PROVE  activeJobs' + activeRequests' > 0
  BY <1>2 DEF MarkPrintJob, Less
<1>3. ASSUME NEW r \in Leases, DropLease(r)
      PROVE  activeJobs' + activeRequests' > 0
  <2>1. e \in Armed
    BY <1>3 DEF DropLease, Armed
  <2>2. ~(activeJobs' = 0 /\ activeRequests' = 0)
    BY <1>3, <2>1 DEF DropLease
  <2>3. activeJobs' \in Nat /\ activeRequests' \in Nat
    BY <1>3, StepTyped
  <2>4. \A m, n \in Nat : ~(m = 0 /\ n = 0) => m + n > 0
    OBVIOUS
  <2>5. QED BY <2>2, <2>3, <2>4
<1>4. ASSUME NEW d \in Drainers, BeginDrain(d) \/ DrainStep(d)
      PROVE  activeJobs' + activeRequests' > 0
  <2>1. CASE BeginDrain(d)
    BY <2>1 DEF BeginDrain, Move
  <2>2. CASE DrainStep(d)
    BY <2>2 DEF DrainStep, ArmDrain, LookDrain, SleepDrain, WakeDrain, Move, Waiting
  <2>3. QED
    BY <1>4, <2>1, <2>2
<1>5. ASSUME NEW d \in Drainers, DrainTimeout(d) \/ Deadline(d)
      PROVE  activeJobs' + activeRequests' > 0
  BY <1>5 DEF DrainTimeout, Deadline, Move
<1>6. CASE CoolDown \/ QuietWindow
  BY <1>6 DEF CoolDown, QuietWindow
<1>7. ASSUME NEW w \in Workers, TryBeginRestart(w) \/ DropPermit(w)
      PROVE  activeJobs' + activeRequests' > 0
  BY <1>7 DEF TryBeginRestart, DropPermit
<1>8. CASE UNCHANGED vars
  BY <1>8
<1>9. QED
  BY <1>1, <1>2, <1>3, <1>4, <1>5, <1>6, <1>7, <1>8 DEF Next, LeaseStep

LEMMA InitWakes == Init => NoLostWakeup
BY DEF Init, NoLostWakeup

(* A drain never sleeps on counters that are already zero.                 *)
THEOREM WakeupsAreKept == Spec => []NoLostWakeup
BY InitTyped, StepTyped, InitWakes, StepWakes, PTL DEF Spec

-----------------------------------------------------------------------------
(* The restart permit.                                                     *)

PermitInv ==
  /\ RestartExclusive /\ OnePermit
  /\ permits # {} => IsDesktop

LEMMA StepPermits ==
  TypeOK /\ CountsLeases /\ PermitInv /\ [Next]_vars => PermitInv'
<1> SUFFICES ASSUME TypeOK, CountsLeases, PermitInv, [Next]_vars
             PROVE  PermitInv'
  OBVIOUS
<1> USE DEF PermitInv, RestartExclusive, OnePermit, TypeOK, IsDesktop
<1>1. ASSUME NEW r \in Leases, LeaseStep(r) PROVE PermitInv'
  BY <1>1 DEF LeaseStep, TryAcquireRequest, MarkPrintJob, DropLease
<1>2. ASSUME IsDesktop, NEW w \in Workers, TryBeginRestart(w)
      PROVE  PermitInv'
  <2>1. permits = {} /\ permits' = {w} /\ accepting' = FALSE
    BY <1>2 DEF TryBeginRestart
  <2>2. \A r \in Leases : lease[r] = "none"
    BY <1>2, ZeroMeansNone DEF TryBeginRestart, IsRestartSafe
  <2>3. QED
    BY <1>2, <2>1, <2>2 DEF TryBeginRestart
<1>3. ASSUME NEW w \in Workers, DropPermit(w) PROVE PermitInv'
  <2>1. permits' = {}
    BY <1>3 DEF DropPermit
  <2>2. QED BY <2>1
<1>4. ASSUME NEW d \in Drainers,
             BeginDrain(d) \/ DrainStep(d) \/ DrainTimeout(d) \/ Deadline(d)
      PROVE  PermitInv'
  <2>1. permits = {} /\ permits' = {}
    BY <1>4 DEF BeginDrain, DrainStep, ArmDrain, LookDrain, SleepDrain,
                WakeDrain, DrainTimeout, Deadline, Waiting
  <2>2. QED BY <2>1
<1>5. CASE UNCHANGED <<lease, accepting, permits, pc>>
  BY <1>5
<1>6. QED
  BY <1>1, <1>2, <1>3, <1>4, <1>5 DEF Next, CoolDown, QuietWindow

LEMMA InitPermits == Init => PermitInv
BY DEF Init, PermitInv, RestartExclusive, OnePermit

(* A held permit excludes every request and every job.                     *)
THEOREM PermitExcludesWork == Spec => []RestartExclusive
BY InitTyped, StepTyped, InitCounts, StepCounts, InitPermits, StepPermits, PTL
DEF Spec, PermitInv

(* At most one permit is held.                                             *)
THEOREM PermitIsUnique == Spec => []OnePermit
BY InitTyped, StepTyped, InitCounts, StepCounts, InitPermits, StepPermits, PTL
DEF Spec, PermitInv

-----------------------------------------------------------------------------
(* A drain that nobody else cancels holds.                                 *)

DrainInv ==
  \A d \in Drainers :
    /\ pc[d] \in Waiting \cup {"drained"} => draining
    /\ pc[d] = "drained" => Holding("job") = {}

LEMMA StepDrains ==
  ASSUME \A d, e \in Drainers : d = e
  PROVE  TypeOK /\ CountsLeases /\ DrainInv /\ [Next]_vars => DrainInv'
<1> SUFFICES ASSUME TypeOK, CountsLeases, DrainInv, [Next]_vars,
                    NEW d \in Drainers
             PROVE  /\ pc'[d] \in Waiting \cup {"drained"} => draining'
                    /\ pc'[d] = "drained" => Holding("job")' = {}
  BY DEF DrainInv
<1> USE DEF TypeOK, DrainInv, Holding, Waiting
<1>1. ASSUME NEW r \in Leases, LeaseStep(r)
      PROVE  /\ pc'[d] \in Waiting \cup {"drained"} => draining'
             /\ pc'[d] = "drained" => Holding("job")' = {}
  BY <1>1 DEF LeaseStep, TryAcquireRequest, MarkPrintJob, DropLease
<1>2. CASE BeginDrain(d) \/ ArmDrain(d) \/ SleepDrain(d) \/ WakeDrain(d)
  BY <1>2 DEF BeginDrain, ArmDrain, SleepDrain, WakeDrain, Move
<1>3. CASE LookDrain(d)
  <2>1. activeJobs = 0 => Holding("job") = {}
    BY ZeroMeansNone
  <2>2. QED BY <1>3, <2>1 DEF LookDrain, Move
<1>4. CASE DrainTimeout(d) \/ Deadline(d)
  BY <1>4 DEF DrainTimeout, Deadline, Move
<1>5. CASE UNCHANGED <<lease, draining, pc>>
  BY <1>5
<1>6. QED
  BY <1>1, <1>2, <1>3, <1>4, <1>5
  DEF Next, CoolDown, QuietWindow, DrainStep, TryBeginRestart, DropPermit

LEMMA InitDrains == Init => DrainInv
BY DEF Init, DrainInv, Waiting

(* When drain calls do not overlap, a successful drain keeps new Print     *)
(* jobs out until the next call; with two it does not, which TLC shows.    *)
THEOREM SingleDrainHolds ==
  ASSUME \A d, e \in Drainers : d = e
  PROVE  Spec => []DrainHolds
<1>1. DrainInv => DrainHolds
  BY DEF DrainInv, DrainHolds
<1>2. QED
  BY InitTyped, StepTyped, InitCounts, StepCounts, InitDrains, StepDrains,
     <1>1, PTL DEF Spec
=============================================================================
