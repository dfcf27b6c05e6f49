----------------------------- MODULE HostProofs -----------------------------
(* Theorems about what the program does to the machine it runs on (Purge,  *)
(* Launch, PortReclaim, QueueSetup, Firewall, CommandLine), for any number *)
(* of requests, processes, queues, rules and launches.  Each is about the  *)
(* behaviours of one scene of MCHost; in the others its subject stands     *)
(* still and nothing is claimed.  The last part is about the server that   *)
(* is found on the network (Discovery), which is no scene.                 *)
EXTENDS MCHost, FiniteSetTheorems, SequenceTheorems, TLAPS

everything == <<hostVars, vars, firewallVars, purgeVars, launchVars, portVars,
                commandVars>>

(* The scene stays, and a step of it is one of its module.                 *)
LEMMA Scenes ==
  ASSUME [MCNext]_everything
  PROVE  /\ UNCHANGED scene
         /\ scene = "purge" => [Pg!Next]_(Pg!vars)
         /\ scene = "port" => [Po!Next]_(Po!vars)
         /\ scene = "launch" => [La!Next]_(La!vars)
         /\ scene = "queue" => [Next]_vars
         /\ scene = "firewall" => [Fw!Next]_(Fw!vars)
         /\ scene = "command" => [Cl!Next]_(Cl!vars)
<1>1. CASE MCNext
  BY <1>1 DEF MCNext, hostVars
<1>2. CASE UNCHANGED everything
  BY <1>2
  DEF everything, hostVars, vars, firewallVars, purgeVars, launchVars, portVars,
      commandVars, Pg!vars, Po!vars, Po!os, Po!attempt, La!vars, La!bounds,
      La!loginVars, La!importVars, Fw!vars, Fw!policy, Cl!vars
<1>3. QED
  BY <1>1, <1>2

-----------------------------------------------------------------------------
(* Purge.                                                                  *)

(* The step of the purge is one after it has looked at the queues, at the  *)
(* credentials and so on.                                                  *)
AfterConfig      == {"socket", "done"}
AfterState       == {"config"} \cup AfterConfig
AfterCredentials == {"state"} \cup AfterState
AfterQueues      == {"firewalld", "credentials"} \cup AfterCredentials

Named(t) == t \in warned \/ \E d \in Pg!Dirs \cap warned : t \in Pg!InDir(d)
Settled(things) == \A t \in things \cap present : Named(t)

Credentials == {"credential", "credentialDir"}
State       == {"identity", "settings", "stateDir"}
Config      == {"config", "configDir"}

(* What the purge is done with is gone or named.                           *)
PurgeInv ==
  /\ pgAt \in {"idle", "query", "queues"} \cup AfterQueues
  /\ pgAt = "idle" => report = {}
  /\ pgAt \notin {"idle", "done"} => "service" \in report
  /\ "service" \in report /\ ~pgDisturbed =>
       /\ pgAt = "queues" => Settled(OwnQueues \ left)
       /\ pgAt \in AfterQueues => Settled(OwnQueues)
       /\ pgAt \in AfterCredentials => Settled(Credentials)
       /\ pgAt \in AfterState => Settled(State)
       /\ pgAt \in AfterConfig => Settled(Config)

LEMMA InitPurge == Pg!Init => PurgeInv
BY DEF Pg!Init, PurgeInv

(* What was settled stays so while things go and more is named.            *)
LEMMA StaySettled ==
  ASSUME present' \subseteq present, warned \subseteq warned'
  PROVE  /\ Settled(OwnQueues) => Settled(OwnQueues)'
         /\ Settled(Credentials) => Settled(Credentials)'
         /\ Settled(State) => Settled(State)'
         /\ Settled(Config) => Settled(Config)'
BY DEF Settled, Named, Credentials, State, Config

LEMMA RemoveDirSettles ==
  ASSUME NEW d \in Pg!Dirs, NEW files, NEW next, files \subseteq Pg!InDir(d),
         Pg!RemoveDir(d, files, next), d \notin Pg!InDir(d)
  PROVE  /\ present' \subseteq present /\ warned \subseteq warned'
         /\ Settled({d} \cup Pg!InDir(d))'
BY DEF Pg!RemoveDir, Pg!Emptied, Settled, Named

LEMMA StepPurge == PurgeInv /\ [Pg!Next]_(Pg!vars) => PurgeInv'
<1> SUFFICES ASSUME PurgeInv, [Pg!Next]_(Pg!vars) PROVE PurgeInv'
  OBVIOUS
<1> USE DEF AfterQueues, AfterCredentials, AfterState, AfterConfig
<1>1. CASE Pg!Refuse \/ Pg!StopService
  BY <1>1 DEF PurgeInv, Pg!Refuse, Pg!StopService
<1>2. CASE Pg!DaemonWrites
  BY <1>2 DEF PurgeInv, Pg!DaemonWrites
<1>3. CASE Pg!QueryQueues
  BY <1>3 DEF PurgeInv, Pg!QueryQueues, Settled, Named
<1>4. ASSUME NEW q \in OwnQueues, Pg!RemoveQueue(q) PROVE PurgeInv'
  BY <1>4 DEF PurgeInv, Pg!RemoveQueue, Settled, Named
<1>5. CASE Pg!QueuesDone
  BY <1>5 DEF PurgeInv, Pg!QueuesDone, Settled, Named
<1>6. CASE Pg!RemoveRules
  <2>1. present' \subseteq present /\ warned \subseteq warned'
    BY <1>6 DEF Pg!RemoveRules
  <2>2. pgAt = "firewalld" /\ pgAt' = "credentials"
        /\ ("service" \in report' <=> "service" \in report) /\ UNCHANGED pgDisturbed
    BY <1>6 DEF Pg!RemoveRules
  <2>3. QED
    BY <2>1, <2>2, StaySettled DEF PurgeInv
<1>7. CASE Pg!purge_credentials
  <2>1. /\ present' \subseteq present /\ warned \subseteq warned'
        /\ Settled({"credentialDir"} \cup Pg!InDir("credentialDir"))'
    BY <1>7, RemoveDirSettles DEF Pg!purge_credentials, Pg!Dirs, Pg!InDir
  <2>2. Settled(Credentials)'
    BY <2>1 DEF Settled, Credentials, Pg!InDir
  <2>3. pgAt = "credentials" /\ pgAt' = "state"
        /\ ("service" \in report' <=> "service" \in report) /\ UNCHANGED pgDisturbed
    BY <1>7 DEF Pg!purge_credentials, Pg!RemoveDir
  <2>4. QED
    BY <2>1, <2>2, <2>3, StaySettled DEF PurgeInv
<1>8. CASE Pg!purge_state_and_identity
  <2>1. /\ present' \subseteq present /\ warned \subseteq warned'
        /\ Settled({"stateDir"} \cup Pg!InDir("stateDir"))'
    BY <1>8, RemoveDirSettles DEF Pg!purge_state_and_identity, Pg!Dirs, Pg!InDir
  <2>2. Settled(State)'
    BY <2>1 DEF Settled, State, Pg!InDir
  <2>3. pgAt = "state" /\ pgAt' = "config"
        /\ ("service" \in report' <=> "service" \in report) /\ UNCHANGED pgDisturbed
    BY <1>8 DEF Pg!purge_state_and_identity, Pg!RemoveDir
  <2>4. QED
    BY <2>1, <2>2, <2>3, StaySettled DEF PurgeInv
<1>9. CASE Pg!purge_config
  <2>1. /\ present' \subseteq present /\ warned \subseteq warned'
        /\ Settled({"configDir"} \cup Pg!InDir("configDir"))'
    BY <1>9, RemoveDirSettles DEF Pg!purge_config, Pg!Dirs, Pg!InDir
  <2>2. Settled(Config)'
    BY <2>1 DEF Settled, Config, Pg!InDir
  <2>3. pgAt = "config" /\ pgAt' = "socket"
        /\ ("service" \in report' <=> "service" \in report) /\ UNCHANGED pgDisturbed
    BY <1>9 DEF Pg!purge_config, Pg!RemoveDir
  <2>4. QED
    BY <2>1, <2>2, <2>3, StaySettled DEF PurgeInv
<1>10. CASE Pg!RemoveSocket
  <2>1. /\ present' \subseteq present /\ warned \subseteq warned'
        /\ pgAt = "socket" /\ pgAt' = "done"
        /\ UNCHANGED <<report, pgDisturbed>>
    BY <1>10 DEF Pg!RemoveSocket
  <2>2. QED
    BY <2>1, StaySettled DEF PurgeInv
<1>11. CASE Pg!DaemonEnds \/ UNCHANGED Pg!vars
  BY <1>11 DEF PurgeInv, Pg!DaemonEnds, Pg!vars, Settled, Named
<1>12. QED
  BY <1>1, <1>2, <1>3, <1>4, <1>5, <1>6, <1>7, <1>8, <1>9, <1>10, <1>11
  DEF Pg!Next

(* What the purge leaves behind it names: everything of the program's that *)
(* is still there when a confirmed purge ends is in a warning, unless a    *)
(* daemon wrote meanwhile (execute_purge).                                 *)
THEOREM LeftoversAreNamed == MCSpec => []LeftIsNamed
<1> DEFINE Inv == scene = "purge" => PurgeInv
<1>1. MCInit => Inv
  BY InitPurge DEF MCInit
<1>2. Inv /\ [MCNext]_everything => Inv'
  BY Scenes, StepPurge
<1>3. Inv => LeftIsNamed
  BY DEF LeftIsNamed, Pg!LeftIsNamed, PurgeInv, AfterQueues, AfterCredentials,
         AfterState, AfterConfig, Settled, Named, Credentials, State,
         Config, Pg!Files, Pg!Dirs
<1>4. QED
  BY <1>1, <1>2, <1>3, PTL DEF MCSpec, everything
-----------------------------------------------------------------------------
(* PortReclaim.                                                            *)

Owner == [pid : Po!Everyone, image : Po!Image \cup {"none", "unknown"}, born : Nat]

PortTypes ==
  /\ poPlatform \in {"linux", "windows"}
  /\ spawned \in Nat
  /\ process \in [Po!Everyone -> [image : Po!Image \cup {"none"}, born : Nat]]
  /\ held \subseteq Po!Everyone /\ found \subseteq Po!Everyone
  /\ again \in BOOLEAN
  /\ owners \subseteq Owner /\ todo \subseteq Owner
  /\ target \in [o : Owner, checked : Nat]

(* A number that is given again is given a later birth, so that one with   *)
(* the birth that was checked is the process that was checked.             *)
TargetInv ==
  /\ \A p \in Po!Everyone : process[p].born <= spawned
  /\ target.checked <= spawned
  /\ poPc = "signal" =>
       LET now == process[target.o.pid] IN
         now.born = target.checked /\ now.image # "none" =>
           /\ now.image = "shaprint"
           /\ poPlatform = "linux" => now.born = target.o.born

(* A socket of our own is found at every look at the table, also where the *)
(* others' are hidden, and no new one appears before the port is bound.    *)
OwnSocketInv ==
  /\ Self \in held =>
       /\ poPc \notin {"verify", "signal"}
       /\ poPc = "names" => Self \in found
       /\ poPc = "judge" => \E o \in owners : o.pid = Self
  /\ again /\ poPc # "bound" => Self \notin held

PortInv ==
  PortTypes /\ TargetInv /\ OwnSocketInv /\ Po!OnlyStaleIsEnded

USE DEF Po!vars, Po!os, Po!attempt

LEMMA InitPort == Po!Init => PortInv
<1> SUFFICES ASSUME Po!Init PROVE PortInv
  OBVIOUS
<1>1. PortTypes
  <2>1. PICK image \in [Pids -> Po!Image \cup {"none"}] :
          process = [p \in Po!Everyone |-> IF p = Self THEN [image |-> "shaprint", born |-> 0]
                                           ELSE [image |-> image[p], born |-> 0]]
    BY DEF Po!Init
  <2>2. process \in [Po!Everyone -> [image : Po!Image \cup {"none"}, born : Nat]]
    BY <2>1 DEF Po!Everyone, Po!Image
  <2>3. target \in [o : Owner, checked : Nat]
    BY DEF Po!Init, Owner, Po!Everyone, Po!Image
  <2>4. QED
    BY <2>2, <2>3 DEF Po!Init, PortTypes
<1>2. TargetInv
  BY DEF Po!Init, TargetInv, Po!Everyone
<1>3. QED
  BY <1>1, <1>2 DEF Po!Init, PortInv, OwnSocketInv, Po!OnlyStaleIsEnded

LEMMA StepPort == PortInv /\ [Po!Next]_(Po!vars) => PortInv'
<1> SUFFICES ASSUME PortInv, [Po!Next]_(Po!vars) PROVE PortInv'
  OBVIOUS
<1> USE DEF PortInv
<1>1. CASE Po!Bind
  BY <1>1 DEF Po!Bind, PortTypes, TargetInv, OwnSocketInv, Po!OnlyStaleIsEnded, Po!Everyone
<1>2. CASE Po!ReadTable
  BY <1>2 DEF Po!ReadTable, PortTypes, TargetInv, OwnSocketInv, Po!OnlyStaleIsEnded
<1>3. CASE Po!ReadNames
  <2>1. owners' \subseteq Owner
    BY <1>3 DEF Po!ReadNames, Po!NamedNow, PortTypes, Owner
  <2>2. Self \in held => \E o \in owners' : o.pid = Self
    <3>1. ASSUME Self \in held PROVE Po!NamedNow(Self) \in owners' /\ Po!NamedNow(Self).pid = Self
      BY <1>3, <3>1 DEF Po!ReadNames, Po!NamedNow, OwnSocketInv
    <3>2. QED
      BY <3>1
  <2>3. QED
    BY <1>3, <2>1, <2>2
    DEF Po!ReadNames, PortTypes, TargetInv, OwnSocketInv, Po!OnlyStaleIsEnded
<1>4. CASE Po!Judge
  BY <1>4 DEF Po!Judge, PortTypes, TargetInv, OwnSocketInv, Po!OnlyStaleIsEnded
<1>5. CASE Po!Verify
  <2>. PICK o \in todo :
        /\ target' = [o |-> o, checked |-> process[o.pid].born]
        /\ poPc' = IF Po!Same(o) THEN "signal" ELSE "failed"
    BY <1>5 DEF Po!Verify
  <2>1. o \in Owner /\ process[o.pid] \in [image : Po!Image \cup {"none"}, born : Nat]
        /\ o.pid \in Po!Everyone
    BY DEF PortTypes, Owner
  <2>2. TargetInv'
    BY <1>5, <2>1 DEF Po!Verify, Po!Same, TargetInv
  <2>3. QED
    BY <1>5, <2>1, <2>2 DEF Po!Verify, PortTypes, OwnSocketInv, Po!OnlyStaleIsEnded
<1>6. CASE Po!Signal
  <2>1. /\ target.o \in Owner /\ target.o.pid \in Po!Everyone
        /\ process[target.o.pid] \in [image : Po!Image \cup {"none"}, born : Nat]
        /\ poPc = "signal" /\ poPc' = "verify"
    BY <1>6 DEF Po!Signal, PortTypes, Owner
  <2>2. PortTypes'
    BY <1>6, <2>1 DEF Po!Signal, PortTypes
  <2>3. TargetInv'
    BY <1>6, <2>1 DEF Po!Signal, TargetInv, PortTypes
  <2>4. OwnSocketInv'
    BY <1>6, <2>1 DEF Po!Signal, OwnSocketInv
  <2>5. \A e \in ended' : ~e.replaced =>
          e.image = "shaprint" /\ (poPlatform' = "linux" => e.born = e.seen)
    <3> DEFINE now == process[target.o.pid]
               e == [image |-> now.image, born |-> now.born, seen |-> target.o.born,
                     replaced |-> now.born # target.checked]
    <3>1. now.image # "none" /\ ended' = ended \cup {e} /\ UNCHANGED poPlatform
      BY <1>6 DEF Po!Signal
    <3>2. ~e.replaced => e.image = "shaprint" /\ (poPlatform = "linux" => e.born = e.seen)
      BY <2>1, <3>1 DEF TargetInv
    <3>3. QED
      BY <3>1, <3>2 DEF Po!OnlyStaleIsEnded
  <2>6. QED
    BY <2>1, <2>2, <2>3, <2>4, <2>5, <1>6
    DEF Po!OnlyStaleIsEnded, OwnSocketInv
<1>7. CASE Po!SignalFails
  BY <1>7 DEF Po!SignalFails, PortTypes, TargetInv, OwnSocketInv, Po!OnlyStaleIsEnded
<1>8. CASE Po!AllEnded
  BY <1>8 DEF Po!AllEnded, PortTypes, TargetInv, OwnSocketInv, Po!OnlyStaleIsEnded
<1>9. CASE Po!JudgeAgain
  BY <1>9 DEF Po!JudgeAgain, PortTypes, TargetInv, OwnSocketInv, Po!OnlyStaleIsEnded
<1>10. ASSUME NEW p \in Pids, Po!Exits(p) PROVE PortInv'
  <2>1. process[p] \in [image : Po!Image \cup {"none"}, born : Nat] /\ p \in Po!Everyone
    BY DEF PortTypes, Po!Everyone
  <2>2. PortTypes'
    BY <1>10, <2>1 DEF Po!Exits, PortTypes
  <2>3. TargetInv'
    BY <1>10, <2>1 DEF Po!Exits, TargetInv, PortTypes, Owner
  <2>4. OwnSocketInv' /\ Po!OnlyStaleIsEnded'
    BY <1>10 DEF Po!Exits, OwnSocketInv, Po!OnlyStaleIsEnded
  <2>5. QED
    BY <2>2, <2>3, <2>4
<1>11. ASSUME NEW p \in Pids, Po!Releases(p) PROVE PortInv'
  BY <1>11 DEF Po!Releases, PortTypes, TargetInv, OwnSocketInv, Po!OnlyStaleIsEnded
<1>12. ASSUME NEW p \in Pids, Po!Starts(p) PROVE PortInv'
  <2>. PICK image \in Po!Image :
        process' = [process EXCEPT ![p] = [image |-> image, born |-> spawned']]
    BY <1>12 DEF Po!Starts
  <2>1. p \in Po!Everyone /\ p # Self
    BY SelfAssumption DEF Po!Everyone
  <2>2. spawned' = spawned + 1 /\ spawned' \in Nat /\ (Self \in held' => Self \in held)
        /\ UNCHANGED <<poPlatform, Po!attempt>>
    BY <1>12, <2>1 DEF Po!Starts, PortTypes
  <2>3. PortTypes'
    BY <1>12, <2>1, <2>2 DEF Po!Starts, PortTypes
  <2>4. TargetInv'
    BY <2>1, <2>2 DEF TargetInv, PortTypes, Owner
  <2>5. OwnSocketInv' /\ Po!OnlyStaleIsEnded'
    BY <2>2 DEF OwnSocketInv, Po!OnlyStaleIsEnded
  <2>6. QED
    BY <2>3, <2>4, <2>5
<1>13. CASE UNCHANGED Po!vars
  BY <1>13 DEF PortTypes, TargetInv, OwnSocketInv, Po!OnlyStaleIsEnded
<1>14. QED
  BY <1>1, <1>2, <1>3, <1>4, <1>5, <1>6, <1>7, <1>8, <1>9, <1>10, <1>11, <1>12,
     <1>13
  DEF Po!Next

(* Taking a port back ends only stale processes of this program, on Linux  *)
(* only those that were inspected, and none while the program holds the    *)
(* port itself, however the numbers are given again (reclaim, terminate).  *)
THEOREM OnlyStaleProcessesEnd == MCSpec => []OnlyStaleIsEnded
<1> DEFINE Inv == scene = "port" => PortInv
<1>1. MCInit => Inv
  BY InitPort DEF MCInit
<1>2. Inv /\ [MCNext]_everything => Inv'
  BY Scenes, StepPort
<1>3. Inv => OnlyStaleIsEnded
  BY DEF OnlyStaleIsEnded, PortInv
<1>4. QED
  BY <1>1, <1>2, <1>3, PTL DEF MCSpec, everything
-----------------------------------------------------------------------------
(* Launch.                                                                 *)

Changing == {"deleteRun", "create", "delete", "truncate", "write"}

LaunchTypes ==
  /\ task \in BOOLEAN /\ run \in BOOLEAN /\ spoiled \in BOOLEAN
  /\ laAt \in [La!Threads -> {"idle", "query", "migrate"} \cup Changing]
  /\ job \in [La!Threads -> {"migrate", "default", "status", "on", "off"}]
  /\ preference \in {"absent", "torn", "on", "off"}
  /\ laAsked \in {"nothing", "something", "on", "off"}

(* Only the call that changes the registration gets past a query, for the  *)
(* launch or for a choice; one that asks may turn a Run value into a task. *)
ThreadsInv ==
  /\ laAt["status"] \notin Changing /\ job["status"] = "status"
  /\ laAt["call"] \in Changing => job["call"] \in {"default", "on", "off"}
  /\ laAt["call"] \in {"query", "migrate"} => job["call"] \notin {"on", "off"}

(* The launch follows the file: it never turns startup off against "on",   *)
(* nor on against "off", and writes only where there was no choice.        *)
DefaultInv ==
  job["call"] = "default" =>
    /\ laAt["call"] = "delete" => La!Recorded = "off"
    /\ laAt["call"] = "create" => La!Recorded # "off"
    /\ laAt["call"] = "truncate" => preference = "absent"
    /\ laAt["call"] = "write" => preference = "torn"

(* A choice on its way.                                                    *)
ChoiceInv ==
  job["call"] \in {"on", "off"} =>
    /\ laAt["call"] \in Changing => laAsked = "something"
    /\ laAt["call"] = "delete" => job["call"] = "off"
    /\ laAt["call"] = "create" => job["call"] = "on"
    /\ laAt["call"] \in {"truncate", "write"} =>
         /\ job["call"] = "on" => task
         /\ job["call"] = "off" /\ ~spoiled => ~task

(* From a choice on there is no Run value, and no thread that would make a *)
(* task of one, unless something spoiled it; a choice that was done is in  *)
(* the file and in the registration.                                       *)
DoneInv ==
  /\ laAsked # "nothing" /\ ~spoiled =>
       ~run /\ \A t \in La!Threads : laAt[t] # "migrate"
  /\ laAsked = "on" => task /\ preference = "on"
  /\ laAsked = "off" => preference = "off" /\ (~spoiled => ~task)

LoginInv == LaunchTypes /\ ThreadsInv /\ DefaultInv /\ ChoiceInv /\ DoneInv

(* An import that has looked has seen no channel of the user's.            *)
ImportInv ==
  /\ importing \in [Imports -> {"idle", "looked", "truncate", "write"}]
  /\ mine = "yes" =>
       channel = "users" /\ \A i \in Imports : importing[i] # "looked"

USE DEF La!vars, La!bounds, La!loginVars, La!importVars

LEMMA InitLaunch == La!Init => LoginInv /\ ImportInv
BY DEF La!Init, LoginInv, LaunchTypes, ThreadsInv, DefaultInv, ChoiceInv, DoneInv,
       ImportInv, La!Threads, Changing

LEMMA StepImport == ImportInv /\ [La!Next]_(La!vars) => ImportInv'
<1> SUFFICES ASSUME ImportInv, [La!Next]_(La!vars) PROVE ImportInv'
  OBVIOUS
<1> USE DEF ImportInv
<1>1. ASSUME NEW i \in Imports, La!Look(i) PROVE ImportInv'
  BY <1>1 DEF La!Look, La!outcome, La!is_configured
<1>2. ASSUME NEW i \in Imports, La!Store(i) PROVE ImportInv'
  BY <1>2 DEF La!Store
<1>3. ASSUME NEW i \in Imports, La!TruncateMarker(i) \/ La!WriteMarker(i) PROVE ImportInv'
  BY <1>3 DEF La!TruncateMarker, La!WriteMarker
<1>4. CASE La!SetChannel
  BY <1>4 DEF La!SetChannel
<1>5. CASE La!End
  BY <1>5 DEF La!End
<1>6. CASE UNCHANGED La!importVars
  BY <1>6
<1>7. CASE La!Open \/ La!Status \/ La!WritesRun \/ (\E e \in {"on", "off"} : La!Choose(e))
  BY <1>6, <1>7 DEF La!Open, La!Status, La!WritesRun, La!Choose
<1>8. ASSUME NEW t \in La!Threads, La!Step(t) PROVE ImportInv'
  BY <1>6, <1>8 DEF La!Step, La!Query, La!Migrate, La!DeleteRun, La!Create, La!Delete,
                    La!Truncate, La!Write, La!Keep
<1>9. QED
  BY <1>1, <1>2, <1>3, <1>4, <1>5, <1>6, <1>7, <1>8 DEF La!Next

(* Where a call goes from what it was told of the registration.            *)
QueryMoves(t) ==
  /\ laAt[t] \in {"query", "migrate"}
  /\ laAt' = [laAt EXCEPT ![t] = laAt'[t]] /\ job' = [job EXCEPT ![t] = job'[t]]
  /\ laAt'[t] \in {"idle", "query", "migrate", "deleteRun", "truncate"}
  /\ job'[t] = job[t] \/ (job[t] = "migrate" /\ job'[t] = "default" /\ laAt'[t] = "query")
  /\ laAt'[t] \in {"deleteRun", "truncate"} => job[t] = "default"
  /\ laAt'[t] = "truncate" => preference = "absent"

LEMMA AfterQueryMoves ==
  ASSUME LaunchTypes, NEW t \in La!Threads, NEW registered \in BOOLEAN,
         laAt[t] \in {"query", "migrate"},
         laAt' = [laAt EXCEPT ![t] = La!AfterQuery(t, registered)], La!Answered(t)
  PROVE  QueryMoves(t) /\ laAt'[t] # "migrate"
<1>1. /\ La!AfterQuery(t, registered) \in {"idle", "query", "deleteRun", "truncate"}
      /\ La!AfterQuery(t, registered) \in {"deleteRun", "truncate"} => job[t] = "default"
      /\ La!AfterQuery(t, registered) = "truncate" => preference = "absent"
      /\ job[t] = "migrate" => La!AfterQuery(t, registered) = "query"
  BY DEF La!AfterQuery, La!Recorded, LaunchTypes
<1>2. QED
  BY <1>1 DEF QueryMoves, La!Answered, LaunchTypes

LEMMA FailedMoves ==
  ASSUME LaunchTypes, NEW t \in La!Threads, laAt[t] \in {"query", "migrate"}, La!Failed(t)
  PROVE  QueryMoves(t) /\ laAt'[t] # "migrate"
BY DEF QueryMoves, La!Failed, La!Answered, La!Goto, LaunchTypes

LEMMA StepLogin == LoginInv /\ [La!Next]_(La!vars) => LoginInv'
<1> SUFFICES ASSUME LoginInv, [La!Next]_(La!vars) PROVE LoginInv'
  OBVIOUS
<1> USE DEF LoginInv, LaunchTypes, ThreadsInv, DefaultInv, ChoiceInv, DoneInv,
            La!Threads, Changing, La!Goto
<1>1. ASSUME NEW t \in La!Threads, La!Query(t) PROVE LoginInv'
  <2>1. QueryMoves(t) /\ UNCHANGED <<task, preference, laAsked>>
    <3>1. CASE La!Goto(t, La!AfterQuery(t, task)) /\ La!Answered(t)
      BY <1>1, <3>1, AfterQueryMoves DEF La!Query
    <3>2. CASE La!Goto(t, "migrate") /\ UNCHANGED job
      BY <1>1, <3>2 DEF La!Query, QueryMoves
    <3>3. CASE La!Failed(t)
      BY <1>1, <3>3, FailedMoves DEF La!Query
    <3>4. QED
      BY <1>1, <3>1, <3>2, <3>3 DEF La!Query
  <2>2. /\ run' \in BOOLEAN /\ spoiled' \in BOOLEAN /\ (spoiled => spoiled')
        /\ run' => run
        /\ laAt'[t] = "migrate" => run
    <3>1. /\ run' \in BOOLEAN /\ (run' => run)
          /\ spoiled' \in BOOLEAN /\ (spoiled => spoiled')
      <4>1. CASE UNCHANGED <<run, spoiled>>
        BY <4>1
      <4>2. CASE run' \in BOOLEAN /\ (run' => run) /\ spoiled' = (spoiled \/ run')
        BY <4>2
      <4>3. \/ UNCHANGED <<run, spoiled>>
            \/ run' \in {FALSE, run} /\ spoiled' = (spoiled \/ run')
            \/ run /\ run' \in BOOLEAN /\ spoiled' = (spoiled \/ run')
        BY <1>1, Zenon DEF La!Query, La!read_run_value
      <4>4. QED
        BY <4>1, <4>2, <4>3
    <3>2. laAt'[t] = "migrate" => run
      BY <1>1, AfterQueryMoves, FailedMoves DEF La!Query, La!read_run_value
    <3>3. QED
      BY <3>1, <3>2
  <2>3. LaunchTypes' /\ ThreadsInv'
    BY <2>1, <2>2 DEF QueryMoves
  <2>4. DefaultInv' /\ ChoiceInv'
    BY <2>1, <2>2 DEF QueryMoves, La!Recorded
  <2>5. DoneInv'
    BY <2>1, <2>2 DEF QueryMoves
  <2>6. QED
    BY <2>3, <2>4, <2>5
<1>2. ASSUME NEW t \in La!Threads, La!Migrate(t) PROVE LoginInv'
  <2>1. /\ QueryMoves(t) /\ laAt'[t] # "migrate"
        /\ UNCHANGED <<run, spoiled, preference, laAsked>>
    BY <1>2, AfterQueryMoves, FailedMoves DEF La!Migrate
  <2>2. laAt[t] = "migrate" /\ task' \in BOOLEAN /\ (task => task')
    <3>1. task' = TRUE \/ UNCHANGED task
      BY <1>2 DEF La!Migrate
    <3>2. laAt[t] = "migrate"
      BY <1>2 DEF La!Migrate
    <3>3. QED
      BY <3>1, <3>2
  <2>3. LaunchTypes' /\ ThreadsInv'
    BY <2>1, <2>2 DEF QueryMoves
  <2>4. DefaultInv' /\ ChoiceInv'
    BY <2>1, <2>2 DEF QueryMoves, La!Recorded
  <2>5. DoneInv'
    BY <2>1, <2>2 DEF QueryMoves
  <2>6. QED
    BY <2>3, <2>4, <2>5
<1>3. ASSUME NEW t \in La!Threads, La!DeleteRun(t) PROVE LoginInv'
  <2>1. t = "call" /\ laAt["call"] = "deleteRun" /\ UNCHANGED <<job, task, preference, laAsked>>
    BY <1>3 DEF La!DeleteRun
  <2>2. /\ run' \in BOOLEAN /\ (run' => run)
        /\ spoiled' \in BOOLEAN /\ (spoiled => spoiled')
    <3>1. run' \in {FALSE, run} /\ spoiled' = (spoiled \/ run')
      BY <1>3 DEF La!DeleteRun
    <3>2. run \in BOOLEAN /\ spoiled \in BOOLEAN
      OBVIOUS
    <3>3. CASE run' = FALSE
      <4>1. spoiled' = spoiled
        BY <3>1, <3>2, <3>3
      <4>2. QED
        BY <3>2, <3>3, <4>1
    <3>4. CASE run' = run
      BY <3>1, <3>2, <3>4
    <3>5. QED
      BY <3>1, <3>3, <3>4
  <2>3. /\ laAt' = [laAt EXCEPT !["call"] = laAt'["call"]]
        /\ laAt'["call"] = IF La!Wanted("call") = "on" THEN "create" ELSE "delete"
    BY <1>3, <2>1 DEF La!DeleteRun
  <2>4. LaunchTypes' /\ ThreadsInv'
    BY <2>1, <2>2, <2>3
  <2>5. DefaultInv' /\ ChoiceInv'
    BY <2>1, <2>2, <2>3 DEF La!Wanted, La!Recorded
  <2>6. DoneInv'
    BY <2>1, <2>2, <2>3
  <2>7. QED
    BY <2>4, <2>5, <2>6
<1>4. ASSUME NEW t \in La!Threads, La!Create(t) PROVE LoginInv'
  <2>1. t = "call" /\ laAt["call"] = "create" /\ task' \in {task, TRUE}
        /\ UNCHANGED <<job, run, preference, laAsked, spoiled>>
    BY <1>4 DEF La!Create
  <2>2. /\ laAt' = [laAt EXCEPT !["call"] = laAt'["call"]]
        /\ laAt'["call"] \in {"idle", "truncate"}
        /\ laAt'["call"] = "truncate" =>
             task' /\ (job["call"] = "default" => preference = "absent")
    BY <1>4, <2>1 DEF La!Create
  <2>3. LaunchTypes' /\ ThreadsInv'
    BY <2>1, <2>2
  <2>4. DefaultInv'
    BY <2>1, <2>2
  <2>5. ChoiceInv'
    <3>1. CASE laAt'["call"] = "idle"
      BY <2>1, <2>2, <3>1
    <3>2. CASE laAt'["call"] = "truncate"
      BY <2>1, <2>2, <3>2
    <3>3. QED
      BY <2>2, <3>1, <3>2
  <2>6. DoneInv'
    <3>1. CASE task' = TRUE
      <4>1. laAsked # "off"
        BY <2>1 DEF La!Recorded
      <4>2. QED
        BY <2>1, <2>2, <3>1, <4>1
    <3>2. CASE task' = task
      BY <2>1, <2>2, <3>2
    <3>3. QED
      BY <2>1, <3>1, <3>2
  <2>7. QED
    BY <2>3, <2>4, <2>5, <2>6
<1>5. ASSUME NEW t \in La!Threads, La!Delete(t) PROVE LoginInv'
  BY <1>5 DEF La!Delete, La!Recorded
<1>6. ASSUME NEW t \in La!Threads, La!Truncate(t) PROVE LoginInv'
  BY <1>6 DEF La!Truncate, La!Recorded
<1>7. ASSUME NEW t \in La!Threads, La!Write(t) PROVE LoginInv'
  BY <1>7 DEF La!Write, La!Recorded
<1>8. CASE La!Open
  BY <1>8 DEF La!Open
<1>9. ASSUME NEW e \in {"on", "off"}, La!Choose(e) PROVE LoginInv'
  BY <1>9 DEF La!Choose, La!Ready
<1>10. CASE La!Status
  BY <1>10 DEF La!Status, La!Ready
<1>11. CASE La!WritesRun
  BY <1>11 DEF La!WritesRun, La!Recorded
<1>12. CASE La!End
  BY <1>12 DEF La!End
<1>13. CASE UNCHANGED La!loginVars
  BY <1>13 DEF La!Recorded
<1>14. QED
  BY <1>1, <1>2, <1>3, <1>4, <1>5, <1>6, <1>7, <1>8, <1>9, <1>10, <1>11, <1>12, <1>13
  DEF La!Next, La!Step, La!SetChannel, La!Look, La!Store, La!TruncateMarker, La!WriteMarker

(* What the user chose outlives every launch, crash and import: startup    *)
(* that was turned off or on stays so unless a removal failed or somebody  *)
(* else registered the program, and a Network Channel the user set is not  *)
(* replaced (apply_default, migrate_legacy_run_key, legacy apply).         *)
THEOREM ChoicesStay == MCSpec => []UsersChoicesStay
<1> DEFINE Inv == scene = "launch" => LoginInv /\ ImportInv
<1>1. MCInit => Inv
  BY InitLaunch DEF MCInit
<1>2. Inv /\ [MCNext]_everything => Inv'
  BY Scenes, StepLogin, StepImport
<1>3. Inv => UsersChoicesStay
  BY DEF UsersChoicesStay, La!UsersChoicesStay, LoginInv, DoneInv, ImportInv
<1>4. QED
  BY <1>1, <1>2, <1>3, PTL DEF MCSpec, everything
-----------------------------------------------------------------------------
(* QueueSetup.                                                             *)

(* A request that is not yet authorised has no privileged part, and one    *)
(* that counts as alone is the only one that has.                          *)
AloneInv ==
  /\ alone \subseteq Requests
  /\ \A r \in Requests : at[r] \in {"inspect", "authorise"} => helper[r] = "none"
  /\ \A r \in began : helper[r] \notin {"none", "look"}
  /\ \A r \in alone :
       helper[r] # "none" /\ \A s \in Requests \ {r} : helper[s] = "none"

(* On Linux the privileged part that found a client queue, and is alone,   *)
(* has it still.                                                           *)
LinuxInv ==
  platform = "linux" =>
    /\ \A r \in began : saw[r] # "absent"
    /\ \A r \in alone : helper[r] = "options" => queue = "ours"
    /\ \A r \in began \cap alone : queue # "absent"

(* On Windows what stands at the name while the script works alone is what *)
(* it left there.                                                          *)
WindowsInv ==
  platform = "windows" =>
    \A r \in alone :
      /\ helper[r] = "add" \/ (saw[r] = "copy" /\ helper[r] \in {"count", "remove"})
           => queue = "absent"
      /\ helper[r] = "sync" => queue \in {"absent", "ours", "wsd"}

(* Once a request is told that it is done no privileged part runs, and the *)
(* queue is there.                                                         *)
ToldInv ==
  told # "no" =>
    /\ \A r \in Requests : helper[r] = "none"
    /\ DoneIsTrue

QueueInv == TypeOK /\ AloneInv /\ LinuxInv /\ WindowsInv /\ ToldInv

USE DEF spooler, caller, part, ghosts, vars

LEMMA InitQueue == Init => QueueInv
<1> SUFFICES ASSUME Init PROVE QueueInv
  OBVIOUS
<1>1. TypeOK
  BY DEF Init, TypeOK, Places, ClientQueues
<1>2. AloneInv /\ LinuxInv /\ WindowsInv
  BY DEF Init, AloneInv, LinuxInv, WindowsInv
<1>3. ToldInv /\ DoneIsTrue
  BY DEF Init, ToldInv, DoneIsTrue
<1>4. QED
  BY <1>1, <1>2, <1>3 DEF QueueInv

(* Whatever ends a privileged part, its request and what is known of it    *)
(* are put back to where they began.                                       *)
LEMMA FinishTyped ==
  ASSUME TypeOK, NEW r \in Requests, NEW ok \in BOOLEAN, Finish(r, ok)
  PROVE  /\ at' = [at EXCEPT ![r] = "idle"] /\ helper' = [helper EXCEPT ![r] = "none"]
         /\ saw' \in [Requests -> Places \cup {"copy"}]
         /\ before' \in [Requests -> SUBSET {"copy", "unnamed", "own"}]
         /\ at' \in [Requests -> {"idle", "inspect", "authorise", "waiting"}]
         /\ helper' \in [Requests -> {"none", "look", "count", "configure", "undo",
                              "options", "remove", "add", "sync"}]
         /\ dialog' \in Requests \cup {Nobody} /\ told' \in {"no", "install", "repair"}
         /\ alone' = alone \ {r} /\ began' = began \ {r}
         /\ UNCHANGED <<platform, op>>
BY DEF Finish, TypeOK, Goto, Helper, Release, Places

(* What a request that was alone and is told that it is done leaves.       *)
Left(r, q) ==
  \/ q \in {"ours", "wsd"}
  \/ platform = "linux" /\ op[r] = "install" /\ q = "old"
  \/ platform = "windows" /\ q = "own"

(* The spooler after a privileged part has ended must have the queue, if   *)
(* the request was alone and is told that it is done.                      *)
LEMMA FinishKeeps ==
  ASSUME QueueInv, NEW r \in Requests, NEW ok \in BOOLEAN, Finish(r, ok),
         queue' \in Places, pending' \in BOOLEAN, others' \subseteq {"copy", "unnamed", "own"},
         helper[r] # "none" \/ UNCHANGED queue,
         ok /\ r \in alone => Left(r, queue')
  PROVE  QueueInv'
<1>1. TypeOK'
  BY FinishTyped DEF QueueInv, TypeOK
<1>2. AloneInv'
  BY FinishTyped DEF QueueInv, AloneInv, TypeOK
<1>3. \A s \in Requests : s # r => saw'[s] = saw[s] /\ helper'[s] = helper[s]
  BY DEF Finish, Helper, QueueInv, TypeOK
<1>4. LinuxInv'
  BY <1>3, FinishTyped DEF QueueInv, LinuxInv, AloneInv, TypeOK
<1>5. WindowsInv'
  BY <1>3, FinishTyped DEF QueueInv, WindowsInv, AloneInv, TypeOK
<1>6. ToldInv'
  <2>1. told' # "no" => ok /\ r \in alone /\ told' = op[r] /\ platform' = platform
    BY DEF Finish
  <2>2. \A s \in alone : \A t \in Requests \ {s} : helper[t] = "none"
    BY DEF QueueInv, AloneInv
  <2>3. helper' = [helper EXCEPT ![r] = "none"] /\ DOMAIN helper = Requests
    BY FinishTyped DEF QueueInv, TypeOK
  <2>4. QED
    BY <2>1, <2>2, <2>3 DEF ToldInv, DoneIsTrue, Left
<1>7. QED
  BY <1>1, <1>2, <1>4, <1>5, <1>6 DEF QueueInv

(* A step that ends no privileged part and changes nothing but where       *)
(* requests are.                                                           *)
LEMMA StepCaller ==
  ASSUME QueueInv, NEW r \in Requests,
         Ask(r) \/ Inspect(r) \/ Authorise(r) \/ Declined(r) \/ GiveUp(r)
  PROVE  QueueInv'
<1>1. CASE Ask(r)
  BY <1>1 DEF Ask, Goto, QueueInv, TypeOK, AloneInv, LinuxInv, WindowsInv, ToldInv, DoneIsTrue
<1>2. CASE Inspect(r)
  BY <1>2 DEF Inspect, Goto, QueueInv, TypeOK, AloneInv, LinuxInv, WindowsInv, ToldInv, DoneIsTrue
<1>3. CASE Authorise(r)
  <2>1. TypeOK'
    BY <1>3 DEF Authorise, Goto, Helper, QueueInv, TypeOK
  <2>2. /\ helper[r] = "none" /\ told' = "no"
        /\ helper' = [helper EXCEPT ![r] = "look"]
        /\ alone' \subseteq {r} /\ r \notin began'
        /\ r \in alone' => \A s \in Requests : helper[s] = "none"
    BY <1>3 DEF Authorise, Helper, QueueInv, TypeOK, AloneInv
  <2>3. AloneInv'
    BY <1>3, <2>2 DEF Authorise, Goto, QueueInv, TypeOK, AloneInv
  <2>4. LinuxInv' /\ WindowsInv' /\ ToldInv'
    BY <1>3, <2>2
    DEF Authorise, QueueInv, TypeOK, LinuxInv, WindowsInv, ToldInv
  <2>5. QED
    BY <2>1, <2>3, <2>4 DEF QueueInv
<1>4. CASE Declined(r)
  BY <1>4 DEF Declined, Goto, QueueInv, TypeOK, AloneInv, LinuxInv, WindowsInv, ToldInv, DoneIsTrue
<1>5. CASE GiveUp(r)
  BY <1>5 DEF GiveUp, Goto, Release, QueueInv, TypeOK, AloneInv, LinuxInv, WindowsInv, ToldInv, DoneIsTrue
<1>6. QED
  BY <1>1, <1>2, <1>3, <1>4, <1>5

LEMMA StepCups ==
  ASSUME QueueInv, NEW r \in Requests,
         LookCups(r) \/ CountCups(r) \/ ConfigureCups(r) \/ UndoCups(r) \/ OptionsCups(r)
  PROVE  QueueInv'
<1> USE DEF Places, ClientQueues
<1>1. ASSUME NEW ok \in BOOLEAN, Finish(r, ok), UNCHANGED spooler, helper[r] # "none",
             ok /\ r \in alone => Left(r, queue)
      PROVE  QueueInv'
  BY <1>1, FinishKeeps DEF QueueInv, TypeOK, WindowsInv
<1>2. CASE LookCups(r)
  <2>1. CASE queue = "foreign" \/ (queue \in {"ours", "old"} /\ op[r] = "install")
    BY <1>1, <1>2, <2>1 DEF LookCups, Left
  <2>2. CASE ~(queue = "foreign" \/ (queue \in {"ours", "old"} /\ op[r] = "install"))
    <3>1. /\ platform = "linux" /\ helper[r] = "look" /\ UNCHANGED spooler
          /\ helper' = [helper EXCEPT ![r] = IF queue = "absent" THEN "configure" ELSE "count"]
          /\ saw' = [saw EXCEPT ![r] = queue]
          /\ began' = IF queue = "absent" THEN began ELSE began \cup {r}
          /\ UNCHANGED <<platform, op, at, dialog, before, alone, told>>
      BY <1>2, <2>2 DEF LookCups, Helper, Stay
    <3>2. TypeOK'
      BY <3>1 DEF QueueInv, TypeOK
    <3>3. AloneInv' /\ ToldInv'
      BY <3>1 DEF QueueInv, TypeOK, AloneInv, ToldInv
    <3>4. LinuxInv'
      BY <3>1 DEF QueueInv, TypeOK, AloneInv, LinuxInv
    <3>5. WindowsInv'
      BY <3>1 DEF QueueInv, TypeOK, AloneInv, WindowsInv
    <3>6. QED
      BY <3>2, <3>3, <3>4, <3>5 DEF QueueInv
  <2>3. QED
    BY <2>1, <2>2
<1>3. CASE CountCups(r)
  <2>1. CASE pending
    BY <1>1, <1>3, <2>1 DEF CountCups
  <2>2. CASE ~pending
    BY <1>3, <2>2
    DEF CountCups, Helper, Stay, QueueInv, TypeOK, AloneInv, LinuxInv, WindowsInv, ToldInv
  <2>3. QED
    BY <2>1, <2>2
<1>4. CASE ConfigureCups(r)
  BY <1>4
  DEF ConfigureCups, Helper, Stay, QueueInv, TypeOK, AloneInv, LinuxInv, WindowsInv, ToldInv
<1>5. CASE UndoCups(r)
  BY <1>5, FinishKeeps DEF UndoCups, QueueInv, TypeOK, WindowsInv
<1>6. CASE OptionsCups(r)
  BY <1>1, <1>6 DEF OptionsCups, QueueInv, LinuxInv, Left
<1>7. QED
  BY <1>2, <1>3, <1>4, <1>5, <1>6

LEMMA StepWindows ==
  ASSUME QueueInv, NEW r \in Requests,
         \/ LookWindows(r) \/ CountWindows(r) \/ RemoveWindows(r) \/ AddWindows(r)
         \/ SyncWindows(r) \/ Terminate(r)
  PROVE  QueueInv'
<1> USE DEF Places, ClientQueues
<1>1. ASSUME NEW ok \in BOOLEAN, Finish(r, ok), UNCHANGED spooler,
             ok /\ r \in alone => Left(r, queue)
      PROVE  QueueInv'
  BY <1>1, FinishKeeps DEF QueueInv, TypeOK, WindowsInv
<1>2. CASE Terminate(r)
  BY <1>1, <1>2 DEF Terminate
<1>3. CASE LookWindows(r)
  <2> DEFINE there == IF queue = "absent" /\ op[r] = "repair" /\ "copy" \in others
                        THEN "copy" ELSE queue
             next == CASE there = "absent" /\ op[r] = "install" -> "add"
                       [] there = "old" /\ op[r] = "install" -> "remove"
                       [] there \in {"ours", "wsd", "own", "copy"}
                            /\ op[r] = "repair" -> "count"
                       [] OTHER -> "end"
  <2>1. CASE next = "end"
    <3>1. Finish(r, op[r] = "install" /\ there \in {"ours", "wsd", "own"})
          /\ UNCHANGED spooler
      BY <1>3, <2>1 DEF LookWindows
    <3>2. (op[r] = "install" /\ there \in {"ours", "wsd", "own"}) => Left(r, queue)
      BY <1>3 DEF LookWindows, Left
    <3>3. QED
      BY <1>1, <3>1, <3>2
  <2>2. CASE next # "end"
    <3>1. /\ Helper(r, next) /\ Stay(r) /\ UNCHANGED spooler
          /\ saw' = [saw EXCEPT ![r] = there]
          /\ before' = [before EXCEPT ![r] = others \ {there}]
          /\ began' = IF there = "absent" THEN began ELSE began \cup {r}
          /\ platform = "windows" /\ helper[r] = "look"
      BY <1>3, <2>2 DEF LookWindows
    <3>2. TypeOK'
      BY <2>2, <3>1 DEF Helper, Stay, QueueInv, TypeOK
    <3>3. AloneInv' /\ ToldInv' /\ LinuxInv'
      BY <2>2, <3>1 DEF Helper, Stay, QueueInv, TypeOK, AloneInv, LinuxInv, ToldInv
    <3>4. WindowsInv'
      BY <2>2, <3>1 DEF Helper, Stay, QueueInv, TypeOK, AloneInv, WindowsInv
    <3>5. QED
      BY <3>2, <3>3, <3>4 DEF QueueInv
  <2>3. QED
    BY <2>1, <2>2
<1>4. CASE CountWindows(r)
  <2>1. CASE pending
    BY <1>1, <1>4, <2>1 DEF CountWindows
  <2>2. CASE ~pending
    BY <1>4, <2>2
    DEF CountWindows, Helper, Stay, QueueInv, TypeOK, AloneInv, LinuxInv, WindowsInv, ToldInv
  <2>3. QED
    BY <2>1, <2>2
<1>5. CASE RemoveWindows(r)
  <2>1. CASE Finish(r, FALSE) /\ UNCHANGED spooler
    BY <1>1, <2>1
  <2>2. CASE ~(Finish(r, FALSE) /\ UNCHANGED spooler)
    <3>1. /\ platform = "windows" /\ helper[r] = "remove"
          /\ helper' = [helper EXCEPT ![r] = "add"]
          /\ \/ /\ saw[r] = "copy" /\ others' = others \ {"copy"}
                /\ UNCHANGED <<queue, pending>>
             \/ queue' = "absent" /\ pending' = FALSE /\ UNCHANGED others
          /\ UNCHANGED <<platform, op, at, dialog, saw, before, began, alone, told>>
      BY <1>5, <2>2 DEF RemoveWindows, Helper, Stay
    <3>2. TypeOK'
      BY <3>1 DEF QueueInv, TypeOK
    <3>3. AloneInv' /\ ToldInv'
      BY <3>1 DEF QueueInv, TypeOK, AloneInv, ToldInv
    <3>4. LinuxInv'
      BY <3>1 DEF QueueInv, TypeOK, AloneInv, LinuxInv
    <3>5. WindowsInv'
      BY <3>1 DEF QueueInv, TypeOK, AloneInv, WindowsInv
    <3>6. QED
      BY <3>2, <3>3, <3>4, <3>5 DEF QueueInv
  <2>3. QED
    BY <2>1, <2>2
<1>6. CASE AddWindows(r)
  <2>1. CASE Finish(r, FALSE) /\ UNCHANGED spooler
    BY <1>1, <2>1
  <2>2. CASE ~(Finish(r, FALSE) /\ UNCHANGED spooler)
    <3>1. /\ platform = "windows" /\ helper[r] = "add"
          /\ helper' = [helper EXCEPT ![r] = "sync"]
          /\ UNCHANGED queue \/ (queue = "absent" /\ queue' \in {"ours", "wsd"})
          /\ UNCHANGED others \/ others' = others \cup {"unnamed"}
          /\ UNCHANGED <<platform, pending, op, at, dialog, saw, before, began, alone, told>>
      BY <1>6, <2>2 DEF AddWindows, Helper, Stay
    <3>2. TypeOK'
      BY <3>1 DEF QueueInv, TypeOK
    <3>3. AloneInv' /\ ToldInv'
      BY <3>1 DEF QueueInv, TypeOK, AloneInv, ToldInv
    <3>4. LinuxInv'
      BY <3>1 DEF QueueInv, TypeOK, AloneInv, LinuxInv
    <3>5. WindowsInv'
      BY <3>1 DEF QueueInv, TypeOK, AloneInv, WindowsInv
    <3>6. QED
      BY <3>2, <3>3, <3>4, <3>5 DEF QueueInv
  <2>3. QED
    BY <2>1, <2>2
<1>7. CASE SyncWindows(r)
  <2> DEFINE new == others \ before[r]
             candidates == IF new # {} THEN new ELSE others
  <2>1. CASE queue # "absent" \/ candidates = {}
    <3>1. Finish(r, queue # "absent") /\ UNCHANGED spooler /\ helper[r] = "sync"
          /\ platform = "windows"
      BY <1>7, <2>1 DEF SyncWindows
    <3>2. r \in alone /\ queue # "absent" => Left(r, queue)
      BY <3>1 DEF QueueInv, WindowsInv, Left
    <3>3. QED
      BY <1>1, <3>1, <3>2
  <2>2. CASE ~(queue # "absent" \/ candidates = {})
    <3>. PICK p \in candidates : /\ queue' = IF p = "own" THEN "own" ELSE "wsd"
                                 /\ others' = others \ {p} /\ Finish(r, TRUE)
                                 /\ UNCHANGED pending /\ helper[r] = "sync"
                                 /\ platform = "windows"
      BY <1>7, <2>2 DEF SyncWindows
    <3>1. Left(r, queue')
      BY DEF Left
    <3>2. QED
      BY <3>1, FinishKeeps DEF QueueInv, TypeOK
  <2>3. QED
    BY <2>1, <2>2
<1>8. QED
  BY <1>2, <1>3, <1>4, <1>5, <1>6, <1>7

LEMMA StepQueue == QueueInv /\ [Next]_vars => QueueInv'
<1> SUFFICES ASSUME QueueInv, [Next]_vars PROVE QueueInv'
  OBVIOUS
<1>1. CASE UserPrints \/ JobsEnd \/ UNCHANGED vars
  <2>1. pending' \in BOOLEAN
        /\ UNCHANGED <<platform, queue, others, op, at, helper, saw, before, dialog,
                       alone, began, told>>
    BY <1>1 DEF UserPrints, JobsEnd, QueueInv, TypeOK
  <2>2. QED
    BY <2>1 DEF QueueInv, TypeOK, AloneInv, LinuxInv, WindowsInv, ToldInv, DoneIsTrue
<1>2. CASE UserRemoves
  BY <1>2
  DEF UserRemoves, QueueInv, TypeOK, AloneInv, LinuxInv, WindowsInv, ToldInv, Places
<1>3. QED
  BY <1>1, <1>2, StepCaller, StepCups, StepWindows DEF Next

(* On Linux a privileged part that is alone takes no queue away that it    *)
(* found: one that was there is not deleted when lpadmin fails.            *)
LEMMA QueueIsKept ==
  ASSUME QueueInv, [Next]_vars
  PROVE  KeepsQueue
<1> SUFFICES ASSUME NEW r \in began \cap alone, platform = "linux", helper'[r] # helper[r]
             PROVE  queue' # "absent" /\ (pending => pending')
  BY DEF KeepsQueue
<1>1. /\ r \in Requests /\ queue # "absent" /\ saw[r] # "absent"
      /\ helper[r] # "none" /\ \A s \in Requests \ {r} : helper[s] = "none"
  BY DEF QueueInv, TypeOK, AloneInv, LinuxInv
<1>2. ASSUME NEW s \in Requests,
             \/ Ask(s) \/ Inspect(s) \/ Authorise(s) \/ Declined(s) \/ GiveUp(s)
             \/ Terminate(s) \/ LookWindows(s) \/ CountWindows(s) \/ RemoveWindows(s)
             \/ AddWindows(s) \/ SyncWindows(s)
      PROVE  FALSE
  <2>1. CASE Authorise(s)
    BY <1>1, <2>1 DEF Authorise, Helper, QueueInv, AloneInv, TypeOK
  <2>2. QED
    BY <1>1, <1>2, <2>1
    DEF Ask, Inspect, Declined, GiveUp, Terminate, LookWindows, CountWindows,
        RemoveWindows, AddWindows, SyncWindows
<1>3. ASSUME NEW s \in Requests,
             LookCups(s) \/ CountCups(s) \/ ConfigureCups(s) \/ UndoCups(s) \/ OptionsCups(s)
      PROVE  queue' # "absent" /\ (pending => pending')
  <2>1. s = r
    BY <1>1, <1>3 DEF LookCups, CountCups, ConfigureCups, UndoCups, OptionsCups
  <2>2. CASE UndoCups(s)
    BY <1>1, <2>1, <2>2 DEF UndoCups
  <2>3. CASE ConfigureCups(s)
    BY <1>1, <2>3 DEF ConfigureCups
  <2>4. CASE LookCups(s) \/ CountCups(s) \/ OptionsCups(s)
    <3>1. UNCHANGED spooler
      BY <2>4 DEF LookCups, CountCups, OptionsCups
    <3>2. QED
      BY <1>1, <3>1
  <2>5. QED
    BY <1>3, <2>2, <2>3, <2>4
<1>4. QED
  BY <1>2, <1>3 DEF Next, UserPrints, JobsEnd, UserRemoves

(* An installation or a repair that ran alone and is reported done leaves  *)
(* a queue that prints to this proxy and converts (install, repair), but   *)
(* for the two that DoneIsTrue names: an installation on Linux that found  *)
(* the queue at an earlier port, and a printer of the user's renamed.      *)
THEOREM DoneIsDone == MCSpec => []QueueDone
<1> DEFINE Inv == scene = "queue" => QueueInv
<1>1. MCInit => Inv
  BY InitQueue DEF MCInit
<1>2. Inv /\ [MCNext]_everything => Inv'
  BY Scenes, StepQueue
<1>3. Inv => QueueDone
  BY DEF QueueDone, QueueInv, ToldInv, DoneIsTrue
<1>4. QED
  BY <1>1, <1>2, <1>3, PTL DEF MCSpec, everything

(* On Linux a request that runs alone never destroys the client queue it   *)
(* found, nor the jobs in it (configure_destination, delete_destination).  *)
THEOREM QueuesAreKept == MCSpec => QueueStays
<1> DEFINE Inv == scene = "queue" => QueueInv
<1>1. MCInit => Inv
  BY InitQueue DEF MCInit
<1>2. Inv /\ [MCNext]_everything => Inv'
  BY Scenes, StepQueue
<1>3. Inv /\ [MCNext]_everything
        => [scene = "queue" => KeepsQueue]_<<scene, vars>>
  BY Scenes, QueueIsKept
<1>4. QED
  BY <1>1, <1>2, <1>3, PTL DEF MCSpec, everything, QueueStays
-----------------------------------------------------------------------------
(* Firewall.                                                               *)

(* A client gets in, or the policy has what the check does not look at.    *)
GetsIn(p) == Fw!Reaches(p) \/ Fw!Overlooked(p)

(* Nobody hears a privileged part but the start that waits for it; without *)
(* a firewall none is asked for.                                           *)
FirewallInv ==
  /\ backend \in {"windows", "firewalld", "ufw", "none"}
  /\ backend = "none" => start # "ask"
  /\ heard => start = "elevated"
  /\ Fw!ServingIsReachable

USE DEF Fw!vars, Fw!policy

(* What the check allows lets clients in, whatever the rules and zones.    *)
LEMMA AllowedIsReached ==
  ASSUME FirewallInv, Fw!inbound_sharing_allowed, NEW p \in Ports
  PROVE  GetsIn(p)
<1> USE DEF GetsIn, Fw!inbound_sharing_allowed, Fw!Reaches, Fw!Overlooked, Fw!Matches
<1>1. CASE backend = "windows"
  BY <1>1 DEF Fw!WindowsAllowed, Fw!AccessForPort, Fw!BlocksClients, Fw!Profiles
<1>2. CASE backend = "firewalld"
  <2>1. Fw!Zone(p, "default", "open") \in runtime
    BY <1>2 DEF Fw!FirewalldAllowed, Fw!Open
  <2>2. QED
    BY <1>2, <2>1
<1>3. CASE backend = "ufw"
  <2>1. PICK i \in DOMAIN list : p \in list[i].ports /\ list[i].action = "allow"
    BY <1>3 DEF Fw!UfwAllowed
  <2>2. CASE list[i].from # "any"
    BY <1>3, <2>1, <2>2
  <2>3. CASE \E j \in DOMAIN list : Fw!Inbound(list[j], p) /\ list[j].action # "allow"
    BY <1>3, <2>3
  <2>4. QED
    BY <1>3, <2>1, <2>2, <2>3
<1>4. CASE backend = "none"
  BY <1>4
<1>5. QED
  BY <1>1, <1>2, <1>3, <1>4 DEF FirewallInv

(* As long as the policy stays, so does who gets in.                       *)
LEMMA ReachesStays ==
  ASSUME UNCHANGED <<backend, Fw!policy>>, NEW p \in Ports, GetsIn(p)
  PROVE  GetsIn(p)'
BY DEF GetsIn, Fw!Reaches, Fw!Overlooked, Fw!Profiles, Fw!Covers

LEMMA StepFirewall == FirewallInv /\ [Fw!Next]_(Fw!vars) => FirewallInv'
<1> SUFFICES ASSUME FirewallInv, [Fw!Next]_(Fw!vars) PROVE FirewallInv'
  OBVIOUS
<1> USE DEF FirewallInv
<1>1. CASE Fw!Start \/ Fw!Stop
  BY <1>1 DEF Fw!Start, Fw!Stop, Fw!ServingIsReachable
<1>2. CASE Fw!Check \/ Fw!Recheck
  <2>1. /\ UNCHANGED <<backend, Fw!policy, heard>> /\ ~heard
        /\ start' = "serving" => Fw!inbound_sharing_allowed
        /\ start' = "ask" => ~Fw!inbound_sharing_allowed
    BY <1>2 DEF Fw!Check, Fw!Recheck
  <2>2. start' = "serving" => \A p \in Ports : GetsIn(p)'
    BY <2>1, AllowedIsReached, ReachesStays
  <2>3. backend = "none" => Fw!inbound_sharing_allowed
    BY DEF Fw!inbound_sharing_allowed
  <2>4. QED
    BY <2>1, <2>2, <2>3 DEF Fw!ServingIsReachable, GetsIn
<1>3. CASE Fw!Elevate
  BY <1>3 DEF Fw!Elevate, Fw!ServingIsReachable
<1>4. CASE Fw!Apply
  BY <1>4 DEF Fw!Apply, Fw!ServingIsReachable
<1>5. CASE Fw!Fail \/ UNCHANGED Fw!vars
  <2>1. UNCHANGED <<backend, Fw!policy, start, heard, touched>>
    BY <1>5 DEF Fw!Fail
  <2>2. QED
    BY <2>1, ReachesStays DEF Fw!ServingIsReachable, GetsIn
<1>6. CASE Fw!Finish \/ Fw!GiveUp
  BY <1>6 DEF Fw!Finish, Fw!GiveUp, Fw!ServingIsReachable
<1>7. CASE Fw!Administrator
  BY <1>7 DEF Fw!Administrator, Fw!ServingIsReachable
<1>8. QED
  BY <1>1, <1>2, <1>3, <1>4, <1>5, <1>6, <1>7 DEF Fw!Next

(* A server reported ready can be reached through the firewall from every  *)
(* network, until somebody else changes its policy, whatever the rules,    *)
(* zones and ports are, unless the policy has what Overlooked names: then  *)
(* the code reports ready and clients may be kept out                      *)
(* (ensure_inbound_sharing).                                               *)
THEOREM ReadyIsReachable == MCSpec => []ServingIsReachable
<1> DEFINE Inv == scene = "firewall" => FirewallInv
<1>1. MCInit => Inv
  BY DEF MCInit, Fw!Init, FirewallInv, Fw!ServingIsReachable
<1>2. Inv /\ [MCNext]_everything => Inv'
  BY Scenes, StepFirewall
<1>3. Inv => ServingIsReachable
  BY DEF ServingIsReachable, FirewallInv
<1>4. QED
  BY <1>1, <1>2, <1>3, PTL DEF MCSpec, everything
-----------------------------------------------------------------------------
(* CommandLine.                                                            *)

Understood(r) == Cl!parse_cli_args(Cl!arguments(clAsked[r]))

Steps  == {"idle", "status", "gate", "authorize", "pkexec", "helper", "sent", "exited",
           "told"}
Before == {"idle", "status", "gate", "authorize", "pkexec", "helper"}
Told   == {"none", "blocked", "unavailable", "unchanged", "done", "unknown", "failed"}

CommandTypes ==
  /\ clAsked \in [Requests -> Mutations] /\ sent \subseteq Requests
  /\ clPc \in [Requests -> Steps] /\ result \in [Requests -> Told]
  /\ command = [r \in Requests |-> command[r]]
  /\ carried = [r \in Requests |-> carried[r]]
  /\ exit = [r \in Requests |-> exit[r]]

(* Nothing has happened on behalf of a request, and nothing will.          *)
Untouched(r) == carried[r] = {} /\ r \notin sent

(* Until the helper hands its command to the daemon nothing has happened,  *)
(* and pkexec says 126 and 127 only when there was no helper.              *)
UnchangedInv(r) ==
  /\ clPc[r] \in Before => Untouched(r)
  /\ clPc[r] \notin {"exited", "told"} => exit[r] = Cl!NotYet
  /\ clPc[r] = "exited" => exit[r].how \in {"success", "reported", "silent"}
  /\ exit[r].how = "silent" /\ exit[r].code \in {126, 127} => Untouched(r)
  /\ clPc[r] # "told" => result[r] = "none"
  /\ result[r] = "unchanged" => Untouched(r)

(* A success is that of the command the helper understood, carried out     *)
(* once; a firewall may have been opened before.                           *)
SuccessInv(r) ==
  /\ clPc[r] \in {"helper", "sent"} => command[r] = Understood(r)
  /\ r \in sent =>
       /\ command[r] = Understood(r) /\ command[r].do # "bad"
       /\ carried[r] \subseteq {Cl!OpenedFirewall}
  /\ exit[r].how = "success" =>
       /\ command[r] = Understood(r) /\ command[r].do # "bad" /\ r \notin sent
       /\ carried[r] \subseteq {Cl!RequestOf(r), Cl!OpenedFirewall}
       /\ command[r].do \notin Cl!Reads => Cl!RequestOf(r) \in carried[r]
  /\ result[r] = "done" => exit[r].how = "success"

CommandInv ==
  CommandTypes /\ \A r \in Requests : UnchangedInv(r) /\ SuccessInv(r)

USE DEF Cl!vars

LEMMA InitCommand == Cl!Init => CommandInv
BY DEF Cl!Init, CommandInv, CommandTypes, UnchangedInv, SuccessInv, Untouched,
       Cl!NotYet, Steps, Told, Before

(* A step of one request changes nothing of the others.                    *)
Only(r) ==
  /\ UNCHANGED clAsked
  /\ sent' \subseteq sent \cup {r} /\ sent \ {r} \subseteq sent'
  /\ clPc' = [clPc EXCEPT ![r] = clPc'[r]]
  /\ command' = [command EXCEPT ![r] = command'[r]]
  /\ carried' = [carried EXCEPT ![r] = carried'[r]]
  /\ exit' = [exit EXCEPT ![r] = exit'[r]]
  /\ result' = [result EXCEPT ![r] = result'[r]]

LEMMA OnlyOne ==
  ASSUME CommandInv, NEW r \in Requests, Only(r), clPc'[r] \in Steps, result'[r] \in Told,
         UnchangedInv(r)', SuccessInv(r)'
  PROVE  CommandInv'
<1>1. CommandTypes'
  BY DEF CommandInv, CommandTypes, Only
<1>2. ASSUME NEW s \in Requests, s # r PROVE UnchangedInv(s)' /\ SuccessInv(s)'
  <2>1. /\ clAsked' = clAsked /\ (s \in sent' <=> s \in sent)
        /\ clPc'[s] = clPc[s] /\ command'[s] = command[s] /\ carried'[s] = carried[s]
        /\ exit'[s] = exit[s] /\ result'[s] = result[s]
    BY <1>2 DEF CommandInv, CommandTypes, Only
  <2>2. UnchangedInv(s) /\ SuccessInv(s)
    BY DEF CommandInv
  <2>3. UnchangedInv(s)'
    BY <2>1, <2>2 DEF UnchangedInv, Untouched
  <2>4. SuccessInv(s)'
    BY <2>1, <2>2 DEF SuccessInv, Understood, Cl!RequestOf
  <2>5. QED
    BY <2>3, <2>4
<1>3. QED
  BY <1>1, <1>2 DEF CommandInv

LEMMA StepCommand == CommandInv /\ [Cl!Next]_(Cl!vars) => CommandInv'
<1> SUFFICES ASSUME CommandInv, [Cl!Next]_(Cl!vars) PROVE CommandInv'
  OBVIOUS
<1> USE DEF Cl!Goto, Cl!Tell, Cl!Exit
<1>1. ASSUME NEW r \in Requests,
             \/ Cl!Ask(r) \/ Cl!CheckDaemon(r) \/ Cl!EnterGate(r) \/ Cl!Authorize(r)
      PROVE  CommandInv'
  <2>1. /\ clPc[r] \in {"idle", "status", "gate", "authorize"}
        /\ \/ clPc' = [clPc EXCEPT ![r] = clPc'[r]] /\ clPc'[r] \in Before \ {"helper"}
              /\ UNCHANGED result
           \/ /\ clPc' = [clPc EXCEPT ![r] = "told"]
              /\ result' = [result EXCEPT ![r] = result'[r]]
              /\ result'[r] \in {"blocked", "unavailable", "unchanged"}
        /\ UNCHANGED <<clAsked, command, sent, carried, exit>>
    BY <1>1 DEF Cl!Ask, Cl!CheckDaemon, Cl!EnterGate, Cl!Authorize, Before,
                CommandInv, CommandTypes
  <2>2. Only(r) /\ clPc'[r] \in Steps /\ result'[r] \in Told
    BY <2>1 DEF Only, CommandInv, CommandTypes, Steps, Before, Told
  <2>3. Untouched(r)' /\ exit'[r] = Cl!NotYet
    BY <2>1 DEF CommandInv, UnchangedInv, Untouched, Before
  <2>4. /\ clPc'[r] \notin {"exited", "sent", "helper"}
        /\ clPc'[r] = "told" \/ result'[r] = "none"
        /\ result'[r] # "done"
    BY <2>1, <2>2 DEF CommandInv, CommandTypes, UnchangedInv, Before
  <2>5. QED
    BY <2>1, <2>2, <2>3, <2>4, OnlyOne
    DEF UnchangedInv, SuccessInv, Untouched, Cl!NotYet
<1>2. ASSUME NEW r \in Requests, Cl!Pkexec(r) PROVE CommandInv'
  <2>1. Only(r) /\ clPc'[r] \in Steps /\ result'[r] \in Told
    BY <1>2 DEF Cl!Pkexec, Only, CommandInv, CommandTypes, Steps
  <2>2. UnchangedInv(r)'
    BY <1>2 DEF Cl!Pkexec, CommandInv, CommandTypes, UnchangedInv, Untouched, Before,
                Cl!Silent
  <2>3. SuccessInv(r)'
    BY <1>2 DEF Cl!Pkexec, CommandInv, CommandTypes, UnchangedInv, SuccessInv, Untouched,
                Understood, Before, Cl!Silent, Cl!NotYet
  <2>4. QED
    BY <2>1, <2>2, <2>3, OnlyOne
<1>3. ASSUME NEW r \in Requests, Cl!ExecuteCommand(r) PROVE CommandInv'
  <2>1. clPc[r] = "helper" /\ UNCHANGED <<clAsked, command, result>>
    BY <1>3 DEF Cl!ExecuteCommand
  <2>2. Untouched(r) /\ exit[r] = Cl!NotYet /\ command[r] = Understood(r)
        /\ result[r] = "none"
    BY <2>1 DEF CommandInv, UnchangedInv, SuccessInv, Before
  <2>3. \/ /\ clPc' = [clPc EXCEPT ![r] = "exited"]
           /\ exit' = [exit EXCEPT ![r] = Cl!Reported] /\ UNCHANGED <<sent, carried>>
        \/ /\ clPc' = [clPc EXCEPT ![r] = "sent"] /\ sent' = sent \cup {r}
           /\ command[r].do # "bad" /\ UNCHANGED exit
           /\ \/ UNCHANGED carried
              \/ carried' = [carried EXCEPT ![r] = carried[r] \cup {Cl!OpenedFirewall}]
    BY <1>3 DEF Cl!ExecuteCommand
  <2>4. Only(r) /\ clPc'[r] \in Steps /\ result'[r] \in Told
    BY <2>1, <2>3 DEF Only, CommandInv, CommandTypes, Steps
  <2>5. /\ carried'[r] \subseteq {Cl!OpenedFirewall}
        /\ \/ clPc'[r] = "exited" /\ exit'[r] = Cl!Reported /\ Untouched(r)'
           \/ clPc'[r] = "sent" /\ exit'[r] = Cl!NotYet /\ command[r].do # "bad"
    BY <2>1, <2>2, <2>3 DEF CommandInv, CommandTypes, Untouched
  <2>6. UnchangedInv(r)'
    BY <2>1, <2>2, <2>5 DEF UnchangedInv, Before, Cl!Reported, Cl!NotYet
  <2>7. SuccessInv(r)'
    BY <2>1, <2>2, <2>5 DEF SuccessInv, Untouched, Understood, Cl!Reported, Cl!NotYet
  <2>8. QED
    BY <2>4, <2>6, <2>7, OnlyOne
<1>4. ASSUME NEW r \in Requests, Cl!DaemonActs(r) PROVE CommandInv'
  <2>1. Only(r) /\ clPc'[r] \in Steps /\ result'[r] \in Told
    BY <1>4 DEF Cl!DaemonActs, Only, CommandInv, CommandTypes, Steps
  <2>2. UnchangedInv(r)'
    BY <1>4 DEF Cl!DaemonActs, CommandInv, CommandTypes, UnchangedInv, Untouched,
                Before, Cl!Printed, Cl!NotYet
  <2>3. SuccessInv(r)'
    BY <1>4 DEF Cl!DaemonActs, CommandInv, CommandTypes, UnchangedInv, SuccessInv,
                Untouched, Understood, Before, Cl!Printed, Cl!NotYet, Cl!RequestOf
  <2>4. QED
    BY <2>1, <2>2, <2>3, OnlyOne
<1>5. ASSUME NEW r \in Requests,
             Cl!DaemonRefuses(r) \/ Cl!NoAnswer(r) \/ Cl!HelperDies(r)
      PROVE  CommandInv'
  <2>1. /\ sent' \in {sent, sent \ {r}}
        /\ \/ UNCHANGED <<clPc, exit>>
           \/ /\ clPc[r] \in {"helper", "sent"} /\ clPc' = [clPc EXCEPT ![r] = "exited"]
              /\ \/ exit' = [exit EXCEPT ![r] = Cl!Reported]
                 \/ exit' = [exit EXCEPT ![r] = Cl!Silent(0)]
        /\ UNCHANGED <<clAsked, command, carried, result>>
    BY <1>5 DEF Cl!DaemonRefuses, Cl!NoAnswer, Cl!HelperDies
  <2>2. Only(r) /\ clPc'[r] \in Steps /\ result'[r] \in Told
    BY <2>1 DEF Only, CommandInv, CommandTypes, Steps
  <2>3. /\ UnchangedInv(r) /\ SuccessInv(r) /\ (r \in sent' => r \in sent)
        /\ \/ clPc'[r] = clPc[r] /\ exit'[r] = exit[r]
           \/ /\ clPc[r] \in {"helper", "sent"} /\ clPc'[r] = "exited"
              /\ exit'[r] \in {Cl!Reported, Cl!Silent(0)}
    BY <2>1 DEF CommandInv, CommandTypes
  <2>4. UnchangedInv(r)'
    BY <2>1, <2>3 DEF UnchangedInv, Untouched, Before, Cl!Reported, Cl!Silent
  <2>5. SuccessInv(r)'
    <3>1. CASE clPc'[r] = clPc[r] /\ exit'[r] = exit[r]
      BY <2>1, <2>3, <3>1 DEF SuccessInv, Understood, Cl!RequestOf
    <3>2. CASE /\ clPc[r] \in {"helper", "sent"} /\ clPc'[r] = "exited"
               /\ exit'[r] \in {Cl!Reported, Cl!Silent(0)}
      <4>1. result'[r] = "none" /\ exit'[r].how # "success"
        BY <2>1, <2>3, <3>2 DEF UnchangedInv, Cl!Reported, Cl!Silent
      <4>2. r \in sent' => /\ command'[r] = Understood(r)' /\ command'[r].do # "bad"
                           /\ carried'[r] \subseteq {Cl!OpenedFirewall}
        BY <2>1, <2>3 DEF SuccessInv, Understood
      <4>3. QED
        BY <3>2, <4>1, <4>2 DEF SuccessInv
    <3>3. QED
      BY <2>3, <3>1, <3>2
  <2>6. QED
    BY <2>2, <2>4, <2>5, OnlyOne
<1>6. ASSUME NEW r \in Requests, Cl!ReadBack(r) PROVE CommandInv'
  <2> DEFINE how == exit[r]
             answer == CASE how.how = "success"  -> IF Cl!Readable(clAsked[r], how)
                                                      THEN "done" ELSE "unknown"
                         [] how.how = "reported" -> "failed"
                         [] how.how = "silent"   -> Cl!authorization_error(how.code)
  <2>1. /\ clPc[r] = "exited" /\ clPc' = [clPc EXCEPT ![r] = "told"]
        /\ result' = [result EXCEPT ![r] = answer]
        /\ UNCHANGED <<clAsked, command, sent, carried, exit>>
    BY <1>6 DEF Cl!ReadBack
  <2>2. UnchangedInv(r) /\ SuccessInv(r) /\ how.how \in {"success", "reported", "silent"}
    BY <2>1 DEF CommandInv, UnchangedInv
  <2>3. /\ answer \in Told
        /\ answer = "done" => how.how = "success"
        /\ answer = "unchanged" => how.how = "silent" /\ how.code \in {126, 127}
    BY <2>2 DEF Cl!authorization_error, Told
  <2> HIDE DEF answer
  <2>4. Only(r) /\ clPc'[r] = "told" /\ result'[r] = answer
    BY <2>1 DEF Only, CommandInv, CommandTypes
  <2>5. UnchangedInv(r)'
    BY <2>1, <2>2, <2>3, <2>4 DEF UnchangedInv, Untouched, Before
  <2>6. SuccessInv(r)'
    BY <2>1, <2>2, <2>3, <2>4 DEF SuccessInv, Understood, Cl!RequestOf
  <2>7. QED
    BY <2>3, <2>4, <2>5, <2>6, OnlyOne DEF Steps
<1>7. CASE UNCHANGED Cl!vars
  <2>1. CommandTypes'
    BY <1>7 DEF CommandInv, CommandTypes
  <2>2. ASSUME NEW r \in Requests PROVE UnchangedInv(r)'
    BY <1>7 DEF CommandInv, UnchangedInv, Untouched
  <2>3. ASSUME NEW r \in Requests PROVE SuccessInv(r)'
    BY <1>7 DEF CommandInv, SuccessInv, Understood, Cl!RequestOf
  <2>4. QED
    BY <2>1, <2>2, <2>3 DEF CommandInv
<1>8. QED
  BY <1>1, <1>2, <1>3, <1>4, <1>5, <1>6, <1>7 DEF Cl!Next

(* What the window is told of a change through polkit and shaprintctl is   *)
(* true: "no changes were made" means that none was nor will be, and a     *)
(* success that exactly the change was made, as long as the helper reads   *)
(* the change it is given (run_mutation, ElevatedCtl::run).                *)
THEOREM AnswersHold == MCSpec => []AnswersAreTrue
<1> DEFINE Inv == scene = "command" => CommandInv
<1>1. MCInit => Inv
  BY InitCommand DEF MCInit
<1>2. Inv /\ [MCNext]_everything => Inv'
  BY Scenes, StepCommand
<1>3. Inv => AnswersAreTrue
  <2> SUFFICES ASSUME CommandInv PROVE Cl!NoChangesWereMade /\ Cl!DoneAsAsked
    BY DEF AnswersAreTrue
  <2>1. Cl!NoChangesWereMade
    BY DEF Cl!NoChangesWereMade, CommandInv, UnchangedInv, Untouched
  <2>2. ASSUME NEW r \in Requests, result[r] = "done", Cl!Plain(clAsked[r])
        PROVE  /\ Cl!Wish(clAsked[r]) \in carried[r]
               /\ carried[r] \subseteq {Cl!Wish(clAsked[r]), Cl!OpenedFirewall}
    <3>1. /\ command[r] = Understood(r) /\ command[r].do # "bad"
          /\ carried[r] \subseteq {Cl!RequestOf(r), Cl!OpenedFirewall}
          /\ command[r].do \notin Cl!Reads => Cl!RequestOf(r) \in carried[r]
      BY <2>2 DEF CommandInv, SuccessInv
    <3>2. /\ command[r].do = clAsked[r].do /\ command[r].do \notin Cl!Reads
          /\ command[r].operands = Cl!MutationOperands(clAsked[r])
      BY <2>2, <3>1, MutationsAssumption DEF CommandInv, CommandTypes, ReadsBack, Understood
    <3>3. Cl!RequestOf(r) = Cl!Wish(clAsked[r])
      BY <3>2 DEF Cl!RequestOf, Cl!Wish, Cl!MutationOperands
    <3>4. QED
      BY <3>1, <3>2, <3>3
  <2>3. QED
    BY <2>1, <2>2 DEF Cl!DoneAsAsked
<1>4. QED
  BY <1>1, <1>2, <1>3, PTL DEF MCSpec, everything
-----------------------------------------------------------------------------
(* Finding servers (Discovery), which is no scene of MCHost: the state and *)
(* the constants are its own.                                              *)

CONSTANTS Queues, TooLong, MaxPrinters, TTL, MaxInFlight

VARIABLES selection, dirty, sharing, advertised, responder, reply, remembered, query,
          answers, browsing, entry, shown

Di == INSTANCE Discovery

USE DEF Di!vars, Di!serverVars, Di!browserVars

(* The responder lives from the socket's opening until it was waited for,  *)
(* an aborted service's until it ends by itself.                           *)
ResponderInv ==
  /\ sharing \in {"off", "opening", "on", "hidden", "leaving", "gone"}
  /\ sharing \in {"off", "opening", "hidden"} => responder = "off"

LEMMA InitResponder == Di!Init => ResponderInv
BY DEF Di!Init, ResponderInv

LEMMA StepResponder == ResponderInv /\ [Di!Next]_(Di!vars) => ResponderInv'
<1> SUFFICES ASSUME ResponderInv, [Di!Next]_(Di!vars) PROVE ResponderInv'
  OBVIOUS
<1> USE DEF ResponderInv
<1>1. CASE Di!Select \/ Di!Replace \/ UNCHANGED <<sharing, responder>>
  BY <1>1 DEF Di!Select, Di!Replace
<1>2. CASE Di!StartSharing \/ Di!Advertise
  BY <1>2 DEF Di!StartSharing, Di!Advertise
<1>3. CASE Di!Withdraw \/ Di!StopResponder
  BY <1>3 DEF Di!Withdraw, Di!StopResponder
<1>4. CASE Di!Vanish \/ Di!ResponderEnds
  BY <1>4 DEF Di!Vanish, Di!ResponderEnds
<1>5. CASE Di!Hear \/ Di!Reply
  BY <1>5 DEF Di!Hear, Di!Reply
<1>6. CASE \/ Di!LoseQuery \/ Di!LoseAnswer \/ Di!Ask \/ Di!Deliver \/ Di!Sweep
           \/ Di!NearbyServers \/ Di!Tick \/ Di!StartBrowsing \/ Di!StopBrowsing
  BY <1>1, <1>6
  DEF Di!LoseQuery, Di!LoseAnswer, Di!Ask, Di!Deliver, Di!Sweep, Di!NearbyServers,
      Di!Tick, Di!StartBrowsing, Di!StopBrowsing
<1>7. QED
  BY <1>1, <1>2, <1>3, <1>4, <1>5, <1>6 DEF Di!Next

(* Nothing is announced or answered by a server that is off: the service   *)
(* does not run, and neither does its responder.                           *)
LEMMA OffIsSilent == ResponderInv /\ [Di!Next]_(Di!vars) => [Di!SilentWhenOff]_(Di!vars)
<1> SUFFICES ASSUME ResponderInv, [Di!Next]_(Di!vars), sharing = "off"
             PROVE  answers' \subseteq answers
  BY DEF Di!SilentWhenOff
<1>1. responder = "off"
  BY DEF ResponderInv
<1>2. CASE UNCHANGED answers
  BY <1>2
<1>3. CASE Di!Reply \/ Di!Replace \/ Di!Withdraw \/ Di!StopResponder \/ Di!Hear
  BY <1>1, <1>3 DEF Di!Reply, Di!Replace, Di!Withdraw, Di!StopResponder, Di!Hear
<1>4. CASE Di!LoseAnswer \/ Di!StopBrowsing \/ Di!Deliver
  BY <1>4 DEF Di!LoseAnswer, Di!StopBrowsing, Di!Deliver
<1>5. CASE \/ Di!Select \/ Di!StartSharing \/ Di!Advertise \/ Di!Vanish
           \/ Di!ResponderEnds \/ Di!LoseQuery \/ Di!StartBrowsing \/ Di!Ask
           \/ Di!Sweep \/ Di!NearbyServers \/ Di!Tick
  BY <1>2, <1>5
  DEF Di!Select, Di!StartSharing, Di!Advertise, Di!Vanish, Di!ResponderEnds,
      Di!LoseQuery, Di!StartBrowsing, Di!Ask, Di!Sweep, Di!NearbyServers, Di!Tick
<1>6. QED
  BY <1>2, <1>3, <1>4, <1>5 DEF Di!Next

(* Once sharing is off the server sends nothing any more, whatever         *)
(* questions and datagrams were on their way, and whether it withdrew, was *)
(* aborted or vanished (withdraw, the responder's end, Vanish).  It is the *)
(* first half of StoppedServerLeaves; the other is liveness.               *)
THEOREM StoppedIsSilent == Di!Spec => [][Di!SilentWhenOff]_(Di!vars)
BY InitResponder, StepResponder, OffIsSilent, PTL DEF Di!Spec
=============================================================================
