----------------------------- MODULE PortReclaim -----------------------------
(***************************************************************************)
(* Binding a fixed port that is busy (adapters/port_binding.rs): the       *)
(* socket table is read, and when every owner is another ShaPrint process  *)
(* those are ended and the port is bound once more; otherwise nobody is.   *)
(* The operating system does not stand still meanwhile: processes end, and *)
(* their numbers are given to new ones, between the reading of the table   *)
(* and of a name, and between an identity check and the signal.            *)
(***************************************************************************)
EXTENDS Naturals, FiniteSets

CONSTANTS
  Pids,      \* process numbers other than our own
  Self,      \* our own
  MaxSpawns  \* bound: processes started during the attempt

VARIABLES
  platform,  \* "linux" or "windows"
  process,   \* by number: [image, born]; image "none" when there is none
  spawned,   \* processes started so far; the last one's born
  held,      \* numbers under which the socket table lists the port
  pc,        \* "bind", "table", "names", "judge", "verify", "signal",
             \* "bound", "conflict" (at the first look), "failed"
  again,     \* an inspection after the owners were ended
  found,     \* numbers read from the socket table
  owners,    \* what the inspection found: records [pid, image, born]
  todo,      \* owners still to be ended
  terminated,\* numbers that were judged at the first look
  target,    \* the owner being ended, and the born its identity check saw
  ended      \* who got a signal: [image, born, seen (born at the first
             \* look), replaced (since the identity check)]

os == <<platform, process, spawned, held>>
attempt == <<pc, again, found, owners, todo, terminated, target, ended>>
vars == <<os, attempt>>

Image == {"shaprint", "foreign"}
Everyone == Pids \cup {Self}

Init ==
  /\ platform \in {"linux", "windows"}
  /\ \E image \in [Pids -> Image \cup {"none"}] :
       process = [p \in Everyone |-> IF p = Self THEN [image |-> "shaprint", born |-> 0]
                                     ELSE [image |-> image[p], born |-> 0]]
  /\ spawned = 0
  /\ held \in SUBSET {p \in Everyone : process[p].image # "none"}
  /\ pc = "bind" /\ again = FALSE /\ found = {} /\ owners = {} /\ todo = {}
  /\ terminated = {} /\ target = [o |-> [pid |-> Self, born |-> 0, image |-> "shaprint"], checked |-> 0]
  /\ ended = {}

-----------------------------------------------------------------------------
(* bind_tcp, bind_udp and reclaim.                                         *)

(* A process whose number is gone is listed without a name.                *)
NamedNow(p) ==
  [pid |-> p, born |-> process[p].born,
   image |-> IF process[p].image = "none" THEN "unknown" ELSE process[p].image]

Bind ==
  /\ pc = "bind"
  /\ IF held = {} THEN pc' = "bound" /\ held' = {Self}
     ELSE /\ pc' = IF again THEN "failed" ELSE "table"
          /\ UNCHANGED held
  /\ UNCHANGED <<platform, process, spawned, again, found, owners, todo, terminated, target, ended>>

(* The owner of a socket may be hidden from us on Linux.                   *)
ReadTable ==
  /\ pc = "table"
  /\ \/ /\ pc' = "names"
        /\ found' \in IF platform = "linux" THEN {held, held \cap {Self}} ELSE {held}
     \/ pc' = "failed" /\ UNCHANGED found
  /\ UNCHANGED <<os, again, owners, todo, terminated, target, ended>>

ReadNames ==
  /\ pc = "names" /\ pc' = "judge"
  /\ owners' = {NamedNow(p) : p \in found}
  /\ UNCHANGED <<os, again, found, todo, terminated, target, ended>>

(* The first look: no owner, ourselves, or one that is not ShaPrint's.     *)
Judge ==
  /\ pc = "judge" /\ ~again
  /\ IF owners = {} \/ \E o \in owners : o.pid = Self \/ o.image # "shaprint"
     THEN pc' = "conflict" /\ UNCHANGED <<todo, terminated>>
     ELSE pc' = "verify" /\ todo' = owners /\ terminated' = {o.pid : o \in owners}
  /\ UNCHANGED <<os, again, found, owners, target, ended>>

(* Variant: only the name is compared on Linux, too.                       *)
Same_NameOnly(o) == process[o.pid].image = "shaprint"

(* terminate: on Linux it must still be the process that was seen, on      *)
(* Windows one of that name.                                               *)
Same(o) ==
  /\ process[o.pid].image = "shaprint"
  /\ platform = "linux" => process[o.pid].born = o.born

Verify ==
  /\ pc = "verify" /\ todo # {}
  /\ \E o \in todo :
       /\ target' = [o |-> o, checked |-> process[o.pid].born]
       /\ pc' = IF Same(o) THEN "signal" ELSE "failed"
  /\ UNCHANGED <<os, again, found, owners, todo, terminated, ended>>

(* The signal goes to whoever has the number now, who ends or not; a       *)
(* process that is gone, or not ours to end, is a failure.                 *)
Signal ==
  /\ pc = "signal"
  /\ LET o == target.o
         now == process[o.pid]
     IN /\ now.image # "none"
        /\ ended' = ended \cup {[image |-> now.image, born |-> now.born, seen |-> o.born,
                                 replaced |-> now.born # target.checked]}
        /\ todo' = todo \ {o} /\ pc' = "verify"
        /\ \/ /\ process' = [process EXCEPT ![o.pid].image = "none"]
              /\ held' \in {held, held \ {o.pid}}
           \/ UNCHANGED <<process, held>>
  /\ UNCHANGED <<platform, spawned, again, found, owners, terminated, target>>

SignalFails ==
  /\ pc = "signal" /\ pc' = "failed"
  /\ UNCHANGED <<os, again, found, owners, todo, terminated, target, ended>>

AllEnded ==
  /\ pc = "verify" /\ todo = {} /\ pc' = "table" /\ again' = TRUE
  /\ UNCHANGED <<os, found, owners, todo, terminated, target, ended>>

(* A later look: wait while those that were ended still hold the port,     *)
(* give up on anyone else, and when the time is over.                      *)
JudgeAgain ==
  /\ pc = "judge" /\ again
  /\ IF owners = {} THEN pc' = "bind"
     ELSE IF \E o \in owners :
               \/ o.pid = Self
               \/ o.image # "shaprint" /\ ~(o.image = "unknown" /\ o.pid \in terminated)
     THEN pc' = "failed"
     ELSE pc' \in {"table", "failed"}
  /\ UNCHANGED <<os, again, found, owners, todo, terminated, target, ended>>

-----------------------------------------------------------------------------
(* The rest of the computer.  Our own process keeps what it has.           *)

Exits(p) ==
  /\ process[p].image # "none"
  /\ process' = [process EXCEPT ![p].image = "none"]
  /\ held' \in {held, held \ {p}}
  /\ UNCHANGED <<platform, spawned, attempt>>

Releases(p) ==
  /\ p \in held /\ held' = held \ {p}
  /\ UNCHANGED <<platform, process, spawned, attempt>>

(* A new process takes the number, and perhaps the port.                   *)
Starts(p) ==
  /\ process[p].image = "none" /\ spawned < MaxSpawns
  /\ spawned' = spawned + 1
  /\ \E image \in Image : process' = [process EXCEPT ![p] = [image |-> image, born |-> spawned']]
  /\ held' \in IF held \subseteq {p} THEN {held \ {p}, {p}} ELSE {held \ {p}}
  /\ UNCHANGED <<platform, attempt>>

Next ==
  \/ Bind \/ ReadTable \/ ReadNames \/ Judge \/ Verify \/ Signal \/ SignalFails \/ AllEnded
  \/ JudgeAgain
  \/ \E p \in Pids : Exits(p) \/ Releases(p) \/ Starts(p)

Spec == Init /\ [][Next]_vars

-----------------------------------------------------------------------------
(* To get a port back ShaPrint ends ShaPrint processes only, on Linux only *)
(* the very ones the inspection saw, whatever numbers are given away again *)
(* between two steps, the moment between the identity check and the signal *)
(* excepted; and nobody at all while it holds the port itself.             *)
OnlyStaleIsEnded ==
  /\ \A e \in ended : ~e.replaced =>
       e.image = "shaprint" /\ (platform = "linux" => e.born = e.seen)
  /\ ended # {} /\ pc # "bound" => Self \notin held
=============================================================================
