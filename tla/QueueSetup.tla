----------------------------- MODULE QueueSetup -----------------------------
(***************************************************************************)
(* Installing and repairing the native print queue of one shared printer   *)
(* (application/queue_installation.rs): the checks the application makes,  *)
(* the authorisation, and the privileged part, which reads the spooler,    *)
(* decides, and changes it step by step:                                   *)
(*   - Windows: an elevated helper runs a PowerShell script                *)
(*     (queue_installation/windows.rs, elevation.rs);                      *)
(*   - Linux: the daemon calls lpadmin (queue_installation/cups.rs), asked *)
(*     through polkit (elevated_ctl.rs) or from a terminal.                *)
(* The caller stops waiting after a time; the privileged part may go on.   *)
(*                                                                         *)
(* What stands at the name of the queue: "ours" prints to this proxy;      *)
(* "wsd" does, on a port Windows named; "raw" does without a usable        *)
(* conversion; "old" goes to an earlier proxy port; "foreign" is somebody  *)
(* else's; "own" is the user's printer under this name.                    *)
(***************************************************************************)
EXTENDS Naturals, FiniteSets

CONSTANTS
  Requests,   \* concurrent requests
  Terminal,   \* those of them made with shaprintctl, outside the application
  Nobody      \* no request

ASSUME TerminalAssumption == Terminal \subseteq Requests
ASSUME NobodyAssumption == Nobody \notin Requests

VARIABLES
  platform,  \* "windows" or "linux"
  queue,     \* what stands at the name of the queue
  others,    \* printers under other names: "copy" and "unnamed" of ours, and
             \* "own", a WSD printer of the user's with the shared one's name
  pending,   \* the queue has print jobs waiting
  op,        \* [Requests -> "install" or "repair"]
  at,        \* [Requests -> where the caller is]
  helper,    \* [Requests -> where the privileged part is]
  saw,       \* [Requests -> what it found at the name]
  before,    \* [Requests -> the other printers there were]
  dialog,    \* the request that holds ElevatedCtl's authorisation gate
  alone,     \* requests that no other privileged part has overlapped
  began,     \* requests whose privileged part found a client queue
  told       \* the operation, when the last change was a request that ended
             \* well and alone: "install", "repair" or "no"

spooler == <<queue, others, pending>>
caller  == <<op, at, dialog>>
part    == <<helper, saw, before>>
ghosts  == <<alone, began, told>>
vars == <<platform, queue, others, pending, op, at, helper, saw, before,
          dialog, alone, began, told>>

ClientQueues == {"ours", "wsd", "raw", "old"}
Places == ClientQueues \cup {"absent", "foreign", "own"}

Init ==
  /\ platform \in {"windows", "linux"}
  /\ queue \in {"absent", "foreign", "ours", "old"}
                 \cup (IF platform = "linux" THEN {"raw"} ELSE {"wsd"})
  /\ others \in SUBSET (IF platform = "windows" THEN {"copy", "own"} ELSE {})
  /\ pending \in BOOLEAN /\ (queue = "absent" => ~pending)
  /\ op = [r \in Requests |-> "install"]
  /\ at = [r \in Requests |-> "idle"]
  /\ helper = [r \in Requests |-> "none"]
  /\ saw = [r \in Requests |-> "absent"]
  /\ before = [r \in Requests |-> {}]
  /\ dialog = Nobody
  /\ alone = {} /\ began = {} /\ told = "no"

Goto(r, to) == at' = [at EXCEPT ![r] = to]
Helper(r, to) == helper' = [helper EXCEPT ![r] = to]

-----------------------------------------------------------------------------
(* The caller.                                                             *)

(* request_for: the proxy runs, the channel is set and the trusted server  *)
(* shares the printer, or the request is refused.  Bound: a request whose  *)
(* abandoned helper still runs is not made again.                          *)
Ask(r) ==
  /\ at[r] = "idle" /\ helper[r] = "none"
  /\ \E o \in {"install", "repair"} :
       /\ op' = [op EXCEPT ![r] = o]
       /\ Goto(r, IF o = "repair" THEN "inspect" ELSE "authorise")
  /\ UNCHANGED <<platform, spooler, part, dialog, ghosts>>

(* recheck_repair_prerequisites: the queue exists, matches and has no      *)
(* print job waiting.                                                      *)
Inspect(r) ==
  /\ at[r] = "inspect"
  /\ Goto(r, IF queue \in ClientQueues /\ ~pending THEN "authorise" ELSE "idle")
  /\ UNCHANGED <<platform, spooler, op, part, dialog, ghosts>>

(* The UAC prompt, or polkit's dialog behind ElevatedCtl's gate.  Declined *)
(* means that the helper never runs.                                       *)
Authorise(r) ==
  /\ at[r] = "authorise"
  /\ IF platform = "linux" /\ r \notin Terminal
       THEN dialog = Nobody /\ dialog' = r
       ELSE UNCHANGED dialog
  /\ Goto(r, "waiting")
  /\ Helper(r, "look")
  /\ LET running == {s \in Requests : helper[s] # "none"} IN
       alone' = (alone \ running) \cup (IF running = {} THEN {r} ELSE {})
  /\ told' = "no"
  /\ UNCHANGED <<platform, spooler, op, saw, before, began>>

Declined(r) ==
  /\ at[r] = "authorise"
  /\ platform = "linux" /\ r \notin Terminal => dialog = Nobody
  /\ Goto(r, "idle")
  /\ UNCHANGED <<platform, spooler, op, part, dialog, ghosts>>

Release(r) == dialog' = IF dialog = r THEN Nobody ELSE dialog

(* The helper ends, and its caller, when it still waits, hears of it.      *)
Finish(r, ok) ==
  /\ Helper(r, "none")
  /\ saw' = [saw EXCEPT ![r] = "absent"]
  /\ before' = [before EXCEPT ![r] = {}]
  /\ Goto(r, "idle") /\ Release(r)
  /\ told' = IF ok /\ r \in alone /\ at[r] = "waiting" THEN op[r] ELSE "no"
  /\ alone' = alone \ {r} /\ began' = began \ {r}
  /\ UNCHANGED <<platform, op>>

(* HELPER_TIMEOUT_MILLIS, or the daemon's IO_TIMEOUT: the caller gives up  *)
(* and the helper goes on.                                                 *)
GiveUp(r) ==
  /\ at[r] = "waiting"
  /\ Goto(r, "idle") /\ Release(r)
  /\ UNCHANGED <<platform, spooler, op, part, ghosts>>

(* Windows may allow the helper to be terminated, wherever it is.          *)
Terminate(r) ==
  /\ platform = "windows" /\ at[r] = "waiting"
  /\ Finish(r, FALSE)
  /\ UNCHANGED spooler

Stay(r) == UNCHANGED <<platform, caller, alone, told>>

-----------------------------------------------------------------------------
(* CupsQueueInstaller::apply_queue.                                        *)

LookCups(r) ==
  /\ platform = "linux" /\ helper[r] = "look"
  /\ IF queue = "foreign" \/ (queue \in {"ours", "old"} /\ op[r] = "install")
       THEN Finish(r, queue # "foreign") /\ UNCHANGED spooler
       ELSE /\ Helper(r, IF queue = "absent" THEN "configure" ELSE "count")
            /\ saw' = [saw EXCEPT ![r] = queue]
            /\ began' = IF queue = "absent" THEN began ELSE began \cup {r}
            /\ Stay(r) /\ UNCHANGED <<spooler, before>>

CountCups(r) ==
  /\ platform = "linux" /\ helper[r] = "count"
  /\ IF pending
       THEN Finish(r, FALSE)
       ELSE Helper(r, "configure") /\ Stay(r) /\ UNCHANGED <<saw, before, began>>
  /\ UNCHANGED spooler

(* lpadmin -p -m everywhere adds the destination or changes it; failing,   *)
(* it may have added an incomplete one.                                    *)
ConfigureCups(r) ==
  /\ platform = "linux" /\ helper[r] = "configure"
  /\ \/ queue' = "ours" /\ Helper(r, "options")
     \/ queue' \in (IF queue = "absent" THEN {"absent", "raw"} ELSE {queue})
          /\ Helper(r, "undo")
  /\ Stay(r) /\ UNCHANGED <<others, pending, saw, before, began>>

(* Variant: an incomplete queue is removed, whatever was there before.     *)
UndoCups_Always(r) ==
  /\ platform = "linux" /\ helper[r] = "undo"
  /\ queue' = "absent" /\ pending' = FALSE
  /\ Finish(r, FALSE) /\ UNCHANGED others

(* delete_destination, only after a fresh installation; it may fail.       *)
UndoCups(r) ==
  /\ platform = "linux" /\ helper[r] = "undo"
  /\ \/ saw[r] = "absent" /\ queue' = "absent" /\ pending' = FALSE
     \/ UNCHANGED <<queue, pending>>
  /\ Finish(r, FALSE) /\ UNCHANGED others

(* The default page size and the preserved options, as well as they go.    *)
OptionsCups(r) ==
  /\ platform = "linux" /\ helper[r] = "options"
  /\ Finish(r, TRUE) /\ UNCHANGED spooler

-----------------------------------------------------------------------------
(* The PowerShell script.                                                  *)

(* Get-Printer by the name; a repair also takes a copy of ours.            *)
LookWindows(r) ==
  /\ platform = "windows" /\ helper[r] = "look"
  /\ LET found == IF queue = "absent" /\ op[r] = "repair" /\ "copy" \in others
                    THEN "copy" ELSE queue
         next == CASE found = "absent" /\ op[r] = "install" -> "add"
                   [] found = "old" /\ op[r] = "install" -> "remove"
                   [] found \in {"ours", "wsd", "own", "copy"}
                        /\ op[r] = "repair" -> "count"
                   [] OTHER -> "end"
     IN IF next = "end"
          THEN Finish(r, op[r] = "install" /\ found \in {"ours", "wsd", "own"})
          ELSE /\ Helper(r, next) /\ Stay(r)
               /\ saw' = [saw EXCEPT ![r] = found]
               /\ before' = [before EXCEPT ![r] = others \ {found}]
               /\ began' = IF found = "absent" THEN began ELSE began \cup {r}
  /\ UNCHANGED spooler

CountWindows(r) ==
  /\ platform = "windows" /\ helper[r] = "count"
  /\ IF pending
       THEN Finish(r, FALSE)
       ELSE Helper(r, "remove") /\ Stay(r) /\ UNCHANGED <<saw, before, began>>
  /\ UNCHANGED spooler

(* Remove-Printer takes the print jobs along.                              *)
RemoveWindows(r) ==
  /\ platform = "windows" /\ helper[r] = "remove"
  /\ \/ /\ Helper(r, "add") /\ Stay(r)
        /\ IF saw[r] = "copy"
             THEN /\ "copy" \in others /\ others' = others \ {"copy"}
                  /\ UNCHANGED <<queue, pending>>
             ELSE /\ queue # "absent" /\ queue' = "absent"
                  /\ pending' = FALSE /\ UNCHANGED others
        /\ UNCHANGED <<saw, before, began>>
     \/ Finish(r, FALSE) /\ UNCHANGED spooler

(* Add-Printer -IppURL may name the queue its own way.  Only a fresh       *)
(* installation goes on when it fails.                                     *)
AddWindows(r) ==
  /\ platform = "windows" /\ helper[r] = "add"
  /\ \/ /\ queue = "absent" /\ queue' \in {"ours", "wsd"}
        /\ Helper(r, "sync") /\ UNCHANGED others
        /\ Stay(r) /\ UNCHANGED <<saw, before, began>>
     \/ /\ others' = others \cup {"unnamed"} /\ Helper(r, "sync")
        /\ Stay(r) /\ UNCHANGED <<queue, saw, before, began>>
     \/ /\ saw[r] = "absent" /\ Helper(r, "sync")
        /\ Stay(r) /\ UNCHANGED <<queue, others, saw, before, began>>
     \/ saw[r] # "absent" /\ Finish(r, FALSE) /\ UNCHANGED <<queue, others>>
  /\ UNCHANGED pending

(* Variant: what Add-Printer reported decides.                             *)
SyncWindows_Trusting(r) ==
  /\ platform = "windows" /\ helper[r] = "sync"
  /\ Finish(r, TRUE) /\ UNCHANGED spooler

(* Sync-ShaPrintQueueName: when nothing has the name, a printer that was   *)
(* not there before, or else one that looks like it, is renamed.           *)
SyncWindows(r) ==
  /\ platform = "windows" /\ helper[r] = "sync"
  /\ LET new == others \ before[r]
         candidates == IF new # {} THEN new ELSE others
     IN IF queue # "absent" \/ candidates = {}
          THEN Finish(r, queue # "absent") /\ UNCHANGED <<queue, others>>
          ELSE \E p \in candidates :
                 /\ queue' = IF p = "own" THEN "own" ELSE "wsd"
                 /\ others' = others \ {p}
                 /\ Finish(r, TRUE)
  /\ UNCHANGED pending

-----------------------------------------------------------------------------
(* The spooler and its users.                                              *)

UserPrints ==
  /\ queue # "absent" /\ ~pending /\ pending' = TRUE
  /\ UNCHANGED <<platform, queue, others, caller, part, ghosts>>

JobsEnd == /\ pending /\ pending' = FALSE
           /\ UNCHANGED <<platform, queue, others, caller, part, ghosts>>

(* The user deletes the queue by hand; no request is alone with that.      *)
UserRemoves ==
  /\ queue # "absent" /\ queue' = "absent" /\ pending' = FALSE
  /\ told' = "no" /\ alone' = {}
  /\ UNCHANGED <<platform, others, caller, part, began>>

Next ==
  \/ \E r \in Requests :
       \/ Ask(r) \/ Inspect(r) \/ Authorise(r) \/ Declined(r) \/ GiveUp(r)
       \/ Terminate(r) \/ LookCups(r) \/ CountCups(r) \/ ConfigureCups(r)
       \/ UndoCups(r) \/ OptionsCups(r) \/ LookWindows(r) \/ CountWindows(r)
       \/ RemoveWindows(r) \/ AddWindows(r) \/ SyncWindows(r)
  \/ UserPrints \/ JobsEnd \/ UserRemoves

Spec == Init /\ [][Next]_vars

-----------------------------------------------------------------------------
TypeOK ==
  /\ platform \in {"windows", "linux"}
  /\ queue \in Places /\ pending \in BOOLEAN
  /\ others \subseteq {"copy", "unnamed", "own"}
  /\ op \in [Requests -> {"install", "repair"}]
  /\ at \in [Requests -> {"idle", "inspect", "authorise", "waiting"}]
  /\ helper \in [Requests -> {"none", "look", "count", "configure", "undo",
                              "options", "remove", "add", "sync"}]
  /\ saw \in [Requests -> Places \cup {"copy"}]
  /\ before \in [Requests -> SUBSET {"copy", "unnamed", "own"}]
  /\ dialog \in Requests \cup {Nobody}
  /\ alone \subseteq Requests /\ began \subseteq Requests
  /\ told \in {"no", "install", "repair"}

(* On Linux, "never delete or destroy a pre-existing queue on repair       *)
(* failure" (configure_destination), nor its jobs: a request that runs     *)
(* alone and found a client queue leaves one, whatever lpadmin does.  Two  *)
(* that overlap may not: the failed one of two installations that both     *)
(* found nothing removes the queue of the other.                           *)
KeepsQueue ==
  \A r \in began \cap alone :
    platform = "linux" /\ helper'[r] # helper[r] =>
      queue' # "absent" /\ (pending => pending')

(* When an installation or a repair that ran alone has been reported as    *)
(* done, the queue is there, prints to this proxy and can convert, until   *)
(* the user or another request changes it: whatever name Windows gave it,  *)
(* whatever failed on the way and whenever the caller of an earlier        *)
(* request gave up on a helper that went on.  Two queues are reported done *)
(* and do not: one that Linux found at an earlier port of the proxy when   *)
(* it was to install, which it leaves (apply_queue returns Ok), and a      *)
(* printer of the user's own that Windows renamed (Sync-ShaPrintQueueName).*)
DoneIsTrue ==
  told # "no" =>
    \/ queue \in {"ours", "wsd"}
    \/ platform = "linux" /\ told = "install" /\ queue = "old"
    \/ platform = "windows" /\ queue = "own"

(* A recognised queue "is updated idempotently" (cups.rs), and "re-        *)
(* installing an existing ShaPrint client queue updates its loopback port  *)
(* in place when it points to an older ShaPrint proxy port" (ADR 0014):    *)
(* what is reported done prints to this proxy, without exception.          *)
DoneIsCurrent == told # "no" => queue \in {"ours", "wsd"}

(* "When an existing queue points to an unrelated non-ShaPrint destination *)
(* it leaves the queue untouched" (queue_installation/windows.rs): the     *)
(* user's own printer keeps its name.                                      *)
OwnPrinterUntouched == queue # "own"
=============================================================================
