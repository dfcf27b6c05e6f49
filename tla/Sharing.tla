------------------------------- MODULE Sharing -------------------------------
(***************************************************************************)
(* The server's shared printers (application/sharing.rs): the selection    *)
(* and the enabled flag, each behind its own lock, the watch channel that  *)
(* the advertisement follows, and the settings file that is written in     *)
(* place.  set_shared, restore and the hooks of the service run at once:   *)
(* a call is a path through the critical sections it takes.                *)
(***************************************************************************)
EXTENDS FiniteSets

CONSTANTS
  Queues,  \* the queues the spooler may report
  Calls    \* concurrent calls

VARIABLES
  catalog,     \* the queues the spooler reports now
  selection,   \* the selected queues
  enabled,     \* sharing was started and not stopped since
  published,   \* what the watch channel holds
  file,        \* the settings file
  pc,          \* [Calls -> the next critical section of the call]
  ask,         \* [Calls -> the queues the call will select]
  wish,        \* [Calls -> the flag the call will set]
  image,       \* [Calls -> what the call will write]
  overlapped,  \* calls overlapped, or a write failed, since all agreed
  failed       \* the last write of the file failed

Settings == [enabled : BOOLEAN, printers : SUBSET Queues]
Default  == [enabled |-> FALSE, printers |-> {}]

(* Whole; truncated and not yet written; two calls wrote over each other;  *)
(* or no file.                                                             *)
Form(f)  == [form |-> f, holds |-> Default]
Whole(x) == [form |-> "whole", holds |-> x]

callVars == <<pc, ask, wish, image>>
vars == <<catalog, selection, enabled, published, file, pc, ask, wish, image,
          overlapped, failed>>

Init ==
  /\ catalog \in SUBSET Queues
  /\ selection = {} /\ enabled = FALSE /\ published = {} /\ file = Form("none")
  /\ pc = [c \in Calls |-> "idle"]
  /\ ask = [c \in Calls |-> {}]
  /\ wish = [c \in Calls |-> FALSE]
  /\ image = [c \in Calls |-> Default]
  /\ overlapped = FALSE /\ failed = FALSE

Quiet == \A c \in Calls : pc[c] = "idle"

Goto(c, to) == pc' = [pc EXCEPT ![c] = to]

End(c) ==
  /\ Goto(c, "idle")
  /\ ask' = [ask EXCEPT ![c] = {}]
  /\ wish' = [wish EXCEPT ![c] = FALSE]
  /\ image' = [image EXCEPT ![c] = Default]

Begin(c, to) ==
  /\ pc[c] = "idle" /\ Goto(c, to)
  /\ overlapped' = (overlapped \/ ~Quiet)
  /\ UNCHANGED <<catalog, selection, enabled, published, file, image, failed>>

-----------------------------------------------------------------------------
SetShared(c) ==
  /\ Begin(c, "check")
  /\ \E names \in SUBSET Queues : ask' = [ask EXCEPT ![c] = names]
  /\ UNCHANGED wish

(* Every name must be a local queue.                                       *)
Check(c) ==
  /\ pc[c] = "check"
  /\ IF ask[c] \subseteq catalog
       THEN Goto(c, "store") /\ UNCHANGED <<ask, wish, image>>
       ELSE End(c)
  /\ UNCHANGED <<catalog, selection, enabled, published, file, overlapped,
                 failed>>

(* A lone call brings everything together again.                           *)
Store(c) ==
  /\ pc[c] = "store" /\ Goto(c, "publish")
  /\ selection' = ask[c]
  /\ overlapped' = (overlapped /\ \E d \in Calls \ {c} : pc[d] # "idle")
  /\ UNCHANGED <<catalog, enabled, published, file, ask, wish, image, failed>>

(* A watch that holds the selection already is left alone.                 *)
Publish(c) ==
  /\ pc[c] = "publish" /\ Goto(c, "snapshot")
  /\ published' = ask[c]
  /\ UNCHANGED <<catalog, selection, enabled, file, ask, wish, image,
                 overlapped, failed>>

-----------------------------------------------------------------------------
(* The lock on the flag is held for reading while the file is written.     *)
NobodyWrites == \A c \in Calls : pc[c] \notin {"open", "write"}

SetSharingEnabled(c) ==
  /\ Begin(c, "choose")
  /\ \E b \in BOOLEAN : wish' = [wish EXCEPT ![c] = b]
  /\ UNCHANGED ask

Choose(c) ==
  /\ pc[c] = "choose" /\ NobodyWrites
  /\ Goto(c, "snapshot")
  /\ enabled' = wish[c]
  /\ UNCHANGED <<catalog, selection, published, file, ask, wish, image,
                 overlapped, failed>>

-----------------------------------------------------------------------------
Restore(c) ==
  /\ Begin(c, "filter")
  /\ UNCHANGED <<ask, wish>>

(* Variant: restore filters the selection in memory only.                  *)
Filter_Unsaved(c) ==
  /\ pc[c] = "filter"
  /\ End(c)
  /\ selection' = IF catalog = {} THEN selection ELSE selection \cap catalog
  /\ UNCHANGED <<catalog, enabled, published, file, overlapped, failed>>

(* A spooler that reports nothing is not believed.                         *)
Filter(c) ==
  /\ pc[c] = "filter"
  /\ IF catalog = {} \/ selection \subseteq catalog
       THEN End(c)
       ELSE /\ ask' = [ask EXCEPT ![c] = selection \cap catalog]
            /\ Goto(c, IF selection \cap catalog = {} THEN "disable"
                                                      ELSE "store")
            /\ UNCHANGED <<wish, image>>
  /\ UNCHANGED <<catalog, selection, enabled, published, file, overlapped,
                 failed>>

Disable(c) ==
  /\ pc[c] = "disable" /\ NobodyWrites
  /\ Goto(c, "store")
  /\ enabled' = FALSE
  /\ UNCHANGED <<catalog, selection, published, file, ask, wish, image,
                 overlapped, failed>>

-----------------------------------------------------------------------------
(* persist: the selection is read, then the flag, then the file truncated  *)
(* and written, with no lock against another persist.                      *)
SnapshotSelection(c) ==
  /\ pc[c] = "snapshot" /\ Goto(c, "flag")
  /\ image' = [image EXCEPT ![c].printers = selection]
  /\ UNCHANGED <<catalog, selection, enabled, published, file, ask, wish,
                 overlapped, failed>>

SnapshotEnabled(c) ==
  /\ pc[c] = "flag" /\ Goto(c, "open")
  /\ image' = [image EXCEPT ![c].enabled = enabled]
  /\ UNCHANGED <<catalog, selection, enabled, published, file, ask, wish,
                 overlapped, failed>>

Truncate(c) ==
  /\ pc[c] = "open" /\ Goto(c, "write")
  /\ file' = Form("empty")
  /\ UNCHANGED <<catalog, selection, enabled, published, ask, wish, image,
                 overlapped, failed>>

(* What another call wrote meanwhile may show through.                     *)
WriteFile(c) ==
  /\ pc[c] = "write"
  /\ End(c)
  /\ file' \in IF file \in {Form("empty"), Whole(image[c])}
                 THEN {Whole(image[c])}
                 ELSE {Whole(image[c]), Form("mixed")}
  /\ failed' = FALSE
  /\ UNCHANGED <<catalog, selection, enabled, published, overlapped>>

WriteFails(c) ==
  /\ pc[c] \in {"open", "write"}
  /\ End(c)
  /\ overlapped' = TRUE /\ failed' = TRUE
  /\ UNCHANGED <<catalog, selection, enabled, published, file>>

-----------------------------------------------------------------------------
CatalogChanges ==
  /\ catalog' \in SUBSET Queues \ {catalog}
  /\ UNCHANGED <<selection, enabled, published, file, callVars, overlapped,
                 failed>>

(* with_persistence takes what the file holds, or the defaults when it     *)
(* cannot be read.                                                         *)
Loaded == file.holds

CrashAndRestart ==
  /\ selection' = Loaded.printers /\ enabled' = Loaded.enabled
  /\ published' = Loaded.printers
  /\ pc' = [c \in Calls |-> "idle"]
  /\ ask' = [c \in Calls |-> {}]
  /\ wish' = [c \in Calls |-> FALSE]
  /\ image' = [c \in Calls |-> Default]
  /\ overlapped' = FALSE
  /\ failed' = FALSE
  /\ UNCHANGED <<catalog, file>>

CallStep(c) ==
  \/ SetShared(c) \/ Check(c) \/ Store(c) \/ Publish(c)
  \/ SetSharingEnabled(c) \/ Choose(c)
  \/ Restore(c) \/ Filter(c) \/ Disable(c)
  \/ SnapshotSelection(c) \/ SnapshotEnabled(c) \/ Truncate(c)
  \/ WriteFile(c) \/ WriteFails(c)

Next == (\E c \in Calls : CallStep(c)) \/ CatalogChanges \/ CrashAndRestart

Spec == Init /\ [][Next]_vars

-----------------------------------------------------------------------------
(* The shape of the state.                                                 *)
TypeOK ==
  /\ catalog \subseteq Queues /\ selection \subseteq Queues
  /\ enabled \in BOOLEAN /\ published \subseteq Queues
  /\ file \in [form : {"none", "empty", "mixed", "whole"}, holds : Settings]
  /\ pc \in [Calls -> {"idle", "check", "store", "publish", "choose",
                       "filter", "disable", "snapshot", "flag", "open",
                       "write"}]
  /\ ask \in [Calls -> SUBSET Queues]
  /\ wish \in [Calls -> BOOLEAN]
  /\ image \in [Calls -> Settings]
  /\ overlapped \in BOOLEAN /\ failed \in BOOLEAN

(* When no call runs and the calls since the last agreement came one by    *)
(* one, the selection, the watch channel and the file say the same         *)
(* (set_shared, restore, persist).  What a restart finds after a crash in  *)
(* the write is the exception: the file has no backup.                     *)
SoloCallsAgree ==
  Quiet /\ ~overlapped =>
    /\ published = selection
    /\ Loaded = [enabled |-> enabled, printers |-> selection]

(* However the calls overlap, a file that can be read holds the last       *)
(* explicit start or stop: persist keeps the flag's lock while it writes   *)
(* (set_sharing_enabled, restore).  A failed write is excepted until the   *)
(* next one.                                                               *)
EnabledChoiceIsStored ==
  Quiet /\ ~failed /\ file.form = "whole" => file.holds.enabled = enabled
=============================================================================
