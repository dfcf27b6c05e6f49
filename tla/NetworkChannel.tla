---------------------------- MODULE NetworkChannel ----------------------------
(***************************************************************************)
(* The Network Channel (adapters/ipps/channel.rs): the verifier a server   *)
(* checks requests with and the credential the client proxy sends, which   *)
(* must be of the same channel.  On a Windows desktop both are in one      *)
(* file.  A daemon keeps the credential in a file of its own: shaprintctl  *)
(* run by root writes it before it asks the daemon, and puts the old one   *)
(* back when that fails (execute_cli_command in adapters/daemon.rs);       *)
(* without root the daemon writes it itself.  A control request is given   *)
(* up after IO_TIMEOUT; its storage thread goes on.                        *)
(***************************************************************************)
CONSTANTS
  Setters,   \* concurrent requests to set the channel
  Channels,  \* channels a user may choose
  NoChannel  \* none configured

VARIABLES
  mode,        \* "desktop", "machine" (root asks) or "private"
  credential,  \* the credential file of a daemon
  stored,      \* the verifier file: the channel its verifier is of
  secret,      \* the credential kept beside it on a desktop
  verifier,    \* the verifier in memory
  client,      \* the credential in memory
  lock,        \* who holds configure_lock
  pc,          \* [Setters -> where the request is]
  want,        \* [Setters -> the channel to set]
  previous,    \* [Setters -> the credential file before]
  thread,      \* [Setters -> the storage thread]
  disturbed    \* requests overlapped, failed half way, were given up, or the
               \* credential file was not put back

diskVars   == <<credential, stored, secret>>
memoryVars == <<verifier, client>>
vars == <<mode, credential, stored, secret, verifier, client, lock, pc, want,
          previous, thread, disturbed>>

Nobody == "nobody"

Init ==
  /\ mode \in {"desktop", "machine", "private"}
  /\ credential = NoChannel /\ stored = NoChannel /\ secret = NoChannel
  /\ verifier = NoChannel /\ client = NoChannel
  /\ lock = Nobody
  /\ pc = [s \in Setters |-> "idle"]
  /\ want = [s \in Setters |-> NoChannel]
  /\ previous = [s \in Setters |-> NoChannel]
  /\ thread = [s \in Setters |-> "none"]
  /\ disturbed = FALSE

Quiet == \A s \in Setters : pc[s] = "idle" /\ thread[s] = "none"

Goto(s, to) == pc' = [pc EXCEPT ![s] = to]
Run(s, to)  == thread' = [thread EXCEPT ![s] = to]

(* A request that ends badly goes on to put the credential file back.      *)
Refused == IF mode = "machine" THEN "restore" ELSE "idle"

-----------------------------------------------------------------------------
Set(s) ==
  /\ pc[s] = "idle" /\ thread[s] = "none" /\ Goto(s, "queued")
  /\ \E c \in Channels :
       /\ want' = [want EXCEPT ![s] = c]
       /\ credential' = IF mode = "machine" THEN c ELSE credential
  /\ previous' = [previous EXCEPT ![s] =
                    IF mode = "machine" THEN credential ELSE @]
  /\ disturbed' = (disturbed \/ (mode = "machine" /\ ~Quiet))
  /\ UNCHANGED <<mode, stored, secret, memoryVars, lock, thread>>

(* Variant: configure does not wait for another configure.                 *)
Configure_Unlocked(s) ==
  /\ pc[s] = "queued" /\ Goto(s, "writing")
  /\ Run(s, IF mode = "desktop" THEN "verifier" ELSE "credential")
  /\ UNCHANGED <<mode, diskVars, memoryVars, lock, want, previous, disturbed>>

Configure(s) ==
  /\ pc[s] = "queued" /\ Goto(s, "writing")
  /\ lock = Nobody /\ lock' = s
  /\ Run(s, IF mode = "desktop" THEN "verifier" ELSE "credential")
  /\ UNCHANGED <<mode, diskVars, memoryVars, want, previous, disturbed>>

(* The daemon cannot write the credential file of root and is content when *)
(* it holds the channel already.                                           *)
PersistCredential(s) ==
  /\ thread[s] = "credential"
  /\ \/ /\ mode = "private"
        /\ credential' = want[s]
        /\ Run(s, "verifier")
     \/ /\ credential = want[s]
        /\ Run(s, "verifier") /\ UNCHANGED credential
     \/ /\ credential # want[s]
        /\ Run(s, "failed") /\ UNCHANGED credential
  /\ UNCHANGED <<mode, stored, secret, memoryVars, lock, pc, want, previous,
                 disturbed>>

(* Written beside and moved into place; or not.  A credential that went    *)
(* ahead stays.                                                            *)
PersistVerifier(s) ==
  /\ thread[s] = "verifier"
  /\ \/ /\ stored' = want[s]
        /\ secret' = IF mode = "desktop" THEN want[s] ELSE secret
        /\ Run(s, IF pc[s] = "writing" THEN "done" ELSE "none")
        /\ UNCHANGED disturbed
     \/ /\ Run(s, IF pc[s] = "writing" THEN "failed" ELSE "none")
        /\ disturbed' = (disturbed \/ mode = "private")
        /\ UNCHANGED <<stored, secret>>
  /\ UNCHANGED <<mode, credential, memoryVars, lock, pc, want, previous>>

(* Memory follows the disk, the verifier first.                            *)
UseVerifier(s) ==
  /\ pc[s] = "writing" /\ thread[s] = "done"
  /\ Goto(s, "secret") /\ Run(s, "none")
  /\ verifier' = want[s]
  /\ UNCHANGED <<mode, diskVars, client, lock, want, previous, disturbed>>

(* The answer may come after shaprintctl stopped waiting for it.           *)
UseSecret(s) ==
  /\ pc[s] = "secret"
  /\ client' = want[s]
  /\ lock' = IF lock = s THEN Nobody ELSE lock
  /\ \/ Goto(s, "idle") /\ UNCHANGED disturbed
     \/ mode # "desktop" /\ Goto(s, Refused) /\ disturbed' = TRUE
  /\ UNCHANGED <<mode, diskVars, verifier, want, previous, thread>>

Fail(s) ==
  /\ pc[s] = "writing" /\ thread[s] = "failed"
  /\ Goto(s, Refused) /\ Run(s, "none")
  /\ lock' = IF lock = s THEN Nobody ELSE lock
  /\ UNCHANGED <<mode, diskVars, memoryVars, want, previous, disturbed>>

(* No daemon answers at the socket.                                        *)
Unreached(s) ==
  /\ mode # "desktop" /\ pc[s] = "queued" /\ Goto(s, Refused)
  /\ UNCHANGED <<mode, diskVars, memoryVars, lock, want, previous, thread,
                 disturbed>>

(* handle_connection drops the request where it awaits.                    *)
GiveUp(s) ==
  /\ mode # "desktop"
  /\ pc[s] \in {"queued", "writing"}
  /\ Goto(s, Refused)
  /\ lock' = IF lock = s THEN Nobody ELSE lock
  /\ Run(s, IF thread[s] \in {"done", "failed"} THEN "none" ELSE thread[s])
  /\ disturbed' = TRUE
  /\ UNCHANGED <<mode, diskVars, memoryVars, want, previous>>

(* An abandoned thread whose credential was refused simply ends.           *)
ThreadEnds(s) ==
  /\ pc[s] # "writing" /\ thread[s] = "failed"
  /\ Run(s, "none")
  /\ UNCHANGED <<mode, diskVars, memoryVars, lock, pc, want, previous,
                 disturbed>>

PutBack(s) ==
  /\ pc[s] = "restore" /\ Goto(s, "idle")
  /\ credential' = previous[s]
  /\ UNCHANGED <<mode, stored, secret, memoryVars, lock, want, previous,
                 thread, disturbed>>

(* shaprintctl is killed before it asks or before it puts the file back,   *)
(* or cannot write or remove the file, which it ignores.  A daemon that    *)
(* was asked does not notice.                                              *)
NotPutBack(s) ==
  /\ mode = "machine" /\ pc[s] \in {"queued", "restore"} /\ Goto(s, "idle")
  /\ disturbed' = TRUE
  /\ UNCHANGED <<mode, diskVars, memoryVars, lock, want, previous, thread>>

(* open_with_credential_file.                                              *)
Restart ==
  /\ verifier' = stored
  /\ client' = IF mode = "desktop" THEN secret ELSE credential
  /\ lock' = Nobody
  /\ pc' = [s \in Setters |->
              IF pc[s] \in {"idle", "restore"} THEN pc[s] ELSE Refused]
  /\ thread' = [s \in Setters |-> "none"]
  /\ disturbed' = (disturbed \/ (mode # "desktop" /\ ~Quiet))
  /\ UNCHANGED <<mode, diskVars, want, previous>>

Next ==
  \/ \E s \in Setters :
       \/ Set(s) \/ Configure(s) \/ PersistCredential(s) \/ PersistVerifier(s)
       \/ UseVerifier(s) \/ UseSecret(s) \/ Fail(s) \/ GiveUp(s)
       \/ ThreadEnds(s) \/ PutBack(s)
       \/ Unreached(s) \/ NotPutBack(s)
  \/ Restart

Spec == Init /\ [][Next]_vars

-----------------------------------------------------------------------------
(* What a restart would load.                                              *)
LoadedClient == IF mode = "desktop" THEN secret ELSE credential

(* Between requests the server and the client of this computer are on one  *)
(* channel, now and after a restart, whatever failed and, on a desktop,    *)
(* whatever overlapped or crashed (configure, PutBack).  The exceptions    *)
(* are the daemon's: overlapping root requests, a request given up, half a *)
(* failure of a daemon that writes both files, and a credential file that  *)
(* shaprintctl was killed over or failed to put back.                      *)
OneChannel ==
  Quiet /\ ~disturbed =>
    verifier = client /\ stored = verifier /\ LoadedClient = client

(* "If the subsequent IPC call fails, restore the previous credential file *)
(* state so Client and Server never diverge" (daemon.rs, SetNetworkChannel).*)
NeverDiverge == mode = "machine" /\ Quiet => credential = stored
=============================================================================
