---------------------------- MODULE ServerTrust ----------------------------
(***************************************************************************)
(* The client's approvals of servers (adapters/client_connections.rs): the *)
(* trust file that pins a certificate to an address, the requests that     *)
(* change it, and those that rely on it.  Every decision reads the file    *)
(* again under approval_lock, so the copy in memory decides nothing and is *)
(* left out.  The file is replaced by a spawn_blocking thread through one  *)
(* temporary name.                                                         *)
(*                                                                         *)
(* In the desktop application a request runs to its end.  In the daemon it *)
(* is a control request, which is given up after IO_TIMEOUT wherever it    *)
(* awaits; its thread goes on.                                             *)
(***************************************************************************)
EXTENDS Naturals, FiniteSets

CONSTANTS
  Requests,   \* concurrent requests
  Addresses,  \* normalised server addresses
  Certs,      \* certificate fingerprints
  NoCert,     \* no record, and no certificate
  NoAddress   \* the request names no server

Nobody == "nobody"  \* approval_lock is free

ASSUME NoCertAssumption == NoCert \notin Certs
ASSUME NobodyAssumption == Nobody \notin Requests

VARIABLES
  givenUp,   \* the daemon has given a request up
  file,      \* the trust file: [Addresses -> Certs and NoCert]
  torn,      \* the trust file cannot be parsed
  temp,      \* the temporary file: "absent", "partial" or "whole"
  tempData,  \* what a whole temporary file holds
  locked,    \* the request that holds approval_lock
  rpc,       \* [Requests -> where the request is]
  addr,      \* [Requests -> the address it names]
  want,      \* [Requests -> the certificate reviewed, the pin, or NoCert]
  thread,    \* [Requests -> its persist thread]
  image,     \* [Requests -> the records the thread writes]
  reviewed,  \* [Addresses -> certificates the user asked to approve]
  settled    \* [Addresses -> what the last change that ended well left]

None == [a \in Addresses |-> NoCert]

requestVars == <<rpc, addr, want>>
fileVars    == <<file, torn, temp, tempData>>
threadVars  == <<thread, image>>
ghostVars   == <<reviewed, settled>>
vars == <<givenUp, file, torn, temp, tempData, locked, rpc, addr, want, thread,
          image, reviewed, settled>>

Init ==
  /\ givenUp = FALSE
  /\ file = None /\ torn = FALSE /\ temp = "absent" /\ tempData = None
  /\ locked = Nobody
  /\ rpc = [r \in Requests |-> "idle"]
  /\ addr = [r \in Requests |-> NoAddress]
  /\ want = [r \in Requests |-> NoCert]
  /\ thread = [r \in Requests |-> "none"]
  /\ image = [r \in Requests |-> None]
  /\ reviewed = [a \in Addresses |-> {}]
  /\ settled = None

(* What the user has been told is only followed until a request is given   *)
(* up: what is left of that one may undo what others were told.            *)
Settle(records) == settled' = IF givenUp THEN None ELSE records

Goto(r, to) == rpc' = [rpc EXCEPT ![r] = to]

End(r) ==
  /\ Goto(r, "idle")
  /\ addr' = [addr EXCEPT ![r] = NoAddress]
  /\ want' = [want EXCEPT ![r] = NoCert]

-----------------------------------------------------------------------------
(* approve.                                                                *)

(* The user approves the fingerprint that inspect showed.  Bound: a        *)
(* request whose abandoned thread still runs is not made again.            *)
Approve(r) ==
  /\ rpc[r] = "idle" /\ thread[r] = "none" /\ Goto(r, "observe")
  /\ \E a \in Addresses, f \in Certs :
       /\ addr' = [addr EXCEPT ![r] = a]
       /\ want' = [want EXCEPT ![r] = f]
       /\ reviewed' = [reviewed EXCEPT ![a] = @ \cup {f}]
  /\ UNCHANGED <<givenUp, fileVars, locked, threadVars, settled>>

(* observe_fingerprint: the server may be away, or present something else  *)
(* than was reviewed.                                                      *)
Observe(r) ==
  /\ rpc[r] = "observe"
  /\ \/ Goto(r, "approve") /\ UNCHANGED <<addr, want>>
     \/ End(r)
  /\ UNCHANGED <<givenUp, fileVars, locked, threadVars, ghostVars>>

(* Variant: the file is read and handed to persist without the lock.       *)
Change_Unlocked(r) ==
  /\ rpc[r] \in {"approve", "forget"}
  /\ ~torn
  /\ image' = [image EXCEPT ![r] = [file EXCEPT ![addr[r]] =
                                      IF rpc[r] = "approve" THEN want[r]
                                                            ELSE NoCert]]
  /\ thread' = [thread EXCEPT ![r] = "open"]
  /\ Goto(r, "persist")
  /\ UNCHANGED <<givenUp, fileVars, locked, addr, want, ghostVars>>

(* Under approval_lock: the file is read, changed in memory, and handed to *)
(* persist.  Forgetting an address that is not there writes nothing.       *)
Change(r) ==
  /\ rpc[r] \in {"approve", "forget"}
  /\ locked = Nobody
  /\ IF torn \/ (rpc[r] = "forget" /\ file[addr[r]] = NoCert)
       THEN End(r) /\ UNCHANGED <<locked, threadVars>>
       ELSE /\ locked' = r
            /\ image' = [image EXCEPT ![r] =
                           [file EXCEPT ![addr[r]] =
                              IF rpc[r] = "approve" THEN want[r] ELSE NoCert]]
            /\ thread' = [thread EXCEPT ![r] = "open"]
            /\ Goto(r, "persist") /\ UNCHANGED <<addr, want>>
  /\ IF rpc[r] = "forget" /\ ~torn /\ file[addr[r]] = NoCert
       THEN Settle([settled EXCEPT ![addr[r]] = NoCert])
       ELSE UNCHANGED settled
  /\ UNCHANGED <<givenUp, fileVars, reviewed>>

(* forget_trusted_server needs no connection.  The same bound.             *)
Forget(r) ==
  /\ rpc[r] = "idle" /\ Goto(r, "forget")
  /\ thread[r] = "none"
  /\ \E a \in Addresses : addr' = [addr EXCEPT ![r] = a]
  /\ UNCHANGED <<givenUp, fileVars, locked, want, threadVars, ghostVars>>

-----------------------------------------------------------------------------
(* persist: the thread truncates and writes the temporary file, then moves *)
(* it over the trust file.  Any of it may fail.                            *)

OpenTemp(r) ==
  /\ thread[r] = "open"
  /\ thread' = [thread EXCEPT ![r] = "write"]
  /\ temp' = "partial"
  /\ UNCHANGED <<givenUp, file, torn, tempData, locked, requestVars, image,
                 ghostVars>>

WriteTemp(r) ==
  /\ thread[r] = "write"
  /\ thread' = [thread EXCEPT ![r] = "rename"]
  /\ temp' = "whole" /\ tempData' = image[r]
  /\ UNCHANGED <<givenUp, file, torn, locked, requestVars, image, ghostVars>>

Outcome(r, o) ==
  IF rpc[r] = "persist"
    THEN thread' = [thread EXCEPT ![r] = o] /\ UNCHANGED image
    ELSE /\ thread' = [thread EXCEPT ![r] = "none"]
         /\ image' = [image EXCEPT ![r] = None]

Rename(r) ==
  /\ thread[r] = "rename" /\ temp # "absent"
  /\ Outcome(r, "done")
  /\ torn' = (temp = "partial")
  /\ file' = IF temp = "whole" THEN tempData ELSE None
  /\ temp' = "absent" /\ tempData' = None
  /\ UNCHANGED <<givenUp, locked, requestVars, ghostVars>>

PersistFails(r) ==
  /\ thread[r] \in {"open", "write", "rename"}
  /\ Outcome(r, "failed")
  /\ UNCHANGED <<givenUp, fileVars, locked, requestVars, ghostVars>>

(* The thread is awaited, the lock given back.                             *)
Persisted(r) ==
  /\ rpc[r] = "persist" /\ thread[r] \in {"done", "failed"}
  /\ thread' = [thread EXCEPT ![r] = "none"]
  /\ image' = [image EXCEPT ![r] = None]
  /\ locked' = Nobody
  /\ End(r)
  /\ IF thread[r] = "done"
       THEN Settle([settled EXCEPT ![addr[r]] = image[r][addr[r]]])
       ELSE UNCHANGED settled
  /\ UNCHANGED <<givenUp, fileVars, reviewed>>

-----------------------------------------------------------------------------
(* forward_ipp, printers, probe_trusted_server, inspect_server: the pin is *)
(* read under the lock, used without it.                                   *)

Forward(r) ==
  /\ rpc[r] = "idle" /\ Goto(r, "pin")
  /\ \E a \in Addresses : addr' = [addr EXCEPT ![r] = a]
  /\ UNCHANGED <<givenUp, fileVars, locked, want, threadVars, ghostVars>>

ReadPin(r) ==
  /\ rpc[r] = "pin" /\ locked = Nobody
  /\ IF torn \/ file[addr[r]] = NoCert
       THEN End(r)
       ELSE /\ Goto(r, "connect")
            /\ want' = [want EXCEPT ![r] = file[addr[r]]]
            /\ UNCHANGED addr
  /\ UNCHANGED <<givenUp, fileVars, locked, threadVars, ghostVars>>

(* Variant: the certificate of the connection is not looked at.            *)
Connect_Blind(r) ==
  /\ rpc[r] = "connect" /\ Goto(r, "exchange")
  /\ \E f \in Certs : want' = [want EXCEPT ![r] = f]
  /\ UNCHANGED <<givenUp, fileVars, locked, addr, threadVars, ghostVars>>

(* The server presents the pinned certificate, or the request ends.  The   *)
(* exchange keeps this connection, whoever answers at the address later.   *)
Connect(r) ==
  /\ rpc[r] = "connect"
  /\ \/ Goto(r, "exchange") /\ UNCHANGED <<addr, want>>
     \/ End(r)
  /\ UNCHANGED <<givenUp, fileVars, locked, threadVars, ghostVars>>

Exchanged(r) ==
  /\ rpc[r] = "exchange"
  /\ End(r)
  /\ UNCHANGED <<givenUp, fileVars, locked, threadVars, ghostVars>>

-----------------------------------------------------------------------------
Unlocked(r) == IF locked = r THEN Nobody ELSE locked

(* The daemon's handle_connection gives up a request that takes too long.  *)
GiveUp(r) ==
  /\ ~givenUp
  /\ givenUp' = TRUE
  /\ rpc[r] # "idle"
  /\ End(r)
  /\ locked' = Unlocked(r)
  /\ IF thread[r] \in {"done", "failed"}
       THEN /\ thread' = [thread EXCEPT ![r] = "none"]
            /\ image' = [image EXCEPT ![r] = None]
       ELSE UNCHANGED threadVars
  /\ settled' = None
  /\ UNCHANGED <<fileVars, reviewed>>

(* The process ends and starts again: `new' reads the file as it is.  A    *)
(* torn file keeps it from starting.                                       *)
Restart ==
  /\ \E r \in Requests : rpc[r] # "idle" \/ thread[r] # "none"
  /\ rpc' = [r \in Requests |-> "idle"]
  /\ addr' = [r \in Requests |-> NoAddress]
  /\ want' = [r \in Requests |-> NoCert]
  /\ thread' = [r \in Requests |-> "none"]
  /\ image' = [r \in Requests |-> None]
  /\ locked' = Nobody
  /\ Settle(file)
  /\ UNCHANGED <<givenUp, fileVars, reviewed>>

-----------------------------------------------------------------------------
RequestStep(r) ==
  \/ Approve(r) \/ Observe(r) \/ Forget(r) \/ Change(r) \/ Persisted(r)
  \/ OpenTemp(r) \/ WriteTemp(r) \/ Rename(r) \/ PersistFails(r)
  \/ Forward(r) \/ ReadPin(r) \/ Connect(r) \/ Exchanged(r) \/ GiveUp(r)

Next ==
  \/ \E r \in Requests : RequestStep(r)
  \/ Restart

Spec == Init /\ [][Next]_vars

-----------------------------------------------------------------------------
(* Properties.                                                             *)

Records == [Addresses -> Certs \cup {NoCert}]

(* The shape of the state.                                                 *)
TypeOK ==
  /\ givenUp \in BOOLEAN
  /\ file \in Records /\ torn \in BOOLEAN
  /\ temp \in {"absent", "partial", "whole"} /\ tempData \in Records
  /\ locked \in Requests \cup {Nobody}
  /\ rpc \in [Requests -> {"idle", "observe", "approve", "forget", "persist",
                           "pin", "connect", "exchange"}]
  /\ addr \in [Requests -> Addresses \cup {NoAddress}]
  /\ want \in [Requests -> Certs \cup {NoCert}]
  /\ thread \in [Requests ->
                   {"none", "open", "write", "rename", "done", "failed"}]
  /\ image \in [Requests -> Records]
  /\ reviewed \in [Addresses -> SUBSET Certs]
  /\ settled \in Records

(* No request is sent, and nothing is pinned, to a certificate the user    *)
(* has not asked to approve for that address, whatever the servers present *)
(* between review, approval and use (approve, forward_ipp).                *)
OnlyReviewedServers ==
  /\ \A r \in Requests :
       rpc[r] = "exchange" => want[r] \in reviewed[addr[r]]
  /\ \A a \in Addresses : file[a] # NoCert => file[a] \in reviewed[a]

(* No approval or withdrawal that was reported done is lost to a           *)
(* concurrent one of another server, or to a crash: whenever nobody writes *)
(* the file, it holds what the last such change of each address left       *)
(* (approve, forget_trusted_server).  A request that was given up may      *)
(* still write; it is excepted.                                            *)
NoLostChange ==
  ~givenUp /\ (\A r \in Requests : thread[r] \in {"none", "failed"})
    => file = settled

(* The trust file can always be read, wherever the process dies: otherwise *)
(* ClientConnections::new fails and the application does not start again.  *)
(* Two threads on the one temporary name, the abandoned one and the next,  *)
(* could tear it; that is excepted too.                                    *)
StoreReadable == ~givenUp => ~torn
=============================================================================
