------------------------------- MODULE Identity -------------------------------
(***************************************************************************)
(* The server's TLS identity (adapters/identity.rs): a certificate and its *)
(* key in two files, made by the first launch and loaded by all later ones *)
(* before the control socket is taken, so that launches of the daemon may  *)
(* overlap here.  Clients approve the certificate by its fingerprint.      *)
(*                                                                         *)
(* A file is replaced as a whole: it is written beside and renamed.  The   *)
(* names beside are shared by Linux processes, which is left out.          *)
(***************************************************************************)
EXTENDS Naturals

CONSTANTS
  Processes,  \* processes launched for one data directory
  MaxMade     \* bound: identities generated

None == 0

VARIABLES
  cert,       \* the identity the certificate file is of, or None
  key,        \* the same of the key file
  at,         \* [Processes -> "off", or the step of load_or_create, or "up"]
  own,        \* [Processes -> the identity it generated or loaded]
  made,       \* identities generated so far
  presented,  \* certificates that clients may have approved
  raced       \* a launch overlapped another

vars == <<cert, key, at, own, made, presented, raced>>

Init ==
  /\ cert = None /\ key = None /\ made = 0
  /\ at = [p \in Processes |-> "off"]
  /\ own = [p \in Processes |-> [cert |-> None, key |-> None]]
  /\ presented = {} /\ raced = FALSE

Goto(p, s) == at' = [at EXCEPT ![p] = s]

Up(p, identity) ==
  /\ Goto(p, "up")
  /\ own' = [own EXCEPT ![p] = identity]
  /\ presented' = presented \cup {identity.cert}

Launch(p) ==
  /\ at[p] = "off" /\ Goto(p, "look")
  /\ raced' = (raced \/ \E q \in Processes : at[q] \notin {"off", "up"})
  /\ UNCHANGED <<cert, key, own, made, presented>>

(* Both files are loaded; neither starts a new identity; half an identity, *)
(* like one that cannot be read, ends the launch.                          *)
Look(p) ==
  /\ at[p] = "look"
  /\ \/ cert # None /\ key # None /\ Up(p, [cert |-> cert, key |-> key])
        /\ UNCHANGED made
     \/ /\ cert = None /\ key = None /\ made < MaxMade
        /\ made' = made + 1 /\ Goto(p, "key")
        /\ own' = [own EXCEPT ![p] = [cert |-> made', key |-> made']]
        /\ UNCHANGED presented
     \/ Goto(p, "off") /\ UNCHANGED <<own, made, presented>>
  /\ UNCHANGED <<cert, key, raced>>

WriteKey(p) ==
  /\ at[p] = "key"
  /\ \/ key' = own[p].key /\ Goto(p, "cert")
     \/ Goto(p, "off") /\ UNCHANGED key
  /\ UNCHANGED <<cert, own, made, presented, raced>>

WriteCert(p) ==
  /\ at[p] = "cert"
  /\ \/ cert' = own[p].cert /\ Up(p, own[p])
     \/ Goto(p, "remove") /\ UNCHANGED <<cert, own, presented>>
  /\ UNCHANGED <<key, made, raced>>

(* The key is taken back; that this may fail too is not looked at.         *)
RemoveKey(p) ==
  /\ at[p] = "remove" /\ Goto(p, "off")
  /\ key' \in {None, key}
  /\ UNCHANGED <<cert, own, made, presented, raced>>

(* The process ends, wherever it is.                                       *)
End(p) ==
  /\ at[p] # "off" /\ Goto(p, "off")
  /\ UNCHANGED <<cert, key, own, made, presented, raced>>

Next == \E p \in Processes :
  Launch(p) \/ Look(p) \/ WriteKey(p) \/ WriteCert(p) \/ RemoveKey(p) \/ End(p)

Spec == Init /\ [][Next]_vars

-----------------------------------------------------------------------------
OneIdentity == \A c, d \in presented : c = d

(* The identity a client has approved is the one every later launch        *)
(* presents, with its own key, wherever a launch failed or its process     *)
(* died ("the identity and its fingerprint survive restarts", ADR 0003),   *)
(* unless two launches ran at once.                                        *)
IdentityIsKept ==
  ~raced =>
    /\ OneIdentity
    /\ \A p \in Processes : at[p] = "up" => own[p].cert = own[p].key
    /\ presented # {} => presented = {cert} /\ cert = key

(* The same without that exception.  It does not hold: of two daemons      *)
(* launched at once, the one that then finds the socket taken may have     *)
(* replaced the identity of the other.                                     *)
IdentitySurvivesRaces == OneIdentity
=============================================================================
