------------------------------- MODULE MCStores -------------------------------
(***************************************************************************)
(* Small instances for TLC of the four parts that keep on disk what a user *)
(* chose or approved.  They share no state: a behaviour is one of them,    *)
(* chosen by scene, and the others stand still.                            *)
(***************************************************************************)
EXTENDS ServerTrust, TLC

CONSTANTS
  NoChannel,  \* none configured
  MaxMade     \* bound: identities generated

VARIABLES
  scene,
  idCert, idKey, idAt, own, made, presented, raced,
  catalog, selection, enabled, published, settings, shPc, ask, wish, shImage,
  overlapped, failed,
  mode, credential, stored, secret, verifier, client, chLock, chPc, chWant,
  previous, chThread, disturbed

sharingVars == <<catalog, selection, enabled, published, settings, shPc, ask,
                 wish, shImage, overlapped, failed>>
channelVars == <<mode, credential, stored, secret, verifier, client, chLock,
                 chPc, chWant, previous, chThread, disturbed>>
identityVars == <<idCert, idKey, idAt, own, made, presented, raced>>

Sh == INSTANCE Sharing WITH
        Queues <- Addresses, Calls <- Requests, file <- settings,
        pc <- shPc, image <- shImage

Ch == INSTANCE NetworkChannel WITH
        Setters <- Requests, Channels <- Certs, lock <- chLock, pc <- chPc,
        want <- chWant, thread <- chThread

Id == INSTANCE Identity WITH
        Processes <- Requests, cert <- idCert, key <- idKey, at <- idAt

MCInit ==
  /\ scene \in {"trust", "sharing", "channel", "identity"}
  /\ Init /\ Sh!Init /\ Ch!Init /\ Id!Init
  /\ scene # "sharing" => catalog = {}
  /\ scene # "channel" => mode = "desktop"

MCNext ==
  /\ UNCHANGED scene
  /\ \/ scene = "trust" /\ Next /\ UNCHANGED <<sharingVars, channelVars, identityVars>>
     \/ scene = "sharing" /\ Sh!Next /\ UNCHANGED <<vars, channelVars, identityVars>>
     \/ scene = "channel" /\ Ch!Next /\ UNCHANGED <<vars, sharingVars, identityVars>>
     \/ scene = "identity" /\ Id!Next /\ UNCHANGED <<vars, sharingVars, channelVars>>

MCSpec == MCInit /\ [][MCNext]_<<scene, vars, sharingVars, channelVars, identityVars>>

(* What clients and users approved is kept wherever the process dies: no   *)
(* approval or withdrawal reported done is lost to another one or to a     *)
(* crash, the file stays readable, and a server presents the identity that *)
(* was approved (approve, forget_trusted_server, load_or_create).          *)
NoChangeIsLost == NoLostChange /\ StoreReadable /\ Id!IdentityIsKept

(* Selection, watch channel and file agree after calls that did not        *)
(* overlap, and the file keeps the last start or stop even when they did   *)
(* (set_shared, restore, persist).                                         *)
SharingIsRemembered == Sh!SoloCallsAgree /\ Sh!EnabledChoiceIsStored

(* Server and client of one computer are on one channel between requests,  *)
(* but for the exceptions named in NetworkChannel (configure).             *)
OneChannel == Ch!OneChannel

(* The comment of SetNetworkChannel, which a request given up, a killed    *)
(* shaprintctl and a put-back that fails refute.                           *)
NeverDiverge == Ch!NeverDiverge

(* The identity outlives launches that overlap, which two daemons refute.  *)
IdentitySurvivesRaces == Id!IdentitySurvivesRaces

Symmetry ==
  Permutations(Requests) \cup Permutations(Addresses) \cup Permutations(Certs)
=============================================================================
