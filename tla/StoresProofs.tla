---------------------------- MODULE StoresProofs ----------------------------
(* Theorems about the four parts that keep on disk what a user chose or    *)
(* approved (ServerTrust, Sharing, NetworkChannel, Identity), for any      *)
(* number of requests, servers, certificates, queues and launches.         *)
EXTENDS MCStores, TLAPS

-----------------------------------------------------------------------------
(* ServerTrust.                                                            *)

(* Every certificate in a set of records was reviewed for its address.     *)
Reviewed(records) ==
  \A a \in Addresses : records[a] # NoCert => records[a] \in reviewed[a]

(* A request names an address, and where it works with a certificate, one  *)
(* that was reviewed; so was all that is, or is about to be, in the file.  *)
TrustInv ==
  /\ TypeOK
  /\ Reviewed(file) /\ Reviewed(tempData)
  /\ \A r \in Requests :
       /\ Reviewed(image[r])
       /\ rpc[r] # "idle" => addr[r] \in Addresses
       /\ rpc[r] \in {"observe", "approve", "connect", "exchange"} =>
            want[r] \in reviewed[addr[r]]

(* Until a request is given up, only the one that holds the lock has a     *)
(* thread; what that writes is the settled records but for one address.    *)
WriterInv ==
  ~givenUp =>
    /\ ~torn
    /\ \A r \in Requests :
         /\ rpc[r] = "persist" <=> locked = r
         /\ rpc[r] = "persist" <=> thread[r] # "none"
         /\ thread[r] = "rename" => temp = "whole" /\ tempData = image[r]
         /\ thread[r] = "done" => file = image[r]
         /\ thread[r] # "none" =>
              image[r] = [settled EXCEPT ![addr[r]] = image[r][addr[r]]]
    /\ (\A r \in Requests : thread[r] # "done") => file = settled


USE DEF vars, requestVars, fileVars, threadVars, ghostVars

LEMMA NoRecords == None \in Records /\ Reviewed(None)
BY DEF None, Records, Reviewed

LEMMA InitTrust == Init => TrustInv
<1> SUFFICES ASSUME Init PROVE TrustInv
  OBVIOUS
<1>1. TypeOK
  BY NoRecords DEF Init, TypeOK
<1>2. QED
  BY <1>1, NoRecords DEF Init, TrustInv

LEMMA InitWriter == Init => WriterInv
BY NobodyAssumption DEF Init, WriterInv

(* Records stay reviewed when one address gets a reviewed certificate, or  *)
(* none.                                                                   *)
LEMMA RecordsChange ==
  ASSUME NEW records \in Records, NEW a \in Addresses,
         NEW f \in Certs \cup {NoCert}
  PROVE  /\ [records EXCEPT ![a] = f] \in Records
         /\ Reviewed(records) /\ (f # NoCert => f \in reviewed[a]) =>
              Reviewed([records EXCEPT ![a] = f])
BY DEF Records, Reviewed

LEMMA EndTyped ==
  ASSUME TypeOK, NEW r \in Requests, End(r)
  PROVE  /\ rpc' \in [Requests -> {"idle", "observe", "approve", "forget",
                                   "persist", "pin", "connect", "exchange"}]
         /\ addr' \in [Requests -> Addresses \cup {NoAddress}]
         /\ want' \in [Requests -> Certs \cup {NoCert}]
BY DEF TypeOK, End, Goto

LEMMA StepTypes == TrustInv /\ [Next]_vars => TypeOK'
<1> SUFFICES ASSUME TrustInv, TypeOK, [Next]_vars PROVE TypeOK'
  BY DEF TrustInv
<1>1. ASSUME NEW r \in Requests, Approve(r) \/ Forget(r) \/ Forward(r)
      PROVE  TypeOK'
  BY <1>1 DEF TypeOK, Approve, Forget, Forward, Goto
<1>2. ASSUME NEW r \in Requests,
             Observe(r) \/ ReadPin(r) \/ Connect(r) \/ Exchanged(r)
      PROVE  TypeOK'
  <2>1. CASE End(r)
    BY <1>2, <2>1, EndTyped
    DEF TypeOK, Observe, ReadPin, Connect, Exchanged
  <2>2. CASE ~End(r)
    BY <1>2, <2>2
    DEF TypeOK, TrustInv, Observe, ReadPin, Connect, Exchanged, Goto, Records
  <2>3. QED
    BY <2>1, <2>2
<1>3. ASSUME NEW r \in Requests, Change(r) PROVE TypeOK'
  <2>1. addr[r] \in Addresses
    BY <1>3 DEF TrustInv, Change
  <2>2. settled' \in Records
    <3>1. [settled EXCEPT ![addr[r]] = NoCert] \in Records
      BY <2>1, RecordsChange DEF TypeOK
    <3>2. QED
      BY <1>3, <3>1, NoRecords DEF TypeOK, Change, Settle
  <2>3. CASE End(r) /\ UNCHANGED <<locked, threadVars>>
    BY <1>3, <2>2, <2>3, EndTyped DEF TypeOK, Change
  <2>4. CASE ~(End(r) /\ UNCHANGED <<locked, threadVars>>)
    <3>1. [file EXCEPT ![addr[r]] =
             IF rpc[r] = "approve" THEN want[r] ELSE NoCert] \in Records
      BY <2>1, RecordsChange DEF TypeOK
    <3>2. image' \in [Requests -> Records]
      BY <1>3, <2>4, <3>1 DEF TypeOK, Change
    <3>3. QED
      BY <1>3, <2>2, <2>4, <3>2 DEF TypeOK, Change, Goto
  <2>5. QED
    BY <2>3, <2>4
<1>4. ASSUME NEW r \in Requests, Persisted(r) PROVE TypeOK'
  <2>1. addr[r] \in Addresses
    BY <1>4 DEF TrustInv, Persisted
  <2>2. image[r] \in Records /\ image[r][addr[r]] \in Certs \cup {NoCert}
    BY <2>1 DEF TypeOK, Records
  <2>3. settled' \in Records
    BY <1>4, <2>1, <2>2, RecordsChange, NoRecords DEF TypeOK, Persisted, Settle
  <2>4. QED
    BY <1>4, <2>3, EndTyped, NoRecords DEF TypeOK, Persisted
<1>5. ASSUME NEW r \in Requests, OpenTemp(r) \/ WriteTemp(r) PROVE TypeOK'
  BY <1>5 DEF TypeOK, OpenTemp, WriteTemp
<1>6. ASSUME NEW r \in Requests, Rename(r) \/ PersistFails(r) PROVE TypeOK'
  BY <1>6, NoRecords DEF TypeOK, Rename, PersistFails, Outcome
<1>7. ASSUME NEW r \in Requests, GiveUp(r) PROVE TypeOK'
  BY <1>7, EndTyped, NoRecords DEF TypeOK, GiveUp, Unlocked
<1>8. CASE Restart
  BY <1>8, NoRecords DEF TypeOK, Restart, Settle
<1>9. CASE UNCHANGED vars
  BY <1>9 DEF TypeOK
<1>10. QED
  BY <1>1, <1>2, <1>3, <1>4, <1>5, <1>6, <1>7, <1>8, <1>9
  DEF Next, RequestStep

(* A request that ends names nothing any more; the others go on.           *)
Reviewing ==
  \A r \in Requests :
    /\ rpc[r] # "idle" => addr[r] \in Addresses
    /\ rpc[r] \in {"observe", "approve", "connect", "exchange"} =>
         want[r] \in reviewed[addr[r]]

LEMMA EndReviews ==
  ASSUME TrustInv, NEW r \in Requests, End(r), UNCHANGED reviewed
  PROVE  Reviewing'
BY DEF TrustInv, TypeOK, Reviewing, End, Goto

LEMMA StepReviewing == TrustInv /\ [Next]_vars => Reviewing'
<1> SUFFICES ASSUME TrustInv, [Next]_vars PROVE Reviewing'
  OBVIOUS
<1> USE DEF TrustInv, TypeOK, Reviewing, Goto
<1>1. ASSUME NEW r \in Requests, Approve(r) PROVE Reviewing'
  BY <1>1 DEF Approve
<1>2. ASSUME NEW r \in Requests, Forget(r) \/ Forward(r) PROVE Reviewing'
  BY <1>2 DEF Forget, Forward
<1>3. ASSUME NEW r \in Requests,
             Observe(r) \/ Connect(r) \/ Exchanged(r) \/ Persisted(r) \/ GiveUp(r)
      PROVE  Reviewing'
  BY <1>3, EndReviews DEF Observe, Connect, Exchanged, Persisted, GiveUp
<1>4. ASSUME NEW r \in Requests, ReadPin(r) PROVE Reviewing'
  BY <1>4, EndReviews DEF ReadPin, Reviewed
<1>5. ASSUME NEW r \in Requests, Change(r) PROVE Reviewing'
  BY <1>5, EndReviews DEF Change
<1>6. ASSUME NEW r \in Requests,
             OpenTemp(r) \/ WriteTemp(r) \/ Rename(r) \/ PersistFails(r)
      PROVE  Reviewing'
  BY <1>6 DEF OpenTemp, WriteTemp, Rename, PersistFails
<1>7. CASE Restart
  BY <1>7 DEF Restart
<1>8. CASE UNCHANGED vars
  BY <1>8
<1>9. QED
  BY <1>1, <1>2, <1>3, <1>4, <1>5, <1>6, <1>7, <1>8 DEF Next, RequestStep

(* What is in the file, or on its way there, is reviewed.                  *)
Written ==
  /\ Reviewed(file) /\ Reviewed(tempData)
  /\ \A r \in Requests : Reviewed(image[r])

LEMMA StepWritten == TrustInv /\ [Next]_vars => Written'
<1> SUFFICES ASSUME TrustInv, Written, [Next]_vars PROVE Written'
  BY DEF TrustInv, Written
<1>1. ASSUME NEW r \in Requests, Change(r) PROVE Written'
  <2>1. CASE UNCHANGED image
    BY <1>1, <2>1 DEF Change, Written, Reviewed
  <2>2. CASE ~UNCHANGED image
    <3> DEFINE f == IF rpc[r] = "approve" THEN want[r] ELSE NoCert
    <3>1. /\ addr[r] \in Addresses
          /\ f \in Certs \cup {NoCert}
          /\ f # NoCert => f \in reviewed[addr[r]]
      BY <1>1 DEF TrustInv, TypeOK, Change
    <3>2. Reviewed([file EXCEPT ![addr[r]] = f])
      BY <3>1, RecordsChange DEF TrustInv, TypeOK
    <3>3. image' = [image EXCEPT ![r] = [file EXCEPT ![addr[r]] = f]]
      BY <1>1, <2>2 DEF Change
    <3>4. UNCHANGED <<file, tempData, reviewed>>
      BY <1>1 DEF Change
    <3> HIDE DEF f
    <3>5. QED
      BY <3>2, <3>3, <3>4 DEF TrustInv, TypeOK, Written, Reviewed
  <2>3. QED
    BY <2>1, <2>2
<1>2. ASSUME NEW r \in Requests, Approve(r) PROVE Written'
  BY <1>2 DEF TrustInv, TypeOK, Approve, Written, Reviewed
<1>3. ASSUME NEW r \in Requests, Rename(r) \/ PersistFails(r) \/ GiveUp(r)
      PROVE  Written'
  BY <1>3, NoRecords
  DEF TrustInv, TypeOK, Rename, PersistFails, GiveUp, Outcome, Written,
      Reviewed
<1>4. ASSUME NEW r \in Requests, OpenTemp(r) \/ WriteTemp(r) \/ Persisted(r)
      PROVE  Written'
  BY <1>4, NoRecords
  DEF TrustInv, TypeOK, OpenTemp, WriteTemp, Persisted, Written, Reviewed
<1>5. ASSUME NEW r \in Requests,
             \/ Observe(r) \/ Forget(r) \/ Forward(r) \/ ReadPin(r)
             \/ Connect(r) \/ Exchanged(r)
      PROVE  Written'
  BY <1>5
  DEF Observe, Forget, Forward, ReadPin, Connect, Exchanged, Written, Reviewed
<1>6. CASE Restart
  BY <1>6, NoRecords DEF Restart, Written, Reviewed
<1>7. CASE UNCHANGED vars
  BY <1>7 DEF Written, Reviewed
<1>8. QED
  BY <1>1, <1>2, <1>3, <1>4, <1>5, <1>6, <1>7 DEF Next, RequestStep

LEMMA StepTrust == TrustInv /\ [Next]_vars => TrustInv'
BY StepTypes, StepReviewing, StepWritten DEF TrustInv, Reviewing, Written

LEMMA StepWriter == TrustInv /\ WriterInv /\ [Next]_vars => WriterInv'
<1> SUFFICES ASSUME TrustInv, WriterInv, [Next]_vars PROVE WriterInv'
  OBVIOUS
<1> USE NobodyAssumption DEF TrustInv, TypeOK, WriterInv, Records, Goto
<1>1. ASSUME NEW r \in Requests, Approve(r) \/ Forget(r) \/ Forward(r)
      PROVE  WriterInv'
  BY <1>1 DEF Approve, Forget, Forward
<1>2. ASSUME NEW r \in Requests,
             Observe(r) \/ ReadPin(r) \/ Connect(r) \/ Exchanged(r)
      PROVE  WriterInv'
  <2>1. CASE Observe(r)
    BY <2>1 DEF Observe, End
  <2>2. CASE ReadPin(r)
    BY <2>2 DEF ReadPin, End
  <2>3. CASE Connect(r)
    BY <2>3 DEF Connect, End
  <2>4. CASE Exchanged(r)
    BY <2>4 DEF Exchanged, End
  <2>5. QED
    BY <1>2, <2>1, <2>2, <2>3, <2>4
<1>3. ASSUME NEW r \in Requests, Change(r) PROVE WriterInv'
  BY <1>3, SMTT(20) DEF Change, End, Settle
<1>4. ASSUME NEW r \in Requests, Persisted(r) PROVE WriterInv'
  BY <1>4 DEF Persisted, End, Settle
<1>5. ASSUME NEW r \in Requests, OpenTemp(r) \/ WriteTemp(r)
      PROVE  WriterInv'
  BY <1>5 DEF OpenTemp, WriteTemp
<1>6. ASSUME NEW r \in Requests, Rename(r) \/ PersistFails(r)
      PROVE  WriterInv'
  BY <1>6 DEF Rename, PersistFails, Outcome
<1>7. CASE Restart
  BY <1>7 DEF Restart, Settle
<1>8. ASSUME NEW r \in Requests, GiveUp(r) PROVE WriterInv'
  BY <1>8 DEF GiveUp
<1>9. CASE UNCHANGED vars
  BY <1>9
<1>10. QED
  BY <1>1, <1>2, <1>3, <1>4, <1>5, <1>6, <1>7, <1>8, <1>9
  DEF Next, RequestStep

(* No certificate is pinned, or spoken to, that was not reviewed for the   *)
(* address, whatever the servers present, whichever requests overlap, are  *)
(* given up or die half way (approve, forward_ipp, persist).               *)
THEOREM PinsAreReviewed == Spec => []OnlyReviewedServers
<1>1. TrustInv => OnlyReviewedServers
  BY DEF TrustInv, Reviewed, OnlyReviewedServers
<1>2. QED
  BY InitTrust, StepTrust, <1>1, PTL DEF Spec

LEMMA WriterKeeps == WriterInv => NoLostChange /\ StoreReadable
BY DEF WriterInv, NoLostChange, StoreReadable

(* The trust file holds what was last reported done and can be read,       *)
(* wherever a process died between two steps of persist.                   *)
LEMMA TrustIsKept == Spec => [](NoLostChange /\ StoreReadable)
BY InitTrust, InitWriter, StepTrust, StepWriter, WriterKeeps, PTL DEF Spec

-----------------------------------------------------------------------------
(* Sharing.                                                                *)

(* Calls that will write the file before they end.                         *)
Persisting(c) ==
  shPc[c] \in {"store", "publish", "snapshot", "flag", "open", "write"}

(* While a call writes, the flag it read is the flag; a flag that is not   *)
(* in the file yet has a call that will write it.                          *)
FlagInv ==
  /\ \A c \in Requests :
       shPc[c] \in {"open", "write"} => shImage[c].enabled = enabled
  /\ ~failed /\ settings.form = "whole" =>
       \/ settings.holds.enabled = enabled
       \/ \E c \in Requests : Persisting(c)

MemoryAgrees == published = selection

FileAgrees ==
  settings.holds = [enabled |-> enabled, printers |-> selection]

(* A call that runs alone has brought so much together by now.             *)
SoloInv ==
  ~overlapped =>
    /\ \A c, d \in Requests : shPc[c] # "idle" /\ shPc[d] # "idle" => c = d
    /\ Sh!Quiet => MemoryAgrees /\ FileAgrees
    /\ \A c \in Requests :
         /\ shPc[c] \in {"check", "choose", "filter", "disable"} =>
              MemoryAgrees /\ FileAgrees
         /\ shPc[c] = "publish" => selection = ask[c]
         /\ shPc[c] \in {"snapshot", "flag", "open", "write"} => MemoryAgrees
         /\ shPc[c] \in {"flag", "open", "write"} =>
              shImage[c].printers = selection
         /\ shPc[c] = "write" => settings = Sh!Form("empty")

SharingInv == Sh!TypeOK /\ FlagInv /\ SoloInv


USE DEF Sh!vars, Sh!callVars

LEMMA DefaultTyped == Sh!Default \in Sh!Settings
BY DEF Sh!Default, Sh!Settings

LEMMA InitSharing == Sh!Init => SharingInv
<1> SUFFICES ASSUME Sh!Init PROVE SharingInv
  OBVIOUS
<1> USE DEF Sh!Init
<1>1. Sh!TypeOK
  BY DefaultTyped DEF Sh!TypeOK, Sh!Form
<1>2. FlagInv
  BY DEF FlagInv, Sh!Form
<1>3. SoloInv
  BY DEF SoloInv, MemoryAgrees, FileAgrees, Sh!Form, Sh!Default
<1>4. QED
  BY <1>1, <1>2, <1>3 DEF SharingInv

LEMMA CallEnds ==
  ASSUME Sh!TypeOK, NEW c \in Requests, Sh!End(c)
  PROVE  /\ shPc' = [shPc EXCEPT ![c] = "idle"]
         /\ ask' \in [Requests -> SUBSET Addresses]
         /\ wish' \in [Requests -> BOOLEAN]
         /\ shImage' \in [Requests -> Sh!Settings]
         /\ \A d \in Requests \ {c} : ask'[d] = ask[d] /\ shImage'[d] = shImage[d]
BY DefaultTyped DEF Sh!TypeOK, Sh!End, Sh!Goto

LEMMA StepShared == Sh!TypeOK /\ [Sh!Next]_(Sh!vars) => Sh!TypeOK'
<1> SUFFICES ASSUME Sh!TypeOK, [Sh!Next]_(Sh!vars) PROVE Sh!TypeOK'
  OBVIOUS
<1> USE DEF Sh!TypeOK, Sh!Goto
<1>1. ASSUME NEW c \in Requests,
             Sh!SetShared(c) \/ Sh!SetSharingEnabled(c) \/ Sh!Restore(c)
      PROVE  Sh!TypeOK'
  <2>1. CASE Sh!SetShared(c)
    BY <2>1, SMTT(20) DEF Sh!SetShared, Sh!Begin
  <2>2. CASE Sh!SetSharingEnabled(c)
    BY <2>2, SMTT(20) DEF Sh!SetSharingEnabled, Sh!Begin
  <2>3. CASE Sh!Restore(c)
    BY <2>3, SMTT(20) DEF Sh!Restore, Sh!Begin
  <2>4. QED
    BY <1>1, <2>1, <2>2, <2>3
<1>2. ASSUME NEW c \in Requests, Sh!Check(c) \/ Sh!Filter(c)
      PROVE  Sh!TypeOK'
  BY <1>2, CallEnds DEF Sh!Check, Sh!Filter
<1>3. ASSUME NEW c \in Requests, Sh!Store(c) \/ Sh!Publish(c)
      PROVE  Sh!TypeOK'
  BY <1>3 DEF Sh!Store, Sh!Publish
<1>4. ASSUME NEW c \in Requests, Sh!Choose(c) \/ Sh!Disable(c)
      PROVE  Sh!TypeOK'
  BY <1>4 DEF Sh!Choose, Sh!Disable
<1>5. ASSUME NEW c \in Requests,
             Sh!SnapshotSelection(c) \/ Sh!SnapshotEnabled(c)
      PROVE  Sh!TypeOK'
  <2>1. CASE Sh!SnapshotSelection(c)
    BY <2>1 DEF Sh!SnapshotSelection, Sh!Settings
  <2>2. CASE Sh!SnapshotEnabled(c)
    BY <2>2 DEF Sh!SnapshotEnabled, Sh!Settings
  <2>3. QED
    BY <1>5, <2>1, <2>2
<1>6. ASSUME NEW c \in Requests, Sh!Truncate(c) PROVE Sh!TypeOK'
  BY <1>6, DefaultTyped DEF Sh!Truncate, Sh!Form
<1>7. ASSUME NEW c \in Requests, Sh!WriteFile(c) \/ Sh!WriteFails(c)
      PROVE  Sh!TypeOK'
  <2>1. settings' \in {settings, Sh!Whole(shImage[c]), Sh!Form("mixed")}
    BY <1>7 DEF Sh!WriteFile, Sh!WriteFails
  <2>2. settings' \in [form : {"none", "empty", "mixed", "whole"},
                      holds : Sh!Settings]
    BY <2>1, DefaultTyped DEF Sh!Whole, Sh!Form
  <2>3. QED
    BY <1>7, <2>2, CallEnds DEF Sh!WriteFile, Sh!WriteFails
<1>8. CASE Sh!CatalogChanges
  BY <1>8 DEF Sh!CatalogChanges
<1>9. CASE Sh!CrashAndRestart
  BY <1>9, DefaultTyped DEF Sh!CrashAndRestart, Sh!Loaded, Sh!Settings
<1>10. CASE UNCHANGED Sh!vars
  BY <1>10
<1>11. QED
  BY <1>1, <1>2, <1>3, <1>4, <1>5, <1>6, <1>7, <1>8, <1>9, <1>10
  DEF Sh!Next, Sh!CallStep

LEMMA StepFlag == Sh!TypeOK /\ FlagInv /\ [Sh!Next]_(Sh!vars) => FlagInv'
<1> SUFFICES ASSUME Sh!TypeOK, FlagInv, [Sh!Next]_(Sh!vars) PROVE FlagInv'
  OBVIOUS
<1> USE DEF Sh!TypeOK, FlagInv, Persisting, Sh!Goto
<1>1. ASSUME NEW c \in Requests,
             Sh!SetShared(c) \/ Sh!SetSharingEnabled(c) \/ Sh!Restore(c)
      PROVE  FlagInv'
  BY <1>1 DEF Sh!SetShared, Sh!SetSharingEnabled, Sh!Restore, Sh!Begin
<1>2. ASSUME NEW c \in Requests, Sh!Check(c) \/ Sh!Filter(c)
      PROVE  FlagInv'
  BY <1>2, CallEnds DEF Sh!Check, Sh!Filter
<1>3. ASSUME NEW c \in Requests, Sh!Store(c) \/ Sh!Publish(c)
      PROVE  FlagInv'
  BY <1>3 DEF Sh!Store, Sh!Publish
<1>4. ASSUME NEW c \in Requests, Sh!Choose(c) \/ Sh!Disable(c)
      PROVE  FlagInv'
  BY <1>4 DEF Sh!Choose, Sh!Disable, Sh!NobodyWrites
<1>5. ASSUME NEW c \in Requests,
             Sh!SnapshotSelection(c) \/ Sh!SnapshotEnabled(c)
      PROVE  FlagInv'
  BY <1>5 DEF Sh!SnapshotSelection, Sh!SnapshotEnabled, Sh!Settings
<1>6. ASSUME NEW c \in Requests, Sh!Truncate(c) PROVE FlagInv'
  BY <1>6 DEF Sh!Truncate, Sh!Form
<1>7. ASSUME NEW c \in Requests, Sh!WriteFile(c) \/ Sh!WriteFails(c)
      PROVE  FlagInv'
  BY <1>7, CallEnds
  DEF Sh!WriteFile, Sh!WriteFails, Sh!Form, Sh!Whole
<1>8. CASE Sh!CatalogChanges
  BY <1>8 DEF Sh!CatalogChanges
<1>9. CASE Sh!CrashAndRestart
  BY <1>9 DEF Sh!CrashAndRestart, Sh!Loaded
<1>10. CASE UNCHANGED Sh!vars
  BY <1>10
<1>11. QED
  BY <1>1, <1>2, <1>3, <1>4, <1>5, <1>6, <1>7, <1>8, <1>9, <1>10
  DEF Sh!Next, Sh!CallStep

LEMMA StepSolo == Sh!TypeOK /\ FlagInv /\ SoloInv /\ [Sh!Next]_(Sh!vars) => SoloInv'
<1> SUFFICES ASSUME Sh!TypeOK, FlagInv, SoloInv, [Sh!Next]_(Sh!vars)
             PROVE  SoloInv'
  OBVIOUS
<1> USE DEF Sh!TypeOK, SoloInv, Sh!Quiet, Sh!Goto, MemoryAgrees, FileAgrees
<1>1. ASSUME NEW c \in Requests,
             Sh!SetShared(c) \/ Sh!SetSharingEnabled(c) \/ Sh!Restore(c)
      PROVE  SoloInv'
  <2>1. SUFFICES ASSUME ~overlapped' PROVE SoloInv'
    OBVIOUS
  <2>2. Sh!Begin(c, "check") \/ Sh!Begin(c, "choose") \/ Sh!Begin(c, "filter")
    BY <1>1 DEF Sh!SetShared, Sh!SetSharingEnabled, Sh!Restore
  <2>3. ~overlapped /\ Sh!Quiet /\ MemoryAgrees /\ FileAgrees
    BY <2>1, <2>2 DEF Sh!Begin
  <2>4. /\ shPc'[c] \in {"check", "choose", "filter"}
        /\ \A d \in Requests \ {c} : shPc'[d] = "idle"
    BY <2>2, <2>3 DEF Sh!Begin
  <2>5. QED
    BY <2>2, <2>3, <2>4 DEF Sh!Begin
<1>2. ASSUME NEW c \in Requests, Sh!Check(c) \/ Sh!Filter(c)
      PROVE  SoloInv'
  BY <1>2, CallEnds DEF Sh!Check, Sh!Filter
<1>3. ASSUME NEW c \in Requests, Sh!Store(c) \/ Sh!Publish(c)
      PROVE  SoloInv'
  BY <1>3 DEF Sh!Store, Sh!Publish
<1>4. ASSUME NEW c \in Requests, Sh!Choose(c) \/ Sh!Disable(c)
      PROVE  SoloInv'
  BY <1>4 DEF Sh!Choose, Sh!Disable
<1>5. ASSUME NEW c \in Requests,
             Sh!SnapshotSelection(c) \/ Sh!SnapshotEnabled(c)
      PROVE  SoloInv'
  <2>1. /\ Sh!SnapshotSelection(c) => shImage'[c].printers = selection
        /\ Sh!SnapshotEnabled(c) => shImage'[c].printers = shImage[c].printers
        /\ \A d \in Requests \ {c} : shImage'[d] = shImage[d]
    BY <1>5 DEF Sh!SnapshotSelection, Sh!SnapshotEnabled, Sh!Settings
  <2>2. /\ shPc' = [shPc EXCEPT ![c] =
                      IF shPc[c] = "snapshot" THEN "flag" ELSE "open"]
        /\ shPc[c] \in {"snapshot", "flag"}
        /\ UNCHANGED <<selection, enabled, published, settings, ask, overlapped>>
    BY <1>5 DEF Sh!SnapshotSelection, Sh!SnapshotEnabled
  <2>3. shPc[c] = "snapshot" <=> Sh!SnapshotSelection(c)
    BY <1>5 DEF Sh!SnapshotSelection, Sh!SnapshotEnabled
  <2>4. QED
    BY <1>5, <2>1, <2>2, <2>3
<1>6. ASSUME NEW c \in Requests, Sh!Truncate(c) PROVE SoloInv'
  BY <1>6 DEF Sh!Truncate
<1>7. ASSUME NEW c \in Requests, Sh!WriteFile(c) PROVE SoloInv'
  <2>1. SUFFICES ASSUME ~overlapped PROVE SoloInv'
    BY <1>7 DEF Sh!WriteFile
  <2>2. settings = Sh!Form("empty") /\ MemoryAgrees
        /\ shImage[c].printers = selection /\ shImage[c].enabled = enabled
    BY <1>7, <2>1 DEF Sh!WriteFile, FlagInv
  <2>3. shImage[c] = [enabled |-> enabled, printers |-> selection]
    BY <2>2 DEF Sh!Settings
  <2>4. settings'.holds = [enabled |-> enabled, printers |-> selection]
    BY <1>7, <2>2, <2>3 DEF Sh!WriteFile, Sh!Whole
  <2>5. \A d \in Requests : shPc'[d] = "idle"
    BY <1>7, <2>1, CallEnds DEF Sh!WriteFile
  <2>6. QED
    BY <1>7, <2>2, <2>4, <2>5 DEF Sh!WriteFile
<1>8. ASSUME NEW c \in Requests, Sh!WriteFails(c) PROVE SoloInv'
  BY <1>8 DEF Sh!WriteFails
<1>9. CASE Sh!CatalogChanges
  BY <1>9 DEF Sh!CatalogChanges
<1>10. CASE Sh!CrashAndRestart
  BY <1>10 DEF Sh!CrashAndRestart, Sh!Loaded, Sh!Settings
<1>11. CASE UNCHANGED Sh!vars
  BY <1>11
<1>12. QED
  BY <1>1, <1>2, <1>3, <1>4, <1>5, <1>6, <1>7, <1>8, <1>9, <1>10, <1>11
  DEF Sh!Next, Sh!CallStep

LEMMA SharingAgrees == SharingInv => SharingIsRemembered
BY DEF SharingInv, FlagInv, SoloInv, Persisting, MemoryAgrees, FileAgrees,
       SharingIsRemembered, Sh!SoloCallsAgree, Sh!EnabledChoiceIsStored,
       Sh!Quiet, Sh!Loaded

LEMMA SharingIsKept == Sh!Spec => []SharingIsRemembered
<1>1. SharingInv /\ [Sh!Next]_(Sh!vars) => SharingInv'
  BY StepShared, StepFlag, StepSolo DEF SharingInv
<1>2. QED
  BY InitSharing, <1>1, SharingAgrees, PTL DEF Sh!Spec

-----------------------------------------------------------------------------
(* NetworkChannel.                                                         *)

ChannelTypes ==
  /\ mode \in {"desktop", "machine", "private"}
  /\ credential \in Certs \cup {NoChannel}
  /\ chPc \in [Requests -> {"idle", "queued", "writing", "secret", "restore"}]
  /\ chThread \in [Requests ->
                     {"none", "credential", "verifier", "done", "failed"}]
  /\ chWant \in [Requests -> Certs \cup {NoChannel}]
  /\ previous \in [Requests -> Certs \cup {NoChannel}]
  /\ disturbed \in BOOLEAN

Configuring(s) == chPc[s] \in {"writing", "secret"}

(* Memory and the verifier file are of one channel.                        *)
InUse == verifier = client /\ stored = verifier

(* How far the change of the request that configures has got: the          *)
(* credential, the verifier file, the verifier in memory, the client.      *)
Progress(s) ==
  /\ chPc[s] = "writing" =>
       /\ chThread[s] # "none"
       /\ verifier = client
       /\ chThread[s] = "done" =>
            stored = chWant[s] /\ Ch!LoadedClient = chWant[s]
       /\ chThread[s] # "done" => stored = verifier
       /\ mode = "desktop" => chThread[s] # "credential"
       /\ mode = "desktop" /\ chThread[s] # "done" => secret = client
       /\ mode = "private" /\ chThread[s] \in {"credential", "failed"} =>
            credential = client
       /\ mode = "private" /\ chThread[s] = "verifier" =>
            credential = chWant[s]
  /\ chPc[s] = "secret" =>
       /\ verifier = chWant[s] /\ stored = chWant[s]
       /\ Ch!LoadedClient = chWant[s]
  /\ chThread[s] # "none" => chPc[s] = "writing"

(* Root writes the credential before it asks, and keeps the previous one.  *)
AskedByRoot(s) ==
  /\ chPc[s] \in {"queued", "writing"} => credential = chWant[s]
  /\ chPc[s] \in {"queued", "restore"} => InUse
  /\ chPc[s] \in {"queued", "writing", "restore"} => previous[s] = client

(* Requests that nobody disturbed configure one by one; root's come one by *)
(* one altogether.                                                         *)
ChannelInv ==
  /\ ChannelTypes
  /\ ~disturbed =>
       /\ \A s \in Requests : Progress(s)
       /\ mode # "machine" =>
            /\ \A s \in Requests : Configuring(s) => chLock = s
            /\ \A s \in Requests : chPc[s] # "restore"
            /\ (\A s \in Requests : ~Configuring(s)) =>
                 InUse /\ Ch!LoadedClient = client
       /\ mode = "machine" =>
            /\ \A s, t \in Requests :
                 chPc[s] # "idle" /\ chPc[t] # "idle" => s = t
            /\ \A s \in Requests : AskedByRoot(s)
            /\ (\A s \in Requests : chPc[s] = "idle") =>
                 InUse /\ credential = client


USE DEF Ch!vars, Ch!diskVars, Ch!memoryVars

LEMMA InitChannel == Ch!Init => ChannelInv
BY DEF Ch!Init, ChannelInv, ChannelTypes, Progress, AskedByRoot, InUse,
       Configuring, Ch!LoadedClient

LEMMA StepChannelTypes == ChannelTypes /\ [Ch!Next]_(Ch!vars) => ChannelTypes'
<1> SUFFICES ASSUME ChannelTypes, [Ch!Next]_(Ch!vars) PROVE ChannelTypes'
  OBVIOUS
<1> USE DEF ChannelTypes, Ch!Goto, Ch!Run, Ch!Refused
<1>1. ASSUME NEW s \in Requests, Ch!Set(s) PROVE ChannelTypes'
  BY <1>1 DEF Ch!Set
<1>2. ASSUME NEW s \in Requests,
             \/ Ch!Configure(s) \/ Ch!UseVerifier(s) \/ Ch!UseSecret(s)
             \/ Ch!Fail(s)
      PROVE  ChannelTypes'
  BY <1>2 DEF Ch!Configure, Ch!UseVerifier, Ch!UseSecret, Ch!Fail
<1>3. ASSUME NEW s \in Requests,
             Ch!PersistCredential(s) \/ Ch!PersistVerifier(s)
      PROVE  ChannelTypes'
  BY <1>3 DEF Ch!PersistCredential, Ch!PersistVerifier
<1>4. ASSUME NEW s \in Requests,
             \/ Ch!GiveUp(s) \/ Ch!ThreadEnds(s) \/ Ch!PutBack(s)
             \/ Ch!Unreached(s) \/ Ch!NotPutBack(s)
      PROVE  ChannelTypes'
  BY <1>4 DEF Ch!GiveUp, Ch!ThreadEnds, Ch!PutBack, Ch!Unreached, Ch!NotPutBack
<1>5. CASE Ch!Restart
  BY <1>5 DEF Ch!Restart
<1>6. CASE UNCHANGED Ch!vars
  BY <1>6
<1>7. QED
  BY <1>1, <1>2, <1>3, <1>4, <1>5, <1>6 DEF Ch!Next

LEMMA StepChannel == ChannelInv /\ [Ch!Next]_(Ch!vars) => ChannelInv'
<1> SUFFICES ASSUME ChannelInv, ChannelTypes', [Ch!Next]_(Ch!vars), ~disturbed'
             PROVE  ChannelInv'
  BY StepChannelTypes DEF ChannelInv
<1> USE NobodyAssumption
    DEF ChannelInv, ChannelTypes, Progress, AskedByRoot, InUse, Configuring,
        Ch!LoadedClient, Ch!Goto, Ch!Run, Ch!Refused, Ch!Nobody, Nobody
<1>1. ASSUME NEW s \in Requests, Ch!Set(s) PROVE ChannelInv'
  <2>1. CASE mode = "machine"
    <3>1. Ch!Quiet
      BY <1>1, <2>1 DEF Ch!Set
    <3>2. InUse /\ credential = client
      BY <2>1, <3>1, <1>1 DEF Ch!Set, Ch!Quiet
    <3>3. /\ credential' = chWant'[s] /\ previous'[s] = client
          /\ chPc'[s] = "queued" /\ UNCHANGED chThread
          /\ \A t \in Requests \ {s} : chPc'[t] = "idle"
      BY <1>1, <2>1, <3>1, <3>2 DEF Ch!Set, Ch!Quiet
    <3>4. QED
      BY <1>1, <2>1, <3>1, <3>2, <3>3 DEF Ch!Set, Ch!Quiet
  <2>2. CASE mode # "machine"
    BY <1>1, <2>2 DEF Ch!Set
  <2>3. QED
    BY <2>1, <2>2
<1>2. ASSUME NEW s \in Requests, Ch!Configure(s) PROVE ChannelInv'
  BY <1>2 DEF Ch!Configure
<1>3. ASSUME NEW s \in Requests, Ch!PersistCredential(s) PROVE ChannelInv'
  BY <1>3 DEF Ch!PersistCredential
<1>4. ASSUME NEW s \in Requests, Ch!PersistVerifier(s) PROVE ChannelInv'
  BY <1>4 DEF Ch!PersistVerifier
<1>5. ASSUME NEW s \in Requests, Ch!UseVerifier(s) PROVE ChannelInv'
  BY <1>5 DEF Ch!UseVerifier
<1>6. ASSUME NEW s \in Requests, Ch!UseSecret(s) PROVE ChannelInv'
  BY <1>6 DEF Ch!UseSecret
<1>7. ASSUME NEW s \in Requests, Ch!Fail(s) PROVE ChannelInv'
  BY <1>7 DEF Ch!Fail
<1>8. ASSUME NEW s \in Requests,
             \/ Ch!GiveUp(s) \/ Ch!ThreadEnds(s)
             \/ Ch!Unreached(s) \/ Ch!NotPutBack(s)
      PROVE  ChannelInv'
  BY <1>8 DEF Ch!GiveUp, Ch!ThreadEnds, Ch!Unreached, Ch!NotPutBack
<1>9. ASSUME NEW s \in Requests, Ch!PutBack(s) PROVE ChannelInv'
  BY <1>9 DEF Ch!PutBack
<1>10. CASE Ch!Restart
  <2>1. /\ ~disturbed /\ (mode # "desktop" => Ch!Quiet)
        /\ UNCHANGED <<mode, credential, stored, secret, chWant, previous>>
        /\ verifier' = stored
        /\ client' = IF mode = "desktop" THEN secret ELSE credential
    BY <1>10 DEF Ch!Restart
  <2>2. /\ \A s \in Requests :
             chPc'[s] = IF chPc[s] \in {"idle", "restore"} THEN chPc[s] ELSE Ch!Refused
        /\ \A s \in Requests : chThread'[s] = "none"
    BY <1>10 DEF Ch!Restart
  <2>3. CASE mode = "machine"
    <3>1. \A s \in Requests : chPc[s] = "idle"
      BY <2>1, <2>3 DEF Ch!Quiet
    <3>2. \A s \in Requests : chPc'[s] = "idle"
      BY <2>2, <3>1
    <3>3. InUse /\ credential = client
      BY <2>1, <2>3, <3>1
    <3>4. \A s \in Requests : Progress(s)' /\ AskedByRoot(s)'
      BY <2>2, <3>2
    <3>5. InUse' /\ credential' = client'
      BY <2>1, <2>3, <3>3
    <3>6. QED
      BY <2>1, <2>3, <3>2, <3>4, <3>5
  <2>4. CASE mode # "machine"
    <3>1. \A s \in Requests : chPc'[s] = "idle"
      <4>1. \A s \in Requests : chPc[s] # "restore"
        BY <2>1, <2>4
      <4>2. QED
        BY <2>2, <2>4, <4>1
    <3>2. stored = IF mode = "desktop" THEN secret ELSE credential
      <4>1. CASE \A s \in Requests : ~Configuring(s)
        BY <2>1, <2>4, <4>1
      <4>2. CASE \E s \in Requests : Configuring(s)
        <5>1. PICK s \in Requests : Configuring(s)
          BY <4>2
        <5>2. mode = "desktop"
          BY <2>1, <5>1 DEF Ch!Quiet
        <5>3. Progress(s)
          BY <2>1
        <5>4. CASE chPc[s] = "secret" \/ chThread[s] = "done"
          BY <5>1, <5>2, <5>3, <5>4
        <5>5. CASE chPc[s] = "writing" /\ chThread[s] # "done"
          BY <5>2, <5>3, <5>5
        <5>6. QED
          BY <5>1, <5>4, <5>5
      <4>3. QED
        BY <4>1, <4>2
    <3>3. \A s \in Requests : Progress(s)'
      BY <2>2, <3>1
    <3>4. InUse' /\ Ch!LoadedClient' = client'
      BY <2>1, <3>2
    <3>5. QED
      BY <2>1, <2>4, <3>1, <3>3, <3>4
  <2>5. QED
    BY <2>3, <2>4
<1>11. CASE UNCHANGED Ch!vars
  BY <1>11
<1>12. QED
  BY <1>1, <1>2, <1>3, <1>4, <1>5, <1>6, <1>7, <1>8, <1>9, <1>10, <1>11
  DEF Ch!Next

LEMMA ChannelAgrees == ChannelInv => OneChannel
BY DEF ChannelInv, OneChannel, Ch!OneChannel, Ch!Quiet, InUse, Configuring,
       ChannelTypes, Ch!LoadedClient

LEMMA ChannelIsOne == Ch!Spec => []OneChannel
BY InitChannel, StepChannel, ChannelAgrees, PTL DEF Ch!Spec

-----------------------------------------------------------------------------
(* Identity.                                                               *)

(* Launches that do not overlap make one identity at most: a certificate   *)
(* file is there only with its key, and nothing was presented without it.  *)
IdentityInv ==
  /\ idCert \in Nat /\ idKey \in Nat /\ made \in Nat
  /\ idAt \in [Requests -> {"off", "look", "key", "cert", "remove", "up"}]
  /\ own \in [Requests -> [cert : Nat, key : Nat]]
  /\ raced \in BOOLEAN
  /\ ~raced =>
       /\ \A p, q \in Requests :
            idAt[p] \notin {"off", "up"} /\ idAt[q] \notin {"off", "up"} => p = q
       /\ idCert # Id!None => idCert = idKey
       /\ presented \subseteq {idCert} \ {Id!None}
       /\ \A p \in Requests :
            /\ idAt[p] \in {"key", "cert", "remove"} => idCert = Id!None
            /\ idAt[p] \in {"key", "cert", "up"} => own[p].cert = own[p].key
            /\ idAt[p] \in {"key", "cert"} => own[p].cert # Id!None
            /\ idAt[p] = "cert" => idKey = own[p].key

USE DEF Id!vars

LEMMA InitIdentity == Id!Init => IdentityInv
<1> SUFFICES ASSUME Id!Init PROVE IdentityInv
  OBVIOUS
<1>1. own \in [Requests -> [cert : Nat, key : Nat]]
  BY DEF Id!Init, Id!None
<1>2. QED
  BY <1>1 DEF Id!Init, IdentityInv, Id!None

LEMMA StepIdentity == IdentityInv /\ [Id!Next]_(Id!vars) => IdentityInv'
<1> SUFFICES ASSUME IdentityInv, [Id!Next]_(Id!vars) PROVE IdentityInv'
  OBVIOUS
<1> USE DEF IdentityInv, Id!None, Id!Goto
<1>1. ASSUME NEW p \in Requests, Id!Launch(p) PROVE IdentityInv'
  BY <1>1 DEF Id!Launch
<1>2. ASSUME NEW p \in Requests, Id!Look(p) PROVE IdentityInv'
  BY <1>2 DEF Id!Look, Id!Up
<1>3. ASSUME NEW p \in Requests, Id!WriteKey(p) PROVE IdentityInv'
  BY <1>3 DEF Id!WriteKey
<1>4. ASSUME NEW p \in Requests, Id!WriteCert(p) PROVE IdentityInv'
  BY <1>4 DEF Id!WriteCert, Id!Up
<1>5. ASSUME NEW p \in Requests, Id!RemoveKey(p) \/ Id!End(p)
      PROVE  IdentityInv'
  BY <1>5 DEF Id!RemoveKey, Id!End
<1>6. CASE UNCHANGED Id!vars
  BY <1>6
<1>7. QED
  BY <1>1, <1>2, <1>3, <1>4, <1>5, <1>6 DEF Id!Next

LEMMA IdentityAgrees == IdentityInv => Id!IdentityIsKept
<1> SUFFICES ASSUME IdentityInv, ~raced PROVE Id!IdentityIsKept
  BY DEF Id!IdentityIsKept
<1>1. presented = {} \/ (presented = {idCert} /\ idCert # Id!None)
  BY DEF IdentityInv
<1>2. Id!OneIdentity
  BY <1>1 DEF Id!OneIdentity
<1>3. \A p \in Requests : idAt[p] = "up" => own[p].cert = own[p].key
  BY DEF IdentityInv
<1>4. presented # {} => presented = {idCert} /\ idCert = idKey
  BY <1>1 DEF IdentityInv
<1>5. QED
  BY <1>2, <1>3, <1>4 DEF Id!IdentityIsKept

LEMMA IdentityStays == Id!Spec => []Id!IdentityIsKept
BY InitIdentity, StepIdentity, IdentityAgrees, PTL DEF Id!Spec

-----------------------------------------------------------------------------
(* The four parts side by side.                                            *)

LEMMA PartsStart == MCInit => Init /\ Sh!Init /\ Ch!Init /\ Id!Init
BY DEF MCInit

LEMMA PartsStep ==
  [MCNext]_<<scene, vars, sharingVars, channelVars, identityVars>> =>
    [Next]_vars /\ [Sh!Next]_(Sh!vars) /\ [Ch!Next]_(Ch!vars)
      /\ [Id!Next]_(Id!vars)
BY DEF MCNext, sharingVars, channelVars, identityVars

(* Each part behaves as it does alone.                                     *)
LEMMA Parts == MCSpec => Spec /\ Sh!Spec /\ Ch!Spec /\ Id!Spec
BY PartsStart, PartsStep, PTL DEF MCSpec, Spec, Sh!Spec, Ch!Spec, Id!Spec

(* No approval, withdrawal or identity that was reported done is lost to   *)
(* another request or to a process that dies, unless a request was given   *)
(* up (approvals) or launches overlapped (the identity) (approve,          *)
(* forget_trusted_server, load_or_create).                                 *)
THEOREM ChangesAreKept == MCSpec => []NoChangeIsLost
BY Parts, TrustIsKept, IdentityStays, PTL DEF NoChangeIsLost

(* Selection, watch channel and file agree after calls that did not        *)
(* overlap; the file keeps the last start or stop even when they did       *)
(* (set_shared, set_sharing_enabled, restore, persist).                    *)
THEOREM SharingStays == MCSpec => []SharingIsRemembered
BY Parts, SharingIsKept, PTL

(* Server and client of one computer are on one channel between requests,  *)
(* and would be after a restart, except after the disturbances that        *)
(* OneChannel names (NetworkChannel::configure, SetNetworkChannel).        *)
THEOREM ChannelsAgree == MCSpec => []OneChannel
BY Parts, ChannelIsOne, PTL
=============================================================================
