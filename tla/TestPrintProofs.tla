--------------------------- MODULE TestPrintProofs ---------------------------
(* Theorems about the guided test print and about the submissions of every *)
(* kind (MCTestPrint, whose two scenes are TestPrint and NativePrint), for *)
(* any number of callers, media sizes, sessions and runs.                  *)
EXTENDS MCTestPrint, TLAPS

-----------------------------------------------------------------------------
(* Submissions.                                                            *)

Submissions ==
  [pc : {"idle", "decode", "media", "queue", "jobs", "create", "stream",
         "finish", "ended"},
   kind : Kinds, media : Media \cup {NoMedia},
   job : {"none", "open", "purged", "complete"},
   result : {NoResult, "ok", "error", "accepted", "rejected", "uncertain"}]

(* There is a result once the thread has ended, and it is true.            *)
Truthful(s) ==
  /\ s.pc # "ended" => s.result = NoResult
  /\ s.pc = "ended" => s.result \in
       IF s.kind \in Tests THEN {"accepted", "rejected", "uncertain"}
                            ELSE {"ok", "error"}
  /\ s.result \in {"ok", "accepted"} => s.job = "complete"
  /\ s.result = "rejected" => s.job # "complete"

NativeInv == NativeTypeOK /\ \A o \in Owners : Truthful(sub[o])

LEMMA InitNative == NativeInit => NativeInv
BY DEF NativeInit, NativeInv, NativeTypeOK, Truthful, Idle, Kinds, Tests, Queues,
       Working, NoResult

(* A submission s goes on as new: the same document, one step further.     *)
Follows(s, new) ==
  /\ new \in Submissions /\ Truthful(new)
  /\ s.pc \notin {"idle", "ended"} /\ new.pc # "idle"
  /\ new.kind = s.kind /\ new.media = s.media

LEMMA SpoolerMoves ==
  ASSUME NativeInv, NEW o \in Owners, SpoolerStep(o)
  PROVE  /\ UNCHANGED <<queue, default>>
         /\ sub' = [sub EXCEPT ![o] = sub'[o]]
         /\ Follows(sub[o], sub'[o])
<1> USE DEF NativeInv, NativeTypeOK, Submissions, Truthful, Follows, To, End,
            Refuse, Same, Tests, NoResult
<1>1. CASE Decode(o)
  BY <1>1 DEF Decode
<1>2. CASE RecheckMedia(o)
  BY <1>2 DEF RecheckMedia
<1>3. CASE Destination(o)
  BY <1>3 DEF Destination
<1>4. CASE CountJobs(o)
  BY <1>4 DEF CountJobs
<1>5. CASE Create(o)
  BY <1>5 DEF Create
<1>6. CASE WriteChunks(o) \/ DrawPages(o)
  BY <1>6 DEF WriteChunks, DrawPages, Failure
<1>7. CASE Finish(o)
  BY <1>7 DEF Finish, Failure
<1>8. QED
  BY <1>1, <1>2, <1>3, <1>4, <1>5, <1>6, <1>7 DEF SpoolerStep

LEMMA BeginKeepsNative ==
  ASSUME NativeInv, NEW o \in Owners, NEW kind \in Kinds,
         NEW media \in Media \cup {NoMedia}, Begin(o, kind, media),
         UNCHANGED <<queue, default>>
  PROVE  NativeInv'
BY DEF NativeInv, NativeTypeOK, Truthful, Begin, Idle, Kinds, Tests, NoResult

LEMMA SpoolerKeepsNative ==
  ASSUME NativeInv, NEW o \in Owners, SpoolerStep(o)
  PROVE  NativeInv'
BY SpoolerMoves DEF NativeInv, NativeTypeOK, Follows, Submissions

LEMMA OutsideKeepsNative == NativeInv /\ Outside => NativeInv'
BY DEF NativeInv, NativeTypeOK, Outside, Truthful, Queues, Working

LEMMA StepNative == NativeInv /\ [NativeNext]_nativeVars => NativeInv'
<1> SUFFICES ASSUME NativeInv, [NativeNext]_nativeVars PROVE NativeInv'
  OBVIOUS
<1>1. CASE NativeNext
  BY <1>1, BeginKeepsNative, SpoolerKeepsNative, OutsideKeepsNative
  DEF NativeNext, Same
<1>2. CASE UNCHANGED nativeVars
  BY <1>2 DEF nativeVars, NativeInv, NativeTypeOK, Truthful
<1>3. QED
  BY <1>1, <1>2

-----------------------------------------------------------------------------
(* The guided test print.                                                  *)

Findings ==
  Required \cup Blocking \cup {"ProxyStopped", "ChannelConfiguredUnobserved"}

Sessions ==
  [id : 1..MaxSessions, run : 0..MaxRuns,
   submission : {"not-sent", "checking", "accepted", "rejected", "uncertain",
                 "blocked"},
   media : Media \cup {NoMedia}, eligible : BOOLEAN, ready : BOOLEAN,
   physical : {"unconfirmed", "observed"}]

Calls ==
  [pc : {"idle", "opened", "inspecting", "media", "settle", "waiting"},
   id : 0..MaxSessions, run : 0..MaxRuns, send : BOOLEAN,
   shown : Media \cup {NoMedia}, found : SUBSET Findings,
   media : Media \cup {NoMedia}]

SessionOK ==
  /\ session = NoSession \/ session \in Sessions
  /\ nextId \in 1..(MaxSessions + 1) /\ submitting \in BOOLEAN

CallsOK == call \in [Callers -> Calls]

(* A send holds the SubmissionGuard before its submission begins; then     *)
(* the submission does, which may outlive its call.                        *)
Sending(k) == k.send /\ k.pc # "waiting"
Holds(c)   == UnderWay(c) \/ Sending(call[c])

(* The guard has one holder, and only while the flag is set.               *)
GuardInv ==
  /\ \A c \in Callers : Holds(c) => submitting
  /\ \A c, d \in Callers : Holds(c) /\ Holds(d) => c = d

(* A call that is not waiting for a submission has none under way.         *)
InOrder(c, k) ==
  /\ k.pc \notin {"idle", "waiting"} => ~UnderWay(c)
  /\ k.send => k.pc \notin {"idle", "opened"}
  /\ k.pc = "waiting" => sub[c].media = k.shown /\ sub[c].kind \in Tests

CallsInOrder == \A c \in Callers : InOrder(c, call[c])

(* A session that offers a send sees no submission.                        *)
OfferInv == session # NoSession /\ session.ready => ~submitting

GuidedInv ==
  /\ NativeInv /\ SessionOK /\ CallsOK
  /\ GuardInv /\ CallsInOrder /\ OfferInv

LEMMA FindingsFound ==
  /\ \A q, t : QueueFindings(q) \cup ServerFindings(t) \in SUBSET Findings
  /\ {"ChannelNotApplicable"} \in SUBSET Findings /\ {} \in SUBSET Findings
BY DEF QueueFindings, ServerFindings, Findings, Required, Blocking

LEMMA NoCallOK ==
  /\ NoCall \in Calls /\ ~Sending(NoCall) /\ \A c : InOrder(c, NoCall)
<1>1. 0 \in 0..MaxSessions /\ 0 \in 0..MaxRuns
  BY BoundsAssumption
<1>2. QED
  BY <1>1, FindingsFound DEF NoCall, Calls, Sending, InOrder

(* What open, refresh and send begin with.                                 *)
LEMMA NewCalls ==
  ASSUME NEW id \in 0..MaxSessions
  PROVE  /\ [NoCall EXCEPT !.pc = "opened", !.id = id] \in Calls
         /\ \A run \in 0..MaxRuns :
              [NoCall EXCEPT !.pc = "inspecting", !.id = id, !.run = run] \in Calls
         /\ \A run \in 0..MaxRuns, media \in Media \cup {NoMedia} :
              [NoCall EXCEPT !.pc = "inspecting", !.id = id, !.run = run,
                             !.send = TRUE, !.shown = media] \in Calls
<1>1. 0 \in 0..MaxRuns /\ {} \in SUBSET Findings
  BY BoundsAssumption
<1>2. QED
  BY <1>1 DEF NoCall, Calls

LEMMA NativeStays == NativeInv /\ UNCHANGED nativeVars => NativeInv'
BY DEF NativeInv, NativeTypeOK, Truthful, nativeVars

(* One call goes on as new.                                                *)
LEMMA CallMoves ==
  ASSUME CallsOK, CallsInOrder, NEW c \in Callers, NEW new \in Calls,
         call' = [call EXCEPT ![c] = new], UNCHANGED sub, InOrder(c, new)
  PROVE  CallsOK' /\ CallsInOrder'
BY DEF CallsOK, CallsInOrder, InOrder, UnderWay

(* It holds the guard only if it did, or took it with the flag.            *)
LEMMA GuardMoves ==
  ASSUME CallsOK, CallsInOrder, GuardInv, NEW c \in Callers, NEW new \in Calls,
         call' = [call EXCEPT ![c] = new], UNCHANGED sub,
         \/ submitting' = submitting /\ (Sending(new) => Sending(call[c]))
         \/ ~submitting /\ submitting'
         \/ Sending(call[c]) /\ ~Sending(new)
  PROVE  GuardInv'
<1>1. \A d \in Callers : Sending(call'[d]) = IF d = c THEN Sending(new) ELSE Sending(call[d])
  BY DEF CallsOK
<1>2. \A d \in Callers : UnderWay(d)' = UnderWay(d)
  BY DEF UnderWay
<1>3. Sending(call[c]) => ~UnderWay(c)
  BY DEF CallsInOrder, InOrder, Sending, CallsOK, Calls
<1>4. QED
  BY <1>1, <1>2, <1>3 DEF GuardInv, Holds

LEMMA InitGuided == Init => GuidedInv
<1> SUFFICES ASSUME Init PROVE GuidedInv
  OBVIOUS
<1>1. NativeInv /\ SessionOK
  <2>1. nextId \in 1..(MaxSessions + 1)
    BY BoundsAssumption DEF Init
  <2>2. QED
    BY <2>1, InitNative DEF Init, SessionOK
<1>2. \A c \in Callers : ~UnderWay(c)
  BY DEF Init, NativeInit, UnderWay, Idle, Callers
<1>3. CallsOK /\ GuardInv /\ CallsInOrder /\ OfferInv
  BY <1>2, NoCallOK
  DEF Init, CallsOK, GuardInv, CallsInOrder, InOrder, OfferInv, Holds, Sending
<1>4. QED
  BY <1>1, <1>3 DEF GuidedInv

LEMMA StepGuided == GuidedInv /\ [Next]_vars => GuidedInv'
<1> SUFFICES ASSUME GuidedInv, [Next]_vars PROVE GuidedInv'
  OBVIOUS
<1> USE BoundsAssumption, NoCallOK, NativeStays DEF GuidedInv, nativeVars
<1>1. ASSUME NEW c \in Callers, Open(c) PROVE GuidedInv'
  <2> DEFINE new == [NoCall EXCEPT !.pc = "opened", !.id = nextId]
  <2>1. nextId \in 1..MaxSessions /\ 0 \in 0..MaxRuns
    BY <1>1 DEF Open, SessionOK
  <2>2. SessionOK' /\ OfferInv'
    BY <1>1, <2>1 DEF Open, SessionOK, Sessions, OfferInv
  <2>3. new \in Calls /\ ~Sending(new)
    <3>1. nextId \in 0..MaxSessions
      BY <2>1
    <3>2. new \in Calls
      BY <3>1, NewCalls
    <3>3. QED
      BY <3>2 DEF NoCall, Sending
  <2>4. InOrder(c, new)
    BY <1>1 DEF Open, CanCall, InOrder, NoCall, UnderWay
  <2>5. CallsOK' /\ CallsInOrder' /\ GuardInv'
    BY <1>1, <2>3, <2>4, CallMoves, GuardMoves DEF Open
  <2>6. QED
    BY <1>1, <2>2, <2>5 DEF Open
<1>2. ASSUME NEW c \in Callers, Close(c) \/ Confirm(c) PROVE GuidedInv'
  <2>1. SessionOK' /\ OfferInv'
    BY <1>2 DEF Close, Confirm, SessionOK, Sessions, OfferInv
  <2>2. QED
    BY <1>2, <2>1
    DEF Close, Confirm, CallsOK, CallsInOrder, GuardInv, InOrder, Holds, UnderWay
<1>3. ASSUME NEW c \in Callers, Refresh(c) PROVE GuidedInv'
  <2> PICK id \in Known :
        /\ (call[c].pc = "opened" /\ id = call[c].id) \/ CanCall(c)
        /\ IF session # NoSession /\ session.id = id
                /\ session.submission # "checking" /\ session.run < MaxRuns
             THEN /\ session' = [session EXCEPT !.ready = FALSE, !.run = @ + 1]
                  /\ call' = [call EXCEPT ![c] =
                       [NoCall EXCEPT !.pc = "inspecting", !.id = id,
                                      !.run = session.run + 1]]
             ELSE call[c].pc = "opened" /\ Return(c) /\ UNCHANGED session
    BY <1>3 DEF Refresh
  <2>1. CASE UNCHANGED session /\ Return(c)
    <3>1. CallsOK' /\ CallsInOrder' /\ GuardInv'
      BY <1>3, <2>1, CallMoves, GuardMoves DEF Refresh, Return
    <3>2. QED
      BY <1>3, <2>1, <3>1 DEF Refresh, SessionOK, OfferInv
  <2>2. CASE /\ session # NoSession /\ session.id = id /\ session.run < MaxRuns
             /\ session' = [session EXCEPT !.ready = FALSE, !.run = @ + 1]
             /\ call' = [call EXCEPT ![c] =
                  [NoCall EXCEPT !.pc = "inspecting", !.id = id,
                                 !.run = session.run + 1]]
    <3> DEFINE new == [NoCall EXCEPT !.pc = "inspecting", !.id = id,
                                     !.run = session.run + 1]
    <3>1. session \in Sessions /\ session.run + 1 \in 0..MaxRuns
      BY <2>2 DEF SessionOK, Sessions
    <3>2. SessionOK' /\ OfferInv'
      BY <1>3, <2>2, <3>1 DEF Refresh, SessionOK, Sessions, OfferInv
    <3>3. new \in Calls /\ ~Sending(new)
      <4>1. id \in 0..MaxSessions
        BY <2>2, <3>1 DEF Sessions
      <4>2. new \in Calls
        BY <3>1, <4>1, NewCalls
      <4>3. QED
        BY <4>2 DEF NoCall, Sending
    <3>4. InOrder(c, new)
      BY DEF InOrder, NoCall, CallsInOrder, CanCall, UnderWay
    <3>5. CallsOK' /\ CallsInOrder' /\ GuardInv'
      BY <1>3, <2>2, <3>3, <3>4, CallMoves, GuardMoves DEF Refresh
    <3>6. QED
      BY <1>3, <3>2, <3>5 DEF Refresh
  <2>3. QED
    BY <2>1, <2>2
<1>4. ASSUME NEW c \in Callers, Send(c) PROVE GuidedInv'
  <2> DEFINE new == [NoCall EXCEPT !.pc = "inspecting", !.id = session.id,
                                   !.run = session.run + 1, !.send = TRUE,
                                   !.shown = session.media]
  <2>1. session \in Sessions /\ session.run + 1 \in 0..MaxRuns
    BY <1>4 DEF Send, SessionOK, Sessions
  <2>2. SessionOK' /\ OfferInv'
    BY <1>4, <2>1 DEF Send, SessionOK, Sessions, OfferInv
  <2>3. new \in Calls
    <3>1. session.id \in 0..MaxSessions /\ session.media \in Media \cup {NoMedia}
      BY <2>1 DEF Sessions
    <3>2. QED
      BY <2>1, <3>1, NewCalls
  <2>4. InOrder(c, new)
    BY <1>4 DEF Send, CanCall, InOrder, NoCall, UnderWay
  <2>5. CallsOK' /\ CallsInOrder' /\ GuardInv'
    BY <1>4, <2>3, <2>4, CallMoves, GuardMoves DEF Send
  <2>6. QED
    BY <1>4, <2>2, <2>5 DEF Send
<1>5. ASSUME NEW c \in Callers, Inspect(c) PROVE GuidedInv'
  <2> PICK found \in SUBSET Findings :
        call' = [call EXCEPT ![c].pc = "media", ![c].found = found]
    BY <1>5, FindingsFound DEF Inspect
  <2> DEFINE new == [call[c] EXCEPT !.pc = "media", !.found = found]
  <2>1. call' = [call EXCEPT ![c] = new] /\ new \in Calls /\ InOrder(c, new)
    BY <1>5 DEF Inspect, CallsOK, Calls, CallsInOrder, InOrder
  <2>2. Sending(new) => Sending(call[c])
    BY <1>5 DEF Inspect, Sending, CallsOK, Calls
  <2>3. CallsOK' /\ CallsInOrder' /\ GuardInv'
    BY <1>5, <2>1, <2>2, CallMoves, GuardMoves DEF Inspect
  <2>4. QED
    BY <1>5, <2>3 DEF Inspect, SessionOK, OfferInv
<1>6. ASSUME NEW c \in Callers, InspectMedia(c) PROVE GuidedInv'
  <2> PICK m \in Media \cup {NoMedia} :
        call' = [call EXCEPT ![c].pc = "settle", ![c].media = m]
    BY <1>6 DEF InspectMedia, ReadDefault, NativeInv, NativeTypeOK
  <2> DEFINE new == [call[c] EXCEPT !.pc = "settle", !.media = m]
  <2>1. call' = [call EXCEPT ![c] = new] /\ new \in Calls /\ InOrder(c, new)
    BY <1>6 DEF InspectMedia, CallsOK, Calls, CallsInOrder, InOrder
  <2>2. Sending(new) => Sending(call[c])
    BY <1>6 DEF InspectMedia, Sending, CallsOK, Calls
  <2>3. CallsOK' /\ CallsInOrder' /\ GuardInv'
    BY <1>6, <2>1, <2>2, CallMoves, GuardMoves DEF InspectMedia
  <2>4. QED
    BY <1>6, <2>3 DEF InspectMedia, SessionOK, OfferInv
<1>7. ASSUME NEW c \in Callers, SettleRefresh(c) PROVE GuidedInv'
  <2>1. SessionOK'
    <3>1. UNCHANGED <<nextId, submitting>>
      BY <1>7 DEF SettleRefresh
    <3>2. CASE UNCHANGED session
      BY <3>1, <3>2 DEF SessionOK
    <3>3. CASE Current(c)
      <4>1. PICK live \in LiveFindings(call[c].found) :
              session' = [session EXCEPT
                            !.eligible = Eligible(call[c].found \cup live),
                            !.media = call[c].media, !.ready = Ready]
        BY <1>7, <3>3 DEF SettleRefresh
      <4>2. session \in Sessions
        BY <3>3 DEF Current, SessionIs, SessionOK
      <4>3. /\ Eligible(call[c].found \cup live) \in BOOLEAN
            /\ call[c].media \in Media \cup {NoMedia} /\ Ready \in BOOLEAN
        BY DEF Eligible, Ready, SessionOK, CallsOK, Calls
      <4>4. session' \in Sessions
        BY <4>1, <4>2, <4>3 DEF Sessions
      <4>5. QED
        BY <3>1, <4>4 DEF SessionOK
    <3>4. QED
      BY <1>7, <3>2, <3>3 DEF SettleRefresh
  <2>2. OfferInv'
    BY <1>7
    DEF SettleRefresh, Current, SessionIs, SessionOK, Sessions, OfferInv, Ready
  <2>3. CallsOK' /\ CallsInOrder' /\ GuardInv'
    BY <1>7, CallMoves, GuardMoves DEF SettleRefresh, Return
  <2>4. QED
    BY <1>7, <2>1, <2>2, <2>3 DEF SettleRefresh
<1>8. ASSUME NEW c \in Callers, SettleSend(c) PROVE GuidedInv'
  <2>1. Sending(call[c]) /\ submitting
    BY <1>8 DEF SettleSend, Sending, GuardInv, Holds
  <2>2. SessionOK' /\ OfferInv'
    <3>1. CASE ~Current(c)
      BY <1>8, <2>1, <3>1 DEF SettleSend, SessionOK, OfferInv
    <3>2. CASE Current(c)
      <4>1. session \in Sessions /\ ~session.ready
        BY <2>1, <3>2 DEF Current, SessionIs, SessionOK, OfferInv
      <4>2. PICK eligible \in BOOLEAN, submission \in {session.submission, "blocked"} :
              session' = [session EXCEPT !.eligible = eligible,
                                         !.media = call[c].media,
                                         !.submission = submission]
        BY <1>8, <3>2, <4>1 DEF SettleSend, Eligible, Sessions
      <4>3. session' \in Sessions /\ ~session'.ready
        BY <4>1, <4>2 DEF Sessions, CallsOK, Calls
      <4>4. nextId' = nextId /\ submitting' \in BOOLEAN
        BY <1>8, <2>1, <3>2 DEF SettleSend, SessionOK
      <4>5. QED
        BY <4>3, <4>4 DEF SessionOK, OfferInv
    <3>3. QED
      BY <3>1, <3>2
  <2>3. CASE Return(c) /\ UNCHANGED sub
    BY <1>8, <2>1, <2>2, <2>3, CallMoves, GuardMoves DEF SettleSend, Return
  <2>4. CASE /\ \E kind \in Native : Begin(c, kind, call[c].media)
             /\ call' = [call EXCEPT ![c].pc = "waiting"]
             /\ MaySend(c) /\ UNCHANGED submitting
    <3> PICK kind \in Tests : Begin(c, kind, call[c].media)
      BY <2>4 DEF Native, Tests
    <3>1. call[c].media \in Media \cup {NoMedia} /\ call[c].media = call[c].shown
      BY <2>4 DEF MaySend, CallsOK, Calls
    <3>2. NativeInv'
      BY <1>8, <3>1, BeginKeepsNative DEF SettleSend, Callers, Kinds
    <3>3. /\ sub'[c].pc = "media" /\ sub'[c].media = call[c].shown
          /\ sub'[c].kind \in Tests
          /\ \A d \in Callers \ {c} : sub'[d] = sub[d]
      BY <3>1 DEF Begin, Idle, Callers, NativeInv, NativeTypeOK
    <3>4. /\ call'[c] = [call[c] EXCEPT !.pc = "waiting"]
          /\ \A d \in Callers \ {c} : call'[d] = call[d]
      BY <2>4 DEF CallsOK
    <3>5. CallsOK'
      BY <2>4 DEF CallsOK, Calls
    <3>6. CallsInOrder'
      BY <3>3, <3>4 DEF CallsInOrder, InOrder, UnderWay, CallsOK, Calls
    <3>7. GuardInv'
      BY <2>1, <2>4, <3>3, <3>4 DEF GuardInv, Holds, Sending, UnderWay
    <3>8. QED
      BY <2>2, <3>2, <3>5, <3>6, <3>7
  <2>5. QED
    BY <1>8, <2>3, <2>4 DEF SettleSend
<1>9. ASSUME NEW c \in Callers, Worker(c) PROVE GuidedInv'
  <2>1. /\ NativeInv' /\ Follows(sub[c], sub'[c])
        /\ sub' = [sub EXCEPT ![c] = sub'[c]]
    BY <1>9, SpoolerMoves, SpoolerKeepsNative DEF Worker, Callers
  <2>2. \A d \in Callers \ {c} : sub'[d] = sub[d]
    BY <2>1 DEF Callers, NativeInv, NativeTypeOK
  <2>3. UnderWay(c) /\ (submitting' <=> UnderWay(c)') /\ submitting
    BY <1>9, <2>1 DEF Worker, Follows, UnderWay, GuardInv, Holds
  <2>4. CallsInOrder'
    BY <1>9, <2>1, <2>2, <2>3 DEF Worker, Follows, CallsInOrder, InOrder, UnderWay
  <2>5. GuardInv'
    <3>1. call' = call /\ \A d \in Callers \ {c} : ~Holds(d)
      BY <1>9, <2>3 DEF Worker, GuardInv, Holds
    <3>2. ~Sending(call[c])
      BY <2>3 DEF CallsInOrder, InOrder, Sending, CallsOK, Calls
    <3>3. \A d \in Callers : Holds(d)' => d = c /\ UnderWay(c)'
      BY <2>2, <3>1, <3>2 DEF Holds, UnderWay
    <3>4. QED
      BY <2>3, <3>3 DEF GuardInv
  <2>6. QED
    BY <1>9, <2>1, <2>3, <2>4, <2>5 DEF Worker, CallsOK, SessionOK, OfferInv
<1>10. ASSUME NEW c \in Callers, Outcome(c) PROVE GuidedInv'
  <2>1. /\ CallsOK' /\ CallsInOrder' /\ GuardInv'
    BY <1>10, CallMoves, GuardMoves DEF Outcome, Record, Return
  <2>2. PICK outcome \in {"accepted", "rejected", "uncertain"} : Record(c, outcome)
    BY <1>10
    DEF Outcome, CallsInOrder, InOrder, NativeInv, Truthful, Callers
  <2>3. SessionOK' /\ OfferInv'
    BY <2>2 DEF Record, Current, SessionIs, SessionOK, Sessions, OfferInv
  <2>4. QED
    BY <2>1, <2>2, <2>3 DEF Record
<1>11. ASSUME NEW c \in Callers, GiveUp(c) PROVE GuidedInv'
  <2>1. submitting' <=> submitting /\ ~Sending(call[c])
    BY <1>11 DEF GiveUp, Sending
  <2>2. CallsOK' /\ CallsInOrder' /\ GuardInv'
    <3>1. submitting' = submitting \/ Sending(call[c])
      BY <2>1, <1>11 DEF GiveUp, SessionOK, Sending
    <3>2. QED
      BY <1>11, <3>1, CallMoves, GuardMoves DEF GiveUp, Return
  <2>3. QED
    BY <1>11, <2>1, <2>2 DEF GiveUp, SessionOK, OfferInv
<1>12. ASSUME Outside, UNCHANGED <<session, nextId, submitting, call>>
       PROVE  GuidedInv'
  BY <1>12, OutsideKeepsNative
  DEF Outside, SessionOK, OfferInv, CallsOK, CallsInOrder, InOrder, GuardInv,
      Holds, UnderWay
<1>13. CASE UNCHANGED vars
  BY <1>13
  DEF vars, SessionOK, OfferInv, CallsOK, CallsInOrder, InOrder, GuardInv,
      Holds, UnderWay
<1>14. QED
  BY <1>1, <1>2, <1>3, <1>4, <1>5, <1>6, <1>7, <1>8, <1>9, <1>10, <1>11,
     <1>12, <1>13
  DEF Next

(* A session offers a send only while no page is with the spooler: the     *)
(* SubmissionGuard is held from the send to the end of the worker, through *)
(* timeouts, closed sessions and dropped requests, and a refresh that      *)
(* settles meanwhile does not offer one (GuidedTestPrint::refresh, send).  *)
THEOREM OffersWhenFree == Spec => []OfferedWhenFree
<1>1. GuidedInv => OfferedWhenFree
  BY DEF GuidedInv, OfferInv, GuardInv, Holds, OfferedWhenFree
<1>2. QED
  BY InitGuided, StepGuided, <1>1, PTL DEF Spec

(* The page with the spooler has the media size the session showed when    *)
(* the user asked for it (the comparison in the second half of send).      *)
THEOREM ShownIsPrinted == Spec => []PrintsWhatWasShown
<1>1. GuidedInv => PrintsWhatWasShown
  BY DEF GuidedInv, CallsInOrder, InOrder, PrintsWhatWasShown
<1>2. QED
  BY InitGuided, StepGuided, <1>1, PTL DEF Spec

-----------------------------------------------------------------------------
(* Submissions of every kind: what is reported of one is true, in a test   *)
(* print and in a scene where anybody hands over anything (submit_cups_job,*)
(* submit_windows_job, and the two NativeTestPrint::submit).               *)
THEOREM OutcomesAreTrue == MCSpec => []OutcomeIsTrue
<1> DEFINE SceneInv == IF scene = "testPrint" THEN GuidedInv ELSE NativeInv
<1>1. MCInit => SceneInv
  BY InitGuided DEF MCInit, GuidedInv
<1>2. SceneInv /\ [MCNext]_<<scene, vars>> => SceneInv'
  <2> SUFFICES ASSUME SceneInv, [MCNext]_<<scene, vars>> PROVE SceneInv'
    OBVIOUS
  <2>1. scene' = scene
    BY DEF MCNext
  <2>2. CASE scene = "testPrint"
    BY <2>1, <2>2, StepGuided DEF MCNext
  <2>3. CASE scene # "testPrint"
    <3>1. [NativeNext]_nativeVars
      BY <2>3 DEF MCNext, vars, nativeVars
    <3>2. QED
      BY <2>1, <2>3, <3>1, StepNative
  <2>4. QED
    BY <2>2, <2>3
<1>3. SceneInv => OutcomeIsTrue
  <2>1. NativeInv => OutcomeIsTrue
    BY DEF NativeInv, Truthful, OutcomeIsTrue
  <2>2. QED
    BY <2>1 DEF GuidedInv
<1>4. QED
  BY <1>1, <1>2, <1>3, PTL DEF MCSpec
=============================================================================
