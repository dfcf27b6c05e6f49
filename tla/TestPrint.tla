------------------------------ MODULE TestPrint ------------------------------
(***************************************************************************)
(* The guided test print (application/test_print.rs): one session at a     *)
(* time, opened for an installed client queue, whose diagnostics and       *)
(* default media size are read (application/troubleshooting.rs), shown,    *)
(* and read again when the user sends the page.  The page itself goes      *)
(* through NativePrint.  Calls overlap: each runs without the session's    *)
(* lock while it inspects or waits, and takes the lock again to settle.    *)
(*                                                                         *)
(* Of the diagnostics the session keeps whether they allow a test print;   *)
(* what the server, the channel and the proxy answer is chosen at each     *)
(* reading.                                                                *)
(***************************************************************************)
EXTENDS NativePrint

CONSTANTS
  Machine,     \* calls come through shaprintd's control socket
  MaxSessions, \* bound: sessions opened
  MaxRuns,     \* bound: checks and submissions of a session
  NoSession    \* no session is open

ASSUME MachineAssumption == Machine \in BOOLEAN
ASSUME BoundsAssumption == MaxSessions \in Nat \ {0} /\ MaxRuns \in Nat \ {0}

Callers == Owners

(* The daemon is there on Linux only.                                      *)
Native == IF Machine THEN {"cupsTest"} ELSE Tests

VARIABLES
  session,    \* GuidedTestPrint::session
  nextId,     \* next_id
  submitting, \* the flag SubmissionGuard holds
  call        \* [Callers -> the call in progress]

vars == <<queue, default, sub, session, nextId, submitting, call>>

NoCall == [pc |-> "idle", id |-> 0, run |-> 0, send |-> FALSE,
           shown |-> NoMedia, found |-> {}, media |-> NoMedia]

Init ==
  /\ NativeInit
  /\ session = NoSession /\ nextId = 1
  /\ submitting = FALSE
  /\ call = [c \in Callers |-> NoCall]

-----------------------------------------------------------------------------
(* LocalTroubleshooting.                                                   *)

(* is_repair_eligible: what must have been found and what must not.        *)
Required == {"SpoolerReady", "QueueMatching", "QueueEmpty", "ProxyRunning",
             "ServerReachable", "ServerIdentityMatching", "PrinterShared"}
Blocking == {"ChannelAuthorizationRejected", "ChannelUnconfigured",
             "ChannelNotApplicable"}

Eligible(checks) == Required \subseteq checks /\ checks \cap Blocking = {}

(* inspect_client_queue and, where it does not count the jobs,             *)
(* pending_client_jobs; a queue that is stopped is still inspected.  Or    *)
(* the spooler fails, or does not answer in time.                          *)
InspectQueue ==
  {"unavailable", "failed", "timeout"} \cup
    CASE queue = "gone" -> {"missing", "mismatched"}
      [] queue = "busy" -> {"pending", "uncounted"}
      [] OTHER          -> {"matching", "uncounted"}

(* What the checks say of it.  Findings that only explain are left out.    *)
QueueFindings(result) ==
  CASE result = "matching"  -> {"SpoolerReady", "QueueMatching", "QueueEmpty"}
    [] result \in {"pending", "uncounted"} -> {"SpoolerReady", "QueueMatching"}
    [] result \in {"missing", "mismatched"} -> {"SpoolerReady"}
    [] OTHER -> {}

(* inspect_server: the live certificate against the pinned one, and then   *)
(* the list of shared printers.                                            *)
InspectServer ==
  {"shared", "notShared", "unlisted", "notTrusted", "changed", "unreachable",
   "timeout", "failed"}

ServerFindings(result) ==
  CASE result = "shared" ->
         {"ServerReachable", "ServerIdentityMatching", "PrinterShared"}
    [] result \in {"notShared", "unlisted"} ->
         {"ServerReachable", "ServerIdentityMatching"}
    [] result \in {"notTrusted", "changed"} ->
         {"ServerReachable", "ChannelNotApplicable"}
    [] OTHER -> {"ChannelNotApplicable"}

(* refresh_live_prerequisites: the proxy, and the channel of a trusted     *)
(* server, as they are when the decision is taken.                         *)
LiveFindings(checks) ==
  {{proxy, channel} :
     proxy \in {"ProxyRunning", "ProxyStopped"},
     channel \in IF "ChannelNotApplicable" \in checks
                   THEN {"ChannelNotApplicable"}
                   ELSE {"ChannelAuthorizationRejected", "ChannelUnconfigured",
                         "ChannelConfiguredUnobserved"}}

-----------------------------------------------------------------------------
SessionIs(c) == session # NoSession /\ session.id = call[c].id
Current(c)   == SessionIs(c) /\ session.run = call[c].run

Known == 1..(nextId - 1)  \* the sessions a caller can name

(* stale(), or an answer: the call is over.                                *)
Return(c) == call' = [call EXCEPT ![c] = NoCall]

(* A call whose abandoned submission still runs is not made again.         *)
CanCall(c) == call[c].pc = "idle" /\ sub[c].pc \in {"idle", "ended"}

(* open replaces whatever session there is, then refreshes its own.        *)
Open(c) ==
  /\ CanCall(c) /\ nextId <= MaxSessions
  /\ nextId' = nextId + 1
  /\ session' = [id |-> nextId, run |-> 0, submission |-> "not-sent",
                 media |-> NoMedia, eligible |-> FALSE, ready |-> FALSE,
                 physical |-> "unconfirmed"]
  /\ call' = [call EXCEPT ![c] = [NoCall EXCEPT !.pc = "opened", !.id = nextId]]
  /\ UNCHANGED <<nativeVars, submitting>>

Close(c) ==
  /\ CanCall(c)
  /\ session # NoSession /\ session' = NoSession
  /\ UNCHANGED <<nativeVars, nextId, submitting, call>>

(* The first half of refresh, for open or for a call of its own.           *)
Refresh(c) ==
  /\ \E id \in Known :
       /\ \/ call[c].pc = "opened" /\ id = call[c].id
          \/ CanCall(c)
       /\ IF session # NoSession /\ session.id = id
                /\ session.submission # "checking" /\ session.run < MaxRuns
            THEN /\ session' = [session EXCEPT !.ready = FALSE, !.run = @ + 1]
                 /\ call' = [call EXCEPT ![c] =
                      [NoCall EXCEPT !.pc = "inspecting", !.id = id,
                                     !.run = session.run + 1]]
            ELSE call[c].pc = "opened" /\ Return(c) /\ UNCHANGED session
  /\ UNCHANGED <<nativeVars, nextId, submitting>>

CanSend(s) == s.ready /\ s.media # NoMedia /\ s.eligible

(* The first half of send: one submission at a time in the whole process.  *)
Send(c) ==
  /\ CanCall(c)
  /\ session # NoSession /\ CanSend(session) /\ session.run < MaxRuns
  /\ ~submitting /\ submitting' = TRUE
  /\ session' = [session EXCEPT !.ready = FALSE, !.run = @ + 1,
                                !.submission = "checking",
                                !.physical = "unconfirmed"]
  /\ call' = [call EXCEPT ![c] =
       [NoCall EXCEPT !.pc = "inspecting", !.id = session.id,
                      !.run = session.run + 1, !.send = TRUE,
                      !.shown = session.media]]
  /\ UNCHANGED <<nativeVars, nextId>>

(* The queue and the server are inspected; findings that allow no test     *)
(* print whatever follows are not told apart...                            *)
Inspect(c) ==
  /\ call[c].pc = "inspecting"
  /\ \E q \in InspectQueue, s \in InspectServer :
       LET checks == QueueFindings(q) \cup ServerFindings(s) IN
       call' = [call EXCEPT
                  ![c].pc = "media",
                  ![c].found = IF Required \ {"ProxyRunning"} \subseteq checks
                                 THEN checks ELSE {"ChannelNotApplicable"}]
  /\ UNCHANGED <<nativeVars, session, nextId, submitting>>

(* ...and then the default media size, which may not be had in time.       *)
InspectMedia(c) ==
  /\ call[c].pc = "media"
  /\ \E m \in {ReadDefault, NoMedia} :
       call' = [call EXCEPT ![c].pc = "settle", ![c].media = m]
  /\ UNCHANGED <<nativeVars, session, nextId, submitting>>

(* Variant: a refresh offers a send although a page is still on its way.   *)
Ready_Always == TRUE

(* s.ready after a refresh.                                                *)
Ready == ~submitting

(* The second half of refresh.                                             *)
SettleRefresh(c) ==
  /\ call[c].pc = "settle" /\ ~call[c].send
  /\ IF Current(c)
       THEN \E live \in LiveFindings(call[c].found) :
              session' = [session EXCEPT
                            !.eligible = Eligible(call[c].found \cup live),
                            !.media = call[c].media, !.ready = Ready]
       ELSE UNCHANGED session
  /\ Return(c)
  /\ UNCHANGED <<nativeVars, nextId, submitting>>

(* Variant: whatever media size is found now will do.                      *)
MaySend_AnyMedia(c) == call[c].media # NoMedia

(* media is there and is the one that was shown.                           *)
MaySend(c) == call[c].media # NoMedia /\ call[c].media = call[c].shown

(* The second half of send: blocked, or spawned under the session's lock.  *)
SettleSend(c) ==
  /\ call[c].pc = "settle" /\ call[c].send
  /\ IF ~Current(c)
       THEN /\ submitting' = FALSE /\ Return(c)
            /\ UNCHANGED <<session, sub>>
       ELSE \E live \in LiveFindings(call[c].found) :
              LET eligible == Eligible(call[c].found \cup live)
                  seen == [session EXCEPT !.eligible = eligible,
                                          !.media = call[c].media]
              IN IF eligible /\ MaySend(c)
                   THEN /\ session' = seen
                        /\ \E kind \in Native : Begin(c, kind, call[c].media)
                        /\ call' = [call EXCEPT ![c].pc = "waiting"]
                        /\ UNCHANGED submitting
                   ELSE /\ session' = [seen EXCEPT !.submission = "blocked"]
                        /\ submitting' = FALSE /\ Return(c)
                        /\ UNCHANGED sub
  /\ UNCHANGED <<queue, default, nextId>>

(* The worker ends: its guard is dropped before anybody hears of it.       *)
Worker(c) ==
  /\ SpoolerStep(c)
  /\ submitting' = (submitting /\ sub'[c].pc # "ended")
  /\ UNCHANGED <<session, nextId, call>>

(* The outcome, or "uncertain" after thirty seconds or a panic.            *)
Record(c, outcome) ==
  /\ session' = IF Current(c)
                  THEN [session EXCEPT !.submission = outcome,
                                       !.physical = "unconfirmed"]
                  ELSE session
  /\ Return(c)
  /\ UNCHANGED <<nativeVars, nextId, submitting>>

Outcome(c) ==
  /\ call[c].pc = "waiting"
  /\ \/ sub[c].pc = "ended" /\ Record(c, sub[c].result)
     \/ Record(c, "uncertain")

(* The user says what came out of the printer.                             *)
Confirm(c) ==
  /\ CanCall(c)
  /\ session # NoSession /\ session.submission \in {"accepted", "uncertain"}
  /\ session' = [session EXCEPT !.physical = "observed"]
  /\ UNCHANGED <<nativeVars, nextId, submitting, call>>

(* shaprintd gives a request fifteen seconds (handle_connection) and then  *)
(* drops it where it awaits; a guard that has not been given away goes     *)
(* with it.                                                                *)
GiveUp(c) ==
  /\ Machine
  /\ call[c].pc \in {"inspecting", "media", "settle", "waiting"}
  /\ submitting' = (submitting /\ ~(call[c].send /\ call[c].pc # "waiting"))
  /\ Return(c)
  /\ UNCHANGED <<nativeVars, session, nextId>>

Next ==
  \/ \E c \in Callers :
       \/ Open(c) \/ Close(c) \/ Refresh(c) \/ Send(c) \/ Inspect(c)
       \/ InspectMedia(c) \/ SettleRefresh(c) \/ SettleSend(c) \/ Worker(c)
       \/ Outcome(c) \/ Confirm(c) \/ GiveUp(c)
  \/ Outside /\ UNCHANGED <<session, nextId, submitting, call>>

Spec == Init /\ [][Next]_vars

-----------------------------------------------------------------------------
TypeOK ==
  /\ NativeTypeOK
  /\ session = NoSession \/
     session \in
       [id : 1..MaxSessions, run : 0..MaxRuns,
        submission : {"not-sent", "checking", "accepted", "rejected",
                      "uncertain", "blocked"},
        media : Media \cup {NoMedia}, eligible : BOOLEAN, ready : BOOLEAN,
        physical : {"unconfirmed", "observed"}]
  /\ nextId \in 1..(MaxSessions + 1) /\ submitting \in BOOLEAN

UnderWay(c) == sub[c].pc \notin {"idle", "ended"}

(* A session offers a send only while no page of this or of an earlier     *)
(* session is with the spooler: neither a closed session, nor a timeout,   *)
(* nor a late refresh lets a second page follow the first ("its guard      *)
(* keeps all sessions blocked until that operation really finishes").      *)
OfferedWhenFree ==
  session # NoSession /\ session.ready => \A c \in Callers : ~UnderWay(c)

(* A page that is printed has the media size the session showed when the   *)
(* user asked for it, however the queue's defaults changed meanwhile.      *)
PrintsWhatWasShown ==
  \A c \in Callers : call[c].pc = "waiting" => sub[c].media = call[c].shown

(* "checking" is the state of a call that is still at work, for a session  *)
(* in it can be neither refreshed nor confirmed.  When the answer to a     *)
(* send does not come, the application shows the submission as uncertain   *)
(* and asks what was printed: "Physical output is unconfirmed until you    *)
(* respond" (LocalTroubleshootingDialog.tsx); there must be a session that *)
(* takes the response.                                                     *)
CheckingIsCarried ==
  session # NoSession /\ session.submission = "checking" =>
    \E c \in Callers : Current(c) /\ call[c].send
=============================================================================
