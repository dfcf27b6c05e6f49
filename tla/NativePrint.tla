----------------------------- MODULE NativePrint -----------------------------
(***************************************************************************)
(* Handing one document to the native spooler, four ways:                  *)
(*   "cupsJob"  submit_cups_job (printers/cups.rs), a client's job;        *)
(*   "gdiJob"   submit_windows_job (printers/windows_render.rs), the same; *)
(*   "cupsTest" submit_blocking (printers/linux_test_print.rs), the        *)
(*              guided test print;                                         *)
(*   "gdiTest"  submit (printers/windows_test_print.rs), the same.         *)
(* Each is a blocking thread that looks at a queue others use and change,  *)
(* opens a job, streams pages into it and closes it.  The spooler may      *)
(* refuse, fail or do what it was asked and lose the answer.               *)
(***************************************************************************)
EXTENDS Naturals, FiniteSets

CONSTANTS
  Owners,   \* those who hand a document over, one at a time each
  Media,    \* media sizes of the catalog
  NoMedia   \* none that ShaPrint knows

ASSUME NoMediaAssumption == NoMedia \notin Media

VARIABLES
  queue,    \* the queue: "empty", "busy", "stopped", or "gone": missing or
            \* leading elsewhere
  default,  \* the media size the queue prints on unless told otherwise
  sub       \* [Owners -> the submission]

nativeVars == <<queue, default, sub>>

Tests == {"cupsTest", "gdiTest"}
Kinds == Tests \cup {"cupsJob", "gdiJob"}
Cups  == {"cupsJob", "cupsTest"}

Working  == {"empty", "busy"}          \* it is there and accepts jobs
Queues   == Working \cup {"stopped", "gone"}
NoResult == "none"
Idle == [pc |-> "idle", kind |-> "cupsJob", media |-> NoMedia,
         job |-> "none", result |-> NoResult]

NativeInit ==
  /\ queue = "empty"
  /\ default \in Media
  /\ sub = [o \in Owners |-> Idle]

(* media_from_defaults, read_default_media: a size of the catalog or none. *)
ReadDefault == default

To(o, pc) == sub' = [sub EXCEPT ![o].pc = pc]

End(o, job, result) ==
  sub' = [sub EXCEPT ![o].pc = "ended", ![o].job = job, ![o].result = result]

(* Nothing was opened: the thread ends before it has asked for a job.      *)
Refuse(o) ==
  End(o, "none", IF sub[o].kind \in Tests THEN "rejected" ELSE "error")

Same == UNCHANGED <<queue, default>>

-----------------------------------------------------------------------------
Begin(o, kind, media) ==
  sub' = [sub EXCEPT ![o] =
            [Idle EXCEPT !.pc = IF kind \in Tests THEN "media" ELSE "decode",
                         !.kind = kind, !.media = media]]

(* Every page of a client's document is decoded before the queue is        *)
(* touched: a malformed later page prints nothing.                         *)
Decode(o) ==
  /\ sub[o].pc = "decode"
  /\ To(o, "queue") \/ Refuse(o)
  /\ Same

(* A test print rereads the default size; the Windows driver must also     *)
(* take the settings unchanged.                                            *)
RecheckMedia(o) ==
  /\ sub[o].pc = "media"
  /\ \/ ReadDefault = sub[o].media /\ To(o, "queue")
     \/ Refuse(o)
  /\ Same

(* The destination: listed, accepting jobs; a test print's must also still *)
(* be the client queue it was asked for.  Windows lists the pending jobs   *)
(* with it.                                                                *)
Destination(o) ==
  /\ sub[o].pc = "queue"
  /\ \/ /\ \/ queue \in Working
           \/ sub[o].kind \notin Cups /\ queue = "stopped"
        /\ sub[o].kind = "gdiTest" => queue # "busy"
        /\ To(o, IF sub[o].kind = "cupsTest" THEN "jobs" ELSE "create")
     \/ Refuse(o)
  /\ Same

(* cupsGetJobs2 counts the active jobs; an error is not an empty queue.    *)
CountJobs(o) ==
  /\ sub[o].pc = "jobs"
  /\ \/ queue = "empty" /\ To(o, "create")
     \/ Refuse(o)
  /\ Same

(* Variant: what StartDocW reports decides.                                *)
Create_Trusting(o) ==
  /\ sub[o].pc = "create"
  /\ \/ sub' = [sub EXCEPT ![o].pc = "stream", ![o].job = "open"]
     \/ \E job \in {"none", "open", "complete"} :
          /\ job = "complete" => sub[o].kind \notin Cups
          /\ End(o, job, IF sub[o].kind \in Tests THEN "rejected" ELSE "error")
  /\ Same

(* cupsCreateJob: a job without a document, even if the answer is lost.    *)
(* StartDocW: what it has done when it reports an error is not known.      *)
Create(o) ==
  /\ sub[o].pc = "create"
  /\ \/ sub' = [sub EXCEPT ![o].pc = "stream", ![o].job = "open"]
     \/ \E job \in {"none", "open"} :
          End(o, job, CASE sub[o].kind = "cupsTest" -> "rejected"
                        [] sub[o].kind = "gdiTest" -> "uncertain"
                        [] OTHER -> "error")
     \/ /\ sub[o].kind \notin Cups
        /\ End(o, "complete",
               IF sub[o].kind = "gdiTest" THEN "uncertain" ELSE "error")
  /\ Same

(* Once there is a job no failure is a rejection.  cupsCancelJob2 and      *)
(* AbortDoc purge it if they can; the Windows test print leaves it alone.  *)
Failure(o) == IF sub[o].kind \in Tests THEN "uncertain" ELSE "error"

(* cupsStartDocument, then cupsWriteRequestData, chunk after chunk.        *)
WriteChunks(o) ==
  /\ sub[o].pc = "stream" /\ sub[o].kind \in Cups
  /\ \/ To(o, "finish")
     \/ \E job \in {"open", "purged"} : End(o, job, Failure(o))
  /\ Same

(* StartPage, drawing and EndPage, page after page, clipped to the sheet.  *)
DrawPages(o) ==
  /\ sub[o].pc = "stream" /\ sub[o].kind \notin Cups
  /\ \/ To(o, "finish")
     \/ \E job \in {"open", "purged"} : End(o, job, Failure(o))
  /\ Same

(* cupsFinishDocument, EndDoc.                                             *)
Finish(o) ==
  /\ sub[o].pc = "finish"
  /\ \/ End(o, "complete", IF sub[o].kind \in Tests THEN "accepted" ELSE "ok")
     \/ \E job \in {"open", "purged", "complete"} : End(o, job, Failure(o))
  /\ Same

SpoolerStep(o) ==
  \/ Decode(o) \/ RecheckMedia(o) \/ Destination(o) \/ CountJobs(o)
  \/ Create(o) \/ WriteChunks(o) \/ DrawPages(o) \/ Finish(o)

(* The queue's other users, its administrator and its driver.              *)
Outside ==
  /\ \/ queue' \in Queues \ {queue} /\ UNCHANGED default
     \/ default' \in (Media \cup {NoMedia}) \ {default} /\ UNCHANGED queue
  /\ UNCHANGED sub

(* On its own: anybody hands over anything, one document after the other.  *)
NativeNext ==
  \/ \E o \in Owners :
       \/ /\ sub[o].pc \in {"idle", "ended"}
          /\ \E kind \in Kinds, media \in Media : Begin(o, kind, media)
          /\ Same
       \/ SpoolerStep(o)
  \/ Outside

NativeTypeOK ==
  /\ queue \in Queues /\ default \in Media \cup {NoMedia}
  /\ sub \in [Owners ->
       [pc : {"idle", "decode", "media", "queue", "jobs", "create", "stream",
              "finish", "ended"},
        kind : Kinds, media : Media \cup {NoMedia},
        job : {"none", "open", "purged", "complete"},
        result : {NoResult, "ok", "error", "accepted", "rejected",
                  "uncertain"}]]

(* What is reported of a submission is true of the spooler: an accepted    *)
(* one is complete, and a test print is called rejected "only when no      *)
(* document could have been accepted" (NativeTestPrint::submit), whatever  *)
(* answers were lost.                                                      *)
OutcomeIsTrue ==
  \A o \in Owners :
    /\ sub[o].result \in {"ok", "accepted"} => sub[o].job = "complete"
    /\ sub[o].result = "rejected" => sub[o].job # "complete"
=============================================================================
