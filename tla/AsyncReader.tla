---------------------------- MODULE AsyncReader ----------------------------
(***************************************************************************)
(* The asynchronous sample reader of librtlsdr as rtl_ais_main drives it:  *)
(* rtlsdr_read_async (buffer allocation, the submit loop, the event loop,  *)
(* the cancel scan and the release of the buffers), the transfer callback, *)
(* rtlsdr_cancel_async called from any thread, and rtlsdr_close.           *)
(*                                                                         *)
(* A transfer is seen from three sides, and the interesting behaviour is   *)
(* their disagreement:                                                     *)
(*   kern[t]    what usbfs holds: nothing, an URB that is being filled, or *)
(*              a finished URB, with its result, that nobody reaped yet;   *)
(*   inFlight[t], cancelling[t]   libusb's USBI_TRANSFER_* flags;          *)
(*   xstatus[t] transfer->status, the only field the cancel scan reads.    *)
(*                                                                         *)
(* dev->async_status, dev->async_cancel and dev->dev_lost are plain fields *)
(* without a lock: every read and every write of them is a step of its own *)
(* when another thread may run in between.                                 *)
(*                                                                         *)
(* A use of freed memory is undefined; the outcome followed here is the    *)
(* one where the memory still holds what it held (the other one, a crash,  *)
(* is a behaviour that stops).  Nothing is followed beyond rtlsdr_close.   *)
(*                                                                         *)
(* A definition marked (variant) is not part of the specification: it is   *)
(* what a plausible mistake would make of the definition after it, kept to *)
(* show that a property would notice.                                      *)
(***************************************************************************)
EXTENDS Naturals

CONSTANTS
  N,          \* dev->xfer_buf_num, the number of transfers
  Cancelers,  \* calls of rtlsdr_cancel_async: sighandler's, the demodulator's
  Helpers,    \* threads whose control transfers run libusb's event handler
  Reader,     \* the thread in rtlsdr_read_async (rtl_ais_main's)
  None,       \* nobody
  MaxFaults   \* bound on failed submissions, failed polls and signals

ASSUME NAssumption == N \in Nat \ {0}
ASSUME FaultAssumption == MaxFaults \in Nat
ASSUME ThreadAssumption ==
  /\ Reader \notin Cancelers \cup Helpers
  /\ None \notin Cancelers \cup Helpers \cup {Reader}
  /\ Cancelers \cap Helpers = {}

Xfers    == 1..N
NoXfer   == 0
Threads  == Cancelers \cup Helpers \cup {Reader}
Handlers == Helpers \cup {Reader}

AsyncStatus == {"INACTIVE", "CANCELING", "RUNNING"}
\* OVERFLOW is handled like STALL: reported, neither counted nor resubmitted.
Results == {"COMPLETED", "ERROR", "STALL", "CANCELLED", "NO_DEVICE"}
Kernel  == {"none", "active"} \cup Results

ReaderPc == {"start", "submit", "loop", "check", "scan", "cancelled", "drain",
             "free", "publish", "returned", "closing", "closeWait", "closed"}
\* Where the reader calls libusb_handle_events_timeout_completed.
EventCalls == {"loop", "cancelled", "drain"}

VARIABLES
  status,      \* dev->async_status
  asyncCancel, \* dev->async_cancel
  devLost,     \* dev->dev_lost
  xferErrors,  \* dev->xfer_errors
  allocated,   \* dev->xfer # NULL
  xstatus,     \* xfer[t]->status
  inFlight,    \* USBI_TRANSFER_IN_FLIGHT
  cancelling,  \* USBI_TRANSFER_CANCELLING
  kern,        \* the URB of the transfer in usbfs
  plugged,     \* the dongle is there
  evOwner,     \* the thread that holds the events lock of the context
  inCb,        \* the transfer whose callback is running
  rpc,         \* control state of the reader
  idx,         \* i of the submit loop and of the cancel scan
  nextStatus,  \* next_status
  cancelOk,    \* libusb_cancel_transfer returned 0
  cpc,         \* control state of each thread in rtlsdr_cancel_async
  faults       \* faults that may still happen

devVars  == <<status, asyncCancel, devLost, xferErrors, allocated>>
usbVars  == <<xstatus, inFlight, cancelling, kern, plugged>>
evVars   == <<evOwner, inCb>>
loopVars == <<rpc, idx, nextStatus, cancelOk>>
vars == <<devVars, usbVars, evVars, loopVars, cpc, faults>>

Init ==
  /\ status = "INACTIVE"
  /\ asyncCancel = FALSE
  /\ devLost = FALSE
  /\ xferErrors = 0
  /\ allocated = FALSE
  /\ xstatus = [t \in Xfers |-> "COMPLETED"]
  /\ inFlight = [t \in Xfers |-> FALSE]
  /\ cancelling = [t \in Xfers |-> FALSE]
  /\ kern = [t \in Xfers |-> "none"]
  /\ plugged = TRUE
  /\ evOwner = None
  /\ inCb = NoXfer
  /\ rpc = "start"
  /\ idx = 1
  /\ nextStatus = "INACTIVE"
  /\ cancelOk = FALSE
  /\ cpc = [p \in Threads |-> IF p \in Cancelers THEN "check" ELSE "none"]
  /\ faults = MaxFaults

-----------------------------------------------------------------------------
(* libusb_submit_transfer.  It holds the transfer's lock throughout, so    *)
(* that a completion reaped meanwhile waits: one step.                     *)

Submitted(t) ==
  /\ kern' = [kern EXCEPT ![t] = "active"]
  /\ inFlight' = [inFlight EXCEPT ![t] = TRUE]
  /\ cancelling' = [cancelling EXCEPT ![t] = FALSE]

NotSubmitted(t) ==
  /\ cancelling' = [cancelling EXCEPT ![t] = FALSE]
  /\ UNCHANGED <<kern, inFlight>>

\* The ioctl fails for a dongle that is gone, or for any other reason.
SubmitFault ==
  \/ ~plugged /\ UNCHANGED faults
  \/ plugged /\ faults > 0 /\ faults' = faults - 1

-----------------------------------------------------------------------------
(* rtlsdr_read_async: entry and submit loop.                               *)

ReadAsync ==
  /\ rpc = "start"
  /\ status' = "RUNNING"
  /\ asyncCancel' = FALSE
  /\ allocated' = TRUE
  /\ nextStatus' = "INACTIVE"
  /\ idx' = 1
  /\ rpc' = "submit"
  /\ UNCHANGED <<devLost, xferErrors, usbVars, evVars, cancelOk, cpc, faults>>

SubmitOk ==
  /\ rpc = "submit"
  /\ plugged
  /\ Submitted(idx)
  /\ IF idx < N THEN idx' = idx + 1 /\ UNCHANGED rpc
                ELSE rpc' = "loop" /\ UNCHANGED idx
  /\ UNCHANGED <<devVars, xstatus, plugged, evVars, nextStatus, cancelOk, cpc,
                 faults>>

SubmitFails ==
  /\ rpc = "submit"
  /\ SubmitFault
  /\ NotSubmitted(idx)
  /\ status' = "CANCELING"
  /\ rpc' = "loop"
  /\ UNCHANGED <<asyncCancel, devLost, xferErrors, allocated, xstatus,
                 plugged, evVars, idx, nextStatus, cancelOk, cpc>>

-----------------------------------------------------------------------------
(* libusb_handle_events_timeout_completed in the reader, at each of its    *)
(* three call sites.                                                       *)

\* (variant) The scan runs one transfer too far.
ScanNextPastEnd(next) ==
  IF idx <= N
  THEN idx' = idx + 1 /\ rpc' = "scan"
  ELSE /\ rpc' = IF devLost \/ next = "INACTIVE" THEN "drain" ELSE "loop"
       /\ UNCHANGED idx

\* Go to the next transfer of the cancel scan, or to the end of the scan:
\* the final event call when nothing was cancelled in this pass or the
\* dongle is gone, the event loop otherwise.
ScanNext(next) ==
  IF idx < N
  THEN idx' = idx + 1 /\ rpc' = "scan"
  ELSE /\ rpc' = IF devLost \/ next = "INACTIVE" THEN "drain" ELSE "loop"
       /\ UNCHANGED idx

\* (variant) A refused cancellation counts as one that was accepted.
EventsReturnedIgnoringResult ==
  \/ /\ rpc = "loop"
     /\ rpc' = "check"
     /\ UNCHANGED <<idx, nextStatus>>
  \/ /\ rpc = "cancelled"
     /\ nextStatus' = "CANCELING"
     /\ ScanNext(nextStatus')
  \/ /\ rpc = "drain"
     /\ rpc' = "free"
     /\ UNCHANGED <<idx, nextStatus>>

\* What the reader does once the event call returned.
EventsReturned ==
  \/ /\ rpc = "loop"
     /\ rpc' = "check"
     /\ UNCHANGED <<idx, nextStatus>>
  \/ /\ rpc = "cancelled"
     /\ nextStatus' = IF cancelOk THEN "CANCELING" ELSE nextStatus
     /\ ScanNext(nextStatus')
  \/ /\ rpc = "drain"
     /\ rpc' = "free"
     /\ UNCHANGED <<idx, nextStatus>>

\* The finished URBs an event handler finds on the device's descriptor.
Reapable == {t \in Xfers : kern[t] \in Results}

\* The reader gets the events lock and has not been told that it is over.
EnterEvents ==
  /\ rpc \in EventCalls
  /\ evOwner = None
  /\ ~(rpc = "loop" /\ asyncCancel)
  /\ evOwner' = Reader
  /\ UNCHANGED <<devVars, usbVars, inCb, loopVars, cpc, faults>>

\* Everything was reaped (EAGAIN), or nothing came before the timeout.
LeaveEvents ==
  /\ evOwner = Reader
  /\ inCb = NoXfer
  /\ cpc[Reader] = "none"
  /\ Reapable = {}
  /\ evOwner' = None
  /\ EventsReturned
  /\ UNCHANGED <<devVars, usbVars, inCb, cancelOk, cpc, faults>>

\* async_cancel is set, or another thread handles the events: the call ends
\* without having reaped anything itself.
SkipEvents ==
  /\ rpc \in EventCalls
  /\ \/ evOwner \in Helpers
     \/ evOwner = None /\ rpc = "loop" /\ asyncCancel
  /\ EventsReturned
  /\ UNCHANGED <<devVars, usbVars, evVars, cancelOk, cpc, faults>>

\* poll was interrupted by a signal: the event loop tries again; the other
\* two calls ignore what they get back.
EventsInterrupted ==
  /\ evOwner = Reader
  /\ inCb = NoXfer
  /\ cpc[Reader] = "none"
  /\ Reapable = {}
  /\ faults > 0
  /\ faults' = faults - 1
  /\ evOwner' = None
  /\ IF rpc = "loop" THEN UNCHANGED <<rpc, idx, nextStatus>>
                     ELSE EventsReturned
  /\ UNCHANGED <<devVars, usbVars, inCb, cancelOk, cpc>>

\* poll or the reaping ioctl failed: the event loop is left as it is.
EventsFail ==
  /\ evOwner = Reader
  /\ rpc = "loop"
  /\ inCb = NoXfer
  /\ cpc[Reader] = "none"
  /\ faults > 0
  /\ faults' = faults - 1
  /\ evOwner' = None
  /\ rpc' = "free"
  /\ UNCHANGED <<devVars, usbVars, inCb, idx, nextStatus, cancelOk, cpc>>

-----------------------------------------------------------------------------
(* A synchronous control transfer of the command thread runs the event     *)
(* handler too, and then it is this thread that runs the callbacks.  Main  *)
(* joins the command thread before it closes the device.                   *)

HelperEnter(h) ==
  /\ evOwner = None
  /\ rpc \notin {"closing", "closeWait", "closed"}
  /\ evOwner' = h
  /\ UNCHANGED <<devVars, usbVars, inCb, loopVars, cpc, faults>>

HelperLeave(h) ==
  /\ evOwner = h
  /\ inCb = NoXfer
  /\ cpc[h] = "none"
  /\ Reapable = {}
  /\ evOwner' = None
  /\ UNCHANGED <<devVars, usbVars, inCb, loopVars, cpc, faults>>

-----------------------------------------------------------------------------
(* Reaping an URB and running the transfer callback.                       *)

\* (variant) The transfer goes back to the kernel before its callback runs.
ReapResubmittingFirst(p, t) ==
  /\ evOwner = p
  /\ inCb = NoXfer
  /\ cpc[p] = "none"
  /\ t \in Reapable
  /\ xstatus' = [xstatus EXCEPT ![t] = kern[t]]
  /\ inFlight' = [inFlight EXCEPT ![t] = plugged]
  /\ kern' = [kern EXCEPT ![t] = IF plugged THEN "active" ELSE "none"]
  /\ inCb' = t
  /\ UNCHANGED <<devVars, cancelling, plugged, evOwner, loopVars, cpc,
                 faults>>

\* handle_bulk_completion, usbi_handle_transfer_completion: the flags are
\* cleared and the status is set before the callback runs.
Reap(p, t) ==
  /\ evOwner = p
  /\ inCb = NoXfer
  /\ cpc[p] = "none"
  /\ t \in Reapable
  /\ xstatus' = [xstatus EXCEPT ![t] = kern[t]]
  /\ inFlight' = [inFlight EXCEPT ![t] = FALSE]
  /\ kern' = [kern EXCEPT ![t] = "none"]
  /\ inCb' = t
  /\ UNCHANGED <<devVars, cancelling, plugged, evOwner, loopVars, cpc,
                 faults>>

\* The transfer was filled: the application's callback has consumed the
\* buffer and the transfer is submitted again; whether that worked is
\* ignored.
CallbackCompleted(p) ==
  /\ evOwner = p
  /\ inCb # NoXfer
  /\ xstatus[inCb] = "COMPLETED"
  /\ \/ plugged /\ Submitted(inCb) /\ UNCHANGED faults
     \/ NotSubmitted(inCb) /\ SubmitFault
  /\ xferErrors' = 0
  /\ inCb' = NoXfer
  /\ UNCHANGED <<status, asyncCancel, devLost, allocated, xstatus, plugged,
                 evOwner, loopVars, cpc>>

\* (variant) Cancelled transfers are submitted again like filled ones.
CallbackCancelledResubmitting(p) ==
  /\ evOwner = p
  /\ inCb # NoXfer
  /\ xstatus[inCb] = "CANCELLED"
  /\ IF plugged THEN Submitted(inCb) ELSE NotSubmitted(inCb)
  /\ inCb' = NoXfer
  /\ UNCHANGED <<devVars, xstatus, plugged, evOwner, loopVars, cpc, faults>>

CallbackCancelled(p) ==
  /\ evOwner = p
  /\ inCb # NoXfer
  /\ xstatus[inCb] = "CANCELLED"
  /\ inCb' = NoXfer
  /\ UNCHANGED <<devVars, usbVars, evOwner, loopVars, cpc, faults>>

\* (variant) Stalled transfers count as errors, and success does not matter.
CallbackFailedTooEager(p) ==
  /\ evOwner = p
  /\ inCb # NoXfer
  /\ xstatus[inCb] \in {"ERROR", "STALL", "NO_DEVICE"}
  /\ xferErrors' = xferErrors + 1
  /\ IF xferErrors' >= N \/ xstatus[inCb] = "NO_DEVICE"
     THEN devLost' = TRUE /\ cpc' = [cpc EXCEPT ![p] = "check"]
     ELSE UNCHANGED <<devLost, cpc>>
  /\ inCb' = NoXfer
  /\ UNCHANGED <<status, asyncCancel, allocated, usbVars, evOwner, loopVars,
                 faults>>

\* Any other end of a transfer: it is not submitted again.  Too many errors
\* without a success in between, or a dongle that is gone, cancel the stream.
CallbackFailed(p) ==
  /\ evOwner = p
  /\ inCb # NoXfer
  /\ xstatus[inCb] \in {"ERROR", "STALL", "NO_DEVICE"}
  /\ xferErrors' = xferErrors + (IF xstatus[inCb] = "ERROR" THEN 1 ELSE 0)
  /\ IF xferErrors' >= N \/ xstatus[inCb] = "NO_DEVICE"
     THEN devLost' = TRUE /\ cpc' = [cpc EXCEPT ![p] = "check"]
     ELSE UNCHANGED <<devLost, cpc>>
  /\ inCb' = NoXfer
  /\ UNCHANGED <<status, asyncCancel, allocated, usbVars, evOwner, loopVars,
                 faults>>

-----------------------------------------------------------------------------
(* rtlsdr_cancel_async: read async_status, write it, write async_cancel.   *)

CancelCheck(p) ==
  /\ cpc[p] = "check"
  /\ rpc # "closed"
  /\ cpc' = [cpc EXCEPT ![p] = IF status = "RUNNING" THEN "status" ELSE "none"]
  /\ UNCHANGED <<devVars, usbVars, evVars, loopVars, faults>>

\* (variant) The forceful change of state that the code has under #if 0.
CancelStatusForced(p) ==
  /\ cpc[p] = "status"
  /\ rpc # "closed"
  /\ status' = "INACTIVE"
  /\ cpc' = [cpc EXCEPT ![p] = "flag"]
  /\ UNCHANGED <<asyncCancel, devLost, xferErrors, allocated, usbVars, evVars,
                 loopVars, faults>>

CancelStatus(p) ==
  /\ cpc[p] = "status"
  /\ rpc # "closed"
  /\ status' = "CANCELING"
  /\ cpc' = [cpc EXCEPT ![p] = "flag"]
  /\ UNCHANGED <<asyncCancel, devLost, xferErrors, allocated, usbVars, evVars,
                 loopVars, faults>>

CancelFlag(p) ==
  /\ cpc[p] = "flag"
  /\ rpc # "closed"
  /\ asyncCancel' = TRUE
  /\ cpc' = [cpc EXCEPT ![p] = "none"]
  /\ UNCHANGED <<status, devLost, xferErrors, allocated, usbVars, evVars,
                 loopVars, faults>>

-----------------------------------------------------------------------------
(* rtlsdr_read_async: the body of the event loop and the way out.          *)

CheckCanceling ==
  /\ rpc = "check"
  /\ IF status = "CANCELING"
     THEN nextStatus' = "INACTIVE" /\ idx' = 1 /\ rpc' = "scan"
     ELSE rpc' = "loop" /\ UNCHANGED <<nextStatus, idx>>
  /\ UNCHANGED <<devVars, usbVars, evVars, cancelOk, cpc, faults>>

\* A transfer the scan takes for finished.
ScanSkip ==
  /\ rpc = "scan"
  /\ xstatus[idx] = "CANCELLED"
  /\ ScanNext(nextStatus)
  /\ UNCHANGED <<devVars, usbVars, evVars, nextStatus, cancelOk, cpc, faults>>

\* libusb_cancel_transfer.  It succeeds only for an URB the kernel is still
\* working on; a finished URB (EINVAL) or a missing dongle (ENODEV) makes it
\* fail, but leaves the transfer marked as being cancelled; a transfer that is
\* not in flight, or is marked already, is refused at once.
ScanCancel ==
  LET open == inFlight[idx] /\ ~cancelling[idx]
      ok   == open /\ kern[idx] = "active" /\ plugged
  IN
  /\ rpc = "scan"
  /\ xstatus[idx] # "CANCELLED"
  /\ cancelOk' = ok
  /\ kern' = [kern EXCEPT ![idx] = IF ok THEN "CANCELLED" ELSE @]
  /\ cancelling' = [cancelling EXCEPT ![idx] = @ \/ open]
  /\ rpc' = "cancelled"
  /\ UNCHANGED <<devVars, xstatus, inFlight, plugged, evVars, idx, nextStatus,
                 cpc, faults>>

FreeBuffers ==
  /\ rpc = "free"
  /\ allocated' = FALSE
  /\ rpc' = "publish"
  /\ UNCHANGED <<status, asyncCancel, devLost, xferErrors, usbVars, evVars,
                 idx, nextStatus, cancelOk, cpc, faults>>

PublishStatus ==
  /\ rpc = "publish"
  /\ status' = nextStatus
  /\ rpc' = "returned"
  /\ UNCHANGED <<asyncCancel, devLost, xferErrors, allocated, usbVars, evVars,
                 idx, nextStatus, cancelOk, cpc, faults>>

\* Main joins the command thread: no helper is inside the library any more.
JoinHelpers ==
  /\ rpc = "returned"
  /\ evOwner = None
  /\ rpc' = "closing"
  /\ UNCHANGED <<devVars, usbVars, evVars, idx, nextStatus, cancelOk, cpc,
                 faults>>

\* rtlsdr_close: a lost device is not waited for.
CloseBegin ==
  /\ rpc = "closing"
  /\ rpc' = IF devLost THEN "closed" ELSE "closeWait"
  /\ UNCHANGED <<devVars, usbVars, evVars, idx, nextStatus, cancelOk, cpc,
                 faults>>

\* rtlsdr_close: sleep until async_status is INACTIVE.
CloseWait ==
  /\ rpc = "closeWait"
  /\ rpc' = IF status = "INACTIVE" THEN "closed" ELSE "closeWait"
  /\ UNCHANGED <<devVars, usbVars, evVars, idx, nextStatus, cancelOk, cpc,
                 faults>>

Closed == rpc = "closed" /\ UNCHANGED vars

-----------------------------------------------------------------------------
(* usbfs and the dongle.                                                   *)

UrbFinishes(t, result) ==
  /\ kern[t] = "active"
  /\ plugged
  /\ kern' = [kern EXCEPT ![t] = result]
  /\ UNCHANGED <<devVars, xstatus, inFlight, cancelling, plugged, evVars,
                 loopVars, cpc, faults>>

\* The dongle goes away: URBs in progress end with NO_DEVICE; so does a
\* finished one, unless it is reaped before the disconnect is noticed.
Unplug ==
  /\ plugged
  /\ plugged' = FALSE
  /\ \E reaped \in SUBSET {t \in Xfers : kern[t] \in Results} :
       kern' = [t \in Xfers |-> IF kern[t] = "none" \/ t \in reaped
                                THEN kern[t] ELSE "NO_DEVICE"]
  /\ UNCHANGED <<devVars, xstatus, inFlight, cancelling, evVars, loopVars,
                 cpc, faults>>

-----------------------------------------------------------------------------
ReaderStep ==
  \/ ReadAsync \/ SubmitOk \/ SubmitFails
  \/ EnterEvents \/ LeaveEvents \/ SkipEvents
  \/ CheckCanceling \/ ScanSkip \/ ScanCancel
  \/ FreeBuffers \/ PublishStatus \/ JoinHelpers \/ CloseBegin \/ CloseWait

HandlerStep(p) ==
  \/ \E t \in Xfers : Reap(p, t)
  \/ CallbackCompleted(p) \/ CallbackCancelled(p) \/ CallbackFailed(p)

CancelStep(p) == CancelCheck(p) \/ CancelStatus(p) \/ CancelFlag(p)

Environment ==
  \/ EventsInterrupted \/ EventsFail
  \/ \E t \in Xfers, r \in {"COMPLETED", "ERROR", "STALL"} : UrbFinishes(t, r)
  \/ Unplug

Next ==
  \/ ReaderStep
  \/ \E p \in Handlers : HandlerStep(p)
  \/ \E p \in Threads : CancelStep(p)
  \/ \E h \in Helpers : HelperEnter(h) \/ HelperLeave(h)
  \/ Environment
  \/ Closed

(* A handler is not overtaken for ever by URBs that finish as fast as it    *)
(* reaps them: it does not keep the events lock while it goes on running    *)
(* callbacks (a buffer takes 0.1 s and more of samples to fill).            *)
KeepsUp(p) == []<>(evOwner # p) \/ <>[](inCb = NoXfer) \/ <>[](inCb # NoXfer)

(* The scheduler runs every thread that can run. *)
Fairness ==
  /\ WF_vars(ReaderStep)
  /\ \A p \in Handlers : WF_vars(HandlerStep(p)) /\ KeepsUp(p)
  /\ \A p \in Threads : WF_vars(CancelStep(p))

Spec == Init /\ [][Next]_vars
FairSpec == Spec /\ Fairness
-----------------------------------------------------------------------------
(* Properties.                                                             *)

\* Every variable keeps its type.
TypeOK ==
  /\ status \in AsyncStatus
  /\ asyncCancel \in BOOLEAN
  /\ devLost \in BOOLEAN
  /\ xferErrors \in Nat
  /\ allocated \in BOOLEAN
  /\ xstatus \in [Xfers -> Results]
  /\ inFlight \in [Xfers -> BOOLEAN]
  /\ cancelling \in [Xfers -> BOOLEAN]
  /\ kern \in [Xfers -> Kernel]
  /\ plugged \in BOOLEAN
  /\ evOwner \in Handlers \cup {None}
  /\ inCb \in Xfers \cup {NoXfer}
  /\ rpc \in ReaderPc
  /\ idx \in Xfers
  /\ nextStatus \in {"INACTIVE", "CANCELING"}
  /\ cancelOk \in BOOLEAN
  /\ cpc \in [Threads -> {"none", "check", "status", "flag"}]
  /\ faults \in 0..MaxFaults

\* The cancel scan skips a transfer whose status is CANCELLED.  That is sound:
\* such a transfer is never again in the kernel's hands, although filled
\* transfers go on submitting themselves while the stream is being cancelled.
CancelledStaysDown ==
  \A t \in Xfers : xstatus[t] = "CANCELLED" => kern[t] = "none" /\ ~inFlight[t]

\* A transfer is in flight exactly while usbfs holds an URB.
FlightMatchesKernel == \A t \in Xfers : inFlight[t] <=> kern[t] # "none"

\* The callback runs before the transfer is submitted again, and only on the
\* thread that holds the events lock.
CallbackOwnsBuffer ==
  inCb # NoXfer => /\ evOwner \in Handlers
                   /\ kern[inCb] = "none"
                   /\ ~inFlight[inCb]

\* Whichever thread reaps and whenever the reader cancels, libusb's flag and
\* the kernel agree on who has a buffer, and the one that the application's
\* callback reads is not being filled.
BuffersHaveOneOwner == FlightMatchesKernel /\ CallbackOwnsBuffer

\* A lost device never leaves the stream running: whoever found out is still
\* on its way to cancel it.
DeviceLossCancels ==
  devLost /\ status = "RUNNING" =>
    \E p \in Handlers : evOwner = p /\ cpc[p] \in {"check", "status"}

\* Transfer errors make the reader give the device up only when no transfer is
\* left: each error takes one transfer out of the stream for good, and the
\* error count, reset by any success, reaches the number of transfers only
\* when every one of them has failed.
GivenUpMeansDead ==
  devLost /\ plugged => \A t \in Xfers : xstatus[t] = "ERROR" /\ ~inFlight[t]

\* A device is given up for a reason, and then the stream is cancelled.
LossIsTold == DeviceLossCancels /\ GivenUpMeansDead

\* async_status INACTIVE, which rtlsdr_close waits for, means that the reader
\* has left its event loop and freed the buffers, also when a cancellation
\* arrives late.
InactiveMeansFreed ==
  status = "INACTIVE" =>
    /\ rpc \in {"start", "returned", "closing", "closeWait", "closed"}
    /\ ~allocated

\* What holds along the reader's way: nothing is known of a transfer that the
\* submit loop has not come to, and the buffers exist from the entry of
\* rtlsdr_read_async until it has left its event loop for good.
ReaderProgress ==
  /\ rpc = "start" => ~devLost
  /\ rpc \in {"start", "submit"} =>
       \A t \in Xfers : (rpc = "start" \/ t >= idx) =>
         /\ kern[t] = "none" /\ ~inFlight[t]
         /\ inCb # t /\ xstatus[t] = "COMPLETED"
  /\ rpc \in {"start", "publish", "returned", "closing", "closeWait",
              "closed"} => ~allocated

\* The inductive invariant.
IInv ==
  /\ TypeOK
  /\ FlightMatchesKernel
  /\ CancelledStaysDown
  /\ CallbackOwnsBuffer
  /\ DeviceLossCancels
  /\ InactiveMeansFreed
  /\ ReaderProgress

\* The reader as its callers see it: when rtlsdr_read_async is running, which
\* threads are in the middle of a cancellation, what ends the call.
Stream == INSTANCE AsyncStream WITH
  reading <- rpc \notin {"start", "returned", "closing", "closeWait",
                         "closed"},
  saw     <- {p \in Threads : cpc[p] = "status"},
  lost    <- devLost,
  trouble <- faults < MaxFaults,
  closed  <- rpc = "closed"

\* The reader implements AsyncStream: unless the event handling fails,
\* rtlsdr_read_async returns only after somebody wrote CANCELING, which only a
\* failed submission or a thread that saw RUNNING does; and the device is freed
\* only after the call returned and, if it is not lost, left INACTIVE behind.
ImplementsStream == Stream!StreamSpec

\* The documentation of libusb_free_transfer: an active transfer, one that was
\* submitted and has not completed, must not be freed (libusb io.c).
NoActiveTransferFreed == ~allocated => \A t \in Xfers : ~inFlight[t]

\* A cancelled stream ends: rtlsdr_read_async returns, however the kernel
\* finishes URBs while they are cancelled, and although filled transfers
\* submit themselves again.  A lost device ends the stream too.
StreamEnds ==
  /\ (status = "CANCELING" /\ allocated) ~> ~allocated
  /\ devLost ~> (rpc \in {"returned", "closing", "closeWait", "closed"})

\* rtlsdr_close returns: it blocks until all asynchronous operations have been
\* completed, if there are any.
CloseReturns == (rpc = "closing") ~> (rpc = "closed")
=============================================================================
