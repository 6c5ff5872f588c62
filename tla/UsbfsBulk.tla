----------------------------- MODULE UsbfsBulk ------------------------------
(***************************************************************************)
(* One bulk IN transfer in libusb's usbfs backend: it is split into URBs   *)
(* that are submitted together, complete one by one in the kernel, are     *)
(* discarded in reverse order, and are reaped in the order in which they   *)
(* completed.  AsyncReader sees all this as one step of the kernel.        *)
(*                                                                         *)
(* Three threads meet here under the lock of the transfer: the one that    *)
(* submits, one that cancels, and the one that handles events.  The loop   *)
(* that discards URBs is taken one ioctl at a time, because the kernel     *)
(* does not hold that lock.                                                *)
(*                                                                         *)
(* The dongle sends the bytes 1, 2, 3, ...  The kernel is external: URBs   *)
(* are served in the order of their submission, and a short or failed URB  *)
(* of a transfer with bulk continuation makes it give back the rest.       *)
(***************************************************************************)
EXTENDS Naturals, FiniteSets, Sequences

CONSTANTS
  N,  \* URBs of the transfer, num_urbs
  L   \* bytes of an URB, bulk_buffer_len

ASSUME BulkAssumption == N \in Nat \ {0} /\ L \in Nat \ {0}

Urbs == 1..N
Offsets == 1..(N * L)

VARIABLES
  continuation,  \* the kernel has USBFS_CAP_BULK_CONTINUATION
  where,        \* of each URB: unsent, kernel, done (to be reaped), reaped
  got, result,  \* its actual_length and its status
  done,         \* the kernel's list of completed URBs
  sent,         \* bytes the dongle has sent
  buf,          \* the transfer's buffer, 0 for a byte not received
  device,       \* "on", "halted" after a stall, "gone"
  stopped,      \* the kernel gives back, and refuses, continuation URBs
  retired, action, status,  \* num_retired, reap_action, reap_status
  transferred,  \* of the transfer
  lock,         \* itransfer->lock
  disc,         \* the loop of discard_urbs: next, first and last URB, result
  phase,        \* submitting, submitted, finished, reported or refused
  cancel,       \* libusb_cancel_transfer: none, busy or its result
  report        \* transfer->status when the callback is called

kernelVars == <<continuation, where, got, result, done, sent, device, stopped>>
privVars   == <<retired, action, status, transferred>>
callVars   == <<lock, disc, phase, cancel, report>>
vars == <<kernelVars, buf, privVars, callVars>>

NoDisc == [next |-> 0, first |-> 1, last |-> 0, ret |-> "ok"]

\* submit_bulk_transfer up to its loop.
Init ==
  /\ continuation \in BOOLEAN
  /\ where = [i \in Urbs |-> "unsent"]
  /\ got = [i \in Urbs |-> 0]
  /\ result = [i \in Urbs |-> "none"]
  /\ done = <<>>
  /\ sent = 0
  /\ buf = [o \in Offsets |-> 0]
  /\ device = "on"
  /\ stopped = FALSE
  /\ retired = 0 /\ action = "NORMAL" /\ status = "COMPLETED"
  /\ transferred = 0
  /\ lock = "submit"
  /\ disc = NoDisc
  /\ phase = "submitting"
  /\ cancel = "none"
  /\ report = "none"

-----------------------------------------------------------------------------
(* The kernel and the dongle.                                              *)

Pending == {i \in Urbs : where[i] = "kernel"}
Served(i) == i \in Pending /\ \A j \in Pending : i <= j

GiveBack(i, r) ==
  /\ where' = [where EXCEPT ![i] = "done"]
  /\ result' = [result EXCEPT ![i] = r]
  /\ done' = Append(done, i)

\* The kernel serves no URB that it is about to give back.
Serving(i) == Served(i) /\ device = "on" /\ ~stopped

Receive(i) ==
  /\ Serving(i)
  /\ got[i] < L
  /\ sent' = sent + 1
  /\ got' = [got EXCEPT ![i] = @ + 1]
  /\ buf' = [buf EXCEPT ![(i - 1) * L + got[i] + 1] = sent + 1]
  /\ UNCHANGED <<continuation, where, result, done, device, stopped, privVars,
                 callVars>>

CompleteFull(i) ==
  /\ Serving(i)
  /\ got[i] = L
  /\ GiveBack(i, "ok")
  /\ UNCHANGED <<continuation, got, sent, buf, device, stopped, privVars,
                 callVars>>

\* With bulk continuation every URB but the last has USBFS_URB_SHORT_NOT_OK.
CompleteShort(i) ==
  /\ Serving(i)
  /\ got[i] < L
  /\ IF continuation /\ i < N
     THEN GiveBack(i, "remoteio") /\ stopped' = TRUE
     ELSE GiveBack(i, "ok") /\ UNCHANGED stopped
  /\ UNCHANGED <<continuation, got, sent, buf, device, privVars, callVars>>

CompleteFailed(i) ==
  /\ Serving(i)
  /\ \/ GiveBack(i, "proto") /\ UNCHANGED device
     \/ i = N /\ got[i] = L /\ GiveBack(i, "overflow") /\ UNCHANGED device
     \/ GiveBack(i, "stall") /\ device' = "halted"
  /\ stopped' = continuation
  /\ UNCHANGED <<continuation, got, sent, buf, privVars, callVars>>

\* The rest of a transfer with bulk continuation.
GiveBackRest(i) ==
  /\ stopped
  /\ Served(i)
  /\ GiveBack(i, "connreset")
  /\ UNCHANGED <<continuation, got, sent, buf, device, stopped, privVars,
                 callVars>>

Unplug ==
  /\ device # "gone"
  /\ device' = "gone"
  /\ UNCHANGED <<continuation, where, got, result, done, sent, stopped, buf,
                 privVars, callVars>>

CompleteGone(i) ==
  /\ device = "gone"
  /\ i \in Pending
  /\ GiveBack(i, "nodev")
  /\ UNCHANGED <<continuation, got, sent, buf, device, stopped, privVars,
                 callVars>>

-----------------------------------------------------------------------------
(* discard_urbs: first..last, the last one first.                          *)

StartDiscard(first, last) ==
  disc' = [next |-> last, first |-> first, last |-> last, ret |-> "ok"]

Discarding == disc.next >= disc.first
Discarded == lock # "free" /\ ~Discarding

\* The ioctl returns when the URB has been given back, and finds none that is
\* not pending.
DiscardOne ==
  /\ Discarding
  /\ LET i == disc.next
     IN /\ IF device # "gone" /\ i \in Pending
           THEN /\ ~stopped \/ Served(i)
                /\ GiveBack(i, "noent")
           ELSE UNCHANGED <<where, result, done>>
        /\ disc' = [disc EXCEPT !.next = i - 1,
             !.ret = IF device = "gone" THEN "nodevice"
                     ELSE IF i \notin Pending /\ i = disc.last THEN "notfound"
                     ELSE @]
  /\ UNCHANGED <<continuation, got, sent, device, stopped, buf, privVars,
                 lock, phase, cancel, report>>

-----------------------------------------------------------------------------
(* submit_bulk_transfer: the loop.                                         *)

Submitting(i) ==
  /\ phase = "submitting" /\ ~Discarding /\ action = "NORMAL"
  /\ i \in Urbs /\ where[i] = "unsent"
  /\ \A j \in 1..(i - 1) : where[j] # "unsent"

\* The kernel takes no continuation of what it has stopped.
Refuses(i) == continuation /\ stopped /\ i > 1

SubmitUrb(i) ==
  /\ Submitting(i)
  /\ device # "gone" /\ ~Refuses(i)
  /\ where' = [where EXCEPT ![i] = "kernel"]
  /\ UNCHANGED <<continuation, got, result, done, sent, device, stopped, buf,
                 privVars, callVars>>

\* EREMOTEIO: the transfer needs no more URBs.  Those that were not submitted
\* count as retired.
SubmitRefused(i) ==
  /\ Submitting(i)
  /\ Refuses(i) /\ device # "gone"
  /\ action' = "COMPLETED_EARLY"
  /\ retired' = retired + (N - i + 1)
  /\ phase' = "submitted" /\ lock' = "free"
  /\ UNCHANGED <<kernelVars, buf, status, transferred, disc, cancel, report>>

\* Any other error.  For the first URB the caller is told; otherwise the URBs
\* submitted before are discarded.
FirstUrbFails ==
  /\ Submitting(1)
  /\ phase' = "refused" /\ lock' = "free"
  /\ UNCHANGED <<kernelVars, buf, privVars, disc, cancel, report>>

\* (variant) Those behind it are counted, and not itself.
LaterUrbFailsUncounted(i) ==
  /\ i > 1
  /\ Submitting(i)
  /\ action' = "SUBMIT_FAILED"
  /\ retired' = retired + (N - i)
  /\ StartDiscard(1, i - 1)
  /\ UNCHANGED <<kernelVars, buf, status, transferred, lock, phase, cancel,
                 report>>

LaterUrbFails(i) ==
  /\ i > 1
  /\ Submitting(i)
  /\ action' = "SUBMIT_FAILED"
  /\ retired' = retired + (N - i + 1)
  /\ StartDiscard(1, i - 1)
  /\ UNCHANGED <<kernelVars, buf, status, transferred, lock, phase, cancel,
                 report>>

SubmitEnds ==
  /\ phase = "submitting" /\ Discarded
  /\ action = "SUBMIT_FAILED" \/ \A i \in Urbs : where[i] # "unsent"
  /\ phase' = "submitted" /\ lock' = "free"
  /\ UNCHANGED <<kernelVars, buf, privVars, disc, cancel, report>>

-----------------------------------------------------------------------------
(* libusb_cancel_transfer and op_cancel_transfer.                          *)

CancelStarts ==
  /\ phase = "submitted" /\ lock = "free" /\ cancel = "none"
  /\ cancel' = "busy" /\ lock' = "cancel"
  /\ StartDiscard(1, N)
  /\ UNCHANGED <<kernelVars, buf, privVars, phase, report>>

\* The URBs were freed, the callback has not been called yet.
CancelTooLate ==
  /\ phase = "finished" /\ cancel = "none"
  /\ cancel' = "notfound"
  /\ UNCHANGED <<kernelVars, buf, privVars, lock, disc, phase, report>>

CancelEnds ==
  /\ lock = "cancel" /\ Discarded
  /\ cancel' = disc.ret
  /\ action' = IF disc.ret = "ok" /\ action # "ERROR"
               THEN "CANCELLED" ELSE action
  /\ lock' = "free"
  /\ UNCHANGED <<kernelVars, buf, retired, status, transferred, disc, phase,
                 report>>

-----------------------------------------------------------------------------
(* The event handler: reap_for_handle and handle_bulk_completion.          *)

Reap(i) ==
  /\ phase = "submitted" /\ lock = "free"
  /\ done # <<>> /\ i = Head(done)
  /\ done' = Tail(done)
  /\ where' = [where EXCEPT ![i] = "reaped"]
  /\ retired' = retired + 1
  /\ transferred' = transferred + got[i]
  /\ UNCHANGED <<continuation, got, result, sent, device, stopped, cancel,
                 report>>

AllRetired == retired + 1 = N

\* out_unlock, and completed: the URBs are freed.
Unlock == UNCHANGED <<lock, disc, phase>>
Finish == phase' = "finished" /\ UNCHANGED <<lock, disc>>

\* (variant) The URBs behind a short or failed one are left to end by
\* themselves.
LeaveRemaining(i) == IF AllRetired THEN Finish ELSE Unlock

\* cancel_remaining
CancelRemaining(i) ==
  IF AllRetired
  THEN Finish
  ELSE lock' = "reap" /\ StartDiscard(i + 1, N) /\ UNCHANGED phase

\* (variant) Surplus data stays where it was received.
ReapAbnormalInPlace(i) ==
  /\ action # "NORMAL"
  /\ Reap(i)
  /\ IF AllRetired
     THEN /\ status' = IF action # "COMPLETED_EARLY" /\ status = "COMPLETED"
                       THEN "ERROR" ELSE status
          /\ Finish
     ELSE UNCHANGED status /\ Unlock
  /\ UNCHANGED <<buf, action>>

\* Cancelled, not submitted as a whole, failed or completed early: surplus data
\* is moved behind what was received before.
ReapAbnormal(i) ==
  /\ action # "NORMAL"
  /\ Reap(i)
  /\ buf' = [o \in Offsets |->
               IF o \in (transferred + 1)..(transferred + got[i])
               THEN buf[(i - 1) * L + (o - transferred)] ELSE buf[o]]
  /\ IF AllRetired
     THEN /\ status' = IF action # "COMPLETED_EARLY" /\ status = "COMPLETED"
                       THEN "ERROR" ELSE status
          /\ Finish
     ELSE UNCHANGED status /\ Unlock
  /\ UNCHANGED action

\* (variant) A short URB completes the transfer at once.
ReapEndsShort(i) ==
  /\ action = "NORMAL"
  /\ Reap(i)
  /\ result[i] \in {"ok", "remoteio", "noent", "connreset"}
  /\ IF i = N \/ got[i] < L THEN Finish ELSE Unlock
  /\ UNCHANGED <<buf, action, status>>

\* The last URB, or a full one, or a short one.  A discarded URB counts like
\* one of its length.
ReapGood(i) ==
  /\ action = "NORMAL"
  /\ Reap(i)
  /\ result[i] \in {"ok", "remoteio", "noent", "connreset"}
  /\ IF i = N THEN Finish /\ UNCHANGED action
     ELSE IF got[i] < L THEN action' = "COMPLETED_EARLY" /\ CancelRemaining(i)
     ELSE Unlock /\ UNCHANGED action
  /\ UNCHANGED <<buf, status>>

\* The transfer is torn down, but counts as normal.
ReapStalled(i) ==
  /\ action = "NORMAL"
  /\ Reap(i)
  /\ \/ result[i] = "nodev" /\ status' = "NO_DEVICE"
     \/ /\ result[i] = "stall"
        /\ status' = IF status = "COMPLETED" THEN "STALL" ELSE status
  /\ CancelRemaining(i)
  /\ UNCHANGED <<buf, action>>

ReapOverflow(i) ==
  /\ action = "NORMAL"
  /\ Reap(i)
  /\ result[i] = "overflow"
  /\ status' = IF status = "COMPLETED" THEN "OVERFLOW" ELSE status
  /\ Finish
  /\ UNCHANGED <<buf, action>>

ReapError(i) ==
  /\ action = "NORMAL"
  /\ Reap(i)
  /\ result[i] = "proto"
  /\ action' = "ERROR"
  /\ status' = IF status = "COMPLETED" THEN "ERROR" ELSE status
  /\ CancelRemaining(i)
  /\ UNCHANGED buf

ReapEnds ==
  /\ lock = "reap" /\ Discarded
  /\ lock' = "free"
  /\ UNCHANGED <<kernelVars, buf, privVars, disc, phase, cancel, report>>

\* usbi_handle_transfer_cancellation or usbi_handle_transfer_completion.
Report ==
  /\ phase = "finished"
  /\ report' = IF action = "CANCELLED" THEN "CANCELLED" ELSE status
  /\ phase' = "reported"
  /\ UNCHANGED <<kernelVars, buf, privVars, lock, disc, cancel>>

\* usbi_handle_disconnect: the file descriptor is polled no more.
Disconnect ==
  /\ device = "gone"
  /\ phase = "submitted" /\ lock = "free"
  /\ report' = "NO_DEVICE"
  /\ phase' = "reported"
  /\ UNCHANGED <<kernelVars, buf, privVars, lock, disc, cancel>>

-----------------------------------------------------------------------------
KernelGivesBack(i) == GiveBackRest(i) \/ CompleteGone(i)
Dongle(i) ==
  Receive(i) \/ CompleteFull(i) \/ CompleteShort(i) \/ CompleteFailed(i)

SubmitStep ==
  \/ SubmitEnds
  \/ \E i \in Urbs : SubmitUrb(i) \/ SubmitRefused(i) \/ LaterUrbFails(i)

HandlerStep ==
  \/ ReapEnds \/ Report \/ Disconnect
  \/ \E i \in Urbs : \/ ReapAbnormal(i) \/ ReapGood(i) \/ ReapStalled(i)
                     \/ ReapOverflow(i) \/ ReapError(i)

\* Nothing is left to do, or the dongle sends nothing and nobody cancels.
Over == phase \in {"reported", "refused"} /\ UNCHANGED vars

Next ==
  \/ \E i \in Urbs : Dongle(i) \/ KernelGivesBack(i)
  \/ Unplug
  \/ SubmitStep \/ FirstUrbFails
  \/ DiscardOne
  \/ CancelStarts \/ CancelTooLate \/ CancelEnds
  \/ HandlerStep
  \/ Over

(* Threads inside libusb go on, the event handler is there, and the kernel   *)
(* gives back what it has said it would; the dongle need not send anything.  *)
Fairness ==
  /\ WF_vars(SubmitStep) /\ WF_vars(DiscardOne) /\ WF_vars(CancelEnds)
  /\ WF_vars(HandlerStep)
  /\ WF_vars(\E i \in Urbs : KernelGivesBack(i))

Spec == Init /\ [][Next]_vars
FairSpec == Spec /\ Fairness
-----------------------------------------------------------------------------
(* Properties.                                                             *)

Results == {"ok", "remoteio", "connreset", "noent", "nodev", "stall", "proto",
            "overflow"}
Statuses == {"COMPLETED", "ERROR", "STALL", "OVERFLOW", "NO_DEVICE"}

\* Every variable keeps its type.
TypeOK ==
  /\ continuation \in BOOLEAN
  /\ where \in [Urbs -> {"unsent", "kernel", "done", "reaped"}]
  /\ got \in [Urbs -> 0..L]
  /\ result \in [Urbs -> Results \cup {"none"}]
  /\ done \in Seq(Urbs) /\ Len(done) <= N
  /\ sent \in 0..(N * L) /\ transferred \in 0..(N * L)
  /\ buf \in [Offsets -> 0..(N * L)]
  /\ device \in {"on", "halted", "gone"} /\ stopped \in BOOLEAN
  /\ action \in {"NORMAL", "COMPLETED_EARLY", "SUBMIT_FAILED", "ERROR",
                 "CANCELLED"}
  /\ status \in Statuses
  /\ lock \in {"free", "submit", "cancel", "reap"}
  /\ disc \in [next : 0..N, first : 1..(N + 1), last : 0..N,
               ret : {"ok", "notfound", "nodevice"}]
  /\ phase \in {"submitting", "submitted", "finished", "reported", "refused"}
  /\ cancel \in {"none", "busy", "ok", "notfound", "nodevice"}
  /\ report \in Statuses \cup {"CANCELLED", "none"}
  /\ retired \in 0..N

AllBack == \A i \in Urbs : where[i] \in {"unsent", "reaped"}

\* The two ways in which the last URB, which discard_urbs discards first, is
\* taken for the end of the transfer: reap_action is still NORMAL when the loss
\* of the device interrupts a cancellation, and after a stall.  (The code means
\* to "cancel remaining urbs and wait for their completion".)
DiscardedLooksLast ==
  cancel = "nodevice" \/ (~continuation /\ \E i \in Urbs : result[i] = "stall")

\* But for these two, the URBs are freed only when none of them is in the
\* kernel, or in its list of completed URBs, from where the event handler would
\* take it later, whatever was submitted, cancelled, cut short or refused in
\* which order.
FreedUrbsAreBack == phase = "finished" /\ ~DiscardedLooksLast => AllBack

\* Nor is a transfer forgotten: until its URBs are freed, or its file descriptor is
\* polled no more, one of them is still to come to the event handler, however they
\* were counted and whichever was taken for the last.
IsNotForgotten == phase = "submitted" => ~AllBack

\* What the callback is told is true, whatever was cancelled, cut short or
\* moved.  When all URBs are back, it finds every byte the dongle sent, in one
\* piece and in order.  A transfer is reported as completed only if its buffer
\* is full or the dongle itself ended an URB early, were it with an error that
\* submit_bulk_transfer takes for a short URB: what a cancellation cut off never
\* looks complete, unless it ran into the loss of the device.  It is reported as
\* cancelled if and only if somebody was told that it is being cancelled, except
\* that an error or the loss of the device is reported instead.
ReportIsTrue ==
  /\ phase = "finished" /\ AllBack =>
       transferred = sent /\ \A o \in 1..transferred : buf[o] = o
  /\ report = "COMPLETED" /\ cancel # "nodevice" =>
       \/ transferred = N * L
       \/ \E i \in Urbs :
            \/ result[i] \in {"proto", "stall"}
            \/ result[i] \in {"ok", "remoteio"} /\ got[i] < L
  /\ report = "CANCELLED" => cancel = "ok"
  /\ report # "none" /\ cancel = "ok" =>
       report \in {"CANCELLED", "ERROR", "NO_DEVICE"}

\* A transfer that was cancelled, whose device is gone, or one of whose URBs
\* ended short or failed, is reported, though its other URBs would wait for
\* data for ever.
TransferEnds ==
  (\/ cancel = "busy"
   \/ device = "gone" /\ phase = "submitted"
   \/ \E i \in Urbs : where[i] = "done" /\ (result[i] # "ok" \/ got[i] < L))
  ~> (phase = "reported")
=============================================================================
