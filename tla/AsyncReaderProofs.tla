------------------------- MODULE AsyncReaderProofs -------------------------
(***************************************************************************)
(* Theorems about AsyncReader, for any number of transfers, of cancelling  *)
(* threads and of event-handling threads, and any bound on the faults: its *)
(* invariants, and that it implements AsyncStream.                         *)
(***************************************************************************)
EXTENDS AsyncReader, FiniteSetTheorems, TLAPS

\* The initial state satisfies the inductive invariant.
LEMMA InitIInv == Init => IInv
<1> SUFFICES ASSUME Init PROVE IInv
  OBVIOUS
<1>1. TypeOK
  <2>1. cpc \in [Threads -> {"none", "check", "status", "flag"}]
    BY DEF Init
  <2>2. idx \in Xfers /\ faults \in 0..MaxFaults
    BY NAssumption, FaultAssumption DEF Init, Xfers
  <2> QED
    BY <2>1, <2>2 DEF Init, TypeOK, AsyncStatus, Results, Kernel, ReaderPc,
                      Handlers, NoXfer
<1>2. FlightMatchesKernel /\ CancelledStaysDown /\ CallbackOwnsBuffer
  BY DEF Init, FlightMatchesKernel, CancelledStaysDown, CallbackOwnsBuffer
<1>3. DeviceLossCancels /\ InactiveMeansFreed /\ ReaderProgress
  BY DEF Init, Xfers, NoXfer, DeviceLossCancels, InactiveMeansFreed, ReaderProgress
<1> QED
  BY <1>1, <1>2, <1>3 DEF IInv

\* Every step keeps every variable in its type.
LEMMA TypeStep ==
  ASSUME TypeOK, [Next]_vars
  PROVE  TypeOK'
<1>1. CASE ReadAsync
  <2>1. idx' \in Xfers
    BY <1>1, NAssumption DEF ReadAsync, Xfers
  <2> QED
    BY <1>1, <2>1 DEF ReadAsync, TypeOK, AsyncStatus, ReaderPc, usbVars, evVars
<1>2. CASE SubmitOk
  BY <1>2, NAssumption, FaultAssumption DEF SubmitOk, Submitted, TypeOK, Xfers,
     NoXfer, AsyncStatus, Results, Kernel, ReaderPc, Handlers, Threads,
     devVars, usbVars, evVars, loopVars
<1>3. CASE SubmitFails
  BY <1>3, NAssumption, FaultAssumption DEF SubmitFails, NotSubmitted,
     SubmitFault, TypeOK, Xfers, NoXfer, AsyncStatus, Results, Kernel,
     ReaderPc, Handlers, Threads, devVars, usbVars, evVars, loopVars
<1>4. CASE EnterEvents
  BY <1>4, NAssumption, FaultAssumption DEF EnterEvents, TypeOK, Xfers, NoXfer,
     AsyncStatus, Results, Kernel, ReaderPc, Handlers, Threads, devVars,
     usbVars, evVars, loopVars
<1>5. CASE LeaveEvents
  BY <1>5, NAssumption, FaultAssumption DEF LeaveEvents, EventsReturned,
     ScanNext, TypeOK, Xfers, NoXfer, AsyncStatus, Results, Kernel, ReaderPc,
     Handlers, Threads, devVars, usbVars, evVars, loopVars
<1>6. CASE SkipEvents
  BY <1>6, NAssumption, FaultAssumption DEF SkipEvents, EventsReturned,
     ScanNext, TypeOK, Xfers, NoXfer, AsyncStatus, Results, Kernel, ReaderPc,
     Handlers, Threads, devVars, usbVars, evVars, loopVars
<1>7. CASE CheckCanceling
  BY <1>7, NAssumption, FaultAssumption DEF CheckCanceling, TypeOK, Xfers,
     NoXfer, AsyncStatus, Results, Kernel, ReaderPc, Handlers, Threads,
     devVars, usbVars, evVars, loopVars
<1>8. CASE ScanSkip
  BY <1>8, NAssumption, FaultAssumption DEF ScanSkip, ScanNext, TypeOK, Xfers,
     NoXfer, AsyncStatus, Results, Kernel, ReaderPc, Handlers, Threads,
     devVars, usbVars, evVars, loopVars
<1>9. CASE ScanCancel
  BY <1>9, NAssumption, FaultAssumption DEF ScanCancel, TypeOK, Xfers, NoXfer,
     AsyncStatus, Results, Kernel, ReaderPc, Handlers, Threads, devVars,
     usbVars, evVars, loopVars
<1>10. CASE FreeBuffers
  BY <1>10, NAssumption, FaultAssumption DEF FreeBuffers, TypeOK, Xfers,
     NoXfer, AsyncStatus, Results, Kernel, ReaderPc, Handlers, Threads,
     devVars, usbVars, evVars, loopVars
<1>11. CASE PublishStatus
  BY <1>11, NAssumption, FaultAssumption DEF PublishStatus, TypeOK, Xfers,
     NoXfer, AsyncStatus, Results, Kernel, ReaderPc, Handlers, Threads,
     devVars, usbVars, evVars, loopVars
<1>12. CASE JoinHelpers
  BY <1>12, NAssumption, FaultAssumption DEF JoinHelpers, TypeOK, Xfers,
     NoXfer, AsyncStatus, Results, Kernel, ReaderPc, Handlers, Threads,
     devVars, usbVars, evVars, loopVars
<1>13. CASE CloseBegin
  BY <1>13, NAssumption, FaultAssumption DEF CloseBegin, TypeOK, Xfers, NoXfer,
     AsyncStatus, Results, Kernel, ReaderPc, Handlers, Threads, devVars,
     usbVars, evVars, loopVars
<1>14. CASE CloseWait
  BY <1>14, NAssumption, FaultAssumption DEF CloseWait, TypeOK, Xfers, NoXfer,
     AsyncStatus, Results, Kernel, ReaderPc, Handlers, Threads, devVars,
     usbVars, evVars, loopVars
<1>15. ASSUME NEW p \in Handlers, NEW t \in Xfers, Reap(p, t)
      PROVE  TypeOK'
  BY <1>15, NAssumption, FaultAssumption DEF Reap, Reapable, TypeOK, Xfers,
     NoXfer, AsyncStatus, Results, Kernel, ReaderPc, Handlers, Threads,
     devVars, usbVars, evVars, loopVars
<1>16. ASSUME NEW p \in Handlers, CallbackCompleted(p) PROVE TypeOK'
  <2>1. inCb \in Xfers
    BY <1>16 DEF CallbackCompleted, TypeOK
  <2>2. /\ kern' \in [Xfers -> Kernel]
        /\ inFlight' \in [Xfers -> BOOLEAN]
        /\ cancelling' \in [Xfers -> BOOLEAN]
    BY <1>16, <2>1 DEF CallbackCompleted, Submitted, NotSubmitted, TypeOK, Kernel
  <2>3. faults' \in 0..MaxFaults
    BY <1>16, FaultAssumption DEF CallbackCompleted, SubmitFault, TypeOK
  <2> QED
    BY <1>16, <2>2, <2>3 DEF CallbackCompleted, TypeOK, NoXfer, loopVars
<1>17. ASSUME NEW p \in Handlers, CallbackCancelled(p) PROVE TypeOK'
  BY <1>17, NAssumption, FaultAssumption DEF CallbackCancelled, TypeOK, Xfers,
     NoXfer, AsyncStatus, Results, Kernel, ReaderPc, Handlers, Threads,
     devVars, usbVars, evVars, loopVars
<1>18. ASSUME NEW p \in Handlers, CallbackFailed(p) PROVE TypeOK'
  <2>1. xferErrors' \in Nat
    BY <1>18 DEF CallbackFailed, TypeOK
  <2>3. devLost' \in BOOLEAN
    BY <1>18 DEF CallbackFailed, TypeOK
  <2>2. cpc' \in [Threads -> {"none", "check", "status", "flag"}]
    BY <1>18 DEF CallbackFailed, TypeOK
  <2> QED
    BY <1>18, <2>1, <2>2, <2>3 DEF CallbackFailed, TypeOK, NoXfer, usbVars, loopVars
<1>19. ASSUME NEW p \in Threads, CancelCheck(p) PROVE TypeOK'
  BY <1>19, NAssumption, FaultAssumption DEF CancelCheck, TypeOK, Xfers,
     NoXfer, AsyncStatus, Results, Kernel, ReaderPc, Handlers, Threads,
     devVars, usbVars, evVars, loopVars
<1>20. ASSUME NEW p \in Threads, CancelStatus(p) PROVE TypeOK'
  BY <1>20, NAssumption, FaultAssumption DEF CancelStatus, TypeOK, Xfers,
     NoXfer, AsyncStatus, Results, Kernel, ReaderPc, Handlers, Threads,
     devVars, usbVars, evVars, loopVars
<1>21. ASSUME NEW p \in Threads, CancelFlag(p) PROVE TypeOK'
  BY <1>21, NAssumption, FaultAssumption DEF CancelFlag, TypeOK, Xfers, NoXfer,
     AsyncStatus, Results, Kernel, ReaderPc, Handlers, Threads, devVars,
     usbVars, evVars, loopVars
<1>22. ASSUME NEW h \in Helpers, HelperEnter(h) PROVE TypeOK'
  BY <1>22, NAssumption, FaultAssumption DEF HelperEnter, TypeOK, Xfers,
     NoXfer, AsyncStatus, Results, Kernel, ReaderPc, Handlers, Threads,
     devVars, usbVars, evVars, loopVars
<1>23. ASSUME NEW h \in Helpers, HelperLeave(h) PROVE TypeOK'
  BY <1>23, NAssumption, FaultAssumption DEF HelperLeave, TypeOK, Xfers,
     NoXfer, AsyncStatus, Results, Kernel, ReaderPc, Handlers, Threads,
     devVars, usbVars, evVars, loopVars
<1>24. CASE EventsInterrupted
  BY <1>24, NAssumption, FaultAssumption DEF EventsInterrupted, EventsReturned,
     ScanNext, TypeOK, Xfers, NoXfer, AsyncStatus, Results, Kernel, ReaderPc,
     Handlers, Threads, devVars, usbVars, evVars, loopVars
<1>25. CASE EventsFail
  BY <1>25, NAssumption, FaultAssumption DEF EventsFail, TypeOK, Xfers, NoXfer,
     AsyncStatus, Results, Kernel, ReaderPc, Handlers, Threads, devVars,
     usbVars, evVars, loopVars
<1>26. ASSUME NEW t \in Xfers, NEW r \in {"COMPLETED", "ERROR", "STALL"}, UrbFinishes(t, r)
      PROVE  TypeOK'
  BY <1>26, NAssumption, FaultAssumption DEF UrbFinishes, TypeOK, Xfers,
     NoXfer, AsyncStatus, Results, Kernel, ReaderPc, Handlers, Threads,
     devVars, usbVars, evVars, loopVars
<1>27. CASE Unplug
  <2>1. kern' \in [Xfers -> Kernel]
    BY <1>27 DEF Unplug, TypeOK, Kernel, Results
  <2> QED
    BY <1>27, <2>1 DEF Unplug, TypeOK, devVars, evVars, loopVars
<1>28. CASE UNCHANGED vars
  BY <1>28 DEF vars, TypeOK, devVars, usbVars, evVars, loopVars
<1> QED
  BY <1>1, <1>2, <1>3, <1>4, <1>5, <1>6, <1>7, <1>8, <1>9, <1>10, <1>11, <1>12,
     <1>13, <1>14, <1>15, <1>16, <1>17, <1>18, <1>19, <1>20, <1>21, <1>22,
     <1>23, <1>24, <1>25, <1>26, <1>27, <1>28
     DEF Next, ReaderStep, HandlerStep, CancelStep, Environment, Closed

\* The steps that move a transfer between libusb and the kernel.
LEMMA KernelFrame ==
  ASSUME [Next]_vars
  PROVE  \/ UNCHANGED <<kern, inFlight, xstatus>>
         \/ SubmitOk \/ SubmitFails \/ ScanCancel \/ Unplug
         \/ (\E p \in Handlers, t \in Xfers : Reap(p, t))
         \/ (\E p \in Handlers : CallbackCompleted(p))
         \/ (\E t \in Xfers, r \in {"COMPLETED", "ERROR", "STALL"} : UrbFinishes(t, r))
BY DEF Next, ReaderStep, HandlerStep, CancelStep, Environment, Closed,
   ReadAsync, EnterEvents, LeaveEvents, SkipEvents, CheckCanceling, ScanSkip,
   FreeBuffers, PublishStatus, JoinHelpers, CloseBegin, CloseWait,
   CallbackCancelled, CallbackFailed, CancelCheck, CancelStatus, CancelFlag,
   HelperEnter, HelperLeave, EventsInterrupted, EventsFail, vars, devVars,
   usbVars, evVars, loopVars

\* The steps that take or release the events lock or run a callback.
LEMMA EventFrame ==
  ASSUME [Next]_vars
  PROVE  \/ UNCHANGED <<evOwner, inCb>>
         \/ EnterEvents \/ LeaveEvents \/ EventsInterrupted \/ EventsFail
         \/ (\E h \in Helpers : HelperEnter(h))
         \/ (\E h \in Helpers : HelperLeave(h))
         \/ (\E p \in Handlers, t \in Xfers : Reap(p, t))
         \/ (\E p \in Handlers : CallbackCompleted(p))
         \/ (\E p \in Handlers : CallbackCancelled(p))
         \/ (\E p \in Handlers : CallbackFailed(p))
BY DEF Next, ReaderStep, HandlerStep, CancelStep, Environment, Closed,
   ReadAsync, SubmitOk, SubmitFails, SkipEvents, CheckCanceling, ScanSkip,
   ScanCancel, FreeBuffers, PublishStatus, JoinHelpers, CloseBegin, CloseWait,
   CancelCheck, CancelStatus, CancelFlag, UrbFinishes, Unplug, vars, devVars,
   usbVars, evVars, loopVars

\* Each of them keeps libusb's flag and the kernel in agreement.
LEMMA FlightStep ==
  ASSUME TypeOK, FlightMatchesKernel, [Next]_vars
  PROVE  FlightMatchesKernel'
<1> USE DEF TypeOK, FlightMatchesKernel
<1>1. CASE UNCHANGED <<kern, inFlight, xstatus>>
  BY <1>1
<1>2. CASE SubmitOk
  BY <1>2 DEF SubmitOk, Submitted
<1>3. CASE SubmitFails
  BY <1>3 DEF SubmitFails, NotSubmitted
<1>4. CASE ScanCancel
  BY <1>4 DEF ScanCancel
<1>5. CASE Unplug
  BY <1>5 DEF Unplug
<1>6. ASSUME NEW p \in Handlers, NEW t \in Xfers, Reap(p, t)
      PROVE  FlightMatchesKernel'
  BY <1>6 DEF Reap
<1>7. ASSUME NEW p \in Handlers, CallbackCompleted(p) PROVE FlightMatchesKernel'
  BY <1>7 DEF CallbackCompleted, Submitted, NotSubmitted
<1>8. ASSUME NEW t \in Xfers, NEW r \in {"COMPLETED", "ERROR", "STALL"},
             UrbFinishes(t, r)
      PROVE  FlightMatchesKernel'
  BY <1>8 DEF UrbFinishes
<1> QED
  BY <1>1, <1>2, <1>3, <1>4, <1>5, <1>6, <1>7, <1>8, KernelFrame

\* A cancelled transfer stays down: only filled transfers are submitted again,
\* and the submit loop has not come to a transfer twice.
LEMMA CancelledStep ==
  ASSUME TypeOK, FlightMatchesKernel, CancelledStaysDown, ReaderProgress,
         [Next]_vars
  PROVE  CancelledStaysDown'
<1> USE DEF TypeOK, CancelledStaysDown
<1>1. CASE UNCHANGED <<kern, inFlight, xstatus>>
  BY <1>1
<1>2. CASE SubmitOk
  <2>1. xstatus[idx] = "COMPLETED"
    BY <1>2 DEF SubmitOk, ReaderProgress, Xfers
  <2> QED
    BY <1>2, <2>1 DEF SubmitOk, Submitted
<1>3. CASE SubmitFails
  BY <1>3 DEF SubmitFails, NotSubmitted
<1>4. CASE ScanCancel
  BY <1>4 DEF ScanCancel
<1>5. CASE Unplug
  BY <1>5 DEF Unplug
<1>6. ASSUME NEW p \in Handlers, NEW t \in Xfers, Reap(p, t)
      PROVE  CancelledStaysDown'
  BY <1>6 DEF Reap
<1>7. ASSUME NEW p \in Handlers, CallbackCompleted(p) PROVE CancelledStaysDown'
  BY <1>7 DEF CallbackCompleted, Submitted, NotSubmitted
<1>8. ASSUME NEW t \in Xfers, NEW r \in {"COMPLETED", "ERROR", "STALL"},
             UrbFinishes(t, r)
      PROVE  CancelledStaysDown'
  BY <1>8 DEF UrbFinishes
<1> QED
  BY <1>1, <1>2, <1>3, <1>4, <1>5, <1>6, <1>7, <1>8, KernelFrame

\* The callback's buffer stays with the callback.  The reader may scan and
\* submit while another thread runs the callback, but neither touches the
\* transfer: it is not in flight, and the submit loop has passed it.
LEMMA CallbackStep ==
  ASSUME TypeOK, CallbackOwnsBuffer, ReaderProgress, [Next]_vars
  PROVE  CallbackOwnsBuffer'
<1> USE DEF TypeOK, CallbackOwnsBuffer
<1>1. ASSUME UNCHANGED <<evOwner, inCb>>, inCb # NoXfer
      PROVE  CallbackOwnsBuffer'
  <2>1. kern[inCb] = "none" /\ ~inFlight[inCb] /\ inCb \in Xfers
    BY <1>1
  <2>2. CASE SubmitOk
    <3>1. inCb # idx
      BY <2>2 DEF SubmitOk, ReaderProgress, Xfers
    <3> QED
      BY <1>1, <2>1, <2>2, <3>1 DEF SubmitOk, Submitted
  <2>3. CASE SubmitFails
    BY <1>1, <2>3 DEF SubmitFails, NotSubmitted
  <2>4. CASE ScanCancel
    BY <1>1, <2>4 DEF ScanCancel
  <2>5. CASE Unplug
    BY <1>1, <2>1, <2>5 DEF Unplug
  <2>6. ASSUME NEW t \in Xfers, NEW r \in {"COMPLETED", "ERROR", "STALL"},
               UrbFinishes(t, r)
        PROVE  CallbackOwnsBuffer'
    BY <1>1, <2>6 DEF UrbFinishes
  <2>7. CASE UNCHANGED <<kern, inFlight, xstatus>>
    BY <1>1, <2>7
  <2> QED
    BY <1>1, <2>2, <2>3, <2>4, <2>5, <2>6, <2>7, KernelFrame
       DEF Reap, CallbackCompleted
<1>2. CASE inCb' = NoXfer
  BY <1>2
<1>3. ASSUME NEW p \in Handlers, NEW t \in Xfers, Reap(p, t)
      PROVE  CallbackOwnsBuffer'
  BY <1>3 DEF Reap
<1> QED
  BY <1>1, <1>2, <1>3, EventFrame, ThreadAssumption
     DEF EnterEvents, LeaveEvents, EventsInterrupted, EventsFail, HelperEnter,
         HelperLeave, CallbackCompleted, CallbackCancelled, CallbackFailed,
         Handlers

\* The steps that write async_status, lose the device or give or take the
\* buffers.
LEMMA ControlFrame ==
  ASSUME [Next]_vars
  PROVE  \/ UNCHANGED <<status, devLost, allocated>>
         \/ ReadAsync \/ SubmitFails \/ FreeBuffers \/ PublishStatus
         \/ (\E p \in Handlers : CallbackFailed(p))
         \/ (\E p \in Threads : CancelStatus(p))
BY DEF Next, ReaderStep, HandlerStep, CancelStep, Environment, Closed,
   SubmitOk, EnterEvents, LeaveEvents, SkipEvents, CheckCanceling, ScanSkip,
   ScanCancel, JoinHelpers, CloseBegin, CloseWait, Reap, CallbackCompleted,
   CallbackCancelled, CancelCheck, CancelFlag, HelperEnter, HelperLeave,
   EventsInterrupted, EventsFail, UrbFinishes, Unplug, vars, devVars, usbVars,
   evVars, loopVars

\* The steps that move the reader along.
LEMMA ReaderFrame ==
  ASSUME [Next]_vars
  PROVE  \/ UNCHANGED <<rpc, idx>>
         \/ ReadAsync \/ SubmitOk \/ SubmitFails \/ LeaveEvents \/ SkipEvents
         \/ EventsInterrupted \/ EventsFail \/ CheckCanceling \/ ScanSkip
         \/ ScanCancel \/ FreeBuffers \/ PublishStatus \/ JoinHelpers
         \/ CloseBegin \/ CloseWait
BY DEF Next, ReaderStep, HandlerStep, CancelStep, Environment, Closed,
   EnterEvents, Reap, CallbackCompleted, CallbackCancelled, CallbackFailed,
   CancelCheck, CancelStatus, CancelFlag, HelperEnter, HelperLeave,
   UrbFinishes, Unplug, vars, devVars, usbVars, evVars, loopVars

\* The steps of rtlsdr_cancel_async, and the callback that calls it.
LEMMA CpcFrame ==
  ASSUME [Next]_vars
  PROVE  \/ UNCHANGED <<cpc>>
         \/ (\E p \in Handlers : CallbackFailed(p))
         \/ (\E p \in Threads : CancelCheck(p))
         \/ (\E p \in Threads : CancelStatus(p))
         \/ (\E p \in Threads : CancelFlag(p))
BY DEF Next, ReaderStep, HandlerStep, CancelStep, Environment, Closed,
   ReadAsync, SubmitOk, SubmitFails, EnterEvents, LeaveEvents, SkipEvents,
   CheckCanceling, ScanSkip, ScanCancel, FreeBuffers, PublishStatus,
   JoinHelpers, CloseBegin, CloseWait, Reap, CallbackCompleted,
   CallbackCancelled, HelperEnter, HelperLeave, EventsInterrupted, EventsFail,
   UrbFinishes, Unplug, vars, devVars, usbVars, evVars, loopVars

\* A lost device keeps somebody busy cancelling: the handler that lost it is
\* the only one to end its rtlsdr_cancel_async, and it finds RUNNING and writes
\* CANCELING, or somebody else did.
LEMMA LossStep ==
  ASSUME TypeOK, DeviceLossCancels, ReaderProgress, [Next]_vars
  PROVE  DeviceLossCancels'
<1> SUFFICES ASSUME devLost', status' = "RUNNING"
             PROVE  \E p \in Handlers : evOwner' = p /\ cpc'[p] \in {"check", "status"}
  BY DEF DeviceLossCancels
<1>1. CASE ReadAsync
  BY <1>1 DEF ReadAsync, ReaderProgress
<1>2. ASSUME NEW p \in Handlers, CallbackFailed(p), ~devLost
      PROVE  evOwner' = p /\ cpc'[p] = "check"
  <2>1. p \in Threads
    BY DEF Handlers, Threads
  <2> QED
    BY <1>2, <2>1 DEF CallbackFailed, TypeOK
<1>3. ASSUME NEW p \in Handlers, evOwner = p, cpc[p] \in {"check", "status"},
             status = "RUNNING"
      PROVE  evOwner' = p /\ cpc'[p] \in {"check", "status"}
  <2>1. p \in Threads /\ p # None
    BY ThreadAssumption DEF Handlers, Threads
  <2>2. evOwner' = p
    <3>1. CASE UNCHANGED <<evOwner, inCb>>
      BY <1>3, <3>1
    <3>2. CASE LeaveEvents \/ EventsInterrupted \/ EventsFail
      BY <1>3, <3>2 DEF LeaveEvents, EventsInterrupted, EventsFail
    <3>3. CASE EnterEvents \/ \E h \in Helpers : HelperEnter(h)
      BY <1>3, <2>1, <3>3 DEF EnterEvents, HelperEnter
    <3>4. CASE \E h \in Helpers : HelperLeave(h)
      BY <1>3, <3>4 DEF HelperLeave
    <3>5. CASE \E q \in Handlers : \/ \E t \in Xfers : Reap(q, t)
                                   \/ CallbackCompleted(q)
                                   \/ CallbackCancelled(q)
                                   \/ CallbackFailed(q)
      BY <1>3, <3>5 DEF Reap, CallbackCompleted, CallbackCancelled, CallbackFailed
    <3> QED
      BY <3>1, <3>2, <3>3, <3>4, <3>5, EventFrame
  <2>3. cpc'[p] \in {"check", "status"}
    <3>1. CASE UNCHANGED cpc
      BY <1>3, <3>1
    <3>2. ASSUME NEW q \in Handlers, CallbackFailed(q)
          PROVE  cpc'[p] \in {"check", "status"}
      BY <1>3, <2>1, <3>2 DEF CallbackFailed, TypeOK
    <3>3. ASSUME NEW q \in Threads, CancelCheck(q)
          PROVE  cpc'[p] \in {"check", "status"}
      BY <1>3, <2>1, <3>3 DEF CancelCheck, TypeOK
    <3>4. ASSUME NEW q \in Threads, CancelStatus(q)
          PROVE  FALSE
      BY <3>4 DEF CancelStatus
    <3>5. ASSUME NEW q \in Threads, CancelFlag(q)
          PROVE  cpc'[p] \in {"check", "status"}
      BY <1>3, <2>1, <3>5 DEF CancelFlag, TypeOK
    <3> QED
      BY <3>1, <3>2, <3>3, <3>4, <3>5, CpcFrame
  <2> QED
    BY <2>2, <2>3
<1>4. CASE devLost /\ status = "RUNNING"
  BY <1>3, <1>4 DEF DeviceLossCancels
<1>5. CASE UNCHANGED <<status, devLost, allocated>>
  BY <1>4, <1>5
<1>6. CASE SubmitFails \/ \E p \in Threads : CancelStatus(p)
  BY <1>6 DEF SubmitFails, CancelStatus
<1>7. CASE FreeBuffers
  BY <1>4, <1>7 DEF FreeBuffers
<1>8. CASE PublishStatus
  BY <1>8 DEF PublishStatus, TypeOK
<1>9. CASE \E p \in Handlers : CallbackFailed(p)
  <2>1. status = "RUNNING"
    BY <1>9 DEF CallbackFailed
  <2> QED
    BY <1>2, <1>4, <1>9, <2>1 DEF TypeOK
<1> QED
  BY <1>1, <1>5, <1>6, <1>7, <1>8, <1>9, ControlFrame

\* INACTIVE is written by the reader alone, after it freed the buffers.
LEMMA InactiveStep ==
  ASSUME TypeOK, InactiveMeansFreed, ReaderProgress, [Next]_vars
  PROVE  InactiveMeansFreed'
<1>1. CASE ReadAsync \/ SubmitFails \/ \E p \in Threads : CancelStatus(p)
  BY <1>1 DEF ReadAsync, SubmitFails, CancelStatus, InactiveMeansFreed
<1>2. CASE FreeBuffers
  BY <1>2 DEF FreeBuffers, InactiveMeansFreed
<1>3. CASE PublishStatus
  BY <1>3 DEF PublishStatus, InactiveMeansFreed, ReaderProgress
<1>4. ASSUME UNCHANGED <<status, allocated>>, status = "INACTIVE",
             ~(ReadAsync \/ SubmitFails \/ FreeBuffers \/ PublishStatus)
      PROVE  rpc' \in {"start", "returned", "closing", "closeWait", "closed"}
  <2>1. rpc \in {"start", "returned", "closing", "closeWait", "closed"}
    BY <1>4 DEF InactiveMeansFreed
  <2> QED
    BY <1>4, <2>1, ReaderFrame
       DEF SubmitOk, LeaveEvents, SkipEvents, EventsInterrupted, EventsFail,
           EventsReturned, CheckCanceling, ScanSkip, ScanCancel,
           JoinHelpers, CloseBegin, CloseWait
<1> QED
  BY <1>1, <1>2, <1>3, <1>4, ControlFrame
     DEF InactiveMeansFreed, CallbackFailed

\* The reader's progress: a transfer the submit loop has not come to is known to
\* nobody else, and the buffers exist exactly while the event loop may use them.
LEMMA ProgressStep ==
  ASSUME TypeOK, CallbackOwnsBuffer, FlightMatchesKernel, ReaderProgress,
         [Next]_vars
  PROVE  ReaderProgress'
<1>1. rpc' = "start" => ~devLost'
  <2> SUFFICES ASSUME rpc' = "start" PROVE ~devLost'
    OBVIOUS
  <2>1. rpc = "start" /\ ~devLost
    BY ReaderFrame
       DEF ReadAsync, SubmitOk, SubmitFails, LeaveEvents, SkipEvents,
           EventsInterrupted, EventsFail, EventsReturned, ScanNext,
           CheckCanceling, ScanSkip, ScanCancel, FreeBuffers, PublishStatus,
           JoinHelpers, CloseBegin, CloseWait, ReaderProgress
  <2>2. inCb = NoXfer
    BY <2>1 DEF ReaderProgress, TypeOK
  <2> QED
    BY <2>1, <2>2, ControlFrame
       DEF ReadAsync, SubmitFails, FreeBuffers, PublishStatus, CallbackFailed,
           CancelStatus
<1>2. rpc' \in {"start", "publish", "returned", "closing", "closeWait", "closed"}
        => ~allocated'
  <2>1. CASE UNCHANGED rpc
    BY <2>1, ControlFrame
       DEF ReadAsync, SubmitFails, FreeBuffers, PublishStatus, CallbackFailed,
           CancelStatus, ReaderProgress
  <2>2. CASE FreeBuffers
    BY <2>2 DEF FreeBuffers
  <2>3. CASE ~FreeBuffers /\ rpc' # rpc
    <3>1. rpc' \in {"publish", "returned", "closing", "closeWait", "closed", "start"} =>
            rpc \in {"publish", "returned", "closing", "closeWait"}
      BY <2>3, ReaderFrame
         DEF ReadAsync, SubmitOk, SubmitFails, LeaveEvents, SkipEvents,
             EventsInterrupted, EventsFail, EventsReturned, ScanNext,
             CheckCanceling, ScanSkip, ScanCancel, PublishStatus,
             JoinHelpers, CloseBegin, CloseWait
    <3>2. rpc \in {"publish", "returned", "closing", "closeWait"} => ~allocated'
      BY ControlFrame
         DEF ReadAsync, SubmitFails, FreeBuffers, PublishStatus,
             CallbackFailed, CancelStatus, ReaderProgress
    <3> QED
      BY <3>1, <3>2
  <2> QED
    BY <2>1, <2>2, <2>3
<1>3. ASSUME rpc' \in {"start", "submit"}, NEW t \in Xfers,
             rpc' = "start" \/ t >= idx'
      PROVE  kern'[t] = "none" /\ ~inFlight'[t] /\ inCb' # t
             /\ xstatus'[t] = "COMPLETED"
  <2>1. /\ kern[t] = "none" /\ ~inFlight[t] /\ inCb # t /\ xstatus[t] = "COMPLETED"
        /\ SubmitOk => t # idx
        /\ rpc \in {"start", "submit"}
        /\ ~SubmitFails /\ ~ScanCancel
    <3>1. CASE UNCHANGED <<rpc, idx>>
      <4>1. ~SubmitOk /\ ~SubmitFails /\ ~ScanCancel
        BY <1>3, <3>1 DEF SubmitOk, SubmitFails, ScanCancel, TypeOK, Xfers
      <4>2. rpc \in {"start", "submit"} /\ (rpc = "start" \/ t >= idx)
        BY <1>3, <3>1
      <4> QED
        BY <4>1, <4>2 DEF ReaderProgress
    <3>2. CASE ReadAsync
      BY <1>3, <3>2 DEF ReadAsync, SubmitOk, SubmitFails, ScanCancel, ReaderProgress
    <3>3. CASE SubmitOk /\ rpc' = rpc
      <4>1. idx' = idx + 1 /\ rpc = "submit" /\ idx \in Nat /\ t \in Nat
        BY <3>3, NAssumption DEF SubmitOk, TypeOK, Xfers
      <4>2. t >= idx /\ t # idx
        BY <1>3, <3>3, <4>1
      <4> QED
        BY <4>1, <4>2 DEF ReaderProgress, SubmitFails, ScanCancel, SubmitOk
    <3> QED
      BY <1>3, <3>1, <3>2, <3>3, ReaderFrame
         DEF SubmitOk, SubmitFails, LeaveEvents, SkipEvents,
             EventsInterrupted, EventsFail, EventsReturned, ScanNext,
             CheckCanceling, ScanSkip, ScanCancel, FreeBuffers, PublishStatus,
             JoinHelpers, CloseBegin, CloseWait
  <2>2. kern'[t] = "none" /\ ~inFlight'[t] /\ xstatus'[t] = "COMPLETED"
    <3>1. CASE SubmitOk
      BY <2>1, <3>1 DEF SubmitOk, Submitted, TypeOK
    <3>2. CASE Unplug
      BY <2>1, <3>2 DEF Unplug, TypeOK
    <3>3. ASSUME NEW p \in Handlers, NEW u \in Xfers, Reap(p, u)
          PROVE  kern'[t] = "none" /\ ~inFlight'[t] /\ xstatus'[t] = "COMPLETED"
      BY <2>1, <3>3 DEF Reap, Reapable, Results, TypeOK
    <3>4. ASSUME NEW p \in Handlers, CallbackCompleted(p)
          PROVE  kern'[t] = "none" /\ ~inFlight'[t] /\ xstatus'[t] = "COMPLETED"
      BY <2>1, <3>4 DEF CallbackCompleted, Submitted, NotSubmitted, TypeOK
    <3>5. ASSUME NEW u \in Xfers, NEW r \in {"COMPLETED", "ERROR", "STALL"},
                 UrbFinishes(u, r)
          PROVE  kern'[t] = "none" /\ ~inFlight'[t] /\ xstatus'[t] = "COMPLETED"
      BY <2>1, <3>5 DEF UrbFinishes, TypeOK
    <3>6. CASE UNCHANGED <<kern, inFlight, xstatus>>
      BY <2>1, <3>6
    <3> QED
      BY <2>1, <3>1, <3>2, <3>3, <3>4, <3>5, <3>6, KernelFrame
  <2>3. inCb' # t
    <3>1. inCb' = inCb \/ inCb' = NoXfer \/ kern[inCb'] \in Results
      BY EventFrame
         DEF EnterEvents, LeaveEvents, EventsInterrupted, EventsFail,
             HelperEnter, HelperLeave, Reap, Reapable, CallbackCompleted,
             CallbackCancelled, CallbackFailed
    <3>2. t # NoXfer /\ kern[t] \notin Results
      BY <2>1 DEF Xfers, NoXfer, Results
    <3> QED
      BY <2>1, <3>1, <3>2
  <2> QED
    BY <2>2, <2>3
<1> QED
  BY <1>1, <1>2, <1>3 DEF ReaderProgress

-----------------------------------------------------------------------------
\* The invariant is inductive.
LEMMA IInvStep == IInv /\ [Next]_vars => IInv'
BY TypeStep, FlightStep, CancelledStep, CallbackStep, LossStep, InactiveStep,
   ProgressStep DEF IInv

\* The inductive invariant of the asynchronous reader holds in every behaviour.
THEOREM ReaderInvariant == Spec => []IInv
BY InitIInv, IInvStep, PTL DEF Spec

\* Every variable of the reader keeps its type.
THEOREM ReaderTypeOK == Spec => []TypeOK
<1>1. IInv => TypeOK
  BY DEF IInv
<1> QED
  BY <1>1, ReaderInvariant, PTL

\* The cancel scan of rtlsdr_read_async may skip a transfer whose status is
\* CANCELLED: it never gets back into the kernel's hands.
THEOREM ReaderCancelledStaysDown == Spec => []CancelledStaysDown
<1>1. IInv => CancelledStaysDown
  BY DEF IInv
<1> QED
  BY <1>1, ReaderInvariant, PTL

\* The kernel and the callback never have the same buffer, and libusb knows
\* which buffers the kernel has.
THEOREM ReaderBuffersHaveOneOwner == Spec => []BuffersHaveOneOwner
<1>1. IInv => BuffersHaveOneOwner
  BY DEF IInv, BuffersHaveOneOwner
<1> QED
  BY <1>1, ReaderInvariant, PTL

-----------------------------------------------------------------------------
(* Why a device that is still there is given up only when every transfer   *)
(* has failed: the error count never exceeds the number of transfers that  *)
(* are out of the stream for good.                                         *)

\* The transfers that failed, and whose callback has counted it.
Failed == {t \in Xfers : xstatus[t] = "ERROR" /\ ~inFlight[t] /\ inCb # t}

LossInv ==
  /\ \A t \in Xfers : "NO_DEVICE" \in {kern[t], xstatus[t]} => ~plugged
  /\ xferErrors <= Cardinality(Failed)
  /\ devLost /\ plugged => Failed = Xfers

\* A set of transfers has a size, and the whole set has the greatest.
LEMMA TransfersCount ==
  ASSUME NEW S \in SUBSET Xfers
  PROVE  /\ IsFiniteSet(S) /\ Cardinality(S) \in Nat
         /\ \A T \in SUBSET S : Cardinality(T) <= Cardinality(S)
         /\ Cardinality(S) >= N => S = Xfers
<1>1. IsFiniteSet(Xfers) /\ Cardinality(Xfers) = N
  BY NAssumption, FS_Interval DEF Xfers
<1>2. /\ IsFiniteSet(S) /\ Cardinality(S) <= N
      /\ Cardinality(S) = N => S = Xfers
  BY <1>1, FS_Subset
<1>3. Cardinality(S) \in Nat
  BY <1>2, FS_CardinalityType
<1>4. \A T \in SUBSET S : Cardinality(T) <= Cardinality(S)
  BY <1>2, FS_Subset
<1> QED
  BY <1>2, <1>3, <1>4, NAssumption

\* The steps that could take a transfer out of Failed, or put one into it.
LEMMA FailedFrame ==
  ASSUME [Next]_vars
  PROVE  \/ UNCHANGED <<xstatus, inFlight, inCb>>
         \/ SubmitOk
         \/ (\E p \in Handlers, t \in Xfers : Reap(p, t))
         \/ (\E p \in Handlers : CallbackCompleted(p))
         \/ (\E p \in Handlers : CallbackCancelled(p))
         \/ (\E p \in Handlers : CallbackFailed(p))
BY DEF Next, ReaderStep, HandlerStep, CancelStep, Environment, Closed,
   ReadAsync, SubmitFails, NotSubmitted, EnterEvents, LeaveEvents, SkipEvents,
   CheckCanceling, ScanSkip, ScanCancel, FreeBuffers, PublishStatus,
   JoinHelpers, CloseBegin, CloseWait, CancelCheck, CancelStatus, CancelFlag,
   HelperEnter, HelperLeave, EventsInterrupted, EventsFail, UrbFinishes,
   Unplug, vars, devVars, usbVars, evVars, loopVars

\* No step brings a failed transfer back: only filled ones are submitted again,
\* and the submit loop has not come to any that failed.
LEMMA FailedGrows ==
  ASSUME TypeOK, FlightMatchesKernel, ReaderProgress, [Next]_vars
  PROVE  Failed \subseteq Failed'
<1> USE DEF Failed, TypeOK
<1>1. CASE UNCHANGED <<xstatus, inFlight, inCb>>
  BY <1>1
<1>2. CASE SubmitOk
  <2>1. idx \notin Failed
    BY <1>2 DEF SubmitOk, ReaderProgress, Xfers
  <2> QED
    BY <1>2, <2>1 DEF SubmitOk, Submitted, evVars
<1>3. ASSUME NEW p \in Handlers, NEW t \in Xfers, Reap(p, t)
      PROVE  Failed \subseteq Failed'
  <2>1. t \notin Failed
    BY <1>3 DEF Reap, Reapable, FlightMatchesKernel, Results
  <2> QED
    BY <1>3, <2>1 DEF Reap
<1>4. ASSUME NEW p \in Handlers,
             CallbackCompleted(p) \/ CallbackCancelled(p) \/ CallbackFailed(p)
      PROVE  Failed \subseteq Failed'
  <2>1. inCb \notin Failed /\ NoXfer \notin Xfers
    BY NAssumption DEF Xfers, NoXfer
  <2> QED
    BY <1>4, <2>1 DEF CallbackCompleted, CallbackCancelled, CallbackFailed,
       Submitted, NotSubmitted, usbVars
<1> QED
  BY <1>1, <1>2, <1>3, <1>4, FailedFrame

\* The steps that count errors, lose the device, or finish a transfer.
LEMMA LossFrame ==
  ASSUME [Next]_vars
  PROVE  \/ UNCHANGED <<kern, xstatus, plugged>> /\ UNCHANGED <<xferErrors, devLost>>
         \/ /\ UNCHANGED <<xferErrors, devLost>>
            /\ \/ SubmitOk \/ ScanCancel \/ Unplug
               \/ (\E p \in Handlers, t \in Xfers : Reap(p, t))
               \/ (\E t \in Xfers, r \in {"COMPLETED", "ERROR", "STALL"} :
                     UrbFinishes(t, r))
         \/ (\E p \in Handlers : CallbackCompleted(p))
         \/ (\E p \in Handlers : CallbackFailed(p))
BY DEF Next, ReaderStep, HandlerStep, CancelStep, Environment, Closed,
   ReadAsync, SubmitOk, SubmitFails, NotSubmitted, EnterEvents, LeaveEvents,
   SkipEvents, CheckCanceling, ScanSkip, ScanCancel, FreeBuffers,
   PublishStatus, JoinHelpers, CloseBegin, CloseWait, Reap, CallbackCancelled,
   CancelCheck, CancelStatus, CancelFlag, HelperEnter, HelperLeave,
   EventsInterrupted, EventsFail, UrbFinishes, Unplug, vars, devVars, usbVars,
   evVars, loopVars

\* Only a dongle that is gone answers NO_DEVICE.
LEMMA NoDeviceStep ==
  ASSUME TypeOK, LossInv, [Next]_vars
  PROVE  \A t \in Xfers : "NO_DEVICE" \in {kern'[t], xstatus'[t]} => ~plugged'
<1> USE DEF LossInv, TypeOK
<1>1. CASE UNCHANGED <<kern, xstatus, plugged>>
  BY <1>1
<1>2. CASE SubmitOk
  BY <1>2 DEF SubmitOk, Submitted
<1>3. CASE ScanCancel
  BY <1>3 DEF ScanCancel
<1>4. CASE Unplug
  BY <1>4 DEF Unplug
<1>5. ASSUME NEW p \in Handlers, NEW t \in Xfers, Reap(p, t)
      PROVE  \A u \in Xfers :
               "NO_DEVICE" \in {kern'[u], xstatus'[u]} => ~plugged'
  BY <1>5 DEF Reap
<1>6. ASSUME NEW t \in Xfers, NEW r \in {"COMPLETED", "ERROR", "STALL"},
             UrbFinishes(t, r)
      PROVE  \A u \in Xfers :
               "NO_DEVICE" \in {kern'[u], xstatus'[u]} => ~plugged'
  BY <1>6 DEF UrbFinishes
<1>7. ASSUME NEW p \in Handlers, CallbackCompleted(p)
      PROVE  \A u \in Xfers :
               "NO_DEVICE" \in {kern'[u], xstatus'[u]} => ~plugged'
  BY <1>7 DEF CallbackCompleted, Submitted, NotSubmitted
<1>8. ASSUME NEW p \in Handlers, CallbackFailed(p)
      PROVE  UNCHANGED <<kern, xstatus, plugged>>
  BY <1>8 DEF CallbackFailed, usbVars
<1> QED
  BY <1>1, <1>2, <1>3, <1>4, <1>5, <1>6, <1>7, <1>8, LossFrame

\* A callback that counts an error adds its transfer to those that failed.
LEMMA CountStep ==
  ASSUME TypeOK, CallbackOwnsBuffer, LossInv, Failed \subseteq Failed',
         NEW p \in Handlers, CallbackFailed(p)
  PROVE  /\ xferErrors' <= Cardinality(Failed')
         /\ devLost' /\ plugged' => Failed' = Xfers
<1> USE DEF TypeOK
<1> DEFINE failed == xstatus[inCb] = "ERROR"
<1>1. /\ inCb \in Xfers \ Failed /\ ~inFlight[inCb] /\ inCb' = NoXfer
      /\ UNCHANGED <<xstatus, inFlight, plugged>>
  BY DEF CallbackFailed, CallbackOwnsBuffer, Failed, NoXfer, usbVars
<1>2. failed => Failed' = Failed \cup {inCb}
  <2>1. SUFFICES ASSUME failed PROVE Failed' = Failed \cup {inCb}
    OBVIOUS
  <2>2. NoXfer \notin Xfers
    BY NAssumption DEF Xfers, NoXfer
  <2>3. Failed' \subseteq Failed \cup {inCb}
    BY <1>1 DEF Failed
  <2>4. inCb \in Failed'
    BY <1>1, <2>1, <2>2 DEF Failed
  <2> QED
    BY <2>3, <2>4
<1>3. /\ Failed \in SUBSET Xfers /\ Failed' \in SUBSET Xfers
      /\ IsFiniteSet(Failed) /\ Cardinality(Failed) \in Nat
      /\ Cardinality(Failed') \in Nat
      /\ Cardinality(Failed) <= Cardinality(Failed')
  <2>1. Failed \in SUBSET Xfers /\ Failed' \in SUBSET Xfers
    BY DEF Failed
  <2> QED
    BY <2>1, TransfersCount
<1>4. xferErrors' <= Cardinality(Failed')
  <2>1. CASE failed
    <3>1. Cardinality(Failed') = Cardinality(Failed) + 1
      BY <1>1, <1>2, <1>3, <2>1, FS_AddElement
    <3> QED
      BY <1>3, <2>1, <3>1 DEF CallbackFailed, LossInv
  <2>2. CASE ~failed
    BY <1>3, <2>2 DEF CallbackFailed, LossInv
  <2> QED
    BY <2>1, <2>2
<1>5. ASSUME devLost', plugged' PROVE Failed' = Xfers
  <2>1. CASE devLost
    BY <1>1, <1>3, <1>5, <2>1 DEF LossInv
  <2>2. CASE ~devLost
    <3>1. xferErrors' >= N
      BY <1>1, <1>5, <2>2 DEF CallbackFailed, LossInv
    <3>2. Cardinality(Failed') >= N
      BY <1>3, <1>4, <3>1, NAssumption DEF CallbackFailed
    <3> QED
      BY <1>3, <3>2, TransfersCount
  <2> QED
    BY <2>1, <2>2
<1> QED
  BY <1>4, <1>5

\* Every step keeps the count below the number of failed transfers.
LEMMA LossInvStep == IInv /\ LossInv /\ [Next]_vars => LossInv'
<1> SUFFICES ASSUME IInv, LossInv, [Next]_vars PROVE LossInv'
  OBVIOUS
<1>1. \A t \in Xfers : "NO_DEVICE" \in {kern'[t], xstatus'[t]} => ~plugged'
  BY NoDeviceStep DEF IInv
<1>2. Failed \subseteq Failed'
  BY FailedGrows DEF IInv
<1>3. /\ Failed \in SUBSET Xfers /\ Failed' \in SUBSET Xfers
      /\ Cardinality(Failed) \in Nat /\ Cardinality(Failed') \in Nat
      /\ Cardinality(Failed) <= Cardinality(Failed')
  <2>1. Failed \in SUBSET Xfers /\ Failed' \in SUBSET Xfers
    BY DEF Failed
  <2> QED
    BY <1>2, <2>1, TransfersCount
<1>4. /\ xferErrors' <= Cardinality(Failed')
      /\ devLost' /\ plugged' => Failed' = Xfers
  <2>1. CASE UNCHANGED <<xferErrors, devLost>>
    <3>1. plugged' => plugged
      BY LossFrame, <2>1 DEF SubmitOk, ScanCancel, Unplug, Reap, UrbFinishes,
         CallbackCompleted, CallbackFailed, usbVars
    <3> QED
      BY <1>2, <1>3, <2>1, <3>1 DEF LossInv, IInv, TypeOK
  <2>2. ASSUME NEW p \in Handlers, CallbackCompleted(p)
        PROVE  /\ xferErrors' <= Cardinality(Failed')
               /\ devLost' /\ plugged' => Failed' = Xfers
    BY <1>2, <1>3, <2>2 DEF CallbackCompleted, LossInv
  <2>3. ASSUME NEW p \in Handlers, CallbackFailed(p)
        PROVE  /\ xferErrors' <= Cardinality(Failed')
               /\ devLost' /\ plugged' => Failed' = Xfers
    BY <1>2, <2>3, CountStep DEF IInv
  <2> QED
    BY <2>1, <2>2, <2>3, LossFrame
<1> QED
  BY <1>1, <1>4 DEF LossInv

\* A device that is still there is given up only when no transfer is left, and
\* whenever a device is given up somebody cancels the stream.
THEOREM ReaderLossIsTold == Spec => []LossIsTold
<1>1. Init => LossInv
  <2> SUFFICES ASSUME Init PROVE LossInv
    OBVIOUS
  <2>1. Failed \in SUBSET Xfers
    BY DEF Failed
  <2> QED
    BY <2>1, TransfersCount DEF Init, LossInv
<1>2. IInv /\ LossInv => LossIsTold
  <2>1. IInv => DeviceLossCancels
    BY DEF IInv
  <2>2. LossInv => GivenUpMeansDead
    BY DEF LossInv, GivenUpMeansDead, Failed
  <2> QED
    BY <2>1, <2>2 DEF LossIsTold
<1> QED
  BY <1>1, <1>2, LossInvStep, ReaderInvariant, PTL DEF Spec

\* INACTIVE, which rtlsdr_close waits for, means that the buffers are freed.
THEOREM ReaderInactiveMeansFreed == Spec => []InactiveMeansFreed
<1>1. IInv => InactiveMeansFreed
  BY DEF IInv
<1> QED
  BY <1>1, ReaderInvariant, PTL

-----------------------------------------------------------------------------
(* AsyncReader implements AsyncStream.                                     *)

\* What ties async_status to the place the reader has got to: nobody cancels
\* before it starts, the cancel scan runs only in a stream that is being
\* cancelled, and it leaves the loop with INACTIVE, or with a lost device, or
\* because the event handling failed.
StreamInv ==
  /\ rpc = "start" => status = "INACTIVE" /\ \A p \in Threads : cpc[p] # "status"
  /\ rpc \in {"scan", "cancelled", "drain"} => status = "CANCELING"
  /\ rpc = "drain" => nextStatus = "INACTIVE" \/ devLost
  /\ rpc \in {"free", "publish"} =>
       \/ faults < MaxFaults
       \/ status = "CANCELING" /\ (nextStatus = "INACTIVE" \/ devLost)

\* Only the thread that holds the events lock cancels from a callback, after the
\* callback has reported its transfer, and nobody holds it when the device is
\* being closed.
HandlerInv ==
  /\ rpc \in {"closing", "closeWait", "closed"} => evOwner = None
  /\ \A p \in Handlers : cpc[p] # "none" => evOwner = p /\ inCb = NoXfer

\* Both hold when the device has just been opened.
LEMMA StreamInvInit == Init => StreamInv /\ HandlerInv
<1>1. Init => StreamInv
  BY DEF Init, StreamInv
<1>2. Init => HandlerInv
  BY ThreadAssumption DEF Init, HandlerInv, Threads, Handlers
<1> QED
  BY <1>1, <1>2

\* The steps that leave everything StreamInv talks about alone, or only use up
\* a fault.
LEMMA StreamFrame ==
  ASSUME TypeOK, [Next]_vars
  PROVE  \/ /\ UNCHANGED <<status, devLost, rpc, nextStatus, cpc>>
            /\ faults' = faults \/ faults' < MaxFaults
         \/ ReadAsync \/ SubmitOk \/ SubmitFails
         \/ LeaveEvents \/ SkipEvents \/ EventsInterrupted \/ EventsFail
         \/ CheckCanceling \/ ScanSkip \/ ScanCancel \/ FreeBuffers
         \/ PublishStatus \/ JoinHelpers \/ CloseBegin \/ CloseWait
         \/ (\E p \in Handlers : CallbackFailed(p))
         \/ (\E p \in Threads : CancelCheck(p))
         \/ (\E p \in Threads : CancelStatus(p))
         \/ (\E p \in Threads : CancelFlag(p))
<1>1. ASSUME NEW p \in Handlers, CallbackCompleted(p)
      PROVE  /\ UNCHANGED <<status, devLost, rpc, nextStatus, cpc>>
             /\ faults' = faults \/ faults' < MaxFaults
  BY <1>1, FaultAssumption DEF CallbackCompleted, SubmitFault, TypeOK, loopVars
<1>2. CASE EnterEvents \/ Environment \/ Closed \/ UNCHANGED vars
  BY <1>2 DEF EnterEvents, Environment, UrbFinishes, Unplug, Closed, vars,
     devVars, loopVars
<1>3. ASSUME NEW h \in Helpers, HelperEnter(h) \/ HelperLeave(h)
      PROVE  UNCHANGED <<status, devLost, rpc, nextStatus, cpc, faults>>
  BY <1>3 DEF HelperEnter, HelperLeave, devVars, loopVars
<1>4. ASSUME NEW p \in Handlers, NEW t \in Xfers, Reap(p, t)
      PROVE  UNCHANGED <<status, devLost, rpc, nextStatus, cpc, faults>>
  BY <1>4 DEF Reap, devVars, loopVars
<1>5. ASSUME NEW p \in Handlers, CallbackCancelled(p)
      PROVE  UNCHANGED <<status, devLost, rpc, nextStatus, cpc, faults>>
  BY <1>5 DEF CallbackCancelled, devVars, loopVars
<1> QED
  BY <1>1, <1>2, <1>3, <1>4, <1>5
     DEF Next, ReaderStep, HandlerStep, CancelStep

\* Every step of the reader preserves StreamInv.
LEMMA StreamInvStep ==
  ASSUME TypeOK, StreamInv, [Next]_vars
  PROVE  StreamInv'
<1> USE DEF StreamInv, TypeOK
<1>1. CASE /\ UNCHANGED <<status, devLost, rpc, nextStatus, cpc>>
           /\ faults' = faults \/ faults' < MaxFaults
  BY <1>1
<1>2. CASE ReadAsync \/ SubmitOk \/ SubmitFails
  BY <1>2 DEF ReadAsync, SubmitOk, SubmitFails
<1>3. CASE LeaveEvents \/ SkipEvents
  <2>1. EventsReturned /\ UNCHANGED <<devVars, cpc, faults>>
    BY <1>3 DEF LeaveEvents, SkipEvents
  <2> QED
    BY <2>1 DEF EventsReturned, ScanNext, devVars
<1>4. CASE EventsInterrupted
  <2>1. UNCHANGED <<devVars, cpc>> /\ faults' < MaxFaults
    BY <1>4, FaultAssumption DEF EventsInterrupted
  <2>2. EventsReturned \/ UNCHANGED <<rpc, idx, nextStatus>>
    BY <1>4 DEF EventsInterrupted
  <2> QED
    BY <2>1, <2>2 DEF EventsReturned, ScanNext, devVars
<1>5. CASE EventsFail
  <2>1. faults' < MaxFaults
    BY <1>5, FaultAssumption DEF EventsFail
  <2> QED
    BY <1>5, <2>1 DEF EventsFail
<1>6. CASE CheckCanceling \/ ScanCancel \/ FreeBuffers \/ PublishStatus
  BY <1>6 DEF CheckCanceling, ScanCancel, FreeBuffers, PublishStatus, devVars
<1>7. CASE ScanSkip
  BY <1>7 DEF ScanSkip, ScanNext, devVars
<1>8. CASE JoinHelpers \/ CloseBegin \/ CloseWait
  BY <1>8 DEF JoinHelpers, CloseBegin, CloseWait, devVars
<1>9. ASSUME NEW p \in Handlers, CallbackFailed(p) PROVE StreamInv'
  BY <1>9 DEF CallbackFailed, loopVars
<1>10. ASSUME NEW p \in Threads, CancelCheck(p) PROVE StreamInv'
  BY <1>10 DEF CancelCheck, devVars, loopVars
<1>11. ASSUME NEW p \in Threads, CancelStatus(p) PROVE StreamInv'
  BY <1>11 DEF CancelStatus, loopVars
<1>12. ASSUME NEW p \in Threads, CancelFlag(p) PROVE StreamInv'
  BY <1>12 DEF CancelFlag, loopVars
<1> QED
  BY <1>1, <1>2, <1>3, <1>4, <1>5, <1>6, <1>7, <1>8, <1>9, <1>10, <1>11, <1>12,
     StreamFrame

\* Every step of the reader preserves HandlerInv.
LEMMA HandlerInvStep ==
  ASSUME TypeOK, CallbackOwnsBuffer, HandlerInv, [Next]_vars
  PROVE  HandlerInv'
<1>1. rpc' \in {"closing", "closeWait", "closed"} => evOwner' = None
  <2>1. CASE rpc' = rpc /\ rpc \in {"closing", "closeWait", "closed"}
    <3>1. evOwner = None /\ inCb = NoXfer
      BY <2>1, ThreadAssumption DEF HandlerInv, CallbackOwnsBuffer, Handlers
    <3>2. UNCHANGED <<evOwner, inCb>>
      BY <2>1, <3>1, EventFrame, ThreadAssumption
         DEF EnterEvents, EventCalls, LeaveEvents, EventsInterrupted, EventsFail,
             HelperEnter, HelperLeave, Reap, CallbackCompleted,
             CallbackCancelled, CallbackFailed, Handlers
    <3> QED
      BY <3>1, <3>2
  <2>2. CASE JoinHelpers \/ CloseBegin \/ CloseWait
    BY <2>2 DEF JoinHelpers, CloseBegin, CloseWait, HandlerInv, evVars
  <2>3. CASE rpc' # rpc /\ ~(JoinHelpers \/ CloseBegin \/ CloseWait)
    BY <2>3, ReaderFrame
       DEF ReadAsync, SubmitOk, SubmitFails, LeaveEvents, SkipEvents,
           EventsInterrupted, EventsReturned, ScanNext, EventsFail,
           CheckCanceling, ScanSkip, ScanCancel, FreeBuffers, PublishStatus
  <2> QED
    BY <2>1, <2>2, <2>3
<1>2. ASSUME NEW p \in Handlers, cpc'[p] # "none"
      PROVE  evOwner' = p /\ inCb' = NoXfer
  <2> p \in Threads
    BY DEF Handlers, Threads
  <2> USE DEF TypeOK, HandlerInv
  <2>1. CASE UNCHANGED <<cpc>>
    <3>1. evOwner = p /\ inCb = NoXfer /\ cpc[p] # "none"
      BY <1>2, <2>1
    <3>2. UNCHANGED <<evOwner, inCb>>
      BY <3>1, EventFrame, ThreadAssumption
         DEF EnterEvents, LeaveEvents, EventsInterrupted, EventsFail,
             HelperEnter, HelperLeave, Reap, CallbackCompleted,
             CallbackCancelled, CallbackFailed, Handlers
    <3> QED
      BY <3>1, <3>2
  <2>2. ASSUME NEW q \in Handlers, CallbackFailed(q)
        PROVE  evOwner' = p /\ inCb' = NoXfer
    BY <1>2, <2>2 DEF CallbackFailed
  <2>3. ASSUME NEW q \in Threads, CancelCheck(q)
        PROVE  evOwner' = p /\ inCb' = NoXfer
    BY <1>2, <2>3 DEF CancelCheck, evVars
  <2>4. ASSUME NEW q \in Threads, CancelStatus(q)
        PROVE  evOwner' = p /\ inCb' = NoXfer
    BY <1>2, <2>4 DEF CancelStatus, evVars
  <2>5. ASSUME NEW q \in Threads, CancelFlag(q)
        PROVE  evOwner' = p /\ inCb' = NoXfer
    BY <1>2, <2>5 DEF CancelFlag, evVars
  <2> QED
    BY <2>1, <2>2, <2>3, <2>4, <2>5, CpcFrame
<1> QED
  BY <1>1, <1>2 DEF HandlerInv

\* The initial states of the reader are initial states of the stream.
LEMMA StreamInitMaps == Init => Stream!StreamInit
BY FaultAssumption DEF Init, Stream!StreamInit

\* Every step of the reader is a step of the stream, or none.
LEMMA StreamStepMaps ==
  ASSUME TypeOK, StreamInv, HandlerInv, [Next]_vars
  PROVE  [Stream!StreamNext]_Stream!streamVars
<1> DEFINE idle == {"start", "returned", "closing", "closeWait", "closed"}
<1> USE DEF TypeOK, Stream!StreamNext, Stream!streamVars
<1>1. CASE /\ UNCHANGED <<status, devLost, rpc, nextStatus, cpc>>
           /\ faults' = faults \/ faults' < MaxFaults
  BY <1>1 DEF Stream!Trouble
<1>2. CASE ReadAsync
  BY <1>2 DEF ReadAsync, StreamInv, Stream!Begin
<1>3. CASE SubmitOk
  BY <1>3 DEF SubmitOk, devVars
<1>4. CASE SubmitFails
  <2>1. faults' = faults \/ faults' < MaxFaults
    BY <1>4, FaultAssumption DEF SubmitFails, SubmitFault
  <2> QED
    BY <1>4, <2>1 DEF SubmitFails, Stream!Spoil
<1>5. CASE LeaveEvents \/ SkipEvents
  <2>1. EventsReturned /\ UNCHANGED <<devVars, cpc, faults>>
    BY <1>5 DEF LeaveEvents, SkipEvents
  <2>2. rpc \notin idle /\ rpc' \notin idle
    BY <2>1 DEF EventsReturned, ScanNext
  <2> QED
    BY <2>1, <2>2 DEF devVars
<1>6. CASE EventsInterrupted
  <2>1. UNCHANGED <<devVars, cpc>> /\ faults' < MaxFaults
    BY <1>6, FaultAssumption DEF EventsInterrupted
  <2>2. (rpc \notin idle /\ rpc' = rpc) \/ EventsReturned
    BY <1>6 DEF EventsInterrupted, CallbackOwnsBuffer
  <2> QED
    BY <2>1, <2>2 DEF devVars, EventsReturned, ScanNext, Stream!Trouble
<1>7. CASE EventsFail
  <2>1. faults' < MaxFaults
    BY <1>7, FaultAssumption DEF EventsFail
  <2> QED
    BY <1>7, <2>1 DEF EventsFail, devVars, Stream!Trouble
<1>8. CASE CheckCanceling \/ ScanCancel \/ FreeBuffers
  BY <1>8 DEF CheckCanceling, ScanCancel, FreeBuffers, devVars
<1>9. CASE ScanSkip
  BY <1>9 DEF ScanSkip, ScanNext, devVars
<1>10. CASE PublishStatus
  <2>1. CASE faults < MaxFaults
    BY <1>10, <2>1 DEF PublishStatus, Stream!EndFailed
  <2>2. CASE status = "CANCELING" /\ (nextStatus = "INACTIVE" \/ devLost)
    BY <1>10, <2>2 DEF PublishStatus, Stream!EndCancelled
  <2> QED
    BY <1>10, <2>1, <2>2 DEF PublishStatus, StreamInv
<1>11. CASE JoinHelpers
  BY <1>11 DEF JoinHelpers, devVars
<1>12. CASE CloseBegin
  BY <1>12 DEF CloseBegin, devVars, Stream!Close
<1>13. CASE CloseWait
  BY <1>13 DEF CloseWait, devVars, Stream!Close
<1>14. ASSUME NEW p \in Handlers, CallbackFailed(p)
       PROVE  [Stream!StreamNext]_Stream!streamVars
  <2>1. rpc # "closed" /\ cpc[p] = "none" /\ p \in Threads
    BY <1>14, ThreadAssumption
       DEF CallbackFailed, HandlerInv, Handlers, Threads
  <2>2. {q \in Threads : cpc'[q] = "status"} = {q \in Threads : cpc[q] = "status"}
    BY <1>14, <2>1 DEF CallbackFailed
  <2> QED
    BY <1>14, <2>1, <2>2 DEF CallbackFailed, loopVars, Stream!Lose
<1>15. ASSUME NEW p \in Threads, CancelCheck(p)
       PROVE  [Stream!StreamNext]_Stream!streamVars
  BY <1>15 DEF CancelCheck, devVars, loopVars, Stream!See
<1>16. ASSUME NEW p \in Threads, CancelStatus(p)
       PROVE  [Stream!StreamNext]_Stream!streamVars
  BY <1>16 DEF CancelStatus, loopVars, Stream!Write
<1>17. ASSUME NEW p \in Threads, CancelFlag(p)
       PROVE  [Stream!StreamNext]_Stream!streamVars
  BY <1>17 DEF CancelFlag, loopVars
<1> QED
  BY <1>1, <1>2, <1>3, <1>4, <1>5, <1>6, <1>7, <1>8, <1>9, <1>10, <1>11, <1>12,
     <1>13, <1>14, <1>15, <1>16, <1>17, StreamFrame

\* rtlsdr_read_async, rtlsdr_cancel_async and rtlsdr_close keep what AsyncStream
\* promises to the threads that call them.
THEOREM ReaderImplementsStream == Spec => ImplementsStream
<1>1. Init => StreamInv /\ HandlerInv /\ Stream!StreamInit
  BY StreamInvInit, StreamInitMaps
<1>2. IInv /\ StreamInv /\ HandlerInv /\ [Next]_vars => StreamInv' /\ HandlerInv'
  BY StreamInvStep, HandlerInvStep DEF IInv
<1>3. IInv /\ StreamInv /\ HandlerInv /\ [Next]_vars =>
        [Stream!StreamNext]_Stream!streamVars
  BY StreamStepMaps DEF IInv
<1> QED
  BY <1>1, <1>2, <1>3, ReaderInvariant, PTL
     DEF Spec, ImplementsStream, Stream!StreamSpec
=============================================================================
