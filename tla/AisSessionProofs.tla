-------------------------- MODULE AisSessionProofs ---------------------------
(***************************************************************************)
(* The safety of a session, for any number of threads that call stop and   *)
(* any number of failures: the worker never uses a device that was closed, *)
(* and EXIT_OK means that the session was asked to end.                    *)
(***************************************************************************)
EXTENDS AisSession, TLAPS

\* Who is inside sighandler, rtlsdr_cancel_async and rtlsdr_callback, and when.
CallsWhen ==
  /\ \A p \in Threads : sig[p] # "none" => p \in Stoppers \cup {Worker}
  /\ sig[Worker] # "none" => wpc \in {"stop", "bye"}
  /\ \A p \in Stoppers : cpc[p] # "none" => sig[p] = "exit"
  /\ cpc[Worker] # "none" => sig[Worker] = "exit" \/ wpc = "tune"
  /\ \A p \in unused : sig[p] = "none"
  /\ cpc[Demod] # "none" => dpc = "cancel"
  /\ inCb \in {{}, {Main}, {Worker}}
  /\ Main \in inCb => mpc = "reading"
  /\ Worker \in inCb => wpc = "tune"
  /\ cpc[Main] # "none" => mpc \in {"reading", "signal"}

\* The worker exists from the accept to the join, and only with TCP; the
\* demodulator from its creation on.
WorkerWhen ==
  /\ mpc \in {"start", "setup", "opened", "listen"} => wpc = "none"
  /\ mpc \in {"start", "setup", "opened", "listen", "spawn"} => dpc = "none"
  /\ mpc \in MainPc \ {"start", "setup", "opened", "listen", "spawn", "read",
                       "reading", "join"} => wpc \in {"none", "ended"}
  /\ mode = "x" => wpc = "none" /\ mpc # "listen"

\* The device is freed on the way out.
ClosedWhen ==
  closed => mpc \in {"announce", "leave", "exit", "returned", "exited"}

\* The condition ready lasts from the opening of the device until everybody who
\* may signal it has been waited for.
ReadyWhen ==
  mpc \in {"opened", "listen", "spawn", "read", "reading", "join", "cancel",
          "signal", "destroy"} => cond

\* The worker leaves through sighandler, and Main waits for it.
AskedWhen ==
  /\ wpc = "ended" \/ (wpc = "bye" /\ sig[Worker] = "none") => doExit
  /\ /\ mode = "tcp"
     /\ mpc \in {"cancel", "signal", "destroy", "close", "announce"}
     => doExit

\* Together, and with the types the inductive invariant.
Life ==
  /\ CallsWhen /\ WorkerWhen /\ ClosedWhen /\ ReadyWhen /\ AskedWhen
  /\ ExitOkMeansAsked

IInv == TypeOK /\ Life

-----------------------------------------------------------------------------
(* Proofs.                                                                 *)

(* The steps, by the part of the program they belong to. *)
SetupStep ==
  \/ Start \/ SetupFails \/ OpenDevice \/ DecoderFails \/ ConfigureFails
  \/ Configure \/ ListenExit \/ Accept \/ SpawnDemod \/ ReadAsync

ReadStep ==
  \/ \E p \in {Main, Worker} : Callback(p) \/ CallbackSignal(p) \/ DeviceLost(p)
  \/ CallbackDrops \/ UsbTrouble \/ ReadEnds \/ ReadFails

EndStep ==
  \/ Join \/ FinalCancel \/ FinalSignal \/ DestroyCond \/ CloseDevice
  \/ CloseSleeps \/ Announce \/ Leave

DemodulatorStep ==
  \/ DemodTest \/ DemodWait \/ DemodSpurious \/ DemodWork \/ DemodEnds

CommandStep ==
  \/ WorkerIdle \/ WorkerSeesExit \/ WorkerTuned \/ WorkerSignalled
  \/ WorkerRecvFails \/ WorkerCommand \/ WorkerCloseCommand

\* Every step of the specification is one of these.
LEMMA Steps ==
  [Next]_vars => \/ SetupStep \/ ReadStep \/ EndStep
                 \/ DemodulatorStep \/ CommandStep
                 \/ \E p \in Threads : CallStep(p)
                 \/ \E p \in Stoppers : Stop(p)
                 \/ UNCHANGED vars
BY DEF Next, MainStep, DemodStep, WorkerStep, Environment, Ended, Exited,
       SetupStep, ReadStep, EndStep, DemodulatorStep, CommandStep

\* Every step keeps the types.
LEMMA TypeStep == IInv /\ [Next]_vars => TypeOK'
<1> SUFFICES ASSUME TypeOK, CallsWhen, [Next]_vars PROVE TypeOK'
  BY DEF IInv, Life
<1> USE SessionAssumption DEF TypeOK, CallsWhen, MainPc, Threads, threadVars,
    callVars, sessionVars, streamVars
<1>1. CASE SetupStep
  <2>1. CASE Start
    BY <2>1 DEF Start
  <2>2. CASE SetupFails
    BY <2>2 DEF SetupFails
  <2>3. CASE OpenDevice
    BY <2>3 DEF OpenDevice
  <2>4. CASE DecoderFails
    BY <2>4 DEF DecoderFails, Stream!Close
  <2>5. CASE ConfigureFails
    BY <2>5 DEF ConfigureFails
  <2>6. CASE Configure
    BY <2>6 DEF Configure
  <2>7. CASE ListenExit
    BY <2>7 DEF ListenExit
  <2>8. CASE Accept
    BY <2>8 DEF Accept
  <2>9. CASE SpawnDemod
    BY <2>9 DEF SpawnDemod
  <2>10. CASE ReadAsync
    BY <2>10 DEF ReadAsync, Stream!Begin
  <2> QED
    BY <1>1, <2>1, <2>2, <2>3, <2>4, <2>5, <2>6, <2>7, <2>8, <2>9, <2>10
       DEF SetupStep
<1>2. CASE ReadStep
  <2>1. ASSUME NEW p \in {Main, Worker}, Callback(p) PROVE TypeOK'
    BY <2>1 DEF Callback
  <2>2. CASE CallbackDrops
    BY <2>2 DEF CallbackDrops, ReaderFree, vars
  <2>3. ASSUME NEW p \in {Main, Worker}, CallbackSignal(p) PROVE TypeOK'
    BY <2>3 DEF CallbackSignal, Wake
  <2>4. ASSUME NEW p \in {Main, Worker}, DeviceLost(p) PROVE TypeOK'
    BY <2>4 DEF DeviceLost, Handles, CallCancel, Stream!Lose
  <2>5. CASE UsbTrouble
    <3>1. trouble' \in BOOLEAN
      BY <2>5, Zenon DEF UsbTrouble, ReaderFree, Stream!Spoil, Stream!Trouble
    <3>2. QED
      BY <3>1, <2>5 DEF UsbTrouble, ReaderFree, Stream!Spoil, Stream!Trouble
  <2>6. CASE ReadEnds
    <3>1. reading' \in BOOLEAN
      BY <2>6, Zenon DEF ReadEnds, ReaderFree, Stream!EndCancelled
    <3>2. QED
      BY <3>1, <2>6 DEF ReadEnds, ReaderFree, Stream!EndCancelled
  <2>7. CASE ReadFails
    <3>1. reading' \in BOOLEAN
      BY <2>7, Zenon DEF ReadFails, ReaderFree, Stream!EndFailed
    <3>2. QED
      BY <3>1, <2>7 DEF ReadFails, ReaderFree, Stream!EndFailed
  <2> QED
    BY <1>2, <2>1, <2>2, <2>3, <2>4, <2>5, <2>6, <2>7 DEF ReadStep
<1>3. CASE EndStep
  <2>1. CASE Join
    BY <2>1 DEF Join
  <2>2. CASE FinalCancel
    BY <2>2 DEF FinalCancel, CallCancel
  <2>3. CASE FinalSignal
    BY <2>3 DEF FinalSignal, Wake
  <2>4. CASE DestroyCond
    <3>1. cond' \in BOOLEAN
      BY <2>4, Zenon DEF DestroyCond
    <3>2. QED
      BY <3>1, <2>4 DEF DestroyCond
  <2>5. CASE CloseDevice
    BY <2>5 DEF CloseDevice, Stream!Close
  <2>6. CASE CloseSleeps
    BY <2>6 DEF CloseSleeps, vars
  <2>7. CASE Announce
    BY <2>7 DEF Announce
  <2>8. CASE Leave
    <3>1. running' \in BOOLEAN
      BY <2>8, Zenon DEF Leave
    <3>2. QED
      BY <3>1, <2>8 DEF Leave
  <2> QED
    BY <1>3, <2>1, <2>2, <2>3, <2>4, <2>5, <2>6, <2>7, <2>8 DEF EndStep
<1>4. CASE DemodulatorStep
  <2>1. CASE DemodTest
    BY <2>1 DEF DemodTest, CallCancel
  <2>2. CASE DemodWait
    BY <2>2 DEF DemodWait
  <2>3. CASE DemodSpurious
    BY <2>3 DEF DemodSpurious
  <2>4. CASE DemodWork
    BY <2>4 DEF DemodWork
  <2>5. CASE DemodEnds
    BY <2>5 DEF DemodEnds
  <2> QED
    BY <1>4, <2>1, <2>2, <2>3, <2>4, <2>5 DEF DemodulatorStep
<1>5. CASE CommandStep
  <2>1. CASE WorkerIdle
    BY <2>1 DEF WorkerIdle, vars
  <2>2. CASE WorkerSeesExit
    BY <2>2 DEF WorkerSeesExit, CallSighandler
  <2>3. CASE WorkerTuned
    BY <2>3 DEF WorkerTuned
  <2>4. CASE WorkerSignalled
    BY <2>4 DEF WorkerSignalled
  <2>5. CASE WorkerRecvFails
    BY <2>5 DEF WorkerRecvFails, CallSighandler
  <2>6. CASE WorkerCommand
    BY <2>6 DEF WorkerCommand
  <2>7. CASE WorkerCloseCommand
    BY <2>7 DEF WorkerCloseCommand, CallSighandler
  <2> QED
    BY <1>5, <2>1, <2>2, <2>3, <2>4, <2>5, <2>6, <2>7 DEF CommandStep
<1>6. ASSUME NEW p \in Threads, CallStep(p) PROVE TypeOK'
  <2>1. CASE CancelCheck(p)
    BY <2>1 DEF CancelCheck, Stream!See, Stream!Refuse, Stream!streamVars
  <2>2. CASE CancelWrite(p)
    BY <2>2 DEF CancelWrite, Stream!Write
  <2>3. CASE SigCancel(p)
    BY <2>3 DEF SigCancel, CallCancel
  <2>4. CASE SigExit(p)
    BY <2>4 DEF SigExit
  <2> QED
    BY <1>6, <2>1, <2>2, <2>3, <2>4 DEF CallStep
<1>7. ASSUME NEW p \in Stoppers, Stop(p) PROVE TypeOK'
  BY <1>7 DEF Stop, CallSighandler
<1>8. CASE UNCHANGED vars
  BY <1>8 DEF vars
<1> QED
  BY <1>1, <1>2, <1>3, <1>4, <1>5, <1>6, <1>7, <1>8, Steps

\* Every step keeps the rest of the invariant.
LEMMA LifeStep == IInv /\ [Next]_vars => Life'
<1> SUFFICES ASSUME IInv, [Next]_vars PROVE Life'
  OBVIOUS
<1> USE SessionAssumption DEF IInv, Threads, threadVars, callVars,
    sessionVars, streamVars, Life, TypeOK, CallsWhen, WorkerWhen, ClosedWhen,
    ReadyWhen, AskedWhen, ExitOkMeansAsked, MainPc
<1>1. CASE SetupStep
  BY <1>1 DEF SetupStep, Start, SetupFails, OpenDevice, DecoderFails,
     ConfigureFails, Configure, ListenExit, Accept, SpawnDemod, ReadAsync,
     Stream!Begin, Stream!Close
<1>2. CASE ReadStep
  BY <1>2 DEF ReadStep, Callback, CallbackDrops, CallbackSignal, DeviceLost,
     UsbTrouble, ReadEnds, ReadFails, ReaderFree, Handles, Wake,
     CallCancel, Stream!Spoil, Stream!Trouble, Stream!Lose, Stream!EndCancelled,
     Stream!EndFailed, vars
<1>3. CASE EndStep
  BY <1>3 DEF EndStep, Join, FinalCancel, FinalSignal, DestroyCond,
     CloseDevice, CloseSleeps, Announce, Leave, Wake, CallCancel, vars,
     Stream!Close
<1>4. CASE DemodulatorStep
  BY <1>4 DEF DemodulatorStep, DemodTest, DemodWait, DemodSpurious, DemodWork,
     DemodEnds, CallCancel
<1>5. CASE CommandStep
  BY <1>5 DEF CommandStep, WorkerIdle, WorkerSeesExit, WorkerTuned,
     WorkerSignalled, WorkerRecvFails, WorkerCommand, WorkerCloseCommand,
     CallSighandler, vars
<1>6. ASSUME NEW p \in Threads, CallStep(p) PROVE Life'
  BY <1>6 DEF CallStep, CancelCheck, CancelWrite, SigCancel, SigExit,
     CallCancel, Stream!See, Stream!Refuse, Stream!Write, Stream!streamVars
<1>7. ASSUME NEW p \in Stoppers, Stop(p) PROVE Life'
  BY <1>7 DEF Stop, CallSighandler
<1>8. CASE UNCHANGED vars
  BY <1>8 DEF vars
<1>9. QED
  BY <1>1, <1>2, <1>3, <1>4, <1>5, <1>6, <1>7, <1>8, Steps

\* The invariant holds at the start.
LEMMA InitIInv == Init => IInv
<1> SUFFICES ASSUME Init PROVE IInv
  OBVIOUS
<1> USE SessionAssumption DEF Init, Stream!StreamInit, Threads
<1>1. /\ running \in BOOLEAN /\ cond \in BOOLEAN
      /\ reading \in BOOLEAN /\ lost \in BOOLEAN /\ closed \in BOOLEAN
      /\ trouble \in BOOLEAN
  BY Zenon
<1>2. TypeOK
  BY <1>1 DEF TypeOK, MainPc
<1>3. Life
  BY DEF Life, CallsWhen, WorkerWhen, ClosedWhen, ReadyWhen, AskedWhen,
         ExitOkMeansAsked
<1>4. QED
  BY <1>2, <1>3 DEF IInv

\* Every step keeps it.
LEMMA IInvStep == IInv /\ [Next]_vars => IInv'
BY TypeStep, LifeStep DEF IInv

\* The strengthened invariant holds for any number of stoppers and failures.
THEOREM SessionInvariant == Spec => []IInv
BY InitIInv, IInvStep, PTL DEF Spec

\* Every variable keeps its type.
THEOREM SessionTypeOK == Spec => []TypeOK
<1>1. IInv => TypeOK
  BY DEF IInv, Life
<1>2. QED
  BY <1>1, SessionInvariant, PTL

\* The worker and Main are through with the device when it is closed, and who
\* runs rtlsdr_callback finds the condition that it signals.
THEOREM SessionNobodyUsesFreed == Spec => []NobodyUsesFreed
<1>1. IInv => WorkerUsesOpenDevice
  BY SessionAssumption
     DEF IInv, Life, TypeOK, CallsWhen, WorkerWhen, ClosedWhen,
     WorkerUsesOpenDevice, Threads, MainPc
<1>2. IInv => CallbackFindsReady
  BY DEF IInv, Life, CallsWhen, WorkerWhen, ReadyWhen, CallbackFindsReady,
     TypeOK, MainPc
<1>3. IInv => NobodyUsesFreed
  BY <1>1, <1>2 DEF NobodyUsesFreed
<1>4. QED
  BY <1>3, SessionInvariant, PTL

\* A session with a TCP worker announces EXIT_OK only if it was asked to end.
THEOREM SessionExitOkMeansAsked == Spec => []ExitOkMeansAsked
<1>1. IInv => ExitOkMeansAsked
  BY DEF IInv, Life
<1>2. QED
  BY <1>1, SessionInvariant, PTL
=============================================================================
