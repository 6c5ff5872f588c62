----------------------------- MODULE AisSession -----------------------------
(***************************************************************************)
(* One call of rtl_ais_main: the thread that runs it (Main) and the        *)
(* threads around it: the demodulator, the worker that reads the commands  *)
(* of the TCP client, and the threads that call rtl_ais_close for Java's   *)
(* stop.  The stream is AsyncStream, which AsyncReader implements.         *)
(*                                                                         *)
(* The library runs its callbacks on the thread that handles USB events:   *)
(* Main in rtlsdr_read_async, or the worker while a command changes the    *)
(* tuner.                                                                  *)
(*                                                                         *)
(* The globals do_exit and dev survive a session and are never reset, so   *)
(* the initial states include those a previous session in the same process *)
(* leaves behind: do_exit set, dev pointing to a device that was freed.    *)
(* Cancelling through such a pointer is undefined; the outcome followed is *)
(* the one where the old device still reads INACTIVE and nothing happens.  *)
(*                                                                         *)
(* Threads that a previous session left behind are not followed.           *)
(***************************************************************************)
EXTENDS Naturals

CONSTANTS
  Main, Worker, Demod,  \* the threads of a session
  Stoppers,             \* threads in which Java calls stop, once each
  MaxFaults             \* bound on failures of the USB side

ASSUME SessionAssumption ==
  /\ Main \notin Stoppers \cup {Worker, Demod}
  /\ Worker \notin Stoppers \cup {Demod}
  /\ Demod \notin Stoppers
  /\ MaxFaults \in Nat

Threads == {Main, Worker, Demod} \cup Stoppers

MainPc == {"start", "setup", "opened", "listen", "spawn", "read", "reading",
           "join", "cancel", "signal", "destroy", "close", "free", "announce",
           "leave", "exit", "returned", "exited"}

VARIABLES
  mode,     \* "tcp", or "x": the option -x, no TCP command worker
  mpc, wpc, dpc,  \* control states of Main, Worker and Demod
  sig,      \* control state of each thread in sighandler
  cpc,      \* control state of each thread in rtlsdr_cancel_async
  inCb,     \* the thread, if any, that runs rtlsdr_callback
  unused,   \* stoppers that may still call stop
  doExit,   \* do_exit
  running,  \* is_running
  dev,      \* the pointer dev: NULL, left by an earlier session, or set
  cond,     \* ready and ready_m are initialised
  code,     \* the exit code announced to Java
  faults,   \* failures that may still happen
  status, reading, saw, lost, trouble, closed  \* the stream

Stream == INSTANCE AsyncStream

streamVars  == <<status, reading, saw, lost, trouble, closed>>
threadVars  == <<mpc, wpc, dpc>>
callVars    == <<sig, cpc, unused>>
sessionVars == <<mode, doExit, running, dev, cond, code>>
vars == <<threadVars, callVars, inCb, sessionVars, faults, streamVars>>

Init ==
  /\ mode \in {"tcp", "x"}
  /\ mpc = "start" /\ wpc = "none" /\ dpc = "none"
  /\ sig = [p \in Threads |-> "none"]
  /\ cpc = [p \in Threads |-> "none"]
  /\ inCb = {}
  /\ unused = Stoppers
  /\ doExit \in BOOLEAN
  /\ running = FALSE
  /\ dev \in {"null", "stale"}
  /\ cond = FALSE
  /\ code = "none"
  /\ faults = MaxFaults
  /\ Stream!StreamInit

-----------------------------------------------------------------------------
(* rtlsdr_cancel_async in any thread.                                      *)

CallCancel(p) == cpc' = [cpc EXCEPT ![p] = "check"]

CancelCheck(p) ==
  /\ cpc[p] = "check"
  /\ \/ Stream!See(p) /\ cpc' = [cpc EXCEPT ![p] = "write"]
     \/ Stream!Refuse(p) /\ cpc' = [cpc EXCEPT ![p] = "none"]
  /\ UNCHANGED <<threadVars, sig, unused, inCb, sessionVars, faults>>

\* (variant) The caller writes, and stays where it is.
CancelWriteStays(p) ==
  /\ cpc[p] = "write"
  /\ Stream!Write(p)
  /\ UNCHANGED <<threadVars, callVars, inCb, sessionVars, faults>>

CancelWrite(p) ==
  /\ cpc[p] = "write"
  /\ Stream!Write(p)
  /\ cpc' = [cpc EXCEPT ![p] = "none"]
  /\ UNCHANGED <<threadVars, sig, unused, inCb, sessionVars, faults>>

-----------------------------------------------------------------------------
(* sighandler: cancel first, set do_exit afterwards.                       *)

CallSighandler(p) == sig' = [sig EXCEPT ![p] = "dev"]

SigCancel(p) ==
  /\ sig[p] = "dev"
  /\ IF dev = "set" THEN CallCancel(p) ELSE UNCHANGED cpc
  /\ sig' = [sig EXCEPT ![p] = "exit"]
  /\ UNCHANGED <<threadVars, unused, inCb, sessionVars, faults, streamVars>>

SigExit(p) ==
  /\ sig[p] = "exit"
  /\ cpc[p] = "none"
  /\ doExit' = TRUE
  /\ sig' = [sig EXCEPT ![p] = "none"]
  /\ UNCHANGED <<threadVars, cpc, unused, inCb, mode, running, dev, cond,
                 code, faults, streamVars>>

\* RtlAisJava.stop: nothing happens unless is_running is set.
Stop(p) ==
  /\ p \in unused
  /\ running
  /\ unused' = unused \ {p}
  /\ CallSighandler(p)
  /\ UNCHANGED <<threadVars, cpc, inCb, sessionVars, faults, streamVars>>

-----------------------------------------------------------------------------
(* rtl_ais_main up to rtlsdr_read_async.                                   *)

Start ==
  /\ mpc = "start"
  /\ running' = TRUE
  /\ mpc' = "setup"
  /\ UNCHANGED <<wpc, dpc, callVars, inCb, mode, doExit, dev, cond, code,
                 faults, streamVars>>

\* A bad file descriptor, no device, or a device that cannot be opened; or bad
\* arguments, and then the process exits.
SetupFails ==
  /\ mpc = "setup"
  /\ code' = "failed"
  /\ mpc' \in {"leave", "exit"}
  /\ UNCHANGED <<wpc, dpc, callVars, inCb, mode, doExit, running, dev, cond,
                 faults, streamVars>>

OpenDevice ==
  /\ mpc = "setup"
  /\ dev' = "set"
  /\ cond' = TRUE
  /\ mpc' = "opened"
  /\ UNCHANGED <<wpc, dpc, callVars, inCb, mode, doExit, running, code,
                 faults, streamVars>>

\* The built-in decoder cannot be initialised: the device is closed again.
DecoderFails ==
  /\ mpc = "opened"
  /\ Stream!Close
  /\ code' = "failed"
  /\ mpc' = "leave"
  /\ UNCHANGED <<wpc, dpc, callVars, inCb, mode, doExit, running, dev, cond,
                 faults>>

\* The output file cannot be opened, or the endpoint cannot be reset: the
\* device is left open.
ConfigureFails ==
  /\ mpc = "opened"
  /\ code' = "failed"
  /\ mpc' = "leave"
  /\ UNCHANGED <<wpc, dpc, callVars, inCb, mode, doExit, running, dev, cond,
                 faults, streamVars>>

Configure ==
  /\ mpc = "opened"
  /\ mpc' = IF mode = "tcp" THEN "listen" ELSE "spawn"
  /\ UNCHANGED <<wpc, dpc, callVars, inCb, sessionVars, faults, streamVars>>

\* do_exit is looked at each time select returns, once per second at least.
ListenExit ==
  /\ mpc = "listen"
  /\ doExit
  /\ mpc' = "close"
  /\ UNCHANGED <<wpc, dpc, callVars, inCb, sessionVars, faults, streamVars>>

Accept ==
  /\ mpc = "listen"
  /\ ~doExit
  /\ wpc' = "poll"
  /\ mpc' = "spawn"
  /\ UNCHANGED <<dpc, callVars, inCb, sessionVars, faults, streamVars>>

SpawnDemod ==
  /\ mpc = "spawn"
  /\ dpc' = "test"
  /\ mpc' = "read"
  /\ UNCHANGED <<wpc, callVars, inCb, sessionVars, faults, streamVars>>

ReadAsync ==
  /\ mpc = "read"
  /\ Stream!Begin
  /\ mpc' = "reading"
  /\ UNCHANGED <<wpc, dpc, callVars, inCb, sessionVars, faults>>

-----------------------------------------------------------------------------
(* While rtlsdr_read_async runs.                                           *)

Wake == dpc' = IF dpc = "wait" THEN "work" ELSE dpc

\* Main runs neither a callback nor a cancellation.
ReaderFree == mpc = "reading" /\ Main \notin inCb /\ cpc[Main] = "none"

\* Thread p holds the events lock and is between two callbacks.
Handles(p) ==
  /\ mpc = "reading"
  /\ inCb = {} /\ cpc[Main] = "none"
  /\ wpc = "tune" => cpc[Worker] = "none"
  /\ p = Main \/ (p = Worker /\ wpc = "tune")

\* rtlsdr_callback: a block that comes after do_exit was set is dropped.
Callback(p) ==
  /\ Handles(p)
  /\ ~doExit
  /\ inCb' = {p}
  /\ UNCHANGED <<threadVars, callVars, sessionVars, faults, streamVars>>

CallbackDrops ==
  /\ ReaderFree
  /\ doExit
  /\ UNCHANGED vars

CallbackSignal(p) ==
  /\ p \in inCb
  /\ Wake
  /\ inCb' = {}
  /\ UNCHANGED <<mpc, wpc, callVars, sessionVars, faults, streamVars>>

\* The library gives the device up, and cancels from its own callback.
DeviceLost(p) ==
  /\ Handles(p)
  /\ ~lost
  /\ faults > 0
  /\ faults' = faults - 1
  /\ Stream!Lose
  /\ CallCancel(p)
  /\ UNCHANGED <<threadVars, sig, unused, inCb, sessionVars>>

UsbTrouble ==
  /\ ReaderFree
  /\ faults > 0
  /\ faults' = faults - 1
  /\ Stream!Spoil \/ Stream!Trouble
  /\ UNCHANGED <<threadVars, callVars, inCb, sessionVars>>

ReadEnds ==
  /\ ReaderFree
  /\ Stream!EndCancelled
  /\ mpc' = "join"
  /\ UNCHANGED <<wpc, dpc, callVars, inCb, sessionVars, faults>>

ReadFails ==
  /\ ReaderFree
  /\ Stream!EndFailed
  /\ mpc' = "join"
  /\ UNCHANGED <<wpc, dpc, callVars, inCb, sessionVars, faults>>

-----------------------------------------------------------------------------
(* rtl_ais_main after rtlsdr_read_async.                                   *)

\* (variant) The command worker is not waited for.
JoinNobody ==
  /\ mpc = "join"
  /\ mpc' = "cancel"
  /\ UNCHANGED <<wpc, dpc, callVars, inCb, sessionVars, faults, streamVars>>

\* pthread_join(command_thread); without a worker the thread id is not a
\* thread's and the call returns at once.
Join ==
  /\ mpc = "join"
  /\ mode = "tcp" => wpc = "ended"
  /\ mpc' = "cancel"
  /\ UNCHANGED <<wpc, dpc, callVars, inCb, sessionVars, faults, streamVars>>

FinalCancel ==
  /\ mpc = "cancel"
  /\ CallCancel(Main)
  /\ mpc' = "signal"
  /\ UNCHANGED <<wpc, dpc, sig, unused, inCb, sessionVars, faults,
                 streamVars>>

FinalSignal ==
  /\ mpc = "signal"
  /\ cpc[Main] = "none"
  /\ Wake
  /\ mpc' = "destroy"
  /\ UNCHANGED <<wpc, callVars, inCb, sessionVars, faults, streamVars>>

DestroyCond ==
  /\ mpc = "destroy"
  /\ cond' = FALSE
  /\ mpc' = "close"
  /\ UNCHANGED <<wpc, dpc, callVars, inCb, mode, doExit, running, dev, code,
                 faults, streamVars>>

\* rtlsdr_close, which may block.
CloseDevice ==
  /\ mpc = "close"
  /\ Stream!Close
  /\ mpc' = "announce"
  /\ UNCHANGED <<wpc, dpc, callVars, inCb, sessionVars, faults>>

\* It sleeps a millisecond and looks again.
CloseSleeps ==
  /\ mpc = "close"
  /\ ~lost /\ status # "INACTIVE"
  /\ UNCHANGED vars

Announce ==
  /\ mpc = "announce"
  /\ code' = "ok"
  /\ mpc' = "leave"
  /\ UNCHANGED <<wpc, dpc, callVars, inCb, mode, doExit, running, dev, cond,
                 faults, streamVars>>

\* is_running is cleared last; after bad arguments exit(1) follows.
Leave ==
  /\ mpc \in {"leave", "exit"}
  /\ running' = FALSE
  /\ mpc' = IF mpc = "leave" THEN "returned" ELSE "exited"
  /\ UNCHANGED <<wpc, dpc, callVars, inCb, mode, doExit, dev, cond, code,
                 faults, streamVars>>

-----------------------------------------------------------------------------
(* demod_thread_fn.  The test of do_exit and the wait are not atomic.      *)

DemodTest ==
  /\ dpc = "test"
  /\ IF doExit THEN dpc' = "cancel" /\ CallCancel(Demod)
               ELSE dpc' = "enter" /\ UNCHANGED cpc
  /\ UNCHANGED <<mpc, wpc, sig, unused, inCb, sessionVars, faults,
                 streamVars>>

DemodWait ==
  /\ dpc = "enter"
  /\ dpc' = "wait"
  /\ UNCHANGED <<mpc, wpc, callVars, inCb, sessionVars, faults, streamVars>>

\* pthread_cond_wait may return without a signal.
DemodSpurious ==
  /\ dpc = "wait"
  /\ dpc' = "work"
  /\ UNCHANGED <<mpc, wpc, callVars, inCb, sessionVars, faults, streamVars>>

DemodWork ==
  /\ dpc = "work"
  /\ dpc' = "test"
  /\ UNCHANGED <<mpc, wpc, callVars, inCb, sessionVars, faults, streamVars>>

DemodEnds ==
  /\ dpc = "cancel"
  /\ cpc[Demod] = "none"
  /\ dpc' = "ended"
  /\ UNCHANGED <<mpc, wpc, callVars, inCb, sessionVars, faults, streamVars>>

-----------------------------------------------------------------------------
(* command_worker.  A client that only closes its end makes recv return 0, *)
(* which changes nothing: the worker goes on polling.                      *)

\* (variant) A broken connection ends the worker, but not the session.
WorkerDropped ==
  /\ wpc = "poll"
  /\ wpc' = "ended"
  /\ UNCHANGED <<mpc, dpc, callVars, inCb, sessionVars, faults, streamVars>>

\* recv failed.
WorkerRecvFails ==
  /\ wpc = "poll"
  /\ wpc' = "bye"
  /\ CallSighandler(Worker)
  /\ UNCHANGED <<mpc, dpc, cpc, unused, inCb, sessionVars, faults,
                 streamVars>>

\* select timed out, or the client has closed its end and recv returned 0.
WorkerIdle ==
  /\ wpc = "poll"
  /\ ~doExit
  /\ UNCHANGED vars

\* (variant) The worker looks at do_exit, but after its own command only.
WorkerSeesOwnExit ==
  /\ wpc = "stop"
  /\ doExit
  /\ wpc' = "bye"
  /\ CallSighandler(Worker)
  /\ UNCHANGED <<mpc, dpc, cpc, unused, inCb, sessionVars, faults,
                 streamVars>>

\* do_exit is looked at each time select returns, once per second at least.
WorkerSeesExit ==
  /\ wpc = "poll"
  /\ doExit
  /\ wpc' = "bye"
  /\ CallSighandler(Worker)
  /\ UNCHANGED <<mpc, dpc, cpc, unused, inCb, sessionVars, faults,
                 streamVars>>

\* A command that changes the tuner: control transfers on the device, for which
\* the worker handles events.
WorkerCommand ==
  /\ wpc = "poll"
  /\ ~doExit
  /\ wpc' = "tune"
  /\ UNCHANGED <<mpc, dpc, callVars, inCb, sessionVars, faults, streamVars>>

WorkerTuned ==
  /\ wpc = "tune"
  /\ Worker \notin inCb /\ cpc[Worker] = "none"
  /\ wpc' = "poll"
  /\ UNCHANGED <<mpc, dpc, callVars, inCb, sessionVars, faults, streamVars>>

\* Command 0x7e, and the worker goes on polling.
WorkerCloseCommand ==
  /\ wpc = "poll"
  /\ ~doExit
  /\ wpc' = "stop"
  /\ CallSighandler(Worker)
  /\ UNCHANGED <<mpc, dpc, cpc, unused, inCb, sessionVars, faults,
                 streamVars>>

WorkerSignalled ==
  /\ wpc \in {"stop", "bye"}
  /\ sig[Worker] = "none"
  /\ wpc' = IF wpc = "stop" THEN "poll" ELSE "ended"
  /\ UNCHANGED <<mpc, dpc, callVars, inCb, sessionVars, faults, streamVars>>

-----------------------------------------------------------------------------
MainStep ==
  \/ Start \/ SetupFails \/ OpenDevice \/ DecoderFails \/ ConfigureFails
  \/ Configure \/ ListenExit \/ SpawnDemod \/ ReadAsync
  \/ CallbackSignal(Main) \/ ReadEnds \/ ReadFails
  \/ Join \/ FinalCancel \/ FinalSignal \/ DestroyCond \/ CloseDevice
  \/ CloseSleeps \/ Announce \/ Leave

DemodStep == DemodTest \/ DemodWait \/ DemodWork \/ DemodEnds

\* What the worker does without the client.
WorkerStep ==
  \/ WorkerIdle \/ WorkerSeesExit \/ WorkerTuned \/ WorkerSignalled
  \/ CallbackSignal(Worker)

CallStep(p) == CancelCheck(p) \/ CancelWrite(p) \/ SigCancel(p) \/ SigExit(p)

Environment ==
  \/ Accept \/ CallbackDrops \/ UsbTrouble
  \/ \E p \in {Main, Worker} : Callback(p) \/ DeviceLost(p)
  \/ DemodSpurious
  \/ WorkerRecvFails \/ WorkerCommand \/ WorkerCloseCommand
  \/ \E p \in Stoppers : Stop(p)

Ended == mpc = "returned" /\ UNCHANGED vars
Exited == mpc = "exited" /\ UNCHANGED vars

Next ==
  \/ /\ mpc # "exited"
     /\ \/ MainStep \/ DemodStep \/ WorkerStep
        \/ \E p \in Threads : CallStep(p)
        \/ Environment
  \/ Ended
  \/ Exited

(* Every thread that can run does; the library ends a cancelled stream, as  *)
(* StreamEnds of AsyncReader shows, however many blocks come                *)
(* before.  Nothing is assumed of the client, of stop or of USB.            *)
Fairness ==
  /\ WF_vars(MainStep)
  /\ SF_vars(ReadEnds)
  /\ WF_vars(DemodStep)
  /\ WF_vars(WorkerStep)
  /\ \A p \in Threads : WF_vars(CallStep(p))

Spec == Init /\ [][Next]_vars
FairSpec == Spec /\ Fairness
-----------------------------------------------------------------------------
(* Properties.                                                             *)

\* Every variable keeps its type.
TypeOK ==
  /\ mode \in {"tcp", "x"}
  /\ mpc \in MainPc
  /\ wpc \in {"none", "poll", "tune", "stop", "bye", "ended"}
  /\ dpc \in {"none", "test", "enter", "wait", "work", "cancel", "ended"}
  /\ sig \in [Threads -> {"none", "dev", "exit"}]
  /\ cpc \in [Threads -> {"none", "check", "write"}]
  /\ inCb \subseteq {Main, Worker}
  /\ unused \subseteq Stoppers
  /\ doExit \in BOOLEAN /\ running \in BOOLEAN /\ cond \in BOOLEAN
  /\ dev \in {"null", "stale", "set"}
  /\ code \in {"none", "ok", "failed"}
  /\ faults \in 0..MaxFaults
  /\ status \in {"INACTIVE", "CANCELING", "RUNNING"}
  /\ reading \in BOOLEAN /\ lost \in BOOLEAN /\ closed \in BOOLEAN
  /\ trouble \in BOOLEAN
  /\ saw = {p \in Threads : cpc[p] = "write"}

\* Neither the command worker, in whatever command or cancellation it is, nor
\* Main itself is still using the device when rtlsdr_close has freed it.  (The
\* demodulator, which nobody joins, and the stoppers may be.)
WorkerUsesOpenDevice ==
  closed => /\ wpc \in {"none", "ended"}
            /\ cpc[Worker] = "none" /\ sig[Worker] = "none"
            /\ cpc[Main] = "none"

\* rtlsdr_callback, on whichever thread, never signals the condition ready after
\* Main has destroyed it.
CallbackFindsReady == inCb # {} => cond

\* When a session ends, what it frees is no longer used by those it waits for.
NobodyUsesFreed == WorkerUsesOpenDevice /\ CallbackFindsReady

\* With a TCP worker, EXIT_OK is announced only when do_exit is set, by Java, by
\* a client or because of a broken connection, in this session or in an earlier
\* one: the join makes everybody wait for the worker, which leaves only through
\* sighandler.
ExitOkMeansAsked == code = "ok" /\ mode = "tcp" => doExit

\* A stop that came before anything was streaming: the stream runs although
\* do_exit is set, every thread that would cancel it has already tried, or is
\* the demodulator and waits for a block while all blocks are being dropped.
StopMissed ==
  /\ doExit /\ mpc = "reading" /\ status = "RUNNING" /\ inCb = {}
  /\ dpc \in {"wait", "ended"} /\ wpc \in {"none", "ended"}
  /\ \A p \in Threads : cpc[p] = "none" /\ sig[p] = "none"

\* A stream that is over and whose status a late cancellation, or a failed
\* event call, has left at CANCELING.
CloseBlocked == mpc = "close" /\ ~lost /\ status = "CANCELING"

\* Main waits for a worker that has no reason to leave.
AwaitsWorker == mode = "tcp" /\ mpc = "join" /\ ~doExit

\* Once do_exit is set, Main returns; the two ways of getting stuck above are
\* the only ones, in either mode, whichever thread set it and however early.  A
\* session whose device was given up by the library ends as well; with a TCP
\* worker it waits until somebody asks it to end, for the client need not send
\* or close anything.
SessionEnds ==
  /\ doExit ~> (~running \/ StopMissed \/ CloseBlocked)
  /\ lost ~> (~running \/ AwaitsWorker)
=============================================================================
