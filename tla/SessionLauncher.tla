-------------------------- MODULE SessionLauncher ---------------------------
(***************************************************************************)
(* The Java side of a session: BinaryRunnerService.start and stop on the   *)
(* application's main thread (the user), RtlAisJava.start and stop, and    *)
(* the thread that each RtlAisJava.start creates.  That thread runs        *)
(* rtl_ais_main, which is seen here only through is_running, do_exit and   *)
(* the exit code it announces: AisSession has the rest.                    *)
(*                                                                         *)
(* exitcode and exitcode_set are static: all sessions of a process share   *)
(* them.  Timed waits end by a notification or by their timeout.           *)
(***************************************************************************)
EXTENDS Naturals, FiniteSets

CONSTANT MaxSessions  \* bound on the threads RtlAisJava.start creates

ASSUME LauncherAssumption == MaxSessions \in Nat

Sessions == 1..MaxSessions

Codes == {"unknown", "ok", "error", "cannotClose"}

VARIABLES
  upc,       \* the main thread
  tpc,       \* each session's thread
  running,   \* is_running, as set_isrunning leaves it
  doExit,    \* do_exit
  exitcode, exitcodeSet,
  listening, \* callback1, the service's callback, is registered
  own,       \* the code the session's rtl_ais_main announced
  reported,  \* the code OnClosed was called with; "unheard" when onDestroy had
             \* unregistered the callback, "missed" when start was about to
             \* replace it
  blind,     \* a test found is_running clear although the thread of another
             \* session existed and was about to set it
  hasty      \* a start was asked for before the last session was reported

ghostVars == <<own, reported, blind, hasty>>
vars == <<upc, tpc, running, doExit, exitcode, exitcodeSet, listening,
          ghostVars>>

Init ==
  /\ upc = "idle"
  /\ tpc = [t \in Sessions |-> "unborn"]
  /\ running = FALSE
  /\ doExit = FALSE
  /\ exitcode = "unknown"
  /\ exitcodeSet = FALSE
  /\ listening = FALSE
  /\ own = [t \in Sessions |-> "none"]
  /\ reported = [t \in Sessions |-> "none"]
  /\ blind = FALSE
  /\ hasty = FALSE

Exited == upc = "exited"
\* Threads between their creation and set_isrunning(1).
Starting == {t \in Sessions : tpc[t] \in {"unset", "clear", "open"}}
\* Threads inside rtl_ais_main with is_running set.
Inside == {t \in Sessions : tpc[t] \in {"run", "code", "set", "leave"}}
Unreported == {t \in Sessions : tpc[t] \notin {"unborn", "done", "dead"}}

-----------------------------------------------------------------------------
(* The main thread.                                                        *)

\* System.exit, or exit: its threads and what they share are gone.
ProcessEnds ==
  /\ upc' = "exited"
  /\ tpc' = [t \in Sessions |-> "dead"]
  /\ running' = FALSE /\ doExit' = FALSE /\ listening' = FALSE
  /\ exitcode' = "unknown" /\ exitcodeSet' = FALSE
  /\ UNCHANGED ghostVars

\* sighandler(0).
Close == doExit' = TRUE

\* isNativeRunning() is false.  What it does not see is noted.
FoundFree ==
  /\ ~running
  /\ blind' = (blind \/ Starting # {})

\* BinaryRunnerService.start: a session that is running is stopped, and so is,
\* half a second later, the process.  Otherwise the callback of the last start
\* is unregistered.
ServiceStart ==
  /\ upc = "idle"
  /\ hasty' = (hasty \/ Unreported # {})
  /\ IF running THEN upc' = "exiting" /\ Close /\ UNCHANGED listening
                ELSE upc' = "start" /\ listening' = FALSE /\ UNCHANGED doExit
  /\ UNCHANGED <<tpc, running, exitcode, exitcodeSet, own, reported, blind>>

\* The command STOP: RtlAisJava.stop, then the process exits.
ServiceStop ==
  /\ upc = "idle"
  /\ upc' = "exiting"
  /\ IF running THEN Close ELSE UNCHANGED doExit
  /\ UNCHANGED <<tpc, running, exitcode, exitcodeSet, listening, ghostVars>>

\* onDestroy, which stopSelf brings about when nobody is bound.
ServiceDestroyed ==
  /\ upc = "idle"
  /\ IF running THEN Close ELSE UNCHANGED doExit
  /\ listening' = FALSE
  /\ UNCHANGED <<upc, tpc, running, exitcode, exitcodeSet, ghostVars>>

ProcessExits == upc = "exiting" /\ ProcessEnds

\* A callback is registered.  RtlAisJava.start, when is_running is set by now:
\* close, and wait.
StartCloses ==
  /\ upc = "start"
  /\ running
  /\ Close
  /\ listening' = TRUE
  /\ upc' = "wait"
  /\ UNCHANGED <<tpc, running, exitcode, exitcodeSet, ghostVars>>

\* It is clear: the test is over, and whatever happens before the thread is
\* created is not seen any more.
StartFree ==
  /\ upc = "start"
  /\ FoundFree
  /\ listening' = TRUE
  /\ upc' = "spawn"
  /\ UNCHANGED <<tpc, running, doExit, exitcode, exitcodeSet, own, reported,
                 hasty>>

\* Four seconds have passed, or a session's thread has notified.
StartWaited ==
  /\ upc = "wait"
  /\ upc' = "again"
  /\ UNCHANGED <<tpc, running, doExit, exitcode, exitcodeSet, listening,
                 ghostVars>>

\* (variant) After the wait the old session is taken for ended.
SpawnUnchecked ==
  /\ upc = "again"
  /\ upc' = "spawn"
  /\ UNCHANGED <<tpc, running, doExit, exitcode, exitcodeSet, listening,
                 ghostVars>>

\* The second test: EXIT_CANNOT_RESTART, or a new thread after all.
StartAgain ==
  /\ upc = "again"
  /\ \/ running /\ upc' = "idle" /\ UNCHANGED blind
     \/ FoundFree /\ upc' = "spawn"
  /\ UNCHANGED <<tpc, running, doExit, exitcode, exitcodeSet, listening, own,
                 reported, hasty>>

\* new Thread().start(), without another look at is_running.
StartSpawns ==
  /\ upc = "spawn"
  /\ \E t \in Sessions :
       /\ tpc[t] = "unborn"
       /\ \A s \in 1..(t - 1) : tpc[s] # "unborn"
       /\ tpc' = [tpc EXCEPT ![t] = "unset"]
  /\ upc' = "idle"
  /\ UNCHANGED <<running, doExit, exitcode, exitcodeSet, listening, ghostVars>>

-----------------------------------------------------------------------------
(* The thread of a session.                                                *)

Go(t, from, to) == tpc[t] = from /\ tpc' = [tpc EXCEPT ![t] = to]

ResetSet(t) ==
  /\ Go(t, "unset", "clear")
  /\ exitcodeSet' = FALSE
  /\ UNCHANGED <<upc, running, doExit, exitcode, listening, ghostVars>>

ResetCode(t) ==
  /\ Go(t, "clear", "open")
  /\ exitcode' = "unknown"
  /\ UNCHANGED <<upc, running, doExit, exitcodeSet, listening, ghostVars>>

\* rtl_ais_main begins.
Open(t) ==
  /\ Go(t, "open", "run")
  /\ running' = TRUE
  /\ UNCHANGED <<upc, doExit, exitcode, exitcodeSet, listening, ghostVars>>

\* (variant) A way out of rtl_ais_main announces nothing.
NativeEndsSilently(t) ==
  /\ Go(t, "run", "leave")
  /\ own' = [own EXCEPT ![t] = "error"]
  /\ UNCHANGED <<upc, running, doExit, exitcode, exitcodeSet, listening,
                 reported, blind, hasty>>

\* It ends, of itself or because of do_exit, and announces a code: onclose
\* stores the code ...
NativeEnds(t) ==
  /\ Go(t, "run", "set")
  /\ \E c \in {"ok", "error"} :
       /\ exitcode' = c
       /\ own' = [own EXCEPT ![t] = c]
  /\ UNCHANGED <<upc, running, doExit, exitcodeSet, listening,
                 reported, blind, hasty>>

\* ... says that there is one, and notifies.
CodeSet(t) ==
  /\ Go(t, "set", "leave")
  /\ exitcodeSet' = TRUE
  /\ UNCHANGED <<upc, running, doExit, exitcode, listening, ghostVars>>

\* Options that make no sense: rtl_ais_main ends the process.
NativeExits(t) == tpc[t] = "run" /\ ProcessEnds

\* set_isrunning(0), and open() returns.
Leave(t) ==
  /\ Go(t, "leave", "look")
  /\ running' = FALSE
  /\ UNCHANGED <<upc, doExit, exitcode, exitcodeSet, listening, ghostVars>>

\* Without a code: close, and wait.
LookClosing(t) ==
  /\ ~exitcodeSet
  /\ Go(t, "look", "wait")
  /\ Close
  /\ UNCHANGED <<upc, running, exitcode, exitcodeSet, listening, ghostVars>>

LookSet(t) ==
  /\ exitcodeSet
  /\ Go(t, "look", "judge")
  /\ UNCHANGED <<upc, running, doExit, exitcode, exitcodeSet, listening,
                 ghostVars>>

\* (variant) The wait has no timeout: only a code that is still to be announced
\* ends it.
WaitedForCode(t) ==
  /\ exitcodeSet
  /\ Go(t, "wait", "judge")
  /\ UNCHANGED <<upc, running, doExit, exitcode, exitcodeSet, listening,
                 ghostVars>>

\* A second has passed, or a code was announced.
Waited(t) ==
  /\ Go(t, "wait", "judge")
  /\ UNCHANGED <<upc, running, doExit, exitcode, exitcodeSet, listening,
                 ghostVars>>

Judge(t) ==
  /\ Go(t, "judge", "report")
  /\ exitcode' = IF exitcodeSet THEN exitcode ELSE "cannotClose"
  /\ UNCHANGED <<upc, running, doExit, exitcodeSet, listening, ghostVars>>

\* OnClosed; then locker.notifyAll().
Report(t) ==
  /\ Go(t, "report", "done")
  /\ reported' = [reported EXCEPT ![t] =
       IF listening THEN exitcode
       ELSE IF upc = "start" THEN "missed" ELSE "unheard"]
  /\ UNCHANGED <<upc, running, doExit, exitcode, exitcodeSet, listening, own,
                 blind, hasty>>

-----------------------------------------------------------------------------
UserStep ==
  \/ ServiceStart \/ ServiceStop \/ ServiceDestroyed \/ ProcessExits
  \/ StartCloses \/ StartFree \/ StartWaited \/ StartAgain \/ StartSpawns

NativeStep(t) ==
  Open(t) \/ NativeEnds(t) \/ NativeExits(t) \/ CodeSet(t) \/ Leave(t)

JavaStep(t) ==
  \/ ResetSet(t) \/ ResetCode(t) \/ LookClosing(t) \/ LookSet(t) \/ Waited(t)
  \/ Judge(t) \/ Report(t)

\* Every session there may be has been used, or the process is gone.
Over ==
  /\ Exited \/ \A t \in Sessions : tpc[t] # "unborn"
  /\ UNCHANGED vars

Next ==
  \/ UserStep
  \/ \E t \in Sessions : NativeStep(t) \/ JavaStep(t)
  \/ Over

(* The threads run; rtl_ais_main ends only if it does, which AisSession is   *)
(* about.                                                                   *)
Fairness ==
  \A t \in Sessions : /\ WF_vars(JavaStep(t))
                      /\ WF_vars(CodeSet(t) \/ Leave(t))

Spec == Init /\ [][Next]_vars
FairSpec == Spec /\ Fairness
-----------------------------------------------------------------------------
(* Properties.                                                             *)

\* Every variable keeps its type.
TypeOK ==
  /\ upc \in {"idle", "start", "wait", "again", "spawn", "exiting", "exited"}
  /\ tpc \in [Sessions -> {"unborn", "unset", "clear", "open", "run", "set",
                           "leave", "look", "wait", "judge", "report", "done",
                           "dead"}]
  /\ running \in BOOLEAN /\ doExit \in BOOLEAN
  /\ exitcode \in Codes /\ exitcodeSet \in BOOLEAN
  /\ own \in [Sessions -> Codes \cup {"none"}]
  /\ listening \in BOOLEAN
  /\ reported \in [Sessions -> Codes \cup {"none", "unheard", "missed"}]
  /\ blind \in BOOLEAN /\ hasty \in BOOLEAN

\* Two calls of rtl_ais_main, which share every global of rtl_ais_andro.c, run
\* at the same time only if RtlAisJava.start once found is_running clear while
\* another thread existed that had not set it yet: nothing else between a test,
\* before or after the wait, and the creation of the thread lets a second one in.
OneMainUnlessBlind == Cardinality(Inside) > 1 => blind

\* A user who waits for OnClosed before starting again is told, for every
\* session, the very code its rtl_ais_main announced, although the codes are
\* shared and kept between sessions, or nothing if the service was destroyed;
\* replacing the callback never misses a session.
ReportsOwnCode ==
  ~hasty => \A t \in Sessions : reported[t] \in {"none", "unheard", own[t]}

\* A session whose rtl_ais_main has ended is reported to whoever listens,
\* whatever notifications are missed, unless the process exits.
EndedGetsReported ==
  \A t \in Sessions : (own[t] # "none") ~> (reported[t] # "none" \/ Exited)
=============================================================================
