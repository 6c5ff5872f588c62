----------------------------- MODULE DeviceOpening -----------------------------
(***************************************************************************)
(* How a request to the application becomes a session: DeviceOpenActivity, *)
(* which looks for the dongle, asks for its permission and binds to        *)
(* BinaryRunnerService, which tells everybody who listens what becomes of  *)
(* the sessions.  What Android calls, on the application's main thread,    *)
(* are single steps; a session's own thread calls the listeners between    *)
(* them; and RtlAisJava.start looks and waits, on the main thread, while    *)
(* such a thread goes on.  The session itself is seen here by what it       *)
(* reports.                                                                *)
(*                                                                         *)
(* Of Android: the first answer of an activity counts; a connection to a   *)
(* service is made once, some time after bindService, also for an activity *)
(* that was stopped; unbinding what is not bound is an exception; an       *)
(* exception that nobody catches ends the process, but if it was thrown    *)
(* into native code it stays pending there, and what that code does next   *)
(* is undefined: it goes on, or the process is aborted.  The iterator of an *)
(* ArrayList knows from the start how many elements it has to give.        *)
(***************************************************************************)
EXTENDS Naturals

CONSTANTS
  MaxRequests, \* bound: activities that are started, one after the other
  MaxReturns,  \* bound: how often a user returns to a stopped one
  MaxReplugs,  \* bound: how often the dongle is unplugged
  MaxSessions  \* bound: threads of sessions

ASSUME OpeningAssumption ==
  {MaxRequests, MaxReturns, MaxReplugs, MaxSessions} \subseteq Nat

Activities == 1 .. MaxRequests
Sessions == 1 .. MaxSessions

VARIABLES
  life,      \* where Android is with each activity
  command,   \* what it was asked for
  answered,  \* those that told their caller something, if only an error that
             \* the code then ignores
  returns,   \* how often users returned
  conn,      \* the activity's connection to the service
  mBound,    \* mBound
  mService,  \* mService # null
  dongle,    \* absent, plugged, or plugged with permission
  replugs,   \* how often it was unplugged
  asked,     \* the user is to answer a request for the permission
  inbox,     \* activities whose receiver is to get an answer, and which
  force_root,
  service,   \* none, started, or stopSelf was called
  exception_listeners,
  accummulated_errors, \* there are some
  callback1, \* callback1 is registered
  sess,      \* the sessions
  is_running,
  telling,   \* what the session's thread is telling the listeners, or
             \* "pending" when an exception came of it in native code
  toTell,    \* the listeners its iterator has still to give
  torn,      \* sessions whose iterator was overtaken by a change of the list
  process    \* "runs"; where its main thread is in RtlAisJava.start, or
             \* "exiting" from System.exit; or how it ended

activityVars == <<life, command, returns, conn, mBound, mService>>
usbVars == <<dongle, replugs, asked, inbox, force_root>>
serviceVars == <<service, exception_listeners, accummulated_errors, callback1>>
sessionVars == <<sess, is_running, telling, toTell, torn>>
vars == <<activityVars, answered, usbVars, serviceVars, sessionVars, process>>

Init ==
  /\ life = [a \in Activities |-> "unborn"]
  /\ command = [a \in Activities |-> "none"]
  /\ answered = {}
  /\ returns = 0
  /\ conn = [a \in Activities |-> "none"]
  /\ mBound = [a \in Activities |-> FALSE]
  /\ mService = [a \in Activities |-> FALSE]
  /\ dongle \in {"absent", "plugged", "permitted"} /\ replugs = 0
  /\ asked = FALSE /\ inbox = [a \in Activities |-> "none"]
  /\ force_root \in BOOLEAN /\ (force_root => dongle = "absent")
  /\ service = "none" /\ exception_listeners = {}
  /\ accummulated_errors = FALSE /\ callback1 = FALSE
  /\ sess = [s \in Sessions |-> "unborn"] /\ is_running = FALSE
  /\ telling = [s \in Sessions |-> "none"]
  /\ toTell = [s \in Sessions |-> {}]
  /\ torn = {}
  /\ process = "runs"

\* The main thread is free to run something.
Free == process = "runs"

\* What the process held is gone with it.
Gone ==
  /\ conn' = [a \in Activities |-> "none"]
  /\ mBound' = [a \in Activities |-> FALSE]
  /\ mService' = [a \in Activities |-> FALSE]
  /\ inbox' = [a \in Activities |-> "none"]
  /\ service' = "none" /\ exception_listeners' = {}
  /\ accummulated_errors' = FALSE /\ callback1' = FALSE
  /\ sess' = [s \in Sessions |-> "unborn"] /\ is_running' = FALSE
  /\ telling' = [s \in Sessions |-> "none"]
  /\ toTell' = [s \in Sessions |-> {}]
  /\ torn' = {}
  /\ UNCHANGED <<life, command, answered, returns, dongle, replugs, asked,
                 force_root>>

\* What OnOpened and OnClosed tell.
Talk == {"opened", "closed", "failed"}

\* finishWithError and finishWithSuccess, of whatever: an answer is an answer.
Finish(who) == answered' = answered \cup who

\* A change of the list of listeners while threads iterate over it.
Listen(set) ==
  /\ exception_listeners' = set
  /\ torn' = IF set = exception_listeners THEN torn
             ELSE torn \cup {s \in Sessions :
                                telling[s] \in Talk /\ toTell[s] # {}}

-----------------------------------------------------------------------------
(* DeviceOpenActivity: from onStart to startBinary.                         *)

\* startBinary: startService, bindService.
StartBinary(a) ==
  /\ conn' = [conn EXCEPT ![a] = IF @ = "none" THEN "pending" ELSE @]
  /\ service' = IF service = "none" THEN "started" ELSE service

\* A refusal is answered, but the session starts anyway.
OpenDeviceUsingRoot(a) ==
  /\ StartBinary(a)
  /\ UNCHANGED answered \/ Finish({a})
  /\ UNCHANGED <<asked, process>>

\* openDevice when there is no connection: the error is answered, and
\* getFileDescriptor ends in an exception.
NoConnection(a) == dongle = "permitted" /\ Finish({a})

OpenDevice(a) ==
  \/ /\ dongle # "permitted"
     /\ asked' = TRUE
     /\ UNCHANGED <<conn, service, answered, process>>
  \/ /\ dongle = "permitted"
     /\ StartBinary(a)
     /\ UNCHANGED <<answered, asked, process>>

\* doUSBBasic and findDevice, which tries root after any exception.
DoUSBBasic(a) ==
  \/ force_root /\ OpenDeviceUsingRoot(a)
  \/ /\ ~force_root /\ dongle = "absent"
     /\ Finish({a})
     /\ UNCHANGED <<conn, service, asked, process>>
  \/ ~force_root /\ dongle # "absent" /\ OpenDevice(a)
  \/ /\ ~force_root /\ NoConnection(a) /\ StartBinary(a)
     /\ UNCHANGED <<asked, process>>

\* onStart of a new activity, or of one that the user returns to.
Start(a) ==
  /\ Free
  /\ \/ /\ life[a] = "unborn" /\ \A b \in 1 .. a - 1 : life[b] # "unborn"
        /\ \E cmd \in {"start", "stop", "status"} :
             command' = [command EXCEPT ![a] = cmd]
        /\ UNCHANGED returns
     \/ /\ life[a] = "stopped" /\ a \notin answered
        /\ returns < MaxReturns /\ returns' = returns + 1
        /\ UNCHANGED command
  /\ life' = [life EXCEPT ![a] = "visible"]
  /\ DoUSBBasic(a)
  /\ UNCHANGED <<mBound, mService, dongle, replugs, inbox, force_root,
                 exception_listeners, accummulated_errors, callback1,
                 sessionVars>>

\* The user answers the request for the permission: everybody who is visible
\* has a receiver that gets the answer.
Permission(granted) ==
  /\ Free /\ asked
  /\ asked' = FALSE
  /\ dongle' = IF granted /\ dongle = "plugged" THEN "permitted" ELSE dongle
  /\ inbox' = [a \in Activities |->
                 IF life[a] # "visible" THEN inbox[a]
                 ELSE IF granted THEN "granted" ELSE "refused"]
  /\ UNCHANGED <<activityVars, answered, replugs, force_root, serviceVars,
                 sessionVars, process>>

\* mUsbReceiver: here nobody catches the exception.
Receive(a) ==
  /\ Free /\ inbox[a] # "none"
  /\ \/ /\ \/ inbox[a] = "granted" /\ OpenDevice(a)
           \/ /\ inbox[a] = "refused"
              /\ Finish({a})
              /\ UNCHANGED <<conn, service, asked, process>>
        /\ inbox' = [inbox EXCEPT ![a] = "none"]
        /\ UNCHANGED <<life, command, returns, mBound, mService, dongle,
                       replugs, force_root, exception_listeners,
                       accummulated_errors, callback1, sessionVars>>
     \/ /\ inbox[a] = "granted" /\ dongle = "permitted"
        /\ process' = "null_connection" /\ Gone

-----------------------------------------------------------------------------
(* The connection to BinaryRunnerService.                                   *)

\* getService registers the activity and tells it all the errors there have
\* been.
Replayed(a) ==
  IF accummulated_errors THEN answered \cup {a} ELSE answered

\* start with the command STATUS tells all listeners.
Status(a, listeners) ==
  /\ answered' = Replayed(a) \cup listeners
  /\ UNCHANGED <<accummulated_errors, callback1, sess, process>>

\* The command STOP: close, and exit.
Stop(a) ==
  /\ answered' = Replayed(a)
  /\ process' = "exiting"
  /\ UNCHANGED <<accummulated_errors, callback1, sess>>

\* "Service is running. Stopping...": the listeners are told, close, and exit.
StopRunning(a, listeners) ==
  /\ is_running
  /\ answered' = Replayed(a) \cup listeners
  /\ accummulated_errors' = TRUE
  /\ process' = "exiting"
  /\ UNCHANGED <<callback1, sess>>

\* The callback of the last start is unregistered.
StartNew(a) ==
  /\ ~is_running
  /\ \E s \in Sessions : sess[s] = "unborn"
  /\ answered' = Replayed(a)
  /\ accummulated_errors' = FALSE
  /\ callback1' = FALSE
  /\ process' = "start"
  /\ UNCHANGED sess

\* onServiceConnected: start follows in any case.
Connected(a) ==
  LET listeners == exception_listeners \cup {a}
  IN /\ Free /\ conn[a] = "pending"
     /\ conn' = [conn EXCEPT ![a] = "made"]
     /\ mBound' = [mBound EXCEPT ![a] = TRUE]
     /\ mService' = [mService EXCEPT ![a] = TRUE]
     /\ Listen(listeners)
     /\ \/ command[a] = "status" /\ Status(a, listeners)
        \/ command[a] = "stop" /\ Stop(a)
        \/ command[a] = "start" /\ StopRunning(a, listeners)
        \/ command[a] = "start" /\ StartNew(a)
     /\ UNCHANGED <<life, command, returns, usbVars, service, is_running,
                    telling, toTell>>

\* A new one is registered.  RtlAisJava.start: a session that runs by now is
\* closed, and waited for.
StartTests ==
  /\ process = "start"
  /\ callback1' = TRUE
  /\ process' = IF is_running THEN "wait" ELSE "spawn"
  /\ UNCHANGED <<activityVars, answered, usbVars, service, exception_listeners,
                 accummulated_errors, sessionVars>>

\* Four seconds later, or notified, it looks again: EXIT_CANNOT_RESTART is told
\* to the listeners, and kept.
StartAgain ==
  /\ process = "wait"
  /\ \/ /\ is_running
        /\ Finish(exception_listeners)
        /\ accummulated_errors' = TRUE
        /\ process' = "runs"
     \/ /\ ~is_running
        /\ process' = "spawn"
        /\ UNCHANGED <<answered, accummulated_errors>>
  /\ UNCHANGED <<activityVars, usbVars, service, exception_listeners,
                 callback1, sessionVars>>

\* new Thread().start()
Spawn ==
  /\ process = "spawn"
  /\ \E s \in Sessions :
       /\ sess[s] = "unborn" /\ \A t \in 1 .. s - 1 : sess[t] # "unborn"
       /\ sess' = [sess EXCEPT ![s] = "starting"]
  /\ process' = "runs"
  /\ UNCHANGED <<activityVars, answered, usbVars, serviceVars, is_running,
                 telling, toTell, torn>>

\* System.exit, half a second or two later.
Exit ==
  process = "exiting" /\ process' = "exited" /\ Gone

\* onStop, as far as it comes: the connection is dropped if it is unbound.
Leaves(a, unbinds) ==
  /\ life' = [life EXCEPT ![a] = "stopped"]
  /\ inbox' = [inbox EXCEPT ![a] = "none"]
  /\ Listen(IF mBound[a] /\ mService[a] THEN exception_listeners \ {a}
            ELSE exception_listeners)
  /\ IF unbinds THEN /\ mService' = [mService EXCEPT ![a] = FALSE]
                     /\ conn' = [conn EXCEPT ![a] = "none"]
                ELSE UNCHANGED <<mService, conn>>
  /\ UNCHANGED <<command, answered, returns, mBound, dongle, replugs, asked,
                 force_root, service, accummulated_errors, callback1, sess,
                 is_running, telling, toTell, process>>

\* (variant) onStop always unbinds.
OnStopUnbinds(a) ==
  /\ Free /\ life[a] = "visible"
  /\ IF conn[a] = "none" THEN process' = "not_bound" /\ Gone
     ELSE Leaves(a, TRUE)

\* onStop, because the user leaves or after an answer.  mBound is never reset.
OnStop(a) ==
  /\ Free /\ life[a] = "visible"
  /\ IF mBound[a] /\ conn[a] = "none" THEN process' = "not_bound" /\ Gone
     ELSE Leaves(a, mBound[a])

\* Android destroys a stopped activity, and its connection with it; nobody
\* looks at its fields any more.
Destroy(a) ==
  /\ Free /\ life[a] = "stopped"
  /\ life' = [life EXCEPT ![a] = "destroyed"]
  /\ conn' = [conn EXCEPT ![a] = "none"]
  /\ mBound' = [mBound EXCEPT ![a] = FALSE]
  /\ mService' = [mService EXCEPT ![a] = FALSE]
  /\ UNCHANGED <<command, answered, returns, usbVars, serviceVars, sessionVars,
                 process>>

\* onDestroy of the service, which stopSelf asked for: whoever listens is told
\* of no error.
ServiceDestroyed ==
  /\ Free /\ service = "stopped"
  /\ \A a \in Activities : conn[a] = "none"
  /\ Finish(exception_listeners)
  /\ service' = "none" /\ exception_listeners' = {}
  /\ accummulated_errors' = FALSE /\ callback1' = FALSE
  /\ UNCHANGED <<activityVars, usbVars, sessionVars, process>>

-----------------------------------------------------------------------------
(* A session's thread.                                                      *)

Alive == process \in {"runs", "start", "wait", "spawn", "exiting"}

SetRunning(s) ==
  /\ Alive /\ sess[s] = "starting"
  /\ sess' = [sess EXCEPT ![s] = "running"] /\ is_running' = TRUE
  /\ UNCHANGED <<activityVars, answered, usbVars, serviceVars, telling, toTell,
                 torn, process>>

\* Rates that do not fit: rtl_ais_main calls exit(1).
RatesDoNotFit(s) ==
  /\ Alive /\ sess[s] = "running"
  /\ process' = "unfit_rates" /\ Gone

\* A registered callback begins to tell all that are on the list.
BeginsToTell(s, what) ==
  /\ telling' = IF callback1 THEN [telling EXCEPT ![s] = what] ELSE telling
  /\ toTell' = [toTell EXCEPT ![s] = IF callback1 THEN exception_listeners
                                     ELSE {}]

\* The device is open: OnOpened.
Opens(s) ==
  /\ Alive /\ sess[s] = "running"
  /\ sess' = [sess EXCEPT ![s] = "opened"]
  /\ BeginsToTell(s, "opened")
  /\ UNCHANGED <<activityVars, answered, usbVars, serviceVars, is_running, torn,
                 process>>

\* The end of rtl_ais_main, once OnOpened is over: set_isrunning(0).
Ends(s) ==
  /\ Alive /\ sess[s] \in {"running", "opened"} /\ telling[s] # "opened"
  /\ sess' = [sess EXCEPT ![s] = "ended"] /\ is_running' = FALSE
  /\ UNCHANGED <<activityVars, answered, usbVars, serviceVars, telling, toTell,
                 torn, process>>

\* (variant) OnClosed tells of errors only.
ClosesOnErrors(s) ==
  /\ Alive /\ sess[s] = "ended"
  /\ sess' = [sess EXCEPT ![s] = "over"]
  /\ BeginsToTell(s, "failed") \/ UNCHANGED <<telling, toTell>>
  /\ UNCHANGED <<activityVars, answered, usbVars, serviceVars, is_running, torn,
                 process>>

\* A second later at most: OnClosed, with or without an error.  An exception
\* that was pending has been lost on the way.
Closes(s) ==
  /\ Alive /\ sess[s] = "ended"
  /\ sess' = [sess EXCEPT ![s] = "over"]
  /\ \E what \in {"closed", "failed"} : BeginsToTell(s, what)
  /\ UNCHANGED <<activityVars, answered, usbVars, serviceVars, is_running, torn,
                 process>>

\* The next listener is told.
TellsNext(s) ==
  /\ Alive /\ telling[s] \in Talk /\ s \notin torn
  /\ \E a \in toTell[s] :
       /\ Finish({a})
       /\ toTell' = [toTell EXCEPT ![s] = @ \ {a}]
  /\ UNCHANGED <<activityVars, usbVars, serviceVars, sess, is_running, telling,
                 torn, process>>

\* The loop over the listeners is left; OnClosed keeps the error, and stops the
\* service.
ToldAll(s) ==
  /\ Alive /\ telling[s] \in Talk /\ toTell[s] = {}
  /\ telling' = [telling EXCEPT ![s] = "none"]
  /\ IF telling[s] = "opened" THEN UNCHANGED <<service, accummulated_errors>>
     ELSE /\ accummulated_errors' =
               (accummulated_errors \/ telling[s] = "failed")
          /\ service' = IF service = "none" THEN "none" ELSE "stopped"
  /\ UNCHANGED <<activityVars, answered, usbVars, exception_listeners,
                 callback1, sess, is_running, toTell, torn, process>>

\* The loop asks for the next listener, and the list has changed:
\* ConcurrentModificationException.  Nothing catches it in run(); but OnOpened
\* was called by native code, which does not look for exceptions and goes on.
Torn(s) ==
  /\ Alive /\ s \in torn
  /\ \/ /\ telling[s] = "opened"
        /\ telling' = [telling EXCEPT ![s] = "pending"]
        /\ torn' = torn \ {s}
        /\ UNCHANGED <<activityVars, answered, usbVars, serviceVars, sess,
                       is_running, toTell, process>>
     \/ /\ telling[s] \in {"closed", "failed"}
        /\ process' = "list_changed" /\ Gone

\* The pending exception strikes: the next call into Java aborts, or open()
\* returns and run() throws it.
PendingStrikes(s) ==
  /\ Alive /\ telling[s] = "pending"
  /\ process' = "list_changed" /\ Gone

-----------------------------------------------------------------------------
\* The dongle is unplugged, and loses its permission, or plugged in.  With
\* force_root nobody looks whether it is there.
Replug ==
  /\ Free /\ ~force_root
  /\ \/ /\ dongle # "absent" /\ replugs < MaxReplugs
        /\ dongle' = "absent" /\ replugs' = replugs + 1
     \/ dongle = "absent" /\ dongle' = "plugged" /\ UNCHANGED replugs
  /\ UNCHANGED <<activityVars, answered, asked, inbox, force_root, serviceVars,
                 sessionVars, process>>

MainStep ==
  \/ \E a \in Activities : Receive(a) \/ Connected(a)
  \/ StartTests \/ StartAgain \/ Spawn \/ Exit

User(a) == Start(a) \/ OnStop(a) \/ Destroy(a)

\* From its creation to what it opens or fails to, and from its end on, a
\* session goes on by itself.
SessionStep(s) ==
  \/ SetRunning(s) \/ RatesDoNotFit(s) \/ Opens(s)
  \/ sess[s] = "running" /\ Ends(s)
  \/ Closes(s) \/ TellsNext(s) \/ ToldAll(s) \/ Torn(s)

\* In between it may run for as long as the user likes.
LaterStep(s) == (sess[s] = "opened" /\ Ends(s)) \/ PendingStrikes(s)

Next ==
  \/ MainStep
  \/ \E a \in Activities : User(a)
  \/ \E granted \in BOOLEAN : Permission(granted)
  \/ \E s \in Sessions : SessionStep(s) \/ LaterStep(s)
  \/ ServiceDestroyed \/ Replug

(* Android delivers what it promised, and threads run: while some of this is *)
(* left to do, some of it is done.  The user need not do anything, and an    *)
(* open session need not end.                                               *)
Fairness == WF_vars(MainStep \/ \E s \in Sessions : SessionStep(s))

Spec == Init /\ [][Next]_vars
FairSpec == Spec /\ Fairness

-----------------------------------------------------------------------------
(* Properties.                                                              *)

\* The process ends itself by System.exit only for somebody who asked it to
\* stop, or to start while it is running: a second request, or the first one
\* again, which onStart repeats whenever the user returns.  Unbinding twice
\* (onStop never resets mBound) takes a user who returned, and got no further
\* than the dongle.  A request to start, and no second one, is enough for the
\* exit(1) of rtl_ais_main, which finds rates that do not fit, and for a list of
\* listeners that changes while a session tells them something.  (The one other
\* end is the null connection in mUsbReceiver.)
EndsHaveCause ==
  /\ process \in {"exiting", "exited"} =>
       \/ \E a \in Activities : command[a] = "stop"
       \/ \E a, b \in Activities : a # b /\ {command[a], command[b]} = {"start"}
       \/ returns > 0
  /\ process = "not_bound" => returns > 0 /\ replugs > 0
  /\ process \in {"unfit_rates", "list_changed"} =>
       \E a \in Activities : command[a] = "start"

\* (bound) A connection is made, and there is no session left to start.
NoSessionLeft(a) ==
  /\ conn[a] = "pending" /\ command[a] = "start" /\ ~is_running
  /\ \A s \in Sessions : sess[s] # "unborn"

\* OnOpened did not get as far as this listener, and the session goes on with
\* the exception pending.
Skipped(a) ==
  \E s \in Sessions : sess[s] = "opened" /\ telling[s] = "pending"
                      /\ a \in toTell[s]

\* An activity waits for something that is not up to the user.
Waits(a) ==
  /\ life[a] = "visible" /\ a \notin answered /\ Alive /\ ~asked
  /\ ~NoSessionLeft(a) /\ ~Skipped(a)

\* Nobody waits for ever: every request is answered, and nothing stands between
\* them but the end of the process, the user who does not decide, and, as long
\* as a session is open, the exception in its OnOpened, behind which listeners
\* are never told that it is.  Again and again no activity waits at all.
RequestsAreAnswered == []<>(\A a \in Activities : ~Waits(a))
=============================================================================
