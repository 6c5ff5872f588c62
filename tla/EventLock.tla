----------------------------- MODULE EventLock ------------------------------
(***************************************************************************)
(* How the threads that call libusb share the handling of events.  The     *)
(* reader calls libusb_handle_events_timeout in a loop; other threads make *)
(* synchronous control transfers (the commands of the TCP client retune    *)
(* the dongle while it streams) and wait, each for its own, in             *)
(* sync_transfer_wait_for_completion.  Whoever gets the events lock polls  *)
(* and completes everybody's transfers; the others sleep on a condition.   *)
(*                                                                         *)
(* The transfers here are the control transfers, one for each of Syncs; a  *)
(* control transfer has one URB.  The reader's own bulk transfers, which   *)
(* have no timeout, are seen as events that wake up poll.  Nobody closes   *)
(* the device meanwhile (device_close = 0), and there is no timerfd.       *)
(***************************************************************************)
EXTENDS Naturals, FiniteSets

CONSTANTS
  Syncs,   \* threads that make a synchronous transfer
  Reader,  \* the thread in rtlsdr_read_async
  None,
  Late,    \* transfers that may be answered, submitted or polled so late that
           \* the timeout expires though the dongle answers
  Mute,    \* transfers that the dongle may never answer
  Refused  \* transfers the kernel may refuse

ASSUME EventLockAssumption ==
  /\ Reader \notin Syncs
  /\ None \notin Syncs \cup {Reader}
  /\ Late \cup Mute \cup Refused \subseteq Syncs

Threads == Syncs \cup {Reader}

VARIABLES
  pc,
  xfer,        \* each transfer: idle, listed, flying, answered, killed,
               \* reaped, completed, refused
  status,      \* transfer->status
  mute,        \* transfers the dongle will not answer
  expired,     \* transfers whose timeout has expired
  cancelling, timedOut,  \* the flags CANCELLING and TIMED_OUT
  events, waiters, flying,  \* who holds events_lock, event_waiters_lock and
                            \* flying_transfers_lock
  active,      \* event_handler_active
  todo,        \* each thread in handle_timeouts: the transfers still to visit
  hand         \* the transfer it has just cancelled, or just reaped

lockVars == <<events, waiters, flying, active>>
flagVars == <<mute, expired, cancelling, timedOut>>
vars == <<pc, xfer, status, flagVars, lockVars, todo, hand>>

Init ==
  /\ pc = [t \in Threads |-> "idle"]
  /\ xfer = [t \in Syncs |-> "idle"]
  /\ status = [t \in Syncs |-> "none"]
  /\ mute \in SUBSET Mute
  /\ expired = {} /\ cancelling = {} /\ timedOut = {}
  /\ events = None /\ waiters = None /\ flying = None
  /\ active = FALSE
  /\ todo = [t \in Threads |-> {}]
  /\ hand = [t \in Threads |-> None]

-----------------------------------------------------------------------------
\* On flying_transfers.
Listed ==
  {u \in Syncs :
     xfer[u] \in {"listed", "flying", "answered", "killed", "reaped"}}
Ready == {u \in Syncs : xfer[u] \in {"answered", "killed"}}
Completed(t) == t \in Syncs /\ xfer[t] = "completed"

\* Expired timeouts that were not handled.
Overdue == (Listed \cap expired) \ timedOut

Goto(t, from, to) == pc[t] = from /\ pc' = [pc EXCEPT ![t] = to]

\* Out of libusb_handle_events_timeout_completed.
Outside(t) == IF t \in Syncs THEN "look" ELSE "idle"

(* The dongle, the kernel and the clock.                                   *)

Answer(u) ==
  /\ xfer[u] = "flying"
  /\ u \notin mute
  /\ xfer' = [xfer EXCEPT ![u] = "answered"]
  /\ UNCHANGED <<pc, status, flagVars, lockVars, todo, hand>>

Expire(u) ==
  /\ u \in Listed \ expired
  /\ u \in Late \/ (u \in mute /\ xfer[u] # "listed")
  /\ expired' = expired \cup {u}
  /\ UNCHANGED <<pc, xfer, status, mute, cancelling, timedOut, lockVars, todo,
                 hand>>

-----------------------------------------------------------------------------
(* libusb_control_transfer and the reader's loop.                          *)

\* libusb_submit_transfer puts the transfer on the flying list, and holds the
\* lock of the transfer until it returns.
Submit(t) ==
  /\ t \in Syncs
  /\ flying = None
  /\ Goto(t, "idle", "submit")
  /\ xfer' = [xfer EXCEPT ![t] = "listed"]
  /\ UNCHANGED <<status, flagVars, lockVars, todo, hand>>

SubmitUrb(t) ==
  /\ Goto(t, "submit", "look")
  /\ xfer' = [xfer EXCEPT ![t] = "flying"]
  /\ UNCHANGED <<status, flagVars, lockVars, todo, hand>>

SubmitRefused(t) ==
  /\ t \in Refused
  /\ Goto(t, "submit", "refused")
  /\ UNCHANGED <<xfer, status, flagVars, lockVars, todo, hand>>

Submitting == {u \in Syncs : pc[u] \in {"submit", "refused"}}

RemoveRefused(t) ==
  /\ flying = None
  /\ Goto(t, "refused", "done")
  /\ xfer' = [xfer EXCEPT ![t] = "refused"]
  /\ UNCHANGED <<status, flagVars, lockVars, todo, hand>>

\* while (!*completed); then the transfer is freed.
Look(t) ==
  /\ Goto(t, "look", IF Completed(t) THEN "done" ELSE "next")
  /\ UNCHANGED <<xfer, status, flagVars, lockVars, todo, hand>>

ReaderCalls ==
  /\ Goto(Reader, "idle", "next")
  /\ UNCHANGED <<xfer, status, flagVars, lockVars, todo, hand>>

\* The stream is over.
ReaderLeaves ==
  /\ Goto(Reader, "idle", "done")
  /\ UNCHANGED <<xfer, status, flagVars, lockVars, todo, hand>>

-----------------------------------------------------------------------------
(* libusb_handle_events_timeout_completed.                                 *)

\* get_next_timeout: with a timeout that has expired no event is handled.
NextTimeout(t) ==
  /\ flying = None
  /\ Goto(t, "next", IF Overdue # {} THEN "timeouts" ELSE "try")
  /\ UNCHANGED <<xfer, status, flagVars, lockVars, todo, hand>>

\* libusb_try_lock_events
TryLock(t) ==
  /\ IF events = None
     THEN Goto(t, "try", "claim") /\ events' = t
     ELSE Goto(t, "try", "busy") /\ UNCHANGED events
  /\ UNCHANGED <<xfer, status, flagVars, waiters, flying, active, todo, hand>>

Claim(t) ==
  /\ Goto(t, "claim", "mine")
  /\ active' = TRUE
  /\ UNCHANGED <<xfer, status, flagVars, events, waiters, flying, todo, hand>>

\* (variant) The thread polls even if its transfer was completed meanwhile.
PollAnyway(t) ==
  /\ Goto(t, "mine", "poll")
  /\ UNCHANGED <<xfer, status, flagVars, lockVars, todo, hand>>

CheckCompleted(t) ==
  /\ Goto(t, "mine", IF Completed(t) THEN "drop" ELSE "poll")
  /\ UNCHANGED <<xfer, status, flagVars, lockVars, todo, hand>>

\* libusb_unlock_events, in three steps.
Drop(t) ==
  /\ Goto(t, "drop", "unlock")
  /\ active' = FALSE
  /\ UNCHANGED <<xfer, status, flagVars, events, waiters, flying, todo, hand>>

Unlock(t) ==
  /\ Goto(t, "unlock", "cast")
  /\ events' = None
  /\ UNCHANGED <<xfer, status, flagVars, waiters, flying, active, todo, hand>>

Broadcast(t) ==
  /\ pc[t] = "cast"
  /\ waiters = None
  /\ pc' = [u \in Threads |-> IF u = t THEN Outside(t)
                              ELSE IF pc[u] = "wait" THEN "woken" ELSE pc[u]]
  /\ UNCHANGED <<xfer, status, flagVars, lockVars, todo, hand>>

\* Somebody else handles events: libusb_lock_event_waiters.
LockWaiters(t) ==
  /\ waiters = None
  /\ Goto(t, "busy", "check")
  /\ waiters' = t
  /\ UNCHANGED <<xfer, status, flagVars, events, flying, active, todo, hand>>

\* (variant) The thread returns without giving event_waiters_lock back.
DoneAndLocked(t) ==
  /\ Completed(t)
  /\ Goto(t, "check", Outside(t))
  /\ UNCHANGED <<xfer, status, flagVars, lockVars, todo, hand>>

AlreadyDone(t) ==
  /\ Completed(t)
  /\ Goto(t, "check", Outside(t))
  /\ waiters' = None
  /\ UNCHANGED <<xfer, status, flagVars, events, flying, active, todo, hand>>

\* (variant) That the handler went away is not noticed.
WaitUnasked(t) ==
  /\ ~Completed(t)
  /\ Goto(t, "check", "sleep")
  /\ UNCHANGED <<xfer, status, flagVars, lockVars, todo, hand>>

\* libusb_event_handler_active: if the handler went away, try again.
CheckActive(t) ==
  /\ ~Completed(t)
  /\ IF active
     THEN Goto(t, "check", "sleep") /\ UNCHANGED waiters
     ELSE Goto(t, "check", "try") /\ waiters' = None
  /\ UNCHANGED <<xfer, status, flagVars, events, flying, active, todo, hand>>

\* libusb_wait_for_event
Wait(t) ==
  /\ Goto(t, "sleep", "wait")
  /\ waiters' = None
  /\ UNCHANGED <<xfer, status, flagVars, events, flying, active, todo, hand>>

\* pthread_cond_timedwait has taken event_waiters_lock again, and
\* libusb_unlock_event_waiters gives it back.
Woken(t) ==
  /\ waiters = None
  /\ Goto(t, "woken", Outside(t))
  /\ UNCHANGED <<xfer, status, flagVars, lockVars, todo, hand>>

WaitTimesOut(t) ==
  /\ waiters = None
  /\ Goto(t, "wait", "timeouts")
  /\ UNCHANGED <<xfer, status, flagVars, lockVars, todo, hand>>

-----------------------------------------------------------------------------
(* handle_events: poll, and reap while there is something to reap.         *)

PollReady(t) ==
  /\ Ready # {}
  /\ Goto(t, "poll", "reap")
  /\ UNCHANGED <<xfer, status, flagVars, lockVars, todo, hand>>

\* A bulk transfer completed; whatever is ready meanwhile is reaped with it.
PollOther(t) ==
  /\ Ready = {}
  /\ Goto(t, "poll", "reap")
  /\ UNCHANGED <<xfer, status, flagVars, lockVars, todo, hand>>

PollTimesOut(t) ==
  /\ Ready = {}
  /\ Goto(t, "poll", "timeouts")
  /\ UNCHANGED <<xfer, status, flagVars, lockVars, todo, hand>>

\* reap_for_handle, handle_control_completion and, for a transfer that was
\* cancelled, the look at TIMED_OUT in usbi_handle_transfer_cancellation.
Reap(t, u) ==
  /\ Goto(t, "reap", "finish")
  /\ u \in Ready
  /\ hand' = [hand EXCEPT ![t] = u]
  /\ xfer' = [xfer EXCEPT ![u] = "reaped"]
  /\ status' = [status EXCEPT ![u] = IF xfer[u] = "answered" THEN "COMPLETED"
                                     ELSE IF u \in timedOut THEN "TIMED_OUT"
                                     ELSE "CANCELLED"]
  /\ UNCHANGED <<flagVars, lockVars, todo>>

\* (variant) The transfer is taken from the flying list without its lock.
FinishUnlocked(t) ==
  /\ Goto(t, "finish", "reap")
  /\ xfer' = [xfer EXCEPT ![hand[t]] = "completed"]
  /\ hand' = [hand EXCEPT ![t] = None]
  /\ UNCHANGED <<status, flagVars, lockVars, todo>>

\* usbi_handle_transfer_completion and sync_transfer_cb.
Finish(t) ==
  /\ flying = None
  /\ Goto(t, "finish", "reap")
  /\ xfer' = [xfer EXCEPT ![hand[t]] = "completed"]
  /\ hand' = [hand EXCEPT ![t] = None]
  /\ UNCHANGED <<status, flagVars, lockVars, todo>>

ReapedAll(t) ==
  /\ Ready = {}
  /\ Goto(t, "reap", "drop")
  /\ UNCHANGED <<xfer, status, flagVars, lockVars, todo, hand>>

-----------------------------------------------------------------------------
(* handle_timeouts.                                                        *)

LockFlying(t) ==
  /\ flying = None
  /\ Goto(t, "timeouts", "visit")
  /\ flying' = t
  /\ todo' = [todo EXCEPT ![t] = Overdue]
  /\ UNCHANGED <<xfer, status, flagVars, events, waiters, active, hand>>

\* libusb_cancel_transfer waits for the lock of the transfer; the URB is
\* discarded, or has completed already.
Cancel(t, u) ==
  /\ pc[t] = "visit"
  /\ u \in todo[t] \ Submitting
  /\ cancelling' = cancelling \cup {u}
  /\ todo' = [todo EXCEPT ![t] = @ \ {u}]
  /\ IF xfer[u] = "flying" /\ u \notin cancelling
     THEN /\ Goto(t, "visit", "flag")
          /\ xfer' = [xfer EXCEPT ![u] = "killed"]
          /\ hand' = [hand EXCEPT ![t] = u]
     ELSE UNCHANGED <<pc, xfer, hand>>
  /\ UNCHANGED <<status, mute, expired, timedOut, lockVars>>

\* TIMED_OUT is set only when the cancellation succeeded, and after it.
Flag(t) ==
  /\ Goto(t, "flag", "visit")
  /\ timedOut' = timedOut \cup {hand[t]}
  /\ hand' = [hand EXCEPT ![t] = None]
  /\ UNCHANGED <<xfer, status, mute, expired, cancelling, lockVars, todo>>

UnlockFlying(t) ==
  /\ todo[t] = {}
  /\ Goto(t, "visit", IF events = t THEN "drop" ELSE Outside(t))
  /\ flying' = None
  /\ UNCHANGED <<xfer, status, flagVars, events, waiters, active, todo, hand>>

-----------------------------------------------------------------------------
Step(t) ==
  \/ SubmitUrb(t) \/ RemoveRefused(t) \/ Look(t)
  \/ NextTimeout(t) \/ TryLock(t) \/ Claim(t) \/ CheckCompleted(t)
  \/ Drop(t) \/ Unlock(t) \/ Broadcast(t)
  \/ LockWaiters(t) \/ AlreadyDone(t) \/ CheckActive(t) \/ Wait(t) \/ Woken(t)
  \/ PollReady(t) \/ Finish(t) \/ ReapedAll(t)
  \/ LockFlying(t) \/ Flag(t) \/ UnlockFlying(t)
  \/ \E u \in Syncs : Reap(t, u) \/ Cancel(t, u)

TimesOut(t) == WaitTimesOut(t) \/ PollTimesOut(t)

\* Two threads wait for each other: a transfer was refused when its timeout had
\* expired, libusb_submit_transfer waits for the lock of the flying list, and
\* handle_timeouts, which holds it, for that of the transfer.
Deadlocked ==
  \E t \in Threads, u \in Submitting :
    pc[t] = "visit" /\ pc[u] = "refused" /\ u \in todo[t]

\* Every thread has returned, or two wait for each other.
Over == Deadlocked \/ \A t \in Threads : pc[t] = "done"

Next ==
  \/ \E u \in Syncs : Answer(u) \/ Expire(u)
  \/ \E t \in Threads : \/ Submit(t) \/ SubmitRefused(t) \/ Step(t)
                         \/ TimesOut(t) \/ PollOther(t)
  \/ ReaderCalls \/ ReaderLeaves
  \/ Over /\ UNCHANGED vars

(* Every thread goes on.  A wait ends by its timeout at least when the       *)
(* timeout of the thread's own transfer, which was flying before the wait    *)
(* began, has expired.  Locks are granted: a thread that finds event_waiters *)
(* or flying_transfers free again and again gets it.                         *)
Fairness ==
  /\ \A t \in Threads : SF_vars(Step(t))
  /\ WF_vars(\E t \in Syncs : t \in expired /\ TimesOut(t))

Spec == Init /\ [][Next]_vars
FairSpec == Spec /\ Fairness
-----------------------------------------------------------------------------
(* Properties.                                                             *)

\* Every variable keeps its type.
TypeOK ==
  /\ pc \in [Threads ->
       {"idle", "submit", "refused", "look", "next", "try", "claim", "mine",
        "poll", "reap", "finish", "drop", "unlock", "cast", "busy", "check",
        "sleep", "wait", "woken", "timeouts", "visit", "flag", "done"}]
  /\ xfer \in [Syncs -> {"idle", "listed", "flying", "answered", "killed",
                         "reaped", "completed", "refused"}]
  /\ status \in [Syncs -> {"none", "COMPLETED", "TIMED_OUT", "CANCELLED"}]
  /\ mute \subseteq Syncs /\ expired \subseteq Syncs
  /\ cancelling \subseteq Syncs /\ timedOut \subseteq Syncs
  /\ events \in Threads \cup {None}
  /\ waiters \in Threads \cup {None}
  /\ flying \in Threads \cup {None}
  /\ active \in BOOLEAN
  /\ todo \in [Threads -> SUBSET Syncs]
  /\ hand \in [Threads -> Syncs \cup {None}]

\* Threads that handle events, or did and have still to wake up the others.
Wakers ==
  {t \in Threads : \/ pc[t] \in {"mine", "poll", "reap", "finish", "drop",
                                 "unlock", "cast"}
                   \/ pc[t] \in {"timeouts", "visit", "flag"} /\ events = t}

\* No wake-up is lost: a thread that sleeps on the condition, or is about to,
\* has somebody who will broadcast after it fell asleep.
SleeperHasWaker ==
  (\E t \in Threads : pc[t] \in {"sleep", "wait"}) => Wakers # {}

\* A transfer that a thread is cancelling because of its timeout has not been
\* freed by the thread that waits for it.
TimeoutsTouchNoFreed ==
  \A t \in Threads :
    /\ pc[t] \in {"visit", "flag"} => \A u \in todo[t] : pc[u] # "done"
    /\ pc[t] = "flag" => \A u \in Syncs : hand[t] = u => pc[u] # "done"

\* The timeout of a transfer expired when its answer was there but not reaped:
\* the cancellation fails, TIMED_OUT is never set, get_next_timeout finds the
\* same timeout again and again, and no thread gets as far as poll.
Spinning == \E u \in Overdue \cap cancelling : xfer[u] = "answered"

\* The thread waits for a lock that another one holds: that of the flying list,
\* that of the waiters, or, in handle_timeouts, that of every transfer that is
\* left to visit.
Awaits(t) ==
  \/ pc[t] \in {"next", "refused", "finish", "timeouts"} /\ flying # None
  \/ pc[t] \in {"busy", "cast", "woken"} /\ waiters # None
  \/ pc[t] = "visit" /\ todo[t] # {} /\ todo[t] \subseteq Submitting

\* Nobody waits for a lock or a broadcast that never comes: as long as a thread is
\* inside libusb, one of them can go on, or polls, which ends by its timeout; but
\* for the two that wait for each other above.
SomebodyGoesOn ==
  (\E t \in Threads : pc[t] \notin {"idle", "done"}) =>
    \/ Deadlocked
    \/ \E t \in Threads : pc[t] \notin {"idle", "done", "wait"} /\ ~Awaits(t)

\* The thread's transfer was answered, timed out or was refused.
Ended(t) ==
  \/ xfer[t] \in {"answered", "killed", "reaped", "completed"}
  \/ t \in expired \/ pc[t] = "refused"

\* A thread whose transfer has ended returns, whoever handles the events, and
\* although the reader may leave; the two ways of getting stuck above are the
\* only ones.
EndedReturns ==
  []<>(\/ Spinning \/ Deadlocked
       \/ \A t \in Syncs : Ended(t) => pc[t] = "done")
=============================================================================
