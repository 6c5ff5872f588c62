----------------------- MODULE ControlTransferProofs -----------------------
(***************************************************************************)
(* Control transfers: the threads that wait for them, in EventLock, and    *)
(* what the functions of librtlsdr make of the dongle with them, in        *)
(* DeviceControl.                                                          *)
(*                                                                         *)
(* EventLock keeps its types, loses no wake-up and cancels no transfer     *)
(* that was freed, for any number of threads with synchronous transfers.   *)
(* DeviceControl keeps its types; the frequency it reports is received,    *)
(* the gain mode is known and failures are told, whichever transfers of    *)
(* however many calls fail.                                                *)
(***************************************************************************)
EXTENDS EventLock, DeviceControl, TLAPS

-----------------------------------------------------------------------------
(* The events lock.                                                         *)

\* The threads at work inside libusb_handle_events hold the events lock.
Inside == {"claim", "mine", "poll", "reap", "finish", "drop", "unlock"}
EventsHeld == \A t \in Threads : pc[t] \in Inside => events = t

\* A thread that decides whether to sleep holds event_waiters_lock.
WaitersHeld == \A t \in Threads : pc[t] \in {"check", "sleep"} => waiters = t

\* A thread in handle_timeouts holds flying_transfers_lock.
FlyingHeld == \A t \in Threads : pc[t] \in {"visit", "flag"} => flying = t

\* These two locks are held nowhere else.
OwnersAreThere ==
  /\ waiters # None => pc[waiters] \in {"check", "sleep"}
  /\ flying # None => pc[flying] \in {"visit", "flag"}

\* event_handler_active means what it says.
AtWork(t) ==
  \/ pc[t] \in {"mine", "poll", "reap", "finish", "drop"}
  \/ pc[t] \in {"timeouts", "visit", "flag"} /\ events = t
ActiveHasHandler == active => \E t \in Threads : AtWork(t)

\* The transfers a thread in handle_timeouts has in its hands are listed.
VisitsListed ==
  \A t \in Threads : /\ pc[t] \in {"visit", "flag"} => todo[t] \subseteq Listed
                     /\ pc[t] = "flag" => hand[t] \in Listed

\* A thread is done with its transfer only when libusb is.
DoneIsOver ==
  \A u \in Syncs : pc[u] = "done" => xfer[u] \in {"completed", "refused"}

\* The inductive invariant: the types, the locks, the wake-ups, the transfers.
LocksHeld == EventsHeld /\ WaitersHeld /\ FlyingHeld /\ OwnersAreThere

Waking == ActiveHasHandler /\ SleeperHasWaker

Flights == VisitsListed /\ DoneIsOver

IInv == TypeOK /\ LocksHeld /\ Waking /\ Flights

\* The steps of a thread, by what they are about.
CallerStep(t) ==
  \/ Submit(t) \/ SubmitUrb(t) \/ SubmitRefused(t) \/ RemoveRefused(t)
  \/ Look(t) \/ NextTimeout(t)

LockStep(t) ==
  \/ TryLock(t) \/ Claim(t) \/ CheckCompleted(t) \/ Drop(t) \/ Unlock(t)
  \/ Broadcast(t)

WaiterStep(t) ==
  \/ LockWaiters(t) \/ AlreadyDone(t) \/ CheckActive(t) \/ Wait(t) \/ Woken(t)
  \/ WaitTimesOut(t)

PollStep(t) ==
  \/ PollReady(t) \/ PollOther(t) \/ PollTimesOut(t) \/ Finish(t)
  \/ ReapedAll(t) \/ \E u \in Syncs : Reap(t, u)

TimeoutStep(t) ==
  LockFlying(t) \/ Flag(t) \/ UnlockFlying(t) \/ \E u \in Syncs : Cancel(t, u)

ReaderStep == ReaderCalls \/ ReaderLeaves

WorldStep == \E u \in Syncs : Answer(u) \/ Expire(u)

\* Every step of the specification is one of these.
LEMMA Steps ==
  [Next]_vars <=>
    \/ \E t \in Threads : \/ CallerStep(t) \/ LockStep(t) \/ WaiterStep(t)
                          \/ PollStep(t) \/ TimeoutStep(t)
    \/ ReaderStep \/ WorldStep \/ UNCHANGED vars
BY DEF Next, Step, TimesOut, Over, CallerStep, LockStep, WaiterStep, PollStep,
   TimeoutStep, ReaderStep, WorldStep

\* The three locks are where the control states say.
LEMMA HeldStep == IInv /\ [Next]_vars => LocksHeld'
<1> SUFFICES ASSUME IInv, [Next]_vars PROVE LocksHeld'
  OBVIOUS
<1> USE EventLockAssumption DEF IInv, LocksHeld, EventsHeld, WaitersHeld,
    FlyingHeld, OwnersAreThere, Inside, TypeOK, Threads, Goto, Outside, Completed,
    lockVars, flagVars
<1>1. ASSUME NEW t \in Threads, CallerStep(t) PROVE LocksHeld'
  BY <1>1 DEF CallerStep, Submit, SubmitUrb, SubmitRefused, RemoveRefused,
     Look, NextTimeout
<1>2. ASSUME NEW t \in Threads, LockStep(t) PROVE LocksHeld'
  BY <1>2 DEF LockStep, TryLock, Claim, CheckCompleted, Drop, Unlock, Broadcast
<1>3. ASSUME NEW t \in Threads, WaiterStep(t) PROVE LocksHeld'
  BY <1>3 DEF WaiterStep, LockWaiters, AlreadyDone, CheckActive, Wait, Woken,
     WaitTimesOut
<1>4. ASSUME NEW t \in Threads, PollStep(t) PROVE LocksHeld'
  BY <1>4 DEF PollStep, PollReady, PollOther, PollTimesOut, Reap, Finish,
     ReapedAll
<1>5. ASSUME NEW t \in Threads, TimeoutStep(t) PROVE LocksHeld'
  BY <1>5 DEF TimeoutStep, LockFlying, Cancel, Flag, UnlockFlying
<1>6. CASE ReaderStep
  BY <1>6 DEF ReaderStep, ReaderCalls, ReaderLeaves
<1>7. CASE WorldStep
  BY <1>7 DEF WorldStep, Answer, Expire
<1>8. CASE UNCHANGED vars
  BY <1>8 DEF vars
<1>9. QED
  BY <1>1, <1>2, <1>3, <1>4, <1>5, <1>6, <1>7, <1>8, Steps

\* The handler, its flag, and those who wait for its broadcast.
LEMMA WakerStep == IInv /\ [Next]_vars => Waking'
<1> SUFFICES ASSUME IInv, [Next]_vars PROVE Waking'
  OBVIOUS
<1> USE EventLockAssumption DEF IInv, LocksHeld, EventsHeld, WaitersHeld,
    Inside, Waking, ActiveHasHandler, SleeperHasWaker, Wakers, AtWork, TypeOK,
    Threads, Goto, Outside, Completed, lockVars, flagVars
<1>1. ASSUME NEW t \in Threads, CallerStep(t) PROVE Waking'
  BY <1>1 DEF CallerStep, Submit, SubmitUrb, SubmitRefused, RemoveRefused,
     Look, NextTimeout
<1>2. ASSUME NEW t \in Threads, LockStep(t) PROVE Waking'
  BY <1>2 DEF LockStep, TryLock, Claim, CheckCompleted, Drop, Unlock, Broadcast
<1>3. ASSUME NEW t \in Threads, WaiterStep(t) PROVE Waking'
  BY <1>3 DEF WaiterStep, LockWaiters, AlreadyDone, CheckActive, Wait, Woken,
     WaitTimesOut
<1>4. ASSUME NEW t \in Threads, PollStep(t) PROVE Waking'
  BY <1>4 DEF PollStep, PollReady, PollOther, PollTimesOut, Reap, Finish,
     ReapedAll
<1>5. ASSUME NEW t \in Threads, TimeoutStep(t) PROVE Waking'
  BY <1>5 DEF TimeoutStep, LockFlying, Cancel, Flag, UnlockFlying
<1>6. CASE ReaderStep
  BY <1>6 DEF ReaderStep, ReaderCalls, ReaderLeaves
<1>7. CASE WorldStep
  BY <1>7 DEF WorldStep, Answer, Expire
<1>8. CASE UNCHANGED vars
  BY <1>8 DEF vars
<1>9. QED
  BY <1>1, <1>2, <1>3, <1>4, <1>5, <1>6, <1>7, <1>8, Steps

\* The types; that a flagged transfer is one needs VisitsListed.
LEMMA TypeStep == IInv /\ [Next]_vars => TypeOK'
<1> SUFFICES ASSUME IInv, [Next]_vars PROVE TypeOK'
  OBVIOUS
<1> USE EventLockAssumption DEF IInv, TypeOK, Flights, VisitsListed, Listed,
    Ready, Overdue, Threads, Goto, Outside, Completed, lockVars, flagVars
<1>1. ASSUME NEW t \in Threads, CallerStep(t) PROVE TypeOK'
  BY <1>1 DEF CallerStep, Submit, SubmitUrb, SubmitRefused, RemoveRefused,
     Look, NextTimeout
<1>2. ASSUME NEW t \in Threads, LockStep(t) PROVE TypeOK'
  <2>1. CASE Broadcast(t)
    <3>1. \A u \in Threads : pc'[u] \in {pc[u], "woken", "look", "idle"}
      BY <2>1 DEF Broadcast
    <3>2. pc' = [u \in Threads |-> pc'[u]]
      BY <2>1 DEF Broadcast
    <3>3. QED
      BY <2>1, <3>1, <3>2 DEF Broadcast
  <2>2. CASE Claim(t) \/ Drop(t)
    <3>1. active' \in BOOLEAN
      BY <2>2, Zenon DEF Claim, Drop
    <3>2. QED
      BY <2>2, <3>1 DEF Claim, Drop
  <2>3. CASE TryLock(t)
    BY <2>3 DEF TryLock
  <2>4. CASE CheckCompleted(t) \/ Unlock(t)
    BY <2>4 DEF CheckCompleted, Unlock
  <2>5. QED
    BY <1>2, <2>1, <2>2, <2>3, <2>4 DEF LockStep
<1>3. ASSUME NEW t \in Threads, WaiterStep(t) PROVE TypeOK'
  BY <1>3 DEF WaiterStep, LockWaiters, AlreadyDone, CheckActive, Wait, Woken,
     WaitTimesOut
<1>4. ASSUME NEW t \in Threads, PollStep(t) PROVE TypeOK'
  BY <1>4 DEF PollStep, PollReady, PollOther, PollTimesOut, Reap, Finish,
     ReapedAll
<1>5. ASSUME NEW t \in Threads, TimeoutStep(t) PROVE TypeOK'
  BY <1>5 DEF TimeoutStep, LockFlying, Cancel, Flag, UnlockFlying
<1>6. CASE ReaderStep
  BY <1>6 DEF ReaderStep, ReaderCalls, ReaderLeaves
<1>7. CASE WorldStep
  BY <1>7 DEF WorldStep, Answer, Expire
<1>8. CASE UNCHANGED vars
  BY <1>8 DEF vars
<1>9. QED
  BY <1>1, <1>2, <1>3, <1>4, <1>5, <1>6, <1>7, <1>8, Steps

\* The flying list does not change under a thread that walks it.
LEMMA VisitStep == IInv /\ [Next]_vars => Flights'
<1> SUFFICES ASSUME IInv, [Next]_vars PROVE Flights'
  OBVIOUS
<1> USE EventLockAssumption DEF IInv, TypeOK, LocksHeld, FlyingHeld, Flights,
    VisitsListed, DoneIsOver, Listed, Ready, Overdue, Threads, Goto, Outside,
    Completed, lockVars, flagVars
<1>1. ASSUME NEW t \in Threads, CallerStep(t) PROVE Flights'
  BY <1>1 DEF CallerStep, Submit, SubmitUrb, SubmitRefused, RemoveRefused,
     Look, NextTimeout
<1>2. ASSUME NEW t \in Threads, LockStep(t) PROVE Flights'
  BY <1>2 DEF LockStep, TryLock, Claim, CheckCompleted, Drop, Unlock, Broadcast
<1>3. ASSUME NEW t \in Threads, WaiterStep(t) PROVE Flights'
  BY <1>3 DEF WaiterStep, LockWaiters, AlreadyDone, CheckActive, Wait, Woken,
     WaitTimesOut
<1>4. ASSUME NEW t \in Threads, PollStep(t) PROVE Flights'
  BY <1>4 DEF PollStep, PollReady, PollOther, PollTimesOut, Reap, Finish,
     ReapedAll
<1>5. ASSUME NEW t \in Threads, TimeoutStep(t) PROVE Flights'
  BY <1>5 DEF TimeoutStep, LockFlying, Cancel, Flag, UnlockFlying
<1>6. CASE ReaderStep
  BY <1>6 DEF ReaderStep, ReaderCalls, ReaderLeaves
<1>7. CASE WorldStep
  BY <1>7 DEF WorldStep, Answer, Expire
<1>8. CASE UNCHANGED vars
  BY <1>8 DEF vars
<1>9. QED
  BY <1>1, <1>2, <1>3, <1>4, <1>5, <1>6, <1>7, <1>8, Steps

\* The invariant holds at the start.
LEMMA InitIInv == Init => IInv
<1> SUFFICES ASSUME Init PROVE IInv
  OBVIOUS
<1>1. TypeOK
  BY EventLockAssumption DEF Init, TypeOK, Threads
<1>2. LocksHeld
  BY DEF Init, LocksHeld, EventsHeld, Inside, WaitersHeld, FlyingHeld, OwnersAreThere
<1>3. Waking
  BY DEF Init, Waking, ActiveHasHandler, SleeperHasWaker
<1>4. Flights
  BY DEF Init, Flights, VisitsListed, DoneIsOver, Threads
<1>5. QED
  BY <1>1, <1>2, <1>3, <1>4 DEF IInv

\* Every step keeps it.
LEMMA IInvStep == IInv /\ [Next]_vars => IInv'
BY HeldStep, WakerStep, TypeStep, VisitStep DEF IInv

\* The strengthened invariant holds for any number of threads.
THEOREM EventsInvariant == Spec => []IInv
BY InitIInv, IInvStep, PTL DEF Spec

\* Every variable keeps its type.
THEOREM EventsTypeOK == Spec => []TypeOK
<1>1. IInv => TypeOK
  BY DEF IInv
<1>2. QED
  BY <1>1, EventsInvariant, PTL

\* No thread sleeps on the condition of libusb_wait_for_event without somebody
\* who still has to broadcast, however many threads wait and handle events by
\* turns.
THEOREM EventsSleeperHasWaker == Spec => []SleeperHasWaker
<1>1. IInv => SleeperHasWaker
  BY DEF IInv, Waking
<1>2. QED
  BY <1>1, EventsInvariant, PTL

\* handle_timeouts never touches a transfer that the thread which waited for it
\* has freed.
THEOREM EventsTimeoutsTouchNoFreed == Spec => []TimeoutsTouchNoFreed
<1>1. IInv => TimeoutsTouchNoFreed
  BY EventLockAssumption
     DEF IInv, TypeOK, Flights, VisitsListed, DoneIsOver, Listed,
     TimeoutsTouchNoFreed, Threads
<1>2. QED
  BY <1>1, EventsInvariant, PTL

\* Whoever waits for a lock waits for a thread that can go on, unless two wait for
\* each other.
LEMMA LocksAreGranted ==
  ASSUME IInv, ~Deadlocked, NEW t \in Threads, Awaits(t)
  PROVE  \E u \in Threads : pc[u] \notin {"idle", "done", "wait"} /\ ~Awaits(u)
<1> USE EventLockAssumption DEF Threads
<1> DEFINE Goes(u) == pc[u] \notin {"idle", "done", "wait"} /\ ~Awaits(u)
<1>1. ASSUME NEW u \in Threads, pc[u] = "visit", Awaits(u)
      PROVE  \E v \in Threads : Goes(v)
  <2>1. PICK v \in todo[u] : v \in Submitting
    BY <1>1 DEF Awaits
  <2>2. v \in Threads /\ pc[v] = "submit"
    BY <1>1, <2>1 DEF Submitting, Deadlocked
  <2> QED BY <2>2 DEF Awaits
<1>2. ASSUME flying # None PROVE \E v \in Threads : Goes(v)
  <2>1. flying \in Threads /\ pc[flying] \in {"visit", "flag"}
    BY <1>2 DEF IInv, TypeOK, LocksHeld, OwnersAreThere
  <2>2. CASE Awaits(flying)
    BY <1>1, <2>1, <2>2 DEF Awaits
  <2> QED BY <2>1, <2>2
<1>3. ASSUME waiters # None PROVE \E v \in Threads : Goes(v)
  <2>1. waiters \in Threads /\ pc[waiters] \in {"check", "sleep"}
    BY <1>3 DEF IInv, TypeOK, LocksHeld, OwnersAreThere
  <2> QED BY <2>1 DEF Awaits
<1> QED BY <1>1, <1>2, <1>3 DEF Awaits

\* As long as some thread is inside libusb somebody can go on, however many threads
\* wait for each other's locks and broadcasts; the named deadlock is the only one.
THEOREM EventsSomebodyGoesOn == Spec => []SomebodyGoesOn
<1>1. IInv => SomebodyGoesOn
  <2> SUFFICES ASSUME IInv, ~Deadlocked,
                      NEW t \in Threads, pc[t] \notin {"idle", "done"}
               PROVE  \E u \in Threads :
                        pc[u] \notin {"idle", "done", "wait"} /\ ~Awaits(u)
    BY DEF SomebodyGoesOn
  <2>1. CASE pc[t] = "wait"
    <3>1. PICK w \in Threads : w \in Wakers
      BY <2>1 DEF IInv, Waking, SleeperHasWaker, Wakers
    <3>2. pc[w] \notin {"idle", "done", "wait"}
      BY <3>1 DEF Wakers
    <3> QED BY <3>2, LocksAreGranted
  <2>2. CASE pc[t] # "wait"
    BY <2>2, LocksAreGranted
  <2> QED BY <2>1, <2>2
<1>2. QED
  BY <1>1, EventsInvariant, PTL

-----------------------------------------------------------------------------
(* The control functions.  They make worlds of worlds: first what every one *)
(* of them makes, then the invariant between two calls.                     *)

(* A world, whatever went wrong so far: the types of what a call transforms. *)
Devs ==
  [rate : Rates \cup {0}, freq : Freqs \cup {0}, bw : Widths \cup {0},
   offs : Nat, corr : Ppms \cup {0}, rtl_xtal : Crystals, tun_xtal : Crystals,
   direct : BOOLEAN]

Tuns == [int : {2, InitIf, 4}, mode : {0, 1}, xtal : Clocks]

Chips ==
  [repeater : {"idle", "on", "reset"}, if : Known(Nat) \cup {Torn},
   lo : [f : Nat, clk : Clocks \cup {OwnClock}] \cup {Torn, Unlocked},
   zeroif : BOOLEAN \cup {Torn}, inversion : BOOLEAN \cup {Torn},
   ratio : Rates \cup {0, Torn}, ppm : Ppms \cup {0, Torn},
   mode : {0, 1, Torn}, filter : {0, 1, 2, Torn},
   init : {"on", "standby", Torn}]

Faults == [from : Nat, to : Nat]

Worlds ==
  [tuner : Tuners, dev : Devs, tun : Tuns, chip : Chips, n : Nat, r : Int,
   fault : Faults, lock : BOOLEAN, failed : BOOLEAN,
   unswitched : BOOLEAN]

-----------------------------------------------------------------------------
(* What a function does to a world w, of which it makes v.                  *)

\* The call goes on, with the same tuner and the same faults.
SameCall(w, v) ==
  v \in Worlds /\ v.tuner = w.tuner /\ v.fault = w.fault /\ v.lock = w.lock

\* What goes wrong is told in the result.
Told(w, v) == v.failed => w.failed \/ v.r # 0

\* The registers of the tuner, and those of the demodulator.
SameTuner(w, v) ==
  v.chip.lo = w.chip.lo /\ v.chip.init = w.chip.init /\ v.chip.mode = w.chip.mode

SameDemod(w, v) ==
  v.chip.if = w.chip.if /\ v.chip.ppm = w.chip.ppm /\ v.chip.ratio = w.chip.ratio

SameDriver(w, v) == v.dev = w.dev /\ v.tun = w.tun

\* Nothing that the properties speak of changes.
Silent(w, v) ==
  /\ SameCall(w, v) /\ SameDriver(w, v)
  /\ SameTuner(w, v) /\ SameDemod(w, v)

-----------------------------------------------------------------------------
(* Transfers.                                                               *)

\* A world stays one when it counts a transfer.
LEMMA Counted ==
  ASSUME NEW w \in Worlds, NEW m \in Nat, NEW k \in Int, NEW b \in BOOLEAN,
         NEW c \in Chips
  PROVE  /\ [w EXCEPT !.n = m, !.failed = b] \in Worlds
         /\ [w EXCEPT !.n = m, !.failed = b, !.r = k] \in Worlds
         /\ [w EXCEPT !.n = m, !.failed = b, !.r = k, !.chip = c] \in Worlds
BY DEF Worlds

\* An I2C transfer.
LEMMA I2cIs ==
  ASSUME NEW w \in Worlds, NEW v, v = I2c(w)
  PROVE  Silent(w, v) /\ v.r \in {0, -1} /\ Told(w, v)
<1>1. v \in Worlds
  <2> DEFINE b == (w.failed \/ Lost(w) \/ w.chip.repeater # "on")
             k == IF Lost(w) \/ w.chip.repeater # "on" THEN -1 ELSE 0
             m == w.n + 1
  <2>1. v = [w EXCEPT !.n = m, !.failed = b, !.r = k]
    BY DEF I2c
  <2>2. m \in Nat
    BY DEF Worlds
  <2>3. k \in Int /\ b \in BOOLEAN
    OBVIOUS
  <2> HIDE DEF b, k, m
  <2>4. [w EXCEPT !.n = m, !.failed = b, !.r = k] \in Worlds
    <3>0. \E c \in Chips : TRUE
      BY DEF Worlds
    <3> QED
      BY <2>2, <2>3, <3>0, Counted, Zenon
  <2> QED
    BY <2>1, <2>4, Zenon
<1>2. /\ v.dev = w.dev /\ v.tun = w.tun /\ v.chip = w.chip
      /\ v.tuner = w.tuner /\ v.fault = w.fault /\ v.lock = w.lock
  BY DEF I2c, Worlds
<1>3. v.r \in {0, -1} /\ Told(w, v)
  BY DEF I2c, Worlds, Told
<1> QED
  BY <1>1, <1>2, <1>3 DEF Silent, SameCall, SameDriver, SameTuner, SameDemod

\* A register of the demodulator.
LEMMA DemodIs ==
  ASSUME NEW w \in Worlds, NEW reg, NEW value, NEW v, v = Demod(w, reg, value),
         [w.chip EXCEPT ![reg] = value] \in Chips,
         [w.chip EXCEPT ![reg] = Torn] \in Chips
  PROVE  /\ SameCall(w, v) /\ SameDriver(w, v)
         /\ v.r \in {0, -1} /\ Told(w, v)
         /\ v.chip = [w.chip EXCEPT ![reg] = IF v.r < 0 THEN Torn ELSE value]
<1>1. v.chip = [w.chip EXCEPT ![reg] = IF v.r < 0 THEN Torn ELSE value]
  BY DEF Demod, Worlds
<1>2. v \in Worlds
  <2> DEFINE b == (w.failed \/ Lost(w))
             k == IF Lost(w) THEN -1 ELSE 0
             m == w.n + 1
             c == [w.chip EXCEPT ![reg] = IF Lost(w) THEN Torn ELSE value]
  <2>1. v = [w EXCEPT !.n = m, !.failed = b, !.r = k, !.chip = c]
    BY DEF Demod, Worlds
  <2>2. m \in Nat
    BY DEF Worlds
  <2>3. k \in Int /\ b \in BOOLEAN /\ c \in Chips
    OBVIOUS
  <2> HIDE DEF b, k, m, c
  <2>4. [w EXCEPT !.n = m, !.failed = b, !.r = k, !.chip = c] \in Worlds
    BY <2>2, <2>3, Counted, Zenon
  <2> QED
    BY <2>1, <2>4, Zenon
<1>3. /\ v.dev = w.dev /\ v.tun = w.tun
      /\ v.tuner = w.tuner /\ v.fault = w.fault /\ v.lock = w.lock
  BY DEF Demod, Worlds
<1>4. v.r \in {0, -1} /\ Told(w, v)
  BY DEF Demod, Worlds, Told
<1> QED
  BY <1>1, <1>2, <1>3, <1>4 DEF SameCall, SameDriver

LEMMA RepeaterIs ==
  ASSUME NEW w \in Worlds, NEW position \in {"idle", "on", "reset"},
         NEW v, v = Repeater(w, position)
  PROVE  Silent(w, v) /\ v.r = w.r /\ v.failed = w.failed
<1>1. v \in Worlds
  <2> DEFINE c == [w.chip EXCEPT !.repeater = IF Lost(w) THEN w.chip.repeater
                                              ELSE position]
             m == w.n + 1
  <2>1. c \in Chips
    BY DEF Worlds, Chips
  <2>2. m \in Nat
    BY DEF Worlds
  <2>3. v = [w EXCEPT !.n = m, !.chip = c]
    BY DEF Repeater, Worlds, Chips
  <2> HIDE DEF c, m
  <2> QED
    BY <2>1, <2>2, <2>3 DEF Worlds
<1>2. /\ v.dev = w.dev /\ v.tun = w.tun /\ v.tuner = w.tuner
      /\ v.fault = w.fault /\ v.lock = w.lock /\ v.r = w.r
      /\ v.failed = w.failed
  BY DEF Repeater, Worlds
<1>3. SameTuner(w, v) /\ SameDemod(w, v)
  BY DEF Repeater, Worlds, Chips, SameTuner, SameDemod
<1> QED
  BY <1>1, <1>2, <1>3 DEF Silent, SameCall, SameDriver

\* A lost switch is remembered as one, and nothing else.
LEMMA SetI2cRepeaterIs ==
  ASSUME NEW w \in Worlds, NEW position \in {"idle", "on", "reset"},
         NEW v, v = SetI2cRepeater(w, position)
  PROVE  Silent(w, v) /\ v.r = w.r /\ v.failed = w.failed
<1> DEFINE u == Repeater(w, position)
           b == (u.unswitched \/ Lost(w))
<1>1. Silent(w, u) /\ u \in Worlds /\ u.r = w.r /\ u.failed = w.failed
  BY RepeaterIs DEF Silent, SameCall
<1>2. v = [u EXCEPT !.unswitched = b] /\ b \in BOOLEAN
  BY DEF SetI2cRepeater
<1> HIDE DEF b, u
<1>3. v \in Worlds
  BY <1>1, <1>2 DEF Worlds
<1>4. /\ v.dev = u.dev /\ v.tun = u.tun /\ v.tuner = u.tuner
      /\ v.fault = u.fault /\ v.lock = u.lock /\ v.r = u.r
      /\ v.failed = u.failed /\ v.chip = u.chip
  BY <1>1, <1>2 DEF Worlds
<1> QED
  BY <1>1, <1>3, <1>4 DEF Silent, SameCall, SameDriver, SameTuner, SameDemod

LEMMA SetGpioBitIs ==
  ASSUME NEW w \in Worlds, NEW v, v = SetGpioBit(w)
  PROVE  Silent(w, v)
<1> DEFINE a == [w EXCEPT !.n = w.n + 1, !.failed = w.failed \/ Lost(w)]
<1>1. ASSUME NEW x \in Worlds
      PROVE  [x EXCEPT !.n = x.n + 1, !.failed = x.failed \/ Lost(x)] \in Worlds
  <2> DEFINE b == (x.failed \/ Lost(x))
             m == x.n + 1
  <2>1. m \in Nat /\ 0 \in Int /\ b \in BOOLEAN /\ \E c \in Chips : TRUE
    BY DEF Worlds
  <2> HIDE DEF b, m
  <2>2. [x EXCEPT !.n = m, !.failed = b] \in Worlds
    BY <2>1, Counted, Zenon
  <2> QED
    BY <2>2, Zenon DEF b, m
<1>2. a \in Worlds
  BY <1>1, Zenon
<1>3. v = [a EXCEPT !.n = a.n + 1, !.failed = a.failed \/ Lost(a)]
  BY DEF SetGpioBit
<1>4. v \in Worlds
  <2> HIDE DEF a
  <2> QED
    BY <1>1, <1>2, <1>3, Zenon
<1>5. /\ a.dev = w.dev /\ a.tun = w.tun /\ a.chip = w.chip
      /\ a.tuner = w.tuner /\ a.fault = w.fault /\ a.lock = w.lock
  BY DEF Worlds
<1>6. /\ v.dev = a.dev /\ v.tun = a.tun /\ v.chip = a.chip
      /\ v.tuner = a.tuner /\ v.fault = a.fault /\ v.lock = a.lock
  <2> HIDE DEF a
  <2> QED
    BY <1>2, <1>3 DEF Worlds
<1> QED
  BY <1>4, <1>5, <1>6 DEF Silent, SameCall, SameDriver, SameTuner, SameDemod

\* r |= ...
LEMMA OrIs ==
  ASSUME NEW w \in Worlds, NEW r \in Int, NEW v, v = Or(r, w)
  PROVE  /\ Silent(w, v) /\ v.failed = w.failed
         /\ v.r = 0 <=> r = 0 /\ w.r = 0
         /\ v.r < 0 <=> r < 0 \/ w.r < 0
<1> DEFINE k == IF r < 0 \/ w.r < 0 THEN -1 ELSE IF r # 0 THEN r ELSE w.r
<1>1. v = [w EXCEPT !.r = k] /\ k \in Int
  BY DEF Or, Worlds
<1>2. /\ k = 0 <=> r = 0 /\ w.r = 0
      /\ k < 0 <=> r < 0 \/ w.r < 0
  BY DEF Worlds
<1> HIDE DEF k
<1>3. /\ v \in Worlds /\ v.r = k /\ v.failed = w.failed
      /\ v.dev = w.dev /\ v.tun = w.tun /\ v.chip = w.chip
      /\ v.tuner = w.tuner /\ v.fault = w.fault /\ v.lock = w.lock
  BY <1>1 DEF Worlds
<1> QED
  BY <1>2, <1>3 DEF Silent, SameCall, SameDriver, SameTuner, SameDemod

\* Silence, and what is told, add up.
LEMMA SilentChain ==
  ASSUME NEW w, NEW u, NEW v, Silent(w, u), Silent(u, v)
  PROVE  Silent(w, v)
BY DEF Silent, SameCall, SameDriver, SameTuner, SameDemod

\* The intermediate frequency.
LEMMA SetIfFreqIs ==
  ASSUME NEW w \in Worlds, NEW f \in Nat, NEW v, v = SetIfFreq(w, f)
  PROVE  /\ SameCall(w, v) /\ SameDriver(w, v) /\ SameTuner(w, v)
         /\ v.chip.ppm = w.chip.ppm /\ v.chip.ratio = w.chip.ratio
         /\ v.chip.if = IF v.r < 0 THEN Torn
                        ELSE [f |-> f, clk |-> RtlClock(w.dev)]
         /\ v.r \in {0, -1} /\ Told(w, v)
<1>1. [f |-> f, clk |-> RtlClock(w.dev)] \in Known(Nat)
  BY DEF Worlds, Devs, RtlClock, Known, Clocks
<1>2. \A x \in Known(Nat) \cup {Torn} : [w.chip EXCEPT !["if"] = x] \in Chips
  BY DEF Worlds, Chips
<1>3. /\ SameCall(w, v) /\ SameDriver(w, v) /\ v.r \in {0, -1} /\ Told(w, v)
      /\ v.chip = [w.chip EXCEPT !["if"] =
           IF v.r < 0 THEN Torn ELSE [f |-> f, clk |-> RtlClock(w.dev)]]
  <2> DEFINE value == [f |-> f, clk |-> RtlClock(w.dev)]
  <2>1. v = Demod(w, "if", value)
    BY DEF SetIfFreq
  <2>2. /\ [w.chip EXCEPT !["if"] = value] \in Chips
        /\ [w.chip EXCEPT !["if"] = Torn] \in Chips
    BY <1>1, <1>2
  <2> HIDE DEF value
  <2>3. /\ SameCall(w, v) /\ SameDriver(w, v)
        /\ v.r \in {0, -1} /\ Told(w, v)
        /\ v.chip = [w.chip EXCEPT !["if"] = IF v.r < 0 THEN Torn ELSE value]
    BY <2>1, <2>2, DemodIs
  <2> QED
    BY <2>3 DEF value
<1>4. w.chip \in Chips
  BY DEF Worlds
<1> QED
  BY <1>3, <1>4 DEF Chips, SameTuner

\* The local oscillator, which alone changes.
OscillatorOnly(w, v) ==
  /\ SameCall(w, v) /\ SameDriver(w, v) /\ SameDemod(w, v)
  /\ v.chip.init = w.chip.init /\ v.chip.mode = w.chip.mode

\* Its clock is the one that the tuner's driver believes in.
ClockOf(w) == IF w.tuner = "FC2580" THEN OwnClock ELSE TunerClock(w.dev)

LEMMA ClocksOf ==
  ASSUME NEW w \in Worlds
  PROVE  /\ TunerClock(w.dev) \in Clocks /\ RtlClock(w.dev) \in Clocks
         /\ w.tun.xtal \in Clocks
BY DEF Worlds, Devs, Tuns, TunerClock, RtlClock, Clocks

LEMMA SetOscillatorIs ==
  ASSUME NEW w \in Worlds, NEW f \in Int, NEW clk \in Clocks \cup {OwnClock},
         NEW v, v = SetOscillator(w, f, clk)
  PROVE  /\ OscillatorOnly(w, v) /\ v.r \in {0, -1} /\ Told(w, v)
         /\ v.chip.lo = IF v.r < 0 \/ f < 0 THEN Torn
                        ELSE IF ~w.lock THEN Unlocked
                        ELSE [f |-> f, clk |-> clk]
<1> DEFINE u == I2c(w)
           lo == IF u.r < 0 \/ f < 0 THEN Torn ELSE IF ~w.lock THEN Unlocked
                 ELSE [f |-> f, clk |-> clk]
<1>1. Silent(w, u) /\ u.r \in {0, -1} /\ Told(w, u) /\ u \in Worlds
  BY I2cIs DEF Silent, SameCall
<1>2. v = [u EXCEPT !.chip.lo = lo]
  BY <1>1 DEF SetOscillator, Silent, SameCall
<1>3. lo \in [f : Nat, clk : Clocks \cup {OwnClock}] \cup {Torn, Unlocked}
  OBVIOUS
<1> HIDE DEF u, lo
<1>4. [u.chip EXCEPT !.lo = lo] \in Chips
  BY <1>1, <1>3 DEF Worlds, Chips
<1>5. v \in Worlds
  BY <1>1, <1>2, <1>4 DEF Worlds
<1>6. /\ v.dev = u.dev /\ v.tun = u.tun /\ v.tuner = u.tuner
      /\ v.fault = u.fault /\ v.lock = u.lock /\ v.r = u.r
      /\ v.failed = u.failed
  BY <1>1, <1>2 DEF Worlds
<1>7. u.chip \in Chips /\ v.chip = [u.chip EXCEPT !.lo = lo]
  BY <1>1, <1>2 DEF Worlds
<1>8. /\ v.chip.lo = lo /\ SameDemod(u, v)
      /\ v.chip.init = u.chip.init /\ v.chip.mode = u.chip.mode
  BY <1>7 DEF Chips, SameDemod
<1>9. v.chip.lo = IF v.r < 0 \/ f < 0 THEN Torn
                  ELSE IF ~w.lock THEN Unlocked ELSE [f |-> f, clk |-> clk]
  BY <1>6, <1>8 DEF lo
<1> QED
  BY <1>1, <1>5, <1>6, <1>8, <1>9
     DEF OscillatorOnly, SameCall, SameDriver, SameDemod, SameTuner, Silent,
         Told

\* The tuner oscillates for the frequency f, or has an excuse.
Fits(w, f) ==
  \/ w.chip.lo = Unlocked
  \/ w.tuner = "E4000" /\ w.chip.lo = Torn
  \/ f < 0 /\ w.chip.lo = Torn
  \/ w.chip.lo = [f |-> IF w.tuner = "R82xx" THEN f + w.tun.int ELSE f,
                  clk |-> ClockOf(w)]

\* However the tuning ends, the oscillator has the tuner's clock if it has any.
Clocked(w, v) ==
  v.chip.lo \in {w.chip.lo, Torn, Unlocked} \/ v.chip.lo.clk = ClockOf(w)

TunedTo(w, v, f) ==
  /\ OscillatorOnly(w, v) /\ Clocked(w, v)
  /\ v.r = 0 => Fits(v, f)
  /\ v.tuner \notin {"E4000", "FC0012"} => Told(w, v)

LEMMA R82xxSetFreqIs ==
  ASSUME NEW w \in Worlds, w.tuner = "R82xx", NEW f \in Nat,
         w.tun.xtal = TunerClock(w.dev), NEW v, v = R82xxSetFreq(w, f)
  PROVE  TunedTo(w, v, f)
<1> DEFINE m == I2c(w)
           s == SetOscillator(m, f + w.tun.int, m.tun.xtal)
<1>1. Silent(w, m) /\ m.r \in {0, -1} /\ Told(w, m) /\ m \in Worlds
  BY I2cIs DEF Silent, SameCall
<1>2. v = IF m.r < 0 THEN m ELSE s
  BY DEF R82xxSetFreq, SetMux, SetPll
<1> HIDE DEF m
<1>3. m.tun = w.tun /\ w.tun.int \in Nat /\ m.tun.xtal \in Clocks
  <2>1. m.tun = w.tun /\ m.tun \in Tuns
    BY <1>1 DEF Worlds, Silent, SameDriver
  <2> QED
    BY <2>1 DEF Tuns, InitIf
<1>4. /\ OscillatorOnly(m, s) /\ s.r \in {0, -1} /\ Told(m, s)
      /\ s.chip.lo = IF s.r < 0 \/ f + w.tun.int < 0 THEN Torn
                     ELSE IF ~m.lock THEN Unlocked
                     ELSE [f |-> f + w.tun.int, clk |-> m.tun.xtal]
  BY <1>1, <1>3, SetOscillatorIs
<1> HIDE DEF s
<1>5. CASE m.r < 0
  BY <1>1, <1>2, <1>5
     DEF TunedTo, OscillatorOnly, Clocked, Silent, SameTuner, SameDemod, Told
<1>6. CASE ~(m.r < 0)
  <2>1. v = s
    BY <1>2, <1>6
  <2>2. OscillatorOnly(w, v)
    BY <1>1, <1>4, <2>1
       DEF OscillatorOnly, Silent, SameCall, SameDriver, SameTuner, SameDemod
  <2>3. Told(w, v)
    BY <1>1, <1>4, <1>6, <2>1 DEF Told
  <2>4. v.r = 0 => Fits(v, f)
    <3>1. v.tun.int = w.tun.int /\ m.tun.xtal = TunerClock(v.dev)
      BY <1>1, <2>2 DEF OscillatorOnly, Silent, SameDriver
    <3>2. v.tuner = "R82xx"
      BY <2>2 DEF OscillatorOnly, SameCall
    <3> QED
      BY <1>3, <1>4, <2>1, <3>1, <3>2 DEF Fits, ClockOf
  <2>5. Clocked(w, v)
    <3>1. m.tun.xtal = ClockOf(w)
      BY <1>1 DEF ClockOf, Silent, SameDriver
    <3> QED
      BY <1>4, <2>1, <3>1 DEF Clocked
  <2> QED
    BY <2>2, <2>3, <2>4, <2>5 DEF TunedTo
<1> QED
  BY <1>5, <1>6

LEMMA E4kTuneFreqIs ==
  ASSUME NEW w \in Worlds, w.tuner = "E4000", NEW f \in Int,
         w.tun.xtal = TunerClock(w.dev), NEW v, v = E4kTuneFreq(w, f)
  PROVE  TunedTo(w, v, f)
<1> DEFINE s == SetOscillator(w, f, w.tun.xtal)
           u == I2c(s)
<1>1. /\ OscillatorOnly(w, s) /\ s.r \in {0, -1}
      /\ s.chip.lo = IF s.r < 0 \/ f < 0 THEN Torn
                     ELSE IF ~w.lock THEN Unlocked
                     ELSE [f |-> f, clk |-> w.tun.xtal]
  BY ClocksOf, SetOscillatorIs
<1>2. s \in Worlds
  BY <1>1 DEF OscillatorOnly, SameCall
<1>3. Silent(s, u) /\ u \in Worlds
  BY <1>2, I2cIs DEF Silent, SameCall
<1>4. v = [u EXCEPT !.r = IF w.lock \/ u.r < 0 THEN 0 ELSE -1]
  BY DEF E4kTuneFreq
<1> HIDE DEF s, u
<1>5. /\ v \in Worlds /\ v.dev = u.dev /\ v.tun = u.tun /\ v.chip = u.chip
      /\ v.tuner = u.tuner /\ v.fault = u.fault /\ v.lock = u.lock
  BY <1>3, <1>4 DEF Worlds
<1>6. OscillatorOnly(w, v) /\ v.chip.lo = s.chip.lo /\ v.tuner = "E4000"
  BY <1>1, <1>3, <1>5
     DEF OscillatorOnly, Silent, SameCall, SameDriver, SameTuner, SameDemod
<1>7. Fits(v, f)
  <2>1. v.dev = w.dev
    BY <1>6 DEF OscillatorOnly, SameDriver
  <2> QED
    BY <1>1, <1>6, <2>1 DEF Fits, ClockOf
<1>8. Clocked(w, v)
  BY <1>1, <1>6 DEF Clocked, ClockOf
<1> QED
  BY <1>6, <1>7, <1>8 DEF TunedTo

LEMMA FcSetParamsIs ==
  ASSUME NEW w \in Worlds, w.tuner \in {"FC0012", "FC0013"}, NEW f \in Int,
         NEW v, v = FcSetParams(w, f)
  PROVE  /\ OscillatorOnly(w, v) /\ Clocked(w, v) /\ Told(w, v)
         /\ v.r = 0 => Fits(v, f)
<1>1. CASE f < 0
  <2>1. v = [w EXCEPT !.r = -1]
    BY <1>1 DEF FcSetParams
  <2>2. /\ v \in Worlds /\ v.dev = w.dev /\ v.tun = w.tun /\ v.chip = w.chip
        /\ v.tuner = w.tuner /\ v.fault = w.fault /\ v.lock = w.lock
        /\ v.r = -1
    BY <2>1 DEF Worlds
  <2> QED
    BY <2>2
       DEF OscillatorOnly, Clocked, SameCall, SameDriver, SameDemod, Told
<1>2. CASE ~(f < 0)
  <2>1. v = SetOscillator(w, f, TunerClock(w.dev))
    BY <1>2 DEF FcSetParams
  <2>2. /\ OscillatorOnly(w, v) /\ v.r \in {0, -1} /\ Told(w, v)
        /\ v.chip.lo = IF v.r < 0 \/ f < 0 THEN Torn
                       ELSE IF ~w.lock THEN Unlocked
                       ELSE [f |-> f, clk |-> TunerClock(w.dev)]
    BY <2>1, ClocksOf, SetOscillatorIs
  <2>3. v.dev = w.dev /\ v.tuner = w.tuner
    BY <2>2 DEF OscillatorOnly, SameCall, SameDriver
  <2> QED
    BY <1>2, <2>2, <2>3 DEF Fits, Clocked, ClockOf
<1> QED
  BY <1>1, <1>2

LEMMA Fc0012SetFreqIs ==
  ASSUME NEW w \in Worlds, w.tuner = "FC0012", NEW f \in Int,
         NEW v, v = Fc0012SetFreq(w, f)
  PROVE  TunedTo(w, v, f)
<1> DEFINE g == SetGpioBit(w)
<1>1. Silent(w, g) /\ g \in Worlds /\ g.tuner = "FC0012"
  BY SetGpioBitIs DEF Silent, SameCall
<1>2. v = FcSetParams(g, f)
  BY DEF Fc0012SetFreq
<1> HIDE DEF g
<1>3. OscillatorOnly(g, v) /\ Clocked(g, v) /\ (v.r = 0 => Fits(v, f))
  BY <1>1, <1>2, FcSetParamsIs
<1> QED
  BY <1>1, <1>3
     DEF TunedTo, OscillatorOnly, Clocked, ClockOf, Silent, SameCall,
         SameDriver, SameTuner, SameDemod

LEMMA Fc0013SetParamsIs ==
  ASSUME NEW w \in Worlds, w.tuner = "FC0013", NEW f \in Int,
         NEW v, v = Fc0013SetParams(w, f)
  PROVE  TunedTo(w, v, f)
<1> DEFINE b == I2c(w)
<1>1. /\ Silent(w, b) /\ b \in Worlds /\ b.tuner = "FC0013"
      /\ b.r \in {0, -1} /\ Told(w, b)
  BY I2cIs DEF Silent, SameCall
<1>2. v = IF b.r < 0 THEN b ELSE FcSetParams(b, f)
  BY DEF Fc0013SetParams
<1> HIDE DEF b
<1>3. CASE b.r < 0
  BY <1>1, <1>2, <1>3
     DEF TunedTo, OscillatorOnly, Clocked, Silent, SameTuner, SameDemod
<1>4. CASE ~(b.r < 0)
  <2>1. /\ OscillatorOnly(b, v) /\ Clocked(b, v) /\ Told(b, v)
        /\ v.r = 0 => Fits(v, f)
    BY <1>1, <1>2, <1>4, FcSetParamsIs
  <2>2. Told(w, v)
    BY <1>1, <1>4, <2>1 DEF Told
  <2> QED
    BY <1>1, <2>1, <2>2
       DEF TunedTo, OscillatorOnly, Clocked, ClockOf, Silent, SameCall,
           SameDriver, SameTuner, SameDemod
<1> QED
  BY <1>3, <1>4

\* FUNCTION_ERROR.
LEMMA Fc2580ResultIs ==
  ASSUME NEW w \in Worlds, w.r \in {0, -1}, NEW v, v = Fc2580Result(w)
  PROVE  /\ v \in Worlds /\ v.dev = w.dev /\ v.tun = w.tun /\ v.chip = w.chip
         /\ v.tuner = w.tuner /\ v.fault = w.fault /\ v.lock = w.lock
         /\ v.failed = w.failed /\ v.r \in {0, 1} /\ (v.r = 0 <=> w.r = 0)
BY DEF Fc2580Result, Worlds

LEMMA Fc2580SetRfFreqHzIs ==
  ASSUME NEW w \in Worlds, w.tuner = "FC2580", NEW f \in Int,
         NEW v, v = Fc2580SetRfFreqHz(w, f)
  PROVE  TunedTo(w, v, f)
<1> DEFINE s == SetOscillator(w, f, OwnClock)
<1>1. /\ OscillatorOnly(w, s) /\ s.r \in {0, -1} /\ Told(w, s)
      /\ s.chip.lo = IF s.r < 0 \/ f < 0 THEN Torn
                     ELSE IF ~w.lock THEN Unlocked
                     ELSE [f |-> f, clk |-> OwnClock]
  BY SetOscillatorIs
<1>2. s \in Worlds /\ s.tuner = "FC2580"
  BY <1>1 DEF OscillatorOnly, SameCall
<1>3. v = Fc2580Result(s)
  BY DEF Fc2580SetRfFreqHz
<1> HIDE DEF s
<1>4. /\ v \in Worlds /\ v.dev = s.dev /\ v.tun = s.tun /\ v.chip = s.chip
      /\ v.tuner = s.tuner /\ v.fault = s.fault /\ v.lock = s.lock
      /\ v.failed = s.failed /\ v.r \in {0, 1} /\ (v.r = 0 <=> s.r = 0)
  BY <1>1, <1>2, <1>3, Fc2580ResultIs
<1>5. v.r = 0 => Fits(v, f)
  BY <1>1, <1>2, <1>4 DEF Fits, ClockOf
<1>6. Clocked(w, v)
  BY <1>1, <1>2, <1>4 DEF Clocked, ClockOf, OscillatorOnly, SameCall
<1> QED
  BY <1>1, <1>4, <1>5, <1>6
     DEF TunedTo, OscillatorOnly, SameCall, SameDriver, SameDemod, Told

\* Whichever tuner it is.
LEMMA TunerSetFreqIs ==
  ASSUME NEW w \in Worlds, w.tuner \in Supported \ {"none"}, NEW f \in Int,
         w.tuner = "R82xx" => f \in Nat,
         w.tun.xtal = TunerClock(w.dev), NEW v, v = TunerSetFreq(w, f)
  PROVE  TunedTo(w, v, f)
<1>1. CASE w.tuner = "R82xx"
  BY <1>1, R82xxSetFreqIs DEF TunerSetFreq
<1>2. CASE w.tuner = "E4000"
  BY <1>2, E4kTuneFreqIs DEF TunerSetFreq
<1>3. CASE w.tuner = "FC0012"
  BY <1>3, Fc0012SetFreqIs DEF TunerSetFreq
<1>4. CASE w.tuner = "FC0013"
  BY <1>4, Fc0013SetParamsIs DEF TunerSetFreq
<1>5. CASE w.tuner = "FC2580"
  BY <1>5, Fc2580SetRfFreqHzIs DEF TunerSetFreq
<1> QED
  BY <1>1, <1>2, <1>3, <1>4, <1>5 DEF Supported

-----------------------------------------------------------------------------
(* The invariant, of a world.                                               *)

\* The R82xx has no offset tuning.
NoOffset(w) == w.tuner = "R82xx" => w.dev.offs = 0

\* The driver of the tuner knows the clock in force.
ClockKnown(w) == w.tun.xtal = TunerClock(w.dev)

\* The demodulator has the correction in force, unless it could not be written.
Corrects(w) == w.chip.ppm \in {w.dev.corr, Torn}

\* Below the tuner, the intermediate frequency is the one that the tuner's
\* driver reckons with, unless offset tuning has moved it.
IfKnown(w) ==
  ~w.dev.direct =>
    \/ w.chip.if = Torn
    \/ w.tuner = "R82xx" /\ (w.chip.init = Torn \/ w.chip.if.f = w.tun.int)
    \/ w.tuner # "R82xx" /\ (w.dev.offs # 0 \/ w.chip.if.f = 0)

\* Only the FC2580 has a clock of its own.
ClockIsReal(w) ==
  \/ w.chip.lo \in {Torn, Unlocked}
  \/ w.chip.lo.clk \in IF w.tuner = "FC2580" THEN {OwnClock} ELSE Clocks

ModeKnown(w) ==
  \/ w.chip.mode \in {w.tun.mode, Torn}
  \/ w.tuner = "R82xx" /\ w.chip.mode = 0

\* What every function of the driver preserves.
Good(w) ==
  /\ NoOffset(w) /\ ClockKnown(w) /\ Corrects(w) /\ IfKnown(w)
  /\ ClockIsReal(w) /\ ModeKnown(w)

Samples(w) == w.chip.ratio \in {w.dev.rate, Torn}

\* The oscillator was set with the clock in force and, with the intermediate
\* frequency or the offset, for the frequency that is remembered.
Oscillates(w) ==
  /\ \/ w.chip.lo \in {Torn, Unlocked}
     \/ w.chip.lo.clk = ClockOf(w)
  /\ \/ w.chip.if = Torn \/ w.dev.freq <= w.dev.offs
     \/ w.chip.lo = Unlocked
     \/ w.tuner = "E4000" /\ w.chip.lo = Torn
     \/ /\ w.chip.lo \notin {Torn, Unlocked}
        /\ w.chip.lo.f = IF w.tuner = "R82xx" THEN w.dev.freq + w.tun.int
                         ELSE w.dev.freq - w.dev.offs

\* What tuning establishes, and every function preserves in the end.
Tuned(w) ==
  w.dev.freq # 0 =>
    IF w.dev.direct
    THEN \/ w.chip.if = Torn
         \/ w.chip.if = [f |-> w.dev.freq, clk |-> RtlClock(w.dev)]
    ELSE Oscillates(w)

\* What a whole function does.
Advances(w, v) ==
  /\ SameCall(w, v) /\ Good(v) /\ v.dev.rate = w.dev.rate
  /\ Tuned(w) => Tuned(v)
  /\ Samples(w) => Samples(v)

\* A function that is silent does no harm.
LEMMA SilentAdvances ==
  ASSUME NEW w, NEW v, Good(w), Silent(w, v)
  PROVE  Advances(w, v)
<1> USE DEF Silent, SameCall, SameDriver, SameTuner, SameDemod
<1>1. Good(v)
  BY DEF Good, NoOffset, ClockKnown, Corrects, IfKnown, ClockIsReal, ModeKnown
<1>2. Tuned(w) => Tuned(v)
  BY DEF Tuned, Oscillates, ClockOf
<1>3. Samples(w) => Samples(v)
  BY DEF Samples
<1> QED
  BY <1>1, <1>2, <1>3 DEF Advances

LEMMA AdvancesChain ==
  ASSUME NEW w, NEW u, NEW v, Advances(w, u), Advances(u, v)
  PROVE  Advances(w, v)
BY DEF Advances, SameCall

\* Around what the tuner answers, the repeater is opened and closed.
LEMMA OpenIs ==
  ASSUME NEW w \in Worlds, NEW v, v = Open(w)
  PROVE  Silent(w, v) /\ v \in Worlds /\ v.r = w.r /\ v.failed = w.failed
BY SetI2cRepeaterIs DEF Open, Silent, SameCall

LEMMA CloseIs ==
  ASSUME NEW w \in Worlds, NEW v, v = Close(w)
  PROVE  Silent(w, v) /\ v \in Worlds /\ v.r = w.r /\ v.failed = w.failed
BY SetI2cRepeaterIs DEF Close, Silent, SameCall

-----------------------------------------------------------------------------
(* Tuning. *)

\* Above the tuner or below it.
LEMMA TuneIs ==
  ASSUME NEW w \in Worlds, Good(w), NEW f \in Nat, NEW v, v = Tune(w, f)
  PROVE  /\ SameCall(w, v) /\ SameDriver(w, v)
         /\ v.chip.init = w.chip.init /\ v.chip.mode = w.chip.mode
         /\ v.chip.ppm = w.chip.ppm /\ v.chip.ratio = w.chip.ratio
         /\ w.tuner \notin {"E4000", "FC0012"} => Told(w, v)
         /\ w.dev.direct =>
              /\ v.chip.lo = w.chip.lo
              /\ v.r = 0 => v.chip.if = [f |-> f, clk |-> RtlClock(w.dev)]
         /\ ~w.dev.direct =>
              /\ v.chip.if = w.chip.if
              /\ ClockIsReal(v)
              /\ v.r = 0 => Fits(v, f - w.dev.offs)
<1>1. CASE w.dev.direct
  <2>1. v = SetIfFreq(w, f)
    BY <1>1 DEF Tune
  <2> QED
    BY <1>1, <2>1, SetIfFreqIs DEF SameTuner
<1>2. CASE ~w.dev.direct
  <2> DEFINE x == [w EXCEPT !.r = -1]
             o == Open(w)
             t == TunerSetFreq(o, f - w.dev.offs)
  <2>1. v = IF w.tuner = "none" THEN x ELSE Close(t)
    BY <1>2 DEF Tune, AskTuner, Worlds
  <2>2. CASE w.tuner = "none"
    <3>1. /\ v \in Worlds /\ v.dev = w.dev /\ v.tun = w.tun /\ v.chip = w.chip
          /\ v.tuner = w.tuner /\ v.fault = w.fault /\ v.lock = w.lock
          /\ v.r = -1
      BY <2>1, <2>2 DEF Worlds
    <3> QED
      BY <1>2, <3>1 DEF SameCall, SameDriver, Told, Good, ClockIsReal
  <2>3. CASE w.tuner # "none"
    <3>1. Silent(w, o) /\ o \in Worlds /\ o.failed = w.failed
      BY OpenIs
    <3>2. o.tuner \in Supported \ {"none"}
      BY <2>3, <3>1, DeviceControlAssumption DEF Silent, SameCall, Worlds
    <3>3. w.dev.offs \in Nat
      BY DEF Worlds, Devs
    <3>4. f - w.dev.offs \in Int /\ (o.tuner = "R82xx" => f - w.dev.offs \in Nat)
      BY <3>1, <3>3 DEF Good, NoOffset, Silent, SameCall
    <3>5. o.tun.xtal = TunerClock(o.dev)
      BY <3>1 DEF Good, ClockKnown, Silent, SameDriver
    <3> HIDE DEF o
    <3>6. TunedTo(o, t, f - w.dev.offs)
      BY <3>1, <3>2, <3>4, <3>5, TunerSetFreqIs
    <3>7. t \in Worlds
      BY <3>6 DEF TunedTo, OscillatorOnly, SameCall
    <3> HIDE DEF t
    <3>8. Silent(t, v) /\ v.r = t.r /\ v.failed = t.failed
      BY <2>1, <2>3, <3>7, CloseIs
    <3>9. /\ SameCall(w, v) /\ SameDriver(w, v) /\ SameDemod(w, v)
          /\ v.chip.init = w.chip.init /\ v.chip.mode = w.chip.mode
      BY <3>1, <3>6, <3>8
         DEF TunedTo, OscillatorOnly, Silent, SameCall, SameDriver, SameTuner,
             SameDemod
    <3>10. v.r = 0 => Fits(v, f - w.dev.offs)
      <4>1. /\ v.chip.lo = t.chip.lo /\ v.tuner = t.tuner /\ v.tun = t.tun
            /\ v.dev = t.dev
        BY <3>8 DEF Silent, SameCall, SameDriver, SameTuner
      <4> QED
        BY <3>6, <3>8, <4>1 DEF TunedTo, Fits, ClockOf
    <3>11. w.tuner \notin {"E4000", "FC0012"} => Told(w, v)
      BY <3>1, <3>6, <3>8 DEF TunedTo, Told, Silent, SameCall, OscillatorOnly
    <3>12. ClockIsReal(v)
      <4>1. v.chip.lo \in {w.chip.lo, Torn, Unlocked} \/ v.chip.lo.clk = ClockOf(w)
        BY <3>1, <3>6, <3>8
           DEF TunedTo, Clocked, ClockOf, Silent, SameCall, SameDriver, SameTuner
      <4>2. ClockOf(w) \in IF w.tuner = "FC2580" THEN {OwnClock} ELSE Clocks
        BY ClocksOf DEF ClockOf
      <4> QED
        BY <3>9, <4>1, <4>2 DEF Good, ClockIsReal, SameCall
    <3> QED
      BY <1>2, <3>9, <3>10, <3>11, <3>12 DEF SameDemod
  <2> QED
    BY <2>2, <2>3
<1> QED
  BY <1>1, <1>2

\* rtlsdr_set_center_freq, from any state but for a tuning that was lost.
LEMMA CenterFreqIs ==
  ASSUME NEW w \in Worlds, Good(w), NEW f \in Freqs \cup {0},
         NEW v, v = CenterFreq(w, f)
  PROVE  /\ SameCall(w, v) /\ Good(v) /\ Tuned(v)
         /\ v.dev = [w.dev EXCEPT !.freq = v.dev.freq] /\ v.tun = w.tun
         /\ v.chip.ratio = w.chip.ratio
         /\ w.tuner \notin {"E4000", "FC0012"} => Told(w, v)
<1> DEFINE t == Tune(w, f)
<1>0. f \in Nat
  BY DeviceControlAssumption
<1>1. /\ SameCall(w, t) /\ SameDriver(w, t)
      /\ t.chip.init = w.chip.init /\ t.chip.mode = w.chip.mode
      /\ t.chip.ppm = w.chip.ppm /\ t.chip.ratio = w.chip.ratio
      /\ w.tuner \notin {"E4000", "FC0012"} => Told(w, t)
      /\ w.dev.direct =>
           /\ t.chip.lo = w.chip.lo
           /\ t.r = 0 => t.chip.if = [f |-> f, clk |-> RtlClock(w.dev)]
      /\ ~w.dev.direct =>
           /\ t.chip.if = w.chip.if
           /\ ClockIsReal(t)
           /\ t.r = 0 => Fits(t, f - w.dev.offs)
  BY <1>0, TuneIs
<1>2. t \in Worlds
  BY <1>1 DEF SameCall
<1>3. v = [t EXCEPT !.dev = [t.dev EXCEPT !.freq = IF t.r = 0 THEN f ELSE 0]]
  BY <1>2 DEF CenterFreq, Remember, Worlds
<1> HIDE DEF t
<1>4. t.dev \in Devs
  BY <1>2 DEF Worlds
<1>5. [t.dev EXCEPT !.freq = IF t.r = 0 THEN f ELSE 0] \in Devs
  BY <1>4 DEF Devs
<1>6. /\ v \in Worlds /\ v.tun = t.tun /\ v.chip = t.chip /\ v.r = t.r
      /\ v.tuner = t.tuner /\ v.fault = t.fault /\ v.lock = t.lock
      /\ v.failed = t.failed
      /\ v.dev = [t.dev EXCEPT !.freq = IF t.r = 0 THEN f ELSE 0]
  BY <1>2, <1>3, <1>5 DEF Worlds
<1>7. /\ v.dev.freq = IF t.r = 0 THEN f ELSE 0
      /\ v.dev.offs = w.dev.offs /\ v.dev.corr = w.dev.corr
      /\ v.dev.rtl_xtal = w.dev.rtl_xtal /\ v.dev.tun_xtal = w.dev.tun_xtal
      /\ v.dev.direct = w.dev.direct
      /\ v.dev = [w.dev EXCEPT !.freq = v.dev.freq]
  BY <1>1, <1>4, <1>6 DEF Devs, SameDriver
<1>8. v.tun = w.tun /\ v.tuner = w.tuner /\ SameCall(w, v)
  BY <1>1, <1>6 DEF SameCall, SameDriver
<1>9. TunerClock(v.dev) = TunerClock(w.dev) /\ RtlClock(v.dev) = RtlClock(w.dev)
  BY <1>7 DEF TunerClock, RtlClock
<1>10. Good(v)
  <2>1. NoOffset(v) /\ ClockKnown(v) /\ Corrects(v) /\ IfKnown(v) /\ ModeKnown(v)
    BY <1>1, <1>6, <1>7, <1>8, <1>9
       DEF Good, NoOffset, ClockKnown, Corrects, IfKnown, ModeKnown
  <2>2. ClockIsReal(v)
    <3>1. CASE w.dev.direct
      BY <1>1, <1>6, <1>8, <3>1 DEF Good, ClockIsReal
    <3>2. CASE ~w.dev.direct
      BY <1>1, <1>6, <1>8, <3>2 DEF ClockIsReal
    <3> QED
      BY <3>1, <3>2
  <2> QED
    BY <2>1, <2>2 DEF Good
<1>11. Tuned(v)
  <2> SUFFICES ASSUME v.dev.freq # 0
               PROVE  IF v.dev.direct
                      THEN \/ v.chip.if = Torn
                           \/ v.chip.if = [f |-> v.dev.freq,
                                           clk |-> RtlClock(v.dev)]
                      ELSE Oscillates(v)
    BY DEF Tuned
  <2>1. t.r = 0 /\ v.dev.freq = f
    BY <1>7
  <2>2. CASE w.dev.direct
    BY <1>1, <1>6, <1>7, <1>9, <2>1, <2>2
  <2>3. CASE ~w.dev.direct
    <3>1. Fits(t, f - w.dev.offs)
      BY <1>1, <2>1, <2>3
    <3>2. ClockOf(t) = ClockOf(w) /\ ClockOf(v) = ClockOf(w)
      BY <1>1, <1>8, <1>9 DEF ClockOf, SameCall, SameDriver
    <3>3. w.dev.offs \in Nat /\ t.tun.int \in Nat /\ ClockOf(w) \in Clocks \cup {OwnClock}
      <4>1. w.dev \in Devs /\ t.tun \in Tuns
        BY <1>2 DEF Worlds
      <4> QED
        BY <4>1, ClocksOf DEF Devs, Tuns, InitIf, ClockOf
    <3>4. CASE t.chip.lo = [f |-> IF t.tuner = "R82xx" THEN f - w.dev.offs + t.tun.int
                                  ELSE f - w.dev.offs,
                            clk |-> ClockOf(t)]
      <4>1. t.chip.lo.clk = ClockOf(w)
        BY <3>2, <3>4
      <4>2. t.chip.lo.f = IF w.tuner = "R82xx" THEN f + t.tun.int
                          ELSE f - w.dev.offs
        <5>1. t.tuner = w.tuner
          BY <1>6, <1>8
        <5>2. CASE w.tuner = "R82xx"
          <6>1. w.dev.offs = 0 /\ t.chip.lo.f = f - w.dev.offs + t.tun.int
            BY <3>4, <5>1, <5>2 DEF Good, NoOffset
          <6> QED
            BY <1>0, <3>3, <5>2, <6>1
        <5>3. CASE w.tuner # "R82xx"
          BY <3>4, <5>1, <5>3
        <5> QED
          BY <5>2, <5>3
      <4>3. t.chip.lo \notin {Torn, Unlocked} \/ f <= w.dev.offs
        <5>1. SUFFICES ASSUME ~(f <= w.dev.offs)
                       PROVE  t.chip.lo \notin {Torn, Unlocked}
          OBVIOUS
        <5>2. f - w.dev.offs \in Nat /\ f - w.dev.offs + t.tun.int \in Nat
          BY <1>0, <3>3, <5>1
        <5>3. t.chip.lo \in [f : Nat, clk : (Crystals \cup {0}) \X (Ppms \cup {0})]
          <6>1. ClockOf(t) \in (Crystals \cup {0}) \X (Ppms \cup {0})
            BY <3>2, <3>3 DEF Clocks, OwnClock
          <6> QED
            BY <3>4, <5>2, <6>1
        <5> QED
          BY <5>3, DeviceControlAssumption
      <4> QED
        BY <1>6, <1>7, <1>8, <2>1, <2>3, <3>2, <4>1, <4>2, <4>3 DEF Oscillates
    <3>5. CASE f - w.dev.offs < 0 /\ t.chip.lo = Torn
      BY <1>0, <1>6, <1>7, <2>1, <2>3, <3>3, <3>5 DEF Oscillates
    <3>6. CASE t.chip.lo = Unlocked \/ (t.tuner = "E4000" /\ t.chip.lo = Torn)
      <4>1. v.chip.lo = t.chip.lo /\ v.tuner = t.tuner /\ ~v.dev.direct
        BY <1>6, <1>7, <2>3
      <4>2. Oscillates(v)
        BY <3>6, <4>1 DEF Oscillates
      <4> QED
        BY <4>1, <4>2
    <3> QED
      BY <3>1, <3>4, <3>5, <3>6 DEF Fits
  <2> QED
    BY <2>2, <2>3
<1> QED
  BY <1>1, <1>6, <1>7, <1>8, <1>10, <1>11 DEF Told

\* It advances, from wherever it starts.
LEMMA CenterFreqAdvances ==
  ASSUME NEW w \in Worlds, Good(w), NEW f \in Freqs \cup {0},
         NEW v, v = CenterFreq(w, f)
  PROVE  Advances(w, v)
<1>1. /\ SameCall(w, v) /\ Good(v) /\ Tuned(v)
      /\ v.dev = [w.dev EXCEPT !.freq = v.dev.freq]
      /\ v.chip.ratio = w.chip.ratio
  BY CenterFreqIs
<1>2. v.dev.rate = w.dev.rate
  BY <1>1 DEF Worlds, Devs
<1> QED
  BY <1>1, <1>2 DEF Advances, Samples

-----------------------------------------------------------------------------
(* The bandwidth. *)

LEMMA R82xxSetBandwidthIs ==
  ASSUME NEW w \in Worlds, Good(w), NEW width, NEW v,
         v = R82xxSetBandwidth(w, width)
  PROVE  /\ SameCall(w, v) /\ v.dev = w.dev
         /\ SameTuner(w, v) /\ SameDemod(w, v)
         /\ v.tun = [w.tun EXCEPT !.int = v.tun.int]
         /\ v.r < 0 => v.tun = w.tun
         /\ v.r \in {0, -1} /\ Told(w, v)
<1> DEFINE b == I2c(w)
<1>1. Silent(w, b) /\ b \in Worlds /\ b.r \in {0, -1} /\ Told(w, b)
  BY I2cIs DEF Silent, SameCall
<1>2. v = IF b.r < 0 THEN b ELSE [b EXCEPT !.tun.int = Intermediate(width)]
  BY DEF R82xxSetBandwidth
<1> HIDE DEF b
<1>3. b.tun \in Tuns /\ b.tun = w.tun
  BY <1>1 DEF Worlds, Silent, SameDriver
<1>4. CASE b.r < 0
  BY <1>1, <1>2, <1>3, <1>4 DEF Silent, SameDriver, Tuns
<1>5. CASE ~(b.r < 0)
  <2>1. v = [b EXCEPT !.tun = [b.tun EXCEPT !.int = Intermediate(width)]]
    BY <1>1, <1>2, <1>5 DEF Worlds
  <2>2. [b.tun EXCEPT !.int = Intermediate(width)] \in Tuns
    BY <1>3 DEF Tuns, Intermediate
  <2>3. /\ v \in Worlds /\ v.dev = b.dev /\ v.chip = b.chip /\ v.r = b.r
        /\ v.tun = [b.tun EXCEPT !.int = Intermediate(width)]
        /\ v.tuner = b.tuner /\ v.fault = b.fault /\ v.lock = b.lock
        /\ v.failed = b.failed
    BY <1>1, <2>1, <2>2 DEF Worlds
  <2>4. v.tun = [w.tun EXCEPT !.int = v.tun.int]
    BY <1>3, <2>3 DEF Tuns
  <2> QED
    BY <1>1, <1>5, <2>3, <2>4
       DEF Silent, SameCall, SameDriver, SameTuner, SameDemod, Told
<1> QED
  BY <1>4, <1>5

\* Another bandwidth of the R82xx is another intermediate frequency, and the
\* tuner is tuned again.
LEMMA R820tSetBwIs ==
  ASSUME NEW w \in Worlds, Good(w), w.tuner = "R82xx", NEW width, NEW v,
         v = R820tSetBw(w, width)
  PROVE  Advances(w, v) /\ Told(w, v)
<1> DEFINE b == R82xxSetBandwidth(w, width)
           s == SetIfFreq(b, b.tun.int)
           c == CenterFreq(s, s.dev.freq)
<1>1. v = IF b.r < 0 THEN b ELSE IF s.r # 0 THEN s ELSE c
  BY DEF R820tSetBw
<1>2. /\ SameCall(w, b) /\ b.dev = w.dev
      /\ SameTuner(w, b) /\ SameDemod(w, b)
      /\ b.tun = [w.tun EXCEPT !.int = b.tun.int]
      /\ b.r < 0 => b.tun = w.tun
      /\ b.r \in {0, -1} /\ Told(w, b)
  BY R82xxSetBandwidthIs
<1> HIDE DEF b
<1>3. b \in Worlds /\ b.tuner = "R82xx" /\ b.tun \in Tuns /\ w.tun \in Tuns
  BY <1>2 DEF SameCall, Worlds
<1>4. b.tun.xtal = w.tun.xtal /\ b.tun.mode = w.tun.mode /\ b.tun.int \in Nat
  BY <1>2, <1>3 DEF Tuns, InitIf
<1>5. CASE b.r < 0
  <2>1. Silent(w, b)
    BY <1>2, <1>5 DEF Silent, SameDriver
  <2> QED
    BY <1>1, <1>2, <1>5, <2>1, SilentAdvances
<1>6. CASE ~(b.r < 0)
  <2>1. /\ SameCall(b, s) /\ SameDriver(b, s) /\ SameTuner(b, s)
        /\ s.chip.ppm = b.chip.ppm /\ s.chip.ratio = b.chip.ratio
        /\ s.chip.if = IF s.r < 0 THEN Torn
                       ELSE [f |-> b.tun.int, clk |-> RtlClock(b.dev)]
        /\ s.r \in {0, -1} /\ Told(b, s)
    BY <1>3, <1>4, SetIfFreqIs
  <2> HIDE DEF s
  <2>2. s \in Worlds /\ s.tuner = "R82xx" /\ SameCall(w, s)
    BY <1>2, <1>3, <2>1 DEF SameCall
  <2>3. /\ s.dev = w.dev /\ s.tun = b.tun /\ s.chip.lo = w.chip.lo
        /\ s.chip.init = w.chip.init /\ s.chip.mode = w.chip.mode
        /\ s.chip.ppm = w.chip.ppm /\ s.chip.ratio = w.chip.ratio
    BY <1>2, <2>1 DEF SameDriver, SameTuner, SameDemod
  <2>4. IfKnown(s)
    <3>1. CASE s.r < 0
      BY <2>1, <3>1 DEF IfKnown
    <3>2. CASE ~(s.r < 0)
      <4>1. s.chip.if.f = s.tun.int
        BY <2>1, <2>3, <3>2
      <4> QED
        BY <2>2, <4>1 DEF IfKnown
    <3> QED
      BY <3>1, <3>2
  <2>5. Good(s)
    <3>1. NoOffset(s) /\ ClockKnown(s) /\ Corrects(s) /\ ModeKnown(s)
      BY <1>3, <1>4, <2>2, <2>3
         DEF Good, NoOffset, ClockKnown, Corrects, ModeKnown
    <3>2. ClockIsReal(s)
      BY <1>3, <2>2, <2>3 DEF Good, ClockIsReal
    <3> QED
      BY <2>4, <3>1, <3>2 DEF Good
  <2>6. Samples(w) => Samples(s)
    BY <2>3 DEF Samples
  <2>7. Told(w, s)
    BY <1>2, <1>6, <2>1 DEF Told
  <2>8. CASE s.r # 0
    <3>1. Tuned(w) => Tuned(s)
      BY <2>1, <2>2, <2>3, <2>8 DEF Tuned, Oscillates, ClockOf
    <3> QED
      BY <1>1, <1>6, <2>2, <2>3, <2>5, <2>6, <2>7, <2>8, <3>1 DEF Advances
  <2>9. CASE s.r = 0
    <3>1. s.dev.freq \in Freqs \cup {0}
      BY <2>2 DEF Worlds, Devs
    <3>2. /\ SameCall(s, c) /\ Good(c) /\ Tuned(c)
          /\ c.dev = [s.dev EXCEPT !.freq = c.dev.freq]
          /\ c.chip.ratio = s.chip.ratio
          /\ s.tuner \notin {"E4000", "FC0012"} => Told(s, c)
      BY <2>2, <2>5, <3>1, CenterFreqIs
    <3>3. Told(w, c)
      BY <2>2, <2>7, <2>9, <3>2 DEF Told
    <3>4. Advances(s, c)
      BY <2>2, <2>5, <3>1, CenterFreqAdvances
    <3>5. SameCall(w, c) /\ (Samples(w) => Samples(c))
      BY <2>2, <2>6, <3>2, <3>4 DEF SameCall, Advances
    <3>6. c.dev.rate = w.dev.rate
      BY <2>3, <3>4 DEF Advances
    <3> QED
      BY <1>1, <1>6, <2>9, <3>2, <3>3, <3>5, <3>6 DEF Advances
  <2> QED
    BY <2>8, <2>9
<1> QED
  BY <1>5, <1>6

LEMMA E4000SetBwIs ==
  ASSUME NEW w \in Worlds, NEW width, NEW v, v = E4000SetBw(w, width)
  PROVE  Silent(w, v)
<1> DEFINE u == I2c(w)
           c == [u.chip EXCEPT !.filter = IF u.r < 0 THEN Torn ELSE Filter(width)]
           k == IF u.r < 0 THEN -1
                ELSE IF w.chip.filter = Filter(width) THEN 0 ELSE 2
<1>1. Silent(w, u) /\ u \in Worlds /\ u.chip \in Chips
  BY I2cIs DEF Silent, SameCall, Worlds
<1>2. v = [u EXCEPT !.r = k, !.chip = c]
  BY <1>1 DEF E4000SetBw, Worlds
<1>3. /\ c \in Chips /\ k \in Int
      /\ c.lo = u.chip.lo /\ c.init = u.chip.init /\ c.mode = u.chip.mode
      /\ c.if = u.chip.if /\ c.ppm = u.chip.ppm /\ c.ratio = u.chip.ratio
  BY <1>1 DEF Chips, Filter
<1> HIDE DEF u, c, k
<1>4. /\ v \in Worlds /\ v.dev = u.dev /\ v.tun = u.tun /\ v.chip = c
      /\ v.tuner = u.tuner /\ v.fault = u.fault /\ v.lock = u.lock
  BY <1>1, <1>2, <1>3 DEF Worlds
<1>5. Silent(u, v)
  BY <1>3, <1>4 DEF Silent, SameCall, SameDriver, SameTuner, SameDemod
<1> QED
  BY <1>1, <1>5, SilentChain

\* The result alone is another one.
LEMMA ResultIs ==
  ASSUME NEW w \in Worlds, NEW k \in Int, NEW v, v = [w EXCEPT !.r = k]
  PROVE  Silent(w, v) /\ v \in Worlds /\ v.r = k /\ v.failed = w.failed
BY DEF Worlds, Silent, SameCall, SameDriver, SameTuner, SameDemod

LEMMA Fc2580SetBandwidthModeIs ==
  ASSUME NEW w \in Worlds, NEW v, v = Fc2580SetBandwidthMode(w)
  PROVE  Silent(w, v) /\ Told(w, v)
<1> DEFINE u == I2c(w)
<1>1. Silent(w, u) /\ u \in Worlds /\ u.r \in {0, -1} /\ Told(w, u)
  BY I2cIs DEF Silent, SameCall
<1>2. v = Fc2580Result(u)
  BY DEF Fc2580SetBandwidthMode
<1> HIDE DEF u
<1>3. /\ v \in Worlds /\ v.dev = u.dev /\ v.tun = u.tun /\ v.chip = u.chip
      /\ v.tuner = u.tuner /\ v.fault = u.fault /\ v.lock = u.lock
      /\ v.failed = u.failed /\ v.r \in {0, 1} /\ (v.r = 0 <=> u.r = 0)
  BY <1>1, <1>2, Fc2580ResultIs
<1> QED
  BY <1>1, <1>3 DEF Silent, SameCall, SameDriver, SameTuner, SameDemod, Told

LEMMA TunerSetBwIs ==
  ASSUME NEW w \in Worlds, Good(w), w.tuner \in Supported \ {"none"},
         NEW width, NEW v, v = TunerSetBw(w, width)
  PROVE  /\ Advances(w, v)
         /\ w.tuner # "R82xx" => Silent(w, v)
         /\ w.tuner \notin {"E4000", "FC0012"} => Told(w, v)
<1>1. CASE w.tuner = "R82xx"
  BY <1>1, R820tSetBwIs DEF TunerSetBw
<1>2. CASE w.tuner = "E4000"
  BY <1>2, E4000SetBwIs, SilentAdvances DEF TunerSetBw
<1>3. CASE w.tuner \in {"FC0012", "FC0013"}
  <2>1. v = [w EXCEPT !.r = 0]
    BY <1>3 DEF TunerSetBw
  <2>2. Silent(w, v) /\ v.failed = w.failed
    BY <2>1, ResultIs
  <2> QED
    BY <1>3, <2>2, SilentAdvances DEF Told
<1>4. CASE w.tuner = "FC2580"
  BY <1>4, Fc2580SetBandwidthModeIs, SilentAdvances DEF TunerSetBw
<1> QED
  BY <1>1, <1>2, <1>3, <1>4 DEF Supported

\* A tuner is asked through the repeater, if there is one.
LEMMA AskTunerIs ==
  ASSUME NEW w \in Worlds, Good(w), w.tuner # "none", NEW o, o = Open(w),
         NEW t, NEW v, v = AskTuner(w, t)
  PROVE  /\ o \in Worlds /\ Good(o) /\ Silent(w, o) /\ Advances(w, o)
         /\ o.tuner \in Supported \ {"none"} /\ o.r = w.r
         /\ o.failed = w.failed
         /\ t \in Worlds => Silent(t, v) /\ v.r = t.r /\ v.failed = t.failed
<1>1. Silent(w, o) /\ o \in Worlds /\ o.r = w.r /\ o.failed = w.failed
  BY OpenIs
<1>2. Advances(w, o)
  BY <1>1, SilentAdvances
<1>3. o.tuner \in Supported \ {"none"}
  BY <1>1, DeviceControlAssumption DEF Silent, SameCall, Worlds
<1>4. t \in Worlds => Silent(t, v) /\ v.r = t.r /\ v.failed = t.failed
  <2>1. v = Close(t)
    BY DEF AskTuner
  <2> QED
    BY <2>1, CloseIs
<1> QED
  BY <1>1, <1>2, <1>3, <1>4 DEF Advances

LEMMA AskTunerBwIs ==
  ASSUME NEW w \in Worlds, Good(w), NEW width, NEW v, v = AskTunerBw(w, width)
  PROVE  /\ Advances(w, v)
         /\ w.tuner # "R82xx" => Silent(w, v)
         /\ w.tuner \notin {"E4000", "FC0012"} => Told(w, v)
         /\ w.tuner = "none" => v = w
         /\ w.tuner = "FC0013" => v.failed = w.failed
<1>1. CASE w.tuner = "none"
  <2>1. v = w
    BY <1>1 DEF AskTunerBw, AskTuner
  <2>2. Silent(w, v)
    BY <2>1 DEF Silent, SameCall, SameDriver, SameTuner, SameDemod
  <2> QED
    BY <2>1, <2>2, SilentAdvances DEF Told
<1>2. CASE w.tuner # "none"
  <2> DEFINE o == Open(w)
             t == TunerSetBw(o, width)
  <2>1. v = AskTuner(w, t)
    BY DEF AskTunerBw
  <2>2. /\ o \in Worlds /\ Good(o) /\ Silent(w, o) /\ Advances(w, o)
        /\ o.tuner \in Supported \ {"none"} /\ o.failed = w.failed
        /\ t \in Worlds => Silent(t, v) /\ v.r = t.r /\ v.failed = t.failed
    BY <1>2, <2>1, AskTunerIs
  <2> HIDE DEF o
  <2>3. /\ Advances(o, t)
        /\ o.tuner # "R82xx" => Silent(o, t)
        /\ o.tuner \notin {"E4000", "FC0012"} => Told(o, t)
    BY <2>2, TunerSetBwIs
  <2> HIDE DEF t
  <2>4. t \in Worlds /\ Good(t) /\ o.tuner = w.tuner
    BY <2>2, <2>3 DEF Advances, SameCall
  <2>5. Silent(t, v) /\ v.r = t.r /\ v.failed = t.failed
    BY <2>2, <2>4
  <2>6. Advances(w, v)
    BY <2>2, <2>3, <2>4, <2>5, SilentAdvances, AdvancesChain
  <2>7. w.tuner # "R82xx" => Silent(w, v)
    BY <2>2, <2>3, <2>4, <2>5, SilentChain
  <2>8. w.tuner \notin {"E4000", "FC0012"} => Told(w, v)
    BY <2>2, <2>3, <2>4, <2>5 DEF Told
  <2>9. w.tuner = "FC0013" => v.failed = w.failed
    <3>1. SUFFICES ASSUME w.tuner = "FC0013" PROVE t.failed = o.failed
      BY <2>2, <2>5
    <3>2. t = [o EXCEPT !.r = 0]
      BY <2>4, <3>1 DEF t, TunerSetBw
    <3> QED
      BY <2>2, <3>2, ResultIs
  <2> QED
    BY <1>2, <2>6, <2>7, <2>8, <2>9
<1> QED
  BY <1>1, <1>2

\* rtlsdr_set_tuner_bandwidth
LEMMA TunerBandwidthIs ==
  ASSUME NEW w \in Worlds, Good(w), NEW bw \in Widths \cup {0},
         NEW v, v = TunerBandwidth(w, bw)
  PROVE  /\ Advances(w, v)
         /\ w.tuner \notin {"E4000", "FC0012"} => Told(w, v)
<1>1. CASE w.tuner = "none"
  <2>1. v = w
    BY <1>1 DEF TunerBandwidth
  <2> QED
    BY <2>1 DEF Advances, SameCall, Told
<1>2. CASE w.tuner # "none"
  <2> DEFINE width == IF bw > 0 THEN bw ELSE w.dev.rate
             a == AskTunerBw(w, width)
  <2>1. v = [a EXCEPT !.dev.bw = IF a.r = 0 THEN bw ELSE @]
    BY <1>2 DEF TunerBandwidth, Widened
  <2>2. /\ Advances(w, a)
        /\ w.tuner \notin {"E4000", "FC0012"} => Told(w, a)
    BY AskTunerBwIs
  <2> HIDE DEF a
  <2>3. a \in Worlds /\ a.dev \in Devs
    BY <2>2 DEF Advances, SameCall, Worlds
  <2> DEFINE d == [a.dev EXCEPT !.bw = IF a.r = 0 THEN bw ELSE a.dev.bw]
  <2>4. v = [a EXCEPT !.dev = d]
    BY <2>1, <2>3 DEF Worlds, Devs
  <2>5. /\ d \in Devs /\ d.freq = a.dev.freq /\ d.offs = a.dev.offs
        /\ d.corr = a.dev.corr /\ d.rtl_xtal = a.dev.rtl_xtal
        /\ d.tun_xtal = a.dev.tun_xtal /\ d.direct = a.dev.direct
        /\ d.rate = a.dev.rate
    BY <2>3 DEF Devs
  <2> HIDE DEF d
  <2>6. /\ v \in Worlds /\ v.dev = d /\ v.tun = a.tun /\ v.chip = a.chip
        /\ v.tuner = a.tuner /\ v.fault = a.fault /\ v.lock = a.lock
        /\ v.failed = a.failed /\ v.r = a.r
    BY <2>3, <2>4, <2>5 DEF Worlds
  <2>7. Good(v)
    BY <2>2, <2>5, <2>6
       DEF Advances, Good, NoOffset, ClockKnown, Corrects, IfKnown,
           ClockIsReal, ModeKnown, TunerClock
  <2>8. (Tuned(a) => Tuned(v)) /\ (Samples(a) => Samples(v))
    BY <2>5, <2>6
       DEF Tuned, Oscillates, ClockOf, TunerClock, RtlClock, Samples
  <2> QED
    BY <2>2, <2>5, <2>6, <2>7, <2>8 DEF Advances, SameCall, Told
<1> QED
  BY <1>1, <1>2

-----------------------------------------------------------------------------
(* Offset tuning and the sample rate. *)

\* Another offset, and the intermediate frequency for it.
LEMMA OffsetIs ==
  ASSUME NEW w \in Worlds, Good(w), w.tuner # "R82xx", ~w.dev.direct,
         NEW offs \in Nat, NEW a,
         a = SetIfFreq([w EXCEPT !.dev.offs = offs], offs)
  PROVE  /\ SameCall(w, a) /\ Good(a) /\ Told(w, a) /\ a.r \in {0, -1}
         /\ a.dev = [w.dev EXCEPT !.offs = offs]
         /\ a.chip.lo = w.chip.lo /\ a.chip.ratio = w.chip.ratio
<1> DEFINE d == [w.dev EXCEPT !.offs = offs]
           x == [w EXCEPT !.dev = d]
<1>1. a = SetIfFreq(x, offs)
  BY DEF Worlds
<1>2. w.dev \in Devs
  BY DEF Worlds
<1>3. /\ d \in Devs /\ d.offs = offs /\ d.corr = w.dev.corr
      /\ d.tun_xtal = w.dev.tun_xtal /\ d.direct = w.dev.direct
  BY <1>2 DEF Devs
<1> HIDE DEF d
<1>4. /\ x \in Worlds /\ x.dev = d /\ x.tun = w.tun /\ x.chip = w.chip
      /\ x.tuner = w.tuner /\ x.fault = w.fault /\ x.lock = w.lock
      /\ x.failed = w.failed
  BY <1>3 DEF Worlds
<1> HIDE DEF x
<1>5. /\ SameCall(x, a) /\ SameDriver(x, a) /\ SameTuner(x, a)
      /\ a.chip.ppm = x.chip.ppm /\ a.chip.ratio = x.chip.ratio
      /\ a.chip.if = IF a.r < 0 THEN Torn
                     ELSE [f |-> offs, clk |-> RtlClock(x.dev)]
      /\ a.r \in {0, -1} /\ Told(x, a)
  BY <1>1, <1>4, SetIfFreqIs
<1>6. /\ a.tuner = w.tuner /\ a.dev = d /\ a.tun = w.tun
      /\ a.chip.lo = w.chip.lo /\ a.chip.init = w.chip.init
      /\ a.chip.mode = w.chip.mode /\ a.chip.ppm = w.chip.ppm
  BY <1>4, <1>5 DEF SameCall, SameDriver, SameTuner
<1>7. IfKnown(a)
  <2>1. CASE a.r < 0
    BY <1>5, <2>1 DEF IfKnown
  <2>2. CASE ~(a.r < 0)
    <3>1. a.chip.if.f = offs /\ a.dev.offs = offs
      BY <1>3, <1>5, <1>6, <2>2
    <3> QED
      BY <1>6, <3>1 DEF IfKnown
  <2> QED
    BY <2>1, <2>2
<1>8. Good(a)
  <2>1. NoOffset(a) /\ ClockKnown(a) /\ Corrects(a) /\ ModeKnown(a)
    BY <1>3, <1>6
       DEF Good, NoOffset, ClockKnown, Corrects, ModeKnown, TunerClock
  <2>2. ClockIsReal(a)
    BY <1>6 DEF Good, ClockIsReal
  <2> QED
    BY <1>7, <2>1, <2>2 DEF Good
<1> QED
  BY <1>4, <1>5, <1>6, <1>8 DEF SameCall, Told, d

LEMMA RetunedAboveIs ==
  ASSUME NEW w \in Worlds, Good(w), ~w.dev.direct, NEW v,
         v = RetunedAbove(w, w.dev.offs)
  PROVE  /\ SameCall(w, v) /\ Good(v)
         /\ w.chip.lo \in {Torn, Unlocked} \/ w.chip.lo.clk = ClockOf(w) => Tuned(v)
         /\ v.chip.ratio = w.chip.ratio /\ v.dev.rate = w.dev.rate
         /\ w.tuner \notin {"E4000", "FC0012"} => Told(w, v)
<1>1. CASE w.dev.freq > w.dev.offs
  <2>1. v = CenterFreq(w, w.dev.freq)
    BY <1>1 DEF RetunedAbove
  <2>2. w.dev.freq \in Freqs \cup {0} /\ w.dev \in Devs
    BY DEF Worlds, Devs
  <2>3. /\ SameCall(w, v) /\ Good(v) /\ Tuned(v)
        /\ v.dev = [w.dev EXCEPT !.freq = v.dev.freq]
        /\ v.chip.ratio = w.chip.ratio
        /\ w.tuner \notin {"E4000", "FC0012"} => Told(w, v)
    BY <2>1, <2>2, CenterFreqIs
  <2>4. v.dev.rate = w.dev.rate
    BY <2>2, <2>3 DEF Devs
  <2> QED
    BY <2>3, <2>4
<1>2. CASE ~(w.dev.freq > w.dev.offs)
  <2>1. v = [w EXCEPT !.r = 0]
    BY <1>2 DEF RetunedAbove
  <2>2. Silent(w, v) /\ v.failed = w.failed
    BY <2>1, ResultIs
  <2>3. Good(v)
    BY <2>2, SilentAdvances DEF Advances
  <2>4. w.dev.freq <= w.dev.offs
    <3>1. w.dev.freq \in Nat /\ w.dev.offs \in Nat
      BY DeviceControlAssumption DEF Worlds, Devs
    <3> QED
      BY <1>2, <3>1
  <2>5. w.chip.lo \in {Torn, Unlocked} \/ w.chip.lo.clk = ClockOf(w) => Tuned(v)
    BY <2>2, <2>4
       DEF Silent, SameCall, SameDriver, SameTuner, Tuned, Oscillates, ClockOf
  <2> QED
    BY <2>2, <2>3, <2>5 DEF Silent, SameDriver, SameDemod, Told
<1> QED
  BY <1>1, <1>2

\* rtlsdr_set_offset_tuning
LEMMA OffsetTuningIs ==
  ASSUME NEW w \in Worlds, Good(w), NEW on \in BOOLEAN,
         NEW v, v = OffsetTuning(w, on)
  PROVE  /\ Advances(w, v)
         /\ w.tuner \notin {"E4000", "FC0012", "FC2580"} => Told(w, v)
<1>1. CASE w.tuner = "R82xx" \/ w.dev.direct
  <2>1. v = [w EXCEPT !.r = -2] \/ v = [w EXCEPT !.r = -3]
    BY <1>1 DEF OffsetTuning
  <2>2. Silent(w, v) /\ v.failed = w.failed
    BY <2>1, ResultIs
  <2> QED
    BY <2>2, SilentAdvances DEF Told
<1>2. CASE w.tuner # "R82xx" /\ ~w.dev.direct
  <2> DEFINE offs == IF on THEN Offset(w.dev.rate) ELSE 0
             a == SetIfFreq([w EXCEPT !.dev.offs = offs], offs)
             width == IF on THEN 2 * offs ELSE IF w.dev.bw > 0 THEN w.dev.bw
                      ELSE w.dev.rate
             b == AskTunerBw(a, width)
             c == RetunedAbove(b, offs)
  <2>1. v = Or(a.r, c)
    BY <1>2 DEF OffsetTuning
  <2>2. offs \in Nat
    <3>1. w.dev.rate \in Nat
      BY DeviceControlAssumption DEF Worlds, Devs
    <3> QED
      BY <3>1 DEF Offset
  <2> HIDE DEF offs, width
  <2>3. /\ SameCall(w, a) /\ Good(a) /\ Told(w, a) /\ a.r \in {0, -1}
        /\ a.dev = [w.dev EXCEPT !.offs = offs]
        /\ a.chip.lo = w.chip.lo /\ a.chip.ratio = w.chip.ratio
    BY <1>2, <2>2, OffsetIs
  <2> HIDE DEF a
  <2>4. a \in Worlds /\ a.tuner = w.tuner
    BY <2>3 DEF SameCall
  <2>5. /\ Silent(a, b)
        /\ w.tuner \notin {"E4000", "FC0012", "FC2580"} => b.failed = a.failed
    <3>1. Silent(a, b)
      BY <1>2, <2>3, <2>4, AskTunerBwIs
    <3>2. CASE w.tuner = "none"
      BY <2>3, <2>4, <3>1, <3>2, AskTunerBwIs
    <3>3. CASE w.tuner = "FC0013"
      BY <2>3, <2>4, <3>1, <3>3, AskTunerBwIs
    <3>4. w.tuner \in Supported
      BY DeviceControlAssumption DEF Worlds
    <3> QED
      BY <1>2, <3>1, <3>2, <3>3, <3>4 DEF Supported
  <2> HIDE DEF b
  <2>6. b \in Worlds /\ Good(b) /\ b.dev = a.dev /\ b.tuner = w.tuner
    BY <2>3, <2>4, <2>5, SilentAdvances DEF Silent, SameCall, SameDriver, Advances
  <2>7. /\ b.dev.offs = offs /\ b.dev.direct = w.dev.direct
        /\ b.dev.freq = w.dev.freq /\ b.dev.rate = w.dev.rate
        /\ b.dev.corr = w.dev.corr /\ b.dev.tun_xtal = w.dev.tun_xtal
    BY <2>3, <2>6 DEF Worlds, Devs
  <2>8. /\ SameCall(b, c) /\ Good(c)
        /\ b.chip.lo \in {Torn, Unlocked} \/ b.chip.lo.clk = ClockOf(b) => Tuned(c)
        /\ c.chip.ratio = b.chip.ratio /\ c.dev.rate = b.dev.rate
        /\ b.tuner \notin {"E4000", "FC0012"} => Told(b, c)
    BY <1>2, <2>6, <2>7, RetunedAboveIs
  <2> HIDE DEF c
  <2>9. /\ c \in Worlds /\ SameCall(w, c)
    BY <2>3, <2>5, <2>8 DEF SameCall, Silent
  <2>10. Silent(c, v) /\ v.failed = c.failed /\ (v.r = 0 <=> a.r = 0 /\ c.r = 0)
    BY <2>1, <2>3, <2>9, OrIs
  <2>11. Good(v) /\ (Tuned(c) => Tuned(v)) /\ v.dev.rate = c.dev.rate
    BY <2>8, <2>10, SilentAdvances DEF Advances
  <2>12. Tuned(w) => Tuned(v)
    <3>1. ClockOf(b) = ClockOf(w) /\ b.chip.lo = w.chip.lo
      BY <2>3, <2>5, <2>6, <2>7 DEF ClockOf, TunerClock, Silent, SameTuner
    <3>2. CASE w.dev.freq = 0
      <4>1. c.dev.freq = 0
        <5>1. 0 <= offs /\ ~(b.dev.freq > offs)
          BY <2>2, <2>7, <3>2
        <5>2. c = [b EXCEPT !.r = 0]
          BY <5>1 DEF c, RetunedAbove
        <5> QED
          BY <2>6, <2>7, <3>2, <5>2 DEF Worlds
      <4>2. v.dev.freq = 0
        BY <2>10, <4>1 DEF Silent, SameDriver
      <4> QED
        BY <4>2 DEF Tuned
    <3>3. CASE w.dev.freq # 0
      BY <1>2, <2>8, <2>11, <3>1, <3>3 DEF Tuned, Oscillates
    <3> QED
      BY <3>2, <3>3
  <2>13. Samples(w) => Samples(v)
    BY <2>3, <2>5, <2>7, <2>8, <2>10 DEF Samples, Silent, SameDemod, SameDriver
  <2>14. w.tuner \notin {"E4000", "FC0012", "FC2580"} => Told(w, v)
    BY <2>3, <2>5, <2>6, <2>8, <2>10 DEF Told
  <2> QED
    BY <2>7, <2>8, <2>9, <2>10, <2>11, <2>12, <2>13, <2>14
       DEF Advances, SameCall, Silent
<1> QED
  BY <1>1, <1>2

\* Another struct rtlsdr_dev, and nothing else.
LEMMA DriverIs ==
  ASSUME NEW w \in Worlds, NEW d \in Devs, NEW v, v = [w EXCEPT !.dev = d]
  PROVE  /\ SameCall(w, v) /\ v.dev = d /\ v.tun = w.tun /\ v.chip = w.chip
         /\ v.r = w.r /\ v.failed = w.failed
BY DEF Worlds, SameCall

\* The correction of the demodulator.
LEMMA SampleFreqCorrectionIs ==
  ASSUME NEW w \in Worlds, NEW v, v = SampleFreqCorrection(w)
  PROVE  /\ SameCall(w, v) /\ SameDriver(w, v) /\ SameTuner(w, v)
         /\ v.chip.if = w.chip.if /\ v.chip.ratio = w.chip.ratio
         /\ v.chip.ppm \in {w.dev.corr, Torn}
         /\ v.r \in {0, -1} /\ Told(w, v)
<1>1. v = Demod(w, "ppm", w.dev.corr)
  BY DEF SampleFreqCorrection
<1>2. w.chip \in Chips /\ w.dev.corr \in Ppms \cup {0}
  BY DEF Worlds, Devs
<1>3. /\ [w.chip EXCEPT !["ppm"] = w.dev.corr] \in Chips
      /\ [w.chip EXCEPT !["ppm"] = Torn] \in Chips
  BY <1>2 DEF Chips
<1>4. /\ SameCall(w, v) /\ SameDriver(w, v) /\ v.r \in {0, -1} /\ Told(w, v)
      /\ v.chip = [w.chip EXCEPT !["ppm"] = IF v.r < 0 THEN Torn ELSE w.dev.corr]
  BY <1>1, <1>3, DemodIs
<1> QED
  BY <1>2, <1>4 DEF Chips, SameTuner

\* The resampler of the demodulator.
LEMMA RatioIs ==
  ASSUME NEW w \in Worlds, Good(w), NEW rate \in Rates \cup {0}, NEW v,
         v = Demod(w, "ratio", rate)
  PROVE  /\ SameCall(w, v) /\ SameDriver(w, v) /\ Good(v)
         /\ Tuned(w) => Tuned(v)
         /\ v.chip.ratio \in {rate, Torn}
<1>2. w.chip \in Chips
  BY DEF Worlds
<1>3. /\ [w.chip EXCEPT !["ratio"] = rate] \in Chips
      /\ [w.chip EXCEPT !["ratio"] = Torn] \in Chips
  BY <1>2 DEF Chips
<1>4. /\ SameCall(w, v) /\ SameDriver(w, v) /\ v.r \in {0, -1} /\ Told(w, v)
      /\ v.chip = [w.chip EXCEPT !["ratio"] = IF v.r < 0 THEN Torn ELSE rate]
  BY <1>3, DemodIs
<1>5. /\ SameTuner(w, v) /\ v.chip.if = w.chip.if /\ v.chip.ppm = w.chip.ppm
      /\ v.chip.ratio \in {rate, Torn}
  BY <1>2, <1>4 DEF Chips, SameTuner
<1> USE DEF SameCall, SameDriver, SameTuner
<1>6. Good(v)
  BY <1>4, <1>5
     DEF Good, NoOffset, ClockKnown, Corrects, IfKnown, ClockIsReal, ModeKnown
<1>7. Tuned(w) => Tuned(v)
  BY <1>4, <1>5 DEF Tuned, Oscillates, ClockOf
<1> QED
  BY <1>4, <1>5, <1>6, <1>7

\* A switch of the demodulator, added to what was written before.
LEMMA SwitchIs ==
  ASSUME NEW w \in Worlds, NEW reg \in {"zeroif", "inversion"},
         NEW b \in BOOLEAN, NEW v, v = OrDemod(w, reg, b)
  PROVE  /\ Silent(w, v)
         /\ w.r # 0 => v.r # 0
         /\ Told(w, v)
<1> DEFINE u == Demod(w, reg, b)
<1>1. w.chip \in Chips /\ w.r \in Int
  BY DEF Worlds
<1>2. /\ [w.chip EXCEPT ![reg] = b] \in Chips
      /\ [w.chip EXCEPT ![reg] = Torn] \in Chips
  BY <1>1 DEF Chips
<1>3. /\ SameCall(w, u) /\ SameDriver(w, u) /\ Told(w, u)
      /\ u.chip = [w.chip EXCEPT ![reg] = IF u.r < 0 THEN Torn ELSE b]
  BY <1>2, DemodIs
<1>4. v = Or(w.r, u)
  BY DEF OrDemod
<1> HIDE DEF u
<1>5. SameTuner(w, u) /\ SameDemod(w, u)
  BY <1>1, <1>3 DEF Chips, SameTuner, SameDemod
<1>6. Silent(w, u) /\ u \in Worlds
  BY <1>3, <1>5 DEF Silent, SameCall
<1>7. Silent(u, v) /\ v.failed = u.failed /\ (v.r = 0 <=> w.r = 0 /\ u.r = 0)
  BY <1>1, <1>4, <1>6, OrIs
<1> QED
  BY <1>3, <1>6, <1>7, SilentChain DEF Told

\* The soft reset.
LEMMA SoftResetIs ==
  ASSUME NEW w \in Worlds, NEW v, v = SoftReset(w)
  PROVE  Silent(w, v)
<1> DEFINE a == Repeater(w, "reset")
           c == Repeater(a, "idle")
           bad == (Lost(w) \/ Lost(a))
           k == IF bad THEN -1 ELSE 0
           b == (c.failed \/ bad)
<1>1. Silent(w, a) /\ a \in Worlds
  BY RepeaterIs DEF Silent, SameCall
<1>2. v = [c EXCEPT !.r = k, !.failed = b]
  BY DEF SoftReset
<1> HIDE DEF a
<1>3. Silent(a, c) /\ c \in Worlds
  BY <1>1, RepeaterIs DEF Silent, SameCall
<1>4. k \in Int /\ b \in BOOLEAN
  OBVIOUS
<1> HIDE DEF c, k, b
<1>5. \A j \in Int, f \in BOOLEAN : [c EXCEPT !.r = j, !.failed = f] \in Worlds
  BY <1>3 DEF Worlds
<1>6. v \in Worlds
  BY <1>2, <1>4, <1>5, Zenon
<1>7. /\ v.dev = c.dev /\ v.tun = c.tun /\ v.chip = c.chip
      /\ v.tuner = c.tuner /\ v.fault = c.fault /\ v.lock = c.lock
  BY <1>2, <1>3 DEF Worlds
<1>8. Silent(c, v)
  BY <1>6, <1>7 DEF Silent, SameCall, SameDriver, SameTuner, SameDemod
<1> QED
  BY <1>1, <1>3, <1>8, SilentChain

LEMMA CorrectedIs ==
  ASSUME NEW w \in Worlds, Good(w), NEW v, v = Corrected(w)
  PROVE  Advances(w, v)
<1> DEFINE u == SampleFreqCorrection(w)
<1>1. /\ SameCall(w, u) /\ SameDriver(w, u) /\ SameTuner(w, u)
      /\ u.chip.if = w.chip.if /\ u.chip.ratio = w.chip.ratio
      /\ u.chip.ppm \in {w.dev.corr, Torn}
  BY SampleFreqCorrectionIs
<1>2. v = Or(w.r, u)
  BY DEF Corrected
<1> HIDE DEF u
<1>3. w.r \in Int /\ u \in Worlds
  BY <1>1 DEF Worlds, SameCall
<1>4. Silent(u, v)
  BY <1>2, <1>3, OrIs
<1>5. Advances(w, u)
  <2> USE <1>1 DEF SameCall, SameDriver, SameTuner
  <2>1. Good(u)
    BY DEF Good, NoOffset, ClockKnown, Corrects, IfKnown, ClockIsReal, ModeKnown
  <2>2. (Tuned(w) => Tuned(u)) /\ (Samples(w) => Samples(u))
    BY DEF Tuned, Oscillates, ClockOf, Samples
  <2> QED
    BY <2>1, <2>2 DEF Advances
<1> QED
  BY <1>4, <1>5, SilentAdvances, AdvancesChain DEF Advances

LEMMA ResetIs ==
  ASSUME NEW w \in Worlds, Good(w), NEW v, v = Reset(w)
  PROVE  Advances(w, v)
<1> DEFINE u == SoftReset(w)
<1>1. Silent(w, u)
  BY SoftResetIs
<1>2. v = Or(w.r, u)
  BY DEF Reset
<1> HIDE DEF u
<1>3. w.r \in Int /\ u \in Worlds
  BY <1>1 DEF Worlds, Silent, SameCall
<1>4. Silent(u, v)
  BY <1>2, <1>3, OrIs
<1> QED
  BY <1>1, <1>4, SilentChain, SilentAdvances

LEMMA OffsetAgainIs ==
  ASSUME NEW w \in Worlds, Good(w), NEW v, v = OffsetAgain(w)
  PROVE  Advances(w, v)
<1>1. CASE w.dev.offs = 0
  BY <1>1 DEF OffsetAgain, Advances, SameCall
<1>2. CASE w.dev.offs # 0
  <2> DEFINE o == OffsetTuning(w, TRUE)
  <2>1. v = [o EXCEPT !.r = w.r] /\ w.r \in Int
    BY <1>2 DEF OffsetAgain, Worlds
  <2>2. Advances(w, o)
    BY OffsetTuningIs
  <2> HIDE DEF o
  <2>3. Silent(o, v)
    BY <2>1, <2>2, ResultIs DEF Advances, SameCall
  <2> QED
    BY <2>2, <2>3, SilentAdvances, AdvancesChain DEF Advances
<1> QED
  BY <1>1, <1>2

\* rtlsdr_set_sample_rate, wherever the resampler was.
LEMMA SampleRateIs ==
  ASSUME NEW w \in Worlds, Good(w), NEW rate \in Rates \cup {0}, NEW v,
         v = SampleRate(w, rate)
  PROVE  /\ SameCall(w, v) /\ Good(v) /\ v.dev.rate = rate
         /\ Tuned(w) => Tuned(v)
         /\ Samples(v)
<1> DEFINE d == [w.dev EXCEPT !.rate = rate]
           x == [w EXCEPT !.dev = d]
           width == IF w.dev.bw > 0 THEN w.dev.bw ELSE rate
           b == AskTunerBw(x, width)
           q == Demod(b, "ratio", rate)
           c == Corrected(q)
           e == Reset(c)
<1>1. v = OffsetAgain(e)
  BY DEF SampleRate, Worlds
<1>2. w.dev \in Devs
  BY DEF Worlds
<1>3. /\ d \in Devs /\ d.rate = rate /\ d.freq = w.dev.freq
      /\ d.offs = w.dev.offs /\ d.corr = w.dev.corr
      /\ d.rtl_xtal = w.dev.rtl_xtal /\ d.tun_xtal = w.dev.tun_xtal
      /\ d.direct = w.dev.direct
  BY <1>2 DEF Devs
<1> HIDE DEF d
<1>4. /\ SameCall(w, x) /\ x.dev = d /\ x.tun = w.tun /\ x.chip = w.chip
      /\ x \in Worlds
  BY <1>3, DriverIs DEF SameCall
<1> HIDE DEF x, width
<1>5. Good(x) /\ (Tuned(w) => Tuned(x)) /\ x.dev.rate = rate
  <2> USE <1>3, <1>4 DEF SameCall, TunerClock, RtlClock
  <2>1. Good(x)
    BY DEF Good, NoOffset, ClockKnown, Corrects, IfKnown, ClockIsReal, ModeKnown
  <2>2. Tuned(w) => Tuned(x)
    BY DEF Tuned, Oscillates, ClockOf
  <2> QED
    BY <2>1, <2>2
<1>6. Advances(x, b)
  BY <1>4, <1>5, AskTunerBwIs
<1> HIDE DEF b
<1>7. b \in Worlds /\ Good(b)
  BY <1>6 DEF Advances, SameCall
<1>8. /\ SameCall(b, q) /\ SameDriver(b, q) /\ Good(q)
      /\ Tuned(b) => Tuned(q)
      /\ q.chip.ratio \in {rate, Torn}
  BY <1>7, RatioIs
<1> HIDE DEF q
<1>9. q \in Worlds /\ q.dev.rate = rate
  BY <1>5, <1>6, <1>8 DEF Advances, SameCall, SameDriver
<1>10. Samples(q)
  BY <1>8, <1>9 DEF Samples
<1>11. Advances(q, c)
  BY <1>8, <1>9, CorrectedIs
<1> HIDE DEF c
<1>12. c \in Worlds /\ Good(c)
  BY <1>11 DEF Advances, SameCall
<1>13. Advances(c, e)
  BY <1>12, ResetIs
<1> HIDE DEF e
<1>14. e \in Worlds /\ Good(e)
  BY <1>13 DEF Advances, SameCall
<1>15. Advances(e, v)
  BY <1>1, <1>14, OffsetAgainIs
<1>16. Advances(q, v)
  BY <1>11, <1>13, <1>15, AdvancesChain
<1> QED
  BY <1>4, <1>5, <1>6, <1>8, <1>9, <1>10, <1>16 DEF Advances, SameCall

-----------------------------------------------------------------------------
(* Correction and crystals. *)

LEMMA RetunedIs ==
  ASSUME NEW w \in Worlds, Good(w), NEW v, v = Retuned(w)
  PROVE  /\ Advances(w, v) /\ Tuned(v)
         /\ w.tuner \notin {"E4000", "FC0012"} => Told(w, v)
<1>1. CASE w.dev.freq = 0
  BY <1>1 DEF Retuned, Advances, SameCall, Tuned, Told
<1>2. CASE w.dev.freq # 0
  <2>1. v = CenterFreq(w, w.dev.freq) /\ w.dev.freq \in Freqs \cup {0}
    BY <1>2 DEF Retuned, Worlds, Devs
  <2> QED
    BY <2>1, CenterFreqIs, CenterFreqAdvances
<1> QED
  BY <1>1, <1>2

\* The tuner's driver hears of the clock.
LEMMA TunerXtalKnown ==
  ASSUME NEW w \in Worlds, NEW v,
         v = [w EXCEPT !.tun = [w.tun EXCEPT !.xtal = TunerClock(w.dev)]]
  PROVE  /\ SameCall(w, v) /\ v.dev = w.dev /\ v.chip = w.chip
         /\ v.tun.int = w.tun.int /\ v.tun.mode = w.tun.mode
         /\ v.tun.xtal = TunerClock(v.dev)
         /\ v.r = w.r /\ v.failed = w.failed
<1> DEFINE t == [w.tun EXCEPT !.xtal = TunerClock(w.dev)]
<1>1. w.tun \in Tuns /\ TunerClock(w.dev) \in Clocks
  BY ClocksOf DEF Worlds
<1>2. /\ t \in Tuns /\ t.int = w.tun.int /\ t.mode = w.tun.mode
      /\ t.xtal = TunerClock(w.dev)
  BY <1>1 DEF Tuns
<1> HIDE DEF t
<1>3. /\ v \in Worlds /\ v.tuner = w.tuner /\ v.fault = w.fault
      /\ v.lock = w.lock /\ v.dev = w.dev /\ v.tun = t /\ v.chip = w.chip
      /\ v.r = w.r /\ v.failed = w.failed
  <2>1. v = [w EXCEPT !.tun = t]
    BY DEF t
  <2> QED
    BY <1>2, <2>1 DEF Worlds
<1> QED
  BY <1>2, <1>3 DEF SameCall

\* rtlsdr_set_freq_correction
LEMMA FreqCorrectionIs ==
  ASSUME NEW w \in Worlds, Good(w), NEW ppm \in Ppms, NEW v,
         v = FreqCorrection(w, ppm)
  PROVE  /\ Advances(w, v)
         /\ w.tuner \notin {"E4000", "FC0012"} => Told(w, v)
<1>1. CASE w.dev.corr = ppm
  <2>1. v = [w EXCEPT !.r = -2]
    BY <1>1 DEF FreqCorrection
  <2> QED
    BY <2>1, ResultIs, SilentAdvances DEF Told
<1>2. CASE w.dev.corr # ppm
  <2> DEFINE d == [w.dev EXCEPT !.corr = ppm]
             x == [w EXCEPT !.dev = d]
             a == SampleFreqCorrection(x)
             y == [a EXCEPT !.tun = [a.tun EXCEPT !.xtal = TunerClock(a.dev)]]
             b == [y EXCEPT !.r = 0]
             c == Retuned(b)
  <2>2. w.dev \in Devs
    BY DEF Worlds
  <2>3. /\ d \in Devs /\ d.corr = ppm /\ d.rate = w.dev.rate
        /\ d.offs = w.dev.offs /\ d.direct = w.dev.direct
    BY <2>2 DEF Devs
  <2>4. /\ SameCall(w, x) /\ x.dev = d /\ x.tun = w.tun /\ x.chip = w.chip
        /\ x.failed = w.failed /\ x \in Worlds
    BY <2>3, DriverIs DEF SameCall
  <2>5. /\ SameCall(x, a) /\ SameDriver(x, a) /\ SameTuner(x, a)
        /\ a.chip.if = x.chip.if /\ a.chip.ratio = x.chip.ratio
        /\ a.chip.ppm \in {x.dev.corr, Torn}
        /\ a.r \in {0, -1} /\ Told(x, a)
    BY <2>4, SampleFreqCorrectionIs
  <2>6. v = Or(a.r, c)
    <3>1. [w EXCEPT !.dev.corr = ppm] = x
      BY DEF Worlds
    <3>2. a \in Worlds
      BY <2>5 DEF SameCall
    <3>3. v = Or(a.r, Retuned([a EXCEPT !.tun.xtal = TunerClock(a.dev), !.r = 0]))
      <4> HIDE DEF x
      <4> QED
        BY <1>2, <3>1 DEF FreqCorrection
    <3>4. [a EXCEPT !.tun.xtal = TunerClock(a.dev), !.r = 0] = b
      <4> HIDE DEF a
      <4> QED
        BY <3>2 DEF Worlds
    <3> QED
      BY <3>3, <3>4
  <2> HIDE DEF d, x, a
  <2>7. a \in Worlds
    BY <2>5 DEF SameCall
  <2>8. /\ SameCall(a, y) /\ y.dev = a.dev /\ y.chip = a.chip
        /\ y.tun.int = a.tun.int /\ y.tun.mode = a.tun.mode
        /\ y.tun.xtal = TunerClock(y.dev) /\ y.failed = a.failed
    BY <2>7, TunerXtalKnown
  <2> HIDE DEF y
  <2>9. y \in Worlds
    BY <2>8 DEF SameCall
  <2>10. Silent(y, b) /\ b \in Worlds /\ b.r = 0 /\ b.failed = y.failed
    BY <2>9, ResultIs
  <2> HIDE DEF b
  <2>11. /\ b.tuner = w.tuner /\ SameCall(w, b)
         /\ b.dev = d /\ b.chip.lo = w.chip.lo /\ b.chip.if = w.chip.if
         /\ b.chip.init = w.chip.init /\ b.chip.mode = w.chip.mode
         /\ b.chip.ratio = w.chip.ratio /\ b.chip.ppm \in {ppm, Torn}
         /\ b.tun.int = w.tun.int /\ b.tun.mode = w.tun.mode
         /\ b.tun.xtal = TunerClock(b.dev)
    BY <2>3, <2>4, <2>5, <2>8, <2>10
       DEF Silent, SameCall, SameDriver, SameTuner, SameDemod
  <2>12. Good(b)
    BY <2>3, <2>11
       DEF Good, NoOffset, ClockKnown, Corrects, IfKnown, ClockIsReal, ModeKnown
  <2>13. /\ Advances(b, c) /\ Tuned(c)
         /\ b.tuner \notin {"E4000", "FC0012"} => Told(b, c)
    BY <2>10, <2>12, RetunedIs
  <2> HIDE DEF c
  <2>14. c \in Worlds /\ Good(c)
    BY <2>13 DEF Advances, SameCall
  <2>15. Silent(c, v) /\ v.failed = c.failed /\ (v.r = 0 <=> a.r = 0 /\ c.r = 0)
    BY <2>5, <2>6, <2>14, OrIs
  <2>16. Advances(c, v)
    BY <2>14, <2>15, SilentAdvances
  <2>17. Samples(w) => Samples(b)
    BY <2>3, <2>11 DEF Samples
  <2>18. w.tuner \notin {"E4000", "FC0012"} => Told(w, v)
    BY <2>4, <2>5, <2>8, <2>10, <2>11, <2>13, <2>15 DEF Told
  <2>19. SameCall(w, v) /\ v.dev.rate = w.dev.rate
    BY <2>3, <2>11, <2>13, <2>16 DEF Advances, SameCall
  <2> QED
    BY <2>13, <2>16, <2>17, <2>18, <2>19 DEF Advances
<1> QED
  BY <1>1, <1>2

\* The tuner's crystal.
LEMMA TunerXtalIs ==
  ASSUME NEW w \in Worlds, Good(w), NEW freq \in Crystals \cup {0}, NEW v,
         v = TunerXtal(w, freq)
  PROVE  Advances(w, v) /\ (w.dev.tun_xtal # freq => Tuned(v))
<1>1. CASE w.dev.tun_xtal = freq
  BY <1>1 DEF TunerXtal, Advances, SameCall
<1>2. CASE w.dev.tun_xtal # freq
  <2> DEFINE d == [w.dev EXCEPT !.tun_xtal = IF freq = 0 THEN w.dev.rtl_xtal
                                             ELSE freq]
             b == [w EXCEPT !.dev = d]
             y == [b EXCEPT !.tun = [b.tun EXCEPT !.xtal = TunerClock(b.dev)]]
  <2>1. w.dev \in Devs
    BY DEF Worlds
  <2>2. /\ d \in Devs /\ d.corr = w.dev.corr /\ d.rate = w.dev.rate
        /\ d.offs = w.dev.offs /\ d.direct = w.dev.direct
    BY <2>1 DEF Devs
  <2>3. /\ SameCall(w, b) /\ b.dev = d /\ b.tun = w.tun /\ b.chip = w.chip
        /\ b \in Worlds
    <3> HIDE DEF d
    <3> QED
      BY <2>2, DriverIs DEF SameCall
  <2>4. v = Retuned(y)
    <3>1. [w EXCEPT !.dev.tun_xtal = IF freq = 0 THEN w.dev.rtl_xtal ELSE freq] = b
      BY DEF Worlds
    <3>2. v = Retuned([b EXCEPT !.tun.xtal = TunerClock(b.dev)])
      <4> HIDE DEF b
      <4> QED
        BY <1>2, <3>1 DEF TunerXtal
    <3>3. [b EXCEPT !.tun.xtal = TunerClock(b.dev)] = y
      <4> HIDE DEF b
      <4> QED
        BY <2>3 DEF Worlds
    <3> QED
      BY <3>2, <3>3
  <2> HIDE DEF d, b
  <2>5. /\ SameCall(b, y) /\ y.dev = b.dev /\ y.chip = b.chip
        /\ y.tun.int = b.tun.int /\ y.tun.mode = b.tun.mode
        /\ y.tun.xtal = TunerClock(y.dev)
    BY <2>3, TunerXtalKnown
  <2> HIDE DEF y
  <2>6. /\ SameCall(w, y) /\ y \in Worlds /\ y.dev = d /\ y.chip = w.chip
        /\ y.tun.int = w.tun.int /\ y.tun.mode = w.tun.mode
    BY <2>3, <2>5 DEF SameCall
  <2>7. Good(y)
    BY <2>2, <2>5, <2>6
       DEF Good, NoOffset, ClockKnown, Corrects, IfKnown, ClockIsReal,
           ModeKnown, SameCall
  <2>8. Advances(y, v) /\ Tuned(v)
    BY <2>4, <2>6, <2>7, RetunedIs
  <2>9. Samples(w) => Samples(y)
    BY <2>2, <2>6 DEF Samples
  <2> QED
    BY <2>2, <2>6, <2>8, <2>9 DEF Advances, SameCall
<1> QED
  BY <1>1, <1>2

\* rtlsdr_set_xtal_freq, with one of the crystals.
LEMMA XtalFreqIs ==
  ASSUME NEW w \in Worlds, Good(w), NEW rtl \in Crystals \cup {0},
         NEW tuner_freq \in Crystals \cup {0}, rtl = 0 \/ tuner_freq = 0,
         NEW v, v = XtalFreq(w, rtl, tuner_freq)
  PROVE  Advances(w, v)
<1>1. CASE rtl \in {0, w.dev.rtl_xtal}
  <2>1. v = TunerXtal(w, tuner_freq)
    BY <1>1 DEF XtalFreq
  <2> QED
    BY <2>1, TunerXtalIs
<1>2. CASE rtl \notin {0, w.dev.rtl_xtal}
  <2> DEFINE d == [w.dev EXCEPT !.rtl_xtal = rtl]
             x == [w EXCEPT !.dev = d]
             y == IF w.dev.rate # 0 THEN SampleRate(x, w.dev.rate) ELSE x
  <2>1. v = TunerXtal(y, tuner_freq) /\ tuner_freq = 0
    BY <1>2 DEF XtalFreq, Worlds
  <2>2. w.dev \in Devs
    BY DEF Worlds
  <2>3. /\ d \in Devs /\ d.corr = w.dev.corr /\ d.rate = w.dev.rate
        /\ d.offs = w.dev.offs /\ d.direct = w.dev.direct
        /\ d.tun_xtal = w.dev.tun_xtal /\ w.dev.rate \in Rates \cup {0}
    BY <1>2, <2>2 DEF Devs
  <2> HIDE DEF d
  <2>4. /\ SameCall(w, x) /\ x.dev = d /\ x.tun = w.tun /\ x.chip = w.chip
        /\ x \in Worlds
    BY <2>3, DriverIs DEF SameCall
  <2> HIDE DEF x
  <2>5. Good(x) /\ (Samples(w) => Samples(x))
    BY <2>3, <2>4
       DEF Good, NoOffset, ClockKnown, Corrects, IfKnown, ClockIsReal,
           ModeKnown, SameCall, TunerClock, Samples
  <2>6. /\ SameCall(x, y) /\ Good(y) /\ y.dev.rate = w.dev.rate
        /\ Samples(w) => Samples(y)
    <3>1. CASE w.dev.rate # 0
      BY <2>3, <2>4, <2>5, <3>1, SampleRateIs
    <3>2. CASE w.dev.rate = 0
      BY <2>3, <2>4, <2>5, <3>2 DEF SameCall
    <3> QED
      BY <3>1, <3>2
  <2> HIDE DEF y
  <2>7. y \in Worlds /\ y.dev.tun_xtal # 0
    BY <2>6, DeviceControlAssumption DEF SameCall, Worlds, Devs
  <2>8. Advances(y, v) /\ Tuned(v)
    BY <2>1, <2>6, <2>7, TunerXtalIs
  <2> QED
    BY <2>4, <2>6, <2>8 DEF Advances, SameCall
<1> QED
  BY <1>1, <1>2

-----------------------------------------------------------------------------
(* Direct sampling. *)

\* Other registers, and nothing else.
LEMMA RegistersAre ==
  ASSUME NEW w \in Worlds, NEW c \in Chips, NEW v, v = [w EXCEPT !.chip = c]
  PROVE  /\ SameCall(w, v) /\ SameDriver(w, v) /\ v.chip = c
         /\ v.r = w.r /\ v.failed = w.failed
BY DEF Worlds, SameCall, SameDriver

\* A tuner on standby oscillates no more, or as before.
LEMMA StandbyIs ==
  ASSUME NEW w \in Worlds, w.tuner \in Supported \ {"none"}, NEW v, v = Standby(w)
  PROVE  /\ SameCall(w, v) /\ SameDriver(w, v) /\ SameDemod(w, v)
         /\ v.chip.mode = w.chip.mode /\ v.chip.lo \in {w.chip.lo, Torn}
         /\ w.tuner # "E4000" => Told(w, v)
<1> DEFINE u == I2c(w)
<1>1. Silent(w, u) /\ u \in Worlds /\ Told(w, u) /\ u.chip \in Chips
  BY I2cIs DEF Silent, SameCall, Worlds
<1>2. CASE w.tuner = "R82xx"
  <2> DEFINE c == [u.chip EXCEPT !.init = IF u.r < 0 THEN Torn ELSE "standby",
                                 !.lo = Torn]
  <2>1. v = [u EXCEPT !.chip.init = IF u.r < 0 THEN Torn ELSE "standby",
                      !.chip.lo = Torn]
    BY <1>2 DEF Standby
  <2> HIDE DEF u
  <2>2. v = [u EXCEPT !.chip = c]
    BY <1>1, <2>1 DEF Worlds
  <2>3. /\ c \in Chips /\ c.mode = u.chip.mode /\ c.lo = Torn
        /\ c.if = u.chip.if /\ c.ppm = u.chip.ppm /\ c.ratio = u.chip.ratio
    BY <1>1, ZenonT(60) DEF Chips
  <2> HIDE DEF c
  <2>4. /\ SameCall(u, v) /\ SameDriver(u, v) /\ v.chip = c
        /\ v.r = u.r /\ v.failed = u.failed
    BY <1>1, <2>2, <2>3, RegistersAre
  <2> QED
    BY <1>1, <2>3, <2>4
       DEF Silent, SameCall, SameDriver, SameTuner, SameDemod, Told
<1>3. CASE w.tuner = "E4000"
  <2> DEFINE c == [u.chip EXCEPT !.lo = Torn]
             x == [u EXCEPT !.r = 0]
  <2>1. v = [u EXCEPT !.r = 0, !.chip.lo = Torn]
    BY <1>3 DEF Standby
  <2> HIDE DEF u
  <2>2. v = [x EXCEPT !.chip = c]
    BY <1>1, <2>1 DEF Worlds
  <2>3. /\ c \in Chips /\ c.mode = u.chip.mode /\ c.lo = Torn
        /\ c.if = u.chip.if /\ c.ppm = u.chip.ppm /\ c.ratio = u.chip.ratio
    BY <1>1 DEF Chips
  <2> HIDE DEF c
  <2>4. Silent(u, x) /\ x \in Worlds
    BY <1>1, ResultIs
  <2> HIDE DEF x
  <2>5. SameCall(x, v) /\ SameDriver(x, v) /\ v.chip = c
    BY <2>2, <2>3, <2>4, RegistersAre
  <2> QED
    BY <1>1, <1>3, <2>3, <2>4, <2>5
       DEF Silent, SameCall, SameDriver, SameTuner, SameDemod
<1>4. CASE w.tuner \in {"FC0012", "FC0013", "FC2580"}
  <2>1. v = w
    BY <1>4 DEF Standby
  <2> QED
    BY <2>1 DEF SameCall, SameDriver, SameDemod, Told
<1> QED
  BY <1>2, <1>3, <1>4 DEF Supported

\* What the initialisation of a tuner makes of it.
InitialisedTo(w, v) ==
  /\ SameCall(w, v) /\ v.dev = w.dev /\ SameDemod(w, v)
  /\ v.chip.lo = Torn /\ v.tun.xtal = w.tun.xtal /\ ModeKnown(v)
  /\ w.tuner = "R82xx" => v.chip.init = Torn \/ v.tun.int = InitIf
  /\ w.tuner \notin {"R82xx", "E4000", "FC0012"} => Told(w, v)

\* r82xx_set_tv_standard and r82xx_sysfreq_sel
LEMMA SetTvStandardIs ==
  ASSUME NEW w \in Worlds, NEW v, v = SysfreqSel(SetTvStandard(w))
  PROVE  /\ SameCall(w, v) /\ v.dev = w.dev /\ SameDemod(w, v)
         /\ v.tun.xtal = w.tun.xtal /\ v.tun.mode = w.tun.mode
         /\ v.r < 0 \/ v.tun.int = InitIf
<1> DEFINE u == I2c(w)
           t == [u.tun EXCEPT !.int = InitIf]
           y == [u EXCEPT !.tun = t]
           s == IF u.r < 0 THEN u ELSE I2c(y)
<1>1. Silent(w, u) /\ u \in Worlds /\ u.tun \in Tuns
  BY I2cIs DEF Silent, SameCall, Worlds
<1>2. v = SysfreqSel(s)
  <2>1. [u EXCEPT !.tun.int = InitIf] = y
    <3> HIDE DEF u
    <3> QED
      BY <1>1 DEF Worlds
  <2> QED
    BY <2>1 DEF SetTvStandard
<1> HIDE DEF u
<1>3. t \in Tuns /\ t.xtal = u.tun.xtal /\ t.mode = u.tun.mode /\ t.int = InitIf
  BY <1>1 DEF Tuns, InitIf
<1> HIDE DEF t
<1>4. /\ y \in Worlds /\ y.dev = u.dev /\ y.tun = t /\ y.chip = u.chip
      /\ y.tuner = u.tuner /\ y.fault = u.fault /\ y.lock = u.lock
  BY <1>1, <1>3 DEF Worlds
<1> HIDE DEF y
<1>5. /\ SameCall(w, s) /\ s.dev = w.dev /\ SameDemod(w, s)
      /\ s.tun.xtal = w.tun.xtal /\ s.tun.mode = w.tun.mode
      /\ s.r < 0 \/ s.tun.int = InitIf
  <2>1. CASE u.r < 0
    BY <1>1, <2>1 DEF Silent, SameDriver
  <2>2. CASE ~(u.r < 0)
    <3>1. Silent(y, s)
      BY <1>4, <2>2, I2cIs
    <3> QED
      BY <1>1, <1>3, <1>4, <3>1 DEF Silent, SameCall, SameDriver, SameDemod
  <2> QED
    BY <2>1, <2>2
<1> HIDE DEF s
<1>6. CASE s.r < 0
  BY <1>2, <1>5, <1>6 DEF SysfreqSel
<1>7. CASE ~(s.r < 0)
  <2>1. Silent(s, v)
    BY <1>2, <1>5, <1>7, I2cIs DEF SysfreqSel, SameCall
  <2> QED
    BY <1>5, <1>7, <2>1 DEF Silent, SameCall, SameDriver, SameDemod
<1> QED
  BY <1>6, <1>7

LEMMA R82xxInitIs ==
  ASSUME NEW w \in Worlds, w.tuner = "R82xx", ClockKnown(w), NEW v,
         v = R82xxInit(w)
  PROVE  InitialisedTo(w, v)
<1> DEFINE a == I2c(w)
           g == SysfreqSel(SetTvStandard(a))
           mode == IF a.r < 0 \/ g.r < 0 THEN Torn ELSE 0
           init == IF g.r < 0 THEN Torn ELSE "on"
           c == [g.chip EXCEPT !.lo = Torn, !.mode = mode, !.init = init]
<1>1. [w EXCEPT !.tun.xtal = TunerClock(w.dev)] = w
  BY DEF ClockKnown, Worlds, Tuns
<1>2. Silent(w, a) /\ a \in Worlds
  BY I2cIs DEF Silent, SameCall
<1>3. v = [Initialised(g) EXCEPT !.chip.mode = IF a.r < 0 THEN Torn ELSE @]
  BY <1>1 DEF R82xxInit
<1> HIDE DEF a
<1>4. /\ SameCall(a, g) /\ g.dev = a.dev /\ SameDemod(a, g)
      /\ g.tun.xtal = a.tun.xtal /\ g.tun.mode = a.tun.mode
      /\ g.r < 0 \/ g.tun.int = InitIf
  BY <1>2, SetTvStandardIs
<1> HIDE DEF g
<1>5. g \in Worlds /\ g.chip \in Chips
  BY <1>4 DEF SameCall, Worlds
<1>6. v = [g EXCEPT !.chip = c]
  <2> DEFINE h == [g.chip EXCEPT !.lo = Torn,
                                 !.mode = IF g.r < 0 THEN Torn ELSE 0,
                                 !.init = IF g.r < 0 THEN Torn ELSE "on"]
             x == [g EXCEPT !.chip = h]
  <2>1. Initialised(g) = x
    BY <1>5 DEF Initialised, Worlds, Chips
  <2>2. h \in Chips /\ h.mode = IF g.r < 0 THEN Torn ELSE 0
    BY <1>5, ZenonT(60) DEF Chips
  <2>3. c = [h EXCEPT !.mode = IF a.r < 0 THEN Torn ELSE h.mode]
    BY <1>5 DEF Chips
  <2> HIDE DEF h, c
  <2>4. x \in Worlds /\ x.chip = h
    BY <1>5, <2>2 DEF Worlds
  <2>5. v = [x EXCEPT !.chip = c]
    <3> HIDE DEF x
    <3> QED
      BY <1>3, <2>1, <2>3, <2>4 DEF Worlds
  <2> QED
    BY <1>5, <2>5 DEF Worlds
<1>7. /\ c \in Chips /\ c.lo = Torn /\ c.mode \in {0, Torn} /\ c.init = init
      /\ c.if = g.chip.if /\ c.ppm = g.chip.ppm /\ c.ratio = g.chip.ratio
  <2>1. mode \in {0, Torn} /\ init \in {"on", "standby", Torn}
    OBVIOUS
  <2> HIDE DEF mode, init
  <2>2. c \in Chips
    BY <1>5, <2>1 DEF Chips
  <2>3. c.lo = Torn /\ c.mode = mode /\ c.init = init
    BY <1>5 DEF Chips
  <2>4. c.if = g.chip.if /\ c.ppm = g.chip.ppm /\ c.ratio = g.chip.ratio
    BY <1>5 DEF Chips
  <2> QED BY <2>1, <2>2, <2>3, <2>4
<1> HIDE DEF c
<1>8. SameCall(g, v) /\ SameDriver(g, v) /\ v.chip = c
  BY <1>5, <1>6, <1>7, RegistersAre
<1>9. v.chip.init = Torn \/ v.tun.int = InitIf
  BY <1>4, <1>7, <1>8 DEF SameDriver
<1>10. v.tuner = "R82xx" /\ v.chip.mode \in {0, Torn}
  BY <1>2, <1>4, <1>7, <1>8 DEF Silent, SameCall
<1> QED
  BY <1>2, <1>4, <1>7, <1>8, <1>9, <1>10
     DEF InitialisedTo, ModeKnown, Silent, SameCall, SameDriver, SameDemod

LEMMA E4kInitIs ==
  ASSUME NEW w \in Worlds, w.tuner = "E4000", ClockKnown(w), NEW v,
         v = E4kInit(w)
  PROVE  InitialisedTo(w, v)
<1> DEFINE u == I2c(w)
           c == [u.chip EXCEPT !.lo = Torn,
                               !.mode = IF u.r < 0 THEN Torn ELSE 0,
                               !.filter = IF u.r < 0 THEN Torn ELSE 0]
           t == [u.tun EXCEPT !.mode = 0]
<1>1. [w EXCEPT !.tun.xtal = TunerClock(w.dev)] = w
  BY DEF ClockKnown, Worlds, Tuns
<1>2. Silent(w, u) /\ u \in Worlds /\ u.chip \in Chips /\ u.tun \in Tuns
  BY I2cIs DEF Silent, SameCall, Worlds
<1>3. v = [u EXCEPT !.r = 0, !.tun.mode = 0, !.chip.lo = Torn,
                    !.chip.mode = IF u.r < 0 THEN Torn ELSE 0,
                    !.chip.filter = IF u.r < 0 THEN Torn ELSE 0]
  BY <1>1 DEF E4kInit
<1> HIDE DEF u
<1>4. v = [u EXCEPT !.r = 0, !.tun = t, !.chip = c]
  BY <1>2, <1>3 DEF Worlds, Chips
<1>5. /\ c \in Chips /\ c.lo = Torn /\ c.mode \in {0, Torn}
      /\ c.if = u.chip.if /\ c.ppm = u.chip.ppm /\ c.ratio = u.chip.ratio
  BY <1>2, ZenonT(60) DEF Chips
<1>6. t \in Tuns /\ t.mode = 0 /\ t.xtal = u.tun.xtal
  BY <1>2 DEF Tuns
<1> HIDE DEF c, t
<1>7. /\ v \in Worlds /\ v.dev = u.dev /\ v.tun = t /\ v.chip = c
      /\ v.tuner = u.tuner /\ v.fault = u.fault /\ v.lock = u.lock
  <2> DEFINE x == [u EXCEPT !.r = 0]
             y == [x EXCEPT !.tun = t]
  <2>1. x \in Worlds /\ Silent(u, x)
    BY <1>2, ResultIs
  <2>2. v = [y EXCEPT !.chip = c]
    BY <1>2, <1>4
  <2> HIDE DEF x
  <2>3. /\ y \in Worlds /\ y.dev = x.dev /\ y.tun = t
        /\ y.tuner = x.tuner /\ y.fault = x.fault /\ y.lock = x.lock
    BY <1>6, <2>1 DEF Worlds
  <2> HIDE DEF y
  <2>4. SameCall(y, v) /\ SameDriver(y, v) /\ v.chip = c
    BY <1>5, <2>2, <2>3, RegistersAre
  <2> QED
    BY <2>1, <2>3, <2>4 DEF Silent, SameCall, SameDriver
<1>8. ModeKnown(v)
  BY <1>5, <1>6, <1>7 DEF ModeKnown
<1> QED
  BY <1>2, <1>5, <1>6, <1>7, <1>8
     DEF InitialisedTo, Silent, SameCall, SameDriver, SameDemod

LEMMA FcInitIs ==
  ASSUME NEW w \in Worlds, ModeKnown(w), w.tuner \notin {"R82xx", "E4000"},
         NEW v, v = FcInit(w)
  PROVE  InitialisedTo(w, v) /\ Told(w, v) /\ v.r \in {0, -1}
<1> DEFINE u == I2c(w)
           c == [u.chip EXCEPT !.lo = Torn]
<1>1. /\ Silent(w, u) /\ u \in Worlds /\ u.chip \in Chips /\ Told(w, u)
      /\ u.r \in {0, -1}
  BY I2cIs DEF Silent, SameCall, Worlds
<1>2. v = [u EXCEPT !.chip.lo = Torn]
  BY DEF FcInit
<1> HIDE DEF u
<1>3. v = [u EXCEPT !.chip = c]
  BY <1>1, <1>2 DEF Worlds
<1>4. /\ c \in Chips /\ c.lo = Torn /\ c.mode = u.chip.mode
      /\ c.if = u.chip.if /\ c.ppm = u.chip.ppm /\ c.ratio = u.chip.ratio
  BY <1>1 DEF Chips
<1> HIDE DEF c
<1>5. /\ SameCall(u, v) /\ SameDriver(u, v) /\ v.chip = c
      /\ v.r = u.r /\ v.failed = u.failed
  BY <1>1, <1>3, <1>4, RegistersAre
<1>6. ModeKnown(v)
  BY <1>1, <1>4, <1>5
     DEF ModeKnown, Silent, SameCall, SameDriver, SameTuner
<1>7. Told(w, v) /\ v.r \in {0, -1}
  BY <1>1, <1>5 DEF Told
<1> QED
  BY <1>1, <1>4, <1>5, <1>6, <1>7
     DEF InitialisedTo, Silent, SameCall, SameDriver, SameDemod

LEMMA TunerInitIs ==
  ASSUME NEW w \in Worlds, Good(w), w.tuner \in Supported \ {"none"}, NEW v,
         v = TunerInit(w)
  PROVE  InitialisedTo(w, v)
<1>0. ClockKnown(w) /\ ModeKnown(w)
  BY DEF Good
<1>1. CASE w.tuner = "R82xx"
  BY <1>0, <1>1, R82xxInitIs DEF TunerInit
<1>2. CASE w.tuner = "E4000"
  BY <1>0, <1>2, E4kInitIs DEF TunerInit
<1>3. CASE w.tuner \in {"FC0012", "FC0013"}
  BY <1>0, <1>3, FcInitIs DEF TunerInit
<1>4. CASE w.tuner = "FC2580"
  <2> DEFINE u == FcInit(w)
  <2>1. v = Fc2580Result(u)
    BY <1>4 DEF TunerInit, Fc2580Initialize
  <2>2. InitialisedTo(w, u) /\ Told(w, u) /\ u.r \in {0, -1}
    BY <1>0, <1>4, FcInitIs
  <2> HIDE DEF u
  <2>3. u \in Worlds
    BY <2>2 DEF InitialisedTo, SameCall
  <2>4. /\ v \in Worlds /\ v.dev = u.dev /\ v.tun = u.tun /\ v.chip = u.chip
        /\ v.tuner = u.tuner /\ v.fault = u.fault /\ v.lock = u.lock
        /\ v.failed = u.failed /\ v.r \in {0, 1} /\ (v.r = 0 <=> u.r = 0)
    BY <2>1, <2>2, <2>3, Fc2580ResultIs
  <2> QED
    BY <1>4, <2>2, <2>4 DEF InitialisedTo, SameCall, SameDemod, ModeKnown, Told
<1> QED
  BY <1>1, <1>2, <1>3, <1>4 DEF Supported

\* dev->direct_sampling changes, and the frequency is set again.
LEMMA DirectIs ==
  ASSUME NEW w \in Worlds, NEW on \in BOOLEAN, NEW v,
         NoOffset(w), ClockKnown(w), Corrects(w), ClockIsReal(w), ModeKnown(w),
         \/ on
         \/ w.chip.if = Torn
         \/ w.tuner = "R82xx" /\ (w.chip.init = Torn \/ w.chip.if.f = w.tun.int)
         \/ w.tuner # "R82xx" /\ w.chip.if.f = 0,
         v = OrCenterFreq([w EXCEPT !.dev.direct = on])
  PROVE  /\ SameCall(w, v) /\ Good(v) /\ Tuned(v)
         /\ v.dev.rate = w.dev.rate /\ v.chip.ratio = w.chip.ratio
         /\ w.r # 0 => v.r # 0
         /\ w.tuner \notin {"E4000", "FC0012"} => Told(w, v)
<1> DEFINE d == [w.dev EXCEPT !.direct = on]
           x == [w EXCEPT !.dev = d]
           c == CenterFreq(x, x.dev.freq)
<1>1. w.dev \in Devs
  BY DEF Worlds
<1>2. /\ d \in Devs /\ d.corr = w.dev.corr /\ d.rate = w.dev.rate
      /\ d.offs = w.dev.offs /\ d.direct = on /\ d.tun_xtal = w.dev.tun_xtal
  BY <1>1 DEF Devs
<1>3. v = Or(x.r, c)
  <2>1. [w EXCEPT !.dev.direct = on] = x
    BY DEF Worlds
  <2> QED
    BY <2>1 DEF OrCenterFreq
<1> HIDE DEF d
<1>4. /\ SameCall(w, x) /\ x \in Worlds /\ x.dev = d /\ x.tun = w.tun
      /\ x.chip = w.chip /\ x.failed = w.failed /\ x.r = w.r
  BY <1>2, DriverIs DEF SameCall
<1> HIDE DEF x
<1>5. Good(x)
  <2>1. NoOffset(x) /\ ClockKnown(x) /\ Corrects(x) /\ ModeKnown(x)
    BY <1>2, <1>4
       DEF NoOffset, ClockKnown, Corrects, ModeKnown, SameCall, TunerClock
  <2>2. IfKnown(x) /\ ClockIsReal(x)
    BY <1>2, <1>4 DEF IfKnown, ClockIsReal, SameCall
  <2> QED
    BY <2>1, <2>2 DEF Good
<1>6. x.dev.freq \in Freqs \cup {0} /\ x.r \in Int
  BY <1>4 DEF Worlds, Devs
<1>7. /\ SameCall(x, c) /\ Good(c) /\ Tuned(c)
      /\ c.chip.ratio = x.chip.ratio
      /\ x.tuner \notin {"E4000", "FC0012"} => Told(x, c)
  BY <1>4, <1>5, <1>6, CenterFreqIs, ZenonT(60)
<1>8. Advances(x, c)
  BY <1>4, <1>5, <1>6, CenterFreqAdvances
<1> HIDE DEF c
<1>9. c \in Worlds
  BY <1>7 DEF SameCall
<1>10. Silent(c, v) /\ v.failed = c.failed /\ (v.r = 0 <=> x.r = 0 /\ c.r = 0)
  BY <1>3, <1>6, <1>9, OrIs
<1>11. Advances(c, v)
  BY <1>7, <1>10, SilentAdvances
<1>12. v.chip.ratio = w.chip.ratio
  BY <1>4, <1>7, <1>10 DEF Silent, SameDemod
<1>13. SameCall(w, v) /\ Good(v) /\ Tuned(v) /\ v.dev.rate = w.dev.rate
  BY <1>2, <1>4, <1>7, <1>8, <1>11 DEF Advances, SameCall
<1>14. w.tuner \notin {"E4000", "FC0012"} => Told(w, v)
  BY <1>4, <1>7, <1>10 DEF SameCall, Told
<1> QED
  BY <1>4, <1>10, <1>12, <1>13, <1>14

LEMMA DirectSamplingOnIs ==
  ASSUME NEW w \in Worlds, Good(w), NEW v, v = DirectSamplingOn(w)
  PROVE  /\ Advances(w, v)
         /\ w.tuner \notin {"E4000", "FC0012"} => Told(w, v)
<1> DEFINE o == Open(w)
           t == Standby(o)
           a == AskTuner(w, t)
           z == OrDemod(a, "zeroif", FALSE)
           c == OrDemod(z, "inversion", FALSE)
<1>1. v = OrCenterFreq([c EXCEPT !.dev.direct = TRUE])
  BY DEF DirectSamplingOn
<1>2. /\ SameCall(w, a) /\ SameDriver(w, a) /\ SameDemod(w, a)
      /\ a.chip.mode = w.chip.mode /\ a.chip.lo \in {w.chip.lo, Torn}
      /\ w.tuner # "E4000" => Told(w, a)
  <2>1. CASE w.tuner = "none"
    <3>1. a = w
      BY <2>1 DEF AskTuner
    <3> QED
      BY <3>1 DEF SameCall, SameDriver, SameDemod, Told
  <2>2. CASE w.tuner # "none"
    <3>1. /\ o \in Worlds /\ Good(o) /\ Silent(w, o) /\ o.failed = w.failed
          /\ o.tuner \in Supported \ {"none"}
          /\ t \in Worlds => Silent(t, a) /\ a.r = t.r /\ a.failed = t.failed
      BY <2>2, AskTunerIs
    <3> HIDE DEF a, o
    <3>2. /\ SameCall(o, t) /\ SameDriver(o, t) /\ SameDemod(o, t)
          /\ t.chip.mode = o.chip.mode /\ t.chip.lo \in {o.chip.lo, Torn}
          /\ o.tuner # "E4000" => Told(o, t)
      BY <3>1, StandbyIs
    <3> HIDE DEF t
    <3>3. Silent(t, a) /\ a.r = t.r /\ a.failed = t.failed
      BY <3>1, <3>2 DEF SameCall
    <3> QED
      BY <3>1, <3>2, <3>3
         DEF Silent, SameCall, SameDriver, SameTuner, SameDemod, Told
  <2> QED
    BY <2>1, <2>2
<1> HIDE DEF a
<1>3. a \in Worlds
  BY <1>2 DEF SameCall
<1>4. Silent(a, z) /\ (a.r # 0 => z.r # 0) /\ Told(a, z)
  BY <1>3, SwitchIs
<1> HIDE DEF z
<1>5. z \in Worlds
  BY <1>4 DEF Silent, SameCall
<1>6. Silent(z, c) /\ (z.r # 0 => c.r # 0) /\ Told(z, c)
  BY <1>5, SwitchIs
<1> HIDE DEF c
<1>7. /\ SameCall(w, c) /\ c \in Worlds /\ SameDriver(w, c) /\ SameDemod(w, c)
      /\ c.chip.mode = w.chip.mode /\ c.chip.lo \in {w.chip.lo, Torn}
      /\ w.tuner # "E4000" => Told(w, c)
  BY <1>2, <1>4, <1>6
     DEF Silent, SameCall, SameDriver, SameTuner, SameDemod, Told
<1>8. NoOffset(c) /\ ClockKnown(c) /\ Corrects(c) /\ ClockIsReal(c) /\ ModeKnown(c)
  BY <1>7
     DEF Good, NoOffset, ClockKnown, Corrects, ClockIsReal, ModeKnown, SameCall,
         SameDriver, SameDemod
<1>9. /\ SameCall(c, v) /\ Good(v) /\ Tuned(v)
      /\ v.dev.rate = c.dev.rate /\ v.chip.ratio = c.chip.ratio
      /\ c.r # 0 => v.r # 0
      /\ c.tuner \notin {"E4000", "FC0012"} => Told(c, v)
  BY <1>1, <1>7, <1>8, DirectIs
<1> QED
  BY <1>7, <1>9 DEF Advances, SameCall, SameDriver, SameDemod, Samples, Told

LEMMA DirectSamplingOffIs ==
  ASSUME NEW w \in Worlds, Good(w), NEW v, v = DirectSamplingOff(w)
  PROVE  /\ Advances(w, v)
         /\ w.tuner \notin {"R82xx", "E4000", "FC0012"} => Told(w, v)
<1> DEFINE low == (w.tuner = "R82xx")
           if == IF low THEN InitIf ELSE 0
           reg == IF low THEN "inversion" ELSE "zeroif"
           o == Open(w)
           t == TunerInit(o)
           a == AskTuner(w, t)
           s == SetIfFreq(a, if)
           z == Or(a.r, s)
           c == OrDemod(z, reg, TRUE)
<1>1. v = OrCenterFreq([c EXCEPT !.dev.direct = FALSE])
  BY DEF DirectSamplingOff, OrSetIfFreq
<1>2. /\ SameCall(w, a) /\ a.dev = w.dev /\ SameDemod(w, a)
      /\ a.tun.xtal = w.tun.xtal /\ ModeKnown(a) /\ ClockIsReal(a)
      /\ w.tuner = "R82xx" => a.chip.init = Torn \/ a.tun.int = InitIf
      /\ w.tuner \notin {"R82xx", "E4000", "FC0012"} => Told(w, a)
  <2>1. CASE w.tuner = "none"
    <3>1. a = w
      BY <2>1 DEF AskTuner
    <3> QED
      BY <2>1, <3>1 DEF SameCall, SameDemod, Told, Good
  <2>2. CASE w.tuner # "none"
    <3>1. /\ o \in Worlds /\ Good(o) /\ Silent(w, o) /\ o.failed = w.failed
          /\ o.tuner \in Supported \ {"none"}
          /\ t \in Worlds => Silent(t, a) /\ a.r = t.r /\ a.failed = t.failed
      BY <2>2, AskTunerIs
    <3> HIDE DEF a, o
    <3>2. InitialisedTo(o, t)
      BY <3>1, TunerInitIs
    <3> HIDE DEF t
    <3>3. Silent(t, a) /\ a.r = t.r /\ a.failed = t.failed
      BY <3>1, <3>2 DEF InitialisedTo, SameCall
    <3>4. ModeKnown(a) /\ ClockIsReal(a)
      BY <3>2, <3>3
         DEF InitialisedTo, Silent, SameCall, SameDriver, SameTuner, ModeKnown,
             ClockIsReal
    <3>5. w.tuner \notin {"R82xx", "E4000", "FC0012"} => Told(w, a)
      BY <3>1, <3>2, <3>3 DEF InitialisedTo, Silent, SameCall, Told
    <3> QED
      BY <3>1, <3>2, <3>3, <3>4, <3>5
         DEF InitialisedTo, Silent, SameCall, SameDriver, SameTuner, SameDemod
  <2> QED
    BY <2>1, <2>2
<1> HIDE DEF a
<1>3. a \in Worlds /\ a.r \in Int /\ if \in Nat /\ reg \in {"zeroif", "inversion"}
  BY <1>2 DEF SameCall, Worlds, InitIf
<1> HIDE DEF reg
<1>4. /\ SameCall(a, s) /\ SameDriver(a, s) /\ SameTuner(a, s)
      /\ s.chip.ppm = a.chip.ppm /\ s.chip.ratio = a.chip.ratio
      /\ s.chip.if = IF s.r < 0 THEN Torn ELSE [f |-> if, clk |-> RtlClock(a.dev)]
      /\ s.r \in {0, -1} /\ Told(a, s)
  <2> HIDE DEF if
  <2> QED
    BY <1>3, SetIfFreqIs
<1> HIDE DEF s
<1>5. s \in Worlds
  BY <1>4 DEF SameCall
<1>6. Silent(s, z) /\ z.failed = s.failed /\ (z.r = 0 <=> a.r = 0 /\ s.r = 0)
  BY <1>3, <1>5, OrIs
<1> HIDE DEF z
<1>7. z \in Worlds
  BY <1>6 DEF Silent, SameCall
<1>8. Silent(z, c) /\ (z.r # 0 => c.r # 0) /\ Told(z, c)
  BY <1>3, <1>7, SwitchIs
<1> HIDE DEF c
<1>9. /\ SameCall(w, c) /\ c \in Worlds /\ c.tuner = w.tuner
      /\ c.dev = w.dev /\ c.tun = a.tun /\ c.chip.lo = a.chip.lo
      /\ c.chip.mode = a.chip.mode /\ c.chip.init = a.chip.init
      /\ c.chip.ppm = w.chip.ppm /\ c.chip.ratio = w.chip.ratio
      /\ c.chip.if = Torn \/ c.chip.if.f = if
  BY <1>2, <1>4, <1>6, <1>8
     DEF Silent, SameCall, SameDriver, SameTuner, SameDemod
<1>10. w.tuner \notin {"R82xx", "E4000", "FC0012"} => Told(w, c)
  BY <1>2, <1>4, <1>6, <1>8 DEF Told
<1>11. NoOffset(c) /\ ClockKnown(c) /\ Corrects(c) /\ ClockIsReal(c) /\ ModeKnown(c)
  <2>1. NoOffset(c) /\ ClockKnown(c) /\ Corrects(c)
    BY <1>2, <1>9 DEF Good, NoOffset, ClockKnown, Corrects
  <2>2. ClockIsReal(c) /\ ModeKnown(c)
    BY <1>2, <1>9 DEF ClockIsReal, ModeKnown, SameCall
  <2> QED
    BY <2>1, <2>2
<1>12. \/ c.chip.if = Torn
       \/ c.tuner = "R82xx" /\ (c.chip.init = Torn \/ c.chip.if.f = c.tun.int)
       \/ c.tuner # "R82xx" /\ c.chip.if.f = 0
  BY <1>2, <1>9
<1>13. /\ SameCall(c, v) /\ Good(v) /\ Tuned(v)
       /\ v.dev.rate = c.dev.rate /\ v.chip.ratio = c.chip.ratio
       /\ c.r # 0 => v.r # 0
       /\ c.tuner \notin {"E4000", "FC0012"} => Told(c, v)
  BY <1>1, <1>9, <1>11, <1>12, DirectIs
<1> QED
  BY <1>9, <1>10, <1>13 DEF Advances, SameCall, Samples, Told

\* rtlsdr_set_direct_sampling
LEMMA DirectSamplingIs ==
  ASSUME NEW w \in Worlds, Good(w), NEW on \in BOOLEAN, NEW v,
         v = DirectSampling(w, on)
  PROVE  /\ Advances(w, v)
         /\ w.tuner \notin {"R82xx", "E4000", "FC0012"} => Told(w, v)
<1>1. CASE on
  BY <1>1, DirectSamplingOnIs DEF DirectSampling
<1>2. CASE ~on
  BY <1>2, DirectSamplingOffIs DEF DirectSampling
<1> QED
  BY <1>1, <1>2

-----------------------------------------------------------------------------
(* Gain. *)

\* Another gain mode, in the driver and in the tuner.
LEMMA GainModeChanges ==
  ASSUME NEW w \in Worlds, Good(w), NEW v,
         v \in Worlds, v.tuner = w.tuner, v.fault = w.fault, v.lock = w.lock,
         v.dev = w.dev, v.tun.int = w.tun.int, v.tun.xtal = w.tun.xtal,
         v.chip.lo = w.chip.lo, v.chip.init = w.chip.init,
         SameDemod(w, v), ModeKnown(v)
  PROVE  Advances(w, v)
<1>1. Good(v)
  BY DEF Good, NoOffset, ClockKnown, Corrects, IfKnown, ClockIsReal, SameDemod
<1>2. (Tuned(w) => Tuned(v)) /\ (Samples(w) => Samples(v))
  BY DEF Tuned, Oscillates, ClockOf, Samples, SameDemod
<1> QED
  BY <1>1, <1>2 DEF Advances, SameCall

\* Another mode in the driver's state and in the registers of the tuner.
ModeSet(w, m, k) ==
  [w EXCEPT !.tun = [w.tun EXCEPT !.mode = m],
            !.chip = [w.chip EXCEPT !.mode = k]]

LEMMA ModeSetIs ==
  ASSUME NEW w \in Worlds, NEW m, NEW k, m = 0 \/ m = 1, k = m \/ k = Torn,
         NEW v, v = ModeSet(w, m, k)
  PROVE  /\ SameCall(w, v) /\ v.dev = w.dev /\ SameDemod(w, v)
         /\ v.tun.int = w.tun.int /\ v.tun.xtal = w.tun.xtal /\ ModeKnown(v)
         /\ v.chip.lo = w.chip.lo /\ v.chip.init = w.chip.init
         /\ v.r = w.r /\ v.failed = w.failed
<1> DEFINE t == [w.tun EXCEPT !.mode = m]
           c == [w.chip EXCEPT !.mode = k]
           x == [w EXCEPT !.tun = t]
<1>1. w.tun \in Tuns /\ w.chip \in Chips
  BY DEF Worlds
<1>2. v = [x EXCEPT !.chip = c]
  BY <1>1 DEF ModeSet, Worlds
<1>3. t \in Tuns /\ t.mode = m /\ t.int = w.tun.int /\ t.xtal = w.tun.xtal
  BY <1>1 DEF Tuns
<1>4. /\ c \in Chips /\ c.mode = k /\ c.lo = w.chip.lo /\ c.init = w.chip.init
      /\ c.if = w.chip.if /\ c.ppm = w.chip.ppm /\ c.ratio = w.chip.ratio
  BY <1>1 DEF Chips
<1> HIDE DEF t, c
<1>5. /\ x \in Worlds /\ x.dev = w.dev /\ x.tun = t
      /\ x.tuner = w.tuner /\ x.fault = w.fault /\ x.lock = w.lock
      /\ x.r = w.r /\ x.failed = w.failed
  BY <1>3 DEF Worlds
<1> HIDE DEF x
<1>6. /\ SameCall(x, v) /\ SameDriver(x, v) /\ v.chip = c
      /\ v.r = x.r /\ v.failed = x.failed
  BY <1>2, <1>4, <1>5, RegistersAre
<1> QED
  BY <1>3, <1>4, <1>5, <1>6 DEF SameCall, SameDriver, SameDemod, ModeKnown

LEMMA TunerSetGainModeIs ==
  ASSUME NEW w \in Worlds, Good(w), w.tuner \in Supported \ {"none"},
         NEW mode \in {0, 1}, NEW v, v = TunerSetGainMode(w, mode)
  PROVE  Advances(w, v) /\ (w.tuner # "E4000" => Told(w, v))
<1> DEFINE u == I2c(w)
           k == IF u.r < 0 THEN Torn ELSE mode
<1>1. Silent(w, u) /\ u \in Worlds /\ u.r \in {0, -1} /\ Told(w, u)
  BY I2cIs DEF Silent, SameCall
<1>2. u.tun \in Tuns /\ u.chip \in Chips
  BY <1>1 DEF Worlds
<1>3. CASE w.tuner = "R82xx" /\ w.tun.mode = mode
  BY <1>3 DEF TunerSetGainMode, R82xxEnableManualGain, Advances, SameCall, Told
<1>4. CASE w.tuner = "R82xx" /\ w.tun.mode # mode
  <2> DEFINE m == IF u.r < 0 THEN u.tun.mode ELSE mode
  <2>1. v = [u EXCEPT !.tun.mode = IF u.r < 0 THEN @ ELSE mode,
                      !.chip.mode = IF u.r < 0 THEN Torn ELSE mode]
    BY <1>4 DEF TunerSetGainMode, R82xxEnableManualGain
  <2> HIDE DEF u
  <2>2. v = ModeSet(u, m, k)
    BY <1>1, <1>2, <2>1 DEF ModeSet, Worlds, Tuns
  <2>3. (m = 0 \/ m = 1) /\ (k = m \/ k = Torn)
    BY <1>2 DEF Tuns
  <2> HIDE DEF m, k
  <2>4. /\ SameCall(u, v) /\ v.dev = u.dev /\ SameDemod(u, v)
        /\ v.tun.int = u.tun.int /\ v.tun.xtal = u.tun.xtal /\ ModeKnown(v)
        /\ v.chip.lo = u.chip.lo /\ v.chip.init = u.chip.init
        /\ v.r = u.r /\ v.failed = u.failed
    BY <1>1, <2>2, <2>3, ModeSetIs
  <2>5. Good(u)
    BY <1>1, SilentAdvances DEF Advances
  <2>6. Advances(u, v)
    BY <1>1, <2>4, <2>5, GainModeChanges DEF SameCall
  <2> QED
    BY <1>1, <2>4, <2>6, SilentAdvances, AdvancesChain DEF Told
<1>5. CASE w.tuner = "E4000"
  <2> DEFINE x == [u EXCEPT !.r = 0]
  <2>1. v = [u EXCEPT !.r = 0, !.tun.mode = mode,
                      !.chip.mode = IF u.r < 0 THEN Torn ELSE mode]
    BY <1>5 DEF TunerSetGainMode, E4kEnableManualGain
  <2> HIDE DEF u
  <2>2. v = ModeSet(x, mode, k)
    BY <1>1, <2>1 DEF ModeSet, Worlds
  <2>3. Silent(u, x) /\ x \in Worlds
    BY <1>1, ResultIs
  <2>4. (mode = 0 \/ mode = 1) /\ (k = mode \/ k = Torn)
    OBVIOUS
  <2> HIDE DEF x, k
  <2>5. /\ SameCall(x, v) /\ v.dev = x.dev /\ SameDemod(x, v)
        /\ v.tun.int = x.tun.int /\ v.tun.xtal = x.tun.xtal /\ ModeKnown(v)
        /\ v.chip.lo = x.chip.lo /\ v.chip.init = x.chip.init
    BY <2>2, <2>3, <2>4, ModeSetIs
  <2>6. Advances(w, x)
    BY <1>1, <2>3, SilentChain, SilentAdvances
  <2>7. Advances(x, v)
    BY <2>3, <2>5, <2>6, GainModeChanges DEF Advances, SameCall
  <2> QED
    BY <1>5, <2>6, <2>7, AdvancesChain
<1>6. CASE w.tuner = "FC0013"
  <2> DEFINE y == I2c(u)
  <2>1. v = Or(u.r, y)
    BY <1>6 DEF TunerSetGainMode, Fc0013SetGainMode
  <2> HIDE DEF u
  <2>2. Silent(u, y) /\ y \in Worlds /\ Told(u, y)
    BY <1>1, I2cIs DEF Silent, SameCall
  <2> HIDE DEF y
  <2>3. Silent(y, v) /\ v.failed = y.failed /\ (v.r = 0 <=> u.r = 0 /\ y.r = 0)
    BY <1>1, <2>1, <2>2, OrIs
  <2>4. Silent(w, v)
    BY <1>1, <2>2, <2>3, SilentChain
  <2> QED
    BY <1>1, <2>2, <2>3, <2>4, SilentAdvances DEF Told
<1>7. CASE w.tuner \in {"FC0012", "FC2580"}
  BY <1>7 DEF TunerSetGainMode, Advances, SameCall, Told
<1> QED
  BY <1>3, <1>4, <1>5, <1>6, <1>7 DEF Supported

LEMMA TunerSetGainIs ==
  ASSUME NEW w \in Worlds, w.tuner \in Supported \ {"none"},
         NEW v, v = TunerSetGain(w)
  PROVE  /\ Silent(w, v)
         /\ w.tuner \notin {"E4000", "FC0012"} => Told(w, v)
<1> DEFINE u == I2c(w)
           y == I2c(u)
<1>1. Silent(w, u) /\ u \in Worlds /\ u.r \in {0, -1} /\ Told(w, u)
  BY I2cIs DEF Silent, SameCall
<1>2. Silent(u, y) /\ y \in Worlds /\ Told(u, y)
  <2> HIDE DEF u
  <2> QED
    BY <1>1, I2cIs DEF Silent, SameCall
<1>3. CASE w.tuner \in {"R82xx", "FC2580"}
  <2>1. v \in {w, u}
    BY <1>3 DEF TunerSetGain
  <2> QED
    BY <1>1, <2>1 DEF Silent, SameCall, SameDriver, SameTuner, SameDemod, Told
<1>4. CASE w.tuner = "E4000"
  <2>1. v = [u EXCEPT !.r = 0]
    BY <1>4 DEF TunerSetGain
  <2> HIDE DEF u
  <2> QED
    BY <1>1, <1>4, <2>1, ResultIs, SilentChain
<1>5. CASE w.tuner = "FC0012"
  <2>1. v = y
    BY <1>5 DEF TunerSetGain, Fc0012SetGain
  <2> HIDE DEF u, y
  <2> QED
    BY <1>1, <1>2, <1>5, <2>1, SilentChain
<1>6. CASE w.tuner = "FC0013"
  <2>1. v = Or(u.r, y)
    BY <1>6 DEF TunerSetGain, Fc0013SetLnaGain
  <2> HIDE DEF u, y
  <2>2. Silent(y, v) /\ v.failed = y.failed /\ (v.r = 0 <=> u.r = 0 /\ y.r = 0)
    BY <1>1, <1>2, <2>1, OrIs
  <2>3. Silent(w, v)
    BY <1>1, <1>2, <2>2, SilentChain
  <2> QED
    BY <1>1, <1>2, <2>2, <2>3 DEF Told
<1> QED
  BY <1>3, <1>4, <1>5, <1>6 DEF Supported

\* rtlsdr_set_tuner_gain_mode
LEMMA GainModeIs ==
  ASSUME NEW w \in Worlds, Good(w), NEW mode \in {0, 1}, NEW v,
         v = GainMode(w, mode)
  PROVE  Advances(w, v) /\ (w.tuner # "E4000" => Told(w, v))
<1>1. CASE w.tuner = "none"
  BY <1>1 DEF GainMode, AskTuner, Advances, SameCall, Told
<1>2. CASE w.tuner # "none"
  <2> DEFINE o == Open(w)
             t == TunerSetGainMode(o, mode)
  <2>1. v = AskTuner(w, t)
    BY DEF GainMode
  <2>2. /\ o \in Worlds /\ Good(o) /\ Silent(w, o) /\ Advances(w, o)
        /\ o.tuner \in Supported \ {"none"} /\ o.failed = w.failed
        /\ t \in Worlds => Silent(t, v) /\ v.r = t.r /\ v.failed = t.failed
    BY <1>2, <2>1, AskTunerIs
  <2> HIDE DEF o
  <2>3. Advances(o, t) /\ (o.tuner # "E4000" => Told(o, t))
    BY <2>2, TunerSetGainModeIs
  <2> HIDE DEF t
  <2>4. t \in Worlds /\ Good(t) /\ o.tuner = w.tuner
    BY <2>2, <2>3 DEF Advances, SameCall
  <2>5. Silent(t, v) /\ v.r = t.r /\ v.failed = t.failed
    BY <2>2, <2>4
  <2>6. Advances(w, v)
    BY <2>2, <2>3, <2>4, <2>5, SilentAdvances, AdvancesChain
  <2> QED
    BY <2>2, <2>3, <2>4, <2>5, <2>6 DEF Told
<1> QED
  BY <1>1, <1>2

\* rtlsdr_set_tuner_gain
LEMMA GainIs ==
  ASSUME NEW w \in Worlds, Good(w), NEW v, v = Gain(w)
  PROVE  /\ Advances(w, v)
         /\ w.tuner \notin {"E4000", "FC0012"} => Told(w, v)
<1>1. CASE w.tuner = "none"
  BY <1>1 DEF Gain, AskTuner, Advances, SameCall, Told
<1>2. CASE w.tuner # "none"
  <2> DEFINE o == Open(w)
             t == TunerSetGain(o)
  <2>1. v = AskTuner(w, t)
    BY DEF Gain
  <2>2. /\ o \in Worlds /\ Silent(w, o)
        /\ o.tuner \in Supported \ {"none"} /\ o.failed = w.failed
        /\ t \in Worlds => Silent(t, v) /\ v.r = t.r /\ v.failed = t.failed
    BY <1>2, <2>1, AskTunerIs
  <2> HIDE DEF o
  <2>3. /\ Silent(o, t)
        /\ o.tuner \notin {"E4000", "FC0012"} => Told(o, t)
    BY <2>2, TunerSetGainIs
  <2> HIDE DEF t
  <2>4. t \in Worlds /\ o.tuner = w.tuner
    BY <2>2, <2>3 DEF Silent, SameCall
  <2>5. Silent(t, v) /\ v.r = t.r /\ v.failed = t.failed
    BY <2>2, <2>4
  <2>6. Silent(w, v)
    BY <2>2, <2>3, <2>5, SilentChain
  <2> QED
    BY <2>2, <2>3, <2>4, <2>5, <2>6, SilentAdvances DEF Told
<1> QED
  BY <1>1, <1>2

-----------------------------------------------------------------------------
(* The calls.                                                               *)

\* The dongle between two calls.
Now == World(NoFault, TRUE)

\* What every call preserves, whichever of its transfers fail.
ControlInv ==
  /\ Now \in Worlds /\ Good(Now) /\ Tuned(Now) /\ Samples(Now)
  /\ faults \in 0..MaxFaults
  /\ FailuresAreTold

\* A call begins in the state, with the faults chosen for it.
LEMMA CallBegins ==
  ASSUME ControlInv, NEW fault \in Faults, NEW lock \in BOOLEAN,
         NEW w, w = World(fault, lock)
  PROVE  /\ w \in Worlds /\ Good(w) /\ Tuned(w) /\ Samples(w)
         /\ w.tuner = tuner /\ ~w.failed
<1>1. /\ Now.tuner = tuner /\ Now.dev = dev /\ Now.tun = tun /\ Now.chip = chip
  BY DEF Now, World
<1>2. /\ w.tuner = tuner /\ w.dev = dev /\ w.tun = tun /\ w.chip = chip
      /\ w.failed = FALSE
  BY DEF World
<1>3. w \in Worlds
  <2>1. tuner \in Tuners /\ dev \in Devs /\ tun \in Tuns /\ chip \in Chips
    BY <1>1 DEF ControlInv, Worlds
  <2> QED
    BY <2>1 DEF World, Worlds
<1>4. Good(w)
  BY <1>1, <1>2
     DEF ControlInv, Good, NoOffset, ClockKnown, Corrects, IfKnown, ClockIsReal,
         ModeKnown
<1>5. Tuned(w) /\ Samples(w)
  BY <1>1, <1>2 DEF ControlInv, Tuned, Oscillates, ClockOf, Samples
<1> QED
  BY <1>2, <1>3, <1>4, <1>5

\* Those faults, of which there are none when no call may suffer any more.
LEMMA FaultsAre ==
  ASSUME ControlInv, NEW lock \in Locks, NEW u \in Worlds,
         NEW fault \in FaultsOf(u)
  PROVE  /\ lock \in BOOLEAN /\ fault \in Faults
         /\ (fault = NoFault /\ lock) \/ faults - 1 \in 0..MaxFaults
<1>1. NoFault \in Faults
  BY DEF NoFault, Faults
<1>2. faults \in 0..MaxFaults /\ MaxFaults \in Nat /\ Gone \in Nat
  BY DeviceControlAssumption DEF ControlInv
<1>3. fault = NoFault \/ (faults # 0 /\ fault \in Faults)
  <2>1. u.n \in Nat
    BY DEF Worlds
  <2> QED
    BY <1>2, <2>1 DEF FaultsOf, Faults
<1>4. lock \in BOOLEAN /\ (lock \/ faults # 0)
  BY DEF Locks
<1> QED
  BY <1>1, <1>2, <1>3, <1>4

\* A call returns, and the next one finds what it left.
LEMMA CallReturns ==
  ASSUME ControlInv, NEW function, NEW v \in Worlds, Returns(function, v),
         v.tuner = tuner, Good(v), Tuned(v), Samples(v),
         (v.fault = NoFault /\ v.lock) \/ faults - 1 \in 0..MaxFaults,
         \/ v.failed => v.r # 0
         \/ function \in {"sample_rate", "xtal_freq"}
         \/ tuner \in {"E4000", "FC0012"}
         \/ function = "offset_tuning" /\ tuner = "FC2580"
         \/ function = "direct_sampling" /\ tuner = "R82xx"
  PROVE  ControlInv'
<1>1. /\ tuner' = tuner /\ dev' = v.dev /\ tun' = v.tun /\ chip' = v.chip
      /\ faults' = IF v.fault = NoFault /\ v.lock THEN faults ELSE faults - 1
      /\ hidden' = IF v.r # 0 THEN "none"
                   ELSE IF v.failed THEN function
                   ELSE IF v.unswitched THEN "repeater" ELSE "none"
  BY DEF Returns
<1>2. /\ Now'.tuner = tuner' /\ Now'.dev = dev' /\ Now'.tun = tun'
      /\ Now'.chip = chip'
  BY DEF Now, World
<1>3. Now' \in Worlds
  <2>1. v.tuner \in Tuners /\ v.dev \in Devs /\ v.tun \in Tuns /\ v.chip \in Chips
    BY DEF Worlds
  <2>2. NoFault \in Faults
    BY DEF NoFault, Faults
  <2> QED
    BY <1>1, <2>1, <2>2 DEF Now, World, Worlds
<1>4. Good(Now)'
  BY <1>1, <1>2
     DEF Good, NoOffset, ClockKnown, Corrects, IfKnown, ClockIsReal, ModeKnown,
         TunerClock
<1>5. Tuned(Now)' /\ Samples(Now)'
  BY <1>1, <1>2
     DEF Tuned, Oscillates, ClockOf, Samples, TunerClock, RtlClock
<1>6. faults' \in 0..MaxFaults
  BY <1>1 DEF ControlInv
<1>7. FailuresAreTold'
  BY <1>1 DEF FailuresAreTold
<1> QED
  BY <1>3, <1>4, <1>5, <1>6, <1>7 DEF ControlInv

\* So does one that nothing disturbs.
LEMMA UndisturbedIs ==
  ASSUME ControlInv, NEW lock \in Locks
  PROVE  Undisturbed(lock) \in Worlds /\ Good(Undisturbed(lock))
<1>1. NoFault \in Faults /\ lock \in BOOLEAN
  BY DEF NoFault, Faults, Locks
<1> QED
  BY <1>1, CallBegins DEF Undisturbed

\* The call w that suffers a fault of the undisturbed call u.
LEMMA CallIs ==
  ASSUME ControlInv, NEW lock \in Locks, NEW u \in Worlds,
         NEW fault \in FaultsOf(u), NEW w, w = World(fault, lock)
  PROVE  /\ w \in Worlds /\ Good(w) /\ Tuned(w) /\ Samples(w)
         /\ w.tuner = tuner /\ ~w.failed
         /\ (w.fault = NoFault /\ w.lock) \/ faults - 1 \in 0..MaxFaults
<1>1. /\ lock \in BOOLEAN /\ fault \in Faults
      /\ (fault = NoFault /\ lock) \/ faults - 1 \in 0..MaxFaults
  BY FaultsAre
<1> QED
  BY <1>1, CallBegins DEF World

LEMMA CenterFreqKeeps == ControlInv /\ SetCenterFreq => ControlInv'
<1> SUFFICES ASSUME ControlInv, NEW lock \in Locks, NEW f \in Freqs,
                    NEW fault \in FaultsOf(CenterFreq(Undisturbed(lock), f)),
                    Returns("center_freq",
                            CenterFreq(World(fault, lock), f))
             PROVE  ControlInv'
  BY DEF SetCenterFreq
<1>1. PICK x : x = Undisturbed(lock)
  OBVIOUS
<1>2. PICK u : u = CenterFreq(x, f)
  OBVIOUS
<1>3. u \in Worlds
  BY <1>1, <1>2, UndisturbedIs, CenterFreqIs DEF SameCall
<1>4. PICK w : w = World(fault, lock)
  OBVIOUS
<1>5. /\ w \in Worlds /\ Good(w) /\ Tuned(w) /\ Samples(w)
      /\ w.tuner = tuner /\ ~w.failed
      /\ (w.fault = NoFault /\ w.lock) \/ faults - 1 \in 0..MaxFaults
  BY <1>1, <1>2, <1>3, <1>4, CallIs
<1>6. PICK v : v = CenterFreq(w, f)
  OBVIOUS
<1>7. Advances(w, v) /\ (w.tuner \notin {"E4000", "FC0012"} => Told(w, v))
  BY <1>5, <1>6, CenterFreqIs, CenterFreqAdvances
<1> QED
  BY <1>4, <1>5, <1>6, <1>7, CallReturns DEF Advances, SameCall, Told

LEMMA SampleRateKeeps == ControlInv /\ SetSampleRate => ControlInv'
<1> SUFFICES ASSUME ControlInv, NEW lock \in Locks, NEW rate \in Rates,
                    NEW fault \in FaultsOf(SampleRate(Undisturbed(lock), rate)),
                    Returns("sample_rate",
                            SampleRate(World(fault, lock), rate))
             PROVE  ControlInv'
  BY DEF SetSampleRate
<1>1. PICK x : x = Undisturbed(lock)
  OBVIOUS
<1>2. PICK u : u = SampleRate(x, rate)
  OBVIOUS
<1>3. u \in Worlds
  BY <1>1, <1>2, UndisturbedIs, SampleRateIs DEF SameCall
<1>4. PICK w : w = World(fault, lock)
  OBVIOUS
<1>5. /\ w \in Worlds /\ Good(w) /\ Tuned(w) /\ Samples(w)
      /\ w.tuner = tuner /\ ~w.failed
      /\ (w.fault = NoFault /\ w.lock) \/ faults - 1 \in 0..MaxFaults
  BY <1>1, <1>2, <1>3, <1>4, CallIs
<1>6. PICK v : v = SampleRate(w, rate)
  OBVIOUS
<1>7. SameCall(w, v) /\ Good(v) /\ Tuned(v) /\ Samples(v)
  BY <1>5, <1>6, SampleRateIs
<1> QED
  BY <1>4, <1>5, <1>6, <1>7, CallReturns DEF Advances, SameCall

LEMMA FreqCorrectionKeeps == ControlInv /\ SetFreqCorrection => ControlInv'
<1> SUFFICES ASSUME ControlInv, NEW lock \in Locks, NEW ppm \in Ppms,
                    NEW fault \in FaultsOf(FreqCorrection(Undisturbed(lock), ppm)),
                    Returns("freq_correction",
                            FreqCorrection(World(fault, lock), ppm))
             PROVE  ControlInv'
  BY DEF SetFreqCorrection
<1>1. PICK x : x = Undisturbed(lock)
  OBVIOUS
<1>2. PICK u : u = FreqCorrection(x, ppm)
  OBVIOUS
<1>3. u \in Worlds
  BY <1>1, <1>2, UndisturbedIs, FreqCorrectionIs DEF Advances, SameCall
<1>4. PICK w : w = World(fault, lock)
  OBVIOUS
<1>5. /\ w \in Worlds /\ Good(w) /\ Tuned(w) /\ Samples(w)
      /\ w.tuner = tuner /\ ~w.failed
      /\ (w.fault = NoFault /\ w.lock) \/ faults - 1 \in 0..MaxFaults
  BY <1>1, <1>2, <1>3, <1>4, CallIs
<1>6. PICK v : v = FreqCorrection(w, ppm)
  OBVIOUS
<1>7. Advances(w, v) /\ (w.tuner \notin {"E4000", "FC0012"} => Told(w, v))
  BY <1>5, <1>6, FreqCorrectionIs
<1> QED
  BY <1>4, <1>5, <1>6, <1>7, CallReturns DEF Advances, SameCall, Told

LEMMA XtalFreqKeeps == ControlInv /\ SetXtalFreq => ControlInv'
<1> SUFFICES ASSUME ControlInv, NEW lock \in Locks, NEW q \in Crystals \X {0} \cup {0} \X Crystals,
                    NEW fault \in FaultsOf(XtalFreq(Undisturbed(lock), q[1], q[2])),
                    Returns("xtal_freq",
                            XtalFreq(World(fault, lock), q[1], q[2]))
             PROVE  ControlInv'
  BY DEF SetXtalFreq
<1>0. /\ q[1] \in Crystals \cup {0} /\ q[2] \in Crystals \cup {0}
      /\ q[1] = 0 \/ q[2] = 0
  OBVIOUS
<1>1. PICK x : x = Undisturbed(lock)
  OBVIOUS
<1>2. PICK u : u = XtalFreq(x, q[1], q[2])
  OBVIOUS
<1>3. u \in Worlds
  BY <1>0, <1>1, <1>2, UndisturbedIs, XtalFreqIs DEF Advances, SameCall
<1>4. PICK w : w = World(fault, lock)
  OBVIOUS
<1>5. /\ w \in Worlds /\ Good(w) /\ Tuned(w) /\ Samples(w)
      /\ w.tuner = tuner /\ ~w.failed
      /\ (w.fault = NoFault /\ w.lock) \/ faults - 1 \in 0..MaxFaults
  BY <1>1, <1>2, <1>3, <1>4, CallIs
<1>6. PICK v : v = XtalFreq(w, q[1], q[2])
  OBVIOUS
<1>7. Advances(w, v)
  BY <1>0, <1>5, <1>6, XtalFreqIs
<1> QED
  BY <1>4, <1>5, <1>6, <1>7, CallReturns DEF Advances, SameCall

LEMMA TunerBandwidthKeeps == ControlInv /\ SetTunerBandwidth => ControlInv'
<1> SUFFICES ASSUME ControlInv, NEW lock \in Locks, NEW bw \in Widths \cup {0},
                    NEW fault \in FaultsOf(TunerBandwidth(Undisturbed(lock), bw)),
                    Returns("tuner_bandwidth",
                            TunerBandwidth(World(fault, lock), bw))
             PROVE  ControlInv'
  BY DEF SetTunerBandwidth
<1>1. PICK x : x = Undisturbed(lock)
  OBVIOUS
<1>2. PICK u : u = TunerBandwidth(x, bw)
  OBVIOUS
<1>3. u \in Worlds
  BY <1>1, <1>2, UndisturbedIs, TunerBandwidthIs DEF Advances, SameCall
<1>4. PICK w : w = World(fault, lock)
  OBVIOUS
<1>5. /\ w \in Worlds /\ Good(w) /\ Tuned(w) /\ Samples(w)
      /\ w.tuner = tuner /\ ~w.failed
      /\ (w.fault = NoFault /\ w.lock) \/ faults - 1 \in 0..MaxFaults
  BY <1>1, <1>2, <1>3, <1>4, CallIs
<1>6. PICK v : v = TunerBandwidth(w, bw)
  OBVIOUS
<1>7. Advances(w, v) /\ (w.tuner \notin {"E4000", "FC0012"} => Told(w, v))
  BY <1>5, <1>6, TunerBandwidthIs
<1> QED
  BY <1>4, <1>5, <1>6, <1>7, CallReturns DEF Advances, SameCall, Told

LEMMA GainModeKeeps == ControlInv /\ SetTunerGainMode => ControlInv'
<1> SUFFICES ASSUME ControlInv, NEW lock \in Locks, NEW mode \in {0, 1},
                    NEW fault \in FaultsOf(GainMode(Undisturbed(lock), mode)),
                    Returns("gain_mode",
                            GainMode(World(fault, lock), mode))
             PROVE  ControlInv'
  BY DEF SetTunerGainMode
<1>1. PICK x : x = Undisturbed(lock)
  OBVIOUS
<1>2. PICK u : u = GainMode(x, mode)
  OBVIOUS
<1>3. u \in Worlds
  BY <1>1, <1>2, UndisturbedIs, GainModeIs DEF Advances, SameCall
<1>4. PICK w : w = World(fault, lock)
  OBVIOUS
<1>5. /\ w \in Worlds /\ Good(w) /\ Tuned(w) /\ Samples(w)
      /\ w.tuner = tuner /\ ~w.failed
      /\ (w.fault = NoFault /\ w.lock) \/ faults - 1 \in 0..MaxFaults
  BY <1>1, <1>2, <1>3, <1>4, CallIs
<1>6. PICK v : v = GainMode(w, mode)
  OBVIOUS
<1>7. Advances(w, v) /\ (w.tuner # "E4000" => Told(w, v))
  BY <1>5, <1>6, GainModeIs
<1> QED
  BY <1>4, <1>5, <1>6, <1>7, CallReturns DEF Advances, SameCall, Told

LEMMA GainKeeps == ControlInv /\ SetTunerGain => ControlInv'
<1> SUFFICES ASSUME ControlInv, NEW lock \in Locks,
                    NEW fault \in FaultsOf(Gain(Undisturbed(lock))),
                    Returns("gain",
                            Gain(World(fault, lock)))
             PROVE  ControlInv'
  BY DEF SetTunerGain
<1>1. PICK x : x = Undisturbed(lock)
  OBVIOUS
<1>2. PICK u : u = Gain(x)
  OBVIOUS
<1>3. u \in Worlds
  BY <1>1, <1>2, UndisturbedIs, GainIs DEF Advances, SameCall
<1>4. PICK w : w = World(fault, lock)
  OBVIOUS
<1>5. /\ w \in Worlds /\ Good(w) /\ Tuned(w) /\ Samples(w)
      /\ w.tuner = tuner /\ ~w.failed
      /\ (w.fault = NoFault /\ w.lock) \/ faults - 1 \in 0..MaxFaults
  BY <1>1, <1>2, <1>3, <1>4, CallIs
<1>6. PICK v : v = Gain(w)
  OBVIOUS
<1>7. Advances(w, v) /\ (w.tuner \notin {"E4000", "FC0012"} => Told(w, v))
  BY <1>5, <1>6, GainIs
<1> QED
  BY <1>4, <1>5, <1>6, <1>7, CallReturns DEF Advances, SameCall, Told

LEMMA DirectSamplingKeeps == ControlInv /\ SetDirectSampling => ControlInv'
<1> SUFFICES ASSUME ControlInv, NEW lock \in Locks, NEW on \in BOOLEAN,
                    NEW fault \in FaultsOf(DirectSampling(Undisturbed(lock), on)),
                    Returns("direct_sampling",
                            DirectSampling(World(fault, lock), on))
             PROVE  ControlInv'
  BY DEF SetDirectSampling
<1>1. PICK x : x = Undisturbed(lock)
  OBVIOUS
<1>2. PICK u : u = DirectSampling(x, on)
  OBVIOUS
<1>3. u \in Worlds
  BY <1>1, <1>2, UndisturbedIs, DirectSamplingIs DEF Advances, SameCall
<1>4. PICK w : w = World(fault, lock)
  OBVIOUS
<1>5. /\ w \in Worlds /\ Good(w) /\ Tuned(w) /\ Samples(w)
      /\ w.tuner = tuner /\ ~w.failed
      /\ (w.fault = NoFault /\ w.lock) \/ faults - 1 \in 0..MaxFaults
  BY <1>1, <1>2, <1>3, <1>4, CallIs
<1>6. PICK v : v = DirectSampling(w, on)
  OBVIOUS
<1>7. Advances(w, v) /\ (w.tuner \notin {"R82xx", "E4000", "FC0012"} => Told(w, v))
  BY <1>5, <1>6, DirectSamplingIs
<1> QED
  BY <1>4, <1>5, <1>6, <1>7, CallReturns DEF Advances, SameCall, Told

LEMMA OffsetTuningKeeps == ControlInv /\ SetOffsetTuning => ControlInv'
<1> SUFFICES ASSUME ControlInv, NEW lock \in Locks, NEW on \in BOOLEAN,
                    NEW fault \in FaultsOf(OffsetTuning(Undisturbed(lock), on)),
                    Returns("offset_tuning",
                            OffsetTuning(World(fault, lock), on))
             PROVE  ControlInv'
  BY DEF SetOffsetTuning
<1>1. PICK x : x = Undisturbed(lock)
  OBVIOUS
<1>2. PICK u : u = OffsetTuning(x, on)
  OBVIOUS
<1>3. u \in Worlds
  BY <1>1, <1>2, UndisturbedIs, OffsetTuningIs DEF Advances, SameCall
<1>4. PICK w : w = World(fault, lock)
  OBVIOUS
<1>5. /\ w \in Worlds /\ Good(w) /\ Tuned(w) /\ Samples(w)
      /\ w.tuner = tuner /\ ~w.failed
      /\ (w.fault = NoFault /\ w.lock) \/ faults - 1 \in 0..MaxFaults
  BY <1>1, <1>2, <1>3, <1>4, CallIs
<1>6. PICK v : v = OffsetTuning(w, on)
  OBVIOUS
<1>7. Advances(w, v) /\ (w.tuner \notin {"E4000", "FC0012", "FC2580"} => Told(w, v))
  BY <1>5, <1>6, OffsetTuningIs
<1> QED
  BY <1>4, <1>5, <1>6, <1>7, CallReturns DEF Advances, SameCall, Told

-----------------------------------------------------------------------------
(* The invariant, and what follows from it.                                 *)

LEMMA InitControlInv == ControlInit => ControlInv
<1> SUFFICES ASSUME ControlInit PROVE ControlInv
  OBVIOUS
<1> PICK x \in Crystals :
       /\ dev = [rate |-> 0, freq |-> 0, bw |-> 0, offs |-> 0, corr |-> 0,
                 rtl_xtal |-> x, tun_xtal |-> x, direct |-> tuner = "none"]
       /\ tun = [int |-> InitIf, mode |-> 0, xtal |-> <<x, 0>>]
       /\ chip = [repeater |-> "idle",
                  if |-> [f |-> IF tuner = "R82xx" THEN InitIf ELSE 0,
                          clk |-> <<x, 0>>],
                  lo |-> Torn, zeroif |-> tuner \notin {"R82xx", "none"},
                  inversion |-> tuner = "R82xx", ratio |-> 0, ppm |-> 0,
                  mode |-> 0, filter |-> 0, init |-> "on"]
  BY DEF ControlInit
<1>1. tuner \in Tuners /\ faults = MaxFaults /\ hidden = "none"
  BY DEF ControlInit
<1>2. Now \in Worlds
  <2>1. dev \in Devs
    BY DEF Devs
  <2>2. tun \in Tuns
    BY DEF Tuns, Clocks
  <2>3. chip \in Chips
    BY DEF Chips, Known, Clocks, InitIf
  <2>4. NoFault \in Faults
    BY DEF NoFault, Faults
  <2> QED
    BY <1>1, <2>1, <2>2, <2>3, <2>4 DEF Now, World, Worlds
<1>3. /\ Now.tuner = tuner /\ Now.dev = dev /\ Now.tun = tun /\ Now.chip = chip
  BY DEF Now, World
<1>4. Good(Now)
  BY <1>3
     DEF Good, NoOffset, ClockKnown, Corrects, IfKnown, ClockIsReal, ModeKnown,
         TunerClock
<1>5. Tuned(Now) /\ Samples(Now)
  BY <1>3 DEF Tuned, Samples
<1>6. faults \in 0..MaxFaults
  BY <1>1, DeviceControlAssumption
<1> QED
  BY <1>1, <1>2, <1>4, <1>5, <1>6 DEF ControlInv, FailuresAreTold

\* Whatever is called, and whichever transfers fail.
LEMMA ControlInvStep == ControlInv /\ [ControlNext]_controlVars => ControlInv'
<1> SUFFICES ASSUME ControlInv, [ControlNext]_controlVars PROVE ControlInv'
  OBVIOUS
<1>1. CASE ControlNext
  BY <1>1, CenterFreqKeeps, SampleRateKeeps, FreqCorrectionKeeps, XtalFreqKeeps,
     TunerBandwidthKeeps, GainModeKeeps, GainKeeps, DirectSamplingKeeps,
     OffsetTuningKeeps DEF ControlNext
<1>2. CASE UNCHANGED controlVars
  <2>1. Now' = Now
    BY <1>2 DEF Now, World, controlVars
  <2>2. (Good(Now) => Good(Now)') /\ (Tuned(Now) => Tuned(Now)')
    BY <2>1
       DEF Good, NoOffset, ClockKnown, Corrects, IfKnown, ClockIsReal,
           ModeKnown, Tuned, Oscillates, ClockOf
  <2> QED
    BY <1>2, <2>1, <2>2 DEF ControlInv, Samples, FailuresAreTold, controlVars
<1> QED
  BY <1>1, <1>2

LEMMA ControlInvTypes == ControlInv => ControlTypeOK
<1> SUFFICES ASSUME ControlInv PROVE ControlTypeOK
  OBVIOUS
<1>1. /\ Now.tuner = tuner /\ Now.dev = dev /\ Now.tun = tun /\ Now.chip = chip
  BY DEF Now, World
<1>2. tuner \in Tuners /\ dev \in Devs /\ tun \in Tuns /\ chip \in Chips
  BY <1>1 DEF ControlInv, Worlds
<1>3. \/ chip.lo \in Known(Nat) \cup {Torn, Unlocked}
      \/ tuner = "FC2580" /\ chip.lo.clk = OwnClock
  <2>1. chip.lo \in [f : Nat, clk : Clocks \cup {OwnClock}] \cup {Torn, Unlocked}
    BY <1>2 DEF Chips
  <2>2. ClockIsReal(Now)
    BY DEF ControlInv, Good
  <2> QED
    BY <1>1, <2>1, <2>2 DEF ClockIsReal, Known
<1> QED
  BY <1>2, <1>3 DEF ControlTypeOK, ControlInv, Devs, Tuns, Chips

\* In direct sampling the intermediate frequency is received, otherwise the
\* oscillator and the intermediate frequency add up, or an excuse is left.
LEMMA ControlInvHears == ControlInv => HearsWhatItSays
<1> SUFFICES ASSUME ControlInv, dev.freq # 0 PROVE HearsWhatItSays
  BY DEF HearsWhatItSays, FrequencyIsKnown, ClocksAreCurrent
<1>1. /\ Now.tuner = tuner /\ Now.dev = dev /\ Now.tun = tun /\ Now.chip = chip
  BY DEF Now, World
<1>2. dev \in Devs /\ tun \in Tuns /\ chip \in Chips
  BY <1>1 DEF ControlInv, Worlds
<1>3. /\ dev.freq \in Nat \ {0} /\ dev.offs \in Nat /\ dev.direct \in BOOLEAN
      /\ tun.int \in Nat
  BY <1>2, DeviceControlAssumption DEF Devs, Tuns, InitIf
<1>4. CASE dev.direct
  <2>1. chip.if = Torn \/ chip.if = [f |-> dev.freq, clk |-> RtlClock(dev)]
    BY <1>1, <1>4 DEF ControlInv, Tuned
  <2>2. FrequencyIsKnown
    BY <1>4, <2>1 DEF FrequencyIsKnown, Received, Direct
  <2>3. ClocksAreCurrent
    BY <1>1, <1>4, <2>1
       DEF ControlInv, Good, Corrects, Samples, ClocksAreCurrent, Direct
  <2> QED
    BY <2>2, <2>3 DEF HearsWhatItSays
<1>5. CASE ~dev.direct
  <2>1. Oscillates(Now)
    BY <1>1, <1>5 DEF ControlInv, Tuned
  <2>2. \/ chip.if = Torn
        \/ tuner = "R82xx" /\ (chip.init = Torn \/ chip.if.f = tun.int)
        \/ tuner # "R82xx" /\ (dev.offs # 0 \/ chip.if.f = 0)
    BY <1>1, <1>5 DEF ControlInv, Good, IfKnown
  <2>3. FrequencyIsKnown
    <3> SUFFICES ASSUME chip.if # Torn, chip.init # Torn, ~OffsetForgotten,
                        ~(~Locked /\ tuner = "E4000"), chip.lo # Unlocked,
                        dev.freq > dev.offs
                 PROVE  Locked /\ Received = dev.freq
      BY <1>3, <1>5 DEF FrequencyIsKnown, Direct, Locked
    <3>1. /\ chip.lo \notin {Torn, Unlocked}
          /\ chip.lo.f = IF tuner = "R82xx" THEN dev.freq + tun.int
                         ELSE dev.freq - dev.offs
      BY <1>1, <1>3, <2>1 DEF Oscillates, Locked
    <3>2. CASE tuner = "R82xx"
      <4>1. chip.if.f = tun.int
        BY <2>2, <3>2
      <4> QED
        BY <1>3, <1>5, <3>1, <3>2, <4>1 DEF Received, Direct, LowIf, Locked
    <3>3. CASE tuner # "R82xx"
      <4>1. chip.if.f = dev.offs
        BY <2>2, <3>3 DEF OffsetForgotten
      <4> QED
        BY <1>3, <1>5, <3>1, <3>3, <4>1 DEF Received, Direct, LowIf, Locked
    <3> QED
      BY <3>2, <3>3
  <2>4. ClocksAreCurrent
    BY <1>1, <1>5, <2>1
       DEF ControlInv, Good, Corrects, Samples, Oscillates, ClockOf,
           ClocksAreCurrent, Direct, Locked
  <2> QED
    BY <2>3, <2>4 DEF HearsWhatItSays
<1> QED
  BY <1>3, <1>4, <1>5

LEMMA ControlInvMode == ControlInv => GainModeKnown
<1>1. Now.tuner = tuner /\ Now.tun = tun /\ Now.chip = chip
  BY DEF Now, World
<1> QED
  BY <1>1 DEF ControlInv, Good, ModeKnown, GainModeKnown

\* The invariant holds of every state that calls reach.
THEOREM ControlInvariant == ControlSpec => []ControlInv
BY InitControlInv, ControlInvStep, PTL DEF ControlSpec

\* Every variable keeps its type.
THEOREM ControlTyped == ControlSpec => []ControlTypeOK
BY ControlInvariant, ControlInvTypes, PTL

\* rtlsdr_get_center_freq tells where the receiver is, and by the clock in
\* force.
THEOREM ControlHearsWhatItSays == ControlSpec => []HearsWhatItSays
BY ControlInvariant, ControlInvHears, PTL

\* The gain is never manual while the driver believes it automatic.
THEOREM ControlGainModeKnown == ControlSpec => []GainModeKnown
BY ControlInvariant, ControlInvMode, PTL

\* A failure is hidden by those functions only that are named, but for that of
\* a switch of the repeater.
THEOREM ControlFailuresAreTold == ControlSpec => []FailuresAreTold
<1>1. ControlInv => FailuresAreTold
  BY DEF ControlInv
<1> QED
  BY <1>1, ControlInvariant, PTL

=============================================================================
