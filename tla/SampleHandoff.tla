--------------------------- MODULE SampleHandoff ----------------------------
(***************************************************************************)
(* How a block of samples gets from rtlsdr_callback, on the thread that    *)
(* reads from the dongle, to demod_thread_fn: through the one buffer       *)
(* both.buf under the lock both.rw, announced by the condition ready.      *)
(*                                                                         *)
(* The condition has no predicate: a signal nobody waits for is lost, and  *)
(* a demodulator that wakes up takes whatever is in the buffer.  Taking a  *)
(* block downsamples it in place, so that a block taken twice is garbage   *)
(* the second time.                                                        *)
(*                                                                         *)
(* A block is its number, 0 is what malloc left.  The buffer has two       *)
(* halves, so that a reader in the middle of a write would be seen.        *)
(***************************************************************************)
EXTENDS Naturals, Sequences

CONSTANTS
  MaxBlocks,   \* bound on the blocks that arrive
  MaxSpurious  \* bound on wake-ups without a signal

ASSUME HandoffAssumption == MaxBlocks \in Nat /\ MaxSpurious \in Nat

Halves == {1, 2}
Blocks == 0..MaxBlocks

VARIABLES
  arrived,   \* number of the newest block
  buf,       \* both.buf: the block each half is from
  cooked,    \* how often each half was downsampled since it was written
  rw,        \* who holds both.rw
  cpc,       \* control state of rtlsdr_callback
  dpc,       \* control state of demod_thread_fn
  taken,     \* what the demodulator has copied of the buffer
  decoded,   \* what it has passed to the decoder
  doExit,    \* do_exit
  mpc,       \* rtl_ais_main: "reading", "ended" after its last signal
  spurious,  \* wake-ups without a signal still to come
  early,     \* blocks taken between the callback's unlock and its signal
  hurried    \* a block arrived when the demodulator was not waiting

bufVars  == <<arrived, buf, cooked>>
outVars  == <<taken, decoded>>
restVars == <<doExit, mpc, spurious, early, hurried>>
vars == <<bufVars, rw, cpc, dpc, outVars, restVars>>

Init ==
  /\ arrived = 0
  /\ buf = [h \in Halves |-> 0]
  /\ cooked = [h \in Halves |-> 0]
  /\ rw = "free"
  /\ cpc = "idle"
  /\ dpc = "test"
  /\ taken = <<>>
  /\ decoded = <<>>
  /\ doExit = FALSE
  /\ mpc = "reading"
  /\ spurious = MaxSpurious
  /\ early = {}
  /\ hurried = FALSE

-----------------------------------------------------------------------------
(* rtlsdr_callback.                                                        *)

\* pthread_cond_signal wakes the demodulator if it waits.
Signal == dpc' = IF dpc = "wait" THEN "woken" ELSE dpc

BlockArrives ==
  /\ mpc = "reading"
  /\ cpc = "idle"
  /\ arrived < MaxBlocks
  /\ arrived' = arrived + 1
  /\ cpc' = IF doExit THEN "idle" ELSE "lock"
  /\ hurried' = (hurried \/ dpc # "wait")
  /\ UNCHANGED <<outVars, buf, cooked, rw, dpc, doExit, mpc, spurious, early>>

\* (variant) The buffer is filled without the lock.
FillUnlocked ==
  /\ cpc = "lock"
  /\ cpc' = "first"
  /\ UNCHANGED <<restVars, bufVars, outVars, rw, dpc>>

LockToFill ==
  /\ cpc = "lock"
  /\ rw = "free"
  /\ rw' = "callback"
  /\ cpc' = "first"
  /\ UNCHANGED <<restVars, bufVars, outVars, dpc>>

\* (variant) The block is taken for the one after it.
FillAhead ==
  /\ cpc \in {"first", "second"}
  /\ LET h == IF cpc = "first" THEN 1 ELSE 2
     IN /\ buf' = [buf EXCEPT ![h] = arrived + 1]
        /\ cooked' = [cooked EXCEPT ![h] = 0]
  /\ cpc' = IF cpc = "first" THEN "second" ELSE "unlock"
  /\ UNCHANGED <<restVars, outVars, arrived, rw, dpc>>

Fill ==
  /\ cpc \in {"first", "second"}
  /\ LET h == IF cpc = "first" THEN 1 ELSE 2
     IN /\ buf' = [buf EXCEPT ![h] = arrived]
        /\ cooked' = [cooked EXCEPT ![h] = 0]
  /\ cpc' = IF cpc = "first" THEN "second" ELSE "unlock"
  /\ UNCHANGED <<restVars, outVars, arrived, rw, dpc>>

UnlockFilled ==
  /\ cpc = "unlock"
  /\ rw' = "free"
  /\ cpc' = "signal"
  /\ UNCHANGED <<restVars, bufVars, outVars, dpc>>

\* (variant) The signal is forgotten.
NoSignal ==
  /\ cpc = "signal"
  /\ cpc' = "idle"
  /\ UNCHANGED <<restVars, bufVars, outVars, rw, dpc>>

SignalFilled ==
  /\ cpc = "signal"
  /\ cpc' = "idle"
  /\ Signal
  /\ UNCHANGED <<restVars, bufVars, outVars, rw>>

-----------------------------------------------------------------------------
(* demod_thread_fn.                                                        *)

Test ==
  /\ dpc = "test"
  /\ dpc' = IF doExit THEN "ended" ELSE "enter"
  /\ UNCHANGED <<restVars, bufVars, outVars, rw, cpc>>

\* safe_cond_wait: ready_m is only ever held for this and for the signal.
Wait ==
  /\ dpc = "enter"
  /\ dpc' = "wait"
  /\ UNCHANGED <<restVars, bufVars, outVars, rw, cpc>>

SpuriousWakeup ==
  /\ dpc = "wait"
  /\ spurious > 0
  /\ spurious' = spurious - 1
  /\ dpc' = "woken"
  /\ UNCHANGED <<bufVars, outVars, rw, cpc, doExit, mpc, early, hurried>>

LockToTake ==
  /\ dpc = "woken"
  /\ rw = "free"
  /\ rw' = "demod"
  /\ taken' = <<>>
  /\ dpc' = "take"
  /\ early' = IF cpc = "signal" THEN early \cup {arrived} ELSE early
  /\ UNCHANGED <<bufVars, cpc, decoded, doExit, mpc, spurious, hurried>>

\* downsample(&both) and the copy to left and right, half by half.
Take ==
  /\ dpc = "take"
  /\ Len(taken) < 2
  /\ LET h == Len(taken) + 1
     IN /\ taken' = Append(taken, [block |-> buf[h], cooked |-> cooked[h]])
        /\ cooked' = [cooked EXCEPT ![h] = @ + 1]
  /\ UNCHANGED <<restVars, arrived, buf, rw, cpc, dpc, decoded>>

UnlockTaken ==
  /\ dpc = "take"
  /\ Len(taken) = 2
  /\ rw' = "free"
  /\ dpc' = "decode"
  /\ UNCHANGED <<restVars, bufVars, outVars, cpc>>

\* Rotation, downsampling and demodulation of the copies; run_rtlais_decoder.
Decode ==
  /\ dpc = "decode"
  /\ decoded' = Append(decoded, taken)
  /\ dpc' = "test"
  /\ UNCHANGED <<restVars, bufVars, rw, cpc, taken>>

-----------------------------------------------------------------------------
(* rtl_ais_main and sighandler.                                            *)

Stop ==
  /\ ~doExit
  /\ doExit' = TRUE
  /\ UNCHANGED <<bufVars, outVars, rw, cpc, dpc, mpc, spurious, early,
                 hurried>>

\* rtlsdr_read_async has returned, because of a stop or not: the last signal.
LastSignal ==
  /\ mpc = "reading"
  /\ cpc = "idle"
  /\ mpc' = "ended"
  /\ Signal
  /\ UNCHANGED <<bufVars, outVars, rw, cpc, doExit, spurious, early, hurried>>

\* No block comes any more: the demodulator has ended, or waits for ever.
Quiet ==
  /\ mpc = "ended" \/ arrived = MaxBlocks
  /\ cpc = "idle" /\ dpc \in {"wait", "ended"}
  /\ UNCHANGED vars

CallbackStep == LockToFill \/ Fill \/ UnlockFilled \/ SignalFilled
DemodStep == Test \/ Wait \/ LockToTake \/ Take \/ UnlockTaken \/ Decode

Next ==
  \/ BlockArrives \/ CallbackStep
  \/ DemodStep \/ SpuriousWakeup
  \/ Stop \/ LastSignal
  \/ Quiet

(* Both threads run when they can; nothing is assumed of the dongle. *)
Spec == Init /\ [][Next]_vars
FairSpec == Spec /\ WF_vars(CallbackStep) /\ WF_vars(DemodStep)
-----------------------------------------------------------------------------
(* Properties.                                                             *)

Taken == [block : Blocks, cooked : Nat]

\* Every variable keeps its type.
TypeOK ==
  /\ arrived \in Blocks
  /\ buf \in [Halves -> Blocks]
  /\ cooked \in [Halves -> Nat]
  /\ rw \in {"free", "callback", "demod"}
  /\ cpc \in {"idle", "lock", "first", "second", "unlock", "signal"}
  /\ dpc \in {"test", "enter", "wait", "woken", "take", "decode", "ended"}
  /\ taken \in Seq(Taken) /\ Len(taken) <= 2
  /\ decoded \in Seq(Seq(Taken))
  /\ doExit \in BOOLEAN
  /\ mpc \in {"reading", "ended"}
  /\ spurious \in 0..MaxSpurious
  /\ early \subseteq Blocks
  /\ hurried \in BOOLEAN

\* The decoder gets whole blocks, never parts of two, each no older than the one
\* before.  Stale input, a block that was downsampled before or a buffer that
\* was never filled, reaches it for one of three reasons only: a wake-up without
\* a signal, the last signal of rtl_ais_main, or a block that was taken before
\* its own signal was sent, which then wakes the demodulator once more.
InOrder ==
  \A i \in 1..Len(decoded) :
    LET t == decoded[i][1]
    IN /\ t = decoded[i][2]
       /\ i > 1 => decoded[i - 1][1].block <= t.block
       /\ t.cooked > 0 \/ t.block = 0 =>
            \/ spurious < MaxSpurious
            \/ mpc = "ended"
            \/ t.block \in early

\* Every block found the demodulator waiting, and it woke up for blocks only.
Calm == ~hurried /\ spurious = MaxSpurious

\* As long as the dongle leaves the demodulator the time to wait again, every
\* block that was not dropped because of a stop is decoded, and just once.
InStep ==
  Calm /\ mpc = "reading" =>
    \A i \in 1..Len(decoded) :
      decoded[i] = [h \in Halves |-> [block |-> i, cooked |-> 0]]

\* However the two threads interleave, the decoder gets whole blocks in order,
\* and, if the dongle leaves it the time, just those that came.
WholeBlocksInOrder == InOrder /\ InStep

\* In calm, a block that is in the buffer is decoded, unless the session is being
\* stopped.
BlockGetsDecoded ==
  \A n \in 1..MaxBlocks :
    (cpc # "idle" /\ arrived = n) ~>
      \/ ~Calm \/ doExit
      \/ \E i \in 1..Len(decoded) : decoded[i][1].block = n
=============================================================================
