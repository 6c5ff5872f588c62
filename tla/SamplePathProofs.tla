-------------------------- MODULE SamplePathProofs --------------------------
(***************************************************************************)
(* The way of the samples.  SampleHandoff keeps its types and hands whole  *)
(* blocks over in order, for any number of blocks and of wake-ups without  *)
(* a signal.  SignalPath computes rates and lengths that fit, filters and  *)
(* turns the blocks as if they were one signal, and tells the decoder the  *)
(* turn from each sample to the next, for any frequencies, rates, length   *)
(* and number of blocks.                                                   *)
(*                                                                         *)
(* The model's sums, joined blocks and resampler are recursive functions.  *)
(* What they compute is shown by induction over numbers, in the form of a  *)
(* least counterexample (LeastOf), and over the paths of a function that   *)
(* goes on step by step (StepByStep, OnlyOne).                             *)
(***************************************************************************)
EXTENDS SampleHandoff, SignalPath, SequenceTheorems, WellFoundedInduction, TLAPS

LockIsHeld ==
  /\ cpc \in {"first", "second", "unlock"} => rw = "callback"
  /\ dpc = "take" => rw = "demod"

\* No block in the buffer is newer than the newest, which is there but while it
\* is being filled in or was dropped.
BufferIsCurrent ==
  /\ buf[2] <= buf[1] /\ buf[1] <= arrived
  /\ cpc # "second" => buf[1] = buf[2]
  /\ cpc # "idle" => arrived > 0
  /\ cpc = "second" => buf[1] = arrived /\ cooked[1] = 0
  /\ cpc = "unlock" => buf[1] = arrived /\ cooked[1] = 0 /\ cooked[2] = 0
  /\ cpc = "signal" => buf[1] = arrived
  /\ cpc = "idle" /\ ~doExit => buf[1] = arrived

\* The halves of the buffer were downsampled equally often, but for the one that
\* is filled or taken next.
HalvesAgree ==
  /\ cpc # "second" /\ dpc # "take" => cooked[1] = cooked[2]
  /\ dpc = "take" =>
       /\ Len(taken) = 1 => cooked[1] = cooked[2] + 1
       /\ Len(taken) # 1 => cooked[1] = cooked[2]

\* What the demodulator has taken.
TakenIsWhole ==
  /\ dpc = "take" =>
       /\ Len(taken) = 1 =>
            taken[1] = [block |-> buf[1], cooked |-> cooked[2]]
       /\ Len(taken) = 2 => taken[1] = taken[2] /\ taken[1].block = buf[1]
  /\ dpc = "decode" =>
       Len(taken) = 2 /\ taken[1] = taken[2] /\ taken[1].block <= buf[2]

\* The decoder has got whole blocks, each no older than the one before, and
\* none newer than what the demodulator has or will find.
DecodedInOrder ==
  \A i \in 1..Len(decoded) :
    /\ decoded[i][1] = decoded[i][2]
    /\ i > 1 => decoded[i - 1][1].block <= decoded[i][1].block
    /\ decoded[i][1].block <= buf[2]
    /\ dpc = "decode" => decoded[i][1].block <= taken[1].block

\* The reasons for stale input that do not name a block.
Disturbed == spurious < MaxSpurious \/ mpc = "ended"

Excused(block, times) ==
  times > 0 \/ block = 0 => Disturbed \/ block \in early

\* Whoever woke up finds something new, or there is a reason.
StaleIsExcused ==
  /\ dpc = "take" /\ cpc = "signal" => Disturbed \/ arrived \in early
  /\ cpc = "signal" =>
       \A h \in Halves : Excused(buf[h], cooked[h])
  /\ dpc = "woken" => \A h \in Halves : Excused(buf[h], cooked[h])
  /\ dpc = "take" =>
       \A h \in Halves : h > Len(taken) => Excused(buf[h], cooked[h])
  /\ dpc \in {"take", "decode"} =>
       \A h \in 1..Len(taken) : Excused(taken[h].block, taken[h].cooked)
  /\ \A i \in 1..Len(decoded) :
       Excused(decoded[i][1].block, decoded[i][1].cooked)

Fresh(n) == [block |-> n, cooked |-> 0]

\* In calm the demodulator keeps step with the blocks.
KeepsStep ==
  Calm /\ mpc = "reading" =>
    /\ \A i \in 1..Len(decoded) :
         decoded[i][1] = Fresh(i) /\ decoded[i][2] = Fresh(i)
    /\ cpc # "idle" => dpc = "wait" /\ Len(decoded) = arrived - 1
    /\ dpc \in {"woken", "take", "decode"} =>
         cpc = "idle" /\ Len(decoded) + 1 = buf[1]
    /\ cpc = "idle" /\ dpc \in {"test", "enter", "wait", "ended"} /\ ~doExit =>
         Len(decoded) = arrived
    /\ cpc = "signal" \/ dpc = "woken" => cooked[1] = 0
    /\ dpc = "take" /\ Len(taken) = 0 => cooked[1] = 0
    /\ dpc \in {"take", "decode"} =>
         \A h \in 1..Len(taken) : taken[h] = Fresh(Len(decoded) + 1)

\* What the decoder gets are pairs.
Pairs == \A i \in 1..Len(decoded) : Len(decoded[i]) = 2

\* The inductive invariant.
IInv ==
  /\ TypeOK
  /\ LockIsHeld /\ BufferIsCurrent /\ HalvesAgree
  /\ TakenIsWhole /\ DecodedInOrder /\ StaleIsExcused
  /\ KeepsStep /\ Pairs

-----------------------------------------------------------------------------
(* Proofs.                                                                 *)

(* The steps, by what they are about. *)
ArriveStep == BlockArrives \/ LockToFill \/ UnlockFilled \/ SignalFilled

WakeStep == Test \/ Wait \/ SpuriousWakeup \/ LockToTake

WorldStep == Stop \/ LastSignal \/ UNCHANGED vars

\* Every step of the specification is one of these.
LEMMA Steps ==
  [Next]_vars =>
    ArriveStep \/ Fill \/ WakeStep \/ Take \/ UnlockTaken \/ Decode \/ WorldStep
BY DEF Next, CallbackStep, DemodStep, Quiet, ArriveStep, WakeStep, WorldStep

\* What Fill does, half by half.
LEMMA FillFacts ==
  ASSUME TypeOK, Fill
  PROVE  /\ cpc = "first" => /\ buf'[1] = arrived /\ buf'[2] = buf[2]
                             /\ cooked'[1] = 0 /\ cooked'[2] = cooked[2]
                             /\ cpc' = "second"
         /\ cpc # "first" => /\ cpc = "second" /\ cpc' = "unlock"
                             /\ buf'[2] = arrived /\ buf'[1] = buf[1]
                             /\ cooked'[2] = 0 /\ cooked'[1] = cooked[1]
         /\ UNCHANGED <<restVars, outVars, arrived, rw, dpc>>
BY DEF Fill, TypeOK, Halves

\* (For the provers.)  What is less than two is none or one.
LEMMA SmallLengths == \A n \in Nat : n < 2 => n \in {0, 1}
OBVIOUS

\* What Take does, half by half.
LEMMA TakeFacts ==
  ASSUME TypeOK, Take
  PROVE  /\ Len(taken) \in {0, 1} /\ Len(taken') = Len(taken) + 1
         /\ Len(taken) = 0 =>
              /\ taken'[1] = [block |-> buf[1], cooked |-> cooked[1]]
              /\ cooked'[1] = cooked[1] + 1 /\ cooked'[2] = cooked[2]
         /\ Len(taken) = 1 =>
              /\ taken'[1] = taken[1]
              /\ taken'[2] = [block |-> buf[2], cooked |-> cooked[2]]
              /\ cooked'[1] = cooked[1] /\ cooked'[2] = cooked[2] + 1
         /\ dpc = "take"
         /\ UNCHANGED <<restVars, arrived, buf, rw, cpc, dpc, decoded>>
<1> USE DEF TypeOK, Halves
<1>0. Len(taken) \in {0, 1}
  <2>1. Len(taken) \in Nat /\ Len(taken) < 2
    BY DEF Take
  <2> QED
    BY <2>1, SmallLengths
<1>1. dpc = "take" /\ UNCHANGED <<restVars, arrived, buf, rw, cpc, dpc, decoded>>
  BY DEF Take
<1>2. taken' = Append(taken, [block |-> buf[Len(taken) + 1],
                              cooked |-> cooked[Len(taken) + 1]])
  BY DEF Take
<1>3. cooked' = [cooked EXCEPT ![Len(taken) + 1] =
                   cooked[Len(taken) + 1] + 1]
  BY DEF Take
<1>4. CASE Len(taken) = 0
  BY <1>0, <1>1, <1>2, <1>3, <1>4
<1>5. CASE Len(taken) = 1
  BY <1>0, <1>1, <1>2, <1>3, <1>5
<1> QED
  BY <1>0, <1>1, <1>4, <1>5

\* What is compared are numbers.
LEMMA Numbers ==
  ASSUME IInv
  PROVE  /\ arrived \in Nat
         /\ \A h \in Halves : buf[h] \in Nat /\ cooked[h] \in Nat
         /\ Len(taken) \in Nat /\ Len(decoded) \in Nat
         /\ \A h \in 1..Len(taken) :
              taken[h].block \in Nat /\ taken[h].cooked \in Nat
         /\ \A i \in 1..Len(decoded) : decoded[i][1].block \in Nat
<1> USE DEF IInv, TypeOK, Blocks
<1>1. \A h \in 1..Len(taken) : taken[h] \in Taken
  OBVIOUS
<1>2. \A i \in 1..Len(decoded) : decoded[i][1] \in Taken
  BY DEF Pairs
<1> QED
  BY <1>1, <1>2 DEF Taken

\* What Decode does to the sequence of what was decoded.
LEMMA DecodeFacts ==
  ASSUME TypeOK, Decode
  PROVE  /\ Len(decoded') = Len(decoded) + 1
         /\ decoded'[Len(decoded) + 1] = taken
         /\ \A i \in 1..Len(decoded) : decoded'[i] = decoded[i]
         /\ dpc = "decode" /\ dpc' = "test"
         /\ UNCHANGED <<restVars, bufVars, rw, cpc, taken>>
BY DEF Decode, TypeOK

\* Every step keeps the types.
LEMMA TypeStep == TypeOK /\ [Next]_vars => TypeOK'
<1> SUFFICES ASSUME TypeOK, [Next]_vars PROVE TypeOK'
  OBVIOUS
<1> USE HandoffAssumption
<1> USE DEF TypeOK, Taken, Blocks, bufVars, outVars,
        restVars, Halves
<1>1. CASE ArriveStep
  <2>1. CASE BlockArrives
    BY <2>1 DEF BlockArrives
  <2>2. CASE LockToFill
    BY <2>2 DEF LockToFill
  <2>3. CASE UnlockFilled
    BY <2>3 DEF UnlockFilled
  <2>4. CASE SignalFilled
    BY <2>4 DEF SignalFilled, Signal
  <2> QED
    BY <1>1, <2>1, <2>2, <2>3, <2>4 DEF ArriveStep
<1>2. CASE Fill
  BY <1>2 DEF Fill
<1>3. CASE WakeStep
  <2>1. CASE Test
    BY <2>1 DEF Test
  <2>2. CASE Wait
    BY <2>2 DEF Wait
  <2>3. CASE SpuriousWakeup
    BY <2>3 DEF SpuriousWakeup
  <2>4. CASE LockToTake
    BY <2>4 DEF LockToTake
  <2> QED
    BY <1>3, <2>1, <2>2, <2>3, <2>4 DEF WakeStep
<1>4. CASE Take
  BY <1>4 DEF Take
<1>5. CASE UnlockTaken
  BY <1>5 DEF UnlockTaken
<1>6. CASE Decode
  BY <1>6 DEF Decode
<1>7. CASE WorldStep
  <2>1. CASE Stop
    BY <2>1 DEF Stop
  <2>2. CASE LastSignal
    BY <2>2 DEF LastSignal, Signal
  <2>3. CASE UNCHANGED vars
    BY <2>3 DEF vars
  <2> QED
    BY <1>7, <2>1, <2>2, <2>3 DEF WorldStep
<1> QED
  BY <1>1, <1>2, <1>3, <1>4, <1>5, <1>6, <1>7, Steps

\* Every step keeps what the decoder gets in pairs.
LEMMA PairsStep == IInv /\ [Next]_vars => Pairs'
<1> SUFFICES ASSUME IInv, [Next]_vars PROVE Pairs'
  OBVIOUS
<1>0. Pairs
  BY DEF IInv
<1>7. ASSUME decoded' = decoded PROVE Pairs'
  BY <1>0, <1>7 DEF Pairs
<1>8. ASSUME Len(decoded) \in Nat, Len(decoded') = Len(decoded) + 1,
             decoded'[Len(decoded) + 1] = taken, Len(taken) = 2,
             \A i \in 1..Len(decoded) : decoded'[i] = decoded[i]
      PROVE  Pairs'
  BY <1>0, <1>8 DEF Pairs
<1>9. CASE WorldStep
  <2>1. CASE Stop
    BY <1>7, <2>1 DEF Stop, outVars
  <2>2. CASE LastSignal
    BY <1>7, <2>2 DEF LastSignal, outVars
  <2>3. CASE UNCHANGED vars
    BY <1>7, <2>3 DEF vars, outVars
  <2> QED
    BY <1>9, <2>1, <2>2, <2>3 DEF WorldStep
<1> USE DEF IInv, TypeOK, Taken, Pairs, TakenIsWhole, bufVars, outVars,
        restVars, Halves
<1>1. CASE ArriveStep
  BY <1>1 DEF ArriveStep, BlockArrives, LockToFill, UnlockFilled,
     SignalFilled, Signal
<1>2. CASE Fill
  BY <1>2, FillFacts
<1>3. CASE WakeStep
  BY <1>3 DEF WakeStep, Test, Wait, SpuriousWakeup, LockToTake
<1>4. CASE Take
  BY <1>4, TakeFacts
<1>5. CASE UnlockTaken
  BY <1>5 DEF UnlockTaken
<1>6. CASE Decode
  <2>1. /\ Len(decoded') = Len(decoded) + 1 /\ Len(decoded) \in Nat
        /\ decoded'[Len(decoded) + 1] = taken
        /\ \A i \in 1..Len(decoded) : decoded'[i] = decoded[i]
    BY <1>6, DecodeFacts
  <2>2. Len(taken) = 2
    BY <1>6 DEF Decode
  <2> QED
    BY <1>8, <2>1, <2>2
<1> QED
  BY <1>1, <1>2, <1>3, <1>4, <1>5, <1>6, <1>9, Steps

\* Every step leaves the lock to whoever holds it.
LEMMA LockStep == IInv /\ [Next]_vars => LockIsHeld'
<1> SUFFICES ASSUME IInv, [Next]_vars PROVE LockIsHeld'
  OBVIOUS
<1> USE DEF IInv, TypeOK, LockIsHeld, bufVars, outVars,
        restVars, Halves
<1>1. CASE ArriveStep
  BY <1>1 DEF ArriveStep, BlockArrives, LockToFill, UnlockFilled,
     SignalFilled, Signal
<1>2. CASE Fill
  BY <1>2, FillFacts
<1>3. CASE WakeStep
  BY <1>3 DEF WakeStep, Test, Wait, SpuriousWakeup, LockToTake
<1>4. CASE Take
  BY <1>4, TakeFacts
<1>5. CASE UnlockTaken
  BY <1>5 DEF UnlockTaken
<1>6. CASE Decode
  BY <1>6, DecodeFacts
<1>7. CASE WorldStep
  <2>1. CASE Stop
    BY <2>1 DEF Stop
  <2>2. CASE LastSignal
    BY <2>2 DEF LastSignal, Signal
  <2>3. CASE UNCHANGED vars
    BY <2>3 DEF vars
  <2> QED
    BY <1>7, <2>1, <2>2, <2>3 DEF WorldStep
<1> QED
  BY <1>1, <1>2, <1>3, <1>4, <1>5, <1>6, <1>7, Steps

\* Every step keeps the buffer current.
LEMMA BufferStep == IInv /\ [Next]_vars => BufferIsCurrent'
<1> SUFFICES ASSUME IInv, [Next]_vars PROVE BufferIsCurrent'
  OBVIOUS
<1> USE DEF IInv, TypeOK, Blocks, LockIsHeld, BufferIsCurrent, bufVars,
        outVars, restVars, Halves
<1>1. CASE ArriveStep
  BY <1>1 DEF ArriveStep, BlockArrives, LockToFill, UnlockFilled,
     SignalFilled, Signal
<1>2. CASE Fill
  BY <1>2, FillFacts
<1>3. CASE WakeStep
  BY <1>3 DEF WakeStep, Test, Wait, SpuriousWakeup, LockToTake
<1>4. CASE Take
  BY <1>4, TakeFacts
<1>5. CASE UnlockTaken
  BY <1>5 DEF UnlockTaken
<1>6. CASE Decode
  BY <1>6, DecodeFacts
<1>7. CASE WorldStep
  <2>1. CASE Stop
    BY <2>1 DEF Stop
  <2>2. CASE LastSignal
    BY <2>2 DEF LastSignal, Signal
  <2>3. CASE UNCHANGED vars
    BY <2>3 DEF vars
  <2> QED
    BY <1>7, <2>1, <2>2, <2>3 DEF WorldStep
<1> QED
  BY <1>1, <1>2, <1>3, <1>4, <1>5, <1>6, <1>7, Steps

\* Every step keeps the halves alike.
LEMMA HalvesStep == IInv /\ [Next]_vars => HalvesAgree'
<1> SUFFICES ASSUME IInv, [Next]_vars PROVE HalvesAgree'
  OBVIOUS
<1>0. TypeOK
  BY DEF IInv
<1> USE DEF IInv, TypeOK, LockIsHeld, BufferIsCurrent, HalvesAgree, bufVars,
        outVars, restVars, Halves
<1>1. CASE ArriveStep
  BY <1>1 DEF ArriveStep, BlockArrives, LockToFill, UnlockFilled,
     SignalFilled, Signal
<1>2. CASE Fill
  BY <1>0, <1>2, FillFacts
<1>3. CASE WakeStep
  <2>1. CASE Test
    BY <2>1 DEF Test
  <2>2. CASE Wait
    BY <2>2 DEF Wait
  <2>3. CASE SpuriousWakeup
    BY <2>3 DEF SpuriousWakeup
  <2>4. CASE LockToTake
    BY <2>4 DEF LockToTake
  <2> QED
    BY <1>3, <2>1, <2>2, <2>3, <2>4 DEF WakeStep
<1>4. CASE Take
  <2>1. CASE Len(taken) = 0
    BY <1>0, <1>4, <2>1, TakeFacts
  <2>2. CASE Len(taken) = 1
    BY <1>0, <1>4, <2>2, TakeFacts
  <2> QED
    BY <1>0, <1>4, <2>1, <2>2, TakeFacts
<1>5. CASE UnlockTaken
  BY <1>5 DEF UnlockTaken
<1>6. CASE Decode
  BY <1>0, <1>6, DecodeFacts
<1>7. CASE WorldStep
  <2>1. CASE Stop
    BY <2>1 DEF Stop
  <2>2. CASE LastSignal
    BY <2>2 DEF LastSignal, Signal
  <2>3. CASE UNCHANGED vars
    BY <2>3 DEF vars
  <2> QED
    BY <1>7, <2>1, <2>2, <2>3 DEF WorldStep
<1> QED
  BY <1>1, <1>2, <1>3, <1>4, <1>5, <1>6, <1>7, Steps

\* Every step keeps what the demodulator takes whole.
LEMMA TakenStep == IInv /\ [Next]_vars => TakenIsWhole'
<1> SUFFICES ASSUME IInv, [Next]_vars PROVE TakenIsWhole'
  OBVIOUS
<1>0. TypeOK
  BY DEF IInv
<1> USE Numbers
<1> USE DEF IInv, LockIsHeld, BufferIsCurrent, HalvesAgree,
        TakenIsWhole, bufVars, outVars,
        restVars, Halves
<1>1. CASE ArriveStep
  BY <1>1 DEF ArriveStep, BlockArrives, LockToFill, UnlockFilled,
     SignalFilled, Signal
<1>2. CASE Fill
  BY <1>0, <1>2, FillFacts
<1>3. CASE WakeStep
  BY <1>3 DEF WakeStep, Test, Wait, SpuriousWakeup, LockToTake
<1>4. CASE Take
  <2>a. dpc = "take" /\ dpc' = "take" /\ buf' = buf
    BY <1>0, <1>4, TakeFacts
  <2>b. buf[1] = buf[2]
    BY <2>a
  <2>1. CASE Len(taken) = 0
    <3>1. Len(taken') = 1
      BY <1>0, <1>4, <2>1, TakeFacts
    <3>2. cooked'[2] = cooked[1]
      BY <1>0, <1>4, <2>1, <2>a, TakeFacts
    <3>3. taken'[1] = [block |-> buf'[1], cooked |-> cooked'[2]]
      BY <1>0, <1>4, <2>1, <2>a, <3>2, TakeFacts
    <3> QED
      BY <2>a, <3>1, <3>3
  <2>2. CASE Len(taken) = 1
    <3>1. Len(taken') = 2
      BY <1>0, <1>4, <2>2, TakeFacts
    <3>2. taken'[1] = [block |-> buf[1], cooked |-> cooked[2]]
      BY <1>0, <1>4, <2>2, <2>a, TakeFacts
    <3>3. taken'[2] = taken'[1]
      BY <1>0, <1>4, <2>2, <2>b, <3>2, TakeFacts
    <3> QED
      BY <2>a, <3>1, <3>2, <3>3
  <2> QED
    BY <1>0, <1>4, <2>1, <2>2, TakeFacts
<1>5. CASE UnlockTaken
  BY <1>5 DEF UnlockTaken
<1>6. CASE Decode
  BY <1>0, <1>6, DecodeFacts
<1>7. CASE WorldStep
  <2>1. CASE Stop
    BY <2>1 DEF Stop
  <2>2. CASE LastSignal
    BY <2>2 DEF LastSignal, Signal
  <2>3. CASE UNCHANGED vars
    BY <2>3 DEF vars
  <2> QED
    BY <1>7, <2>1, <2>2, <2>3 DEF WorldStep
<1> QED
  BY <1>1, <1>2, <1>3, <1>4, <1>5, <1>6, <1>7, Steps

\* Every step keeps the blocks of the decoder in order.
LEMMA OrderStep == IInv /\ [Next]_vars => DecodedInOrder'
<1> SUFFICES ASSUME IInv, [Next]_vars PROVE DecodedInOrder'
  OBVIOUS
<1>0. TypeOK
  BY DEF IInv
<1> USE Numbers
<1> USE DEF IInv, LockIsHeld, BufferIsCurrent,
        TakenIsWhole, DecodedInOrder, Pairs, bufVars, outVars,
        restVars, Halves
<1>1. CASE ArriveStep
  BY <1>1 DEF ArriveStep, BlockArrives, LockToFill, UnlockFilled,
     SignalFilled, Signal
<1>2. CASE Fill
  BY <1>0, <1>2, FillFacts
<1>3. CASE WakeStep
  BY <1>3 DEF WakeStep, Test, Wait, SpuriousWakeup, LockToTake
<1>4. CASE Take
  BY <1>0, <1>4, TakeFacts
<1>5. CASE UnlockTaken
  BY <1>5 DEF UnlockTaken
<1>6. CASE Decode
  <2>1. /\ Len(taken) = 2 /\ taken[1] = taken[2]
        /\ taken[1].block <= buf[2]
    BY <1>0, <1>6, DecodeFacts
  <2>2. \A i \in 1..Len(decoded) :
          /\ decoded'[i] = decoded[i]
          /\ decoded[i][1].block <= taken[1].block
    BY <1>0, <1>6, DecodeFacts
  <2>3. decoded'[Len(decoded) + 1] = taken
    BY <1>0, <1>6, DecodeFacts
  <2>4. ASSUME NEW i \in 1..Len(decoded')
        PROVE  /\ decoded'[i][1] = decoded'[i][2]
               /\ i > 1 => decoded'[i - 1][1].block <= decoded'[i][1].block
               /\ decoded'[i][1].block <= buf[2]
    <3>1. CASE i \in 1..Len(decoded)
      <4>1. i > 1 => i - 1 \in 1..Len(decoded)
        BY <3>1
      <4> QED
        BY <2>2, <3>1, <4>1
    <3>2. CASE i = Len(decoded) + 1
      <4>1. i > 1 => i - 1 \in 1..Len(decoded) /\ i - 1 = Len(decoded)
        BY <3>2
      <4> QED
        BY <2>1, <2>2, <2>3, <3>2, <4>1
    <3> QED
      BY <1>0, <1>6, <3>1, <3>2, DecodeFacts
  <2> QED
    BY <1>0, <1>6, <2>4, DecodeFacts
<1>7. CASE WorldStep
  <2>1. CASE Stop
    BY <2>1 DEF Stop
  <2>2. CASE LastSignal
    BY <2>2 DEF LastSignal, Signal
  <2>3. CASE UNCHANGED vars
    BY <2>3 DEF vars
  <2> QED
    BY <1>7, <2>1, <2>2, <2>3 DEF WorldStep
<1> QED
  BY <1>1, <1>2, <1>3, <1>4, <1>5, <1>6, <1>7, Steps

\* Every step gives a reason for what is stale.
LEMMA StaleStep == IInv /\ [Next]_vars => StaleIsExcused'
<1> SUFFICES ASSUME IInv, [Next]_vars PROVE StaleIsExcused'
  OBVIOUS
<1>0. TypeOK
  BY DEF IInv
<1> USE DEF bufVars, outVars, restVars, Halves
<1>a. Disturbed => Disturbed'
  BY Steps, <1>0, HandoffAssumption DEF Disturbed, TypeOK, ArriveStep,
     BlockArrives, LockToFill, UnlockFilled, SignalFilled, Fill, WakeStep,
     Test, Wait, SpuriousWakeup, LockToTake, Take, UnlockTaken, Decode,
     WorldStep, Stop, LastSignal, vars
<1>b. StaleIsExcused /\ LockIsHeld /\ BufferIsCurrent
  BY DEF IInv
<1> USE <1>0, <1>a, <1>b, Numbers DEF StaleIsExcused, Excused
<1>1. CASE ArriveStep
  <2>1. CASE BlockArrives
    BY <2>1 DEF BlockArrives
  <2>2. CASE LockToFill
    BY <2>2 DEF LockToFill, LockIsHeld
  <2>3. CASE UnlockFilled
    BY <2>3 DEF UnlockFilled, LockIsHeld, BufferIsCurrent
  <2>4. CASE SignalFilled
    BY <2>4 DEF SignalFilled, Signal
  <2> QED
    BY <1>1, <2>1, <2>2, <2>3, <2>4 DEF ArriveStep
<1>2. CASE Fill
  BY <1>2, FillFacts DEF LockIsHeld, BufferIsCurrent, Fill
<1>3. CASE WakeStep
  <2>1. CASE Test
    BY <2>1 DEF Test
  <2>2. CASE Wait
    BY <2>2 DEF Wait
  <2>3. CASE SpuriousWakeup
    <3>1. Disturbed'
      BY <2>3, HandoffAssumption DEF SpuriousWakeup, Disturbed, TypeOK
    <3> QED
      BY <2>3, <3>1 DEF SpuriousWakeup
  <2>4. CASE LockToTake
    BY <2>4 DEF LockToTake, BufferIsCurrent
  <2> QED
    BY <1>3, <2>1, <2>2, <2>3, <2>4 DEF WakeStep
<1>4. CASE Take
  <2>1. CASE Len(taken) = 0
    <3>0. Len(taken') = 1
      BY <1>4, <2>1, TakeFacts
    <3>1. \A h \in 1..Len(taken') : h = 1
      BY <3>0
    <3>2. taken'[1].block = buf[1] /\ taken'[1].cooked = cooked[1]
      BY <1>4, <2>1, TakeFacts
    <3>3. /\ dpc' = "take" /\ cpc' = cpc /\ early' = early
          /\ decoded' = decoded /\ arrived' = arrived /\ buf' = buf
          /\ dpc = "take" /\ cooked'[2] = cooked[2]
      BY <1>4, <2>1, TakeFacts
    <3>4. Excused(buf[1], cooked[1]) /\ Excused(buf[2], cooked[2])
      BY <2>1, <3>3
    <3>5. cpc = "signal" =>
            Disturbed' \/ (buf[1] \in early /\ buf[2] \in early)
      <4>1. cpc = "signal" => buf[1] = arrived /\ buf[2] = arrived
        BY DEF BufferIsCurrent
      <4>2. cpc = "signal" => Disturbed \/ arrived \in early
        BY <3>3
      <4> QED
        BY <4>1, <4>2, <1>a
    <3> QED
      BY <3>0, <3>1, <3>2, <3>3, <3>4, <3>5
  <2>2. CASE Len(taken) = 1
    <3>0. Len(taken') = 2
      BY <1>4, <2>2, TakeFacts
    <3>1. \A h \in 1..Len(taken') : h = 1 \/ h = 2
      BY <3>0
    <3>2. taken'[2].block = buf[2] /\ taken'[2].cooked = cooked[2]
      BY <1>4, <2>2, TakeFacts
    <3>3. taken'[1] = taken[1]
      BY <1>4, <2>2, TakeFacts
    <3>4. /\ dpc' = "take" /\ cpc' = cpc /\ early' = early
          /\ decoded' = decoded /\ arrived' = arrived /\ buf' = buf
          /\ dpc = "take"
      BY <1>4, <2>2, TakeFacts
    <3>5. Excused(taken[1].block, taken[1].cooked)
          /\ Excused(buf[2], cooked[2])
      BY <2>2, <3>4
    <3>6. cpc = "signal" =>
            Disturbed' \/ (buf[1] \in early /\ buf[2] \in early)
      <4>1. cpc = "signal" => buf[1] = arrived /\ buf[2] = arrived
        BY DEF BufferIsCurrent
      <4>2. cpc = "signal" => Disturbed \/ arrived \in early
        BY <3>4
      <4> QED
        BY <4>1, <4>2, <1>a
    <3> QED
      BY <3>0, <3>1, <3>2, <3>3, <3>4, <3>5, <3>6
  <2> QED
    BY <1>4, <2>1, <2>2, TakeFacts
<1>5. CASE UnlockTaken
  BY <1>5 DEF UnlockTaken
<1>6. CASE Decode
  <2>1. Len(taken) = 2
    BY <1>6, DecodeFacts DEF IInv, TakenIsWhole
  <2>2. Excused(taken[1].block, taken[1].cooked)
    BY <1>6, <2>1, DecodeFacts
  <2>3. /\ Len(decoded') = Len(decoded) + 1 /\ Len(decoded) \in Nat
        /\ decoded'[Len(decoded) + 1] = taken
        /\ \A i \in 1..Len(decoded) : decoded'[i] = decoded[i]
    BY <1>6, DecodeFacts DEF TypeOK
  <2>4. /\ dpc' = "test" /\ cpc' = cpc /\ early' = early
        /\ buf' = buf /\ cooked' = cooked
    BY <1>6, DecodeFacts
  <2>5. ASSUME NEW i \in 1..Len(decoded')
        PROVE  decoded'[i][1].cooked > 0 \/ decoded'[i][1].block = 0 =>
                 Disturbed' \/ decoded'[i][1].block \in early
    <3>1. CASE i = Len(decoded) + 1
      BY <2>2, <2>3, <3>1
    <3>2. CASE i # Len(decoded) + 1
      <4>1. i \in 1..Len(decoded) /\ decoded'[i] = decoded[i]
        BY <2>3, <3>2
      <4> QED
        BY <4>1
    <3> QED
      BY <3>1, <3>2
  <2>6. cpc' = "signal" =>
          \A h \in Halves : Excused(buf[h], cooked[h])
    BY <2>4
  <2> QED
    BY <2>4, <2>5, <2>6
<1>7. CASE WorldStep
  <2>1. CASE LastSignal
    <3>1. Disturbed'
      BY <2>1 DEF LastSignal, Disturbed
    <3> QED
      BY <2>1, <3>1 DEF LastSignal, Signal
  <2>2. CASE Stop
    BY <2>2 DEF Stop
  <2>3. CASE UNCHANGED vars
    BY <2>3 DEF vars
  <2> QED
    BY <1>7, <2>1, <2>2, <2>3 DEF WorldStep
<1> QED
  BY <1>1, <1>2, <1>3, <1>4, <1>5, <1>6, <1>7, Steps

\* Every step of a calm session keeps the demodulator in step.
LEMMA KeepsStepStep == IInv /\ [Next]_vars => KeepsStep'
<1> SUFFICES ASSUME IInv, [Next]_vars, Calm', mpc' = "reading"
             PROVE KeepsStep'
  BY DEF KeepsStep
<1>0. TypeOK
  BY DEF IInv
<1> USE DEF bufVars, outVars, restVars, Halves, Calm
<1>a. Calm /\ mpc = "reading"
  BY Steps, <1>0, HandoffAssumption DEF TypeOK, ArriveStep, BlockArrives,
     LockToFill, UnlockFilled, SignalFilled, Fill, WakeStep, Test, Wait,
     SpuriousWakeup, LockToTake, Take, UnlockTaken, Decode, WorldStep, Stop,
     LastSignal, vars
<1>b. KeepsStep /\ BufferIsCurrent
  BY DEF IInv
<1> USE <1>0, <1>a, <1>b, Numbers DEF KeepsStep
<1>1. CASE ArriveStep
  <2>1. CASE BlockArrives
    <3>1. dpc = "wait" /\ dpc' = "wait" /\ cpc = "idle"
      BY <2>1 DEF BlockArrives
    <3>2. CASE doExit
      BY <2>1, <3>1, <3>2 DEF BlockArrives
    <3>3. CASE ~doExit
      BY <2>1, <3>1, <3>3 DEF BlockArrives
    <3> QED
      BY <3>2, <3>3
  <2>2. CASE LockToFill
    BY <2>2 DEF LockToFill
  <2>3. CASE UnlockFilled
    BY <2>3 DEF UnlockFilled, BufferIsCurrent
  <2>4. CASE SignalFilled
    BY <2>4 DEF SignalFilled, Signal, BufferIsCurrent
  <2> QED
    BY <1>1, <2>1, <2>2, <2>3, <2>4 DEF ArriveStep
<1>2. CASE Fill
  BY <1>2, FillFacts DEF Fill
<1>3. CASE WakeStep
  <2>1. CASE Test
    BY <2>1 DEF Test
  <2>2. CASE Wait
    BY <2>2 DEF Wait
  <2>3. CASE SpuriousWakeup
    BY <2>3 DEF SpuriousWakeup, TypeOK
  <2>4. CASE LockToTake
    BY <2>4 DEF LockToTake
  <2> QED
    BY <1>3, <2>1, <2>2, <2>3, <2>4 DEF WakeStep
<1>4. CASE Take
  <2>1. CASE Len(taken) = 0
    <3>1. taken'[1] = Fresh(Len(decoded) + 1)
      BY <1>4, <2>1, TakeFacts DEF Fresh
    <3>2. Len(taken') = 1
      BY <1>4, <2>1, TakeFacts
    <3>3. \A h \in 1..Len(taken') : h = 1
      BY <3>2
    <3> QED
      BY <1>4, <2>1, <3>1, <3>2, <3>3, TakeFacts
  <2>2. CASE Len(taken) = 1
    <3>1. taken[1] = Fresh(Len(decoded) + 1)
      BY <1>4, <2>2, TakeFacts
    <3>2. taken[1] = [block |-> buf[1], cooked |-> cooked[2]]
      BY <1>4, <2>2, TakeFacts DEF IInv, TakenIsWhole
    <3>3. buf[1] = buf[2]
      BY <1>4, TakeFacts DEF BufferIsCurrent
    <3>4. taken'[1] = Fresh(Len(decoded) + 1)
          /\ taken'[2] = Fresh(Len(decoded) + 1)
      BY <1>4, <2>2, <3>1, <3>2, <3>3, TakeFacts
    <3>5. Len(taken') = 2
      BY <1>4, <2>2, TakeFacts
    <3>6. \A h \in 1..Len(taken') : h = 1 \/ h = 2
      BY <3>5
    <3> QED
      BY <1>4, <2>2, <3>4, <3>5, <3>6, TakeFacts
  <2> QED
    BY <1>4, <2>1, <2>2, TakeFacts
<1>5. CASE UnlockTaken
  BY <1>5 DEF UnlockTaken
<1>6. CASE Decode
  <2>1. Len(taken) = 2
    BY <1>6, DecodeFacts DEF IInv, TakenIsWhole
  <2>2. taken[1] = Fresh(Len(decoded) + 1) /\ taken[2] = taken[1]
    BY <1>6, <2>1, DecodeFacts DEF IInv, TakenIsWhole
  <2>3. \A i \in 1..Len(decoded') :
          decoded'[i][1] = Fresh(i) /\ decoded'[i][2] = Fresh(i)
    BY <1>6, <2>2, DecodeFacts
  <2>4. cpc' = "idle" /\ dpc' = "test" /\ Len(decoded') = buf[1]
    BY <1>6, DecodeFacts
  <2> QED
    BY <1>6, <2>3, <2>4, DecodeFacts DEF BufferIsCurrent
<1>7. CASE WorldStep
  <2>1. CASE Stop
    BY <2>1 DEF Stop
  <2>2. CASE LastSignal
    BY <2>2 DEF LastSignal, Signal
  <2>3. CASE UNCHANGED vars
    BY <2>3 DEF vars
  <2> QED
    BY <1>7, <2>1, <2>2, <2>3 DEF WorldStep
<1> QED
  BY <1>1, <1>2, <1>3, <1>4, <1>5, <1>6, <1>7, Steps

\* The first state satisfies the invariant.
LEMMA InitIInv == Init => IInv
<1> SUFFICES ASSUME Init PROVE IInv
  OBVIOUS
<1> USE HandoffAssumption DEF Init, Halves, Blocks
<1>1. TypeOK
  <2>1. taken \in Seq(Taken) /\ Len(taken) <= 2 /\ decoded \in Seq(Seq(Taken))
    OBVIOUS
  <2>2. cooked \in [Halves -> Nat] /\ buf \in [Halves -> 0..MaxBlocks]
    OBVIOUS
  <2>3. spurious \in 0..MaxSpurious /\ arrived \in 0..MaxBlocks
    OBVIOUS
  <2> QED
    BY <2>1, <2>2, <2>3 DEF TypeOK
<1>2. LockIsHeld /\ BufferIsCurrent /\ HalvesAgree /\ TakenIsWhole
  BY DEF LockIsHeld, BufferIsCurrent, HalvesAgree, TakenIsWhole
<1>3. DecodedInOrder /\ StaleIsExcused /\ KeepsStep /\ Pairs
  BY DEF DecodedInOrder, StaleIsExcused, KeepsStep, Pairs
<1> QED
  BY <1>1, <1>2, <1>3 DEF IInv

\* The strengthened invariant holds, for any number of blocks.
THEOREM HandoffInvariant == Spec => []IInv
<1>1. IInv /\ [Next]_vars => IInv'
  BY TypeStep, PairsStep, LockStep, BufferStep, HalvesStep, TakenStep,
     OrderStep, StaleStep, KeepsStepStep DEF IInv
<1> QED
  BY InitIInv, <1>1, PTL DEF Spec

\* Every variable of the handoff keeps its type.
THEOREM HandoffTypeOK == Spec => []TypeOK
<1>1. IInv => TypeOK
  BY DEF IInv
<1> QED
  BY HandoffInvariant, <1>1, PTL

\* What the decoder gets in calm are the blocks, one after the other.
LEMMA InStepHolds == IInv => InStep
<1> SUFFICES ASSUME IInv, Calm, mpc = "reading", NEW i \in 1..Len(decoded)
             PROVE decoded[i] = [h \in Halves |-> Fresh(i)]
  BY DEF InStep, Fresh
<1>1. decoded[i] \in Seq(Taken) /\ Len(decoded[i]) = 2
  BY DEF IInv, TypeOK, Pairs
<1>2. decoded[i][1] = Fresh(i) /\ decoded[i][2] = Fresh(i)
  BY DEF IInv, KeepsStep
<1>3. DOMAIN decoded[i] = Halves
  BY <1>1 DEF Halves
<1>4. \A h \in Halves : decoded[i][h] = Fresh(i)
  BY <1>2 DEF Halves
<1> QED
  BY <1>1, <1>3, <1>4

\* The decoder gets whole blocks in order, and in calm just those that came.
THEOREM HandoffWholeBlocksInOrder == Spec => []WholeBlocksInOrder
<1>1. IInv => InOrder
  BY DEF IInv, InOrder, DecodedInOrder, StaleIsExcused, Excused, Disturbed
<1>2. IInv => WholeBlocksInOrder
  BY <1>1, InStepHolds DEF WholeBlocksInOrder
<1> QED
  BY HandoffInvariant, <1>2, PTL

(***************************************************************************)
(* Induction, in a form without operators for parameters.                  *)
(***************************************************************************)

\* Of any numbers one is the least.
LEMMA LeastOf ==
  ASSUME NEW S \in SUBSET Nat, S # {}
  PROVE  \E m \in S : \A k \in S : m <= k
<1> DEFINE R == {p \in Nat \X Nat : p[1] < p[2]}
<1>1. IsWellFoundedOn(R, Nat)
  BY NatLessThanWellFounded DEF OpToRel
<1>2. ASSUME NEW k \in Nat, NEW m \in Nat, k < m PROVE <<k, m>> \in R
  BY <1>2
<1> HIDE DEF R
<1>3. S \subseteq Nat
  OBVIOUS
<1>4. PICK m \in S : \A k \in S : <<k, m>> \notin R
  BY <1>1, <1>3, WFMin
<1>5. ASSUME NEW k \in S PROVE m <= k
  <2>1. k \in Nat /\ m \in Nat /\ <<k, m>> \notin R
    BY <1>3, <1>4
  <2>2. ~(k < m)
    BY <1>2, <2>1
  <2> QED BY <2>1, <2>2
<1> QED BY <1>5

\* What holds of zero and goes on from each number to the next holds up to the
\* last.
LEMMA UpTo ==
  ASSUME NEW N \in Nat, NEW S, 0 \in S,
         \A n \in 0 .. N - 1 : n \in S => n + 1 \in S
  PROVE  0 .. N \subseteq S
<1> SUFFICES ASSUME NEW k \in 0 .. N, k \notin S PROVE FALSE
  OBVIOUS
<1> DEFINE T == {n \in 0 .. N : n \notin S}
<1>1. T \in SUBSET Nat /\ T # {}
  OBVIOUS
<1> HIDE DEF T
<1>2. PICK m \in T : \A n \in T : m <= n
  BY <1>1, LeastOf
<1>3. m \in 0 .. N /\ m \notin S
  BY DEF T
<1>4. m # 0
  BY <1>3
<1>5. m - 1 \notin T
  BY <1>1, <1>2, <1>3
<1>6. m - 1 \in 0 .. N - 1 /\ m - 1 \in S
  BY <1>3, <1>4, <1>5 DEF T
<1> QED BY <1>3, <1>6

\* F[n] makes the n-th value of a function of the one before, v is the first.
Makers(V, N) == [1 .. N -> [V -> V]]
Paths(V, N) == [0 .. N -> V]
Goes(g, v, F, N) == g[0] = v /\ \A n \in 1 .. N : g[n] = F[n][g[n - 1]]

\* A function may be defined so.
LEMMA StepByStep ==
  \A V : \A v \in V, N \in Nat : \A F \in Makers(V, N) :
    \E g \in Paths(V, N) : Goes(g, v, F, N)
<1> SUFFICES ASSUME NEW V, NEW v \in V, NEW N \in Nat, NEW F \in Makers(V, N)
             PROVE  \E g \in Paths(V, N) : Goes(g, v, F, N)
  OBVIOUS
<1> DEFINE S == {n \in 0 .. N : \E g \in Paths(V, n) : Goes(g, v, F, n)}
<1>1. 0 \in S
  <2> DEFINE g == [m \in 0 .. 0 |-> v]
  <2>1. g \in Paths(V, 0) /\ Goes(g, v, F, 0)
    BY DEF Paths, Goes
  <2> HIDE DEF g
  <2> QED BY <2>1
<1>2. ASSUME NEW n \in 0 .. N - 1, n \in S PROVE n + 1 \in S
  <2>1. PICK g \in Paths(V, n) : Goes(g, v, F, n)
    BY <1>2
  <2> DEFINE h == [m \in 0 .. n + 1 |->
                     IF m = n + 1 THEN F[n + 1][g[n]] ELSE g[m]]
  <2>2. g \in [0 .. n -> V]
    BY DEF Paths
  <2>3. F[n + 1][g[n]] \in V
    BY <2>2 DEF Makers
  <2>4. h \in [0 .. n + 1 -> V]
    BY <2>2, <2>3
  <2>5. h[0] = v
    BY <2>1 DEF Goes
  <2>6. ASSUME NEW m \in 1 .. n + 1 PROVE h[m] = F[m][h[m - 1]]
    <3>1. CASE m = n + 1
      BY <3>1
    <3>2. CASE m # n + 1
      BY <2>1, <3>2 DEF Goes
    <3> QED BY <3>1, <3>2
  <2> HIDE DEF h
  <2>7. h \in Paths(V, n + 1) /\ Goes(h, v, F, n + 1)
    BY <2>4, <2>5, <2>6 DEF Paths, Goes
  <2> QED BY <2>7
<1> HIDE DEF S
<1>3. 0 .. N \subseteq S
  BY <1>1, <1>2, UpTo
<1>4. N \in S
  BY <1>3
<1> QED BY <1>4 DEF S

\* And there is one such function only.
Agree(g, h, n) == g[n] = h[n]

\* Functions that go on in the same way agree, if they begin so.
LEMMA OnlyOne ==
  ASSUME NEW N \in Nat, NEW g, NEW h, Agree(g, h, 0),
         \A n \in 1 .. N : Agree(g, h, n - 1) => Agree(g, h, n)
  PROVE  \A n \in 0 .. N : Agree(g, h, n)
<1> DEFINE E == {n \in 0 .. N : Agree(g, h, n)}
<1>1. 0 \in E
  OBVIOUS
<1>2. ASSUME NEW n \in 0 .. N - 1, n \in E PROVE n + 1 \in E
  <2>1. n + 1 \in 1 .. N /\ (n + 1) - 1 = n
    OBVIOUS
  <2>2. Agree(g, h, n + 1)
    BY <1>2, <2>1
  <2> QED BY <2>1, <2>2
<1> HIDE DEF E
<1>3. 0 .. N \subseteq E
  BY <1>1, <1>2, UpTo
<1> QED BY <1>3 DEF E

-----------------------------------------------------------------------------
(* Sums.                                                                    *)

\* What TLA+ means by the definition of Totals.
LEMMA TotalsGo ==
  ASSUME NEW a \in Seq(Int)
  PROVE  /\ Totals(a) \in [0 .. Len(a) -> Int]
         /\ Totals(a)[0] = 0
         /\ \A n \in 1 .. Len(a) : Totals(a)[n] = Totals(a)[n - 1] + a[n]
<1> DEFINE N == Len(a)
           F == [n \in 1 .. N |-> [x \in Int |-> x + a[n]]]
           Is(s) == s = [n \in 0 .. N |->
                           IF n = 0 THEN 0 ELSE s[n - 1] + a[n]]
<1>1. N \in Nat /\ 0 \in Int
  OBVIOUS
<1>2. Totals(a) = CHOOSE s : Is(s)
  BY DEF Totals
<1>3. \A n \in 1 .. N : a[n] \in Int
  OBVIOUS
<1> HIDE DEF N
<1>4. F \in [1 .. N -> [Int -> Int]]
  BY <1>3
<1>5. PICK g \in [0 .. N -> Int] :
        g[0] = 0 /\ \A n \in 1 .. N : g[n] = F[n][g[n - 1]]
  <2> HIDE DEF F
  <2>1. F \in Makers(Int, N)
    BY <1>4 DEF Makers
  <2>2. \E g \in Paths(Int, N) : Goes(g, 0, F, N)
    BY <1>1, <2>1, StepByStep, Zenon
  <2> QED BY <2>2 DEF Paths, Goes
<1>6. ASSUME NEW n \in 1 .. N PROVE g[n] = g[n - 1] + a[n]
  <2>1. n - 1 \in 0 .. N
    BY <1>1
  <2>2. g[n - 1] \in Int
    BY <2>1
  <2>3. F[n][g[n - 1]] = g[n - 1] + a[n]
    BY <2>2
  <2> QED BY <1>5, <2>3
<1>7. Is(g)
  BY <1>1, <1>5, <1>6
<1>8. Is(Totals(a))
  <2> HIDE DEF Is
  <2> QED BY <1>2, <1>7
<1> DEFINE t == Totals(a)
<1>9. t[0] = 0 /\ \A n \in 1 .. N : t[n] = t[n - 1] + a[n]
  BY <1>1, <1>8
<1>10. \A n \in 0 .. N : t[n] = g[n]
  <2> HIDE DEF t
  <2>1. ASSUME NEW n \in 1 .. N, Agree(t, g, n - 1) PROVE Agree(t, g, n)
    BY <1>6, <1>9, <2>1 DEF Agree
  <2>2. Agree(t, g, 0) /\ N \in Nat
    BY <1>1, <1>5, <1>9 DEF Agree
  <2>3. \A n \in 0 .. N : Agree(t, g, n)
    BY <2>1, <2>2, OnlyOne
  <2> QED BY <2>3 DEF Agree
<1>11. t \in [0 .. N -> Int]
  BY <1>8, <1>10
<1> QED BY <1>9, <1>11 DEF N

-----------------------------------------------------------------------------
(* Rates and lengths.                                                       *)

\* A shift by one place doubles; a block is longer than any shift below.
LEMMA Doubles ==
  ASSUME NEW n \in 0 .. 23
  PROVE  2^n \in Nat \ {0} /\ 2^(n + 1) = 2 * 2^n
<1>1. CASE n = 0
  BY <1>1
<1>2. CASE n = 1
  BY <1>2
<1>3. CASE n = 2
  BY <1>3
<1>4. CASE n = 3
  BY <1>4
<1>5. CASE n = 4
  BY <1>5
<1>6. CASE n = 5
  BY <1>6
<1>7. CASE n = 6
  BY <1>7
<1>8. CASE n = 7
  BY <1>8
<1>9. CASE n = 8
  BY <1>9
<1>10. CASE n = 9
  BY <1>10
<1>11. CASE n = 10
  BY <1>11
<1>12. CASE n = 11
  BY <1>12
<1>13. CASE n = 12
  BY <1>13
<1>14. CASE n = 13
  BY <1>14
<1>15. CASE n = 14
  BY <1>15
<1>16. CASE n = 15
  BY <1>16
<1>17. CASE n = 16
  BY <1>17
<1>18. CASE n = 17
  BY <1>18
<1>19. CASE n = 18
  BY <1>19
<1>20. CASE n = 19
  BY <1>20
<1>21. CASE n = 20
  BY <1>21
<1>22. CASE n = 21
  BY <1>22
<1>23. CASE n = 22
  BY <1>23
<1>24. CASE n = 23
  BY <1>24
<1> QED BY <1>1, <1>2, <1>3, <1>4, <1>5, <1>6, <1>7, <1>8, <1>9, <1>10,
    <1>11, <1>12, <1>13, <1>14, <1>15, <1>16, <1>17, <1>18, <1>19, <1>20,
    <1>21, <1>22, <1>23, <1>24

\* Division in terms of multiplication.
LEMMA Divides ==
  ASSUME NEW a \in Nat, NEW d \in Nat \ {0}, NEW b \in Nat
  PROVE  /\ a \div d \in Nat
         /\ a \div d >= b <=> a >= b * d
<1> DEFINE q == a \div d
<1>1. q \in Nat /\ q * d <= a /\ a < (q + 1) * d
  OBVIOUS
<1> HIDE DEF q
<1>2. q >= b => a >= b * d
  <2> SUFFICES ASSUME q >= b PROVE a >= b * d
    OBVIOUS
  <2>1. q * d >= b * d
    BY <1>1
  <2> QED BY <1>1, <2>1
<1>3. a >= b * d => q >= b
  <2> SUFFICES ASSUME q < b, a >= b * d PROVE FALSE
    BY <1>1
  <2>1. (q + 1) * d <= b * d
    BY <1>1
  <2> QED BY <1>1, <2>1
<1> QED BY <1>1, <1>2, <1>3 DEF q

\* The logarithm is rounded down.
LEMMA Log2Is ==
  ASSUME NEW a \in Nat, NEW b \in Nat \ {0}, b <= a, a < 2^(21 + 1)
  PROVE  /\ Log2(a, b) \in 0 .. 21
         /\ b * 2^Log2(a, b) <= a
         /\ a < 2 * (b * 2^Log2(a, b))
<1> DEFINE Is(i) == a \div 2^i >= b /\ a \div 2^(i + 1) < b
           S == {i \in 0 .. 21 : a \div 2^(i + 1) < b}
<1>1. S \in SUBSET Nat
  OBVIOUS
<1>2. 21 \in S
  <2>1. 2^(21 + 1) \in Nat \ {0}
    BY SMT
  <2>2. ~(a \div 2^(21 + 1) >= b)
    <3>1. ~(a >= b * 2^(21 + 1))
      BY <2>1
    <3> QED BY <2>1, <3>1, Divides
  <2>3. a \div 2^(21 + 1) \in Nat
    BY <2>1, Divides
  <2> QED BY <2>2, <2>3
<1> HIDE DEF S
<1>3. PICK i \in S : \A k \in S : i <= k
  BY <1>1, <1>2, LeastOf
<1>4. i \in 0 .. 21 /\ a \div 2^(i + 1) < b
  BY DEF S
<1>5. Is(i)
  <2>1. CASE i = 0
    BY <1>4, <2>1
  <2>2. CASE i # 0
    <3>1. i - 1 \in 0 .. 21 /\ i - 1 \notin S /\ (i - 1) + 1 = i
      BY <1>3, <1>4, <2>2
    <3>2. 2^i \in Nat \ {0}
      <4>1. i \in 0 .. 23
        BY <1>4
      <4> QED BY <4>1, Doubles
    <3>3. a \div 2^i \in Nat
      BY <3>2, Divides
    <3> QED BY <1>4, <3>1, <3>3 DEF S
  <2> QED BY <2>1, <2>2
<1> DEFINE L == Log2(a, b)
<1>6. L = CHOOSE k \in 0 .. 21 : Is(k)
  BY DEF Log2
<1>7. L \in 0 .. 21 /\ Is(L)
  <2> HIDE DEF Is, L
  <2> QED BY <1>4, <1>5, <1>6
<1> HIDE DEF L
<1>8. 2^L \in Nat \ {0} /\ 2^(L + 1) = 2 * 2^L /\ 2^(L + 1) \in Nat \ {0}
  <2>1. L \in 0 .. 23 /\ L + 1 \in 0 .. 23
    BY <1>7
  <2>2. 2^L \in Nat \ {0} /\ 2^(L + 1) = 2 * 2^L
    BY <2>1, Doubles
  <2>3. 2^(L + 1) \in Nat \ {0}
    BY <2>1, Doubles
  <2> QED BY <2>2, <2>3
<1>9. b * 2^L <= a
  BY <1>7, <1>8, Divides
<1>10. ~(a >= b * 2^(L + 1))
  BY <1>7, <1>8, Divides
<1>11. b * 2^(L + 1) = 2 * (b * 2^L) /\ b * 2^L \in Nat
  BY <1>8
<1> QED BY <1>7, <1>9, <1>10, <1>11 DEF L

\* More places, more.
LEMMA Grows ==
  ASSUME NEW m \in 0 .. 22, NEW n \in 0 .. 22, m <= n
  PROVE  2^m <= 2^n
<1> DEFINE S == {k \in Nat : m + k <= 22 => 2^m <= 2^(m + k)}
<1>1. 0 \in S
  <2>1. m + 0 = m /\ m \in 0 .. 23
    OBVIOUS
  <2>2. 2^m \in Nat
    BY <2>1, Doubles
  <2> QED BY <2>1, <2>2
<1>2. ASSUME NEW k \in 0 .. 22 - 1, k \in S PROVE k + 1 \in S
  <2> SUFFICES ASSUME m + (k + 1) <= 22 PROVE 2^m <= 2^(m + (k + 1))
    OBVIOUS
  <2>1. m + k \in 0 .. 23 /\ (m + k) + 1 = m + (k + 1) /\ 2^m <= 2^(m + k)
    BY <1>2
  <2>2. 2^(m + (k + 1)) = 2 * 2^(m + k) /\ 2^(m + k) \in Nat
    BY <2>1, Doubles
  <2>3. 2^m \in Nat
    <3>1. m \in 0 .. 23
      OBVIOUS
    <3> QED BY <3>1, Doubles
  <2> QED BY <2>1, <2>2, <2>3
<1> HIDE DEF S
<1>3. 0 .. 22 \subseteq S
  <2>1. 22 \in Nat
    OBVIOUS
  <2> QED BY <1>1, <1>2, <2>1, UpTo
<1>4. n - m \in S /\ m + (n - m) = n
  BY <1>3
<1> QED BY <1>4 DEF S

\* A shift after a shift.
LEMMA Shifts ==
  ASSUME NEW m \in 0 .. 22, NEW n \in 0 .. 22, m + n <= 22
  PROVE  2^(m + n) = 2^m * 2^n
<1> DEFINE S == {k \in Nat : m + k <= 22 => 2^(m + k) = 2^m * 2^k}
<1>1. 0 \in S
  <2>1. m + 0 = m /\ m \in 0 .. 23 /\ 2^0 = 1
    OBVIOUS
  <2>2. 2^m \in Nat
    BY <2>1, Doubles
  <2> QED BY <2>1, <2>2
<1>2. ASSUME NEW k \in 0 .. 22 - 1, k \in S PROVE k + 1 \in S
  <2> SUFFICES ASSUME m + (k + 1) <= 22 PROVE 2^(m + (k + 1)) = 2^m * 2^(k + 1)
    OBVIOUS
  <2>1. m + k \in 0 .. 23 /\ (m + k) + 1 = m + (k + 1)
    OBVIOUS
  <2>2. 2^(m + k) = 2^m * 2^k
    BY <1>2
  <2>3. 2^(m + (k + 1)) = 2 * 2^(m + k)
    BY <2>1, Doubles
  <2>4. 2^(k + 1) = 2 * 2^k /\ 2^k \in Nat /\ 2^m \in Nat
    <3>1. k \in 0 .. 23 /\ m \in 0 .. 23
      OBVIOUS
    <3> QED BY <3>1, Doubles
  <2> HIDE DEF S
  <2> DEFINE a == 2^m
             b == 2^k
             c == 2^(k + 1)
             d == 2^(m + k)
             e == 2^(m + (k + 1))
  <2>5. a \in Nat /\ b \in Nat /\ d = a * b /\ e = 2 * d /\ c = 2 * b
    BY <2>2, <2>3, <2>4
  <2> HIDE DEF a, b, c, d, e
  <2>6. e = a * c
    BY <2>5
  <2> QED BY <2>6 DEF a, c, e
<1> HIDE DEF S
<1>3. 0 .. 22 \subseteq S
  <2>1. 22 \in Nat
    OBVIOUS
  <2> QED BY <1>1, <1>2, <2>1, UpTo
<1>4. n \in S
  BY <1>3
<1> QED BY <1>4 DEF S

\* The rate that rtl_ais_main does not exceed.
MaxRate == 2400000

\* What is known of rates and lengths that were accepted.
PlanIs(p) ==
  LET both == p.passes["both"]
      left == p.passes["left"]
  IN /\ p.delta \in Nat \ {0} /\ p.sample \in Nat \ {0} /\ p.output \in Nat
     /\ p.passes = [f \in Filters |-> IF f = "both" THEN both ELSE left]
     /\ both \in 0 .. 20 /\ left \in 0 .. 21 /\ both + left <= 21
     /\ 2 * p.delta <= MaxRate
     /\ p.rate = 2 * p.delta * 2^both
     /\ p.rate <= MaxRate /\ MaxRate < 2 * p.rate
     /\ p.sample * 2^left <= 2 * p.delta
     /\ 2 * p.delta < 2 * (p.sample * 2^left)
     /\ p.result_len = (BlockLength \div 2^(both + left)) \div 2
     /\ p.bl_len = ((BlockLength \div 2) * p.output) \div p.rate

\* What rtl_ais_main computes for frequencies and rates that it accepts.
LEMMA PlannedIs ==
  ASSUME NEW delta \in Nat, NEW sample \in Nat \ {0}, NEW output \in Nat \ {0},
         Outcome(delta, sample, output) = "ok"
  PROVE  PlanIs(Planned(delta, sample, output))
<1> DEFINE i == Log2(2400000, delta)
           j == Log2(2 * delta, sample)
           p == Planned(delta, sample, output)
<1>1. 0 < delta /\ 2 * delta <= 2400000 /\ sample <= 2 * delta
  BY SMT DEF Outcome
<1>2. 2400000 < 2^(21 + 1)
  BY SMT
<1>3. i \in 0 .. 21 /\ delta * 2^i <= 2400000 /\ 2400000 < 2 * (delta * 2^i)
  <2>1. 2400000 \in Nat /\ delta \in Nat \ {0} /\ delta <= 2400000
    BY <1>1, SMT
  <2> HIDE DEF i
  <2> QED BY <1>2, <2>1, Log2Is, SMT DEF i
<1>4. j \in 0 .. 21 /\ sample * 2^j <= 2 * delta /\ 2 * delta < 2 * (sample * 2^j)
  <2>1. 2 * delta \in Nat /\ 2 * delta < 2^(21 + 1)
    BY <1>1, <1>2, SMT
  <2> QED BY <1>1, <2>1, Log2Is, SMT
<1> HIDE DEF i, j
<1>5. i # 0
  <2> SUFFICES ASSUME i = 0 PROVE FALSE
    OBVIOUS
  <2>1. 2^i = 1
    OBVIOUS
  <2> QED BY <1>1, <1>3, <2>1, SMT
<1> DEFINE both == i - 1
<1>6. /\ both \in 0 .. 20 /\ both + 1 = i
      /\ 2^i = 2 * 2^both /\ 2^both \in Nat \ {0} /\ 2^j \in Nat \ {0}
  <2>1. both \in 0 .. 20 /\ both \in 0 .. 23 /\ both + 1 = i /\ j \in 0 .. 23
    BY <1>3, <1>4, <1>5
  <2>2. 2^i = 2 * 2^both /\ 2^both \in Nat \ {0} /\ 2^j \in Nat \ {0}
    <3> HIDE DEF both
    <3> QED BY <2>1, Doubles
  <2> QED BY <2>1, <2>2
<1> HIDE DEF both
<1> DEFINE x == 2^both
           y == 2^j
<1>7. both + j <= 21
  <2> SUFFICES ASSUME both + j >= 22 PROVE FALSE
    BY <1>4, <1>6
  <2> DEFINE k == 22 - both
             z == 2^k
  <2>1. k \in 0 .. 22 /\ k <= j /\ both + k = 22 /\ both \in 0 .. 22 /\ j \in 0 .. 22
    BY <1>4, <1>6
  <2>2. z <= y /\ z \in Nat
    <3>1. k \in 0 .. 23
      BY <2>1
    <3> HIDE DEF k
    <3>2. 2^k <= 2^j
      BY <2>1, Grows
    <3>3. 2^k \in Nat
      BY <3>1, Doubles
    <3> QED BY <3>2, <3>3
  <2>3. x * z = 4194304
    <3>1. 2^(both + k) = 2^both * 2^k
      <4>1. both + k <= 22
        BY <2>1
      <4> HIDE DEF k
      <4> QED BY <2>1, <4>1, Shifts
    <3>2. 2^22 = 4194304
      BY SMT
    <3> QED BY <2>1, <3>1, <3>2, SMT
  <2>4. delta * (2 * x) <= 2400000 /\ y <= 2 * delta /\ x \in Nat \ {0} /\ y \in Nat
    <3>1. delta * (2 * x) <= 2400000 /\ sample * y <= 2 * delta /\ x \in Nat \ {0}
             /\ y \in Nat
      BY <1>3, <1>4, <1>6, SMT
    <3> HIDE DEF x, y
    <3>2. y <= sample * y
      BY <3>1, SMT
    <3> QED BY <3>1, <3>2, SMT
  <2> HIDE DEF x, y, z
  <2>5. x * z <= x * y /\ x * y <= x * (2 * delta)
    BY <2>2, <2>4, SMT
  <2>6. x * (2 * delta) = delta * (2 * x) /\ x * y \in Nat /\ x * z \in Nat
    BY <2>2, <2>4, SMT
  <2> QED BY <2>3, <2>4, <2>5, <2>6, SMT
<1>8. /\ p.passes = [f \in Filters |-> IF f = "both" THEN both ELSE j]
      /\ p.delta = delta /\ p.sample = sample /\ p.output = output
      /\ p.rate = delta * 2^i
      /\ p.result_len = (BlockLength \div 2^(both + j)) \div 2
      /\ p.bl_len = ((BlockLength \div 2) * output) \div (delta * 2^i)
  BY DEF Planned, both, i, j
<1>9. p.passes["both"] = both /\ p.passes["left"] = j
  <2> HIDE DEF p
  <2> QED BY <1>8 DEF Filters, Channels
<1>10. delta * 2^i = 2 * delta * 2^both /\ delta * 2^i \in Nat
  BY <1>6, SMT
<1> HIDE DEF p
<1>11. /\ p.rate = 2 * p.delta * 2^both
       /\ p.rate <= MaxRate /\ MaxRate < 2 * p.rate
  BY <1>3, <1>8, <1>10, SMT DEF MaxRate
<1>12. /\ p.result_len = (BlockLength \div 2^(both + j)) \div 2
       /\ p.bl_len = ((BlockLength \div 2) * p.output) \div p.rate
  BY <1>8
<1>13. /\ p.delta \in Nat \ {0} /\ p.sample \in Nat \ {0} /\ p.output \in Nat
       /\ 2 * p.delta <= MaxRate
       /\ p.sample * 2^j <= 2 * p.delta
       /\ 2 * p.delta < 2 * (p.sample * 2^j)
  BY <1>1, <1>4, <1>8, SMT DEF MaxRate
<1>14. both \in 0 .. 20 /\ j \in 0 .. 21
  BY <1>4, <1>6
<1>15. p.passes = [f \in Filters |-> IF f = "both" THEN both ELSE j]
  BY <1>8
<1> HIDE DEF both, j
<1>16. PlanIs(p)
  BY <1>7, <1>9, <1>11, <1>12, <1>13, <1>14, <1>15, Zenon DEF PlanIs
<1> QED BY <1>16 DEF p

-----------------------------------------------------------------------------
(* The resampler.                                                           *)

\* Before the j-th output; `end` is the end of the block.
Between(p, j, len1, len2) ==
  LET place == (p.i - 1) * len2 + p.tick
      end == (len1 - 1) * len2
  IN /\ p.i \in 1 .. len1 - 1 /\ p.tick \in Int
     /\ len1 <= len2 =>
          p.tick \in 0 .. len2 /\ place \in {j * len1, end} /\ place <= j * len1

\* A step of the resampler keeps to its place between two samples.
LEMMA UpsampleIs ==
  ASSUME NEW len1 \in Nat, NEW len2 \in Nat, len1 > 1, NEW j \in Nat,
         NEW p, Between(p, j, len1, len2)
  PROVE  Between(Upsample(p, len1, len2), j + 1, len1, len2)
<1> DEFINE next == IF p.tick + len1 > len2
                   THEN [i |-> p.i + 1, tick |-> p.tick + len1 - len2]
                   ELSE [i |-> p.i, tick |-> p.tick + len1]
           q == Upsample(p, len1, len2)
           Place(r) == (r.i - 1) * len2 + r.tick
           end == (len1 - 1) * len2
<1>1. p.i \in 1 .. len1 - 1 /\ p.tick \in Int
  BY DEF Between
<1>2. /\ next.i \in 1 .. len1 /\ next.tick \in Int
      /\ Place(next) = Place(p) + len1
      /\ len1 <= len2 /\ p.tick \in 0 .. len2 => next.tick \in 0 .. len2
  <2>1. CASE p.tick + len1 > len2
    <3>1. next.i = p.i + 1 /\ next.tick = p.tick + len1 - len2
      BY <2>1
    <3> HIDE DEF next
    <3>2. (next.i - 1) * len2 = (p.i - 1) * len2 + len2
      BY <1>1, <3>1
    <3>3. next.i \in 1 .. len1 /\ next.tick \in Int
      BY <1>1, <3>1
    <3>4. Place(next) = Place(p) + len1
      <4>1. (p.i - 1) * len2 \in Int
        BY <1>1
      <4> QED BY <1>1, <3>1, <3>2, <4>1
    <3>5. len1 <= len2 /\ p.tick \in 0 .. len2 => next.tick \in 0 .. len2
      BY <1>1, <2>1, <3>1
    <3> QED BY <3>3, <3>4, <3>5
  <2>2. CASE ~(p.tick + len1 > len2)
    <3>1. next.i = p.i /\ next.tick = p.tick + len1
      BY <2>2
    <3> HIDE DEF next
    <3> QED BY <1>1, <2>2, <3>1
  <2> QED BY <2>1, <2>2
<1>3. q = IF next.i >= len1 THEN [i |-> len1 - 1, tick |-> len2] ELSE next
  BY DEF Upsample
<1> HIDE DEF next, q
<1>4. CASE next.i >= len1
  <2>1. q.i = len1 - 1 /\ q.tick = len2
    BY <1>3, <1>4
  <2>2. ASSUME len1 <= len2
        PROVE  /\ q.tick \in 0 .. len2
               /\ Place(q) \in {(j + 1) * len1, end}
               /\ Place(q) <= (j + 1) * len1
    <3>1. next.tick \in 0 .. len2 /\ Place(p) <= j * len1
      BY <1>2, <2>2 DEF Between
    <3>2. (len1 - 2) * len2 + len2 = (len1 - 1) * len2
      OBVIOUS
    <3>3. Place(q) = end
      BY <2>1, <3>2
    <3>4. Place(next) >= end
      <4>1. next.i = len1
        <5>1. next.i \in 1 .. len1
          BY <1>2
        <5> QED BY <1>4, <5>1
      <4> QED BY <3>1, <4>1
    <3>5. Place(next) <= j * len1 + len1
      <4> DEFINE a == Place(next)
                 b == Place(p)
      <4>1. a = b + len1 /\ b <= j * len1 /\ b \in Int
        BY <1>1, <1>2, <3>1
      <4> HIDE DEF a, b
      <4>2. a <= j * len1 + len1
        BY <4>1
      <4> QED BY <4>2 DEF a
    <3>6. j * len1 + len1 = (j + 1) * len1
      OBVIOUS
    <3>7. end <= (j + 1) * len1
      <4> DEFINE a == Place(next)
      <4>1. a >= end /\ a <= j * len1 + len1 /\ a \in Int
        BY <1>2, <3>4, <3>5
      <4> HIDE DEF a
      <4> QED BY <3>6, <4>1
    <3> QED BY <2>1, <3>3, <3>7
  <2>3. q.i \in 1 .. len1 - 1 /\ q.tick \in Int
    BY <2>1
  <2>4. Between(q, j + 1, len1, len2)
    BY <2>2, <2>3, Zenon DEF Between
  <2> QED BY <2>4 DEF q
<1>5. CASE ~(next.i >= len1)
  <2>1. q = next /\ next.i \in 1 .. len1 - 1
    BY <1>2, <1>3, <1>5
  <2>2. ASSUME len1 <= len2
        PROVE  /\ next.tick \in 0 .. len2
               /\ Place(next) \in {(j + 1) * len1, end}
               /\ Place(next) <= (j + 1) * len1
    <3>1. p.tick \in 0 .. len2 /\ Place(p) \in {j * len1, end}
      BY <2>2 DEF Between
    <3>2. Place(p) # end
      <4> SUFFICES ASSUME Place(p) = end PROVE FALSE
        OBVIOUS
      <4>1. p.tick <= len2 /\ p.i <= len1 - 1 /\ p.i \in Nat /\ p.tick \in Nat
        BY <1>1, <3>1
      <4>2. p.i = len1 - 1 /\ p.tick = len2
        <5>1. CASE p.i < len1 - 1
          <6>1. (p.i - 1) * len2 <= (len1 - 3) * len2
            <7>1. p.i - 1 <= len1 - 3 /\ p.i - 1 \in Int /\ len1 - 3 \in Int
              BY <4>1, <5>1
            <7> QED BY <7>1
          <6>2. (len1 - 3) * len2 + len2 + len2 = (len1 - 1) * len2
            OBVIOUS
          <6>3. (p.i - 1) * len2 \in Int /\ (len1 - 3) * len2 \in Int
            BY <4>1
          <6>4. len2 > 0
            BY <2>2
          <6> QED BY <4>1, <6>1, <6>2, <6>3, <6>4
        <5>2. CASE p.i = len1 - 1
          <6>1. (len1 - 2) * len2 + len2 = (len1 - 1) * len2
            OBVIOUS
          <6> QED BY <4>1, <5>2, <6>1
        <5> QED BY <4>1, <5>1, <5>2
      <4>3. p.tick + len1 > len2
        BY <4>2
      <4>4. next.i = len1
        BY <4>2, <4>3 DEF next
      <4> QED BY <1>5, <4>4
    <3>3. j * len1 + len1 = (j + 1) * len1
      OBVIOUS
    <3>4. Place(next) = (j + 1) * len1
      BY <1>2, <3>1, <3>2, <3>3
    <3>5. next.tick \in 0 .. len2
      BY <1>2, <2>2, <3>1
    <3> QED BY <3>4, <3>5
  <2>3. q.i \in 1 .. len1 - 1 /\ q.tick \in Int
    BY <1>2, <2>1
  <2>4. Between(q, j + 1, len1, len2)
    BY <2>1, <2>2, <2>3, Zenon DEF Between
  <2> QED BY <2>4 DEF q
<1> QED BY <1>4, <1>5

\* What TLA+ means by the definition of Resampled.
LEMMA ResampledIs ==
  ASSUME NEW len1 \in Nat, NEW len2 \in Nat, len1 > 1
  PROVE  \A j \in 0 .. len2 : Between(Resampled(len1, len2)[j], j, len1, len2)
<1> DEFINE V == [i : Int, tick : Int]
           P == Resampled(len1, len2)
           v == [i |-> 1, tick |-> 0]
           F == [j \in 1 .. len2 |-> [p \in V |-> Upsample(p, len1, len2)]]
           Is(s) == s = [j \in 0 .. len2 |->
                           IF j = 0 THEN v ELSE Upsample(s[j - 1], len1, len2)]
<1>1. P = CHOOSE s : Is(s)
  BY DEF Resampled
<1>2. v \in V /\ Between(v, 0, len1, len2)
  BY DEF Between
<1>3. ASSUME NEW p \in V PROVE Upsample(p, len1, len2) \in V
  BY DEF Upsample
<1> HIDE DEF V, v, P
<1>4. PICK g \in [0 .. len2 -> V] :
        g[0] = v /\ \A j \in 1 .. len2 : g[j] = F[j][g[j - 1]]
  <2>1. F \in Makers(V, len2)
    BY <1>3 DEF Makers
  <2> HIDE DEF F
  <2>2. \E g \in Paths(V, len2) : Goes(g, v, F, len2)
    BY <1>2, <2>1, StepByStep
  <2> QED BY <2>2 DEF Paths, Goes
<1>5. ASSUME NEW j \in 1 .. len2 PROVE g[j] = Upsample(g[j - 1], len1, len2)
  <2>1. j - 1 \in 0 .. len2
    OBVIOUS
  <2>2. g[j - 1] \in V
    BY <2>1
  <2> QED BY <1>4, <2>2
<1>6. Is(g)
  BY <1>4, <1>5
<1>7. Is(P)
  <2> HIDE DEF Is
  <2> QED BY <1>1, <1>6
<1>8. P[0] = v /\ \A j \in 1 .. len2 : P[j] = Upsample(P[j - 1], len1, len2)
  BY <1>7
<1> DEFINE S == {j \in 0 .. len2 : Between(P[j], j, len1, len2)}
<1>9. 0 \in S
  BY <1>2, <1>8
<1>10. ASSUME NEW j \in 0 .. len2 - 1, j \in S PROVE j + 1 \in S
  <2>1. j + 1 \in 1 .. len2 /\ (j + 1) - 1 = j /\ j \in Nat
    OBVIOUS
  <2>2. P[j + 1] = Upsample(P[j], len1, len2)
    BY <1>8, <2>1
  <2>3. Between(P[j + 1], j + 1, len1, len2)
    BY <1>10, <2>1, <2>2, UpsampleIs
  <2> QED BY <2>1, <2>3
<1> HIDE DEF S
<1>11. 0 .. len2 \subseteq S
  BY <1>9, <1>10, UpTo
<1> QED BY <1>11 DEF S, P

-----------------------------------------------------------------------------
(* Every accepted configuration.                                            *)

PlanInv == plan.outcome = "ok" => PlanIs(plan)

\* Nothing is computed yet.
LEMMA PlanStarts == SignalInit => PlanInv
BY DEF SignalInit, PlanInv

\* The plan is computed once, and right.
LEMMA PlanStays ==
  ASSUME PlanInv, [SignalNext]_signalVars PROVE PlanInv'
<1>1. CASE ComputePlan
  <2>1. PICK delta \in Deltas, sample \in SampleRates, output \in OutputRates :
          plan' = IF Outcome(delta, sample, output) = "ok"
                  THEN Planned(delta, sample, output)
                  ELSE [outcome |-> Outcome(delta, sample, output)]
    BY <1>1 DEF ComputePlan
  <2>2. /\ delta \in Nat /\ sample \in Nat \ {0} /\ output \in Nat \ {0}
    BY SignalPathAssumption DEF SignalPathAssumption
  <2>3. CASE Outcome(delta, sample, output) = "ok"
    <3>1. PlanIs(Planned(delta, sample, output))
      BY <2>2, <2>3, PlannedIs
    <3>2. plan' = Planned(delta, sample, output)
      BY <2>1, <2>3
    <3>3. PlanIs(plan')
      BY <3>1, <3>2
    <3> QED BY <3>3 DEF PlanInv, PlanIs
  <2>4. CASE Outcome(delta, sample, output) # "ok"
    BY <2>1, <2>4 DEF PlanInv
  <2> QED BY <2>3, <2>4
<1>2. CASE UNCHANGED plan
  BY <1>2 DEF PlanInv, PlanIs
<1>3. SignalNext => ComputePlan \/ UNCHANGED plan
  BY DEF SignalNext, Done, Receive, Pass, Droop, Rotate, Demodulate, signalVars
<1> QED BY <1>1, <1>2, <1>3 DEF signalVars

\* What the plan says of the channels.
LEMMA AcceptedIsReceived ==
  ASSUME PlanInv PROVE ChannelsAreReceived
<1> SUFFICES ASSUME plan.outcome = "ok"
             PROVE  ChannelsAreReceived
  BY DEF ChannelsAreReceived
<1> DEFINE both == plan.passes["both"]
           left == plan.passes["left"]
           x == 2^both
           y == 2^left
           delta == plan.delta
           sample == plan.sample
           output == plan.output
           rate == plan.rate
<1>1. PlanIs(plan)
  BY DEF PlanInv
<1>2. /\ delta \in Nat \ {0} /\ sample \in Nat \ {0} /\ output \in Nat
      /\ both \in 0 .. 20 /\ left \in 0 .. 21 /\ both + left <= 21
      /\ 2 * delta <= MaxRate
      /\ rate = 2 * delta * x /\ rate <= MaxRate /\ MaxRate < 2 * rate
      /\ sample * y <= 2 * delta /\ 2 * delta < 2 * (sample * y)
      /\ plan.result_len = (BlockLength \div 2^(both + left)) \div 2
      /\ plan.bl_len = ((BlockLength \div 2) * output) \div rate
  BY <1>1 DEF PlanIs
<1>3. x \in Nat \ {0} /\ y \in Nat \ {0} /\ 2^(both + left) = x * y
  <2>1. both \in 0 .. 23 /\ left \in 0 .. 23 /\ both \in 0 .. 22
           /\ left \in 0 .. 22 /\ both + left <= 22
    BY <1>2
  <2> HIDE DEF both, left
  <2> QED BY <2>1, Doubles, Shifts
<1>4. /\ both >= 11 => x >= 2048
      /\ both >= 1 => x >= 2
      /\ both = 0 => x = 1
      /\ left >= 11 => y >= 2048
      /\ left >= 1 => y >= 2
      /\ left = 0 => y = 1
  <2>1. both \in 0 .. 22 /\ left \in 0 .. 22 /\ 11 \in 0 .. 22 /\ 1 \in 0 .. 22
    BY <1>2
  <2>2. 2^11 = 2048 /\ 2^1 = 2 /\ 2^0 = 1
    BY SMT
  <2> HIDE DEF both, left
  <2>3. /\ both >= 11 => 2^11 <= 2^both
        /\ both >= 1 => 2^1 <= 2^both
        /\ left >= 11 => 2^11 <= 2^left
        /\ left >= 1 => 2^1 <= 2^left
    BY <2>1, Grows
  <2>4. /\ both >= 11 => 2^both >= 2048
        /\ both >= 1 => 2^both >= 2
        /\ left >= 11 => 2^left >= 2048
        /\ left >= 1 => 2^left >= 2
    <3> DEFINE u == 2^both
               v == 2^left
               h == 2^11
    <3>1. /\ both >= 11 => h <= u
          /\ both >= 1 => 2 <= u
          /\ left >= 11 => h <= v
          /\ left >= 1 => 2 <= v
          /\ h = 2048
      BY <2>2, <2>3
    <3>2. u \in Nat /\ v \in Nat
      BY <1>3
    <3> HIDE DEF u, v, h
    <3>3. /\ both >= 11 => u >= 2048
          /\ both >= 1 => u >= 2
          /\ left >= 11 => v >= 2048
          /\ left >= 1 => v >= 2
      BY <3>1, <3>2, SMT
    <3> QED BY <3>3 DEF u, v
  <2>5. ASSUME both = 0 PROVE 2^both = 1
    BY <2>5
  <2>6. ASSUME left = 0 PROVE 2^left = 1
    BY <2>6
  <2> QED BY <2>4, <2>5, <2>6
<1> HIDE DEF both, left, x, y, delta, sample, output, rate
<1>5. 900000 < rate /\ rate <= 2400000 /\ rate = 2 * delta * x /\ rate \in Nat
  BY <1>2, <1>3, SMT DEF MaxRate
<1>6. both \in 0 .. 10 \/ delta < 586
  <2> SUFFICES ASSUME x >= 2048 PROVE delta < 586
    BY <1>2, <1>4
  <2>1. 2 * delta * x >= 2 * delta * 2048
    BY <1>2, <1>3
  <2> QED BY <1>2, <1>5, <2>1, SMT DEF MaxRate
<1>7. left \in 0 .. 10 \/ sample * 1024 <= delta
  <2> SUFFICES ASSUME y >= 2048 PROVE sample * 1024 <= delta
    BY <1>2, <1>4
  <2> DEFINE a == sample * y
  <2>1. a >= sample * 2048 /\ a <= 2 * delta /\ a \in Nat
    BY <1>2, <1>3, SMT
  <2> HIDE DEF a
  <2> QED BY <1>2, <2>1, SMT
<1>8. plan.result_len <= plan.bl_len \/ output * y < 2 * delta
  <2> SUFFICES ASSUME output * y >= 2 * delta
               PROVE  plan.result_len <= plan.bl_len
    BY <1>2, <1>3
  <2> DEFINE R == plan.result_len
             B == BlockLength \div 2
             m == x * y
  <2>0. BlockLength \in Nat /\ B \in Nat /\ 2 * B <= BlockLength
          /\ BlockLength <= 2 * B + 1
    BY SignalPathAssumption DEF SignalPathAssumption
  <2>1. m \in Nat \ {0}
    BY <1>3
  <2>2. R = (BlockLength \div m) \div 2
    BY <1>2, <1>3
  <2> HIDE DEF R, B, m
  <2>3. R \in Nat /\ 2 * R * m <= BlockLength
    <3> DEFINE q == BlockLength \div m
    <3>1. q \in Nat /\ BlockLength >= q * m
      BY <2>0, <2>1, Divides
    <3> HIDE DEF q
    <3>2. R = q \div 2
      BY <2>2 DEF q
    <3>3. R \in Nat /\ 2 * R <= q
      BY <3>1, <3>2
    <3>4. 2 * R * m <= q * m
      BY <2>1, <3>1, <3>3
    <3> QED BY <2>0, <2>1, <3>1, <3>3, <3>4
  <2>4. R * m <= B
    <3> DEFINE a == R * m
    <3>1. a \in Nat /\ 2 * a = 2 * R * m
      BY <2>1, <2>3
    <3> HIDE DEF a
    <3>2. a <= B
      BY <2>0, <2>3, <3>1
    <3> QED BY <3>2 DEF a
  <2>5. R * rate <= (R * m) * output
    <3>1. x * (output * y) >= x * (2 * delta)
      BY <1>2, <1>3
    <3>2. rate = x * (2 * delta) /\ m * output = x * (output * y)
      BY <1>2, <1>3, <1>5 DEF m
    <3>3. m * output >= rate /\ m * output \in Nat
      BY <1>2, <2>1, <3>1, <3>2
    <3>4. R * (m * output) >= R * rate
      BY <1>5, <2>3, <3>3
    <3> QED BY <1>2, <2>1, <2>3, <3>4
  <2>6. (R * m) * output <= B * output
    <3>1. R * m \in Nat
      BY <2>1, <2>3
    <3> QED BY <1>2, <2>0, <2>4, <3>1
  <2>7. B * output >= R * rate /\ B * output \in Nat
    <3> DEFINE a == (R * m) * output
               b == B * output
               c == R * rate
    <3>1. a \in Nat /\ b \in Nat /\ c \in Nat /\ c <= a /\ a <= b
      BY <1>2, <1>5, <2>0, <2>1, <2>3, <2>5, <2>6
    <3> HIDE DEF a, b, c
    <3>2. b >= c /\ b \in Nat
      BY <3>1
    <3> QED BY <3>2 DEF b, c
  <2>8. rate \in Nat \ {0}
    BY <1>5, SMT
  <2>9. (B * output) \div rate >= R
    BY <2>3, <2>7, <2>8, Divides
  <2>10. plan.bl_len = (B * output) \div rate
    BY <1>2 DEF B
  <2> QED BY <2>9, <2>10, <2>3, <2>7, <2>8, Divides DEF R
<1>9. plan.result_len \in Nat /\ plan.bl_len \in Nat
  <2>0. BlockLength \in Nat /\ BlockLength \div 2 \in Nat
    BY SignalPathAssumption DEF SignalPathAssumption
  <2> DEFINE m == x * y
             n == (BlockLength \div 2) * output
  <2>1. m \in Nat \ {0} /\ n \in Nat /\ rate \in Nat \ {0}
    BY <1>2, <1>3, <1>5, <2>0, SMT
  <2>2. plan.result_len = (BlockLength \div m) \div 2 /\ plan.bl_len = n \div rate
    BY <1>2, <1>3
  <2> HIDE DEF m, n
  <2>3. BlockLength \div m \in Nat /\ n \div rate \in Nat
    BY <2>0, <2>1, Divides
  <2>4. plan.result_len \in Nat
    BY <2>2, <2>3
  <2> QED BY <2>2, <2>3, <2>4
<1>10. ResamplerStaysInside
  <2> DEFINE len1 == plan.result_len
             len2 == plan.bl_len
  <2> SUFFICES ASSUME len1 > 1, NEW j \in 0 .. len2 - 1
               PROVE  LET place == Resampled(len1, len2)
                      IN /\ place[j].i \in 1 .. len1 - 1
                         /\ len1 <= len2 =>
                              /\ place[j].tick \in 0 .. len2
                              /\ (place[j].i - 1) * len2 + place[j].tick \in
                                   {j * len1, (len1 - 1) * len2}
                              /\ (place[j].i - 1) * len2 + place[j].tick
                                   <= j * len1
    BY DEF ResamplerStaysInside
  <2>1. j \in 0 .. len2
    BY <1>9
  <2>2. Between(Resampled(len1, len2)[j], j, len1, len2)
    <3> HIDE DEF len1, len2
    <3>1. len1 \in Nat /\ len2 \in Nat
      BY <1>9 DEF len1, len2
    <3> QED BY <2>1, <3>1, ResampledIs
  <2> HIDE DEF len1, len2
  <2> QED BY <2>2, Zenon DEF Between
<1>11. (both = 0 \/ left = 0) <=> (delta > 600000 \/ delta < sample)
  <2>1. both = 0 <=> delta > 600000
    <3>1. CASE both = 0
      BY <1>2, <1>4, <3>1, SMT DEF MaxRate
    <3>2. CASE both # 0
      <4>1. 2 * delta * x >= 2 * delta * 2
        BY <1>2, <1>3, <1>4, <3>2
      <4> QED BY <1>2, <1>5, <3>2, <4>1, SMT
    <3> QED BY <3>1, <3>2
  <2>2. left = 0 <=> delta < sample
    <3>1. CASE left = 0
      BY <1>2, <1>4, <3>1
    <3>2. CASE left # 0
      <4> DEFINE a == sample * y
      <4>1. a >= sample * 2 /\ a <= 2 * delta /\ a \in Nat
        BY <1>2, <1>3, <1>4, <3>2
      <4> HIDE DEF a
      <4> QED BY <1>2, <3>2, <4>1
    <3> QED BY <3>1, <3>2
  <2> QED BY <2>1, <2>2
<1>12. Len(cic_9_tables) = 10
  BY DEF cic_9_tables
<1>13. plan.result_len <= plan.bl_len \/ OutputTooSlow
  BY <1>8 DEF OutputTooSlow, output, y, left, delta
<1>14. /\ 900000 < plan.rate /\ plan.rate <= 2400000
       /\ plan.rate = 2 * plan.delta * 2^plan.passes["both"]
       /\ plan.sample * 2^plan.passes["left"] <= 2 * plan.delta
       /\ 2 * plan.delta < 2 * plan.sample * 2^plan.passes["left"]
       /\ \/ plan.passes["both"] \in 0 .. Len(cic_9_tables)
          \/ plan.delta < 586
       /\ \/ plan.passes["left"] \in 0 .. Len(cic_9_tables)
          \/ plan.sample * 1024 <= plan.delta
       /\ (plan.passes["both"] = 0 \/ plan.passes["left"] = 0) <=>
            (plan.delta > 600000 \/ plan.delta < plan.sample)
  <2>1. 2 * (sample * y) = 2 * sample * y
    BY <1>2, <1>3
  <2> QED BY <1>2, <1>5, <1>6, <1>7, <1>11, <1>12, <2>1, SMT
          DEF both, left, x, y, delta, sample, rate
<1> QED BY <1>10, <1>13, <1>14, SMT DEF ChannelsAreReceived

\* Whatever the options of rtl_ais_main, a configuration that it accepts receives
\* both channels, but for the cases that the property names: the dongle supports
\* the rate, every pass has its history and its row, and the resampler stays
\* inside the block.
THEOREM SignalChannelsAreReceived == SignalSpec => []ChannelsAreReceived
<1>1. PlanInv => ChannelsAreReceived
  BY AcceptedIsReceived
<1> QED BY <1>1, PlanStarts, PlanStays, PTL DEF SignalSpec

-----------------------------------------------------------------------------
(* The discriminator.                                                       *)

Within(n, k) == n \in Int /\ -k <= n /\ n <= k

\* A product keeps to its bounds; divided, it keeps to the multiplier.
LEMMA QuotIs ==
  ASSUME NEW a \in Int, NEW d \in Nat \ {0}, NEW k \in Nat, Within(a, k * d)
  PROVE  /\ Within(Quot(a, d), k)
         /\ a >= 0 => Quot(a, d) >= 0
         /\ a <= 0 => Quot(a, d) <= 0
<1>1. ASSUME NEW b \in Nat, b <= k * d PROVE b \div d \in 0 .. k
  <2>1. b \div d \in Nat /\ (b \div d >= k + 1 <=> b >= (k + 1) * d)
    BY Divides
  <2>2. (k + 1) * d = k * d + d /\ k * d \in Nat
    OBVIOUS
  <2>3. ~(b >= (k + 1) * d)
    BY <1>1, <2>2
  <2> QED BY <2>1, <2>3
<1>2. CASE a >= 0
  <2>1. a \div d \in 0 .. k
    BY <1>1, <1>2 DEF Within
  <2>2. Quot(a, d) = a \div d
    BY <1>2 DEF Quot
  <2>3. a <= 0 => a \div d <= 0
    <3> SUFFICES ASSUME a = 0 PROVE a \div d <= 0
      BY <1>2
    <3>1. 0 \div d \in Nat /\ (0 \div d >= 1 <=> 0 >= 1 * d)
      BY Divides
    <3> QED BY <3>1
  <2> QED BY <2>1, <2>2, <2>3 DEF Within
<1>3. CASE a < 0
  <2>1. -a \in Nat /\ -a <= k * d
    BY <1>3 DEF Within
  <2>2. (-a) \div d \in 0 .. k
    BY <1>1, <2>1
  <2>3. Quot(a, d) = -((-a) \div d)
    BY <1>3 DEF Quot
  <2> QED BY <1>3, <2>2, <2>3 DEF Within
<1> QED BY <1>2, <1>3

\* The int that holds the product: no more than 4096 times a number of 20 bits,
\* nor than the product.
LEMMA Mul4096Is ==
  ASSUME NEW d \in Nat, NEW n, Within(n, d)
  PROVE  /\ Within(Mul4096(n), 4096 * d)
         /\ -524288 <= n /\ n < 524288 => Mul4096(n) = 4096 * n
<1> DEFINE m == (n + 524288) % 1048576
<1>1. n \in Int /\ -d <= n /\ n <= d
  BY DEF Within
<1>2. /\ m \in Int /\ 0 <= m /\ m < 1048576
      /\ -524288 <= n /\ n < 524288 => m = n + 524288
  BY <1>1, SMT
<1>3. Mul4096(n) = 4096 * (m - 524288)
  BY SMT DEF Mul4096
<1> HIDE DEF m
<1>4. CASE -524288 <= n /\ n < 524288
  BY <1>1, <1>2, <1>3, <1>4, SMT DEF Within
<1>5. CASE ~(-524288 <= n /\ n < 524288)
  BY <1>1, <1>2, <1>3, <1>5, SMT DEF Within
<1> QED BY <1>4, <1>5, SMT

\* An angle of fast_atan2 from the middle of its quadrants.
LEMMA ShareIs ==
  ASSUME NEW d \in Nat \ {0}, NEW n, Within(n, d)
  PROVE  LET q == Quot(Mul4096(n), d)
         IN /\ q \in Int /\ -4096 <= q /\ q <= 4096
            /\ -524288 <= n /\ n < 524288 =>
                 (n >= 0 => q >= 0) /\ (n <= 0 => q <= 0)
<1> DEFINE m == Mul4096(n)
           q == Quot(m, d)
<1>1. Within(m, 4096 * d) /\ (-524288 <= n /\ n < 524288 => m = 4096 * n)
  BY Mul4096Is, SMT
<1> HIDE DEF m
<1>2. m \in Int
  BY <1>1, SMT DEF Within
<1>3. Within(q, 4096) /\ (m >= 0 => q >= 0) /\ (m <= 0 => q <= 0)
  <2> DEFINE k == 4096
  <2>1. k \in Nat /\ Within(m, k * d)
    BY <1>1, SMT
  <2> HIDE DEF k
  <2>2. Within(q, k) /\ (m >= 0 => q >= 0) /\ (m <= 0 => q <= 0)
    BY <1>2, <2>1, QuotIs
  <2> QED BY <2>2, SMT DEF k
<1> HIDE DEF q
<1>4. n \in Int
  BY DEF Within
<1>5. q \in Int /\ -4096 <= q /\ q <= 4096
  BY <1>3, SMT DEF Within
<1>6. -524288 <= n /\ n < 524288 => (n >= 0 => q >= 0) /\ (n <= 0 => q <= 0)
  BY <1>1, <1>2, <1>3, <1>4, SMT
<1> QED BY <1>5, <1>6, SMT DEF q, m

\* yabs of fast_atan2.
Magnitude(y) == IF y < 0 THEN -y ELSE y

\* Never beyond half a turn; in the right octant, if the product fits.
LEMMA AngleIs ==
  ASSUME NEW y \in Int, NEW x \in Int
  PROVE  /\ Within(FastAtan2(y, x), HalfTurn)
         /\ TooStrong(y, x) \/ (x = 0 /\ y = 0) \/ InOctant(FastAtan2(y, x), y, x)
<1> DEFINE yabs == Magnitude(y)
           angle == IF x >= 0 THEN 4096 - Quot(Mul4096(x - yabs), x + yabs)
                    ELSE 12288 - Quot(Mul4096(x + yabs), yabs - x)
           A == FastAtan2(y, x)
<1>1. yabs \in Nat /\ (y # 0 => yabs > 0)
  BY DEF Magnitude
<1>2. A = IF x = 0 /\ y = 0 THEN 0 ELSE IF y < 0 THEN -angle ELSE angle
  BY SMT DEF FastAtan2, Magnitude
<1> HIDE DEF A, yabs
<1>3. CASE x = 0 /\ y = 0
  BY <1>2, <1>3, SMT DEF Within, HalfTurn, A
<1>4. CASE x >= 0 /\ ~(x = 0 /\ y = 0)
  <2> DEFINE d == x + yabs
             n == x - yabs
             q == Quot(Mul4096(n), d)
  <2>1. d \in Nat \ {0} /\ Within(n, d)
    BY <1>1, <1>4 DEF Within
  <2>2. n \in Int /\ (n >= 0 <=> x >= yabs)
    BY <1>1
  <2>3. angle = 4096 - q
    BY <1>4, SMT
  <2> HIDE DEF d, n
  <2>4. /\ q \in Int /\ -4096 <= q /\ q <= 4096
        /\ -524288 <= n /\ n < 524288 =>
             (n >= 0 => q >= 0) /\ (n <= 0 => q <= 0)
    BY <2>1, ShareIs, SMT
  <2> HIDE DEF q, angle
  <2>5. angle \in Int /\ 0 <= angle /\ angle <= 8192
    BY <2>3, <2>4, SMT
  <2>6. A = IF y < 0 THEN -angle ELSE angle
    BY <1>2, <1>4, SMT DEF angle
  <2>7. Within(A, HalfTurn)
    BY <2>5, <2>6, SMT DEF Within, HalfTurn
  <2>8. ASSUME ~TooStrong(y, x) PROVE InOctant(A, y, x)
    <3>1. -524288 <= n /\ n < 524288
      BY <1>1, <1>4, <2>2, <2>8, SMT DEF TooStrong, n, yabs, Magnitude
    <3>2. /\ x >= yabs => 0 <= angle /\ angle <= 0 + 4096
          /\ ~(x >= yabs) => 4096 <= angle /\ angle <= 4096 + 4096
      BY <2>2, <2>3, <2>4, <2>5, <3>1, SMT
    <3> DEFINE turn == IF y < 0 THEN -A ELSE A
    <3>3. turn = angle
      BY <2>5, <2>6, SMT
    <3> HIDE DEF turn
    <3>4. InOctant(A, y, x) <=>
            LET low == CASE x >= yabs -> 0
                         [] x >= 0 /\ x < yabs -> 4096
                         [] x < 0 /\ -x < yabs -> 8192
                         [] OTHER -> 12288
            IN low <= turn /\ turn <= low + 4096
      BY SMT DEF InOctant, turn, yabs, Magnitude
    <3> QED BY <1>1, <1>4, <3>2, <3>3, <3>4, SMT
  <2> QED BY <2>7, <2>8, SMT DEF A
<1>5. CASE x < 0
  <2> DEFINE d == yabs - x
             n == x + yabs
             q == Quot(Mul4096(n), d)
  <2>1. d \in Nat \ {0} /\ Within(n, d)
    BY <1>1, <1>5 DEF Within
  <2>2. n \in Int /\ (n > 0 <=> -x < yabs) /\ ~(x >= yabs) /\ ~(x >= 0)
    BY <1>1, <1>5
  <2>3. angle = 12288 - q
    BY <1>5, SMT
  <2> HIDE DEF d, n
  <2>4. /\ q \in Int /\ -4096 <= q /\ q <= 4096
        /\ -524288 <= n /\ n < 524288 =>
             (n >= 0 => q >= 0) /\ (n <= 0 => q <= 0)
    BY <2>1, ShareIs, SMT
  <2> HIDE DEF q, angle
  <2>5. angle \in Int /\ 8192 <= angle /\ angle <= 16384
    BY <2>3, <2>4, SMT
  <2>6. A = IF y < 0 THEN -angle ELSE angle
    BY <1>2, <1>5, SMT DEF angle
  <2>7. Within(A, HalfTurn)
    BY <2>5, <2>6, SMT DEF Within, HalfTurn
  <2>8. ASSUME ~TooStrong(y, x) PROVE InOctant(A, y, x)
    <3>1. -524288 <= n /\ n < 524288
      BY <1>1, <1>5, <2>2, <2>8, SMT DEF TooStrong, n, yabs, Magnitude
    <3>2. /\ -x < yabs => 8192 <= angle /\ angle <= 8192 + 4096
          /\ ~(-x < yabs) => 12288 <= angle /\ angle <= 12288 + 4096
      BY <2>2, <2>3, <2>4, <2>5, <3>1, SMT
    <3> DEFINE turn == IF y < 0 THEN -A ELSE A
    <3>3. turn = angle
      BY <2>5, <2>6, SMT
    <3> HIDE DEF turn
    <3>4. InOctant(A, y, x) <=>
            LET low == CASE x >= yabs -> 0
                         [] x >= 0 /\ x < yabs -> 4096
                         [] x < 0 /\ -x < yabs -> 8192
                         [] OTHER -> 12288
            IN low <= turn /\ turn <= low + 4096
      BY SMT DEF InOctant, turn, yabs, Magnitude
    <3> QED BY <1>5, <2>2, <3>2, <3>3, <3>4, SMT
  <2> QED BY <2>7, <2>8, SMT DEF A
<1> QED BY <1>3, <1>4, <1>5, SMT DEF A

\* A sum of angles.
LEMMA TotalIs ==
  ASSUME NEW a \in Seq(Int), NEW k \in Nat,
         \A n \in 1 .. Len(a) : Within(a[n], k)
  PROVE  Within(Total(a), k * Len(a))
<1> DEFINE N == Len(a)
           t == Totals(a)
           S == {n \in 0 .. N : Within(t[n], k * n)}
<1>1. t \in [0 .. N -> Int] /\ t[0] = 0 /\ \A n \in 1 .. N : t[n] = t[n - 1] + a[n]
  BY TotalsGo
<1>2. N \in Nat
  OBVIOUS
<1> HIDE DEF t
<1>3. 0 \in S
  BY <1>1, <1>2 DEF Within
<1>4. ASSUME NEW n \in 0 .. N - 1, n \in S PROVE n + 1 \in S
  <2>1. n + 1 \in 1 .. N /\ (n + 1) - 1 = n /\ n \in 0 .. N
    BY <1>2
  <2>2. t[n + 1] = t[n] + a[n + 1]
    BY <1>1, <2>1
  <2>3. a[n + 1] \in Int /\ -k <= a[n + 1] /\ a[n + 1] <= k
    BY <2>1 DEF Within
  <2>4. k * (n + 1) = k * n + k /\ k * n \in Int
    BY <2>1
  <2>5. t[n] \in Int /\ -(k * n) <= t[n] /\ t[n] <= k * n
    BY <1>1, <1>4, <2>1 DEF Within
  <2> HIDE DEF N
  <2>6. Within(t[n + 1], k * (n + 1))
    BY <2>2, <2>3, <2>4, <2>5 DEF Within
  <2> QED BY <2>1, <2>6
<1> HIDE DEF S, N
<1>5. 0 .. N \subseteq S
  BY <1>2, <1>3, <1>4, UpTo
<1>6. N \in S
  BY <1>2, <1>5
<1>7. Total(a) = t[N]
  BY DEF Total, t, N
<1> QED BY <1>6, <1>7 DEF S, N

BelowHalfTurn(n) == n \in Int /\ -HalfTurn < n /\ n < HalfTurn

\* The average cannot reach half a turn.
LEMMA AverageIs ==
  ASSUME NEW old, BelowHalfTurn(old),
         NEW a \in Seq(Int), Len(a) > 0,
         \A n \in 1 .. Len(a) : Within(a[n], HalfTurn)
  PROVE  BelowHalfTurn(Average(old, a))
<1> DEFINE q == Quot(Total(a), Len(a))
           r == q + old * 9
<1>1. Within(q, HalfTurn)
  <2>1. HalfTurn \in Nat
    BY SMT DEF HalfTurn
  <2>2. Len(a) \in Nat \ {0}
    OBVIOUS
  <2>3. Within(Total(a), HalfTurn * Len(a))
    BY <2>1, TotalIs
  <2>4. Total(a) \in Int
    BY <2>3 DEF Within
  <2> QED BY <2>1, <2>2, <2>3, <2>4, QuotIs
<1>2. Average(old, a) = Quot(r, 10)
  BY SMT DEF Average
<1> HIDE DEF q
<1>3. r \in Int /\ -163840 < r /\ r < 163840
  BY <1>1, SMT DEF Within, HalfTurn, BelowHalfTurn
<1> HIDE DEF r
<1>4. CASE r >= 0
  <2>1. Quot(r, 10) = r \div 10
    BY <1>4, SMT DEF Quot
  <2>2. r \div 10 \in Int /\ 0 <= r \div 10 /\ r \div 10 < 16384
    BY <1>3, <1>4, SMT
  <2> QED BY <1>2, <2>1, <2>2, SMT DEF BelowHalfTurn, HalfTurn
<1>5. CASE r < 0
  <2>1. Quot(r, 10) = -((-r) \div 10)
    BY <1>3, <1>5, SMT DEF Quot
  <2>2. (-r) \div 10 \in Int /\ 0 <= (-r) \div 10 /\ (-r) \div 10 < 16384
    BY <1>3, <1>5, SMT
  <2> QED BY <1>2, <2>1, <2>2, SMT DEF BelowHalfTurn, HalfTurn
<1> QED BY <1>3, <1>4, <1>5, SMT

\* 16 bits hold it.
LEMMA WrapKeeps ==
  ASSUME NEW n \in Int, -32768 <= n, n < 32768
  PROVE  Wrap16(n) = n
BY SMT DEF Wrap16

\* 16 bits are a number.
LEMMA WrapIs ==
  ASSUME NEW n \in Int
  PROVE  Wrap16(n) \in Int
BY SMT DEF Wrap16

-----------------------------------------------------------------------------
(* What comes out of the filters.                                           *)

\* A sample; the 16 bits are left open.
Sample == [1 .. 2 -> Int]

\* Two numbers are a sample.
LEMMA PairIs ==
  ASSUME NEW a \in Int, NEW b \in Int
  PROVE  <<a, b>> \in Sample
BY DEF Sample

\* A function on 1 .. n is a sequence.
LEMMA SequenceIs ==
  ASSUME NEW V, NEW n \in Nat, NEW f \in [1 .. n -> V]
  PROVE  f \in Seq(V) /\ Len(f) = n
OBVIOUS

\* What a filter adds up.
Products(weight, line, k, part) ==
  [n \in 1 .. Len(weight) |-> weight[n] * line[k + n][part]]

\* The sums of the filters are numbers if the line has all their samples.
LEMMA SumIs ==
  ASSUME NEW weight \in Seq(Int), NEW line \in Seq(Sample), NEW k \in Nat,
         k + Len(weight) <= Len(line), NEW part \in 1 .. 2
  PROVE  Sum(weight, line, k, part) \in Int
<1> DEFINE N == Len(weight)
           a == Products(weight, line, k, part)
<1>1. N \in Nat
  OBVIOUS
<1>2. ASSUME NEW n \in 1 .. N PROVE weight[n] * line[k + n][part] \in Int
  <2>1. weight[n] \in Int
    OBVIOUS
  <2>2. k + n \in 1 .. Len(line)
    BY <1>1
  <2>3. line[k + n] \in Sample
    BY <2>2
  <2>4. line[k + n][part] \in Int
    BY <2>3 DEF Sample
  <2> QED BY <2>1, <2>4
<1>3. a \in [1 .. N -> Int]
  BY <1>2 DEF Products
<1>4. Sum(weight, line, k, part) = Total(a)
  BY DEF Sum, Products
<1> HIDE DEF a, N
<1>5. a \in Seq(Int) /\ Len(a) = N
  BY <1>1, <1>3, SequenceIs
<1>6. Totals(a) \in [0 .. Len(a) -> Int]
  BY <1>5, TotalsGo
<1>7. Len(a) \in 0 .. Len(a)
  BY <1>1, <1>5
<1> QED BY <1>4, <1>6, <1>7 DEF Total

\* A sum is the same over the same samples elsewhere.
LEMMA SumSame ==
  ASSUME NEW weight, NEW line, NEW k, NEW other, NEW m, NEW part,
         \A n \in 1 .. Len(weight) : line[k + n] = other[m + n]
  PROVE  Sum(weight, line, k, part) = Sum(weight, other, m, part)
<1>1. Products(weight, line, k, part) = Products(weight, other, m, part)
  BY Zenon DEF Products
<1> QED BY <1>1, Zenon DEF Sum, Products

\* The weights of a pass.
LEMMA BinomialIs == Binomial \in Seq(Int) /\ Len(Binomial) = 6
BY DEF Binomial

\* The weights of the droop compensation, for each row of the table.
LEMMA SymmetricIs ==
  ASSUME NEW passes \in 0 .. 10
  PROVE  Symmetric(passes) \in Seq(Int) /\ Len(Symmetric(passes)) = 9
<1> DEFINE row == cic_9_tables[passes]
           s == Symmetric(passes)
<1>1. ASSUME passes # 0, NEW n \in 1 .. 5 PROVE row[n] \in Int
  <2>1. passes \in {1, 2, 3, 4, 5, 6, 7, 8, 9, 10}
    BY <1>1
  <2>2. n \in {1, 2, 3, 4, 5}
    BY <1>1
  <2> QED BY <2>1, <2>2, SMT DEF cic_9_tables
<1> HIDE DEF row
<1>2. s = [n \in 1 .. 9 |-> IF passes = 0 THEN 0
                            ELSE row[IF n > 5 THEN 10 - n ELSE n]]
  BY DEF Symmetric, row
<1> HIDE DEF s
<1>3. ASSUME NEW n \in 1 .. 9
      PROVE  (IF passes = 0 THEN 0 ELSE row[IF n > 5 THEN 10 - n ELSE n]) \in Int
  <2>1. CASE passes = 0
    BY <2>1
  <2>2. CASE passes # 0 /\ n > 5
    <3>1. 10 - n \in 1 .. 5
      BY <2>2
    <3> QED BY <1>1, <2>2, <3>1
  <2>3. CASE passes # 0 /\ ~(n > 5)
    <3>1. n \in 1 .. 5
      BY <2>3
    <3> QED BY <1>1, <2>3, <3>1
  <2> QED BY <2>1, <2>2, <2>3
<1>4. s \in [1 .. 9 -> Int]
  BY <1>2, <1>3
<1> QED BY <1>4, SequenceIs, ZenonT(60) DEF s

\* What a pass adds up is a sample.
LEMMA LowPassIs ==
  ASSUME NEW line \in Seq(Sample), NEW k \in Nat, k + 6 <= Len(line)
  PROVE  LowPass(line, k) \in Sample
<1>1. ASSUME NEW part \in 1 .. 2
      PROVE  Wrap16(Sum(Binomial, line, k, part) \div 16) \in Int
  <2> DEFINE s == Sum(Binomial, line, k, part)
  <2>1. s \in Int
    BY BinomialIs, SumIs
  <2> HIDE DEF s
  <2>2. s \div 16 \in Int
    BY <2>1
  <2> QED BY <2>2, WrapIs DEF s
<1> QED BY <1>1 DEF LowPass, Sample

\* What the droop compensation adds up is a sample.
LEMMA CompensatedIs ==
  ASSUME NEW line \in Seq(Sample), NEW k \in Nat, k + 9 <= Len(line),
         NEW passes \in 0 .. 10
  PROVE  Compensated(line, k, passes) \in Sample
<1>1. ASSUME NEW part \in 1 .. 2
      PROVE  Wrap16(Sum(Symmetric(passes), line, k, part) \div 32768) \in Int
  <2> DEFINE s == Sum(Symmetric(passes), line, k, part)
  <2>1. s \in Int
    BY SymmetricIs, SumIs
  <2> HIDE DEF s
  <2>2. s \div 32768 \in Int
    BY <2>1, SMT
  <2> QED BY <2>2, WrapIs, SMT DEF s
<1> QED BY <1>1, SMT DEF Compensated, Sample

\* What a pass sees of a block.
LEMMA LineIs ==
  ASSUME NEW kept \in Seq(Sample), Len(kept) = 6,
         NEW data \in Seq(Sample), Len(data) >= 1
  PROVE  Line(kept, data) \in Seq(Sample) /\ Len(Line(kept, data)) = Len(data) + 4
<1> DEFINE rest == Tail(kept)
           N == Len(data)
<1>1. rest \in Seq(Sample) /\ Len(rest) = 5 /\ N \in Nat /\ N >= 1
  <2>1. rest \in Seq(Sample) /\ Len(rest) = 5
    OBVIOUS
  <2>2. N \in Nat /\ N >= 1
    OBVIOUS
  <2> QED BY <2>1, <2>2
<1>2. ASSUME NEW n \in 1 .. N - 1 PROVE data[n] \in Sample
  <2>1. n \in 1 .. N
    BY <1>1
  <2> QED BY <2>1
<1> DEFINE part == SubSeq(data, 1, N - 1)
<1>3. Line(kept, data) = rest \o part
  BY DEF Line
<1> HIDE DEF rest, N
<1>4. part \in Seq(Sample) /\ Len(part) = N - 1
  <2>1. 1 \in Int /\ N - 1 \in Int
    BY <1>1
  <2>2. part \in Seq(Sample)
    BY <1>2, <2>1, SubSeqProperties
  <2>3. Len(part) = IF 1 <= N - 1 THEN (N - 1) - 1 + 1 ELSE 0
    BY <1>2, <2>1, SubSeqProperties
  <2> HIDE DEF part
  <2> QED BY <1>1, <2>2, <2>3
<1> HIDE DEF part
<1>5. /\ rest \o part \in Seq(Sample)
      /\ Len(rest \o part) = Len(rest) + Len(part)
  <2>1. rest \in Seq(Sample) /\ part \in Seq(Sample)
    BY <1>1, <1>4
  <2> QED BY <2>1, ConcatProperties
<1> QED BY <1>1, <1>3, <1>4, <1>5 DEF N

\* Half of the samples come out of a pass.
LEMMA FifthOrderIs ==
  ASSUME NEW kept \in Seq(Sample), Len(kept) = 6,
         NEW data \in Seq(Sample), Len(data) >= 1
  PROVE  /\ FifthOrder(kept, data) \in Seq(Sample)
         /\ Len(FifthOrder(kept, data)) = Len(data) \div 2
<1> DEFINE line == Line(kept, data)
           N == Len(data) \div 2
<1>1. line \in Seq(Sample) /\ Len(line) = Len(data) + 4
  BY LineIs
<1>2. N \in Nat /\ 2 * N <= Len(data)
  OBVIOUS
<1> HIDE DEF line, N
<1>3. ASSUME NEW k \in 1 .. N PROVE LowPass(line, 2 * (k - 1)) \in Sample
  <2>1. 2 * (k - 1) \in Nat /\ 2 * (k - 1) + 6 <= Len(line)
    BY <1>1, <1>2
  <2> QED BY <1>1, <2>1, LowPassIs
<1>4. FifthOrder(kept, data) = [k \in 1 .. N |-> LowPass(line, 2 * (k - 1))]
  BY DEF FifthOrder, line, N
<1>5. FifthOrder(kept, data) \in [1 .. N -> Sample]
  BY <1>3, <1>4
<1> QED BY <1>2, <1>5, SequenceIs, ZenonT(60) DEF N

\* A pass keeps six samples.
LEMMA KeptIs ==
  ASSUME NEW kept \in Seq(Sample), Len(kept) = 6,
         NEW data \in Seq(Sample), Len(data) >= 2
  PROVE  Kept(kept, data) \in Seq(Sample) /\ Len(Kept(kept, data)) = 6
<1> DEFINE line == Line(kept, data)
<1>1. line \in Seq(Sample) /\ Len(line) = Len(data) + 4
  BY LineIs
<1>2. Kept(kept, data) = SubSeq(line, Len(line) - 5, Len(line))
  BY DEF Kept
<1> HIDE DEF line
<1> QED BY <1>1, <1>2

\* As many samples come out of the droop compensation as went in.
LEMMA GenericFirIs ==
  ASSUME NEW kept \in Seq(Sample), Len(kept) = 9, NEW data \in Seq(Sample),
         NEW passes \in 0 .. 10
  PROVE  /\ GenericFir(kept, data, passes) \in Seq(Sample)
         /\ Len(GenericFir(kept, data, passes)) = Len(data)
<1> DEFINE line == kept \o data
           N == Len(data)
<1>1. line \in Seq(Sample) /\ Len(line) = 9 + N /\ N \in Nat
  <2>1. N \in Nat
    OBVIOUS
  <2>2. line \in Seq(Sample) /\ Len(line) = Len(kept) + N
    BY ConcatProperties
  <2> QED BY <2>1, <2>2
<1> HIDE DEF line
<1>2. ASSUME NEW k \in 1 .. N PROVE Compensated(line, k - 1, passes) \in Sample
  <2>1. k - 1 \in Nat /\ (k - 1) + 9 <= Len(line)
    BY <1>1
  <2> QED BY <1>1, <2>1, CompensatedIs
<1>3. GenericFir(kept, data, passes) =
        [k \in 1 .. N |-> Compensated(line, k - 1, passes)]
  BY DEF GenericFir, line
<1> HIDE DEF N
<1>4. GenericFir(kept, data, passes) \in [1 .. N -> Sample]
  BY <1>2, <1>3
<1> QED BY <1>1, <1>4, SequenceIs DEF N

\* The droop compensation keeps nine samples.
LEMMA DroopKeptIs ==
  ASSUME NEW kept \in Seq(Sample), Len(kept) = 9, NEW data \in Seq(Sample)
  PROVE  DroopKept(kept, data) \in Seq(Sample) /\ Len(DroopKept(kept, data)) = 9
<1> DEFINE line == kept \o data
           N == Len(data)
<1>1. N \in Nat
  OBVIOUS
<1>2. line \in Seq(Sample) /\ Len(line) = 9 + N
  <2>1. line \in Seq(Sample) /\ Len(line) = Len(kept) + N
    BY ConcatProperties
  <2> HIDE DEF line, N
  <2> QED BY <1>1, <2>1
<1>3. DroopKept(kept, data) = SubSeq(line, N + 1, N + 9)
  BY DEF DroopKept
<1> HIDE DEF line, N
<1> QED BY <1>1, <1>2, <1>3

-----------------------------------------------------------------------------
(* Samples that are turned, received and demodulated.                       *)

\* A turned sample is a sample.
LEMMA TurnIs ==
  ASSUME NEW z \in Sample, NEW k \in Int
  PROVE  Turn(z, k) \in Sample
<1>1. z[1] \in Int /\ z[2] \in Int
  BY DEF Sample
<1>2. -z[1] \in Int /\ -z[2] \in Int
  BY <1>1
<1>3. Wrap16(-z[1]) \in Int /\ Wrap16(-z[2]) \in Int
  BY <1>2, WrapIs
<1>4. k % 4 \in {0, 1, 2, 3}
  OBVIOUS
<1>5. CASE k % 4 = 0
  BY <1>5 DEF Turn
<1>6. CASE k % 4 = 1
  <2>1. Turn(z, k) = <<Wrap16(-z[2]), z[1]>>
    BY <1>6 DEF Turn
  <2> QED BY <1>1, <1>3, <2>1, PairIs
<1>7. CASE k % 4 = 2
  <2>1. Turn(z, k) = <<Wrap16(-z[1]), Wrap16(-z[2])>>
    BY <1>7 DEF Turn
  <2> QED BY <1>1, <1>3, <2>1, PairIs
<1>8. CASE k % 4 = 3
  <2>1. Turn(z, k) = <<z[2], Wrap16(-z[1])>>
    BY <1>8 DEF Turn
  <2> QED BY <1>1, <1>3, <2>1, PairIs
<1> QED BY <1>4, <1>5, <1>6, <1>7, <1>8

\* The rotations keep the length of a block.
LEMMA RotatedIs ==
  ASSUME NEW c, NEW data \in Seq(Sample)
  PROVE  Rotated(c, data) \in Seq(Sample) /\ Len(Rotated(c, data)) = Len(data)
<1> DEFINE N == Len(data)
           K(n) == (n - 1) % 4
           T(n) == Turn(data[n], IF c = "left" THEN K(n) ELSE -K(n))
<1>1. ASSUME NEW n \in 1 .. N PROVE T(n) \in Sample
  <2>1. data[n] \in Sample /\ K(n) \in Int
    OBVIOUS
  <2>2. (IF c = "left" THEN K(n) ELSE -K(n)) \in Int
    BY <2>1
  <2> QED BY <2>1, <2>2, TurnIs
<1>2. Rotated(c, data) = [n \in 1 .. N |-> T(n)]
  BY DEF Rotated
<1> HIDE DEF T
<1>3. Rotated(c, data) \in [1 .. N -> Sample] /\ N \in Nat
  BY <1>1, <1>2
<1> HIDE DEF N
<1> QED BY <1>3, SequenceIs DEF N

\* What the antenna receives are samples.
LEMMA ByteIs ==
  ASSUME NEW signal \in Signals, NEW n \in Nat, plan.passes["both"] \in 0 .. 20
  PROVE  Byte(signal, n) \in Sample
<1> DEFINE factor == 2^plan.passes["both"]
<1>1. signal \in {"silence", "left", "right", "faint", "pulse", "steps"}
  BY SignalPathAssumption DEF SignalPathAssumption
<1>2. factor \in Nat \ {0} /\ factor + 1 \in Nat \ {0}
  <2> DEFINE p == plan.passes["both"]
  <2>1. p \in 0 .. 23
    OBVIOUS
  <2> HIDE DEF p
  <2>2. 2^p \in Nat \ {0}
    BY <2>1, Doubles
  <2> QED BY <2>2 DEF p
<1>3. Byte(signal, n) =
        CASE signal = "silence" -> Zero
          [] signal = "left" -> Turn(<<127, 0>>, -(n \div factor))
          [] signal = "right" -> Turn(<<127, 0>>, n \div factor)
          [] signal = "faint" -> Turn(<<6, 2>>, -(n \div (factor + 1)))
          [] signal = "pulse" ->
               IF (n + 1) % 64 = 0 THEN <<128, -127>> ELSE Zero
          [] signal = "steps" -> IF n % 48 < 20 THEN <<-127, 40>> ELSE <<9, 128>>
  BY DEF Byte
<1> HIDE DEF factor
<1>4. n \div factor \in Nat /\ n \div (factor + 1) \in Nat
  BY <1>2, Divides
<1>5. /\ Zero \in Sample /\ <<127, 0>> \in Sample /\ <<6, 2>> \in Sample
      /\ <<128, -127>> \in Sample /\ <<-127, 40>> \in Sample
      /\ <<9, 128>> \in Sample
  BY DEF Zero, Sample
<1>6. /\ Turn(<<127, 0>>, -(n \div factor)) \in Sample
      /\ Turn(<<127, 0>>, n \div factor) \in Sample
      /\ Turn(<<6, 2>>, -(n \div (factor + 1))) \in Sample
  <2>1. n \div factor \in Int /\ -(n \div factor) \in Int
        /\ -(n \div (factor + 1)) \in Int
    BY <1>4
  <2> DEFINE full == <<127, 0>>
             weak == <<6, 2>>
  <2>2. full \in Sample /\ weak \in Sample
    BY <1>5
  <2> HIDE DEF full, weak
  <2>3. /\ Turn(full, -(n \div factor)) \in Sample
        /\ Turn(full, n \div factor) \in Sample
        /\ Turn(weak, -(n \div (factor + 1))) \in Sample
    BY <2>1, <2>2, TurnIs
  <2> QED BY <2>3 DEF full, weak
<1>7. CASE signal = "silence"
  BY <1>3, <1>5, <1>7
<1>8. CASE signal = "left"
  BY <1>3, <1>6, <1>8
<1>9. CASE signal = "right"
  BY <1>3, <1>6, <1>9
<1>10. CASE signal = "faint"
  BY <1>3, <1>6, <1>10
<1>11. CASE signal = "pulse"
  BY <1>3, <1>5, <1>11
<1>12. CASE signal = "steps"
  BY <1>3, <1>5, <1>12
<1> QED BY <1>1, <1>7, <1>8, <1>9, <1>10, <1>11, <1>12

\* The discriminator is right to the octant, for any two samples.
LEMMA PolarIs ==
  ASSUME NEW a \in Sample, NEW b \in Sample
  PROVE  LET z == Product(a, b)
         IN /\ z[1] \in Int /\ z[2] \in Int
            /\ Within(PolarDiscFast(a, b), HalfTurn)
            /\ \/ TooStrong(z[2], z[1]) \/ z = Zero
               \/ InOctant(PolarDiscFast(a, b), z[2], z[1])
<1> DEFINE x == a[1] * b[1] + a[2] * b[2]
           y == a[2] * b[1] - a[1] * b[2]
<1>1. a[1] \in Int /\ a[2] \in Int /\ b[1] \in Int /\ b[2] \in Int
  BY DEF Sample
<1>2. x \in Int /\ y \in Int
  BY <1>1
<1>3. Product(a, b) = <<x, y>>
  BY DEF Product
<1> HIDE DEF x, y
<1>4. Product(a, b)[1] = x /\ Product(a, b)[2] = y
  BY <1>3
<1>5. PolarDiscFast(a, b) = FastAtan2(y, x)
  BY <1>4 DEF PolarDiscFast
<1>6. x = 0 /\ y = 0 => Product(a, b) = Zero
  BY <1>3 DEF Zero
<1>7. /\ Within(FastAtan2(y, x), HalfTurn)
      /\ TooStrong(y, x) \/ (x = 0 /\ y = 0) \/ InOctant(FastAtan2(y, x), y, x)
  BY <1>2, AngleIs
<1> QED BY <1>2, <1>4, <1>5, <1>6, <1>7

\* An angle for every sample of the block, from the one before.
LEMMA DemodulatedIs ==
  ASSUME NEW last \in Sample, NEW data \in Seq(Sample)
  PROVE  /\ Demodulated(last, data) \in Seq(Int)
         /\ Len(Demodulated(last, data)) = Len(data)
         /\ \A n \in 1 .. Len(data) :
              /\ Within(Demodulated(last, data)[n], HalfTurn)
              /\ Demodulated(last, data)[n] =
                   PolarDiscFast(data[n], IF n = 1 THEN last ELSE data[n - 1])
<1> DEFINE N == Len(data)
           B(n) == IF n = 1 THEN last ELSE data[n - 1]
           D == Demodulated(last, data)
<1>1. N \in Nat
  OBVIOUS
<1>2. ASSUME NEW n \in 1 .. N
      PROVE  data[n] \in Sample /\ B(n) \in Sample
  <2>1. CASE n = 1
    BY <2>1
  <2>2. CASE n # 1
    <3>1. n - 1 \in 1 .. N
      BY <2>2
    <3> QED BY <2>2, <3>1
  <2> QED BY <2>1, <2>2
<1>3. D = [n \in 1 .. N |-> PolarDiscFast(data[n], B(n))]
  BY DEF Demodulated
<1> HIDE DEF B, N, D
<1>4. ASSUME NEW n \in 1 .. N
      PROVE  Within(PolarDiscFast(data[n], B(n)), HalfTurn)
  BY <1>2, PolarIs
<1>5. ASSUME NEW n \in 1 .. N
      PROVE  D[n] = PolarDiscFast(data[n], B(n)) /\ Within(D[n], HalfTurn)
  BY <1>3, <1>4
<1>6. ASSUME NEW n \in 1 .. N PROVE PolarDiscFast(data[n], B(n)) \in Int
  BY <1>4 DEF Within
<1>7. D \in [1 .. N -> Int]
  BY <1>3, <1>6
<1>8. D \in Seq(Int) /\ Len(D) = N
  BY <1>1, <1>7, SequenceIs
<1> QED BY <1>5, <1>8 DEF N, D, B

-----------------------------------------------------------------------------
(* Blocks on their way.                                                     *)

Passes(f) == plan.passes[f]

\* Where demod_thread_fn may be.
PlaceIsRight ==
  /\ at.filter \in Filters \cup {"none"} /\ at.pass \in Nat
  /\ at.step \in {"idle", "filter", "rotate", "demodulate"}
  /\ at = [filter |-> at.filter, step |-> at.step, pass |-> at.pass]
  /\ at.filter = "none" <=> at.step = "idle"
  /\ at.filter = "none" => at = Idle
  /\ at.step = "filter" => at.pass \in 1 .. Passes(at.filter) + 1
  /\ at.step \in {"rotate", "demodulate"} => at.filter \in Channels /\ at.pass = 1
  /\ at # Idle => Fits

Block == Seq(Sample)

BlocksAreTyped ==
  /\ bufs \in [Filters -> Block]
  /\ droop \in [Filters -> Block]
  /\ \A f \in Filters : Len(droop[f]) = 9
  /\ pre \in [Channels -> Sample]
  /\ dc \in [Channels -> Int] /\ \A c \in Channels : BelowHalfTurn(dc[c])
  /\ pcm \in [Channels -> Seq(Int)]

\* The histories, and what was heard, by pass.
PassesAreTyped ==
  plan.outcome = "ok" =>
    /\ hist \in [Filters -> Seq(Block)]
    /\ heard \in [Filters -> Seq(Seq(Block))]
    /\ \A f \in Filters :
         /\ Len(hist[f]) = Passes(f) /\ Len(heard[f]) = Passes(f) + 2
         /\ \A p \in 1 .. Passes(f) : Len(hist[f][p]) = 6
         /\ \A p \in 1 .. Passes(f) + 2 :
              \A n \in 1 .. Len(heard[f][p]) : Len(heard[f][p][n]) > 0

\* The blocks are long enough for the passes to come.
LongEnough ==
  at # Idle =>
    /\ \A f \in Filters : \A p \in 1 .. Passes(f) + 1 : Step(f, "filter", p) =>
         Len(bufs[f]) >= 2^(Passes(f) + 1 - p
                            + IF f = "both" THEN Passes("left") ELSE 0)
    /\ \A c \in Channels : Step(c, "rotate", 1) => Len(bufs[c]) >= 2^Passes(c)
    /\ \A c \in Channels : Step(c, "demodulate", 1) => Len(bufs[c]) > 0
    /\ at.filter = "left" => Len(bufs["right"]) >= 2^Passes("right")

\* Before rtl_ais_main has read its options.
NotBefore ==
  plan.outcome = "none" =>
    /\ at = Idle
    /\ droop = [f \in Filters |-> [n \in 1 .. 9 |-> Zero]]
    /\ pre = [c \in Channels |-> Zero]
    /\ dc = [c \in Channels |-> 0]
    /\ pcm = [c \in Channels |-> <<>>]

\* The inductive invariant: what there is, and how long.
DataInv ==
  /\ PlanInv
  /\ PlaceIsRight
  /\ BlocksAreTyped
  /\ PassesAreTyped
  /\ LongEnough
  /\ NotBefore

\* The filters, one by one.
LEMMA FilterCases == \A f \in Filters : f \in {"both", "left", "right"}
BY DEF Filters, Channels

\* One entry of a table of sequences.
LEMMA EntryIs ==
  ASSUME NEW D, NEW V, NEW h \in [D -> Seq(V)], NEW f \in D,
         NEW p \in 1 .. Len(h[f]), NEW x \in V, NEW g,
         g = [h EXCEPT ![f][p] = x]
  PROVE  /\ g \in [D -> Seq(V)]
         /\ \A d \in D : Len(g[d]) = Len(h[d])
         /\ g[f][p] = x
         /\ \A q : q # p => g[f][q] = h[f][q]
         /\ \A d \in D : d # f => g[d] = h[d]
<1> DEFINE s == [h[f] EXCEPT ![p] = x]
<1>1. g = [h EXCEPT ![f] = s]
  OBVIOUS
<1>2. h[f] \in Seq(V)
  OBVIOUS
<1>3. s \in Seq(V) /\ Len(s) = Len(h[f])
  BY <1>2, ExceptSeq
<1>4. s[p] = x /\ \A q : q # p => s[q] = h[f][q]
  <2>1. h[f] \in [1 .. Len(h[f]) -> V]
    BY <1>2, LenProperties
  <2> QED BY <2>1
<1> HIDE DEF s
<1>5. g[f] = s /\ \A d \in D : d # f => g[d] = h[d]
  BY <1>1
<1>6. \A d \in D : Len(g[d]) = Len(h[d])
  BY <1>3, <1>5
<1>7. g \in [D -> Seq(V)]
  BY <1>1, <1>3
<1> QED BY <1>4, <1>5, <1>6, <1>7

\* An accepted configuration that the model follows.
LEMMA FitsIs ==
  ASSUME PlanInv, Fits
  PROVE  /\ plan.outcome = "ok"
         /\ \A f \in Filters : Passes(f) \in 0 .. 10
         /\ Passes("right") = Passes("left")
         /\ Samples \in Nat
         /\ Samples >= 2^(Passes("both") + Passes("left"))
<1> DEFINE b == Passes("both")
           l == Passes("left")
<1>1. PlanIs(plan) /\ plan.outcome = "ok" /\ plan.result_len > 1
  BY DEF PlanInv, Fits
<1>2. /\ b \in 0 .. 20 /\ l \in 0 .. 21 /\ b + l <= 21
      /\ plan.passes = [f \in Filters |-> IF f = "both" THEN b ELSE l]
      /\ plan.result_len = (BlockLength \div 2^(b + l)) \div 2
  BY <1>1 DEF PlanIs, Passes
<1>3. Len(cic_9_tables) = 10
  BY DEF cic_9_tables
<1>4. \A f \in Filters : Passes(f) <= 10
  BY <1>3 DEF Fits, Passes
<1>5. Passes("right") = l
  BY <1>2 DEF Passes, Filters, Channels
<1>6. ASSUME NEW f \in Filters PROVE Passes(f) \in 0 .. 10
  BY <1>2, <1>4, <1>5, FilterCases
<1> HIDE DEF b, l
<1> DEFINE M == 2^(b + l)
<1>7. M \in Nat \ {0}
  <2> DEFINE n == b + l
  <2>1. n \in 0 .. 23
    BY <1>2
  <2> HIDE DEF n
  <2>2. 2^n \in Nat \ {0}
    BY <2>1, Doubles
  <2> QED BY <2>2 DEF n
<1>8. BlockLength \in Nat /\ Samples \in Nat /\ BlockLength <= 2 * Samples + 1
  BY SignalPathAssumption DEF SignalPathAssumption, Samples
<1> HIDE DEF M
<1>9. Samples >= M
  <2> DEFINE q == BlockLength \div M
  <2>1. q \in Nat /\ BlockLength >= q * M
    BY <1>7, <1>8, Divides
  <2>2. plan.result_len = q \div 2
    BY <1>2 DEF M
  <2> HIDE DEF q
  <2>3. q >= 4
    BY <1>1, <2>1, <2>2
  <2>4. q * M >= 4 * M
    BY <1>7, <2>1, <2>3
  <2> DEFINE r == q * M
  <2>5. r \in Nat
    BY <1>7, <2>1
  <2> HIDE DEF r
  <2>6. BlockLength >= r /\ r >= 4 * M
    BY <2>1, <2>4 DEF r
  <2> QED BY <1>7, <1>8, <2>5, <2>6
<1> QED BY <1>1, <1>5, <1>6, <1>8, <1>9 DEF b, l, M

\* Half of so many samples.
LEMMA HalfIs ==
  ASSUME NEW n \in Nat, NEW e \in 1 .. 23, n >= 2^e
  PROVE  n \div 2 >= 2^(e - 1) /\ n >= 2
<1> DEFINE d == e - 1
<1>1. d \in 0 .. 23 /\ d + 1 = e
  OBVIOUS
<1> HIDE DEF d
<1>2. 2^d \in Nat \ {0} /\ 2^(d + 1) = 2 * 2^d
  BY <1>1, Doubles
<1> DEFINE x == 2^d
<1>3. x \in Nat \ {0} /\ n >= 2 * x
  BY <1>1, <1>2
<1> HIDE DEF x
<1>4. n \div 2 >= x /\ n >= 2
  BY <1>3
<1> QED BY <1>4 DEF x, d

\* Empty blocks and histories are well-formed.
LEMMA DataStarts == SignalInit => DataInv
<1> SUFFICES ASSUME SignalInit PROVE DataInv
  OBVIOUS
<1> USE DEF SignalInit
<1>1. PlanInv
  BY PlanStarts
<1>2. PlaceIsRight
  BY DEF PlaceIsRight, Idle
<1>3. Zero \in Sample /\ <<>> \in Block
  BY DEF Zero, Sample, Block
<1>4. ASSUME NEW z \in Sample
      PROVE  [n \in 1 .. 9 |-> z] \in Block /\ Len([n \in 1 .. 9 |-> z]) = 9
  BY SequenceIs DEF Block
<1>5. BlocksAreTyped
  <2>1. bufs \in [Filters -> Block]
    BY <1>3
  <2>2. droop \in [Filters -> Block] /\ \A f \in Filters : Len(droop[f]) = 9
    BY <1>3, <1>4
  <2>3. pre \in [Channels -> Sample] /\ dc \in [Channels -> Int]
    BY <1>3
  <2>4. pcm \in [Channels -> Seq(Int)]
    OBVIOUS
  <2>5. \A c \in Channels : BelowHalfTurn(dc[c])
    <3>1. BelowHalfTurn(0)
      BY SMT DEF BelowHalfTurn, HalfTurn
    <3> QED BY <3>1
  <2> QED BY <2>1, <2>2, <2>3, <2>4, <2>5 DEF BlocksAreTyped
<1>6. PassesAreTyped
  BY DEF PassesAreTyped
<1>7. LongEnough
  BY DEF LongEnough
<1>8. NotBefore
  BY DEF NotBefore
<1> QED BY <1>1, <1>2, <1>5, <1>6, <1>7, <1>8 DEF DataInv

\* One more block.
LEMMA AppendIs ==
  ASSUME NEW h \in Seq(Block), \A n \in 1 .. Len(h) : Len(h[n]) > 0,
         NEW d \in Block, Len(d) > 0
  PROVE  /\ Append(h, d) \in Seq(Block)
         /\ Len(Append(h, d)) = Len(h) + 1
         /\ Append(h, d)[Len(h) + 1] = d
         /\ \A n \in 1 .. Len(h) : Append(h, d)[n] = h[n]
         /\ \A n \in 1 .. Len(Append(h, d)) : Len(Append(h, d)[n]) > 0
<1>1. Append(h, d) \in Seq(Block) /\ Len(Append(h, d)) = Len(h) + 1
  OBVIOUS
<1>2. Append(h, d)[Len(h) + 1] = d /\ Len(h) \in Nat
  OBVIOUS
<1>3. \A n \in 1 .. Len(h) : Append(h, d)[n] = h[n]
  OBVIOUS
<1>4. ASSUME NEW n \in 1 .. Len(h) + 1 PROVE Len(Append(h, d)[n]) > 0
  <2>1. CASE n = Len(h) + 1
    BY <1>2, <2>1
  <2>2. CASE n # Len(h) + 1
    <3>1. n \in 1 .. Len(h)
      BY <1>2, <2>2
    <3> QED BY <1>3, <3>1
  <2> QED BY <2>1, <2>2
<1>5. \A n \in 1 .. Len(Append(h, d)) : Len(Append(h, d)[n]) > 0
  BY <1>1, <1>4
<1> QED BY <1>1, <1>2, <1>3, <1>5

\* What is known of the filter that a step is about.
LEMMA AtFilter ==
  ASSUME DataInv, NEW f \in Filters, NEW p \in 1 .. Passes(f) + 1,
         Step(f, "filter", p)
  PROVE  /\ Fits /\ plan.outcome = "ok"
         /\ Passes(f) \in 0 .. 10
         /\ bufs[f] \in Block /\ Len(bufs[f]) \in Nat
         /\ Passes(f) + 1 - p + (IF f = "both" THEN Passes("left") ELSE 0) \in 0 .. 22
         /\ Len(bufs[f]) >= 2^(Passes(f) + 1 - p
                               + IF f = "both" THEN Passes("left") ELSE 0)
         /\ at = [filter |-> f, step |-> "filter", pass |-> p]
<1>1. at = [filter |-> f, step |-> "filter", pass |-> p] /\ at # Idle
  BY DEF Step, Idle
<1>2. Fits
  BY <1>1 DEF DataInv, PlaceIsRight
<1>3. /\ plan.outcome = "ok" /\ \A g \in Filters : Passes(g) \in 0 .. 10
  BY <1>2, FitsIs DEF DataInv
<1>4. "left" \in Filters
  BY DEF Filters, Channels
<1>5. bufs[f] \in Block /\ Len(bufs[f]) \in Nat
  <2>1. bufs[f] \in Block
    BY DEF DataInv, BlocksAreTyped
  <2> QED BY <2>1 DEF Block
<1>6. Passes(f) + 1 - p + (IF f = "both" THEN Passes("left") ELSE 0) \in 0 .. 22
  <2>1. Passes(f) \in 0 .. 10 /\ Passes("left") \in 0 .. 10
    BY <1>3, <1>4
  <2> QED BY <2>1
<1>7. Len(bufs[f]) >= 2^(Passes(f) + 1 - p
                         + IF f = "both" THEN Passes("left") ELSE 0)
  BY <1>1, Zenon DEF DataInv, LongEnough
<1> QED BY <1>1, <1>2, <1>3, <1>5, <1>6, <1>7

\* The filter that a step is about is in its place.
LEMMA PlaceOfFilter ==
  ASSUME DataInv, NEW f \in Filters, NEW p, Step(f, "filter", p)
  PROVE  p \in 1 .. Passes(f) + 1
BY DEF DataInv, PlaceIsRight, Step

\* A block of bytes comes: it is as long as the first filter needs.
LEMMA ReceiveKeeps ==
  ASSUME DataInv, NEW signal \in Signals, Receive(signal)
  PROVE  DataInv'
<1> DEFINE data == [n \in 1 .. Samples |-> Byte(signal, n - 1)]
<1>1. /\ Fits /\ at = Idle
      /\ bufs' = [bufs EXCEPT !["both"] = data]
      /\ at' = [filter |-> "both", step |-> "filter", pass |-> 1]
      /\ UNCHANGED <<plan, hist, droop, pre, dc, pcm, heard>>
  BY DEF Receive, GoTo
<1>2. /\ plan.outcome = "ok" /\ \A g \in Filters : Passes(g) \in 0 .. 10
      /\ Samples \in Nat /\ Samples >= 2^(Passes("both") + Passes("left"))
  BY <1>1, FitsIs DEF DataInv
<1>3. "both" \in Filters /\ "left" \in Filters
  BY DEF Filters, Channels
<1>4. data \in Block /\ Len(data) = Samples
  <2>1. plan.passes["both"] \in 0 .. 20
    BY <1>2, <1>3 DEF Passes
  <2>2. ASSUME NEW n \in 1 .. Samples PROVE Byte(signal, n - 1) \in Sample
    <3>1. n - 1 \in Nat
      BY <1>2
    <3> QED BY <2>1, <3>1, ByteIs
  <2>3. data \in [1 .. Samples -> Sample]
    BY <2>2
  <2> QED BY <1>2, <2>3, SequenceIs DEF Block
<1> HIDE DEF data
<1>5. bufs \in [Filters -> Block] /\ bufs'["both"] = data
  BY <1>1, <1>3 DEF DataInv, BlocksAreTyped
<1>6. PlanInv'
  BY <1>1 DEF DataInv, PlanInv, PlanIs
<1>7. PlaceIsRight'
  <2>1. Fits'
    BY <1>1 DEF Fits
  <2>2. Passes("both")' = Passes("both") /\ Passes("both") \in Nat
    BY <1>1, <1>2, <1>3 DEF Passes
  <2>3. 1 \in 1 .. Passes("both")' + 1
    BY <2>2
  <2> QED BY <1>1, <1>3, <2>1, <2>3 DEF PlaceIsRight
<1>8. BlocksAreTyped'
  BY <1>1, <1>4, <1>5 DEF DataInv, BlocksAreTyped
<1>9. PassesAreTyped'
  BY <1>1 DEF DataInv, PassesAreTyped, Passes
<1>10. LongEnough'
  <2>1. ASSUME NEW f \in Filters, NEW p \in 1 .. Passes(f)' + 1,
               Step(f, "filter", p)'
        PROVE  Len(bufs[f])' >= 2^(Passes(f)' + 1 - p
                                + IF f = "both" THEN Passes("left")' ELSE 0)
    <3>1. f = "both" /\ p = 1
      BY <1>1, <2>1 DEF Step
    <3>2. Passes("both") + 1 - 1 + Passes("left") = Passes("both") + Passes("left")
      BY <1>2, <1>3
    <3>3. Passes("both")' = Passes("both") /\ Passes("left")' = Passes("left")
      BY <1>1 DEF Passes
    <3>4. Len(bufs["both"])' = Samples
      BY <1>4, <1>5
    <3>5. Samples >= 2^(Passes("both") + 1 - 1 + Passes("left"))
      BY <1>2, <3>2
    <3> QED BY <3>1, <3>3, <3>4, <3>5
  <2>2. \A c \in Channels : ~Step(c, "rotate", 1)' /\ ~Step(c, "demodulate", 1)'
    BY <1>1 DEF Step
  <2>3. at'.filter # "left"
    BY <1>1
  <2> QED BY <2>1, <2>2, <2>3, Zenon DEF LongEnough
<1>11. NotBefore'
  BY <1>1, <1>2 DEF NotBefore
<1> QED BY <1>6, <1>7, <1>8, <1>9, <1>10, <1>11 DEF DataInv

\* The rotation of a channel changes nothing but the block.
LEMMA RotateKeeps ==
  ASSUME DataInv, NEW c \in Channels, Rotate(c)
  PROVE  DataInv'
<1>1. /\ at = [filter |-> c, step |-> "rotate", pass |-> 1]
      /\ bufs' = [bufs EXCEPT ![c] = Rotated(c, bufs[c])]
      /\ at' = [filter |-> c, step |-> "filter", pass |-> 1]
      /\ UNCHANGED <<plan, hist, droop, pre, dc, pcm, heard>>
  BY DEF Rotate, GoTo, Step
<1>2. at # Idle /\ Fits
  BY <1>1 DEF DataInv, PlaceIsRight, Idle
<1>3. plan.outcome = "ok" /\ \A g \in Filters : Passes(g) \in 0 .. 10
  BY <1>2, FitsIs DEF DataInv
<1>4. c \in Filters /\ c # "both" /\ "right" \in Filters
  BY DEF Filters, Channels
<1>5. bufs \in [Filters -> Block] /\ bufs[c] \in Seq(Sample)
  BY <1>4 DEF DataInv, BlocksAreTyped, Block
<1> DEFINE data == Rotated(c, bufs[c])
<1>6. data \in Block /\ Len(data) = Len(bufs[c])
  BY <1>5, RotatedIs DEF Block
<1> HIDE DEF data
<1>7. bufs' = [bufs EXCEPT ![c] = data]
  BY <1>1 DEF data
<1>8. bufs'[c] = data /\ \A g \in Filters : g # c => bufs'[g] = bufs[g]
  BY <1>4, <1>5, <1>7
<1>9. PlanInv'
  BY <1>1 DEF DataInv, PlanInv, PlanIs
<1>10. PlaceIsRight'
  <2>1. Fits'
    BY <1>1, <1>2 DEF Fits
  <2>2. Passes(c)' = Passes(c) /\ Passes(c) \in Nat
    BY <1>1, <1>3, <1>4 DEF Passes
  <2>3. 1 \in 1 .. Passes(c)' + 1
    BY <2>2
  <2>4. c # "none"
    BY DEF Channels
  <2> QED BY <1>1, <1>4, <2>1, <2>3, <2>4 DEF PlaceIsRight
<1>11. BlocksAreTyped'
  BY <1>1, <1>5, <1>6, <1>7 DEF DataInv, BlocksAreTyped
<1>12. PassesAreTyped'
  BY <1>1 DEF DataInv, PassesAreTyped, Passes
<1>13. LongEnough'
  <2>1. ASSUME NEW f \in Filters, NEW p \in 1 .. Passes(f)' + 1,
               Step(f, "filter", p)'
        PROVE  Len(bufs[f])' >= 2^(Passes(f)' + 1 - p
                                + IF f = "both" THEN Passes("left")' ELSE 0)
    <3>1. f = c /\ p = 1
      BY <1>1, <2>1 DEF Step
    <3>2. Passes(c) + 1 - 1 + 0 = Passes(c)
      BY <1>3, <1>4
    <3>3. Passes(c)' = Passes(c)
      BY <1>1 DEF Passes
    <3>4. Len(bufs[c])' = Len(bufs[c])
      BY <1>6, <1>8
    <3>5. Step(c, "rotate", 1)
      BY <1>1 DEF Step
    <3>6. Len(bufs[c]) >= 2^Passes(c)
      BY <1>2, <3>5 DEF DataInv, LongEnough
    <3>7. Len(bufs[c]) >= 2^(Passes(c) + 1 - 1 + 0)
      BY <3>2, <3>6
    <3> QED BY <1>4, <3>1, <3>3, <3>4, <3>7
  <2>2. \A d \in Channels : ~Step(d, "rotate", 1)' /\ ~Step(d, "demodulate", 1)'
    BY <1>1 DEF Step
  <2>3. at'.filter = "left" => Len(bufs["right"])' >= 2^Passes("right")'
    <3> SUFFICES ASSUME c = "left" PROVE Len(bufs["right"])' >= 2^Passes("right")'
      BY <1>1
    <3>1. Len(bufs["right"]) >= 2^Passes("right")
      BY <1>1, <1>2 DEF DataInv, LongEnough
    <3>2. Passes("right")' = Passes("right") /\ bufs'["right"] = bufs["right"]
      BY <1>1, <1>4, <1>8 DEF Passes
    <3> QED BY <3>1, <3>2
  <2> QED BY <2>1, <2>2, <2>3, Zenon DEF LongEnough
<1>14. NotBefore'
  BY <1>1, <1>3 DEF NotBefore
<1> QED BY <1>9, <1>10, <1>11, <1>12, <1>13, <1>14 DEF DataInv

\* A pass, and what it changes: half of the samples are left, enough for the
\* passes to come.
LEMMA PassKeeps ==
  ASSUME DataInv, NEW f \in Filters, NEW p, Pass(f, p)
  PROVE  /\ DataInv'
         /\ p \in 1 .. Passes(f) /\ Passes(f) \in 0 .. 10
         /\ bufs[f] \in Seq(Sample) /\ Len(bufs[f]) >= 2
         /\ hist[f][p] \in Seq(Sample) /\ Len(hist[f][p]) = 6
         /\ hist'[f][p] = Kept(hist[f][p], bufs[f])
         /\ heard'[f][p] = Append(heard[f][p], bufs[f])
         /\ bufs'[f] = FifthOrder(hist[f][p], bufs[f])
         /\ \A g \in Filters : g # f =>
              hist'[g] = hist[g] /\ heard'[g] = heard[g] /\ bufs'[g] = bufs[g]
         /\ \A q : q # p => hist'[f][q] = hist[f][q] /\ heard'[f][q] = heard[f][q]
<1>1. /\ Step(f, "filter", p) /\ p <= Passes(f)
      /\ bufs' = [bufs EXCEPT ![f] = FifthOrder(hist[f][p], bufs[f])]
      /\ hist' = [hist EXCEPT ![f][p] = Kept(hist[f][p], bufs[f])]
      /\ heard' = [heard EXCEPT ![f][p] = Append(heard[f][p], bufs[f])]
      /\ at' = [filter |-> f, step |-> "filter", pass |-> p + 1]
      /\ UNCHANGED <<plan, blocks, droop, pre, dc, pcm>>
  BY DEF Pass, Hears, GoTo, Passes
<1>2. p \in 1 .. Passes(f) + 1
  BY <1>1, PlaceOfFilter
<1> DEFINE x == IF f = "both" THEN Passes("left") ELSE 0
           e == Passes(f) + 1 - p + x
<1>3. /\ Fits /\ plan.outcome = "ok" /\ Passes(f) \in 0 .. 10
      /\ bufs[f] \in Block /\ Len(bufs[f]) \in Nat
      /\ e \in 0 .. 22 /\ Len(bufs[f]) >= 2^e
      /\ at = [filter |-> f, step |-> "filter", pass |-> p]
  BY <1>1, <1>2, AtFilter
<1>4. p \in 1 .. Passes(f)
  BY <1>1, <1>2, <1>3
<1>5. x \in Nat
  <2>1. "left" \in Filters
    BY DEF Filters, Channels
  <2>2. Passes("left") \in 0 .. 10
    BY <1>3, <2>1, FitsIs DEF DataInv
  <2> QED BY <2>2
<1>6. e \in 1 .. 23 /\ Passes(f) + 1 - (p + 1) + x = e - 1
  <2> DEFINE P == Passes(f)
  <2>1. P \in Nat /\ p \in Nat /\ p <= P /\ e \in 0 .. 22
    BY <1>3, <1>4
  <2> HIDE DEF x, P
  <2>2. e = P + 1 - p + x
    BY DEF P
  <2>3. e >= 1 /\ P + 1 - (p + 1) + x = e - 1
    BY <1>5, <2>1, <2>2
  <2> HIDE DEF e
  <2>4. e \in 1 .. 23
    BY <2>1, <2>3
  <2> QED BY <2>3, <2>4 DEF P
<1> HIDE DEF e
<1>7. Len(bufs[f]) \div 2 >= 2^(e - 1) /\ Len(bufs[f]) >= 2
  BY <1>3, <1>6, HalfIs
<1>8. /\ hist \in [Filters -> Seq(Block)] /\ Len(hist[f]) = Passes(f)
      /\ heard \in [Filters -> Seq(Seq(Block))] /\ Len(heard[f]) = Passes(f) + 2
      /\ Len(hist[f][p]) = 6
      /\ bufs \in [Filters -> Block]
  BY <1>3, <1>4 DEF DataInv, PassesAreTyped, BlocksAreTyped
<1>9. /\ hist[f][p] \in Block /\ heard[f][p] \in Seq(Block)
      /\ p \in 1 .. Len(hist[f]) /\ p \in 1 .. Len(heard[f])
  <2>1. hist[f] \in Seq(Block) /\ heard[f] \in Seq(Seq(Block))
    BY <1>8
  <2>2. p \in 1 .. Len(hist[f]) /\ p \in 1 .. Len(heard[f])
    BY <1>3, <1>4, <1>8
  <2> QED BY <2>1, <2>2
<1> DEFINE data == FifthOrder(hist[f][p], bufs[f])
           kept == Kept(hist[f][p], bufs[f])
           ins == Append(heard[f][p], bufs[f])
<1>10. data \in Block /\ Len(data) = Len(bufs[f]) \div 2
  BY <1>3, <1>7, <1>8, <1>9, FifthOrderIs, SMTT(60) DEF Block
<1>11. kept \in Block /\ Len(kept) = 6
  BY <1>3, <1>7, <1>8, <1>9, KeptIs DEF Block
<1>12. /\ ins \in Seq(Block)
       /\ \A n \in 1 .. Len(ins) : Len(ins[n]) > 0
  <2>1. \A n \in 1 .. Len(heard[f][p]) : Len(heard[f][p][n]) > 0
    <3>1. p \in 1 .. Passes(f) + 2
      BY <1>3, <1>4
    <3> QED BY <1>3, <3>1 DEF DataInv, PassesAreTyped
  <2>2. heard[f][p] \in Seq(Block) /\ bufs[f] \in Block /\ Len(bufs[f]) > 0
    BY <1>3, <1>7, <1>9
  <2> QED BY <2>1, <2>2, AppendIs
<1> HIDE DEF data, kept, ins
<1>13. /\ hist' \in [Filters -> Seq(Block)]
       /\ \A g \in Filters : Len(hist'[g]) = Len(hist[g])
       /\ hist'[f][p] = kept
       /\ \A q : q # p => hist'[f][q] = hist[f][q]
       /\ \A g \in Filters : g # f => hist'[g] = hist[g]
  <2>1. hist' = [hist EXCEPT ![f][p] = kept]
    BY <1>1 DEF kept
  <2> QED BY <1>8, <1>9, <1>11, <2>1, EntryIs
<1>14. /\ heard' \in [Filters -> Seq(Seq(Block))]
       /\ \A g \in Filters : Len(heard'[g]) = Len(heard[g])
       /\ heard'[f][p] = ins
       /\ \A q : q # p => heard'[f][q] = heard[f][q]
       /\ \A g \in Filters : g # f => heard'[g] = heard[g]
  <2>1. heard' = [heard EXCEPT ![f][p] = ins]
    BY <1>1 DEF ins
  <2> QED BY <1>8, <1>9, <1>12, <2>1, EntryIs
<1>15. /\ bufs' \in [Filters -> Block]
       /\ bufs'[f] = data
       /\ \A g \in Filters : g # f => bufs'[g] = bufs[g]
  <2>1. bufs' = [bufs EXCEPT ![f] = data]
    BY <1>1 DEF data
  <2> QED BY <1>8, <1>10, <2>1
<1>16. \A g : Passes(g)' = Passes(g)
  BY <1>1 DEF Passes
<1>17. PlanInv'
  BY <1>1 DEF DataInv, PlanInv, PlanIs
<1>18. PlaceIsRight'
  <2>1. Fits'
    BY <1>1, <1>3 DEF Fits
  <2>2. p + 1 \in 1 .. Passes(f)' + 1 /\ p + 1 \in Nat
    BY <1>3, <1>4, <1>16
  <2>3. f # "none"
    BY DEF Filters, Channels
  <2> QED BY <1>1, <2>1, <2>2, <2>3 DEF PlaceIsRight
<1>19. BlocksAreTyped'
  BY <1>1, <1>15 DEF DataInv, BlocksAreTyped
<1>20. PassesAreTyped'
  <2>1. ASSUME NEW g \in Filters
        PROVE  Len(hist'[g]) = Passes(g) /\ Len(heard'[g]) = Passes(g) + 2
    BY <1>3, <1>13, <1>14 DEF DataInv, PassesAreTyped
  <2>2. ASSUME NEW g \in Filters, NEW q \in 1 .. Passes(g)
        PROVE  Len(hist'[g][q]) = 6
    <3>1. CASE g = f /\ q = p
      BY <1>11, <1>13, <3>1
    <3>2. CASE ~(g = f /\ q = p)
      <4>1. hist'[g][q] = hist[g][q]
        BY <1>13, <3>2
      <4> QED BY <1>3, <4>1 DEF DataInv, PassesAreTyped
    <3> QED BY <3>1, <3>2
  <2>3. ASSUME NEW g \in Filters, NEW q \in 1 .. Passes(g) + 2
        PROVE  \A n \in 1 .. Len(heard'[g][q]) : Len(heard'[g][q][n]) > 0
    <3>1. CASE g = f /\ q = p
      BY <1>12, <1>14, <3>1
    <3>2. CASE ~(g = f /\ q = p)
      <4>1. heard'[g][q] = heard[g][q]
        BY <1>14, <3>2
      <4> QED BY <1>3, <4>1 DEF DataInv, PassesAreTyped
    <3> QED BY <3>1, <3>2
  <2>4. hist' \in [Filters -> Seq(Block)] /\ heard' \in [Filters -> Seq(Seq(Block))]
    BY <1>13, <1>14
  <2> QED BY <1>16, <2>1, <2>2, <2>3, <2>4, Zenon DEF PassesAreTyped
<1>21. LongEnough'
  <2>1. ASSUME NEW g \in Filters, NEW q \in 1 .. Passes(g)' + 1,
               Step(g, "filter", q)'
        PROVE  Len(bufs[g])' >= 2^(Passes(g)' + 1 - q
                                + IF g = "both" THEN Passes("left")' ELSE 0)
    <3>1. g = f /\ q = p + 1
      BY <1>1, <2>1 DEF Step
    <3>2. Len(bufs'[f]) >= 2^(e - 1)
      BY <1>7, <1>10, <1>15
    <3>3. Len(bufs'[f]) >= 2^(Passes(f) + 1 - (p + 1) + x)
      BY <1>6, <3>2
    <3> HIDE DEF x
    <3>4. x = IF f = "both" THEN Passes("left") ELSE 0
      BY DEF x
    <3> QED BY <1>16, <3>1, <3>3, <3>4
  <2>2. \A d \in Channels : ~Step(d, "rotate", 1)' /\ ~Step(d, "demodulate", 1)'
    BY <1>1 DEF Step
  <2>3. at'.filter = "left" => Len(bufs["right"])' >= 2^Passes("right")'
    <3> SUFFICES ASSUME f = "left" PROVE Len(bufs["right"])' >= 2^Passes("right")'
      BY <1>1
    <3>1. Len(bufs["right"]) >= 2^Passes("right")
      <4>1. at.filter = "left" /\ at # Idle
        BY <1>3 DEF Idle
      <4> QED BY <4>1 DEF DataInv, LongEnough
    <3>2. bufs'["right"] = bufs["right"]
      BY <1>15 DEF Filters, Channels
    <3> QED BY <1>16, <3>1, <3>2
  <2> QED BY <2>1, <2>2, <2>3, Zenon DEF LongEnough
<1>22. NotBefore'
  BY <1>1, <1>3 DEF NotBefore
<1>23. DataInv'
  BY <1>17, <1>18, <1>19, <1>20, <1>21, <1>22 DEF DataInv
<1>24. bufs[f] \in Seq(Sample) /\ hist[f][p] \in Seq(Sample)
  BY <1>3, <1>9 DEF Block
<1> QED BY <1>3, <1>4, <1>7, <1>8, <1>13, <1>14, <1>15, <1>23, <1>24
        DEF data, kept, ins

\* The droop compensation, and what it changes.
LEMMA DroopKeeps ==
  ASSUME DataInv, NEW f \in Filters, Droop(f)
  PROVE  LET P == Passes(f)
             data == GenericFir(droop[f], bufs[f], P)
         IN /\ DataInv'
            /\ Step(f, "filter", P + 1)
            /\ P \in 0 .. 10
            /\ bufs[f] \in Seq(Sample) /\ Len(bufs[f]) > 0
            /\ droop[f] \in Seq(Sample) /\ Len(droop[f]) = 9
            /\ data \in Block /\ Len(data) = Len(bufs[f])
            /\ droop'[f] = DroopKept(droop[f], bufs[f])
            /\ heard'[f][P + 1] = Append(heard[f][P + 1], bufs[f])
            /\ heard'[f][P + 2] = Append(heard[f][P + 2], data)
            /\ \A q : q \notin {P + 1, P + 2} => heard'[f][q] = heard[f][q]
            /\ \A g \in Filters : g # f =>
                 droop'[g] = droop[g] /\ heard'[g] = heard[g]
            /\ \A g \in Filters :
                 bufs'[g] = IF f \in {g, "both"} THEN data ELSE bufs[g]
<1> DEFINE P == Passes(f)
           data == GenericFir(droop[f], bufs[f], P)
           mid == [heard EXCEPT ![f][P + 1] = Append(heard[f][P + 1], bufs[f])]
<1>1. /\ Step(f, "filter", P + 1)
      /\ bufs' = [g \in Filters |-> IF f \in {g, "both"} THEN data ELSE bufs[g]]
      /\ droop' = [droop EXCEPT ![f] = DroopKept(droop[f], bufs[f])]
      /\ at' = IF f = "both" THEN [filter |-> "left", step |-> "rotate", pass |-> 1]
               ELSE [filter |-> f, step |-> "demodulate", pass |-> 1]
      /\ UNCHANGED <<plan, blocks, hist, pre, dc, pcm>>
  BY DEF Droop, GoTo, Passes
<1>2. P + 1 \in 1 .. P + 1
  <2>1. P + 1 \in 1 .. Passes(f) + 1
    BY <1>1, PlaceOfFilter
  <2> QED BY <2>1
<1> DEFINE x == IF f = "both" THEN Passes("left") ELSE 0
<1>3. /\ Fits /\ plan.outcome = "ok" /\ P \in 0 .. 10
      /\ bufs[f] \in Block /\ Len(bufs[f]) \in Nat
      /\ P + 1 - (P + 1) + x \in 0 .. 22
      /\ Len(bufs[f]) >= 2^(P + 1 - (P + 1) + x)
      /\ at = [filter |-> f, step |-> "filter", pass |-> P + 1]
  BY <1>1, <1>2, AtFilter
<1>4. heard' = [mid EXCEPT ![f][P + 2] = Append(mid[f][P + 2], data)]
  <2>1. P + 1 + 1 = P + 2
    BY <1>3
  <2>2. heard' = Hears(Hears(heard, f, P + 1, bufs[f]), f, P + 1 + 1, data)
    BY DEF Droop, Passes
  <2>3. Hears(heard, f, P + 1, bufs[f]) = mid
    BY DEF Hears
  <2>4. heard' = Hears(mid, f, P + 2, data)
    BY <2>1, <2>2, <2>3
  <2> HIDE DEF P, data, mid
  <2> QED BY <2>4 DEF Hears
<1>5. x \in 0 .. 10 /\ P + 1 - (P + 1) + x = x
  <2>1. "left" \in Filters
    BY DEF Filters, Channels
  <2>2. Passes("left") \in 0 .. 10
    BY <1>3, <2>1, FitsIs DEF DataInv
  <2>3. x \in 0 .. 10
    BY <2>2
  <2> HIDE DEF x
  <2> QED BY <1>3, <2>3
<1>6. Len(bufs[f]) >= 2^x /\ Len(bufs[f]) > 0
  <2> HIDE DEF x
  <2>1. Len(bufs[f]) >= 2^x
    BY <1>3, <1>5
  <2>2. x \in 0 .. 23
    BY <1>5
  <2>3. 2^x \in Nat \ {0}
    BY <2>2, Doubles
  <2> QED BY <1>3, <2>1, <2>3
<1>7. /\ hist \in [Filters -> Seq(Block)]
      /\ heard \in [Filters -> Seq(Seq(Block))] /\ Len(heard[f]) = P + 2
      /\ bufs \in [Filters -> Block]
      /\ droop \in [Filters -> Block] /\ Len(droop[f]) = 9
  BY <1>3 DEF DataInv, PassesAreTyped, BlocksAreTyped
<1>8. data \in Block /\ Len(data) = Len(bufs[f])
  BY <1>3, <1>7, GenericFirIs DEF Block
<1> DEFINE kept == DroopKept(droop[f], bufs[f])
<1>9. kept \in Block /\ Len(kept) = 9
  BY <1>3, <1>7, DroopKeptIs DEF Block
<1>10. /\ P + 1 \in 1 .. Len(heard[f]) /\ P + 2 \in 1 .. Len(heard[f])
       /\ P + 1 \in 1 .. P + 2 /\ P + 2 \in 1 .. P + 2 /\ P + 1 # P + 2
  BY <1>3, <1>7, SMTT(60)
<1>11. heard[f][P + 1] \in Seq(Block) /\ heard[f][P + 2] \in Seq(Block)
  <2>1. heard[f] \in Seq(Seq(Block))
    BY <1>7
  <2> QED BY <1>10, <2>1
<1>12. /\ \A n \in 1 .. Len(heard[f][P + 1]) : Len(heard[f][P + 1][n]) > 0
       /\ \A n \in 1 .. Len(heard[f][P + 2]) : Len(heard[f][P + 2][n]) > 0
  BY <1>3, <1>10 DEF DataInv, PassesAreTyped
<1> DEFINE ins == Append(heard[f][P + 1], bufs[f])
           outs == Append(heard[f][P + 2], data)
<1> HIDE DEF data
<1>13. ins \in Seq(Block) /\ \A n \in 1 .. Len(ins) : Len(ins[n]) > 0
  BY <1>3, <1>6, <1>11, <1>12, AppendIs
<1>14. outs \in Seq(Block) /\ \A n \in 1 .. Len(outs) : Len(outs[n]) > 0
  BY <1>6, <1>8, <1>11, <1>12, AppendIs
<1> HIDE DEF ins, mid
<1>15. /\ mid \in [Filters -> Seq(Seq(Block))]
       /\ \A g \in Filters : Len(mid[g]) = Len(heard[g])
       /\ mid[f][P + 1] = ins
       /\ \A q : q # P + 1 => mid[f][q] = heard[f][q]
       /\ \A g \in Filters : g # f => mid[g] = heard[g]
  <2>1. mid = [heard EXCEPT ![f][P + 1] = ins]
    BY DEF mid, ins
  <2> HIDE DEF P
  <2> QED BY <1>7, <1>10, <1>13, <2>1, EntryIs
<1>16. mid[f][P + 2] = heard[f][P + 2]
  BY <1>10, <1>15
<1> HIDE DEF outs
<1>17. /\ heard' \in [Filters -> Seq(Seq(Block))]
       /\ \A g \in Filters : Len(heard'[g]) = Len(mid[g])
       /\ heard'[f][P + 2] = outs
       /\ \A q : q # P + 2 => heard'[f][q] = mid[f][q]
       /\ \A g \in Filters : g # f => heard'[g] = mid[g]
  <2>1. heard' = [mid EXCEPT ![f][P + 2] = outs]
    BY <1>4, <1>16 DEF outs
  <2>2. P + 2 \in 1 .. Len(mid[f])
    BY <1>10, <1>15
  <2> HIDE DEF P
  <2> QED BY <1>14, <1>15, <2>1, <2>2, EntryIs
<1>18. /\ \A g \in Filters : Len(heard'[g]) = Len(heard[g])
       /\ heard'[f][P + 1] = ins /\ heard'[f][P + 2] = outs
       /\ \A q : q \notin {P + 1, P + 2} => heard'[f][q] = heard[f][q]
       /\ \A g \in Filters : g # f => heard'[g] = heard[g]
  BY <1>10, <1>15, <1>17
<1> HIDE DEF kept
<1>19. /\ droop' \in [Filters -> Block]
       /\ droop'[f] = kept
       /\ \A g \in Filters : g # f => droop'[g] = droop[g]
  <2>1. droop' = [droop EXCEPT ![f] = kept]
    BY <1>1 DEF kept
  <2> QED BY <1>7, <1>9, <2>1
<1>20. /\ \A g \in Filters : bufs'[g] = IF f \in {g, "both"} THEN data ELSE bufs[g]
       /\ bufs' \in [Filters -> Block]
  <2>1. bufs' = [g \in Filters |-> IF f \in {g, "both"} THEN data ELSE bufs[g]]
    BY <1>1
  <2> QED BY <1>7, <1>8, <2>1
<1>21. \A g : Passes(g)' = Passes(g)
  BY <1>1 DEF Passes
<1>22. PlanInv'
  BY <1>1 DEF DataInv, PlanInv, PlanIs
<1>23. PlaceIsRight'
  <2>1. Fits'
    BY <1>1, <1>3 DEF Fits
  <2>2. CASE f = "both"
    BY <1>1, <2>1, <2>2 DEF PlaceIsRight, Filters, Channels
  <2>3. CASE f # "both"
    <3>1. f \in Channels /\ f # "none"
      BY <2>3 DEF Filters, Channels
    <3> QED BY <1>1, <2>1, <2>3, <3>1 DEF PlaceIsRight
  <2> QED BY <2>2, <2>3
<1>24. BlocksAreTyped'
  <2>1. \A g \in Filters : Len(droop'[g]) = 9
    BY <1>9, <1>19 DEF DataInv, BlocksAreTyped
  <2> QED BY <1>1, <1>19, <1>20, <2>1 DEF DataInv, BlocksAreTyped
<1>25. PassesAreTyped'
  <2>1. ASSUME NEW g \in Filters
        PROVE  Len(hist'[g]) = Passes(g) /\ Len(heard'[g]) = Passes(g) + 2
    BY <1>1, <1>3, <1>18 DEF DataInv, PassesAreTyped
  <2>2. ASSUME NEW g \in Filters, NEW q \in 1 .. Passes(g)
        PROVE  Len(hist'[g][q]) = 6
    BY <1>1, <1>3 DEF DataInv, PassesAreTyped
  <2>3. ASSUME NEW g \in Filters, NEW q \in 1 .. Passes(g) + 2
        PROVE  \A n \in 1 .. Len(heard'[g][q]) : Len(heard'[g][q][n]) > 0
    <3>1. CASE g = f /\ q = P + 1
      BY <1>13, <1>18, <3>1
    <3>2. CASE g = f /\ q = P + 2
      BY <1>14, <1>18, <3>2
    <3>3. CASE ~(g = f /\ q \in {P + 1, P + 2})
      <4>1. heard'[g][q] = heard[g][q]
        BY <1>18, <3>3
      <4> QED BY <1>3, <4>1 DEF DataInv, PassesAreTyped
    <3> QED BY <3>1, <3>2, <3>3
  <2>4. hist' \in [Filters -> Seq(Block)] /\ heard' \in [Filters -> Seq(Seq(Block))]
    BY <1>1, <1>7, <1>17
  <2> QED BY <1>21, <2>1, <2>2, <2>3, <2>4, Zenon DEF PassesAreTyped
<1>26. LongEnough'
  <2>1. \A g \in Filters : \A q : ~Step(g, "filter", q)'
    BY <1>1 DEF Step
  <2>2. CASE f = "both"
    <3>1. /\ bufs'["left"] = data /\ bufs'["right"] = data
      BY <1>20, <2>2 DEF Filters, Channels
    <3>2. Len(data) >= 2^Passes("left")
      BY <1>6, <1>8, <2>2
    <3>3. Passes("right") = Passes("left")
      BY <1>3, FitsIs DEF DataInv
    <3>4. ASSUME NEW c \in Channels, Step(c, "rotate", 1)'
          PROVE  Len(bufs[c])' >= 2^Passes(c)'
      <4>1. c = "left"
        BY <1>1, <2>2, <3>4 DEF Step
      <4> QED BY <1>21, <3>1, <3>2, <4>1
    <3>5. \A c \in Channels : ~Step(c, "demodulate", 1)'
      BY <1>1, <2>2 DEF Step
    <3>6. Len(bufs["right"])' >= 2^Passes("right")'
      BY <1>21, <3>1, <3>2, <3>3
    <3> QED BY <2>1, <3>4, <3>5, <3>6, Zenon DEF LongEnough
  <2>3. CASE f # "both"
    <3>1. bufs'[f] = data
      BY <1>20
    <3>2. ASSUME NEW c \in Channels, Step(c, "demodulate", 1)'
          PROVE  Len(bufs[c])' > 0
      <4>1. c = f
        BY <1>1, <2>3, <3>2 DEF Step
      <4> QED BY <1>6, <1>8, <3>1, <4>1
    <3>3. \A c \in Channels : ~Step(c, "rotate", 1)'
      BY <1>1, <2>3 DEF Step
    <3>4. ASSUME at'.filter = "left" PROVE Len(bufs["right"])' >= 2^Passes("right")'
      <4>1. at.filter = "left" /\ at # Idle /\ f = "left"
        BY <1>1, <1>3, <2>3, <3>4 DEF Idle
      <4>2. Len(bufs["right"]) >= 2^Passes("right")
        BY <4>1 DEF DataInv, LongEnough
      <4>3. bufs'["right"] = bufs["right"]
        BY <1>20, <4>1 DEF Filters, Channels
      <4> QED BY <1>21, <4>2, <4>3
    <3> QED BY <2>1, <3>2, <3>3, <3>4, Zenon DEF LongEnough
  <2> QED BY <2>2, <2>3
<1>27. NotBefore'
  BY <1>1, <1>3 DEF NotBefore
<1>28. DataInv'
  BY <1>22, <1>23, <1>24, <1>25, <1>26, <1>27 DEF DataInv
<1>29. bufs[f] \in Seq(Sample) /\ droop[f] \in Seq(Sample)
  BY <1>3, <1>7 DEF Block
<1> HIDE DEF P
<1>30. /\ droop'[f] = DroopKept(droop[f], bufs[f])
       /\ heard'[f][P + 1] = Append(heard[f][P + 1], bufs[f])
       /\ heard'[f][P + 2] = Append(heard[f][P + 2], data)
  BY <1>18, <1>19 DEF kept, ins, outs
<1>31. /\ DataInv'
       /\ Step(f, "filter", P + 1)
       /\ P \in 0 .. 10
       /\ bufs[f] \in Seq(Sample) /\ Len(bufs[f]) > 0
       /\ droop[f] \in Seq(Sample) /\ Len(droop[f]) = 9
       /\ data \in Block /\ Len(data) = Len(bufs[f])
       /\ droop'[f] = DroopKept(droop[f], bufs[f])
       /\ heard'[f][P + 1] = Append(heard[f][P + 1], bufs[f])
       /\ heard'[f][P + 2] = Append(heard[f][P + 2], data)
       /\ \A q : q \notin {P + 1, P + 2} => heard'[f][q] = heard[f][q]
       /\ \A g \in Filters : g # f =>
            droop'[g] = droop[g] /\ heard'[g] = heard[g]
       /\ \A g \in Filters :
            bufs'[g] = IF f \in {g, "both"} THEN data ELSE bufs[g]
  BY <1>1, <1>3, <1>6, <1>7, <1>8, <1>18, <1>19, <1>20, <1>28, <1>29, <1>30, Zenon
<1> QED BY <1>31, Zenon DEF P, data

\* The histories are as many as the passes.
LEMMA ComputePlanKeeps ==
  ASSUME DataInv, ComputePlan, PlanInv'
  PROVE  /\ DataInv'
         /\ at' = Idle /\ pre' = [c \in Channels |-> Zero]
         /\ pcm' = [c \in Channels |-> <<>>]
         /\ plan'.outcome = "ok" =>
              \A f \in Filters : \A p \in 1 .. Passes(f)' + 2 : heard'[f][p] = <<>>
<1>1. /\ plan.outcome = "none"
      /\ UNCHANGED <<at, blocks, bufs, droop, pre, dc, pcm>>
      /\ plan'.outcome = "ok" =>
           /\ hist' = [f \in Filters |-> [p \in 1 .. Passes(f)' |->
                                            [n \in 1 .. 6 |-> Zero]]]
           /\ heard' = [f \in Filters |-> [p \in 1 .. Passes(f)' + 2 |-> <<>>]]
  BY DEF ComputePlan, Passes
<1>2. /\ at = Idle /\ pre = [c \in Channels |-> Zero]
      /\ pcm = [c \in Channels |-> <<>>]
  BY <1>1 DEF DataInv, NotBefore
<1>3. PlaceIsRight'
  BY <1>1, <1>2 DEF PlaceIsRight, Idle
<1>4. BlocksAreTyped'
  BY <1>1 DEF DataInv, BlocksAreTyped
<1>5. LongEnough'
  BY <1>1, <1>2 DEF LongEnough
<1>6. NotBefore'
  BY <1>1 DEF DataInv, NotBefore
<1>7. ASSUME plan'.outcome = "ok"
      PROVE  /\ hist' \in [Filters -> Seq(Block)]
             /\ heard' \in [Filters -> Seq(Seq(Block))]
             /\ \A f \in Filters :
                  /\ Len(hist'[f]) = Passes(f)' /\ Len(heard'[f]) = Passes(f)' + 2
                  /\ \A p \in 1 .. Passes(f)' : Len(hist'[f][p]) = 6
                  /\ \A p \in 1 .. Passes(f)' + 2 : heard'[f][p] = <<>>
  <2>1. ASSUME NEW f \in Filters PROVE Passes(f)' \in Nat
    <3>1. PlanIs(plan')
      BY <1>7 DEF PlanInv
    <3> QED BY <3>1 DEF PlanIs, Passes
  <2> DEFINE zeros == [n \in 1 .. 6 |-> Zero]
             none == <<>>
  <2>2. zeros \in Block /\ Len(zeros) = 6
    <3>1. Zero \in Sample
      BY DEF Zero, Sample
    <3>2. zeros \in [1 .. 6 -> Sample] /\ 6 \in Nat
      BY <3>1
    <3> QED BY <3>2, SequenceIs DEF Block
  <2>3. none \in Seq(Block)
    OBVIOUS
  <2> HIDE DEF zeros, none
  <2>4. /\ hist' = [f \in Filters |-> [p \in 1 .. Passes(f)' |-> zeros]]
        /\ heard' = [f \in Filters |-> [p \in 1 .. Passes(f)' + 2 |-> none]]
    BY <1>1, <1>7 DEF zeros, none
  <2>5. ASSUME NEW f \in Filters
        PROVE  /\ hist'[f] \in Seq(Block) /\ Len(hist'[f]) = Passes(f)'
               /\ heard'[f] \in Seq(Seq(Block)) /\ Len(heard'[f]) = Passes(f)' + 2
               /\ \A p \in 1 .. Passes(f)' : hist'[f][p] = zeros
               /\ \A p \in 1 .. Passes(f)' + 2 : heard'[f][p] = none
    <3> DEFINE N == Passes(f)'
               hs == [p \in 1 .. N |-> zeros]
               es == [p \in 1 .. N + 2 |-> none]
    <3>1. N \in Nat /\ N + 2 \in Nat
      BY <2>1
    <3>2. hist'[f] = hs /\ heard'[f] = es
      BY <2>4
    <3> HIDE DEF N
    <3>3. hs \in [1 .. N -> Block] /\ es \in [1 .. N + 2 -> Seq(Block)]
      BY <2>2, <2>3
    <3>4. hs \in Seq(Block) /\ Len(hs) = N
      BY <3>1, <3>3, SequenceIs
    <3>5. es \in Seq(Seq(Block)) /\ Len(es) = N + 2
      BY <3>1, <3>3, SequenceIs
    <3>6. (\A p \in 1 .. N : hs[p] = zeros) /\ (\A p \in 1 .. N + 2 : es[p] = none)
      OBVIOUS
    <3> QED BY <3>2, <3>4, <3>5, <3>6 DEF N
  <2>6. hist' \in [Filters -> Seq(Block)] /\ heard' \in [Filters -> Seq(Seq(Block))]
    BY <2>4, <2>5
  <2>7. ASSUME NEW f \in Filters
        PROVE  /\ Len(hist'[f]) = Passes(f)' /\ Len(heard'[f]) = Passes(f)' + 2
               /\ \A p \in 1 .. Passes(f)' : Len(hist'[f][p]) = 6
               /\ \A p \in 1 .. Passes(f)' + 2 : heard'[f][p] = <<>>
    BY <2>2, <2>5 DEF none
  <2> QED BY <2>6, <2>7
<1>8. PassesAreTyped'
  <2> SUFFICES ASSUME plan'.outcome = "ok"
               PROVE  \A f \in Filters : \A p \in 1 .. Passes(f)' + 2 :
                        \A n \in 1 .. Len(heard'[f][p]) : Len(heard'[f][p][n]) > 0
    BY <1>7, Zenon DEF PassesAreTyped
  <2> SUFFICES ASSUME NEW f \in Filters, NEW p \in 1 .. Passes(f)' + 2
               PROVE  1 .. Len(heard'[f][p]) = {}
    OBVIOUS
  <2>1. heard'[f][p] = <<>>
    BY <1>7
  <2> QED BY <2>1
<1> QED BY <1>1, <1>2, <1>3, <1>4, <1>5, <1>6, <1>7, <1>8 DEF DataInv

\* The discriminator, and what it changes.
LEMMA DemodulateKeeps ==
  ASSUME DataInv, NEW c \in Channels, Demodulate(c)
  PROVE  LET angles == Demodulated(pre[c], bufs[c])
             told == [n \in 1 .. Len(angles) |-> Wrap16(angles[n] - dc'[c])]
         IN /\ DataInv'
            /\ plan.outcome = "ok"
            /\ Step(c, "demodulate", 1)
            /\ bufs[c] \in Seq(Sample) /\ Len(bufs[c]) > 0 /\ pre[c] \in Sample
            /\ pcm'[c] = told
            /\ pre'[c] = bufs[c][Len(bufs[c])]
            /\ \A d \in Channels : d # c =>
                 pcm'[d] = pcm[d] /\ pre'[d] = pre[d] /\ dc'[d] = dc[d]
<1> DEFINE angles == Demodulated(pre[c], bufs[c])
           avg == Average(dc[c], angles)
           told == [n \in 1 .. Len(angles) |-> Wrap16(angles[n] - avg)]
           last == bufs[c][Len(bufs[c])]
<1>1. /\ at = [filter |-> c, step |-> "demodulate", pass |-> 1]
      /\ pcm' = [pcm EXCEPT ![c] = told]
      /\ dc' = [dc EXCEPT ![c] = avg]
      /\ pre' = [pre EXCEPT ![c] = last]
      /\ at' = IF c = "left" THEN [filter |-> "right", step |-> "rotate", pass |-> 1]
               ELSE Idle
      /\ UNCHANGED <<plan, blocks, bufs, hist, droop, heard>>
  BY DEF Demodulate, GoTo, Step
<1>2. at # Idle /\ Fits
  BY <1>1 DEF DataInv, PlaceIsRight, Idle
<1>3. plan.outcome = "ok" /\ \A g \in Filters : Passes(g) \in 0 .. 10
  BY <1>2, FitsIs DEF DataInv
<1>4. c \in Filters /\ Step(c, "demodulate", 1)
  BY <1>1 DEF Filters, Step
<1>5. /\ bufs[c] \in Seq(Sample) /\ pre[c] \in Sample /\ BelowHalfTurn(dc[c])
      /\ pre \in [Channels -> Sample] /\ dc \in [Channels -> Int]
      /\ pcm \in [Channels -> Seq(Int)]
  BY <1>4 DEF DataInv, BlocksAreTyped, Block
<1>6. Len(bufs[c]) > 0
  BY <1>2, <1>4 DEF DataInv, LongEnough
<1>7. last \in Sample
  <2>1. Len(bufs[c]) \in 1 .. Len(bufs[c])
    BY <1>5, <1>6
  <2> QED BY <1>5, <2>1
<1>8. /\ angles \in Seq(Int) /\ Len(angles) = Len(bufs[c])
      /\ \A n \in 1 .. Len(angles) : Within(angles[n], HalfTurn)
  BY <1>5, DemodulatedIs
<1> HIDE DEF angles, last
<1>9. BelowHalfTurn(avg)
  BY <1>5, <1>6, <1>8, AverageIs
<1>10. avg \in Int
  BY <1>9, SMT DEF BelowHalfTurn
<1> HIDE DEF avg
<1>11. told \in Seq(Int)
  <2>1. ASSUME NEW n \in 1 .. Len(angles) PROVE Wrap16(angles[n] - avg) \in Int
    <3>1. angles[n] - avg \in Int
      BY <1>8, <1>10
    <3> QED BY <3>1, WrapIs
  <2>2. told \in [1 .. Len(angles) -> Int] /\ Len(angles) \in Nat
    BY <1>8, <2>1
  <2> HIDE DEF told
  <2> QED BY <2>2, SequenceIs
<1> HIDE DEF told
<1>12. /\ pcm' \in [Channels -> Seq(Int)] /\ pcm'[c] = told
       /\ dc' \in [Channels -> Int] /\ dc'[c] = avg
       /\ pre' \in [Channels -> Sample] /\ pre'[c] = last
       /\ \A d \in Channels : d # c =>
            pcm'[d] = pcm[d] /\ pre'[d] = pre[d] /\ dc'[d] = dc[d]
  BY <1>1, <1>5, <1>7, <1>10, <1>11
<1>13. PlanInv'
  BY <1>1 DEF DataInv, PlanInv, PlanIs
<1>14. PlaceIsRight'
  <2>1. Fits'
    BY <1>1, <1>2 DEF Fits
  <2> QED BY <1>1, <2>1 DEF PlaceIsRight, Idle, Filters, Channels
<1>15. BlocksAreTyped'
  <2>1. ASSUME NEW d \in Channels PROVE BelowHalfTurn(dc'[d])
    <3>1. CASE d = c
      BY <1>9, <1>12, <3>1
    <3>2. CASE d # c
      BY <1>12, <3>2 DEF DataInv, BlocksAreTyped
    <3> QED BY <3>1, <3>2
  <2> QED BY <1>1, <1>12, <2>1 DEF DataInv, BlocksAreTyped
<1>16. PassesAreTyped'
  BY <1>1 DEF DataInv, PassesAreTyped, Passes
<1>17. LongEnough'
  <2>1. CASE c = "left"
    <3>1. at' = [filter |-> "right", step |-> "rotate", pass |-> 1]
      BY <1>1, <2>1
    <3>2. \A f \in Filters : \A p : ~Step(f, "filter", p)'
      BY <3>1 DEF Step
    <3>3. \A d \in Channels : ~Step(d, "demodulate", 1)'
      BY <3>1 DEF Step
    <3>4. \A d \in Channels : Step(d, "rotate", 1)' => d = "right"
      BY <3>1 DEF Step
    <3>5. Len(bufs["right"]) >= 2^Passes("right")
      BY <1>1, <1>2, <2>1 DEF DataInv, LongEnough
    <3>6. bufs' = bufs /\ Passes("right")' = Passes("right")
      BY <1>1 DEF Passes
    <3>7. Len(bufs["right"])' >= 2^Passes("right")'
      BY <3>5, <3>6
    <3>8. at'.filter # "left"
      BY <3>1
    <3> QED BY <3>2, <3>3, <3>4, <3>7, <3>8, Zenon DEF LongEnough
  <2>2. CASE c # "left"
    BY <1>1, <2>2 DEF LongEnough
  <2> QED BY <2>1, <2>2
<1>18. NotBefore'
  BY <1>1, <1>3 DEF NotBefore
<1>19. DataInv'
  BY <1>13, <1>14, <1>15, <1>16, <1>17, <1>18 DEF DataInv
<1>20. pcm'[c] = [n \in 1 .. Len(angles) |-> Wrap16(angles[n] - dc'[c])]
  BY <1>12 DEF told
<1> QED BY <1>3, <1>4, <1>5, <1>6, <1>12, <1>19, <1>20, Zenon DEF angles, last

\* Every step keeps the blocks as they should be.
LEMMA DataStays ==
  ASSUME DataInv, [SignalNext]_signalVars PROVE DataInv'
<1>1. CASE ComputePlan
  <2>1. PlanInv'
    BY PlanStays DEF DataInv
  <2> QED BY <1>1, <2>1, ComputePlanKeeps
<1>2. CASE Done \/ UNCHANGED signalVars
  <2>1. UNCHANGED signalVars
    BY <1>2 DEF Done
  <2>2. UNCHANGED <<plan, at, bufs, hist, droop, pre, dc, pcm, heard>>
    BY <2>1 DEF signalVars
  <2>3. PlanInv'
    BY <2>2 DEF DataInv, PlanInv, PlanIs
  <2>4. PlaceIsRight'
    BY <2>2 DEF DataInv, PlaceIsRight, Passes, Fits
  <2>5. BlocksAreTyped'
    BY <2>2 DEF DataInv, BlocksAreTyped
  <2>6. PassesAreTyped'
    BY <2>2 DEF DataInv, PassesAreTyped, Passes
  <2>7. LongEnough'
    <3>1. /\ \A f : Passes(f)' = Passes(f) /\ Len(bufs[f])' = Len(bufs[f])
          /\ \A f, s, p : Step(f, s, p)' <=> Step(f, s, p)
          /\ at' = at
      BY <2>2 DEF Passes, Step
    <3> QED BY <3>1, Zenon DEF DataInv, LongEnough
  <2>8. NotBefore'
    BY <2>2 DEF DataInv, NotBefore
  <2> QED BY <2>3, <2>4, <2>5, <2>6, <2>7, <2>8 DEF DataInv
<1>3. ASSUME NEW signal \in Signals, Receive(signal) PROVE DataInv'
  BY <1>3, ReceiveKeeps
<1>4. ASSUME NEW f \in Filters, Pass(f, at.pass) PROVE DataInv'
  BY <1>4, PassKeeps
<1>5. ASSUME NEW f \in Filters, Droop(f) PROVE DataInv'
  BY <1>5, DroopKeeps, Zenon
<1>6. ASSUME NEW c \in Channels, Rotate(c) PROVE DataInv'
  BY <1>6, RotateKeeps
<1>7. ASSUME NEW c \in Channels, Demodulate(c) PROVE DataInv'
  BY <1>7, DemodulateKeeps, Zenon
<1> QED BY <1>1, <1>2, <1>3, <1>4, <1>5, <1>6, <1>7 DEF SignalNext

-----------------------------------------------------------------------------
(* Blocks in one piece.                                                     *)

\* What of a block goes into the line.
Cut(data, drop) == SubSeq(data, 1, Len(data) - drop)

\* It is the front of the block.
LEMMA CutIs ==
  ASSUME NEW data \in Block, NEW drop \in Nat
  PROVE  /\ Cut(data, drop) \in Block
         /\ drop <= Len(data) => Len(Cut(data, drop)) = Len(data) - drop
         /\ \A n \in 1 .. Len(Cut(data, drop)) : Cut(data, drop)[n] = data[n]
<1> DEFINE N == Len(data)
           m == N - drop
           cut == SubSeq(data, 1, m)
<1>1. N \in Nat /\ data \in Seq(Sample)
  BY DEF Block
<1>2. m \in Int /\ m <= N /\ 1 \in Int
  BY <1>1
<1>3. ASSUME NEW n \in 1 .. m PROVE data[n] \in Sample
  <2>1. n \in 1 .. N
    BY <1>1
  <2> QED BY <1>1, <2>1
<1> HIDE DEF N, m
<1>4. /\ cut \in Seq(Sample)
      /\ Len(cut) = IF 1 <= m THEN m - 1 + 1 ELSE 0
      /\ \A n \in 1 .. m - 1 + 1 : cut[n] = data[1 + n - 1]
  BY <1>2, <1>3, SubSeqProperties
<1> HIDE DEF cut
<1>5. drop <= N => Len(cut) = N - drop
  BY <1>1, <1>4 DEF m
<1>6. ASSUME NEW n \in 1 .. Len(cut) PROVE cut[n] = data[n]
  <2>1. n \in 1 .. m - 1 + 1 /\ 1 + n - 1 = n
    BY <1>2, <1>4
  <2> QED BY <1>4, <2>1
<1> QED BY <1>4, <1>5, <1>6 DEF cut, m, N, Cut, Block

\* What TLA+ means by the definition of Joins.
LEMMA JoinsGo ==
  ASSUME NEW h \in Seq(Block), NEW drop \in Nat
  PROVE  /\ Joins(h, drop) \in [0 .. Len(h) -> Block]
         /\ Joins(h, drop)[0] = <<>>
         /\ \A n \in 1 .. Len(h) :
              Joins(h, drop)[n] = Joins(h, drop)[n - 1] \o Cut(h[n], drop)
<1> DEFINE N == Len(h)
           F == [n \in 1 .. N |-> [x \in Block |-> x \o Cut(h[n], drop)]]
           Is(s) == s = [n \in 0 .. N |->
                           IF n = 0 THEN <<>> ELSE s[n - 1] \o Cut(h[n], drop)]
           v == <<>>
<1>1. N \in Nat /\ v \in Block
  BY DEF Block
<1>2. Joins(h, drop) = CHOOSE s : Is(s)
  BY DEF Joins, Cut
<1>3. ASSUME NEW n \in 1 .. N, NEW x \in Block PROVE x \o Cut(h[n], drop) \in Block
  <2>1. Cut(h[n], drop) \in Block
    BY CutIs
  <2> QED BY <2>1, ConcatProperties DEF Block
<1> HIDE DEF N
<1>4. F \in [1 .. N -> [Block -> Block]]
  BY <1>3
<1>5. PICK g \in [0 .. N -> Block] :
        g[0] = v /\ \A n \in 1 .. N : g[n] = F[n][g[n - 1]]
  <2> HIDE DEF F, v
  <2>1. F \in Makers(Block, N)
    BY <1>4 DEF Makers
  <2>2. \E g \in Paths(Block, N) : Goes(g, v, F, N)
    BY <1>1, <2>1, StepByStep, Zenon
  <2> QED BY <2>2 DEF Paths, Goes
<1>6. ASSUME NEW n \in 1 .. N PROVE g[n] = g[n - 1] \o Cut(h[n], drop)
  <2>1. n - 1 \in 0 .. N
    BY <1>1
  <2>2. g[n - 1] \in Block
    BY <2>1
  <2>3. F[n][g[n - 1]] = g[n - 1] \o Cut(h[n], drop)
    BY <2>2
  <2> QED BY <1>5, <2>3
<1>7. Is(g)
  <2>1. ASSUME NEW n \in 0 .. N
        PROVE  g[n] = IF n = 0 THEN <<>> ELSE g[n - 1] \o Cut(h[n], drop)
    <3>1. CASE n = 0
      BY <1>5, <3>1
    <3>2. CASE n # 0
      <4>1. n \in 1 .. N
        BY <1>1, <3>2
      <4> QED BY <1>6, <3>2, <4>1
    <3> QED BY <3>1, <3>2
  <2>2. g \in [0 .. N -> Block]
    BY <1>5
  <2> QED BY <2>1, <2>2, Zenon
<1>8. Is(Joins(h, drop))
  <2> HIDE DEF Is
  <2> QED BY <1>2, <1>7
<1> DEFINE t == Joins(h, drop)
<1>9. t[0] = v /\ \A n \in 1 .. N : t[n] = t[n - 1] \o Cut(h[n], drop)
  BY <1>1, <1>8, SMTT(60)
<1>10. \A n \in 0 .. N : t[n] = g[n]
  <2> HIDE DEF t, v
  <2>1. ASSUME NEW n \in 1 .. N, Agree(t, g, n - 1) PROVE Agree(t, g, n)
    BY <1>6, <1>9, <2>1 DEF Agree
  <2>2. Agree(t, g, 0) /\ N \in Nat
    BY <1>1, <1>5, <1>9 DEF Agree
  <2>3. \A n \in 0 .. N : Agree(t, g, n)
    BY <2>1, <2>2, OnlyOne
  <2> QED BY <2>3 DEF Agree
<1>11. t \in [0 .. N -> Block]
  BY <1>8, <1>10
<1> QED BY <1>9, <1>11 DEF N

\* One more block comes behind the others, which stay in their place.
LEMMA JoinedMore ==
  ASSUME NEW h \in Seq(Block), NEW d \in Block, NEW drop \in Nat
  PROVE  /\ \A n \in 0 .. Len(h) : Joins(Append(h, d), drop)[n] = Joins(h, drop)[n]
         /\ Joined(Append(h, d), drop) = Joined(h, drop) \o Cut(d, drop)
<1> DEFINE N == Len(h)
           more == Append(h, d)
           s == Joins(h, drop)
           t == Joins(more, drop)
<1>1. /\ N \in Nat /\ more \in Seq(Block) /\ Len(more) = N + 1
      /\ more[N + 1] = d /\ \A n \in 1 .. N : more[n] = h[n]
  OBVIOUS
<1>2. s[0] = <<>> /\ \A n \in 1 .. N : s[n] = s[n - 1] \o Cut(h[n], drop)
  BY JoinsGo
<1> HIDE DEF more
<1>3. t[0] = <<>> /\ \A n \in 1 .. N + 1 : t[n] = t[n - 1] \o Cut(more[n], drop)
  BY <1>1, JoinsGo
<1> HIDE DEF s, t, N
<1>4. \A n \in 0 .. N : t[n] = s[n]
  <2>1. ASSUME NEW n \in 1 .. N, Agree(t, s, n - 1) PROVE Agree(t, s, n)
    <3>1. n \in 1 .. N + 1 /\ more[n] = h[n]
      BY <1>1
    <3> QED BY <1>2, <1>3, <2>1, <3>1 DEF Agree
  <2>2. Agree(t, s, 0)
    BY <1>2, <1>3 DEF Agree
  <2>3. \A n \in 0 .. N : Agree(t, s, n)
    BY <1>1, <2>1, <2>2, OnlyOne
  <2> QED BY <2>3 DEF Agree
<1>5. t[N + 1] = s[N] \o Cut(d, drop)
  <2>1. N + 1 \in 1 .. N + 1 /\ (N + 1) - 1 = N /\ N \in 0 .. N
    BY <1>1
  <2>2. t[N + 1] = t[N] \o Cut(more[N + 1], drop)
    BY <1>3, <2>1
  <2> QED BY <1>1, <1>4, <2>1, <2>2
<1>6. Joined(h, drop) = s[N] /\ Joined(more, drop) = t[N + 1]
  BY <1>1 DEF Joined, s, t, N
<1> QED BY <1>4, <1>5, <1>6 DEF s, t, N, more

\* The blocks in one piece are a block.
LEMMA JoinedIs ==
  ASSUME NEW h \in Seq(Block), NEW drop \in Nat
  PROVE  Joined(h, drop) \in Block /\ Joined(<<>>, drop) = <<>>
<1>1. Len(h) \in 0 .. Len(h)
  OBVIOUS
<1>2. Joined(h, drop) \in Block
  BY <1>1, JoinsGo DEF Joined
<1> DEFINE none == <<>>
<1>3. none \in Seq(Block) /\ Len(none) = 0
  OBVIOUS
<1> HIDE DEF none
<1>4. Joins(none, drop)[0] = <<>>
  BY <1>3, JoinsGo
<1> QED BY <1>2, <1>3, <1>4 DEF Joined, none

-----------------------------------------------------------------------------
(* The turns of the channels.                                               *)

\* The blocks of a channel, in one piece, and what of it came before the newest.
Latest(c) == heard[c][Passes(c) + 2]
LineOf(history) == <<Zero>> \o Joined(history, 0)
TurnLine(c) == LineOf(Latest(c))
Told(c) ==
  IF Latest(c) = <<>> THEN 0
  ELSE Len(TurnLine(c)) - 1 - Len(Latest(c)[Len(Latest(c))])

\* Each angle is the turn from one sample to the next.
AreTurns(line, past, angles, avg) ==
  \A k \in 1 .. Len(angles) :
    LET z == Product(line[past + k + 1], line[past + k])
    IN \/ TooStrong(z[2], z[1]) \/ z = Zero
       \/ InOctant(angles[k] + avg, z[2], z[1])

\* What the discriminator of a channel remembers, and has told.
TurnsOf(c) ==
  /\ Step(c, "demodulate", 1) =>
       /\ Latest(c) # <<>>
       /\ bufs[c] = Latest(c)[Len(Latest(c))]
       /\ pre[c] = TurnLine(c)[Told(c) + 1]
  /\ ~Step(c, "demodulate", 1) =>
       /\ pre[c] = TurnLine(c)[Len(TurnLine(c))]
       /\ AreTurns(TurnLine(c), Told(c), pcm[c], dc[c])

TurnsInv == plan.outcome = "ok" => \A c \in Channels : TurnsOf(c)

\* The blocks that came out for a channel.
LEMMA LatestIs ==
  ASSUME DataInv, plan.outcome = "ok", NEW c \in Channels
  PROVE  /\ c \in Filters /\ Passes(c) \in Nat /\ Latest(c) \in Seq(Block)
         /\ \A n \in 1 .. Len(Latest(c)) : Len(Latest(c)[n]) > 0
<1>1. c \in Filters
  BY DEF Filters
<1>2. Passes(c) \in Nat
  <2>1. PlanIs(plan)
    BY DEF DataInv, PlanInv
  <2> QED BY <1>1, <2>1 DEF PlanIs, Passes
<1>3. heard[c] \in Seq(Seq(Block)) /\ Len(heard[c]) = Passes(c) + 2
  BY <1>1 DEF DataInv, PassesAreTyped
<1>4. Passes(c) + 2 \in 1 .. Passes(c) + 2
  BY <1>2
<1>5. Latest(c) \in Seq(Block)
  BY <1>3, <1>4 DEF Latest
<1>6. \A n \in 1 .. Len(Latest(c)) : Len(Latest(c)[n]) > 0
  BY <1>1, <1>4 DEF DataInv, PassesAreTyped, Latest
<1> QED BY <1>1, <1>2, <1>5, <1>6

\* The newest block is at the end of the line.
LEMMA LineEnds ==
  ASSUME NEW h \in Seq(Block), NEW d \in Block
  PROVE  LET line == LineOf(h)
             more == LineOf(Append(h, d))
         IN /\ line \in Seq(Sample) /\ more \in Seq(Sample)
            /\ Len(line) \in Nat \ {0} /\ Len(d) \in Nat
            /\ Len(more) = Len(line) + Len(d)
            /\ \A k \in 1 .. Len(line) : more[k] = line[k]
            /\ \A k \in 1 .. Len(d) : more[Len(line) + k] = d[k]
<1> DEFINE line == LineOf(h)
           more == LineOf(Append(h, d))
           first == <<Zero>>
           old == Joined(h, 0)
           new == Joined(Append(h, d), 0)
           cut == Cut(d, 0)
<1>1. first \in Seq(Sample) /\ Len(first) = 1
  BY DEF Zero, Sample
<1>2. old \in Seq(Sample) /\ Append(h, d) \in Seq(Block)
  BY JoinedIs DEF Block
<1>3. new \in Seq(Sample) /\ new = old \o cut
  BY <1>2, JoinedIs, JoinedMore DEF Block
<1>4. /\ cut \in Seq(Sample) /\ Len(cut) = Len(d) /\ Len(d) \in Nat
      /\ \A k \in 1 .. Len(d) : cut[k] = d[k]
  <2>1. d \in Seq(Sample) /\ Len(d) \in Nat /\ 0 \in Nat /\ 0 <= Len(d)
    BY DEF Block
  <2>2. cut \in Seq(Sample) /\ Len(cut) = Len(d) - 0
    BY <2>1, CutIs DEF Block
  <2>3. Len(cut) = Len(d)
    BY <2>1, <2>2
  <2> QED BY <2>1, <2>2, <2>3, CutIs
<1> HIDE DEF first, old, new, cut
<1>5. line = first \o old /\ more = first \o new
  BY DEF first, old, new, LineOf
<1> HIDE DEF line, more
<1>6. /\ line \in Seq(Sample) /\ Len(line) = 1 + Len(old)
      /\ \A k \in 1 .. 1 + Len(old) :
           line[k] = IF k <= 1 THEN first[k] ELSE old[k - 1]
  <2>1. first \in Seq(Sample) /\ old \in Seq(Sample)
    BY <1>1, <1>2
  <2>2. /\ line \in Seq(Sample) /\ Len(line) = Len(first) + Len(old)
        /\ \A k \in 1 .. Len(first) + Len(old) :
             line[k] = IF k <= Len(first) THEN first[k] ELSE old[k - Len(first)]
    BY <1>5, <2>1, ConcatProperties
  <2> QED BY <1>1, <2>2
<1>7. /\ new \in Seq(Sample) /\ Len(new) = Len(old) + Len(cut)
      /\ \A k \in 1 .. Len(old) + Len(cut) :
           new[k] = IF k <= Len(old) THEN old[k] ELSE cut[k - Len(old)]
  <2>1. old \in Seq(Sample) /\ cut \in Seq(Sample)
    BY <1>2, <1>4
  <2> QED BY <1>3, <2>1, ConcatProperties
<1>8. /\ more \in Seq(Sample) /\ Len(more) = 1 + Len(new)
      /\ \A k \in 1 .. 1 + Len(new) :
           more[k] = IF k <= 1 THEN first[k] ELSE new[k - 1]
  <2>1. first \in Seq(Sample) /\ new \in Seq(Sample)
    BY <1>1, <1>3
  <2>2. /\ more \in Seq(Sample) /\ Len(more) = Len(first) + Len(new)
        /\ \A k \in 1 .. Len(first) + Len(new) :
             more[k] = IF k <= Len(first) THEN first[k] ELSE new[k - Len(first)]
    BY <1>5, <2>1, ConcatProperties
  <2> QED BY <1>1, <2>2
<1>9. Len(old) \in Nat
  BY <1>2
<1>10. ASSUME NEW k \in 1 .. Len(line) PROVE more[k] = line[k]
  <2>1. k \in 1 .. 1 + Len(old) /\ k \in 1 .. 1 + Len(new)
    BY <1>4, <1>6, <1>7, <1>9
  <2>2. CASE k <= 1
    BY <1>6, <1>8, <2>1, <2>2
  <2>3. CASE k > 1
    <3>1. k - 1 \in 1 .. Len(old) + Len(cut) /\ k - 1 <= Len(old) /\ ~(k <= 1)
      BY <1>4, <1>9, <2>1, <2>3
    <3> QED BY <1>6, <1>7, <1>8, <2>1, <3>1
  <2> QED BY <2>1, <2>2, <2>3
<1>11. ASSUME NEW k \in 1 .. Len(d) PROVE more[Len(line) + k] = d[k]
  <2> DEFINE m == Len(line) + k
  <2>1. /\ m \in 1 .. 1 + Len(new) /\ ~(m <= 1) /\ m - 1 = Len(old) + k
        /\ m - 1 \in 1 .. Len(old) + Len(cut) /\ ~(m - 1 <= Len(old))
        /\ (m - 1) - Len(old) = k
    BY <1>4, <1>6, <1>7, <1>9
  <2> HIDE DEF m
  <2>2. more[m] = cut[k]
    BY <1>7, <1>8, <2>1
  <2> QED BY <1>4, <2>2 DEF m
<1>12. Len(more) = Len(line) + Len(d) /\ Len(line) \in Nat \ {0}
  BY <1>4, <1>6, <1>7, <1>8, <1>9
<1> QED BY <1>4, <1>6, <1>8, <1>10, <1>11, <1>12 DEF line, more

\* A block is the last of those before it and itself.
LEMMA LastIs ==
  ASSUME NEW h \in Seq(Block), h # <<>>
  PROVE  \E front \in Seq(Block) : h = Append(front, h[Len(h)])
<1>1. PICK front \in Seq(Block), d \in Block : h = Append(front, d)
  BY SequenceEmptyOrAppend
<1>2. Len(h) = Len(front) + 1 /\ h[Len(front) + 1] = d
  BY <1>1, AppendProperties
<1>3. h[Len(h)] = d
  BY <1>2
<1> QED BY <1>1, <1>3

\* A block has come out for a channel: it waits for the discriminator.
LEMMA TurnsAfterDroop ==
  ASSUME DataInv, NEW c \in Channels, TurnsOf(c), Droop(c)
  PROVE  TurnsOf(c)'
<1> DEFINE d == GenericFir(droop[c], bufs[c], Passes(c))
           h == Latest(c)
           line == TurnLine(c)
           more == TurnLine(c)'
           a == at
<1>1. c \in Filters /\ c # "both" /\ c \in {c, "both"}
  BY DEF Filters, Channels
<1>2. /\ Step(c, "filter", Passes(c) + 1) /\ d \in Block
      /\ heard'[c][Passes(c) + 2] = Append(heard[c][Passes(c) + 2], d)
      /\ bufs'[c] = d /\ Len(d) > 0
  <2>1. /\ Step(c, "filter", Passes(c) + 1) /\ d \in Block
        /\ heard'[c][Passes(c) + 2] = Append(heard[c][Passes(c) + 2], d)
        /\ bufs'[c] = IF c \in {c, "both"} THEN d ELSE bufs[c]
        /\ Len(bufs[c]) > 0 /\ Len(d) = Len(bufs[c])
    BY <1>1, DroopKeeps, Zenon
  <2> QED BY <2>1
<1>3. /\ UNCHANGED <<plan, pre, dc, pcm>>
      /\ at' = [filter |-> c, step |-> "demodulate", pass |-> 1]
  BY <1>1 DEF Droop, GoTo
<1>4. plan.outcome = "ok" /\ ~Step(c, "demodulate", 1)
  BY <1>1, <1>2 DEF DataInv, PlaceIsRight, Fits, Step, Idle
<1>5. h \in Seq(Block)
  BY <1>4, LatestIs
<1> HIDE DEF d
<1>6. Latest(c)' = Append(h, d)
  BY <1>2, <1>3 DEF Latest, Passes
<1>7. line = LineOf(h) /\ more = LineOf(Append(h, d))
  BY <1>6 DEF TurnLine
<1> HIDE DEF h, line, more
<1>8. /\ Len(line) \in Nat \ {0} /\ Len(d) \in Nat
      /\ Len(more) = Len(line) + Len(d)
      /\ \A k \in 1 .. Len(line) : more[k] = line[k]
  BY <1>2, <1>5, <1>7, LineEnds
<1>9. pre[c] = line[Len(line)]
  BY <1>4 DEF TurnsOf, line
<1>10. Append(h, d) # <<>> /\ Append(h, d)[Len(Append(h, d))] = d
  BY <1>2, <1>5
<1>11. Told(c)' = Len(more) - 1 - Len(d)
  BY <1>6, <1>10 DEF Told, more
<1>12. Told(c)' + 1 = Len(line) /\ Len(line) \in 1 .. Len(line)
  BY <1>8, <1>11
<1>13. pre'[c] = TurnLine(c)'[Told(c)' + 1]
  <2>1. pre'[c] = line[Len(line)]
    BY <1>3, <1>9
  <2>2. more[Len(line)] = line[Len(line)]
    BY <1>8, <1>12
  <2> QED BY <1>12, <2>1, <2>2 DEF more
<1>14. Step(c, "demodulate", 1)'
  BY <1>3 DEF Step
<1>15. Latest(c)' # <<>> /\ bufs'[c] = Latest(c)'[Len(Latest(c)')]
  BY <1>2, <1>6, <1>10
<1> QED BY <1>13, <1>14, <1>15 DEF TurnsOf

\* The discriminator has had its block.
LEMMA TurnsAfterDemodulate ==
  ASSUME DataInv, NEW c \in Channels, TurnsOf(c), Demodulate(c)
  PROVE  TurnsOf(c)'
<1> DEFINE data == bufs[c]
           angles == Demodulated(pre[c], data)
           told == [n \in 1 .. Len(angles) |-> Wrap16(angles[n] - dc'[c])]
           h == Latest(c)
           line == TurnLine(c)
           past == Told(c)
<1>1. /\ DataInv' /\ plan.outcome = "ok" /\ Step(c, "demodulate", 1)
      /\ data \in Seq(Sample) /\ Len(data) > 0 /\ pre[c] \in Sample
      /\ pcm'[c] = told
      /\ pre'[c] = data[Len(data)]
  BY DemodulateKeeps, Zenon
<1>2. UNCHANGED <<plan, heard>> /\ ~Step(c, "demodulate", 1)'
  BY <1>1 DEF Demodulate, GoTo, Step, Idle
<1>3. h # <<>> /\ data = h[Len(h)] /\ pre[c] = line[past + 1]
  BY <1>1 DEF TurnsOf
<1>4. h \in Seq(Block)
  BY <1>1, LatestIs
<1>5. PICK front \in Seq(Block) : h = Append(front, data)
  BY <1>3, <1>4, LastIs
<1> DEFINE less == LineOf(front)
<1>6. /\ Len(less) \in Nat \ {0} /\ Len(data) \in Nat
      /\ Len(line) = Len(less) + Len(data)
      /\ \A k \in 1 .. Len(data) : line[Len(less) + k] = data[k]
  <2>1. data \in Block /\ line = LineOf(Append(front, data))
    BY <1>1, <1>5 DEF Block, TurnLine
  <2> HIDE DEF line, data, h
  <2> QED BY <2>1, LineEnds
<1> HIDE DEF less
<1>7. past = Len(less) - 1
  <2>1. past = Len(line) - 1 - Len(data)
    BY <1>3 DEF Told
  <2> HIDE DEF past, line, data
  <2> QED BY <1>6, <2>1
<1>8. /\ angles \in Seq(Int) /\ Len(angles) = Len(data)
      /\ \A n \in 1 .. Len(data) :
           /\ Within(angles[n], HalfTurn)
           /\ angles[n] = PolarDiscFast(data[n], IF n = 1 THEN pre[c] ELSE data[n - 1])
  BY <1>1, DemodulatedIs
<1>9. BelowHalfTurn(dc'[c])
  BY <1>1 DEF DataInv, BlocksAreTyped
<1> HIDE DEF angles, line, past, h, data
<1>10. ASSUME NEW n \in 1 .. Len(data)
       PROVE  told[n] + dc'[c] = angles[n]
  <2>1. Within(angles[n], HalfTurn)
    BY <1>8
  <2>2. n \in 1 .. Len(angles)
    BY <1>8
  <2>3. told[n] = Wrap16(angles[n] - dc'[c])
    BY <2>2
  <2> DEFINE x == angles[n]
             y == dc'[c]
  <2>4. /\ x \in Int /\ y \in Int
        /\ -32768 <= x - y /\ x - y < 32768
    BY <1>9, <2>1, SMT DEF Within, HalfTurn, BelowHalfTurn
  <2> HIDE DEF x, y
  <2>5. x - y \in Int
    BY <2>4, SMT
  <2>6. Wrap16(x - y) = x - y
    BY <2>4, <2>5, WrapKeeps, SMT
  <2>7. Wrap16(x - y) + y = x
    BY <2>4, <2>6, SMT
  <2> QED BY <2>3, <2>7, Zenon DEF x, y
<1>11. ASSUME NEW n \in 1 .. Len(data)
       PROVE  LET z == Product(line[past + n + 1], line[past + n])
              IN \/ TooStrong(z[2], z[1]) \/ z = Zero
                 \/ InOctant(told[n] + dc'[c], z[2], z[1])
  <2> DEFINE b == IF n = 1 THEN pre[c] ELSE data[n - 1]
  <2>1. past + n + 1 = Len(less) + n /\ line[past + n + 1] = data[n]
    BY <1>6, <1>7
  <2>2. line[past + n] = b
    <3>1. CASE n = 1
      BY <1>3, <3>1
    <3>2. CASE n # 1
      <4>1. n - 1 \in 1 .. Len(data) /\ past + n = Len(less) + (n - 1)
        BY <1>6, <1>7, <3>2
      <4> QED BY <1>6, <3>2, <4>1
    <3> QED BY <3>1, <3>2
  <2>3. data[n] \in Sample /\ b \in Sample
    <3>1. data[n] \in Sample
      BY <1>1
    <3>2. CASE n = 1
      BY <1>1, <3>2
    <3>3. CASE n # 1
      <4>1. n - 1 \in 1 .. Len(data)
        BY <1>6, <3>3
      <4> DEFINE m == n - 1
      <4>2. m \in 1 .. Len(data)
        BY <4>1
      <4> HIDE DEF m
      <4>3. data[m] \in Sample
        BY <1>1, <4>2
      <4> QED BY <3>1, <3>3, <4>3 DEF m
    <3> QED BY <3>1, <3>2, <3>3
  <2>4. told[n] + dc'[c] = PolarDiscFast(data[n], b)
    BY <1>8, <1>10
  <2> HIDE DEF b, told
  <2>5. LET z == Product(data[n], b)
        IN \/ TooStrong(z[2], z[1]) \/ z = Zero
           \/ InOctant(PolarDiscFast(data[n], b), z[2], z[1])
    BY <2>3, PolarIs
  <2> QED BY <2>1, <2>2, <2>4, <2>5
<1>12. Len(told) = Len(data)
  BY <1>6, <1>8
<1> HIDE DEF told
<1>13. AreTurns(line, past, pcm'[c], dc'[c])
  <2>1. \A n \in 1 .. Len(pcm'[c]) :
          LET z == Product(line[past + n + 1], line[past + n])
          IN \/ TooStrong(z[2], z[1]) \/ z = Zero
             \/ InOctant(pcm'[c][n] + dc'[c], z[2], z[1])
    BY <1>1, <1>11, <1>12
  <2> QED BY <2>1 DEF AreTurns
<1>14. Latest(c)' = Latest(c)
  BY <1>2 DEF Latest, Passes
<1>15. TurnLine(c)' = line /\ Told(c)' = past
  BY <1>14 DEF TurnLine, Told, line, past
<1>16. pre'[c] = line[Len(line)]
  <2>1. Len(data) \in 1 .. Len(data)
    BY <1>1, <1>6
  <2> QED BY <1>1, <1>6, <2>1
<1> QED BY <1>2, <1>13, <1>15, <1>16 DEF TurnsOf

\* A step of anything else.
LEMMA TurnsElsewhere ==
  ASSUME NEW c, TurnsOf(c), Latest(c)' = Latest(c),
         pre'[c] = pre[c], pcm'[c] = pcm[c], dc'[c] = dc[c],
         ~Step(c, "demodulate", 1), ~Step(c, "demodulate", 1)'
  PROVE  TurnsOf(c)'
<1>1. TurnLine(c)' = TurnLine(c) /\ Told(c)' = Told(c)
  BY DEF TurnLine, Told
<1> QED BY <1>1 DEF TurnsOf

\* Before the options are read nothing is claimed.
LEMMA TurnsStart == SignalInit => TurnsInv
BY DEF SignalInit, TurnsInv

\* The angles stay those of the line, whatever the signal path does.
LEMMA TurnsStay ==
  ASSUME DataInv, TurnsInv, [SignalNext]_signalVars
  PROVE  TurnsInv'
<1> SUFFICES ASSUME plan'.outcome = "ok", NEW c \in Channels
             PROVE  TurnsOf(c)'
  BY DEF TurnsInv
<1>1. CASE ComputePlan
  <2>1. PlanInv'
    BY PlanStays DEF DataInv
  <2>2. /\ DataInv' /\ at' = Idle /\ pre' = [d \in Channels |-> Zero]
        /\ pcm' = [d \in Channels |-> <<>>]
        /\ \A f \in Filters : \A p \in 1 .. Passes(f)' + 2 : heard'[f][p] = <<>>
    BY <1>1, <2>1, ComputePlanKeeps
  <2>3. c \in Filters /\ Passes(c)' \in Nat
    <3>1. PlanIs(plan')
      BY <2>1 DEF PlanInv
    <3>2. c \in Filters
      BY DEF Filters
    <3> QED BY <3>1, <3>2 DEF PlanIs, Passes
  <2>4. Passes(c)' + 2 \in 1 .. Passes(c)' + 2
    BY <2>3
  <2>5. Latest(c)' = <<>>
    BY <2>2, <2>3, <2>4 DEF Latest
  <2>6. TurnLine(c)' = <<Zero>>
    <3> DEFINE none == <<>>
    <3>1. none \in Seq(Block) /\ 0 \in Nat
      OBVIOUS
    <3> HIDE DEF none
    <3>2. Joined(<<>>, 0) = <<>>
      BY <3>1, JoinedIs
    <3>3. LineOf(<<>>) = <<Zero>> \o <<>>
      BY <3>2 DEF LineOf
    <3>4. <<Zero>> \o <<>> = <<Zero>>
      BY DEF Zero
    <3> QED BY <2>5, <3>3, <3>4 DEF TurnLine
  <2>7. pre'[c] = TurnLine(c)'[Len(TurnLine(c)')]
    BY <2>2, <2>6
  <2>8. AreTurns(TurnLine(c)', Told(c)', pcm'[c], dc'[c])
    <3>1. pcm'[c] = <<>> /\ 1 .. Len(<<>>) = {}
      BY <2>2
    <3> QED BY <3>1 DEF AreTurns
  <2>9. ~Step(c, "demodulate", 1)'
    BY <2>2 DEF Step, Idle
  <2> QED BY <2>7, <2>8, <2>9 DEF TurnsOf
<1>2. CASE UNCHANGED plan
  <2>1. plan.outcome = "ok" /\ TurnsOf(c) /\ c \in Filters
    BY <1>2 DEF TurnsInv, Filters
  <2>2. Passes(c)' = Passes(c) /\ Passes(c) \in Nat
    BY <1>2, <2>1, LatestIs DEF Passes
  <2>3. CASE Done \/ UNCHANGED signalVars
    <3>1. UNCHANGED signalVars
      BY <2>3 DEF Done
    <3> QED BY <2>1, <3>1 DEF signalVars, TurnsOf, TurnLine, Told, Latest, Passes, Step
  <2>4. ASSUME heard'[c][Passes(c) + 2] = heard[c][Passes(c) + 2],
               pre'[c] = pre[c], pcm'[c] = pcm[c], dc'[c] = dc[c],
               ~Step(c, "demodulate", 1), ~Step(c, "demodulate", 1)'
        PROVE  TurnsOf(c)'
    <3>1. Latest(c)' = Latest(c)
      BY <2>2, <2>4 DEF Latest
    <3> QED BY <2>1, <2>4, <3>1, TurnsElsewhere
  <2>5. ASSUME NEW signal \in Signals, Receive(signal) PROVE TurnsOf(c)'
    <3>1. ~Step(c, "demodulate", 1) /\ ~Step(c, "demodulate", 1)'
      BY <2>5 DEF Receive, GoTo, Step, Idle
    <3> QED BY <2>4, <2>5, <3>1 DEF Receive
  <2>6. ASSUME NEW f \in Filters, Pass(f, at.pass) PROVE TurnsOf(c)'
    <3> DEFINE p == at.pass
    <3>1. ~Step(c, "demodulate", 1) /\ ~Step(c, "demodulate", 1)'
      BY <2>6 DEF Pass, GoTo, Step
    <3>2. /\ p \in 1 .. Passes(f)
          /\ \A g \in Filters : g # f => heard'[g] = heard[g]
          /\ \A q : q # p => heard'[f][q] = heard[f][q]
      BY <2>6, PassKeeps
    <3> HIDE DEF p
    <3>3. heard'[c][Passes(c) + 2] = heard[c][Passes(c) + 2]
      <4>1. CASE f = c
        <5>1. Passes(c) + 2 # p
          BY <2>2, <3>2, <4>1
        <5> QED BY <3>2, <4>1, <5>1
      <4>2. CASE f # c
        BY <2>1, <3>2, <4>2
      <4> QED BY <4>1, <4>2
    <3> QED BY <2>4, <2>6, <3>1, <3>3 DEF Pass
  <2>7. ASSUME NEW f \in Filters, Droop(f) PROVE TurnsOf(c)'
    <3>1. CASE f = c
      BY <2>1, <2>7, <3>1, TurnsAfterDroop
    <3>2. CASE f # c
      <4>1. heard'[c] = heard[c]
        BY <2>1, <2>7, <3>2, DroopKeeps, ZenonT(60)
      <4>2. ~Step(c, "demodulate", 1) /\ ~Step(c, "demodulate", 1)'
        BY <2>7, <3>2 DEF Droop, GoTo, Step
      <4> QED BY <2>4, <2>7, <4>1, <4>2 DEF Droop
    <3> QED BY <3>1, <3>2
  <2>8. ASSUME NEW d \in Channels, Rotate(d) PROVE TurnsOf(c)'
    <3>1. ~Step(c, "demodulate", 1) /\ ~Step(c, "demodulate", 1)'
      BY <2>8 DEF Rotate, GoTo, Step
    <3> QED BY <2>4, <2>8, <3>1 DEF Rotate
  <2>9. ASSUME NEW d \in Channels, Demodulate(d) PROVE TurnsOf(c)'
    <3>1. CASE d = c
      BY <2>1, <2>9, <3>1, TurnsAfterDemodulate
    <3>2. CASE d # c
      <4>1. pcm'[c] = pcm[c] /\ pre'[c] = pre[c] /\ dc'[c] = dc[c]
        BY <2>9, <3>2, DemodulateKeeps, Zenon
      <4>2. ~Step(c, "demodulate", 1) /\ ~Step(c, "demodulate", 1)'
        BY <2>9, <3>2 DEF Demodulate, GoTo, Step, Idle
      <4> QED BY <2>4, <2>9, <4>1, <4>2 DEF Demodulate
    <3> QED BY <3>1, <3>2
  <2> QED BY <1>1, <2>3, <2>5, <2>6, <2>7, <2>8, <2>9 DEF SignalNext
<1>3. SignalNext => ComputePlan \/ UNCHANGED plan
  BY DEF SignalNext, Done, Receive, Pass, Droop, Rotate, Demodulate, signalVars
<1> QED BY <1>1, <1>2, <1>3 DEF signalVars

\* What the invariants say of the angles.
LEMMA TurnsToldByInv ==
  ASSUME DataInv, TurnsInv PROVE TurnsAreTold
<1> SUFFICES ASSUME plan.outcome = "ok" PROVE TurnsAreTold
  BY Zenon DEF TurnsAreTold
<1>1. ASSUME NEW c \in Channels
      PROVE  LET outs == heard[c][plan.passes[c] + 2]
                 line == <<Zero>> \o Joined(outs, 0)
                 past == IF outs = <<>> THEN 0
                         ELSE Len(line) - 1 - Len(outs[Len(outs)])
             IN /\ -HalfTurn < dc[c] /\ dc[c] < HalfTurn
                /\ ~Step(c, "demodulate", 1) =>
                     \A k \in 1 .. Len(pcm[c]) :
                       LET z == Product(line[past + k + 1], line[past + k])
                       IN \/ TooStrong(z[2], z[1]) \/ z = Zero
                          \/ InOctant(pcm[c][k] + dc[c], z[2], z[1])
  <2>1. TurnsOf(c) /\ BelowHalfTurn(dc[c])
    BY DEF TurnsInv, DataInv, BlocksAreTyped
  <2>2. -HalfTurn < dc[c] /\ dc[c] < HalfTurn
    BY <2>1 DEF BelowHalfTurn
  <2>3. ~Step(c, "demodulate", 1) =>
          AreTurns(TurnLine(c), Told(c), pcm[c], dc[c])
    BY <2>1 DEF TurnsOf
  <2> QED BY <2>2, <2>3, Zenon DEF AreTurns, TurnLine, LineOf, Told, Latest, Passes
<1> QED BY <1>1, Zenon DEF TurnsAreTold

\* The data of the signal path keep their types and lengths: no filter runs
\* out of its histories or its block.
THEOREM SignalDataInvariant == SignalSpec => []DataInv
<1>1. SignalInit => DataInv
  BY DataStarts
<1>2. DataInv /\ [SignalNext]_signalVars => DataInv'
  BY DataStays
<1> QED BY <1>1, <1>2, PTL DEF SignalSpec

\* The decoder is told the turn from each sample to the next, over the ends of
\* blocks, for any signal, rates and length of a block: demodulate keeps the
\* last sample of a block for the next, and dc_block_filter does not overflow.
THEOREM SignalTurnsAreTold == SignalSpec => []TurnsAreTold
<1>1. SignalInit => TurnsInv
  BY TurnsStart
<1>2. DataInv /\ TurnsInv /\ [SignalNext]_signalVars => TurnsInv'
  BY TurnsStay
<1>3. DataInv /\ TurnsInv => TurnsAreTold
  BY TurnsToldByInv
<1> QED BY <1>1, <1>2, <1>3, SignalDataInvariant, PTL DEF SignalSpec

-----------------------------------------------------------------------------
(* Filters that run over the whole signal.                                  *)

\* The signal as a filter sees it, silence first.
FilterLine(zeros, history, drop) == Zeros(zeros) \o Joined(history, drop)

\* What was kept is the end of the line.
IsEnd(kept, line) ==
  \A n \in 1 .. Len(kept) : kept[n] = line[Len(line) - Len(kept) + n]

\* Both parts of the line are samples.
LEMMA FilterLineIs ==
  ASSUME NEW zeros \in Nat, NEW h \in Seq(Block), NEW drop \in Nat
  PROVE  /\ FilterLine(zeros, h, drop) \in Seq(Sample)
         /\ Joined(h, drop) \in Seq(Sample)
         /\ Len(FilterLine(zeros, h, drop)) = zeros + Len(Joined(h, drop))
         /\ Zeros(zeros) \in Seq(Sample) /\ Len(Zeros(zeros)) = zeros
<1> DEFINE z == Zeros(zeros)
           s == Joined(h, drop)
<1>1. z \in Seq(Sample) /\ Len(z) = zeros
  <2>1. Zero \in Sample
    BY DEF Zero, Sample
  <2>2. z \in [1 .. zeros -> Sample]
    BY <2>1 DEF Zeros
  <2> HIDE DEF z
  <2> QED BY <2>2, SequenceIs
<1>2. s \in Seq(Sample)
  BY JoinedIs DEF Block
<1> HIDE DEF z, s
<1>3. z \o s \in Seq(Sample) /\ Len(z \o s) = Len(z) + Len(s)
  BY <1>1, <1>2, ConcatProperties
<1> QED BY <1>1, <1>2, <1>3 DEF FilterLine, z, s

\* One more block comes behind the line.
LEMMA FilterLineMore ==
  ASSUME NEW zeros \in Nat, NEW h \in Seq(Block), NEW d \in Block, NEW drop \in Nat
  PROVE  FilterLine(zeros, Append(h, d), drop) =
           FilterLine(zeros, h, drop) \o Cut(d, drop)
<1> DEFINE z == Zeros(zeros)
           s == Joined(h, drop)
           t == Cut(d, drop)
<1>1. z \in Seq(Sample) /\ s \in Seq(Sample)
  BY FilterLineIs
<1>2. t \in Seq(Sample)
  BY CutIs DEF Block
<1>3. Joined(Append(h, d), drop) = s \o t
  BY JoinedMore
<1> HIDE DEF z, s, t
<1>4. (z \o s) \o t = z \o (s \o t)
  BY <1>1, <1>2, ConcatAssociative
<1> QED BY <1>3, <1>4 DEF FilterLine, z, s, t

\* Nothing is left out of a block.
LEMMA CutNothing ==
  ASSUME NEW d \in Block
  PROVE  Cut(d, 0) = d
<1>1. d \in Seq(Sample) /\ Len(d) \in Nat
  BY DEF Block
<1>2. 0 \in Nat /\ 0 <= Len(d)
  BY <1>1
<1>3. /\ Cut(d, 0) \in Seq(Sample) /\ Len(Cut(d, 0)) = Len(d) - 0
      /\ \A n \in 1 .. Len(Cut(d, 0)) : Cut(d, 0)[n] = d[n]
  BY <1>2, CutIs DEF Block
<1>4. Len(Cut(d, 0)) = Len(d)
  BY <1>1, <1>3
<1> QED BY <1>1, <1>3, <1>4, SeqEqual

\* What came before a block.
LEMMA PastIs ==
  ASSUME NEW h \in Seq(Block), NEW d \in Block, NEW drop \in Nat
  PROVE  /\ Past(Append(h, d), Len(h) + 1, drop) = Len(Joined(h, drop))
         /\ \A n \in 1 .. Len(h) : Past(Append(h, d), n, drop) = Past(h, n, drop)
<1> DEFINE N == Len(h)
           s == Joins(h, drop)
           t == Joins(Append(h, d), drop)
<1>1. N \in Nat
  OBVIOUS
<1>2. \A n \in 0 .. N : t[n] = s[n]
  BY JoinedMore
<1> HIDE DEF s, t, N
<1>3. (N + 1) - 1 = N /\ N \in 0 .. N
  BY <1>1
<1>4. t[(N + 1) - 1] = s[N]
  BY <1>2, <1>3
<1>5. ASSUME NEW n \in 1 .. N PROVE t[n - 1] = s[n - 1]
  <2>1. n - 1 \in 0 .. N
    BY <1>1
  <2> QED BY <1>2, <2>1
<1> QED BY <1>4, <1>5 DEF Past, Joined, s, t, N

\* A block is behind what came before it.
LEMMA PastAndBlock ==
  ASSUME NEW h \in Seq(Block), h # <<>>, NEW drop \in Nat,
         drop <= Len(h[Len(h)])
  PROVE  /\ Past(h, Len(h), drop) \in Nat
         /\ Len(Joined(h, drop)) = Past(h, Len(h), drop) + Len(h[Len(h)]) - drop
<1> DEFINE N == Len(h)
           d == h[N]
           s == Joins(h, drop)
           x == s[N - 1]
           t == Cut(d, drop)
<1>1. N \in Nat /\ N > 0
  OBVIOUS
<1>2. N \in 1 .. N /\ N - 1 \in 0 .. N
  BY <1>1
<1>3. s \in [0 .. N -> Block] /\ s[N] = s[N - 1] \o Cut(h[N], drop)
  BY <1>2, JoinsGo
<1>4. d \in Block /\ x \in Seq(Sample) /\ drop <= Len(d)
  <2>1. d \in Block
    BY <1>2
  <2>2. x \in Block
    <3> HIDE DEF s
    <3> QED BY <1>2, <1>3
  <2> QED BY <2>1, <2>2 DEF Block
<1> HIDE DEF d
<1>5. t \in Seq(Sample) /\ Len(t) = Len(d) - drop /\ Len(d) \in Nat
  BY <1>4, CutIs DEF Block
<1> HIDE DEF x, t
<1>6. Len(x \o t) = Len(x) + Len(t) /\ Len(x) \in Nat
  <2>1. x \in Seq(Sample) /\ t \in Seq(Sample) /\ Len(x) \in Nat
    BY <1>4, <1>5
  <2>2. Len(x \o t) = Len(x) + Len(t)
    BY <2>1, ConcatProperties
  <2> QED BY <2>1, <2>2
<1>7. Joined(h, drop) = x \o t
  BY <1>3 DEF Joined, x, t, d
<1>8. Past(h, Len(h), drop) = Len(x)
  BY DEF Past, x
<1>9. Len(Joined(h, drop)) = Len(x) + Len(d) - drop
  BY <1>5, <1>6, <1>7
<1> QED BY <1>6, <1>8, <1>9 DEF d

\* A filter that goes on from the samples it kept sees the line.
LEMMA GoesOn ==
  ASSUME NEW kept \in Seq(Sample), NEW line \in Seq(Sample), Len(kept) <= Len(line),
         IsEnd(kept, line), NEW d \in Seq(Sample)
  PROVE  /\ \A n \in 1 .. Len(kept) + Len(d) :
              (kept \o d)[n] = (line \o d)[Len(line) - Len(kept) + n]
         /\ Len(kept \o d) = Len(kept) + Len(d) /\ kept \o d \in Seq(Sample)
         /\ Len(line \o d) = Len(line) + Len(d)
<1> DEFINE K == Len(kept)
           L == Len(line)
           D == Len(d)
           a == kept \o d
           b == line \o d
<1>1. K \in Nat /\ L \in Nat /\ D \in Nat /\ K <= L
  OBVIOUS
<1>2. /\ a \in Seq(Sample) /\ Len(a) = K + D
      /\ \A n \in 1 .. K + D : a[n] = IF n <= K THEN kept[n] ELSE d[n - K]
  BY ConcatProperties
<1>3. /\ b \in Seq(Sample) /\ Len(b) = L + D
      /\ \A n \in 1 .. L + D : b[n] = IF n <= L THEN line[n] ELSE d[n - L]
  BY ConcatProperties
<1>4. \A n \in 1 .. K : kept[n] = line[L - K + n]
  BY DEF IsEnd
<1> HIDE DEF K, L, D, a, b
<1>5. ASSUME NEW n \in 1 .. K + D PROVE a[n] = b[L - K + n]
  <2> DEFINE m == L - K + n
  <2>1. m \in 1 .. L + D /\ (n <= K <=> m <= L) /\ m - L = n - K
    BY <1>1
  <2>2. CASE n <= K
    <3>1. n \in 1 .. K
      BY <2>2
    <3>2. a[n] = line[m]
      BY <1>2, <1>4, <2>2, <3>1
    <3> HIDE DEF m
    <3> QED BY <1>3, <2>1, <2>2, <3>2 DEF m
  <2>3. CASE ~(n <= K)
    <3>1. a[n] = d[n - K]
      BY <1>2, <2>3
    <3> HIDE DEF m
    <3>2. b[m] = d[n - K]
      BY <1>3, <2>1, <2>3
    <3> QED BY <3>1, <3>2 DEF m
  <2> QED BY <2>2, <2>3
<1> QED BY <1>2, <1>3, <1>5 DEF K, L, D, a, b

\* A pass sees no more than six samples.
LEMMA LowPassSame ==
  ASSUME NEW line, NEW k, NEW other, NEW m,
         \A n \in 1 .. 6 : line[k + n] = other[m + n]
  PROVE  LowPass(line, k) = LowPass(other, m)
<1>1. \A n \in 1 .. Len(Binomial) : line[k + n] = other[m + n]
  BY BinomialIs
<1>2. \A part : Sum(Binomial, line, k, part) = Sum(Binomial, other, m, part)
  BY <1>1, SumSame
<1> QED BY <1>2, Zenon DEF LowPass

\* The droop compensation sees no more than nine.
LEMMA CompensatedSame ==
  ASSUME NEW line, NEW k, NEW other, NEW m, NEW passes \in 0 .. 10,
         \A n \in 1 .. 9 : line[k + n] = other[m + n]
  PROVE  Compensated(line, k, passes) = Compensated(other, m, passes)
<1> DEFINE w == Symmetric(passes)
<1>1. \A n \in 1 .. Len(w) : line[k + n] = other[m + n]
  BY SymmetricIs
<1> HIDE DEF w
<1>2. \A part : Sum(w, line, k, part) = Sum(w, other, m, part)
  BY <1>1, SumSame
<1> QED BY <1>2, SMT DEF Compensated, w

\* What a pass makes of the n-th block.
CameThrough(data, ins, n) ==
  /\ Len(data) = Len(ins[n]) \div 2
  /\ \A k \in 1 .. Len(data) :
       data[k] = LowPass(FilterLine(5, ins, 1), Past(ins, n, 1) + 2 * (k - 1))

\* Five of the samples that a pass keeps are used.
LEMMA TailIs ==
  ASSUME NEW kept \in Seq(Sample), Len(kept) = 6
  PROVE  /\ Tail(kept) \in Seq(Sample) /\ Len(Tail(kept)) = 5
         /\ \A n \in 1 .. 5 : Tail(kept)[n] = kept[n + 1]
<1>1. Tail(kept) \in Seq(Sample) /\ Len(Tail(kept)) = 5
  OBVIOUS
<1>2. ASSUME NEW n \in 1 .. 5 PROVE Tail(kept)[n] = kept[n + 1]
  <2>1. Len(kept) # 0 /\ kept # <<>>
    BY SMTT(60)
  <2>2. \A i \in 1 .. Len(Tail(kept)) : Tail(kept)[i] = kept[i + 1]
    BY <2>1, HeadTailProperties
  <2> QED BY <1>1, <2>2
<1> QED BY <1>1, <1>2

\* A pass makes of a block what it makes of the line that goes on with it, and
\* keeps the end of that line.
LEMMA PassGoesOn ==
  ASSUME NEW ins \in Seq(Block), NEW d \in Block, Len(d) >= 2,
         NEW kept \in Seq(Sample), Len(kept) = 6,
         IsEnd(Tail(kept), FilterLine(5, ins, 1))
  PROVE  /\ IsEnd(Tail(Kept(kept, d)), FilterLine(5, Append(ins, d), 1))
         /\ CameThrough(FifthOrder(kept, d), Append(ins, d), Len(ins) + 1)
<1> DEFINE rest == Tail(kept)
           old == FilterLine(5, ins, 1)
           new == FilterLine(5, Append(ins, d), 1)
           J == Len(Joined(ins, 1))
           D == Len(d)
           cut == Cut(d, 1)
           line == Line(kept, d)
           out == Kept(kept, d)
<1>1. D \in Nat /\ D >= 2 /\ d \in Seq(Sample)
  BY DEF Block
<1>2. rest \in Seq(Sample) /\ Len(rest) = 5
  BY TailIs
<1>3. old \in Seq(Sample) /\ Len(old) = 5 + J /\ J \in Nat
  <2>1. /\ FilterLine(5, ins, 1) \in Seq(Sample) /\ Joined(ins, 1) \in Seq(Sample)
        /\ Len(FilterLine(5, ins, 1)) = 5 + Len(Joined(ins, 1))
    BY FilterLineIs
  <2> QED BY <2>1
<1>4. cut \in Seq(Sample) /\ Len(cut) = D - 1
  BY <1>1, CutIs DEF Block
<1>5. line = rest \o cut
  BY DEF Line, Cut
<1>6. new = old \o cut
  BY FilterLineMore
<1>7. IsEnd(rest, old)
  OBVIOUS
<1>8. line \in Seq(Sample) /\ Len(line) = D + 4
  BY <1>1, LineIs
<1> HIDE DEF rest, old, new, J, D, cut
<1>9. /\ \A n \in 1 .. D + 4 : line[n] = new[J + n]
      /\ Len(new) = J + D + 4
  <2>1. Len(rest) <= Len(old)
    BY <1>2, <1>3
  <2>2. /\ \A n \in 1 .. Len(rest) + Len(cut) :
             (rest \o cut)[n] = (old \o cut)[Len(old) - Len(rest) + n]
        /\ Len(old \o cut) = Len(old) + Len(cut)
    BY <1>2, <1>3, <1>4, <1>7, <2>1, GoesOn, ZenonT(60)
  <2>3. Len(rest) + Len(cut) = D + 4 /\ Len(old) - Len(rest) = J
        /\ Len(old) + Len(cut) = J + D + 4
    BY <1>1, <1>2, <1>3, <1>4
  <2> HIDE DEF line
  <2> QED BY <1>5, <1>6, <2>2, <2>3
<1> HIDE DEF line
<1>10. CameThrough(FifthOrder(kept, d), Append(ins, d), Len(ins) + 1)
  <2> DEFINE N == D \div 2
             x == FifthOrder(kept, d)
  <2>1. N \in Nat /\ 2 * N <= D
    BY <1>1
  <2>2. x = [k \in 1 .. N |-> LowPass(line, 2 * (k - 1))]
    BY DEF FifthOrder, line, D
  <2> HIDE DEF N, x
  <2>3. ASSUME NEW k \in 1 .. N PROVE x[k] = LowPass(new, J + 2 * (k - 1))
    <3> DEFINE m == 2 * (k - 1)
    <3>1. m \in Nat /\ m + 6 <= D + 4
      BY <1>1, <2>1
    <3>2. x[k] = LowPass(line, m)
      BY <2>2
    <3> HIDE DEF m
    <3>3. ASSUME NEW n \in 1 .. 6 PROVE line[m + n] = new[(J + m) + n]
      <4>1. m + n \in 1 .. D + 4 /\ J + (m + n) = (J + m) + n
        BY <1>1, <1>3, <3>1
      <4> QED BY <1>9, <4>1
    <3>4. LowPass(line, m) = LowPass(new, J + m)
      BY <3>3, LowPassSame
    <3> QED BY <3>2, <3>4 DEF m
  <2>4. x \in Seq(Sample) /\ Len(x) = N
    BY <1>1, FifthOrderIs DEF x, N, D
  <2>5. Append(ins, d)[Len(ins) + 1] = d
    OBVIOUS
  <2>6. Past(Append(ins, d), Len(ins) + 1, 1) = J
    BY PastIs DEF J
  <2>7. /\ Len(x) = Len(Append(ins, d)[Len(ins) + 1]) \div 2
        /\ \A k \in 1 .. Len(x) :
             x[k] = LowPass(FilterLine(5, Append(ins, d), 1),
                            Past(Append(ins, d), Len(ins) + 1, 1) + 2 * (k - 1))
    <3>1. Len(x) = Len(Append(ins, d)[Len(ins) + 1]) \div 2
      BY <2>4, <2>5 DEF N, D
    <3> QED BY <2>3, <2>4, <2>6, <3>1 DEF new
  <2> QED BY <2>7 DEF CameThrough, x
<1>11. IsEnd(Tail(out), new)
  <2>1. out = SubSeq(line, Len(line) - 5, Len(line))
    BY DEF Kept, line
  <2>2. out \in Seq(Sample) /\ Len(out) = 6
    BY <1>1, KeptIs
  <2> HIDE DEF out
  <2>3. ASSUME NEW n \in 1 .. 6 PROVE out[n] = line[Len(line) - 6 + n]
    <3> DEFINE first == Len(line) - 5
               last == Len(line)
    <3>1. first \in Int /\ last \in Int /\ n \in 1 .. last - first + 1
          /\ first + n - 1 = Len(line) - 6 + n
      BY <1>1, <1>8
    <3>2. \A i \in first .. last : line[i] \in Sample
      BY <1>1, <1>8
    <3> HIDE DEF first, last
    <3>3. SubSeq(line, first, last)[n] = line[first + n - 1]
      BY <3>1, <3>2, SubSeqProperties
    <3> QED BY <2>1, <3>1, <3>3 DEF first, last
  <2>4. Len(Tail(out)) = 5 /\ \A n \in 1 .. 5 : Tail(out)[n] = out[n + 1]
    BY <2>2, TailIs
  <2>5. ASSUME NEW n \in 1 .. 5 PROVE Tail(out)[n] = new[Len(new) - 5 + n]
    <3>1. /\ n + 1 \in 1 .. 6 /\ Len(line) - 6 + (n + 1) = D - 1 + n
          /\ D - 1 + n \in 1 .. D + 4 /\ J + (D - 1 + n) = Len(new) - 5 + n
      BY <1>1, <1>3, <1>8, <1>9
    <3>2. Tail(out)[n] = line[D - 1 + n]
      BY <2>3, <2>4, <3>1
    <3>3. line[D - 1 + n] = new[J + (D - 1 + n)]
      BY <1>9, <3>1
    <3> QED BY <3>1, <3>2, <3>3
  <2> QED BY <2>4, <2>5 DEF IsEnd
<1> QED BY <1>10, <1>11 DEF new, out

\* And blocks to come change nothing about it.
LEMMA CameThroughStays ==
  ASSUME NEW ins \in Seq(Block), ins # <<>>, Len(ins[Len(ins)]) > 0,
         NEW d \in Block, NEW data, CameThrough(data, ins, Len(ins))
  PROVE  CameThrough(data, Append(ins, d), Len(ins))
<1> DEFINE N == Len(ins)
           E == Len(ins[N])
           P == Past(ins, N, 1)
           old == FilterLine(5, ins, 1)
           new == FilterLine(5, Append(ins, d), 1)
           cut == Cut(d, 1)
<1>1. N \in Nat /\ N \in 1 .. N /\ Append(ins, d)[N] = ins[N]
  OBVIOUS
<1>2. E \in Nat /\ E >= 1
  <2>1. ins[N] \in Block
    BY <1>1
  <2> QED BY <2>1 DEF Block
<1>3. old \in Seq(Sample) /\ Len(old) = P + E + 4 /\ P \in Nat
  <2>1. P \in Nat /\ Len(Joined(ins, 1)) = P + E - 1
    BY <1>2, PastAndBlock
  <2> HIDE DEF P, E, N
  <2>2. old \in Seq(Sample) /\ Len(old) = 5 + Len(Joined(ins, 1))
    <3>1. 5 \in Nat /\ 1 \in Nat
      OBVIOUS
    <3> QED BY <3>1, FilterLineIs
  <2> HIDE DEF old
  <2> QED BY <1>2, <2>1, <2>2
<1>4. cut \in Seq(Sample)
  BY CutIs DEF Block
<1>5. new = old \o cut
  BY FilterLineMore
<1>6. Past(Append(ins, d), N, 1) = P
  BY <1>1, PastIs
<1>7. /\ Len(data) = E \div 2
      /\ \A k \in 1 .. Len(data) : data[k] = LowPass(old, P + 2 * (k - 1))
  BY DEF CameThrough
<1> HIDE DEF N, E, P, old, new, cut
<1>8. \A n \in 1 .. Len(old) : new[n] = old[n]
  <2>1. /\ Len(old) \in Nat /\ Len(cut) \in Nat
        /\ \A n \in 1 .. Len(old) + Len(cut) :
             (old \o cut)[n] = IF n <= Len(old) THEN old[n] ELSE cut[n - Len(old)]
    BY <1>3, <1>4, ConcatProperties
  <2> QED BY <1>5, <2>1
<1>9. ASSUME NEW k \in 1 .. Len(data)
      PROVE  data[k] = LowPass(new, P + 2 * (k - 1))
  <2> DEFINE m == P + 2 * (k - 1)
  <2>1. m \in Nat /\ m + 6 <= Len(old)
    BY <1>2, <1>3, <1>7
  <2>2. data[k] = LowPass(old, m)
    BY <1>7
  <2> HIDE DEF m
  <2>3. ASSUME NEW n \in 1 .. 6 PROVE old[m + n] = new[m + n]
    <3>1. m + n \in 1 .. Len(old)
      BY <1>3, <2>1
    <3> QED BY <1>8, <3>1
  <2>4. LowPass(old, m) = LowPass(new, m)
    BY <2>3, LowPassSame
  <2> QED BY <2>2, <2>4 DEF m
<1>10. /\ Len(data) = Len(Append(ins, d)[N]) \div 2
       /\ \A k \in 1 .. Len(data) :
            data[k] = LowPass(FilterLine(5, Append(ins, d), 1),
                              Past(Append(ins, d), N, 1) + 2 * (k - 1))
  BY <1>1, <1>6, <1>7, <1>9 DEF new, E
<1> QED BY <1>10 DEF CameThrough, N

\* What the droop compensation makes of the n-th block.
CameOut(data, ins, n, passes) ==
  \A k \in 1 .. Len(data) :
    data[k] = Compensated(FilterLine(9, ins, 0), Past(ins, n, 0) + k - 1, passes)

\* So does the droop compensation.
LEMMA DroopGoesOn ==
  ASSUME NEW ins \in Seq(Block), NEW d \in Block,
         NEW kept \in Seq(Sample), Len(kept) = 9, NEW passes \in 0 .. 10,
         IsEnd(kept, FilterLine(9, ins, 0))
  PROVE  /\ IsEnd(DroopKept(kept, d), FilterLine(9, Append(ins, d), 0))
         /\ CameOut(GenericFir(kept, d, passes), Append(ins, d), Len(ins) + 1, passes)
<1> DEFINE old == FilterLine(9, ins, 0)
           new == FilterLine(9, Append(ins, d), 0)
           J == Len(Joined(ins, 0))
           D == Len(d)
           line == kept \o d
           out == DroopKept(kept, d)
<1>1. D \in Nat /\ d \in Seq(Sample)
  BY DEF Block
<1>2. old \in Seq(Sample) /\ Len(old) = 9 + J /\ J \in Nat
  <2>1. /\ FilterLine(9, ins, 0) \in Seq(Sample) /\ Joined(ins, 0) \in Seq(Sample)
        /\ Len(FilterLine(9, ins, 0)) = 9 + Len(Joined(ins, 0))
    BY FilterLineIs
  <2> QED BY <2>1
<1>3. Cut(d, 0) = d
  BY CutNothing
<1>4. new = old \o d
  <2>1. new = old \o Cut(d, 0)
    BY FilterLineMore
  <2> QED BY <1>3, <2>1
<1>5. IsEnd(kept, old)
  OBVIOUS
<1> HIDE DEF old, new, J, D
<1>6. /\ \A n \in 1 .. 9 + D : line[n] = new[J + n]
      /\ Len(line) = 9 + D /\ line \in Seq(Sample) /\ Len(new) = J + 9 + D
  <2>1. Len(kept) <= Len(old)
    BY <1>2
  <2>2. /\ \A n \in 1 .. Len(kept) + Len(d) :
             (kept \o d)[n] = (old \o d)[Len(old) - Len(kept) + n]
        /\ Len(kept \o d) = Len(kept) + Len(d) /\ kept \o d \in Seq(Sample)
        /\ Len(old \o d) = Len(old) + Len(d)
    BY <1>1, <1>2, <1>5, <2>1, GoesOn
  <2>3. Len(kept) + Len(d) = 9 + D /\ Len(old) - Len(kept) = J
        /\ Len(old) + Len(d) = J + 9 + D
    BY <1>1, <1>2 DEF D
  <2> QED BY <1>4, <2>2, <2>3
<1> HIDE DEF line
<1>7. CameOut(GenericFir(kept, d, passes), Append(ins, d), Len(ins) + 1, passes)
  <2> DEFINE x == GenericFir(kept, d, passes)
  <2>1. x = [k \in 1 .. D |-> Compensated(line, k - 1, passes)]
    BY DEF GenericFir, line, D
  <2>2. Len(x) = D
    BY <1>1, GenericFirIs DEF D
  <2> HIDE DEF x
  <2>3. ASSUME NEW k \in 1 .. D PROVE x[k] = Compensated(new, J + k - 1, passes)
    <3> DEFINE m == k - 1
    <3>1. m \in Nat /\ m + 9 <= 9 + D /\ J + k - 1 = J + m
      BY <1>1, <1>2
    <3>2. x[k] = Compensated(line, m, passes)
      BY <2>1
    <3> HIDE DEF m
    <3>3. ASSUME NEW n \in 1 .. 9 PROVE line[m + n] = new[(J + m) + n]
      <4>1. m + n \in 1 .. 9 + D /\ J + (m + n) = (J + m) + n
        BY <1>1, <1>2, <3>1
      <4> QED BY <1>6, <4>1
    <3>4. Compensated(line, m, passes) = Compensated(new, J + m, passes)
      BY <3>3, CompensatedSame, SMTT(60)
    <3> QED BY <3>1, <3>2, <3>4
  <2>4. Past(Append(ins, d), Len(ins) + 1, 0) = J
    BY PastIs DEF J
  <2>5. \A k \in 1 .. Len(x) :
          x[k] = Compensated(FilterLine(9, Append(ins, d), 0),
                             Past(Append(ins, d), Len(ins) + 1, 0) + k - 1, passes)
    BY <2>2, <2>3, <2>4 DEF new
  <2> QED BY <2>5 DEF CameOut, x
<1>8. IsEnd(out, new)
  <2>1. out = SubSeq(line, D + 1, D + 9)
    BY DEF DroopKept, line, D
  <2>2. Len(out) = 9
    BY <1>1, DroopKeptIs
  <2> HIDE DEF out
  <2>3. ASSUME NEW n \in 1 .. 9 PROVE out[n] = line[D + n]
    <3> DEFINE first == D + 1
               last == D + 9
    <3>1. first \in Int /\ last \in Int /\ n \in 1 .. last - first + 1
          /\ first + n - 1 = D + n
      BY <1>1
    <3>2. \A i \in first .. last : line[i] \in Sample
      BY <1>1, <1>6
    <3> HIDE DEF first, last
    <3>3. SubSeq(line, first, last)[n] = line[first + n - 1]
      BY <3>1, <3>2, SubSeqProperties
    <3> QED BY <2>1, <3>1, <3>3 DEF first, last
  <2>4. ASSUME NEW n \in 1 .. 9 PROVE out[n] = new[Len(new) - 9 + n]
    <3>1. D + n \in 1 .. 9 + D /\ J + (D + n) = Len(new) - 9 + n
      BY <1>1, <1>2, <1>6
    <3> QED BY <1>6, <2>3, <3>1
  <2> QED BY <2>2, <2>4 DEF IsEnd
<1> QED BY <1>7, <1>8 DEF new, out

\* A pass remembers the end of its line, and what came out of it last is what it
\* makes of the line; a block is between two passes at most.
PassInv(f, p) ==
  LET ins == heard[f][p]
      outs == heard[f][p + 1]
  IN /\ IsEnd(Tail(hist[f][p]), FilterLine(5, ins, 1))
     /\ Step(f, "filter", p + 1) =>
          Len(ins) = Len(outs) + 1 /\ CameThrough(bufs[f], ins, Len(ins))
     /\ ~Step(f, "filter", p + 1) => Len(ins) = Len(outs)
     /\ outs # <<>> => CameThrough(outs[Len(outs)], ins, Len(outs))

DroopInv(f) ==
  LET ins == heard[f][Passes(f) + 1]
      outs == heard[f][Passes(f) + 2]
  IN /\ IsEnd(droop[f], FilterLine(9, ins, 0))
     /\ Len(ins) = Len(outs)
     /\ outs # <<>> => CameOut(outs[Len(outs)], ins, Len(outs), Passes(f))

FiltersInv ==
  plan.outcome = "ok" =>
    \A f \in Filters : (\A p \in 1 .. Passes(f) : PassInv(f, p)) /\ DroopInv(f)

\* What was heard at one place.
LEMMA HeardIs ==
  ASSUME DataInv, plan.outcome = "ok", NEW f \in Filters
  PROVE  /\ Passes(f) \in Nat
         /\ \A p \in 1 .. Passes(f) + 2 :
              /\ heard[f][p] \in Seq(Block) /\ Len(heard[f][p]) \in Nat
              /\ \A n \in 1 .. Len(heard[f][p]) : Len(heard[f][p][n]) > 0
         /\ Passes(f) + 1 \in 1 .. Passes(f) + 2
         /\ Passes(f) + 2 \in 1 .. Passes(f) + 2
<1>1. Passes(f) \in Nat
  <2>1. PlanIs(plan)
    BY DEF DataInv, PlanInv
  <2> QED BY <2>1 DEF PlanIs, Passes
<1>2. heard[f] \in Seq(Seq(Block)) /\ Len(heard[f]) = Passes(f) + 2
  BY DEF DataInv, PassesAreTyped
<1>3. ASSUME NEW p \in 1 .. Passes(f) + 2
      PROVE  /\ heard[f][p] \in Seq(Block) /\ Len(heard[f][p]) \in Nat
             /\ \A n \in 1 .. Len(heard[f][p]) : Len(heard[f][p][n]) > 0
  <2>1. heard[f][p] \in Seq(Block)
    BY <1>2
  <2>2. \A n \in 1 .. Len(heard[f][p]) : Len(heard[f][p][n]) > 0
    BY DEF DataInv, PassesAreTyped
  <2>3. Len(heard[f][p]) \in Nat
    BY <2>1
  <2> QED BY <2>1, <2>2, <2>3
<1> QED BY <1>1, <1>3

\* A block goes into a pass.
LEMMA PassTakes ==
  ASSUME DataInv, NEW f \in Filters, NEW p, Pass(f, p), PassInv(f, p)
  PROVE  PassInv(f, p)'
<1> DEFINE ins == heard[f][p]
           outs == heard[f][p + 1]
           kept == hist[f][p]
           d == bufs[f]
<1>1. /\ p \in 1 .. Passes(f) /\ Passes(f) \in 0 .. 10
      /\ d \in Seq(Sample) /\ Len(d) >= 2
      /\ kept \in Seq(Sample) /\ Len(kept) = 6
      /\ hist'[f][p] = Kept(kept, d)
      /\ heard'[f][p] = Append(ins, d)
      /\ bufs'[f] = FifthOrder(kept, d)
      /\ \A q : q # p => heard'[f][q] = heard[f][q]
  BY PassKeeps
<1>2. /\ Step(f, "filter", p)
      /\ at' = [filter |-> f, step |-> "filter", pass |-> p + 1]
      /\ plan' = plan
  BY DEF Pass, GoTo
<1>3. plan.outcome = "ok"
  BY <1>2 DEF DataInv, PlaceIsRight, Fits, Step, Idle
<1>4. p \in Nat /\ p + 1 # p /\ p \in 1 .. Passes(f) + 2 /\ p + 1 \in 1 .. Passes(f) + 2
  BY <1>1
<1>5. ~Step(f, "filter", p + 1) /\ Step(f, "filter", p + 1)'
  BY <1>2, <1>4 DEF Step
<1>6. /\ ins \in Seq(Block) /\ Len(ins) \in Nat
      /\ outs \in Seq(Block) /\ Len(outs) \in Nat
      /\ \A n \in 1 .. Len(ins) : Len(ins[n]) > 0
  BY <1>3, <1>4, HeardIs
<1>7. heard'[f][p + 1] = outs
  BY <1>1, <1>4
<1>8. /\ IsEnd(Tail(kept), FilterLine(5, ins, 1))
      /\ Len(ins) = Len(outs)
      /\ outs # <<>> => CameThrough(outs[Len(outs)], ins, Len(outs))
  BY <1>5 DEF PassInv
<1> HIDE DEF ins, outs, kept, d
<1>9. /\ IsEnd(Tail(Kept(kept, d)), FilterLine(5, Append(ins, d), 1))
      /\ CameThrough(FifthOrder(kept, d), Append(ins, d), Len(ins) + 1)
  BY <1>1, <1>6, <1>8, PassGoesOn DEF Block
<1>10. Len(Append(ins, d)) = Len(ins) + 1
  BY <1>6
<1>11. ASSUME outs # <<>>
       PROVE  CameThrough(outs[Len(outs)], Append(ins, d), Len(outs))
  <2>1. Len(outs) > 0
    BY <1>6, <1>11, EmptySeq
  <2>2. ins # <<>> /\ Len(ins[Len(ins)]) > 0
    <3>1. Len(ins) \in 1 .. Len(ins)
      BY <1>6, <1>8, <2>1
    <3>2. ins # <<>>
      BY <1>6, <3>1
    <3> QED BY <1>6, <3>1, <3>2
  <2>3. CameThrough(outs[Len(outs)], ins, Len(ins))
    BY <1>8, <1>11
  <2>4. d \in Block
    BY <1>1 DEF Block
  <2>5. CameThrough(outs[Len(outs)], Append(ins, d), Len(ins))
    BY <1>6, <2>2, <2>3, <2>4, CameThroughStays
  <2> QED BY <1>8, <2>5
<1>12. /\ IsEnd(Tail(hist'[f][p]), FilterLine(5, heard'[f][p], 1))
       /\ Len(heard'[f][p]) = Len(heard'[f][p + 1]) + 1
       /\ CameThrough(bufs'[f], heard'[f][p], Len(heard'[f][p]))
       /\ heard'[f][p + 1] # <<>> =>
            CameThrough(heard'[f][p + 1][Len(heard'[f][p + 1])], heard'[f][p],
                        Len(heard'[f][p + 1]))
  BY <1>1, <1>7, <1>8, <1>9, <1>10, <1>11
<1> QED BY <1>5, <1>12, Zenon DEF PassInv

\* What came out of it goes on.
LEMMA PassGives ==
  ASSUME DataInv, plan.outcome = "ok",
         NEW f \in Filters, NEW p \in 1 .. Passes(f), PassInv(f, p),
         Step(f, "filter", p + 1), ~Step(f, "filter", p + 1)',
         hist'[f][p] = hist[f][p], heard'[f][p] = heard[f][p],
         heard'[f][p + 1] = Append(heard[f][p + 1], bufs[f])
  PROVE  PassInv(f, p)'
<1> DEFINE ins == heard[f][p]
           outs == heard[f][p + 1]
           d == bufs[f]
<1>1. /\ IsEnd(Tail(hist[f][p]), FilterLine(5, ins, 1))
      /\ Len(ins) = Len(outs) + 1 /\ CameThrough(d, ins, Len(ins))
  BY DEF PassInv
<1>2. outs \in Seq(Block)
  <2>1. p + 1 \in 1 .. Passes(f) + 2
    BY HeardIs
  <2> QED BY <2>1, HeardIs
<1>3. d \in Block
  BY DEF DataInv, BlocksAreTyped
<1> HIDE DEF ins, outs, d
<1>4. /\ Len(Append(outs, d)) = Len(ins)
      /\ Append(outs, d)[Len(Append(outs, d))] = d
  BY <1>1, <1>2, <1>3
<1>5. /\ IsEnd(Tail(hist'[f][p]), FilterLine(5, heard'[f][p], 1))
      /\ Len(heard'[f][p]) = Len(heard'[f][p + 1])
      /\ CameThrough(heard'[f][p + 1][Len(heard'[f][p + 1])], heard'[f][p],
                     Len(heard'[f][p + 1]))
  BY <1>1, <1>4 DEF ins, outs, d
<1> QED BY <1>5, Zenon DEF PassInv

\* A step of anything else.
LEMMA PassElsewhere ==
  ASSUME NEW f, NEW p, PassInv(f, p),
         ~Step(f, "filter", p + 1), ~Step(f, "filter", p + 1)',
         hist'[f][p] = hist[f][p], heard'[f][p] = heard[f][p],
         heard'[f][p + 1] = heard[f][p + 1]
  PROVE  PassInv(f, p)'
BY Zenon DEF PassInv

\* A block goes into the droop compensation and comes out.
LEMMA DroopTakes ==
  ASSUME DataInv, NEW f \in Filters, Droop(f), DroopInv(f)
  PROVE  DroopInv(f)'
<1> DEFINE P == Passes(f)
           ins == heard[f][P + 1]
           outs == heard[f][P + 2]
           d == bufs[f]
           data == GenericFir(droop[f], d, P)
<1>1. /\ Step(f, "filter", P + 1) /\ P \in 0 .. 10
      /\ d \in Seq(Sample)
      /\ droop[f] \in Seq(Sample) /\ Len(droop[f]) = 9
      /\ data \in Block
      /\ droop'[f] = DroopKept(droop[f], d)
      /\ heard'[f][P + 1] = Append(ins, d)
      /\ heard'[f][P + 2] = Append(outs, data)
  BY DroopKeeps, Zenon
<1>2. plan' = plan
  BY DEF Droop
<1>3. plan.outcome = "ok"
  BY <1>1 DEF DataInv, PlaceIsRight, Fits, Step, Idle
<1>4. Passes(f)' = P
  BY <1>2 DEF Passes
<1>5. ins \in Seq(Block) /\ outs \in Seq(Block)
  BY <1>3, HeardIs
<1>6. IsEnd(droop[f], FilterLine(9, ins, 0)) /\ Len(ins) = Len(outs)
  BY Zenon DEF DroopInv
<1> HIDE DEF P, ins, outs, d, data
<1>7. /\ IsEnd(DroopKept(droop[f], d), FilterLine(9, Append(ins, d), 0))
      /\ CameOut(data, Append(ins, d), Len(ins) + 1, P)
  BY <1>1, <1>5, <1>6, DroopGoesOn DEF Block, data
<1>8. /\ Len(Append(ins, d)) = Len(ins) + 1
      /\ Len(Append(outs, data)) = Len(ins) + 1
      /\ Append(outs, data)[Len(Append(outs, data))] = data
  BY <1>1, <1>5, <1>6
<1>9. /\ IsEnd(droop'[f], FilterLine(9, heard'[f][P + 1], 0))
      /\ Len(heard'[f][P + 1]) = Len(heard'[f][P + 2])
      /\ CameOut(heard'[f][P + 2][Len(heard'[f][P + 2])], heard'[f][P + 1],
                 Len(heard'[f][P + 2]), P)
  BY <1>1, <1>7, <1>8
<1> QED BY <1>4, <1>9, Zenon DEF DroopInv

\* A step that is not about the droop compensation of a filter.
LEMMA DroopElsewhere ==
  ASSUME NEW f, DroopInv(f), plan' = plan, droop'[f] = droop[f],
         heard'[f][Passes(f) + 1] = heard[f][Passes(f) + 1],
         heard'[f][Passes(f) + 2] = heard[f][Passes(f) + 2]
  PROVE  DroopInv(f)'
<1>1. Passes(f)' = Passes(f)
  BY DEF Passes
<1> QED BY <1>1, Zenon DEF DroopInv

\* Silence is remembered of an empty line.
LEMMA SilenceIsEnd ==
  ASSUME NEW kept, NEW n \in Nat, Len(kept) = n, \A k \in 1 .. n : kept[k] = Zero,
         NEW drop \in Nat
  PROVE  IsEnd(kept, FilterLine(n, <<>>, drop))
<1> DEFINE none == <<>>
           line == FilterLine(n, none, drop)
<1>1. none \in Seq(Block)
  OBVIOUS
<1> HIDE DEF none
<1>2. Joined(none, drop) = <<>>
  BY <1>1, JoinedIs DEF none
<1>3. Zeros(n) \in Seq(Sample) /\ Len(Zeros(n)) = n
  BY <1>1, FilterLineIs
<1>4. line = Zeros(n)
  BY <1>2, <1>3, ConcatEmptySeq DEF FilterLine
<1> HIDE DEF line
<1>5. ASSUME NEW k \in 1 .. n PROVE kept[k] = line[Len(line) - n + k]
  <2>1. Len(line) - n + k = k /\ kept[k] = Zero
    BY <1>3, <1>4
  <2>2. line[k] = Zero
    BY <1>4 DEF Zeros
  <2> QED BY <2>1, <2>2
<1> QED BY <1>5 DEF IsEnd, line, none

\* The histories that downsample_init clears are silence before the signal.
LEMMA FiltersStart ==
  ASSUME DataInv, ComputePlan, plan'.outcome = "ok", NEW f \in Filters
  PROVE  (\A p \in 1 .. Passes(f)' : PassInv(f, p)') /\ DroopInv(f)'
<1>1. PlanInv'
  BY PlanStays DEF SignalNext, DataInv
<1>2. /\ DataInv' /\ at' = Idle
      /\ \A p \in 1 .. Passes(f)' + 2 : heard'[f][p] = <<>>
  BY <1>1, ComputePlanKeeps
<1>3. /\ plan.outcome = "none" /\ UNCHANGED droop
      /\ hist' = [g \in Filters |-> [p \in 1 .. Passes(g)' |->
                                       [n \in 1 .. 6 |-> Zero]]]
  BY DEF ComputePlan, Passes
<1>4. droop'[f] = [n \in 1 .. 9 |-> Zero]
  BY <1>3 DEF DataInv, NotBefore
<1>5. Passes(f)' \in Nat
  <2>1. PlanIs(plan')
    BY <1>1 DEF PlanInv
  <2> QED BY <2>1 DEF PlanIs, Passes
<1>6. ASSUME NEW p \in 1 .. Passes(f)' PROVE PassInv(f, p)'
  <2>1. /\ heard'[f][p] = <<>> /\ heard'[f][p + 1] = <<>>
    <3>1. p \in 1 .. Passes(f)' + 2 /\ p + 1 \in 1 .. Passes(f)' + 2
      BY <1>5
    <3> QED BY <1>2, <3>1
  <2> DEFINE zeros == [n \in 1 .. 6 |-> Zero]
  <2>2. hist'[f][p] = zeros
    BY <1>3
  <2>3. zeros \in Seq(Sample) /\ Len(zeros) = 6 /\ \A n \in 1 .. 6 : zeros[n] = Zero
    <3>1. Zero \in Sample
      BY DEF Zero, Sample
    <3>2. zeros \in [1 .. 6 -> Sample] /\ 6 \in Nat
      BY <3>1
    <3> QED BY <3>2, SequenceIs
  <2> HIDE DEF zeros
  <2>4. Len(Tail(zeros)) = 5 /\ \A n \in 1 .. 5 : Tail(zeros)[n] = zeros[n + 1]
    BY <2>3, TailIs
  <2>5. ASSUME NEW n \in 1 .. 5 PROVE Tail(zeros)[n] = Zero
    <3>1. n + 1 \in 1 .. 6
      OBVIOUS
    <3> QED BY <2>3, <2>4, <3>1
  <2>6. IsEnd(Tail(zeros), FilterLine(5, <<>>, 1))
    BY <2>4, <2>5, SilenceIsEnd
  <2>7. ~Step(f, "filter", p + 1)'
    BY <1>2 DEF Step, Idle
  <2> QED BY <2>1, <2>2, <2>6, <2>7, Zenon DEF PassInv
<1>7. DroopInv(f)'
  <2> DEFINE zeros == [n \in 1 .. 9 |-> Zero]
  <2>1. Len(zeros) = 9 /\ \A n \in 1 .. 9 : zeros[n] = Zero
    <3>1. Zero \in Sample
      BY DEF Zero, Sample
    <3>2. zeros \in [1 .. 9 -> Sample] /\ 9 \in Nat
      BY <3>1
    <3> QED BY <3>2, SequenceIs
  <2>2. droop'[f] = zeros
    BY <1>4
  <2> HIDE DEF zeros
  <2>3. IsEnd(zeros, FilterLine(9, <<>>, 0))
    BY <2>1, SilenceIsEnd
  <2>4. heard'[f][Passes(f)' + 1] = <<>> /\ heard'[f][Passes(f)' + 2] = <<>>
    <3>1. /\ Passes(f)' + 1 \in 1 .. Passes(f)' + 2
          /\ Passes(f)' + 2 \in 1 .. Passes(f)' + 2
      BY <1>5
    <3> QED BY <1>2, <3>1
  <2> QED BY <2>2, <2>3, <2>4, Zenon DEF DroopInv
<1> QED BY <1>6, <1>7

\* Each filter keeps the end of its line, whatever the signal path does.
LEMMA FiltersStay ==
  ASSUME DataInv, FiltersInv, [SignalNext]_signalVars
  PROVE  FiltersInv'
<1> SUFFICES ASSUME plan'.outcome = "ok", NEW f \in Filters
             PROVE  (\A q \in 1 .. Passes(f)' : PassInv(f, q)') /\ DroopInv(f)'
  BY DEF FiltersInv
<1> DEFINE Goal == (\A q \in 1 .. Passes(f)' : PassInv(f, q)') /\ DroopInv(f)'
<1>1. CASE ComputePlan
  BY <1>1, FiltersStart
<1>2. CASE UNCHANGED plan
  <2>1. /\ plan.outcome = "ok" /\ DroopInv(f)
        /\ \A q \in 1 .. Passes(f) : PassInv(f, q)
    BY <1>2 DEF FiltersInv
  <2>2. Passes(f)' = Passes(f) /\ Passes(f) \in Nat
    BY <1>2, <2>1, HeardIs DEF Passes
  <2>3. ASSUME UNCHANGED <<hist, droop, heard>>,
               \A q \in 1 .. Passes(f) :
                 ~Step(f, "filter", q + 1) /\ ~Step(f, "filter", q + 1)'
        PROVE  Goal
    <3>1. ASSUME NEW q \in 1 .. Passes(f) PROVE PassInv(f, q)'
      BY <2>1, <2>3, PassElsewhere
    <3>2. DroopInv(f)'
      BY <1>2, <2>1, <2>3, DroopElsewhere
    <3> QED BY <2>2, <3>1, <3>2
  <2>4. CASE Done \/ UNCHANGED signalVars
    <3>1. UNCHANGED signalVars
      BY <2>4 DEF Done
    <3>2. UNCHANGED <<plan, at, bufs, hist, droop, heard>>
      BY <3>1 DEF signalVars
    <3>3. \A q : PassInv(f, q)' <=> PassInv(f, q)
      BY <3>2 DEF PassInv, Step
    <3>4. DroopInv(f)'
      BY <2>1, <3>2, DroopElsewhere
    <3> QED BY <2>1, <2>2, <3>3, <3>4
  <2>5. ASSUME NEW signal \in Signals, Receive(signal) PROVE Goal
    <3>1. \A q \in 1 .. Passes(f) :
            ~Step(f, "filter", q + 1) /\ ~Step(f, "filter", q + 1)'
      BY <2>2, <2>5 DEF Receive, GoTo, Step, Idle
    <3> HIDE DEF Goal
    <3> QED BY <2>3, <2>5, <3>1 DEF Receive
  <2>6. ASSUME NEW c \in Channels, Rotate(c) PROVE Goal
    <3>1. \A q \in 1 .. Passes(f) :
            ~Step(f, "filter", q + 1) /\ ~Step(f, "filter", q + 1)'
      BY <2>2, <2>6 DEF Rotate, GoTo, Step
    <3> HIDE DEF Goal
    <3> QED BY <2>3, <2>6, <3>1 DEF Rotate
  <2>7. ASSUME NEW c \in Channels, Demodulate(c) PROVE Goal
    <3>1. \A q \in 1 .. Passes(f) :
            ~Step(f, "filter", q + 1) /\ ~Step(f, "filter", q + 1)'
      BY <2>7 DEF Demodulate, GoTo, Step, Idle
    <3> HIDE DEF Goal
    <3> QED BY <2>3, <2>7, <3>1 DEF Demodulate
  <2>8. ASSUME NEW g \in Filters, Pass(g, at.pass) PROVE Goal
    <3> DEFINE p == at.pass
    <3>1. /\ p \in 1 .. Passes(g)
          /\ heard'[g][p] = Append(heard[g][p], bufs[g])
          /\ \A h \in Filters : h # g => hist'[h] = hist[h] /\ heard'[h] = heard[h]
          /\ \A q : q # p => hist'[g][q] = hist[g][q] /\ heard'[g][q] = heard[g][q]
      BY <2>8, PassKeeps, SMTT(60)
    <3>2. /\ at = [filter |-> g, step |-> "filter", pass |-> p]
          /\ at' = [filter |-> g, step |-> "filter", pass |-> p + 1]
          /\ UNCHANGED <<plan, droop>>
      BY <2>8 DEF Pass, Step, GoTo
    <3>3. Pass(g, p)
      BY <2>8
    <3> HIDE DEF p
    <3>4. CASE f # g
      <4>1. hist'[f] = hist[f] /\ heard'[f] = heard[f]
        BY <3>1, <3>4
      <4>2. ASSUME NEW q \in 1 .. Passes(f) PROVE PassInv(f, q)'
        <5>1. ~Step(f, "filter", q + 1) /\ ~Step(f, "filter", q + 1)'
          BY <3>2, <3>4 DEF Step
        <5> QED BY <2>1, <4>1, <5>1, PassElsewhere
      <4>3. DroopInv(f)'
        BY <2>1, <3>2, <4>1, DroopElsewhere
      <4> QED BY <2>2, <4>2, <4>3
    <3>5. CASE f = g
      <4>1. p \in Nat /\ p <= Passes(f)
        BY <2>2, <3>1, <3>5
      <4>2. ASSUME NEW q \in 1 .. Passes(f) PROVE PassInv(f, q)'
        <5>1. q \in Nat /\ PassInv(f, q)
          BY <2>1
        <5>2. CASE q = p
          BY <3>3, <3>5, <5>1, <5>2, PassTakes
        <5>3. CASE q + 1 = p
          <6>1. q # p /\ q + 1 # p + 1
            BY <4>1, <5>1, <5>3
          <6>2. Step(f, "filter", q + 1) /\ ~Step(f, "filter", q + 1)'
            BY <3>2, <3>5, <5>3, <6>1 DEF Step
          <6>3. /\ hist'[f][q] = hist[f][q] /\ heard'[f][q] = heard[f][q]
                /\ heard'[f][q + 1] = Append(heard[f][q + 1], bufs[f])
            BY <3>1, <3>5, <5>3, <6>1
          <6> QED BY <2>1, <5>1, <6>2, <6>3, PassGives
        <5>4. CASE q # p /\ q + 1 # p
          <6>1. q + 1 # p + 1
            BY <4>1, <5>1, <5>4
          <6>2. ~Step(f, "filter", q + 1) /\ ~Step(f, "filter", q + 1)'
            BY <3>2, <5>4, <6>1 DEF Step
          <6>3. /\ hist'[f][q] = hist[f][q] /\ heard'[f][q] = heard[f][q]
                /\ heard'[f][q + 1] = heard[f][q + 1]
            BY <3>1, <3>5, <5>4
          <6> QED BY <5>1, <6>2, <6>3, PassElsewhere
        <5> QED BY <5>2, <5>3, <5>4
      <4>3. DroopInv(f)'
        <5>1. Passes(f) + 1 # p /\ Passes(f) + 2 # p
          BY <2>2, <4>1
        <5>2. /\ heard'[f][Passes(f) + 1] = heard[f][Passes(f) + 1]
              /\ heard'[f][Passes(f) + 2] = heard[f][Passes(f) + 2]
          BY <3>1, <3>5, <5>1
        <5> QED BY <2>1, <3>2, <5>2, DroopElsewhere
      <4> QED BY <2>2, <4>2, <4>3
    <3> QED BY <3>4, <3>5
  <2>9. ASSUME NEW g \in Filters, Droop(g) PROVE Goal
    <3> DEFINE P == Passes(g)
    <3>1. /\ Step(g, "filter", P + 1)
          /\ heard'[g][P + 1] = Append(heard[g][P + 1], bufs[g])
          /\ \A q : q \notin {P + 1, P + 2} => heard'[g][q] = heard[g][q]
          /\ \A h \in Filters : h # g => droop'[h] = droop[h] /\ heard'[h] = heard[h]
      BY <2>9, DroopKeeps, Zenon
    <3>2. /\ at = [filter |-> g, step |-> "filter", pass |-> P + 1]
          /\ \A h, q : ~Step(h, "filter", q)'
          /\ UNCHANGED <<plan, hist>>
      <4>1. /\ GoTo("left", "rotate", 1) \/ GoTo(g, "demodulate", 1)
            /\ plan' = plan /\ hist' = hist
        BY <2>9, Zenon DEF Droop
      <4>2. at = [filter |-> g, step |-> "filter", pass |-> P + 1]
        BY <3>1, Zenon DEF Step
      <4>3. ASSUME NEW s \in {"rotate", "demodulate"}, NEW c, GoTo(c, s, 1),
                   NEW h, NEW q
            PROVE  ~Step(h, "filter", q)'
        BY <4>3 DEF Step, GoTo
      <4> HIDE DEF P
      <4> QED BY <4>1, <4>2, <4>3, Zenon
    <3> HIDE DEF P
    <3>3. CASE f # g
      <4>1. droop'[f] = droop[f] /\ heard'[f] = heard[f]
        BY <3>1, <3>3
      <4>2. ASSUME NEW q \in 1 .. Passes(f) PROVE PassInv(f, q)'
        <5>1. ~Step(f, "filter", q + 1)
          BY <3>2, <3>3 DEF Step
        <5> QED BY <2>1, <3>2, <4>1, <5>1, PassElsewhere
      <4>3. DroopInv(f)'
        BY <2>1, <3>2, <4>1, DroopElsewhere
      <4> QED BY <2>2, <4>2, <4>3
    <3>4. CASE f = g
      <4>1. P = Passes(f)
        BY <3>4 DEF P
      <4>2. ASSUME NEW q \in 1 .. Passes(f) PROVE PassInv(f, q)'
        <5>1. q \in Nat /\ P \in Nat /\ q <= P /\ PassInv(f, q)
          BY <2>1, <2>2, <4>1
        <5>2. q \notin {P + 1, P + 2}
          BY <5>1
        <5>3. heard'[f][q] = heard[f][q] /\ hist'[f][q] = hist[f][q]
          BY <3>1, <3>2, <3>4, <5>2
        <5>4. CASE q = P
          <6>1. Step(f, "filter", q + 1) /\ ~Step(f, "filter", q + 1)'
            BY <3>1, <3>2, <3>4, <5>4
          <6>2. heard'[f][q + 1] = Append(heard[f][q + 1], bufs[f])
            BY <3>1, <3>4, <5>4
          <6> QED BY <2>1, <5>1, <5>3, <6>1, <6>2, PassGives
        <5>5. CASE q # P
          <6>1. q + 1 \notin {P + 1, P + 2}
            BY <5>1, <5>5
          <6>2. heard'[f][q + 1] = heard[f][q + 1]
            BY <3>1, <3>4, <6>1
          <6>3. ~Step(f, "filter", q + 1) /\ ~Step(f, "filter", q + 1)'
            BY <3>2, <6>1 DEF Step
          <6> QED BY <5>1, <5>3, <6>2, <6>3, PassElsewhere
        <5> QED BY <5>4, <5>5
      <4>3. DroopInv(f)'
        BY <2>1, <2>9, <3>4, DroopTakes
      <4> QED BY <2>2, <4>2, <4>3
    <3> QED BY <3>3, <3>4
  <2>10. (ComputePlan => Goal) /\ (Done \/ UNCHANGED signalVars => Goal)
    BY <1>1, <2>4
  <2> HIDE DEF Goal
  <2>11. Goal
    BY <2>5, <2>6, <2>7, <2>8, <2>9, <2>10 DEF SignalNext
  <2> QED BY <2>11 DEF Goal
<1>3. SignalNext => ComputePlan \/ UNCHANGED plan
  BY DEF SignalNext, Done, Receive, Pass, Droop, Rotate, Demodulate, signalVars
<1> QED BY <1>1, <1>2, <1>3 DEF signalVars

-----------------------------------------------------------------------------
(* The rotations.                                                           *)

\* Four quarters of a turn are none.
LEMMA TurnAgain ==
  ASSUME NEW z, NEW k, NEW m, k % 4 = m % 4 PROVE Turn(z, k) = Turn(z, m)
BY Zenon DEF Turn

\* What four divides.
LEMMA FourTimes ==
  ASSUME NEW n \in Nat, n % 4 = 0 PROVE \E q \in Nat : n = 4 * q
<1> DEFINE q == n \div 4
<1>1. q \in Nat /\ n = 4 * q
  OBVIOUS
<1> HIDE DEF q
<1> QED BY <1>1

\* How far a channel turns the k-th sample of a signal.
Way(c, k) == IF c = "left" THEN k - 1 ELSE 1 - k

\* A block is turned as a signal that begins with it.
LEMMA RotatedSample ==
  ASSUME NEW c, NEW d \in Seq(Sample), NEW k \in 1 .. Len(d),
         NEW past \in Nat, past % 4 = 0
  PROVE  Rotated(c, d)[k] = Turn(d[k], Way(c, past + k))
<1> DEFINE r == (k - 1) % 4
<1>1. k \in Nat /\ k - 1 \in Nat /\ r \in Nat
  OBVIOUS
<1>2. PICK q \in Nat : past = 4 * q
  BY FourTimes
<1>3. PICK s \in Nat : k - 1 = 4 * s + r /\ r < 4
  <2>1. k - 1 = 4 * ((k - 1) \div 4) + r /\ (k - 1) \div 4 \in Nat /\ r < 4
    BY <1>1
  <2> QED BY <2>1
<1>4. Rotated(c, d)[k] = Turn(d[k], IF c = "left" THEN r ELSE -r)
  BY DEF Rotated
<1> HIDE DEF r
<1>5. past + k - 1 = 4 * (q + s) + r
  BY <1>1, <1>2, <1>3
<1>6. (past + k - 1) % 4 = r % 4
  BY <1>1, <1>3, <1>5
<1>7. (1 - (past + k)) % 4 = (-r) % 4
  <2>1. 1 - (past + k) = 4 * (-(q + s)) + (-r)
    BY <1>1, <1>2, <1>5
  <2>2. r \in {0, 1, 2, 3}
    BY <1>1, <1>3
  <2> DEFINE w == -(q + s)
  <2>3. w \in Int
    OBVIOUS
  <2> HIDE DEF w
  <2>4. (4 * w + (-r)) % 4 = (-r) % 4
    BY <2>2, <2>3
  <2> QED BY <2>1, <2>4 DEF w
<1>8. CASE c = "left"
  BY <1>4, <1>6, <1>8, TurnAgain DEF Way
<1>9. CASE c # "left"
  BY <1>4, <1>7, <1>9, TurnAgain DEF Way
<1> QED BY <1>8, <1>9

\* A signal is a turned one, and what comes next is to be turned as from its
\* beginning.
TurnedTo(c, x, y) ==
  /\ Len(y) = Len(x) /\ Len(x) % 4 = 0
  /\ \A k \in 1 .. Len(y) : y[k] = Turn(x[k], Way(c, k))

\* One more block is turned.
LEMMA TurnedMore ==
  ASSUME NEW c, NEW x \in Seq(Sample), NEW y \in Seq(Sample), TurnedTo(c, x, y),
         NEW d \in Seq(Sample), Len(d) % 4 = 0
  PROVE  TurnedTo(c, x \o d, y \o Rotated(c, d))
<1> DEFINE L == Len(x)
           D == Len(d)
           r == Rotated(c, d)
           a == x \o d
           b == y \o r
<1>1. /\ L \in Nat /\ L % 4 = 0 /\ Len(y) = L
      /\ \A k \in 1 .. L : y[k] = Turn(x[k], Way(c, k))
  BY DEF TurnedTo
<1>2. D \in Nat /\ r \in Seq(Sample) /\ Len(r) = D
  BY RotatedIs
<1>3. \A k \in 1 .. D : r[k] = Turn(d[k], Way(c, L + k))
  BY <1>1, RotatedSample
<1> HIDE DEF r
<1>4. /\ Len(a) = L + D
      /\ \A k \in 1 .. L + D : a[k] = IF k <= L THEN x[k] ELSE d[k - L]
  BY ConcatProperties
<1>5. /\ Len(b) = L + D
      /\ \A k \in 1 .. L + D : b[k] = IF k <= L THEN y[k] ELSE r[k - L]
  <2>1. /\ Len(b) = Len(y) + Len(r)
        /\ \A k \in 1 .. Len(y) + Len(r) :
             b[k] = IF k <= Len(y) THEN y[k] ELSE r[k - Len(y)]
    BY <1>2, ConcatProperties
  <2> HIDE DEF L, D, b
  <2> QED BY <1>1, <1>2, <2>1
<1> HIDE DEF L, D, a, b
<1>6. (L + D) % 4 = 0
  <2>1. D % 4 = 0
    BY DEF D
  <2>2. PICK p \in Nat : L = 4 * p
    BY <1>1, FourTimes
  <2>3. PICK q \in Nat : D = 4 * q
    BY <1>2, <2>1, FourTimes
  <2>4. L + D = 4 * (p + q) /\ p + q \in Nat
    BY <2>2, <2>3
  <2> QED BY <2>4
<1>7. ASSUME NEW k \in 1 .. L + D PROVE b[k] = Turn(a[k], Way(c, k))
  <2>1. CASE k <= L
    <3>1. k \in 1 .. L
      BY <2>1
    <3> QED BY <1>1, <1>4, <1>5, <2>1, <3>1
  <2>2. CASE ~(k <= L)
    <3>1. k - L \in 1 .. D /\ L + (k - L) = k
      BY <1>1, <1>2, <2>2
    <3>2. a[k] = d[k - L] /\ b[k] = r[k - L]
      BY <1>4, <1>5, <2>2
    <3>3. r[k - L] = Turn(d[k - L], Way(c, L + (k - L)))
      BY <1>3, <3>1
    <3> QED BY <3>1, <3>2, <3>3
  <2> QED BY <2>1, <2>2
<1>8. Len(b) = Len(a) /\ Len(a) % 4 = 0 /\ \A k \in 1 .. Len(b) : b[k] = Turn(a[k], Way(c, k))
  BY <1>4, <1>5, <1>6, <1>7
<1> QED BY <1>8 DEF TurnedTo, a, b, r

\* Blocks that are turned one by one are turned as one.
LEMMA RotatedJoined ==
  ASSUME NEW c, NEW g \in Seq(Block), NEW h \in Seq(Block), Len(h) = Len(g),
         \A i \in 1 .. Len(g) : Len(g[i]) % 4 = 0 /\ h[i] = Rotated(c, g[i])
  PROVE  \A k \in 1 .. Len(Joined(h, 0)) :
           Joined(h, 0)[k] = Turn(Joined(g, 0)[k], Way(c, k))
<1> DEFINE N == Len(g)
           s == Joins(g, 0)
           t == Joins(h, 0)
           S == {n \in 0 .. N : TurnedTo(c, s[n], t[n])}
           none == <<>>
<1>1. N \in Nat /\ 0 \in Nat /\ none \in Seq(Sample) /\ Len(none) = 0
  OBVIOUS
<1>2. /\ s \in [0 .. N -> Block] /\ s[0] = none
      /\ \A n \in 1 .. N : s[n] = s[n - 1] \o Cut(g[n], 0)
  BY <1>1, JoinsGo
<1>3. /\ t \in [0 .. N -> Block] /\ t[0] = none
      /\ \A n \in 1 .. N : t[n] = t[n - 1] \o Cut(h[n], 0)
  BY <1>1, JoinsGo, ZenonT(60)
<1>4. \A n \in 1 .. N : g[n] \in Block /\ h[n] \in Block
  OBVIOUS
<1>5. \A n \in 1 .. N : Len(g[n]) % 4 = 0 /\ h[n] = Rotated(c, g[n])
  OBVIOUS
<1>6. Joined(g, 0) = s[N] /\ Joined(h, 0) = t[N]
  BY DEF Joined
<1> HIDE DEF N, s, t, none
<1>7. 0 \in S
  <2>1. TurnedTo(c, none, none)
    BY <1>1 DEF TurnedTo
  <2> QED BY <1>1, <1>2, <1>3, <2>1
<1>8. ASSUME NEW n \in 0 .. N - 1, n \in S PROVE n + 1 \in S
  <2> DEFINE x == s[n]
             y == t[n]
             d == g[n + 1]
  <2>1. n + 1 \in 1 .. N /\ (n + 1) - 1 = n /\ n \in 0 .. N /\ n + 1 \in 0 .. N
    BY <1>1
  <2>2. x \in Seq(Sample) /\ y \in Seq(Sample) /\ d \in Seq(Sample)
    BY <1>2, <1>3, <1>4, <2>1 DEF Block
  <2>3. s[n + 1] = x \o d
    BY <1>2, <1>4, <2>1, CutNothing
  <2>4. t[n + 1] = y \o Rotated(c, d)
    BY <1>3, <1>4, <1>5, <2>1, CutNothing
  <2>5. TurnedTo(c, x, y) /\ Len(d) % 4 = 0
    BY <1>5, <1>8, <2>1
  <2> HIDE DEF x, y, d
  <2>6. TurnedTo(c, x \o d, y \o Rotated(c, d))
    BY <2>2, <2>5, TurnedMore
  <2> QED BY <2>1, <2>3, <2>4, <2>6
<1> HIDE DEF S
<1>9. 0 .. N \subseteq S
  BY <1>1, <1>7, <1>8, UpTo
<1>10. TurnedTo(c, s[N], t[N])
  <2>1. N \in S
    BY <1>1, <1>9
  <2> QED BY <2>1 DEF S
<1> QED BY <1>6, <1>10 DEF TurnedTo

\* What the first filter gives to both channels.
Whole == heard["both"][Passes("both") + 2]

\* Its blocks are as long as those that come, halved in each pass.
WholeInv ==
  /\ \A p \in Nat \ {0} : Step("both", "filter", p) =>
       Len(bufs["both"]) = Samples \div 2^(p - 1)
  /\ \A n \in 1 .. Len(Whole) : Len(Whole[n]) = Samples \div 2^Passes("both")

\* The newest block waits for the channel.
Waits(c) == Step(c, "rotate", 1) \/ (c = "right" /\ at.filter = "left")

\* The channel has turned the others, and this one before it filters it.
RotationInv(c) ==
  LET n == Len(heard[c][1])
  IN /\ Waits(c) => Len(Whole) = n + 1 /\ bufs[c] = Whole[n + 1]
     /\ Step(c, "filter", 1) =>
          Len(Whole) = n + 1 /\ bufs[c] = Rotated(c, Whole[n + 1])
     /\ ~Waits(c) /\ ~Step(c, "filter", 1) => Len(Whole) = n
     /\ \A i \in 1 .. n : heard[c][1][i] = Rotated(c, Whole[i])

RotationsInv ==
  plan.outcome = "ok" => WholeInv /\ \A c \in Channels : RotationInv(c)

\* What the first filter gave, and what a channel took.
LEMMA WholeIs ==
  ASSUME DataInv, plan.outcome = "ok", NEW c \in Channels
  PROVE  /\ Whole \in Seq(Block) /\ Len(Whole) \in Nat
         /\ \A n \in 1 .. Len(Whole) : Len(Whole[n]) > 0
         /\ heard[c][1] \in Seq(Block) /\ Len(heard[c][1]) \in Nat
         /\ \A n \in 1 .. Len(heard[c][1]) : Len(heard[c][1][n]) > 0
         /\ c \in Filters /\ c # "both" /\ "both" \in Filters
<1>1. c \in Filters /\ c # "both" /\ "both" \in Filters
  BY DEF Filters, Channels
<1>2. /\ Passes("both") + 2 \in 1 .. Passes("both") + 2
      /\ 1 \in 1 .. Passes(c) + 2
  BY <1>1, HeardIs
<1> QED BY <1>1, <1>2, HeardIs DEF Whole

\* Halves of blocks are rounded down as a whole.
LEMMA HalfOfBlock ==
  ASSUME NEW a \in Nat, NEW p \in 1 .. 10
  PROVE  (a \div 2^(p - 1)) \div 2 = a \div 2^p
<1> DEFINE q == p - 1
           d == 2^q
           m == a \div d
<1>1. q \in 0 .. 23 /\ q + 1 = p
  OBVIOUS
<1>2. d \in Nat \ {0} /\ 2^(q + 1) = 2 * d
  <2> HIDE DEF q
  <2> QED BY <1>1, Doubles
<1> HIDE DEF q, d
<1>3. /\ m \in Nat /\ m * d <= a /\ a < (m + 1) * d
  BY <1>2
<1> HIDE DEF m
<1> DEFINE h == m \div 2
           r == a \div (2 * d)
<1>4. h \in Nat /\ 2 * h <= m /\ m < 2 * h + 2
  BY <1>3
<1>5. /\ r \in Nat /\ r * (2 * d) <= a /\ a < (r + 1) * (2 * d)
  <2> DEFINE e == 2 * d
  <2>1. e \in Nat \ {0}
    BY <1>2
  <2> HIDE DEF e
  <2>2. a \div e \in Nat /\ (a \div e) * e <= a /\ a < (a \div e + 1) * e
    BY <2>1
  <2> QED BY <2>2 DEF e
<1> HIDE DEF h, r
<1>6. (2 * h) * d <= m * d /\ (m + 1) * d <= (2 * h + 2) * d
  <2>1. /\ 2 * h \in Nat /\ 2 * h + 2 \in Nat /\ m + 1 \in Nat
        /\ m + 1 <= 2 * h + 2
    BY <1>3, <1>4
  <2>2. \A x, y \in Nat : x <= y => x * d <= y * d
    BY <1>2
  <2> QED BY <1>3, <1>4, <2>1, <2>2
<1>7. h * (2 * d) <= a /\ a < (h + 1) * (2 * d)
  <2>1. h * (2 * d) = (2 * h) * d /\ (h + 1) * (2 * d) = (2 * h + 2) * d
    BY <1>2, <1>4
  <2>2. /\ (2 * h) * d \in Nat /\ (2 * h + 2) * d \in Nat
        /\ m * d \in Nat /\ (m + 1) * d \in Nat
    BY <1>2, <1>3, <1>4
  <2> QED BY <1>3, <1>6, <2>1, <2>2
<1>8. h = r
  <2> DEFINE e == 2 * d
  <2>1. e \in Nat \ {0} /\ h * e <= a /\ a < (h + 1) * e /\ r * e <= a /\ a < (r + 1) * e
    BY <1>2, <1>5, <1>7
  <2> HIDE DEF e
  <2>2. ~(h < r)
    <3> SUFFICES ASSUME h < r PROVE FALSE
      OBVIOUS
    <3>1. (h + 1) * e <= r * e
      BY <1>4, <1>5, <2>1
    <3> QED BY <1>4, <1>5, <2>1, <3>1
  <2>3. ~(r < h)
    <3> SUFFICES ASSUME r < h PROVE FALSE
      OBVIOUS
    <3>1. (r + 1) * e <= h * e
      BY <1>4, <1>5, <2>1
    <3> QED BY <1>4, <1>5, <2>1, <3>1
  <2> QED BY <1>4, <1>5, <2>2, <2>3
<1>9. m = a \div 2^(p - 1) /\ 2^p = 2 * d
  BY <1>1, <1>2 DEF m, d, q
<1> QED BY <1>8, <1>9 DEF h, r

\* A step that is not about the first filter.
LEMMA WholeElsewhere ==
  ASSUME WholeInv, plan' = plan, heard'["both"] = heard["both"],
         \A p : ~Step("both", "filter", p)'
  PROVE  WholeInv' /\ Whole' = Whole
<1>1. Whole' = Whole /\ Passes("both")' = Passes("both")
  BY DEF Whole, Passes
<1>2. Samples' = Samples
  BY DEF Samples
<1> QED BY <1>1, <1>2, Zenon DEF WholeInv

\* A step that is not about the beginning of the channel.
LEMMA RotationElsewhere ==
  ASSUME NEW c, RotationInv(c), Whole' = Whole, heard'[c][1] = heard[c][1],
         Waits(c)' <=> Waits(c), Step(c, "filter", 1)' <=> Step(c, "filter", 1),
         Waits(c) \/ Step(c, "filter", 1) => bufs'[c] = bufs[c]
  PROVE  RotationInv(c)'
BY Zenon DEF RotationInv

\* The turned block goes into the filter of the channel.
LEMMA RotationTaken ==
  ASSUME DataInv, plan.outcome = "ok", NEW c \in Channels, RotationInv(c),
         Step(c, "filter", 1), Whole' = Whole,
         heard'[c][1] = Append(heard[c][1], bufs[c]),
         ~Waits(c)', ~Step(c, "filter", 1)'
  PROVE  RotationInv(c)'
<1> DEFINE h == heard[c][1]
           d == bufs[c]
           more == Append(h, d)
<1>1. h \in Seq(Block) /\ d \in Block /\ Len(h) \in Nat /\ Len(Whole) \in Nat
  BY WholeIs DEF DataInv, BlocksAreTyped
<1>2. /\ Len(Whole) = Len(h) + 1 /\ d = Rotated(c, Whole[Len(h) + 1])
      /\ \A i \in 1 .. Len(h) : h[i] = Rotated(c, Whole[i])
  BY DEF RotationInv
<1> HIDE DEF h, d
<1>3. /\ Len(more) = Len(h) + 1 /\ more[Len(h) + 1] = d
      /\ \A i \in 1 .. Len(h) : more[i] = h[i]
  BY <1>1
<1> HIDE DEF more
<1>4. ASSUME NEW i \in 1 .. Len(more) PROVE more[i] = Rotated(c, Whole[i])
  <2>1. CASE i = Len(h) + 1
    BY <1>2, <1>3, <2>1
  <2>2. CASE i # Len(h) + 1
    <3>1. i \in 1 .. Len(h)
      BY <1>1, <1>3, <2>2
    <3> QED BY <1>2, <1>3, <3>1
  <2> QED BY <2>1, <2>2
<1>5. heard'[c][1] = more /\ Len(Whole) = Len(more)
  BY <1>2, <1>3 DEF more, h, d
<1> QED BY <1>4, <1>5, Zenon DEF RotationInv

\* Nothing was heard yet.
LEMMA RotationsStart ==
  ASSUME DataInv, ComputePlan, plan'.outcome = "ok"
  PROVE  WholeInv' /\ \A c \in Channels : RotationInv(c)'
<1>1. PlanInv'
  BY PlanStays DEF SignalNext, DataInv
<1>2. /\ DataInv' /\ at' = Idle
      /\ \A f \in Filters : \A p \in 1 .. Passes(f)' + 2 : heard'[f][p] = <<>>
  BY <1>1, ComputePlanKeeps
<1>3. \A f \in Filters : Passes(f)' \in Nat
  <2>1. PlanIs(plan')
    BY <1>1 DEF PlanInv
  <2> QED BY <2>1 DEF PlanIs, Passes
<1>4. \A f, s, p : s # "idle" => ~Step(f, s, p)'
  BY <1>2 DEF Step, Idle
<1>5. Whole' = <<>>
  <2>1. "both" \in Filters
    BY DEF Filters
  <2>2. Passes("both")' + 2 \in 1 .. Passes("both")' + 2
    BY <1>3, <2>1
  <2> QED BY <1>2, <2>1, <2>2 DEF Whole
<1>6. WholeInv'
  <2>1. Len(Whole') = 0
    BY <1>5
  <2>2. \A n \in 1 .. Len(Whole') : Len(Whole'[n]) = (Samples \div 2^Passes("both"))'
    BY <2>1
  <2> QED BY <1>4, <2>2 DEF WholeInv
<1>7. ASSUME NEW c \in Channels PROVE RotationInv(c)'
  <2>1. c \in Filters
    BY DEF Filters
  <2>2. 1 \in 1 .. Passes(c)' + 2
    BY <1>3, <2>1
  <2>3. heard'[c][1] = <<>>
    BY <1>2, <2>1, <2>2
  <2>4. ~Waits(c)' /\ ~Step(c, "filter", 1)'
    BY <1>2, <1>4 DEF Waits, Idle
  <2>5. /\ Len(Whole') = Len(heard'[c][1])
        /\ \A i \in 1 .. Len(heard'[c][1]) : heard'[c][1][i] = Rotated(c, Whole'[i])
    BY <1>5, <2>3
  <2> QED BY <2>4, <2>5, Zenon DEF RotationInv
<1> QED BY <1>6, <1>7

\* The first filter halves a block.
LEMMA WholePass ==
  ASSUME DataInv, plan.outcome = "ok", WholeInv, NEW p, Pass("both", p)
  PROVE  WholeInv' /\ Whole' = Whole
<1> DEFINE P == Passes("both")
<1>1. "both" \in Filters
  BY DEF Filters
<1>2. /\ p \in 1 .. P /\ P \in 0 .. 10
      /\ bufs["both"] \in Seq(Sample) /\ Len(bufs["both"]) >= 2
      /\ hist["both"][p] \in Seq(Sample) /\ Len(hist["both"][p]) = 6
      /\ bufs'["both"] = FifthOrder(hist["both"][p], bufs["both"])
      /\ \A q : q # p => heard'["both"][q] = heard["both"][q]
  BY <1>1, PassKeeps
<1>3. /\ Step("both", "filter", p)
      /\ at' = [filter |-> "both", step |-> "filter", pass |-> p + 1]
      /\ UNCHANGED plan
  BY DEF Pass, GoTo
<1>4. Passes("both")' = P /\ Samples' = Samples
  BY <1>3 DEF Passes, Samples
<1>5. Samples \in Nat
  <2>1. at # Idle
    BY <1>3 DEF Step, Idle
  <2>2. Fits
    BY <2>1 DEF DataInv, PlaceIsRight
  <2> QED BY <2>2, FitsIs DEF DataInv
<1> HIDE DEF P
<1>6. Whole' = Whole
  <2>1. P + 2 # p
    BY <1>2
  <2> QED BY <1>2, <1>4, <2>1 DEF Whole, P
<1>7. Len(bufs'["both"]) = Samples \div 2^p
  <2>1. p \in Nat \ {0} /\ p \in 1 .. 10
    BY <1>2
  <2>2. Len(bufs["both"]) = Samples \div 2^(p - 1)
    BY <1>3, <2>1 DEF WholeInv
  <2>3. Len(bufs'["both"]) = Len(bufs["both"]) \div 2
    <3> DEFINE d == bufs["both"]
               kept == hist["both"][p]
    <3>1. /\ d \in Seq(Sample) /\ Len(d) >= 1
          /\ kept \in Seq(Sample) /\ Len(kept) = 6
          /\ bufs'["both"] = FifthOrder(kept, d)
      BY <1>2
    <3> HIDE DEF d, kept
    <3>2. Len(FifthOrder(kept, d)) = Len(d) \div 2
      BY <3>1, FifthOrderIs
    <3> QED BY <3>1, <3>2 DEF d
  <2> QED BY <1>5, <2>1, <2>2, <2>3, HalfOfBlock
<1>8. ASSUME NEW q \in Nat \ {0}, Step("both", "filter", q)'
      PROVE  Len(bufs'["both"]) = Samples \div 2^(q - 1)
  <2>1. q = p + 1
    BY <1>3, <1>8 DEF Step
  <2>2. q - 1 = p
    BY <1>2, <2>1
  <2> QED BY <1>7, <2>2
<1>9. \A n \in 1 .. Len(Whole) : Len(Whole[n]) = Samples \div 2^P
  BY DEF WholeInv, P
<1> QED BY <1>4, <1>6, <1>8, <1>9 DEF WholeInv

\* The first filter gives a block to both channels.
LEMMA WholeGiven ==
  ASSUME DataInv, plan.outcome = "ok", WholeInv, Droop("both")
  PROVE  /\ WholeInv'
         /\ \A c \in Channels : RotationInv(c) => RotationInv(c)'
<1> DEFINE P == Passes("both")
           data == GenericFir(droop["both"], bufs["both"], P)
<1>1. "both" \in Filters
  BY DEF Filters
<1>2. /\ Step("both", "filter", P + 1) /\ P \in 0 .. 10
      /\ data \in Block /\ Len(data) = Len(bufs["both"])
      /\ heard'["both"][P + 2] = Append(heard["both"][P + 2], data)
      /\ \A g \in Filters : g # "both" => heard'[g] = heard[g]
      /\ \A g \in Filters : bufs'[g] = data
  BY <1>1, DroopKeeps, ZenonT(60)
<1>3. /\ at = [filter |-> "both", step |-> "filter", pass |-> P + 1]
      /\ at' = [filter |-> "left", step |-> "rotate", pass |-> 1]
      /\ UNCHANGED plan
  BY <1>2 DEF Droop, GoTo, Step
<1>4. Passes("both")' = P /\ Samples' = Samples
  BY <1>3 DEF Passes, Samples
<1> HIDE DEF data
<1>5. Len(data) = Samples \div 2^P
  <2>1. P + 1 \in Nat \ {0} /\ (P + 1) - 1 = P
    BY <1>2
  <2>2. Len(bufs["both"]) = Samples \div 2^((P + 1) - 1)
    BY <1>2, <2>1 DEF WholeInv
  <2> QED BY <1>2, <2>1, <2>2
<1> DEFINE w == Whole
<1>6. Whole' = Append(w, data)
  BY <1>2, <1>4 DEF Whole
<1>7. w \in Seq(Block) /\ Len(w) \in Nat
  <2>1. "left" \in Channels
    BY DEF Channels
  <2> QED BY <2>1, WholeIs
<1>8. \A n \in 1 .. Len(w) : Len(w[n]) = Samples \div 2^P
  BY DEF WholeInv
<1> HIDE DEF w, P
<1> DEFINE more == Append(w, data)
<1>9. /\ Len(more) = Len(w) + 1 /\ more[Len(w) + 1] = data
      /\ \A n \in 1 .. Len(w) : more[n] = w[n]
  BY <1>2, <1>7
<1> HIDE DEF more
<1>10. ASSUME NEW n \in 1 .. Len(more) PROVE Len(more[n]) = Samples \div 2^P
  <2>1. CASE n = Len(w) + 1
    BY <1>5, <1>9, <2>1
  <2>2. CASE n # Len(w) + 1
    <3>1. n \in 1 .. Len(w)
      BY <1>7, <1>9, <2>2
    <3> QED BY <1>8, <1>9, <3>1
  <2> QED BY <2>1, <2>2
<1>11. WholeInv'
  <2>1. \A p : ~Step("both", "filter", p)'
    BY <1>3 DEF Step
  <2>2. Whole' = more
    BY <1>6 DEF more
  <2> QED BY <1>4, <1>10, <2>1, <2>2, Zenon DEF WholeInv
<1>12. ASSUME NEW c \in Channels, RotationInv(c) PROVE RotationInv(c)'
  <2> DEFINE n == Len(heard[c][1])
  <2>1. c \in Filters /\ c # "both" /\ c \in {"left", "right"}
    BY DEF Filters, Channels
  <2>2. ~Waits(c) /\ ~Step(c, "filter", 1)
    BY <1>3, <2>1 DEF Waits, Step
  <2>3. Len(w) = n /\ \A i \in 1 .. n : heard[c][1][i] = Rotated(c, w[i])
    BY <1>12, <2>2, Zenon DEF RotationInv, w
  <2>4. Waits(c)' /\ ~Step(c, "filter", 1)'
    BY <1>3, <2>1 DEF Waits, Step
  <2>5. heard'[c][1] = heard[c][1] /\ bufs'[c] = data
    BY <1>2, <2>1
  <2>6. /\ Len(more) = n + 1 /\ bufs'[c] = more[n + 1]
        /\ \A i \in 1 .. n : heard[c][1][i] = Rotated(c, more[i])
    BY <1>9, <2>3, <2>5
  <2>7. Whole' = more
    BY <1>6 DEF more
  <2> HIDE DEF n
  <2> QED BY <2>4, <2>5, <2>6, <2>7, Zenon DEF RotationInv, n
<1> QED BY <1>11, <1>12

\* A block is turned.
LEMMA RotationMade ==
  ASSUME DataInv, plan.outcome = "ok", NEW c \in Channels, RotationInv(c), Rotate(c),
         Whole' = Whole
  PROVE  RotationInv(c)'
<1>1. /\ at = [filter |-> c, step |-> "rotate", pass |-> 1]
      /\ at' = [filter |-> c, step |-> "filter", pass |-> 1]
      /\ bufs' = [bufs EXCEPT ![c] = Rotated(c, bufs[c])]
      /\ UNCHANGED heard
  BY DEF Rotate, GoTo, Step
<1>2. c \in Filters
  BY DEF Filters
<1>3. bufs'[c] = Rotated(c, bufs[c])
  BY <1>1, <1>2 DEF DataInv, BlocksAreTyped
<1>4. Waits(c) /\ ~Waits(c)' /\ Step(c, "filter", 1)'
  BY <1>1 DEF Waits, Step, Channels
<1> QED BY <1>1, <1>3, <1>4, Zenon DEF RotationInv

\* The rotations keep up with the first filter.
LEMMA RotationsStay ==
  ASSUME DataInv, RotationsInv, [SignalNext]_signalVars
  PROVE  RotationsInv'
<1> SUFFICES ASSUME plan'.outcome = "ok"
             PROVE  WholeInv' /\ \A c \in Channels : RotationInv(c)'
  BY DEF RotationsInv
<1> DEFINE Goal == WholeInv' /\ \A c \in Channels : RotationInv(c)'
<1>1. CASE ComputePlan
  BY <1>1, RotationsStart
<1>2. CASE UNCHANGED plan
  <2>1. plan.outcome = "ok" /\ WholeInv /\ \A c \in Channels : RotationInv(c)
    BY <1>2 DEF RotationsInv
  <2>2. \A c \in Channels : c \in Filters /\ c # "both" /\ c \in {"left", "right"}
    BY DEF Filters, Channels
  <2>3. "both" \in Filters
    BY DEF Filters
  <2>4. CASE Done \/ UNCHANGED signalVars
    <3>1. UNCHANGED <<plan, at, bufs, heard>>
      BY <2>4 DEF Done, signalVars
    <3>2. /\ Whole' = Whole /\ Samples' = Samples /\ Passes("both")' = Passes("both")
          /\ \A f, s, p : Step(f, s, p)' <=> Step(f, s, p)
          /\ \A c : Waits(c)' <=> Waits(c)
      BY <3>1 DEF Whole, Samples, Passes, Step, Waits
    <3>3. WholeInv'
      BY <2>1, <3>1, <3>2, Zenon DEF WholeInv
    <3>4. ASSUME NEW c \in Channels PROVE RotationInv(c)'
      BY <2>1, <3>1, <3>2, RotationElsewhere
    <3> QED BY <3>3, <3>4
  <2>5. ASSUME NEW signal \in Signals, Receive(signal) PROVE Goal
    <3>1. /\ Fits /\ at = Idle
          /\ bufs' = [bufs EXCEPT !["both"] =
                       [n \in 1 .. Samples |-> Byte(signal, n - 1)]]
          /\ at' = [filter |-> "both", step |-> "filter", pass |-> 1]
          /\ UNCHANGED <<plan, heard>>
      BY <2>5 DEF Receive, GoTo
    <3>2. Whole' = Whole /\ Samples' = Samples /\ Passes("both")' = Passes("both")
      BY <3>1 DEF Whole, Samples, Passes
    <3>3. Len(bufs'["both"]) = Samples \div 2^(1 - 1)
      <4>1. Samples \in Nat
        BY <3>1, FitsIs DEF DataInv
      <4> DEFINE b == [n \in 1 .. Samples |-> Byte(signal, n - 1)]
      <4>2. bufs'["both"] = b
        BY <2>3, <3>1 DEF DataInv, BlocksAreTyped
      <4>3. Len(b) = Samples
        BY <4>1
      <4>4. 2^(1 - 1) = 1 /\ Samples \div 1 = Samples
        BY <4>1
      <4> QED BY <4>2, <4>3, <4>4
    <3>4. \A p : Step("both", "filter", p)' => p = 1
      BY <3>1 DEF Step
    <3>5. WholeInv'
      <4>1. \A p \in Nat \ {0} : Step("both", "filter", p)' =>
              Len(bufs'["both"]) = Samples' \div 2^(p - 1)
        BY <3>2, <3>3, <3>4
      <4>2. \A n \in 1 .. Len(Whole') :
              Len(Whole'[n]) = Samples' \div 2^(Passes("both")')
        BY <2>1, <3>2 DEF WholeInv
      <4> QED BY <4>1, <4>2 DEF WholeInv
    <3>6. ASSUME NEW c \in Channels PROVE RotationInv(c)'
      <4>1. /\ ~Waits(c) /\ ~Waits(c)'
            /\ ~Step(c, "filter", 1) /\ ~Step(c, "filter", 1)'
        BY <2>2, <3>1 DEF Waits, Step, Idle
      <4> QED BY <2>1, <3>1, <3>2, <4>1, RotationElsewhere
    <3> QED BY <3>5, <3>6
  <2>6. ASSUME NEW g \in Filters, Pass(g, at.pass) PROVE Goal
    <3> DEFINE p == at.pass
    <3>1. /\ at = [filter |-> g, step |-> "filter", pass |-> p]
          /\ at' = [filter |-> g, step |-> "filter", pass |-> p + 1]
          /\ UNCHANGED plan
      BY <2>6 DEF Pass, Step, GoTo
    <3>2. /\ p \in 1 .. Passes(g)
          /\ heard'[g][p] = Append(heard[g][p], bufs[g])
          /\ \A h \in Filters : h # g => heard'[h] = heard[h] /\ bufs'[h] = bufs[h]
          /\ \A q : q # p => heard'[g][q] = heard[g][q]
      BY <2>6, PassKeeps, SMTT(60)
    <3>3. Pass(g, p)
      BY <2>6
    <3>4. p \in Nat
      BY <3>2
    <3> HIDE DEF p
    <3>5. CASE g = "both"
      <4>1. WholeInv' /\ Whole' = Whole
        BY <2>1, <3>3, <3>5, WholePass
      <4>2. ASSUME NEW c \in Channels PROVE RotationInv(c)'
        <5>1. /\ ~Waits(c) /\ ~Waits(c)'
              /\ ~Step(c, "filter", 1) /\ ~Step(c, "filter", 1)'
          BY <2>2, <3>1, <3>5 DEF Waits, Step
        <5>2. heard'[c] = heard[c]
          BY <2>2, <3>2, <3>5
        <5> QED BY <2>1, <4>1, <5>1, <5>2, RotationElsewhere
      <4> QED BY <4>1, <4>2
    <3>6. CASE g # "both"
      <4>1. WholeInv' /\ Whole' = Whole
        <5>1. \A q : ~Step("both", "filter", q)'
          BY <3>1, <3>6 DEF Step
        <5> QED BY <2>1, <2>3, <3>1, <3>2, <3>6, <5>1, WholeElsewhere
      <4>2. ASSUME NEW c \in Channels PROVE RotationInv(c)'
        <5>1. CASE c # g
          <6>1. heard'[c] = heard[c] /\ bufs'[c] = bufs[c]
            BY <2>2, <3>2, <5>1
          <6>2. /\ Waits(c)' <=> Waits(c)
                /\ ~Step(c, "filter", 1) /\ ~Step(c, "filter", 1)'
            BY <3>1, <5>1 DEF Waits, Step
          <6> QED BY <2>1, <4>1, <6>1, <6>2, RotationElsewhere
        <5>2. CASE c = g
          <6>1. ~Waits(c) /\ ~Waits(c)' /\ ~Step(c, "filter", 1)'
            <7>1. p + 1 # 1
              BY <3>2
            <7> QED BY <2>2, <3>1, <5>2, <7>1 DEF Waits, Step
          <6>2. CASE p = 1
            <7>1. Step(c, "filter", 1)
              BY <3>1, <5>2, <6>2 DEF Step
            <7>2. heard'[c][1] = Append(heard[c][1], bufs[c])
              BY <3>2, <5>2, <6>2
            <7> QED BY <2>1, <4>1, <6>1, <7>1, <7>2, RotationTaken
          <6>3. CASE p # 1
            <7>1. ~Step(c, "filter", 1)
              BY <3>1, <6>3 DEF Step
            <7>2. heard'[c][1] = heard[c][1]
              BY <3>2, <5>2, <6>3
            <7> QED BY <2>1, <4>1, <6>1, <7>1, <7>2, RotationElsewhere
          <6> QED BY <6>2, <6>3
        <5> QED BY <5>1, <5>2
      <4> QED BY <4>1, <4>2
    <3> QED BY <3>5, <3>6
  <2>7. ASSUME NEW g \in Filters, Droop(g) PROVE Goal
    <3>1. CASE g = "both"
      BY <2>1, <2>7, <3>1, WholeGiven
    <3>2. CASE g # "both"
      <4> DEFINE P == Passes(g)
      <4>1. /\ Step(g, "filter", P + 1) /\ P \in 0 .. 10
            /\ heard'[g][P + 1] = Append(heard[g][P + 1], bufs[g])
            /\ \A q : q \notin {P + 1, P + 2} => heard'[g][q] = heard[g][q]
            /\ \A h \in Filters : h # g => heard'[h] = heard[h]
            /\ \A h \in Filters :
                 bufs'[h] = IF g \in {h, "both"}
                            THEN GenericFir(droop[g], bufs[g], P) ELSE bufs[h]
        BY <2>7, DroopKeeps, Zenon
      <4>2. /\ at = [filter |-> g, step |-> "filter", pass |-> P + 1]
            /\ at' = [filter |-> g, step |-> "demodulate", pass |-> 1]
            /\ UNCHANGED plan
        BY <2>7, <3>2, <4>1 DEF Droop, Step, GoTo
      <4> HIDE DEF P
      <4>3. WholeInv' /\ Whole' = Whole
        <5>1. \A q : ~Step("both", "filter", q)'
          BY <4>2 DEF Step
        <5> QED BY <2>1, <2>3, <3>2, <4>1, <4>2, <5>1, WholeElsewhere
      <4>4. ASSUME NEW c \in Channels PROVE RotationInv(c)'
        <5>1. CASE c # g
          <6>1. heard'[c] = heard[c] /\ bufs'[c] = bufs[c]
            BY <2>2, <3>2, <4>1, <5>1
          <6>2. /\ Waits(c)' <=> Waits(c)
                /\ ~Step(c, "filter", 1) /\ ~Step(c, "filter", 1)'
            BY <4>2, <5>1 DEF Waits, Step
          <6> QED BY <2>1, <4>3, <6>1, <6>2, RotationElsewhere
        <5>2. CASE c = g
          <6>1. ~Waits(c) /\ ~Waits(c)' /\ ~Step(c, "filter", 1)'
            BY <2>2, <4>2, <5>2 DEF Waits, Step
          <6>2. CASE P = 0
            <7>1. P + 1 = 1
              BY <6>2
            <7>2. Step(c, "filter", 1)
              BY <4>1, <5>2, <7>1
            <7>3. heard'[c][1] = Append(heard[c][1], bufs[c])
              BY <4>1, <5>2, <7>1
            <7> QED BY <2>1, <4>3, <6>1, <7>2, <7>3, RotationTaken
          <6>3. CASE P # 0
            <7>1. P + 1 # 1 /\ P + 2 # 1
              BY <4>1, <6>3
            <7>2. ~Step(c, "filter", 1)
              BY <4>2, <7>1 DEF Step
            <7>3. heard'[c][1] = heard[c][1]
              BY <4>1, <5>2, <7>1
            <7> QED BY <2>1, <4>3, <6>1, <7>2, <7>3, RotationElsewhere
          <6> QED BY <6>2, <6>3
        <5> QED BY <5>1, <5>2
      <4> QED BY <4>3, <4>4
    <3> QED BY <3>1, <3>2
  <2>8. ASSUME NEW g \in Channels, Rotate(g) PROVE Goal
    <3>1. /\ at = [filter |-> g, step |-> "rotate", pass |-> 1]
          /\ at' = [filter |-> g, step |-> "filter", pass |-> 1]
          /\ bufs' = [bufs EXCEPT ![g] = Rotated(g, bufs[g])]
          /\ UNCHANGED <<plan, heard>>
      BY <2>8 DEF Rotate, GoTo, Step
    <3>2. WholeInv' /\ Whole' = Whole
      <4>1. \A q : ~Step("both", "filter", q)'
        BY <2>2, <3>1 DEF Step
      <4> QED BY <2>1, <3>1, <4>1, WholeElsewhere
    <3>3. ASSUME NEW c \in Channels PROVE RotationInv(c)'
      <4>1. CASE c = g
        BY <2>1, <2>8, <3>2, <4>1, RotationMade
      <4>2. CASE c # g
        <5>1. bufs'[c] = bufs[c]
          BY <2>2, <3>1, <4>2 DEF DataInv, BlocksAreTyped
        <5>2. /\ Waits(c)' <=> Waits(c)
              /\ ~Step(c, "filter", 1) /\ ~Step(c, "filter", 1)'
          BY <3>1, <4>2 DEF Waits, Step
        <5> QED BY <2>1, <3>1, <3>2, <5>1, <5>2, RotationElsewhere
      <4> QED BY <4>1, <4>2
    <3> QED BY <3>2, <3>3
  <2>9. ASSUME NEW g \in Channels, Demodulate(g) PROVE Goal
    <3>1. /\ at = [filter |-> g, step |-> "demodulate", pass |-> 1]
          /\ at' = IF g = "left" THEN [filter |-> "right", step |-> "rotate", pass |-> 1]
                   ELSE Idle
          /\ UNCHANGED <<plan, bufs, heard>>
      BY <2>9 DEF Demodulate, GoTo, Step
    <3>2. WholeInv' /\ Whole' = Whole
      <4>1. \A q : ~Step("both", "filter", q)'
        BY <3>1 DEF Step, Idle
      <4> QED BY <2>1, <3>1, <4>1, WholeElsewhere
    <3>3. ASSUME NEW c \in Channels PROVE RotationInv(c)'
      <4>1. /\ Waits(c)' <=> Waits(c)
            /\ ~Step(c, "filter", 1) /\ ~Step(c, "filter", 1)'
        <5>1. g \in {"left", "right"} /\ c \in {"left", "right"}
          BY <2>2
        <5> QED BY <3>1, <5>1 DEF Waits, Step, Idle
      <4> QED BY <2>1, <3>1, <3>2, <4>1, RotationElsewhere
    <3> QED BY <3>2, <3>3
  <2>10. (ComputePlan => Goal) /\ (Done \/ UNCHANGED signalVars => Goal)
    BY <1>1, <2>4
  <2> HIDE DEF Goal
  <2>11. Goal
    BY <2>5, <2>6, <2>7, <2>8, <2>9, <2>10 DEF SignalNext
  <2> QED BY <2>11 DEF Goal
<1>3. SignalNext => ComputePlan \/ UNCHANGED plan
  BY DEF SignalNext, Done, Receive, Pass, Droop, Rotate, Demodulate, signalVars
<1> QED BY <1>1, <1>2, <1>3 DEF signalVars

\* What the invariant says of a channel.
LEMMA RotationByInv ==
  ASSUME DataInv, plan.outcome = "ok", WholeInv, NEW c \in Channels, RotationInv(c)
  PROVE  RotationJoinsBlocks(c)
<1> DEFINE h == heard[c][1]
           n == Len(h)
           w == Whole
           g == SubSeq(w, 1, n)
<1>1. w \in Seq(Block) /\ Len(w) \in Nat /\ h \in Seq(Block) /\ n \in Nat
  BY WholeIs
<1>2. /\ Len(w) = n + 1 \/ Len(w) = n
      /\ \A i \in 1 .. n : h[i] = Rotated(c, w[i])
  BY Zenon DEF RotationInv
<1>3. \A i \in 1 .. Len(w) : Len(w[i]) = Samples \div 2^Passes("both")
  BY DEF WholeInv
<1> HIDE DEF w, h
<1>4. n <= Len(w)
  BY <1>1, <1>2
<1>5. g \in Seq(Block) /\ Len(g) = n /\ \A i \in 1 .. n : g[i] = w[i]
  BY <1>1, <1>4
<1> HIDE DEF n, g
<1>6. ASSUME (Samples \div 2^Passes("both")) % 4 = 0
      PROVE  \A k \in 1 .. Len(Joined(h, 0)) :
               Joined(h, 0)[k] = Turn(Joined(g, 0)[k], Way(c, k))
  <2>1. ASSUME NEW i \in 1 .. Len(g)
        PROVE  Len(g[i]) % 4 = 0 /\ h[i] = Rotated(c, g[i])
    <3>1. i \in 1 .. n /\ i \in 1 .. Len(w)
      BY <1>1, <1>4, <1>5
    <3> QED BY <1>2, <1>3, <1>5, <1>6, <3>1
  <2>2. Len(h) = Len(g)
    BY <1>5 DEF n
  <2> QED BY <1>1, <1>5, <2>1, <2>2, RotatedJoined
<1> QED BY <1>6, Zenon DEF RotationJoinsBlocks, Way, Passes, Whole, g, n, w, h

\* What the invariants say of the signal.
LEMMA JoinsByInv ==
  ASSUME DataInv, FiltersInv, RotationsInv PROVE CutsCostOneSampleAtMost
<1> SUFFICES ASSUME plan.outcome = "ok" PROVE CutsCostOneSampleAtMost
  BY Zenon DEF CutsCostOneSampleAtMost
<1>1. ASSUME NEW f \in Filters, NEW p \in 1 .. Passes(f), heard[f][p + 1] # <<>>
      PROVE  PassJoinsBlocks(f, p)
  <2>1. PassInv(f, p)
    BY DEF FiltersInv
  <2>2. CameThrough(heard[f][p + 1][Len(heard[f][p + 1])], heard[f][p],
                    Len(heard[f][p + 1]))
    BY <1>1, <2>1, Zenon DEF PassInv
  <2>3. \E drop \in {0, 1} : drop = 1
    OBVIOUS
  <2> QED BY <2>2, <2>3, Zenon DEF CameThrough, PassJoinsBlocks, FilterLine
<1>2. ASSUME NEW f \in Filters, heard[f][Passes(f) + 2] # <<>>
      PROVE  DroopJoinsBlocks(f)
  <2>1. DroopInv(f)
    BY DEF FiltersInv
  <2>2. CameOut(heard[f][Passes(f) + 2][Len(heard[f][Passes(f) + 2])],
                heard[f][Passes(f) + 1], Len(heard[f][Passes(f) + 2]), Passes(f))
    BY <1>2, <2>1, Zenon DEF DroopInv
  <2> QED BY <2>2, Zenon DEF CameOut, DroopJoinsBlocks, FilterLine, Passes
<1>3. ASSUME NEW c \in Channels PROVE RotationJoinsBlocks(c)
  BY RotationByInv DEF RotationsInv
<1> QED BY <1>1, <1>2, <1>3, Zenon DEF CutsCostOneSampleAtMost, Passes

\* For any signal, rates and length of a block, a cut between blocks costs each
\* pass of fifth_order at most one sample, the last one of the block, and
\* nothing else: but for it the histories and rotations of demod_thread_fn make
\* of the blocks what they would make of one long block.
THEOREM SignalCutsCostOneSampleAtMost == SignalSpec => []CutsCostOneSampleAtMost
<1>1. SignalInit => FiltersInv /\ RotationsInv
  BY DEF SignalInit, FiltersInv, RotationsInv
<1>2. DataInv /\ FiltersInv /\ [SignalNext]_signalVars => FiltersInv'
  BY FiltersStay
<1>3. DataInv /\ RotationsInv /\ [SignalNext]_signalVars => RotationsInv'
  BY RotationsStay
<1>4. DataInv /\ FiltersInv /\ RotationsInv => CutsCostOneSampleAtMost
  BY JoinsByInv
<1> QED BY <1>1, <1>2, <1>3, <1>4, SignalDataInvariant, PTL DEF SignalSpec

=============================================================================
