-------------------------- MODULE UsbfsBulkProofs --------------------------
(***************************************************************************)
(* UsbfsBulk frees the URBs of a transfer only when all of them are back,  *)
(* but for the named ways, and what it reports then is true, for any       *)
(* number of URBs of any length.                                           *)
(***************************************************************************)
EXTENDS UsbfsBulk, FiniteSetTheorems, TLAPS

\* The types of what the freeing depends on.
Types ==
  /\ continuation \in BOOLEAN
  /\ where \in [Urbs -> {"unsent", "kernel", "done", "reaped"}]
  /\ result \in [Urbs -> Results \cup {"none"}]
  /\ done \in Seq(Urbs)
  /\ device \in {"on", "halted", "gone"} /\ stopped \in BOOLEAN
  /\ action \in {"NORMAL", "COMPLETED_EARLY", "SUBMIT_FAILED", "ERROR",
                 "CANCELLED"}
  /\ lock \in {"free", "submit", "cancel", "reap"}
  /\ disc \in [next : 0..N, first : 1..(N + 1), last : 0..N,
               ret : {"ok", "notfound", "nodevice"}]
  /\ phase \in {"submitting", "submitted", "finished", "reported", "refused"}
  /\ cancel \in {"none", "busy", "ok", "notfound", "nodevice"}
  /\ retired \in Nat

\* The kernel's list names each completed URB once.
DoneIsListed ==
  /\ \A i \in Urbs :
       where[i] = "done" <=> \E p \in 1..Len(done) : done[p] = i
  /\ \A p, q \in 1..Len(done) : done[p] = done[q] => p = q

\* What has not ended has no result, and only the last URB can overflow.
ResultIsLate ==
  \A i \in Urbs :
    /\ where[i] \in {"unsent", "kernel"} => result[i] = "none"
    /\ result[i] = "overflow" => i = N

\* Who holds the lock, and for which loop.
LockIsHeld ==
  /\ phase = "submitting" <=> lock = "submit"
  /\ lock \in {"cancel", "reap"} => phase = "submitted"
  /\ lock = "free" => ~Discarding
  /\ lock = "submit" =>
       action = (IF retired = 0 THEN "NORMAL" ELSE "SUBMIT_FAILED")
  /\ lock = "submit" /\ Discarding => action = "SUBMIT_FAILED"
  /\ lock = "cancel" =>
       /\ cancel = "busy" /\ disc.first = 1 /\ disc.last = N
       /\ disc.next = N => disc.ret = "ok"

\* URBs are submitted in their order, all of them if nothing goes wrong, and
\* none of them comes back earlier than that.
SubmittedInOrder ==
  /\ \A i, j \in Urbs : i <= j /\ where[i] = "unsent" => where[j] = "unsent"
  /\ phase = "submitting" => \A i \in Urbs : where[i] # "reaped"
  /\ phase = "submitted" /\ action = "NORMAL" =>
       \A i \in Urbs : where[i] # "unsent"

\* The URBs that nobody waits for.
Back == {i \in Urbs : where[i] \in {"unsent", "reaped"}}

\* num_retired counts them.
RetiredCounts ==
  \/ phase = "refused"
  \/ phase = "submitting" /\ action = "NORMAL" /\ retired = 0
  \/ retired = Cardinality(Back)

\* The last URB, if it did not just vanish with the device, comes back after all
\* others.
LastComesLast ==
  where[N] \in {"done", "reaped"} /\ result[N] # "nodev" =>
    /\ Pending = {}
    /\ where[N] = "done" => Len(done) > 0 /\ done[Len(done)] = N

\* A cancellation has discarded it, and will say so.
DiscardedByCancel ==
  /\ lock = "cancel" /\ disc.next < N /\ disc.ret \in {"ok", "nodevice"}
  /\ where[N] = "done" /\ result[N] = "noent"

\* As long as reap_action is NORMAL, the last URB can be taken for the end.
LastEnds ==
  phase \in {"submitting", "submitted"} /\ action = "NORMAL"
  /\ ~DiscardedLooksLast => LastComesLast \/ DiscardedByCancel

\* What is torn down and counts as normal is gone, or was stopped.
TornDownIsStopped ==
  /\ (\E i \in Urbs : result[i] = "stall") => stopped = continuation
  /\ (\E i \in Urbs : result[i] = "nodev") => device = "gone"
  /\ lock = "reap" /\ action = "NORMAL" /\ ~DiscardedLooksLast =>
       device = "gone" \/ stopped

\* The inductive invariant.
IInv ==
  /\ Types /\ DoneIsListed /\ ResultIsLate /\ LockIsHeld
  /\ SubmittedInOrder /\ RetiredCounts
  /\ LastEnds /\ TornDownIsStopped
  /\ FreedUrbsAreBack

-----------------------------------------------------------------------------
(* Proofs.                                                                 *)

(* The steps, by what they are about. *)
KernelStep == Unplug \/ \E i \in Urbs : Dongle(i) \/ KernelGivesBack(i)

SubmitOne ==
  FirstUrbFails
  \/ \E i \in Urbs : SubmitUrb(i) \/ SubmitRefused(i) \/ LaterUrbFails(i)

CancelStep == CancelStarts \/ CancelTooLate \/ CancelEnds

ReapOne(i) ==
  \/ ReapAbnormal(i) \/ ReapGood(i) \/ ReapStalled(i) \/ ReapOverflow(i)
  \/ ReapError(i)

EndStep == ReapEnds \/ Report \/ Disconnect

\* Every step of the specification is one of these.
LEMMA Steps ==
  [Next]_vars =>
    \/ KernelStep \/ SubmitOne \/ SubmitEnds \/ DiscardOne \/ CancelStep
    \/ (\E i \in Urbs : ReapOne(i)) \/ EndStep \/ UNCHANGED vars
BY DEF Next, SubmitStep, HandlerStep, Over, KernelStep, SubmitOne, CancelStep,
   ReapOne, EndStep

\* N is the number of an URB.
LEMMA LastUrb == N \in Urbs /\ N \in Nat /\ 1 <= N
BY BulkAssumption DEF Urbs

\* What giving back an URB does to the list.
LEMMA GiveBackFacts ==
  ASSUME Types, DoneIsListed, NEW i \in Pending, NEW r \in Results,
         GiveBack(i, r)
  PROVE  /\ DoneIsListed'
         /\ done' \in Seq(Urbs)
         /\ where' \in [Urbs -> {"unsent", "kernel", "done", "reaped"}]
         /\ result' \in [Urbs -> Results \cup {"none"}]
         /\ Len(done') = Len(done) + 1 /\ done'[Len(done) + 1] = i
         /\ where'[i] = "done" /\ result'[i] = r
         /\ \A j \in Urbs \ {i} :
              where'[j] = where[j] /\ result'[j] = result[j]
<1> USE DEF Types, GiveBack, Pending, Results
<1>1. i \in Urbs /\ where[i] = "kernel" /\ Len(done) \in Nat
  OBVIOUS
<1>2. /\ Len(done') = Len(done) + 1 /\ done'[Len(done) + 1] = i
      /\ \A p \in 1..Len(done) : done'[p] = done[p]
      /\ done' \in Seq(Urbs)
  BY <1>1
<1>3. /\ where'[i] = "done" /\ result'[i] = r
      /\ \A j \in Urbs \ {i} : where'[j] = where[j] /\ result'[j] = result[j]
      /\ where' \in [Urbs -> {"unsent", "kernel", "done", "reaped"}]
      /\ result' \in [Urbs -> Results \cup {"none"}]
  BY <1>1
<1>4. \A p \in 1..Len(done) : done[p] # i
  BY <1>1 DEF DoneIsListed
<1>5. \A p \in 1..Len(done') : p \in 1..Len(done) \/ p = Len(done) + 1
  BY <1>1, <1>2
<1>6. \A p, q \in 1..Len(done') : done'[p] = done'[q] => p = q
  BY <1>1, <1>2, <1>4, <1>5 DEF DoneIsListed
<1>7. ASSUME NEW j \in Urbs
      PROVE  where'[j] = "done" <=> \E p \in 1..Len(done') : done'[p] = j
  <2>1. CASE j = i
    <3>1. Len(done) + 1 \in 1..Len(done')
      BY <1>1, <1>2
    <3> QED
      BY <1>2, <1>3, <2>1, <3>1
  <2>2. CASE j # i
    <3>1. where'[j] = where[j]
      BY <1>3, <2>2
    <3>2. (\E p \in 1..Len(done') : done'[p] = j)
          <=> \E p \in 1..Len(done) : done[p] = j
      <4>1. \A p \in 1..Len(done) : p \in 1..Len(done')
        BY <1>1, <1>2
      <4> QED
        BY <1>2, <1>5, <2>2, <4>1
    <3> QED
      BY <3>1, <3>2 DEF DoneIsListed
  <2> QED
    BY <2>1, <2>2
<1> QED
  BY <1>2, <1>3, <1>6, <1>7 DEF DoneIsListed

\* What reaping an URB does to the list.
LEMMA ReapFacts ==
  ASSUME Types, DoneIsListed, NEW i \in Urbs, Reap(i)
  PROVE  /\ DoneIsListed'
         /\ done' \in Seq(Urbs)
         /\ where' \in [Urbs -> {"unsent", "kernel", "done", "reaped"}]
         /\ Len(done) > 0 /\ done[1] = i /\ Len(done') = Len(done) - 1
         /\ \A p \in 1..Len(done') : done'[p] = done[p + 1]
         /\ where[i] = "done" /\ where'[i] = "reaped"
         /\ \A j \in Urbs \ {i} : where'[j] = where[j]
         /\ retired' = retired + 1
         /\ phase = "submitted" /\ lock = "free"
         /\ UNCHANGED <<continuation, result, device, stopped, cancel>>
<1> USE DEF Types, Reap
<1>1. Len(done) \in Nat /\ Len(done) > 0 /\ done[1] = i
  OBVIOUS
<1>2. /\ Len(done') = Len(done) - 1 /\ done' \in Seq(Urbs)
      /\ \A p \in 1..Len(done') : done'[p] = done[p + 1]
  BY <1>1
<1>3. /\ where'[i] = "reaped"
      /\ \A j \in Urbs \ {i} : where'[j] = where[j]
      /\ where' \in [Urbs -> {"unsent", "kernel", "done", "reaped"}]
  OBVIOUS
<1>4. where[i] = "done"
  <2>1. 1 \in 1..Len(done)
    BY <1>1
  <2> QED
    BY <1>1, <2>1 DEF DoneIsListed
<1>5. \A p \in 1..Len(done') : p + 1 \in 1..Len(done) /\ p + 1 # 1
  BY <1>1, <1>2
<1>6. \A p, q \in 1..Len(done') : done'[p] = done'[q] => p = q
  <2> SUFFICES ASSUME NEW p \in 1..Len(done'), NEW q \in 1..Len(done'),
                      done'[p] = done'[q]
               PROVE  p = q
    OBVIOUS
  <2>1. done[p + 1] = done[q + 1]
    BY <1>2
  <2>2. p + 1 = q + 1
    BY <1>5, <2>1 DEF DoneIsListed
  <2> QED
    BY <1>1, <1>2, <2>2
<1>7. ASSUME NEW j \in Urbs
      PROVE  where'[j] = "done" <=> \E p \in 1..Len(done') : done'[p] = j
  <2>1. CASE j = i
    <3>1. \A p \in 1..Len(done') : done'[p] # i
      <4>1. \A p \in 2..Len(done) : done[p] # done[1]
        BY <1>1 DEF DoneIsListed
      <4> QED
        BY <1>1, <1>2, <4>1
    <3> QED
      BY <1>3, <2>1, <3>1
  <2>2. CASE j # i
    <3>1. where'[j] = where[j]
      BY <1>3, <2>2
    <3>2. ASSUME NEW p \in 1..Len(done), done[p] = j
          PROVE  p - 1 \in 1..Len(done') /\ done'[p - 1] = j
      BY <1>1, <1>2, <2>2, <3>2
    <3>3. ASSUME NEW p \in 1..Len(done'), done'[p] = j
          PROVE  p + 1 \in 1..Len(done) /\ done[p + 1] = j
      BY <1>1, <1>2, <3>3
    <3>4. (\E p \in 1..Len(done') : done'[p] = j)
          => \E p \in 1..Len(done) : done[p] = j
      BY <3>3
    <3>5. (\E p \in 1..Len(done) : done[p] = j)
          => \E p \in 1..Len(done') : done'[p] = j
      BY <3>2
    <3>6. where[j] = "done" <=> \E p \in 1..Len(done) : done[p] = j
      BY DEF DoneIsListed
    <3> QED
      BY <3>1, <3>4, <3>5, <3>6
  <2> QED
    BY <2>1, <2>2
<1> QED
  BY <1>1, <1>2, <1>3, <1>4, <1>6, <1>7 DEF DoneIsListed

\* What the kernel and the dongle do to the list.
LEMMA KernelFacts ==
  ASSUME Types, KernelStep
  PROVE  /\ UNCHANGED <<continuation, retired, action, lock, disc, phase,
                        cancel>>
         /\ device' \in {"on", "halted", "gone"}
         /\ device = "gone" => device' = "gone"
         /\ stopped' \in BOOLEAN /\ stopped' \in {stopped, continuation}
         /\ stopped => stopped'
         /\ \/ UNCHANGED <<where, result, done>>
            \/ \E i \in Pending, r \in Results :
                 /\ GiveBack(i, r)
                 /\ i = N /\ r # "nodev" => Pending = {N}
                 /\ r = "overflow" => i = N
                 /\ r = "stall" => stopped' = continuation
                 /\ r = "nodev" => device' = "gone"
<1> USE DEF Types, Results, privVars, callVars
<1>1. CASE Unplug
  BY <1>1 DEF Unplug
<1>2. ASSUME NEW i \in Urbs, Served(i)
      PROVE  i \in Pending /\ (i = N => Pending = {N})
  BY <1>2, LastUrb DEF Served, Pending, Urbs
<1>3. ASSUME NEW i \in Urbs, Receive(i) PROVE UNCHANGED <<where, result, done>>
  BY <1>3 DEF Receive
<1>4. ASSUME NEW i \in Urbs, Dongle(i)
      PROVE  /\ UNCHANGED <<continuation, retired, action, lock, disc, phase,
                            cancel>>
             /\ device' \in {"on", "halted"} /\ device = "on" /\ ~stopped
             /\ stopped' \in BOOLEAN /\ stopped' \in {stopped, continuation}
             /\ \/ UNCHANGED <<where, result, done>>
                \/ \E r \in Results \ {"nodev"} :
                     /\ Served(i) /\ GiveBack(i, r)
                     /\ r = "overflow" => i = N
                     /\ r = "stall" => stopped' = continuation
  <2>1. CASE Receive(i)
    BY <2>1 DEF Receive, Serving
  <2>2. CASE CompleteFull(i)
    BY <2>2 DEF CompleteFull, Serving
  <2>3. CASE CompleteShort(i)
    <3>1. /\ UNCHANGED <<continuation, retired, action, lock, disc, phase,
                         cancel, device>>
          /\ device = "on" /\ ~stopped /\ Served(i)
      BY <2>3 DEF CompleteShort, Serving
    <3>2. CASE continuation /\ i < N
      BY <2>3, <3>1, <3>2 DEF CompleteShort
    <3>3. CASE ~(continuation /\ i < N)
      BY <2>3, <3>1, <3>3 DEF CompleteShort
    <3> QED
      BY <3>1, <3>2, <3>3
  <2>4. CASE CompleteFailed(i)
    BY <2>4 DEF CompleteFailed, Serving
  <2> QED
    BY <1>4, <2>1, <2>2, <2>3, <2>4 DEF Dongle
<1>5. ASSUME NEW i \in Urbs, KernelGivesBack(i)
      PROVE  /\ UNCHANGED <<continuation, retired, action, lock, disc, phase,
                            cancel, device, stopped>>
             /\ \/ Served(i) /\ GiveBack(i, "connreset")
                \/ i \in Pending /\ device = "gone" /\ GiveBack(i, "nodev")
  BY <1>5 DEF KernelGivesBack, GiveBackRest, CompleteGone
<1>6. ASSUME NEW i \in Urbs, Dongle(i)
      PROVE  \/ UNCHANGED <<where, result, done>>
             \/ \E r \in Results :
                  /\ i \in Pending /\ GiveBack(i, r)
                  /\ i = N /\ r # "nodev" => Pending = {N}
                  /\ r = "overflow" => i = N
                  /\ r = "stall" => stopped' = continuation
                  /\ r = "nodev" => device' = "gone"
  BY <1>2, <1>4, <1>6
<1>7. ASSUME NEW i \in Urbs, KernelGivesBack(i)
      PROVE  \E r \in Results :
               /\ i \in Pending /\ GiveBack(i, r)
               /\ i = N /\ r # "nodev" => Pending = {N}
               /\ r \notin {"overflow", "stall"}
               /\ r = "nodev" => device' = "gone"
  BY <1>2, <1>5, <1>7
<1> QED
  <2>1. CASE \E i \in Urbs : Dongle(i)
    BY <2>1, <1>4, <1>6
  <2>2. CASE \E i \in Urbs : KernelGivesBack(i)
    BY <2>2, <1>5, <1>7
  <2> QED
    BY <1>1, <2>1, <2>2 DEF KernelStep, Unplug

\* What discarding an URB does.
LEMMA DiscardFacts ==
  ASSUME Types, DiscardOne
  PROVE  /\ UNCHANGED <<continuation, device, stopped, retired, action, lock,
                        phase, cancel>>
         /\ Discarding /\ disc.next \in Urbs
         /\ disc'.next = disc.next - 1
         /\ disc'.first = disc.first /\ disc'.last = disc.last
         /\ disc' \in [next : 0..N, first : 1..(N + 1), last : 0..N,
                       ret : {"ok", "notfound", "nodevice"}]
         /\ disc'.ret \in {disc.ret, "nodevice"} \/ disc.next = disc.last
         /\ \/ /\ UNCHANGED <<where, result, done>>
               /\ disc.next \notin Pending \/ device = "gone"
            \/ /\ disc.next \in Pending /\ device # "gone"
               /\ disc'.ret = disc.ret
               /\ ~stopped \/ Served(disc.next)
               /\ GiveBack(disc.next, "noent")
<1> USE DEF Types, privVars
<1>1. /\ UNCHANGED <<continuation, device, stopped, retired, action, lock,
                     phase, cancel>>
      /\ Discarding
  BY DEF DiscardOne
<1>2. disc.next \in Urbs /\ disc.next - 1 \in 0..N
  BY <1>1, BulkAssumption DEF Discarding, Urbs
<1>3. disc' = [disc EXCEPT !.next = disc.next - 1,
             !.ret = IF device = "gone" THEN "nodevice"
                     ELSE IF disc.next \notin Pending /\ disc.next = disc.last
                     THEN "notfound"
                     ELSE disc.ret]
  BY DEF DiscardOne
<1>4. \/ /\ UNCHANGED <<where, result, done>>
         /\ disc.next \notin Pending \/ device = "gone"
      \/ /\ disc.next \in Pending /\ device # "gone"
         /\ ~stopped \/ Served(disc.next)
         /\ GiveBack(disc.next, "noent")
  BY DEF DiscardOne
<1> QED
  BY <1>1, <1>2, <1>3, <1>4

\* What the submitting thread does to the rest of the state.
SubmitEffect(i) ==
  /\ Submitting(i)
  /\ UNCHANGED <<continuation, result, done, device, stopped, cancel>>
  /\ \/ /\ where' = [where EXCEPT ![i] = "kernel"]
        /\ UNCHANGED <<retired, action, lock, disc, phase>>
     \/ /\ action' = "COMPLETED_EARLY" /\ phase' = "submitted"
        /\ retired' = retired + (N - i + 1) /\ lock' = "free"
        /\ UNCHANGED <<where, disc>>
     \/ /\ phase' = "refused" /\ lock' = "free"
        /\ UNCHANGED <<where, retired, action, disc>>
     \/ /\ i > 1 /\ action' = "SUBMIT_FAILED"
        /\ retired' = retired + (N - i + 1)
        /\ StartDiscard(1, i - 1)
        /\ UNCHANGED <<where, lock, phase>>

\* What the submitting thread does for an URB.
LEMMA SubmitFacts ==
  ASSUME SubmitOne
  PROVE  \E i \in Urbs : SubmitEffect(i)
<1> USE DEF kernelVars, privVars, callVars, SubmitEffect
<1>1. CASE FirstUrbFails
  <2>1. 1 \in Urbs
    BY LastUrb DEF Urbs
  <2> QED
    BY <1>1, <2>1 DEF FirstUrbFails
<1>2. ASSUME NEW i \in Urbs, SubmitUrb(i) PROVE SubmitEffect(i)
  BY <1>2 DEF SubmitUrb
<1>3. ASSUME NEW i \in Urbs, SubmitRefused(i) PROVE SubmitEffect(i)
  BY <1>3 DEF SubmitRefused
<1>4. ASSUME NEW i \in Urbs, LaterUrbFails(i) PROVE SubmitEffect(i)
  BY <1>4 DEF LaterUrbFails
<1> QED
  BY <1>1, <1>2, <1>3, <1>4 DEF SubmitOne

\* How the event handler goes on after reaping an URB: it frees them all, it
\* waits for the others, or it discards what is left.
ReapEffect(i) ==
  \/ /\ Finish
     /\ \/ AllRetired
        \/ action = "NORMAL" /\ i = N /\ result[i] # "nodev"
  \/ Unlock
  \/ /\ lock' = "reap" /\ StartDiscard(i + 1, N) /\ UNCHANGED phase
     /\ action' = "NORMAL" => result[i] \in {"nodev", "stall"}

\* What reaping an URB does.
LEMMA ReapGoesOn ==
  ASSUME Types, ResultIsLate, NEW i \in Urbs, ReapOne(i)
  PROVE  /\ Reap(i) /\ ReapEffect(i)
         /\ action # "NORMAL" => action' = action
         /\ action' \in {action, "COMPLETED_EARLY", "ERROR"}
<1>1. CASE ReapAbnormal(i)
  BY <1>1 DEF ReapAbnormal, ReapEffect
<1>2. CASE ReapGood(i)
  <2>1. CASE i = N
    BY <1>2, <2>1 DEF ReapGood, ReapEffect
  <2>2. CASE i # N /\ got[i] < L
    BY <1>2, <2>2 DEF ReapGood, ReapEffect, CancelRemaining
  <2>3. CASE i # N /\ ~(got[i] < L)
    BY <1>2, <2>3 DEF ReapGood, ReapEffect
  <2> QED
    BY <2>1, <2>2, <2>3
<1>3. CASE ReapStalled(i)
  BY <1>3 DEF ReapStalled, ReapEffect, CancelRemaining
<1>4. CASE ReapOverflow(i)
  BY <1>4 DEF ReapOverflow, ReapEffect, ResultIsLate
<1>5. CASE ReapError(i)
  BY <1>5 DEF ReapError, ReapEffect, CancelRemaining
<1> QED
  BY <1>1, <1>2, <1>3, <1>4, <1>5 DEF ReapOne

\* The types are preserved.
LEMMA TypesKept ==
  ASSUME Types, DoneIsListed, ResultIsLate, LockIsHeld, [Next]_vars
  PROVE  Types'
<1>1. CASE KernelStep
  <2>1. CASE UNCHANGED <<where, result, done>>
    BY <1>1, <2>1, KernelFacts DEF Types
  <2>2. CASE \E i \in Pending, r \in Results : GiveBack(i, r)
    <3>1. /\ done' \in Seq(Urbs)
          /\ where' \in [Urbs -> {"unsent", "kernel", "done", "reaped"}]
          /\ result' \in [Urbs -> Results \cup {"none"}]
      BY <2>2, GiveBackFacts
    <3> QED
      BY <1>1, <3>1, KernelFacts DEF Types
  <2> QED
    BY <1>1, <2>1, <2>2, KernelFacts
<1>2. CASE SubmitOne
  <2>1. PICK i \in Urbs : SubmitEffect(i)
    BY <1>2, SubmitFacts
  <2>2. i \in 1..N /\ N - i + 1 \in Nat
    BY BulkAssumption DEF Urbs
  <2>3. i > 1 => i - 1 \in 0..N /\ 1 \in 1..(N + 1)
    BY <2>2, BulkAssumption
  <2> QED
    BY <2>1, <2>2, <2>3 DEF SubmitEffect, Types, StartDiscard
<1>3. CASE SubmitEnds
  BY <1>3 DEF SubmitEnds, Types, kernelVars, privVars
<1>4. CASE DiscardOne
  <2>1. CASE UNCHANGED <<where, result, done>>
    BY <1>4, <2>1, DiscardFacts DEF Types
  <2>2. CASE \E i \in Pending : GiveBack(i, "noent")
    <3>1. /\ done' \in Seq(Urbs)
          /\ where' \in [Urbs -> {"unsent", "kernel", "done", "reaped"}]
          /\ result' \in [Urbs -> Results \cup {"none"}]
      BY <2>2, GiveBackFacts DEF Results
    <3> QED
      BY <1>4, <3>1, DiscardFacts DEF Types
  <2> QED
    BY <1>4, <2>1, <2>2, DiscardFacts
<1>5. CASE CancelStep
  <2>1. N \in 0..N /\ 1 \in 1..(N + 1)
    BY BulkAssumption
  <2> QED
    BY <1>5, <2>1 DEF CancelStep, CancelStarts, CancelTooLate, CancelEnds,
       StartDiscard, Types, kernelVars, privVars
<1>6. ASSUME NEW i \in Urbs, ReapOne(i) PROVE Types'
  <2>1. N \in 0..N /\ i + 1 \in 1..(N + 1)
    BY BulkAssumption DEF Urbs
  <2>2. Reap(i) /\ ReapEffect(i)
        /\ action' \in {action, "COMPLETED_EARLY", "ERROR"}
    BY <1>6, ReapGoesOn
  <2>3. /\ done' \in Seq(Urbs)
        /\ where' \in [Urbs -> {"unsent", "kernel", "done", "reaped"}]
        /\ retired' = retired + 1
        /\ UNCHANGED <<continuation, result, device, stopped, cancel>>
    BY <2>2, ReapFacts
  <2> QED
    BY <2>1, <2>2, <2>3 DEF ReapEffect, Finish, Unlock, StartDiscard, Types
<1>7. CASE EndStep
  BY <1>7 DEF EndStep, ReapEnds, Report, Disconnect, Types, kernelVars,
     privVars
<1>8. CASE UNCHANGED vars
  BY <1>8 DEF vars, kernelVars, privVars, callVars, Types
<1> QED
  BY <1>1, <1>2, <1>3, <1>4, <1>5, <1>6, <1>7, <1>8, Steps

\* The kernel's list stays in order.
LEMMA DoneIsListedKept ==
  ASSUME Types, DoneIsListed, ResultIsLate, [Next]_vars
  PROVE  DoneIsListed'
<1>1. CASE UNCHANGED <<where, done>>
  BY <1>1 DEF DoneIsListed
<1>2. CASE \E i \in Pending, r \in Results : GiveBack(i, r)
  BY <1>2, GiveBackFacts
<1>3. CASE KernelStep
  BY <1>1, <1>2, <1>3, KernelFacts
<1>4. CASE SubmitOne
  <2>1. PICK i \in Urbs : SubmitEffect(i)
    BY <1>4, SubmitFacts
  <2>2. done' = done /\ where[i] = "unsent"
        /\ (UNCHANGED where \/ where' = [where EXCEPT ![i] = "kernel"])
    BY <2>1 DEF SubmitEffect, Submitting
  <2>3. \A j \in Urbs : where'[j] = "done" <=> where[j] = "done"
    BY <2>2 DEF Types
  <2> QED
    BY <2>2, <2>3 DEF DoneIsListed
<1>5. CASE DiscardOne
  BY <1>1, <1>2, <1>5, DiscardFacts DEF Results
<1>6. ASSUME NEW i \in Urbs, ReapOne(i) PROVE DoneIsListed'
  BY <1>6, ReapGoesOn, ReapFacts
<1>7. CASE SubmitEnds \/ CancelStep \/ EndStep \/ UNCHANGED vars
  BY <1>1, <1>7 DEF SubmitEnds, CancelStep, CancelStarts, CancelTooLate,
     CancelEnds, EndStep, ReapEnds, Report, Disconnect, kernelVars, vars
<1> QED
  BY <1>3, <1>4, <1>5, <1>6, <1>7, Steps

\* The steps that reap, submit or give back nothing.
LEMMA QuietFacts ==
  ASSUME SubmitEnds \/ CancelStep \/ EndStep \/ UNCHANGED vars
  PROVE  UNCHANGED <<continuation, where, result, done, device, stopped,
                     retired>>
BY DEF SubmitEnds, CancelStep, CancelStarts, CancelTooLate, CancelEnds, EndStep,
   ReapEnds, Report, Disconnect, kernelVars, privVars, vars

\* What the submitting thread does to the URBs.
LEMMA SubmitWhere ==
  ASSUME Types, NEW i \in Urbs, SubmitEffect(i)
  PROVE  /\ where[i] = "unsent"
         /\ \/ UNCHANGED where
            \/ /\ where'[i] = "kernel"
               /\ UNCHANGED <<retired, action, lock, disc, phase>>
         /\ \A j \in Urbs \ {i} : where'[j] = where[j]
BY DEF Types, SubmitEffect, Submitting

\* Results come late.
LEMMA ResultIsLateKept ==
  ASSUME Types, DoneIsListed, ResultIsLate, [Next]_vars
  PROVE  ResultIsLate'
<1>1. CASE UNCHANGED <<where, result>>
  BY <1>1 DEF ResultIsLate
<1>2. ASSUME NEW i \in Pending, NEW r \in Results, GiveBack(i, r),
             r = "overflow" => i = N
      PROVE  ResultIsLate'
  <2>1. /\ where'[i] = "done" /\ result'[i] = r
        /\ \A j \in Urbs \ {i} : where'[j] = where[j] /\ result'[j] = result[j]
    BY <1>2, GiveBackFacts
  <2> QED
    BY <1>2, <2>1 DEF ResultIsLate
<1>3. CASE KernelStep
  BY <1>1, <1>2, <1>3, KernelFacts
<1>4. CASE SubmitOne
  <2>1. PICK i \in Urbs : SubmitEffect(i)
    BY <1>4, SubmitFacts
  <2>2. result' = result
    BY <2>1 DEF SubmitEffect
  <2> QED
    BY <2>1, <2>2, SubmitWhere DEF ResultIsLate
<1>5. CASE DiscardOne
  <2>1. "noent" \in Results /\ "noent" # "overflow"
    BY DEF Results
  <2> QED
    BY <1>1, <1>2, <1>5, <2>1, DiscardFacts
<1>6. ASSUME NEW i \in Urbs, ReapOne(i) PROVE ResultIsLate'
  <2>1. /\ where'[i] = "reaped" /\ where[i] = "done" /\ result' = result
        /\ \A j \in Urbs \ {i} : where'[j] = where[j]
    BY <1>6, ReapGoesOn, ReapFacts
  <2> QED
    BY <2>1 DEF ResultIsLate
<1>7. CASE SubmitEnds \/ CancelStep \/ EndStep \/ UNCHANGED vars
  BY <1>1, <1>7, QuietFacts
<1> QED
  BY <1>3, <1>4, <1>5, <1>6, <1>7, Steps

\* The lock is held by who says so.
LEMMA LockIsHeldKept ==
  ASSUME Types, DoneIsListed, ResultIsLate, LockIsHeld, [Next]_vars
  PROVE  LockIsHeld'
<1>1. CASE UNCHANGED <<retired, action, lock, disc, phase, cancel>>
  BY <1>1 DEF LockIsHeld, Discarding
<1>2. CASE KernelStep
  BY <1>1, <1>2, KernelFacts
<1>3. CASE SubmitOne
  <2>1. PICK i \in Urbs : SubmitEffect(i)
    BY <1>3, SubmitFacts
  <2>2. /\ phase = "submitting" /\ lock = "submit" /\ ~Discarding
        /\ action = "NORMAL" /\ retired = 0 /\ cancel' = cancel
    BY <2>1 DEF SubmitEffect, Submitting, LockIsHeld
  <2>3. i \in 1..N /\ N - i + 1 \in Nat \ {0}
    BY BulkAssumption DEF Urbs
  <2>4. CASE UNCHANGED <<retired, action, lock, disc, phase>>
    BY <1>1, <2>2, <2>4
  <2>5. CASE /\ lock' = "free" /\ phase' \in {"submitted", "refused"}
             /\ UNCHANGED disc
    BY <2>2, <2>5 DEF LockIsHeld, Discarding
  <2>6. CASE /\ action' = "SUBMIT_FAILED" /\ retired' = retired + (N - i + 1)
             /\ UNCHANGED <<lock, phase>>
    BY <2>2, <2>3, <2>6 DEF LockIsHeld
  <2> QED
    BY <2>1, <2>4, <2>5, <2>6 DEF SubmitEffect
<1>4. CASE SubmitEnds
  BY <1>4 DEF SubmitEnds, Discarded, Discarding, LockIsHeld, privVars
<1>5. CASE DiscardOne
  <2>1. /\ UNCHANGED <<retired, action, lock, phase, cancel>>
        /\ Discarding /\ disc.next \in 1..N /\ disc'.next = disc.next - 1
        /\ disc'.first = disc.first /\ disc'.last = disc.last
    BY <1>5, DiscardFacts DEF Urbs
  <2>2. lock # "free"
    BY <2>1 DEF LockIsHeld
  <2>3. disc'.next # N
    BY <2>1, BulkAssumption
  <2> QED
    BY <2>1, <2>2, <2>3 DEF LockIsHeld
<1>6. CASE CancelStep
  <2>1. CASE CancelStarts
    BY <2>1 DEF CancelStarts, StartDiscard, LockIsHeld, privVars
  <2>2. CASE CancelTooLate
    BY <2>2 DEF CancelTooLate, LockIsHeld, Discarding, privVars
  <2>3. CASE CancelEnds
    BY <2>3 DEF CancelEnds, Discarded, Discarding, LockIsHeld
  <2> QED
    BY <1>6, <2>1, <2>2, <2>3 DEF CancelStep
<1>7. ASSUME NEW i \in Urbs, ReapOne(i) PROVE LockIsHeld'
  <2>1. /\ ReapEffect(i) /\ phase = "submitted" /\ lock = "free"
        /\ cancel' = cancel
    BY <1>7, ReapGoesOn, ReapFacts
  <2> QED
    BY <2>1 DEF ReapEffect, Finish, Unlock, LockIsHeld, Discarding
<1>8. CASE EndStep
  BY <1>8 DEF EndStep, ReapEnds, Report, Disconnect, Discarded, Discarding,
     LockIsHeld, privVars
<1>9. CASE UNCHANGED vars
  BY <1>1, <1>9 DEF vars, privVars, callVars
<1> QED
  BY <1>2, <1>3, <1>4, <1>5, <1>6, <1>7, <1>8, <1>9, Steps

\* URBs are submitted in order.
LEMMA SubmittedInOrderKept ==
  ASSUME Types, DoneIsListed, ResultIsLate, LockIsHeld, SubmittedInOrder,
         [Next]_vars
  PROVE  SubmittedInOrder'
<1>1. ASSUME UNCHANGED <<phase, action>>,
             \A j \in Urbs : /\ where'[j] = "unsent" <=> where[j] = "unsent"
                             /\ where'[j] = "reaped" <=> where[j] = "reaped"
      PROVE  SubmittedInOrder'
  BY <1>1 DEF SubmittedInOrder
<1>2. ASSUME NEW i \in Pending, NEW r \in Results, GiveBack(i, r),
             UNCHANGED <<phase, action>>
      PROVE  SubmittedInOrder'
  <2>1. /\ where'[i] = "done" /\ where[i] = "kernel"
        /\ \A j \in Urbs \ {i} : where'[j] = where[j]
    BY <1>2, GiveBackFacts DEF Pending
  <2> QED
    BY <1>1, <1>2, <2>1
<1>3. CASE KernelStep
  BY <1>1, <1>2, <1>3, KernelFacts
<1>4. CASE SubmitOne
  <2>1. PICK i \in Urbs : SubmitEffect(i)
    BY <1>4, SubmitFacts
  <2>2. /\ where[i] = "unsent" /\ \A j \in Urbs \ {i} : where'[j] = where[j]
        /\ \/ UNCHANGED where
           \/ where'[i] = "kernel" /\ UNCHANGED <<action, phase>>
    BY <2>1, SubmitWhere
  <2>3. \A j \in Urbs : j < i => where[j] # "unsent"
    BY <2>1 DEF SubmitEffect, Submitting, Urbs
  <2>4. CASE UNCHANGED where
    <3>1. phase' = "submitting" => phase = "submitting"
      BY <2>1 DEF SubmitEffect, Submitting
    <3>2. phase' = "submitted" => action' # "NORMAL"
      BY <2>1, <2>2, <2>4 DEF SubmitEffect, Submitting
    <3> QED
      BY <2>4, <3>1, <3>2 DEF SubmittedInOrder
  <2>5. CASE where'[i] = "kernel" /\ UNCHANGED <<action, phase>>
    <3>1. phase = "submitting"
      BY <2>1 DEF SubmitEffect, Submitting
    <3>2. ASSUME NEW j \in Urbs, NEW k \in Urbs, j <= k,
                 where'[j] = "unsent"
          PROVE  where'[k] = "unsent"
      <4>1. j # i /\ where[j] = "unsent"
        BY <2>2, <2>5, <3>2
      <4>2. k # i
        BY <2>3, <3>2, <4>1 DEF Urbs
      <4> QED
        BY <2>2, <3>2, <4>1, <4>2 DEF SubmittedInOrder
    <3>3. \A j \in Urbs : where'[j] # "reaped"
      BY <2>2, <2>5, <3>1 DEF SubmittedInOrder
    <3> QED
      BY <2>5, <3>1, <3>2, <3>3 DEF SubmittedInOrder
  <2> QED
    BY <2>2, <2>4, <2>5
<1>5. CASE DiscardOne
  <2>1. "noent" \in Results
    BY DEF Results
  <2> QED
    BY <1>1, <1>2, <1>5, <2>1, DiscardFacts
<1>6. ASSUME NEW i \in Urbs, ReapOne(i) PROVE SubmittedInOrder'
  <2>1. /\ where[i] = "done" /\ where'[i] = "reaped"
        /\ \A j \in Urbs \ {i} : where'[j] = where[j]
        /\ phase = "submitted" /\ phase' # "submitting"
        /\ action' = "NORMAL" => action = "NORMAL"
    BY <1>6, ReapGoesOn, ReapFacts DEF ReapEffect, Finish, Unlock
  <2> QED
    BY <2>1 DEF SubmittedInOrder
<1>7. CASE SubmitEnds
  BY <1>7 DEF SubmitEnds, SubmittedInOrder, kernelVars, privVars
<1>8. CASE CancelStep \/ EndStep \/ UNCHANGED vars
  BY <1>8 DEF CancelStep, CancelStarts, CancelTooLate, CancelEnds, EndStep,
     ReapEnds, Report, Disconnect, SubmittedInOrder, kernelVars, privVars,
     callVars, vars
<1> QED
  BY <1>3, <1>4, <1>5, <1>6, <1>7, <1>8, Steps

\* The URBs are finitely many, and N.
LEMMA UrbsAreN == IsFiniteSet(Urbs) /\ Cardinality(Urbs) = N
BY FS_Interval, BulkAssumption DEF Urbs

\* The set of URBs that are back changes with where they are.
LEMMA BackStays ==
  ASSUME \A j \in Urbs : where'[j] \in {"unsent", "reaped"}
                         <=> where[j] \in {"unsent", "reaped"}
  PROVE  Back' = Back
BY DEF Back

\* When the URBs from i on were not submitted, these are the ones to count.
LEMMA UnsentCount ==
  ASSUME Types, SubmittedInOrder, NEW i \in Urbs, Submitting(i),
         UNCHANGED where
  PROVE  Cardinality(Back') = N - i + 1
<1>1. i \in 1..N /\ N \in Nat
  BY BulkAssumption DEF Urbs
<1>2. phase = "submitting" /\ where[i] = "unsent"
      /\ \A j \in 1..(i - 1) : where[j] # "unsent"
  BY DEF Submitting
<1>3. ASSUME NEW j \in Urbs
      PROVE  where[j] \in {"unsent", "reaped"} <=> i <= j
  <2>1. where[j] # "reaped"
    BY <1>2 DEF SubmittedInOrder
  <2>2. i <= j => where[j] = "unsent"
    BY <1>2 DEF SubmittedInOrder
  <2>3. ~(i <= j) => j \in 1..(i - 1)
    BY <1>1 DEF Urbs
  <2> QED
    BY <1>2, <2>1, <2>2, <2>3
<1>4. Back' = i..N
  <2>1. Back' = {j \in Urbs : i <= j}
    BY <1>3 DEF Back
  <2> QED
    BY <1>1, <2>1 DEF Urbs
<1>5. Cardinality(i..N) = N - i + 1
  BY <1>1, FS_Interval
<1> QED
  BY <1>4, <1>5

\* num_retired keeps counting them.
LEMMA RetiredCountsKept ==
  ASSUME Types, DoneIsListed, ResultIsLate, LockIsHeld, SubmittedInOrder,
         RetiredCounts, [Next]_vars
  PROVE  RetiredCounts'
<1>1. ASSUME UNCHANGED <<phase, action, retired>>, Back' = Back
      PROVE  RetiredCounts'
  BY <1>1 DEF RetiredCounts
<1>2. ASSUME NEW i \in Pending, NEW r \in Results, GiveBack(i, r)
      PROVE  Back' = Back
  <2>1. /\ where'[i] = "done" /\ where[i] = "kernel"
        /\ \A j \in Urbs \ {i} : where'[j] = where[j]
    BY <1>2, GiveBackFacts DEF Pending
  <2> QED
    BY <2>1, BackStays
<1>3. UNCHANGED where => Back' = Back
  BY DEF Back
<1>4. CASE KernelStep
  BY <1>1, <1>2, <1>3, <1>4, KernelFacts
<1>5. CASE SubmitOne
  <2>1. PICK i \in Urbs : SubmitEffect(i)
    BY <1>5, SubmitFacts
  <2>2. /\ Submitting(i) /\ phase = "submitting" /\ action = "NORMAL"
        /\ retired = 0
    BY <2>1 DEF SubmitEffect, Submitting, LockIsHeld
  <2>3. CASE UNCHANGED <<retired, action, phase>>
    BY <2>2, <2>3 DEF RetiredCounts
  <2>4. CASE UNCHANGED where /\ retired' = retired + (N - i + 1)
    <3>1. Cardinality(Back') = N - i + 1
      BY <2>2, <2>4, UnsentCount
    <3>2. N - i + 1 \in Nat
      BY BulkAssumption DEF Urbs
    <3> QED
      BY <2>2, <2>4, <3>1, <3>2 DEF RetiredCounts
  <2>5. CASE phase' = "refused"
    BY <2>5 DEF RetiredCounts
  <2> QED
    BY <2>1, <2>3, <2>4, <2>5 DEF SubmitEffect
<1>6. CASE SubmitEnds
  <2>1. /\ phase = "submitting" /\ phase' = "submitted"
        /\ UNCHANGED <<where, retired, action>>
        /\ action = "SUBMIT_FAILED" \/ \A j \in Urbs : where[j] # "unsent"
    BY <1>6 DEF SubmitEnds, kernelVars, privVars
  <2>2. CASE action = "NORMAL"
    <3>1. retired = 0
      BY <2>1, <2>2 DEF LockIsHeld
    <3>2. Back' = {}
      BY <2>1, <2>2 DEF Back, SubmittedInOrder
    <3> QED
      BY <2>1, <3>1, <3>2, FS_EmptySet DEF RetiredCounts
  <2>3. CASE action # "NORMAL"
    BY <1>3, <2>1, <2>3 DEF RetiredCounts
  <2> QED
    BY <2>2, <2>3
<1>7. CASE DiscardOne
  <2>1. "noent" \in Results
    BY DEF Results
  <2> QED
    BY <1>1, <1>2, <1>3, <1>7, <2>1, DiscardFacts
<1>8. CASE CancelStep \/ EndStep \/ UNCHANGED vars
  <2>1. UNCHANGED <<where, retired>>
    BY <1>8, QuietFacts
  <2>2. /\ phase' = "refused" <=> phase = "refused"
        /\ phase' = "submitting" <=> phase = "submitting"
        /\ phase = "submitting" => action' = action
    BY <1>8 DEF CancelStep, CancelStarts, CancelTooLate, CancelEnds, EndStep,
       ReapEnds, Report, Disconnect, LockIsHeld, privVars, callVars, vars
  <2> QED
    BY <1>3, <2>1, <2>2 DEF RetiredCounts
<1>9. ASSUME NEW i \in Urbs, ReapOne(i) PROVE RetiredCounts'
  <2>1. /\ where[i] = "done" /\ where'[i] = "reaped"
        /\ \A j \in Urbs \ {i} : where'[j] = where[j]
        /\ phase = "submitted" /\ retired' = retired + 1
    BY <1>9, ReapGoesOn, ReapFacts
  <2>2. i \notin Back /\ Back' = Back \cup {i}
    BY <2>1 DEF Back
  <2>3. IsFiniteSet(Back)
    BY UrbsAreN, FS_Subset DEF Back
  <2>4. Cardinality(Back') = Cardinality(Back) + 1
    BY <2>2, <2>3, FS_AddElement
  <2> QED
    BY <2>1, <2>4 DEF RetiredCounts
<1> QED
  BY <1>4, <1>5, <1>6, <1>7, <1>8, <1>9, Steps

\* The two ways to take a discarded URB for the end are never left again.
LEMMA LooksLastStays ==
  ASSUME Types, DoneIsListed, ResultIsLate, LockIsHeld, DiscardedLooksLast,
         [Next]_vars
  PROVE  DiscardedLooksLast'
<1>1. ASSUME UNCHANGED <<continuation, result>>,
             cancel = "nodevice" => cancel' = "nodevice"
      PROVE  DiscardedLooksLast'
  BY <1>1 DEF DiscardedLooksLast
<1>2. ASSUME NEW i \in Pending, NEW r \in Results, GiveBack(i, r),
             UNCHANGED <<continuation, cancel>>
      PROVE  DiscardedLooksLast'
  <2>1. /\ result[i] = "none"
        /\ \A j \in Urbs \ {i} : result'[j] = result[j]
    BY <1>2, GiveBackFacts DEF Pending, ResultIsLate
  <2> QED
    BY <1>2, <2>1 DEF DiscardedLooksLast
<1>3. CASE KernelStep
  BY <1>1, <1>2, <1>3, KernelFacts
<1>4. CASE SubmitOne
  BY <1>1, <1>4, SubmitFacts DEF SubmitEffect
<1>5. CASE DiscardOne
  <2>1. "noent" \in Results
    BY DEF Results
  <2> QED
    BY <1>1, <1>2, <1>5, <2>1, DiscardFacts
<1>6. ASSUME NEW i \in Urbs, ReapOne(i) PROVE DiscardedLooksLast'
  BY <1>1, <1>6, ReapGoesOn, ReapFacts
<1>7. CASE SubmitEnds \/ EndStep \/ UNCHANGED vars
  BY <1>1, <1>7 DEF SubmitEnds, EndStep, ReapEnds, Report, Disconnect,
     kernelVars, callVars, vars
<1>8. CASE CancelStep
  <2>1. CASE CancelStarts
    BY <1>1, <2>1 DEF CancelStarts, kernelVars
  <2>2. CASE CancelTooLate
    BY <1>1, <2>2 DEF CancelTooLate, kernelVars
  <2>3. CASE CancelEnds
    <3>1. UNCHANGED <<continuation, result>> /\ lock = "cancel"
      BY <2>3 DEF CancelEnds, kernelVars
    <3> QED
      BY <1>1, <3>1 DEF LockIsHeld
  <2> QED
    BY <1>8, <2>1, <2>2, <2>3 DEF CancelStep
<1> QED
  BY <1>3, <1>4, <1>5, <1>6, <1>7, <1>8, Steps

\* What is torn down stays gone or stopped.
LEMMA TornDownIsStoppedKept ==
  ASSUME Types, DoneIsListed, ResultIsLate, LockIsHeld, TornDownIsStopped,
         [Next]_vars
  PROVE  TornDownIsStopped'
<1>1. DiscardedLooksLast => DiscardedLooksLast'
  BY LooksLastStays
<1>2. ASSUME UNCHANGED <<continuation, device, stopped, result>>,
             lock' = "reap" /\ action' = "NORMAL" =>
               lock = "reap" /\ action = "NORMAL"
      PROVE  TornDownIsStopped'
  BY <1>1, <1>2 DEF TornDownIsStopped
<1>3. ASSUME NEW i \in Pending, NEW r \in Results, GiveBack(i, r),
             r = "stall" => stopped' = continuation,
             r = "nodev" => device' = "gone",
             stopped' \in BOOLEAN, stopped' \in {stopped, continuation},
             stopped => stopped', device = "gone" => device' = "gone",
             UNCHANGED <<continuation, lock, action>>
      PROVE  TornDownIsStopped'
  <2>1. /\ result'[i] = r /\ i \in Urbs
        /\ \A j \in Urbs \ {i} : result'[j] = result[j]
    BY <1>3, GiveBackFacts DEF Pending
  <2>2. (\E j \in Urbs : result'[j] = "stall") => stopped' = continuation
    <3>1. stopped = continuation => stopped' = continuation
      BY <1>3
    <3>2. (\E j \in Urbs : result'[j] = "stall") =>
            r = "stall" \/ \E j \in Urbs : result[j] = "stall"
      BY <2>1
    <3> QED
      BY <1>3, <3>1, <3>2 DEF TornDownIsStopped
  <2>3. (\E j \in Urbs : result'[j] = "nodev") => device' = "gone"
    BY <1>3, <2>1 DEF TornDownIsStopped
  <2> QED
    BY <1>1, <1>3, <2>2, <2>3 DEF TornDownIsStopped
<1>4. CASE KernelStep
  <2>1. /\ UNCHANGED <<continuation, lock, action>>
        /\ stopped' \in BOOLEAN /\ stopped' \in {stopped, continuation}
        /\ stopped => stopped'
        /\ device = "gone" => device' = "gone"
    BY <1>4, KernelFacts
  <2>2. CASE UNCHANGED <<where, result, done>>
    <3>1. stopped = continuation => stopped' = continuation
      BY <2>1
    <3> QED
      BY <1>1, <2>1, <2>2, <3>1 DEF TornDownIsStopped
  <2>3. CASE \E i \in Pending, r \in Results :
               /\ GiveBack(i, r)
               /\ r = "stall" => stopped' = continuation
               /\ r = "nodev" => device' = "gone"
    BY <1>3, <2>1, <2>3
  <2> QED
    BY <1>4, <2>2, <2>3, KernelFacts
<1>5. CASE SubmitOne
  <2>1. PICK i \in Urbs : SubmitEffect(i)
    BY <1>5, SubmitFacts
  <2>2. lock = "submit"
    BY <2>1 DEF SubmitEffect, Submitting, LockIsHeld
  <2> QED
    BY <1>2, <2>1, <2>2 DEF SubmitEffect
<1>6. CASE DiscardOne
  <2>1. "noent" \in Results /\ "noent" \notin {"stall", "nodev"}
    BY DEF Results
  <2>2. UNCHANGED <<continuation, device, stopped, lock, action>>
    BY <1>6, DiscardFacts
  <2>3. UNCHANGED result \/ \E i \in Pending : GiveBack(i, "noent")
    BY <1>6, DiscardFacts
  <2>4. CASE UNCHANGED result
    BY <1>2, <2>2, <2>4
  <2>5. CASE \E i \in Pending : GiveBack(i, "noent")
    <3>1. stopped \in BOOLEAN
      BY DEF Types
    <3> QED
      BY <1>3, <2>1, <2>2, <2>5, <3>1
  <2> QED
    BY <2>3, <2>4, <2>5
<1>7. ASSUME NEW i \in Urbs, ReapOne(i) PROVE TornDownIsStopped'
  <2>1. /\ ReapEffect(i) /\ lock = "free"
        /\ UNCHANGED <<continuation, device, stopped, result>>
    BY <1>7, ReapGoesOn, ReapFacts
  <2>2. CASE lock' = "reap" /\ action' = "NORMAL"
    <3>1. result[i] \in {"nodev", "stall"}
      BY <2>1, <2>2 DEF ReapEffect, Finish, Unlock
    <3>2. CASE result[i] = "nodev"
      BY <2>1, <3>2 DEF TornDownIsStopped
    <3>3. CASE result[i] = "stall"
      <4>1. stopped = continuation
        BY <3>3 DEF TornDownIsStopped
      <4>2. ~DiscardedLooksLast' => continuation
        BY <2>1, <3>3 DEF DiscardedLooksLast
      <4>3. stopped \in BOOLEAN
        BY DEF Types
      <4> QED
        BY <2>1, <4>1, <4>2, <4>3 DEF TornDownIsStopped
    <3> QED
      BY <3>1, <3>2, <3>3
  <2>3. CASE ~(lock' = "reap" /\ action' = "NORMAL")
    BY <1>2, <2>1, <2>3
  <2> QED
    BY <2>2, <2>3
<1>8. CASE SubmitEnds \/ CancelStep \/ EndStep \/ UNCHANGED vars
  <2>1. UNCHANGED <<continuation, device, stopped, result>>
    BY <1>8, QuietFacts
  <2>2. lock' = "reap" /\ action' = "NORMAL" =>
          lock = "reap" /\ action = "NORMAL"
    BY <1>8 DEF SubmitEnds, CancelStep, CancelStarts, CancelTooLate, CancelEnds,
       EndStep, ReapEnds, Report, Disconnect, privVars, callVars, vars
  <2> QED
    BY <1>2, <2>1, <2>2
<1> QED
  BY <1>4, <1>5, <1>6, <1>7, <1>8, Steps

\* What is given back while the last URB is out leaves it the last.
LEMMA GiveBackKeepsLast ==
  ASSUME Types, DoneIsListed, ResultIsLate, LastComesLast,
         NEW i \in Pending, NEW r \in Results, GiveBack(i, r),
         i = N /\ r # "nodev" => Pending = {N}
  PROVE  LastComesLast'
<1>1. /\ Len(done') = Len(done) + 1 /\ done'[Len(done) + 1] = i
      /\ where'[i] = "done" /\ result'[i] = r
      /\ \A j \in Urbs \ {i} : where'[j] = where[j] /\ result'[j] = result[j]
      /\ Len(done) \in Nat /\ N \in Urbs /\ i \in Urbs /\ where[i] = "kernel"
  BY GiveBackFacts, LastUrb DEF Pending, Types
<1>2. CASE i = N
  <2>1. r # "nodev" => Pending' = {}
    <3> SUFFICES ASSUME r # "nodev", NEW j \in Urbs PROVE where'[j] # "kernel"
      BY DEF Pending
    <3>1. j # N => where[j] # "kernel"
      BY <1>2 DEF Pending
    <3> QED
      BY <1>1, <1>2, <3>1
  <2> QED
    BY <1>1, <1>2, <2>1 DEF LastComesLast
<1>3. CASE i # N
  <2>1. ~(where[N] \in {"done", "reaped"} /\ result[N] # "nodev")
    BY DEF LastComesLast
  <2>2. where'[N] = where[N] /\ result'[N] = result[N]
    BY <1>1, <1>3
  <2> QED
    BY <2>1, <2>2 DEF LastComesLast
<1> QED
  BY <1>2, <1>3

\* As long as the transfer is neither cancelled nor failed, its last URB is the
\* last one to come back.
LEMMA LastEndsKept ==
  ASSUME Types, DoneIsListed, ResultIsLate, LockIsHeld, SubmittedInOrder,
         TornDownIsStopped, LastEnds, [Next]_vars
  PROVE  LastEnds'
<1> DEFINE Ends == /\ phase \in {"submitting", "submitted"}
                   /\ action = "NORMAL" /\ ~DiscardedLooksLast
<1> SUFFICES ASSUME Ends' PROVE LastComesLast' \/ DiscardedByCancel'
  BY DEF LastEnds
<1> HIDE DEF Ends
<1>1. ~DiscardedLooksLast
  BY LooksLastStays DEF Ends
<1>2. phase \in {"submitting", "submitted"} /\ action = "NORMAL" =>
        LastComesLast \/ DiscardedByCancel
  BY <1>1 DEF LastEnds
<1>3. action' = "NORMAL" /\ phase' \in {"submitting", "submitted"}
  BY DEF Ends
<1>4. UNCHANGED <<where, result, done>> /\ LastComesLast => LastComesLast'
  BY DEF LastComesLast, Pending
<1>5. lock = "cancel" => cancel = "busy" /\ disc.first = 1 /\ disc.last = N
                         /\ (disc.next = N => disc.ret = "ok")
  BY DEF LockIsHeld
<1>6. CASE KernelStep
  <2>1. UNCHANGED <<action, lock, disc, phase>>
    BY <1>6, KernelFacts
  <2>2. CASE UNCHANGED <<where, result, done>>
    BY <1>2, <1>3, <1>4, <2>1, <2>2 DEF DiscardedByCancel
  <2>3. CASE \E i \in Pending, r \in Results :
               GiveBack(i, r) /\ (i = N /\ r # "nodev" => Pending = {N})
    <3>1. PICK i \in Pending, r \in Results :
            GiveBack(i, r) /\ (i = N /\ r # "nodev" => Pending = {N})
      BY <2>3
    <3>2. CASE LastComesLast
      BY <3>1, <3>2, GiveBackKeepsLast
    <3>3. CASE DiscardedByCancel
      <4>1. where[i] = "kernel" /\ N \in Urbs
            /\ \A j \in Urbs \ {i} :
                 where'[j] = where[j] /\ result'[j] = result[j]
        BY <3>1, GiveBackFacts, LastUrb DEF Pending
      <4>2. i # N
        BY <3>3, <4>1 DEF DiscardedByCancel
      <4> QED
        BY <2>1, <3>3, <4>1, <4>2 DEF DiscardedByCancel
    <3> QED
      BY <1>2, <1>3, <2>1, <3>2, <3>3
  <2> QED
    BY <1>6, <2>2, <2>3, KernelFacts
<1>7. CASE SubmitOne
  <2>1. PICK i \in Urbs : SubmitEffect(i)
    BY <1>7, SubmitFacts
  <2>2. /\ phase = "submitting" /\ lock = "submit" /\ action = "NORMAL"
        /\ UNCHANGED <<result, done>>
    BY <2>1 DEF SubmitEffect, Submitting, LockIsHeld
  <2>3. LastComesLast
    BY <1>2, <2>2 DEF DiscardedByCancel
  <2>4. where' = [where EXCEPT ![i] = "kernel"] /\ where[i] = "unsent"
    BY <1>3, <2>1 DEF SubmitEffect, Submitting
  <2>5. where[N] = "unsent"
    BY <2>4, LastUrb DEF SubmittedInOrder, Urbs
  <2>6. where'[N] \in {"unsent", "kernel"}
    BY <2>4, <2>5, LastUrb DEF Types
  <2> QED
    BY <2>6 DEF LastComesLast
<1>8. CASE SubmitEnds
  <2>1. /\ phase = "submitting" /\ lock = "submit" /\ action' = action
        /\ UNCHANGED <<where, result, done>>
    BY <1>8 DEF SubmitEnds, LockIsHeld, kernelVars, privVars
  <2> QED
    BY <1>2, <1>3, <1>4, <2>1 DEF DiscardedByCancel
<1>9. CASE DiscardOne
  <2> DEFINE k == disc.next
  <2>1. /\ UNCHANGED <<continuation, device, stopped, action, lock, phase>>
        /\ Discarding /\ k \in Urbs /\ disc'.next = k - 1
        /\ disc'.ret \in {disc.ret, "nodevice"} \/ k = disc.last
        /\ disc'.ret \in {"ok", "notfound", "nodevice"}
    BY <1>9, DiscardFacts
  <2>2. \/ UNCHANGED <<where, result, done>>
        \/ /\ k \in Pending /\ device # "gone" /\ disc'.ret = disc.ret
           /\ ~stopped \/ Served(k)
           /\ GiveBack(k, "noent")
    BY <1>9, DiscardFacts
  <2>3. k \in 1..N /\ N \in Urbs /\ N \in Nat
    BY <2>1, LastUrb DEF Urbs
  <2>4. lock \in {"cancel", "reap"}
    BY <1>3, <2>1 DEF LockIsHeld, Types
  <2>5. "noent" \in Results /\ "noent" # "nodev"
    BY DEF Results
  <2>6. CASE UNCHANGED <<where, result, done>>
    <3>1. CASE LastComesLast
      BY <1>4, <2>6, <3>1
    <3>2. CASE DiscardedByCancel
      <4>1. k < N /\ disc.last = N
        BY <1>5, <3>2 DEF DiscardedByCancel
      <4>2. disc'.ret \in {"ok", "nodevice"} /\ disc'.next < N
        BY <2>1, <2>3, <3>2, <4>1 DEF DiscardedByCancel
      <4> QED
        BY <2>1, <2>6, <3>2, <4>2 DEF DiscardedByCancel
    <3> QED
      BY <1>2, <1>3, <2>1, <3>1, <3>2
  <2>7. CASE /\ k \in Pending /\ device # "gone" /\ disc'.ret = disc.ret
             /\ ~stopped \/ Served(k)
             /\ GiveBack(k, "noent")
    <3>1. /\ where[k] = "kernel" /\ where'[k] = "done"
          /\ result'[k] = "noent"
          /\ \A j \in Urbs \ {k} :
               where'[j] = where[j] /\ result'[j] = result[j]
      BY <2>5, <2>7, GiveBackFacts DEF Pending
    <3>2. CASE k # N
      <4>1. CASE LastComesLast
        BY <2>5, <2>7, <3>2, <4>1, GiveBackKeepsLast
      <4>2. CASE DiscardedByCancel
        <5>1. disc'.next < N
          BY <2>1, <2>3
        <5> QED
          BY <2>1, <2>3, <2>7, <3>1, <3>2, <4>2, <5>1 DEF DiscardedByCancel
      <4> QED
        BY <1>2, <1>3, <2>1, <4>1, <4>2
    <3>3. CASE k = N /\ lock = "cancel"
      <4>1. disc'.ret = "ok" /\ disc'.next < N
        BY <1>5, <2>1, <2>3, <2>7, <3>3
      <4> QED
        BY <2>1, <3>1, <3>3, <4>1 DEF DiscardedByCancel
    <3>4. CASE k = N /\ lock = "reap"
      <4>1. stopped
        BY <1>1, <1>3, <2>1, <2>7, <3>4 DEF TornDownIsStopped
      <4>2. Pending = {N}
        BY <2>3, <2>7, <3>4, <4>1 DEF Served, Pending, Urbs
      <4>3. LastComesLast
        BY <1>2, <1>3, <2>1, <3>4 DEF DiscardedByCancel
      <4> QED
        BY <2>5, <2>7, <4>2, <4>3, GiveBackKeepsLast
    <3> QED
      BY <2>4, <3>2, <3>3, <3>4
  <2> QED
    BY <2>2, <2>6, <2>7
<1>10. CASE CancelStep
  <2>1. UNCHANGED <<where, result, done>>
    BY <1>10, QuietFacts
  <2>2. CASE CancelStarts
    <3>1. lock = "free" /\ action' = action /\ phase = "submitted"
      BY <2>2 DEF CancelStarts, privVars
    <3> QED
      BY <1>2, <1>3, <1>4, <2>1, <3>1 DEF DiscardedByCancel
  <2>3. CASE CancelTooLate
    BY <1>3, <2>3 DEF CancelTooLate
  <2>4. CASE CancelEnds
    <3>1. /\ cancel' = disc.ret /\ phase' = phase
          /\ action' = IF disc.ret = "ok" /\ action # "ERROR"
                       THEN "CANCELLED" ELSE action
      BY <2>4 DEF CancelEnds
    <3>2. action = "NORMAL" /\ disc.ret # "ok"
      BY <1>3, <3>1
    <3>3. disc.ret # "nodevice"
      BY <3>1 DEF Ends, DiscardedLooksLast
    <3> QED
      BY <1>2, <1>3, <1>4, <2>1, <3>1, <3>2, <3>3 DEF DiscardedByCancel
  <2> QED
    BY <1>10, <2>2, <2>3, <2>4 DEF CancelStep
<1>11. ASSUME NEW i \in Urbs, ReapOne(i)
       PROVE  LastComesLast' \/ DiscardedByCancel'
  <2>1. /\ Len(done) > 0 /\ done[1] = i /\ Len(done') = Len(done) - 1
        /\ \A p \in 1..Len(done') : done'[p] = done[p + 1]
        /\ where[i] = "done" /\ where'[i] = "reaped"
        /\ \A j \in Urbs \ {i} : where'[j] = where[j]
        /\ result' = result /\ phase = "submitted" /\ lock = "free"
        /\ Len(done) \in Nat /\ N \in Urbs
    BY <1>11, ReapGoesOn, ReapFacts, LastUrb DEF Types
  <2>2. action = "NORMAL"
    BY <1>3, <1>11, ReapGoesOn
  <2>3. LastComesLast
    BY <1>2, <2>1, <2>2 DEF DiscardedByCancel
  <2>4. Pending' = Pending
    BY <2>1 DEF Pending
  <2>5. CASE i = N
    BY <2>1, <2>3, <2>4, <2>5 DEF LastComesLast
  <2>6. CASE i # N
    <3>1. where'[N] = where[N]
      BY <2>1, <2>6
    <3>2. ASSUME where[N] = "done", result[N] # "nodev"
          PROVE  Len(done') > 0 /\ done'[Len(done')] = N
      <4>1. done[Len(done)] = N
        BY <2>3, <3>2 DEF LastComesLast
      <4>2. Len(done) > 1
        BY <2>1, <2>6, <4>1
      <4> QED
        BY <2>1, <4>1, <4>2
    <3> QED
      BY <2>1, <2>3, <2>4, <3>1, <3>2 DEF LastComesLast
  <2> QED
    BY <2>5, <2>6
<1>12. CASE EndStep
  <2>1. UNCHANGED <<where, result, done>>
    BY <1>12, QuietFacts
  <2>2. lock = "reap" /\ UNCHANGED <<action, phase>>
    BY <1>3, <1>12 DEF EndStep, ReapEnds, Report, Disconnect, privVars
  <2> QED
    BY <1>2, <1>3, <1>4, <2>1, <2>2 DEF DiscardedByCancel
<1>13. CASE UNCHANGED vars
  <2>1. UNCHANGED <<where, result, done, action, phase, lock, disc>>
    BY <1>13 DEF vars, kernelVars, privVars, callVars
  <2> QED
    BY <1>2, <1>3, <1>4, <2>1 DEF DiscardedByCancel
<1> QED
  BY <1>6, <1>7, <1>8, <1>9, <1>10, <1>11, <1>12, <1>13, Steps

\* When num_retired reaches num_urbs, no URB is out.
LEMMA AllRetiredMeansBack ==
  ASSUME Types, NEW i \in Urbs, AllRetired, retired = Cardinality(Back),
         i \notin Back, \A j \in Urbs \ {i} : where'[j] = where[j],
         where'[i] = "reaped"
  PROVE  AllBack'
<1>1. Back \in SUBSET Urbs /\ IsFiniteSet(Back)
  BY UrbsAreN, FS_Subset DEF Back
<1>2. Cardinality(Back \cup {i}) = Cardinality(Back) + 1
  BY <1>1, FS_AddElement
<1>3. Cardinality(Urbs) = Cardinality(Back \cup {i})
  BY <1>2, UrbsAreN DEF AllRetired
<1>4. Urbs = Back \cup {i}
  <2>1. Back \cup {i} \in SUBSET Urbs
    BY <1>1
  <2> QED
    BY <1>3, <2>1, UrbsAreN, FS_Subset
<1> QED
  BY <1>4 DEF AllBack, Back

\* When the last URB is the only one in the list, no other URB is out.
LEMMA LastMeansBack ==
  ASSUME Types, DoneIsListed, SubmittedInOrder, LastComesLast,
         phase = "submitted", action = "NORMAL",
         Reap(N), result[N] # "nodev"
  PROVE  AllBack'
<1>1. /\ Len(done) > 0 /\ done[1] = N /\ where[N] = "done"
      /\ where'[N] = "reaped" /\ Len(done) \in Nat
      /\ \A j \in Urbs \ {N} : where'[j] = where[j]
  BY ReapFacts, LastUrb DEF Types
<1>2. Pending = {} /\ done[Len(done)] = N
  BY <1>1 DEF LastComesLast
<1>3. Len(done) = 1
  BY <1>1, <1>2 DEF DoneIsListed
<1>4. ASSUME NEW j \in Urbs \ {N} PROVE where[j] = "reaped"
  <2>1. where[j] # "done"
    BY <1>1, <1>3 DEF DoneIsListed
  <2>2. where[j] # "kernel" /\ where[j] # "unsent"
    BY <1>2 DEF Pending, SubmittedInOrder
  <2> QED
    BY <2>1, <2>2 DEF Types
<1> QED
  BY <1>1, <1>4 DEF AllBack

\* The URBs are freed only when they are back.
LEMMA FreedUrbsAreBackKept ==
  ASSUME IInv, [Next]_vars
  PROVE  FreedUrbsAreBack'
<1> USE DEF IInv
<1> SUFFICES ASSUME phase' = "finished", ~DiscardedLooksLast'
             PROVE  AllBack'
  BY DEF FreedUrbsAreBack
<1>1. ~DiscardedLooksLast
  BY LooksLastStays
<1>2. phase = "finished" => AllBack
  BY <1>1 DEF FreedUrbsAreBack
<1>3. phase = "finished" /\ UNCHANGED where => AllBack'
  BY <1>2 DEF AllBack
<1>4. phase = "finished" => Pending = {} /\ ~Discarding
  BY <1>2 DEF AllBack, Pending, LockIsHeld, Types
<1>5. CASE KernelStep
  BY <1>3, <1>4, <1>5, KernelFacts
<1>6. CASE SubmitOne
  <2>1. PICK i \in Urbs : SubmitEffect(i)
    BY <1>6, SubmitFacts
  <2> QED
    BY <2>1 DEF SubmitEffect, Submitting
<1>7. CASE DiscardOne
  BY <1>4, <1>7, DiscardFacts
<1>8. CASE SubmitEnds \/ CancelStep \/ EndStep \/ UNCHANGED vars
  <2>1. UNCHANGED where
    BY <1>8, QuietFacts
  <2>2. phase = "finished"
    BY <1>8 DEF SubmitEnds, CancelStep, CancelStarts, CancelTooLate, CancelEnds,
       EndStep, ReapEnds, Report, Disconnect, callVars, vars
  <2> QED
    BY <1>3, <2>1, <2>2
<1>9. ASSUME NEW i \in Urbs, ReapOne(i) PROVE AllBack'
  <2>1. /\ Reap(i) /\ ReapEffect(i) /\ phase = "submitted" /\ lock = "free"
        /\ where[i] = "done" /\ where'[i] = "reaped"
        /\ \A j \in Urbs \ {i} : where'[j] = where[j]
    BY <1>9, ReapGoesOn, ReapFacts
  <2>2. CASE AllRetired
    <3>1. retired = Cardinality(Back) /\ i \notin Back
      BY <2>1 DEF RetiredCounts, Back
    <3> QED
      BY <2>1, <2>2, <3>1, AllRetiredMeansBack
  <2>3. CASE action = "NORMAL" /\ i = N /\ result[i] # "nodev"
    <3>1. LastComesLast
      BY <1>1, <2>1, <2>3 DEF LastEnds, DiscardedByCancel
    <3> QED
      BY <2>1, <2>3, <3>1, LastMeansBack
  <2> QED
    BY <2>1, <2>2, <2>3 DEF ReapEffect, Unlock
<1> QED
  BY <1>5, <1>6, <1>7, <1>8, <1>9, Steps

\* The invariant holds at the start.
LEMMA InitIInv == Init => IInv
<1> SUFFICES ASSUME Init PROVE IInv
  OBVIOUS
<1> USE BulkAssumption DEF Init
<1>1. Types
  <2>1. disc \in [next : 0..N, first : 1..(N + 1), last : 0..N,
                 ret : {"ok", "notfound", "nodevice"}]
    BY DEF NoDisc
  <2>2. done \in Seq(Urbs)
    OBVIOUS
  <2>3. /\ where \in [Urbs -> {"unsent", "kernel", "done", "reaped"}]
        /\ result \in [Urbs -> Results \cup {"none"}]
    OBVIOUS
  <2> QED
    BY <2>1, <2>2, <2>3 DEF Types
<1>2. DoneIsListed /\ ResultIsLate /\ SubmittedInOrder /\ RetiredCounts
  BY DEF DoneIsListed, ResultIsLate, SubmittedInOrder, RetiredCounts
<1>3. LockIsHeld
  BY DEF LockIsHeld, Discarding, NoDisc
<1>4. LastEnds
  BY LastUrb DEF LastEnds, LastComesLast
<1>5. TornDownIsStopped /\ FreedUrbsAreBack
  BY DEF TornDownIsStopped, FreedUrbsAreBack
<1> QED
  BY <1>1, <1>2, <1>3, <1>4, <1>5 DEF IInv

\* The invariant is preserved.
LEMMA IInvKept ==
  ASSUME IInv, [Next]_vars
  PROVE  IInv'
<1>1. Types' /\ DoneIsListed' /\ ResultIsLate' /\ LockIsHeld'
  BY TypesKept, DoneIsListedKept, ResultIsLateKept, LockIsHeldKept DEF IInv
<1>2. SubmittedInOrder' /\ RetiredCounts' /\ TornDownIsStopped'
  BY SubmittedInOrderKept, RetiredCountsKept, TornDownIsStoppedKept DEF IInv
<1>3. LastEnds' /\ FreedUrbsAreBack'
  BY LastEndsKept, FreedUrbsAreBackKept DEF IInv
<1> QED
  BY <1>1, <1>2, <1>3 DEF IInv

-----------------------------------------------------------------------------
(* The bytes.                                                              *)

DataTypes ==
  /\ got \in [Urbs -> 0..L]
  /\ sent \in Nat /\ transferred \in Nat
  /\ buf \in [Offsets -> 0..(N * L)]

\* f[i] is the number of bytes that the first i URBs have received: a sum, of
\* which no more is needed than this.
SumsOf(f) ==
  /\ f[0] = 0 /\ f[N] = sent
  /\ \A i \in Urbs : f[i] = f[i - 1] + got[i] /\ f[i] <= i * L
  /\ \A a, b \in 0..N :
       a <= b =>
         /\ f[a] <= f[b]
         /\ (\A i \in Urbs : a < i /\ i <= b => got[i] = 0) => f[a] = f[b]
  /\ \A a \in 0..N : (\A i \in Urbs : i <= a => got[i] = L) => f[a] = a * L

\* What was reaped are the bytes of the first URBs.
Prefix(f, m) ==
  /\ transferred = f[m]
  /\ \A i \in Urbs : i <= m => where[i] = "reaped"
  /\ \A i \in Urbs : i > m /\ where[i] = "reaped" => got[i] = 0

\* An URB has its bytes where it was told to put them, until it is reaped; then
\* they are where they belong.
Placed(f) ==
  /\ \A i \in Urbs : where[i] # "reaped" =>
       \A k \in 1..got[i] : buf[(i - 1) * L + k] = f[i - 1] + k
  /\ \A o \in 1..transferred : buf[o] = o

Data(f) == SumsOf(f) /\ Placed(f) /\ \E m \in 0..N : Prefix(f, m)

\* URBs receive their bytes in their order, and are reaped in it, but for those
\* that have received none.
DataInOrder ==
  /\ \A i \in Urbs : where[i] = "unsent" => got[i] = 0
  /\ \A i, j \in Urbs :
       i < j /\ where[i] \in {"unsent", "kernel"} => got[j] = 0
  /\ \A i, j \in Urbs :
       i < j /\ where[i] # "reaped" /\ where[j] = "reaped" => got[j] = 0
  /\ \A p, q \in 1..Len(done) :
       p < q /\ done[p] > done[q] => got[done[p]] = 0

\* An URB that stalls, or whose device is gone, is the last that receives
\* anything, ...
HaltEnds ==
  \A i \in Urbs : result[i] \in {"nodev", "stall"} =>
    device # "on" /\ \A j \in Urbs : j > i => got[j] = 0

\* ... and so is one that is reaped short while reap_action stays NORMAL.
ShortEnds ==
  action = "NORMAL" =>
    \A i \in Urbs : where[i] = "reaped" /\ got[i] < L =>
      i = N \/ (device # "on" /\ \A j \in Urbs : j > i => got[j] = 0)

DataInv ==
  /\ DataTypes /\ DataInOrder /\ HaltEnds /\ ShortEnds
  /\ \E f \in [0..N -> Nat] : Data(f)

\* Places in the buffer.
LEMMA Places ==
  /\ \A i \in Nat : i * L \in Nat
  /\ \A i \in Urbs : i - 1 \in Nat /\ (i - 1) * L + L = i * L
  /\ \A i, j \in Nat : i <= j => i * L <= j * L
<1> USE BulkAssumption DEF Urbs
<1>1. \A i \in Nat : i * L \in Nat
  OBVIOUS
<1>2. ASSUME NEW i \in Urbs PROVE i - 1 \in Nat /\ (i - 1) * L + L = i * L
  OBVIOUS
<1>3. ASSUME NEW i \in Nat, NEW j \in Nat, i <= j PROVE i * L <= j * L
  <2>1. j - i \in Nat /\ (j - i) * L \in Nat
    BY <1>3
  <2>2. j * L = i * L + (j - i) * L
    BY <1>3
  <2> QED
    BY <1>1, <1>3, <2>1, <2>2
<1> QED
  BY <1>1, <1>2, <1>3

\* A byte comes for the first URB that is in the kernel; those behind it have
\* none.
LEMMA ReceiveFacts ==
  ASSUME Types, DataTypes, SubmittedInOrder, DataInOrder, NEW i \in Urbs,
         Receive(i)
  PROVE  /\ where[i] = "kernel" /\ got[i] \in Nat /\ got[i] < L
         /\ \A j \in Urbs : j < i => where[j] \notin {"unsent", "kernel"}
         /\ \A j \in Urbs : j > i => got[j] = 0
         /\ got' = [got EXCEPT ![i] = got[i] + 1]
         /\ sent' = sent + 1
         /\ buf' = [buf EXCEPT ![(i - 1) * L + got[i] + 1] = sent + 1]
         /\ device = "on"
         /\ UNCHANGED <<continuation, where, result, done, device, stopped,
                        privVars, callVars>>
<1>1. /\ Served(i) /\ device = "on" /\ got[i] < L
      /\ got' = [got EXCEPT ![i] = got[i] + 1]
      /\ sent' = sent + 1
      /\ buf' = [buf EXCEPT ![(i - 1) * L + got[i] + 1] = sent + 1]
      /\ UNCHANGED <<continuation, where, result, done, device, stopped,
                     privVars, callVars>>
  BY DEF Receive, Serving
<1>2. where[i] = "kernel" /\ \A j \in Pending : i <= j
  BY <1>1 DEF Served, Pending
<1>3. ASSUME NEW j \in Urbs, j < i PROVE where[j] \notin {"unsent", "kernel"}
  <2>1. ~(i <= j) /\ j <= i
    BY <1>3, BulkAssumption DEF Urbs
  <2>2. where[j] # "kernel"
    BY <1>2, <2>1 DEF Pending
  <2>3. where[j] # "unsent"
    BY <1>2, <2>1 DEF SubmittedInOrder
  <2> QED
    BY <2>2, <2>3
<1>4. ASSUME NEW j \in Urbs, j > i PROVE got[j] = 0
  BY <1>2, <1>4, BulkAssumption DEF DataInOrder, Urbs
<1> QED
  BY <1>1, <1>2, <1>3, <1>4 DEF DataTypes

\* A byte that comes counts in the sums from its URB on.
LEMMA ReceiveSums ==
  ASSUME Types, DataTypes, SubmittedInOrder, DataInOrder, NEW i \in Urbs,
         Receive(i), NEW f \in [0..N -> Nat], SumsOf(f),
         NEW g, g = [j \in 0..N |-> IF j >= i THEN f[j] + 1 ELSE f[j]]
  PROVE  g \in [0..N -> Nat] /\ SumsOf(g)'
<1>0. /\ i \in 1..N /\ N \in Nat /\ L \in Nat \ {0}
      /\ \A j \in 0..N : f[j] \in Nat
      /\ \A j \in Urbs : j \in 0..N /\ j - 1 \in 0..N
  BY BulkAssumption DEF Urbs
<1>1. /\ \A j \in 0..N : j < i => g[j] = f[j]
      /\ \A j \in 0..N : j >= i => g[j] = f[j] + 1
  BY <1>0
<1>2. g \in [0..N -> Nat]
  BY <1>0
<1>3. /\ got[i] < L /\ got[i] \in Nat /\ sent' = sent + 1
      /\ got'[i] = got[i] + 1
      /\ \A j \in Urbs \ {i} : got'[j] = got[j]
      /\ \A j \in Urbs : j > i => got[j] = 0
      /\ \A j \in Urbs : got[j] \in Nat
  BY ReceiveFacts DEF DataTypes
<1> HIDE DEF Urbs
<1>4. g[0] = 0 /\ g[N] = sent'
  BY <1>0, <1>1, <1>3 DEF SumsOf
<1>5. \A a \in 0..N : a >= i => f[a] = f[i]
  <2> SUFFICES ASSUME NEW a \in 0..N, a >= i PROVE f[a] = f[i]
    OBVIOUS
  <2>1. \A j \in Urbs : i < j /\ j <= a => got[j] = 0
    BY <1>0, <1>3 DEF Urbs
  <2> QED
    BY <1>0, <2>1 DEF SumsOf
<1>6. ASSUME NEW j \in Urbs PROVE g[j] = g[j - 1] + got'[j] /\ g[j] <= j * L
  <2>0. j \in 0..N /\ j - 1 \in 0..N /\ j \in Int /\ i \in Int
    BY <1>0 DEF Urbs
  <2> DEFINE P == (j - 1) * L
             Q == j * L
  <2>1. P \in Nat /\ Q \in Nat /\ P + L = Q
    BY <2>0, Places DEF Urbs
  <2>2. /\ f[j] = f[j - 1] + got[j] /\ f[j] <= Q
        /\ f[j] \in Nat /\ f[j - 1] \in Nat /\ got[j] \in Nat /\ L \in Nat
    BY <1>0, <1>3, <2>0 DEF SumsOf
  <2>3. f[j - 1] <= P
    <3>1. CASE j = 1
      BY <2>0, <2>1, <3>1 DEF SumsOf
    <3>2. CASE j # 1
      <4>1. j - 1 \in Urbs
        BY <1>0, <2>0, <3>2 DEF Urbs
      <4> QED
        BY <4>1 DEF SumsOf
    <3> QED
      BY <3>1, <3>2
  <2> HIDE DEF P, Q
  <2>4. CASE j < i
    <3>1. g[j] = f[j] /\ g[j - 1] = f[j - 1] /\ got'[j] = got[j]
      BY <1>1, <1>3, <2>0, <2>4
    <3> QED
      BY <2>2, <3>1 DEF Q
  <2>5. CASE j = i
    <3>1. g[j] = f[j] + 1 /\ g[j - 1] = f[j - 1] /\ got'[j] = got[j] + 1
          /\ got[j] < L
      BY <1>1, <1>3, <2>0, <2>5
    <3>2. g[j] = g[j - 1] + got'[j] /\ g[j] <= Q
      BY <2>1, <2>2, <2>3, <3>1
    <3> QED
      BY <3>2 DEF Q
  <2>6. CASE j > i
    <3>1. g[j] = f[j] + 1 /\ g[j - 1] = f[j - 1] + 1
      BY <1>1, <2>0, <2>6
    <3>2. got[j] = 0 /\ got'[j] = got[j]
      BY <1>3, <2>0, <2>6
    <3>3. g[j] <= Q
      <4>1. f[j - 1] + 1 <= Q
        BY <1>0, <2>1, <2>2, <2>3
      <4> QED
        BY <2>2, <3>1, <3>2, <4>1
    <3> QED
      BY <2>2, <3>1, <3>2, <3>3 DEF Q
  <2> QED
    BY <2>0, <2>4, <2>5, <2>6
<1>7. ASSUME NEW a \in 0..N, NEW b \in 0..N, a <= b
      PROVE  /\ g[a] <= g[b]
             /\ (\A j \in Urbs : a < j /\ j <= b => got'[j] = 0) => g[a] = g[b]
  <2>1. f[a] <= f[b]
    BY <1>7 DEF SumsOf
  <2>2. ASSUME \A j \in Urbs : a < j /\ j <= b => got'[j] = 0
        PROVE  f[a] = f[b] /\ ~(a < i /\ i <= b)
    <3>1. ~(a < i /\ i <= b)
      BY <1>3, <2>2
    <3>2. \A j \in Urbs : a < j /\ j <= b => got[j] = 0
      BY <1>3, <2>2, <3>1
    <3> QED
      BY <1>7, <3>1, <3>2 DEF SumsOf
  <2>3. f[a] \in Nat /\ f[b] \in Nat
    BY <1>0
  <2> QED
    BY <1>0, <1>1, <1>7, <2>1, <2>2, <2>3
<1>8. ASSUME NEW a \in 0..N, \A j \in Urbs : j <= a => got'[j] = L
      PROVE  g[a] = a * L
  <2>0. i \in Int /\ a \in Int
    BY <1>0
  <2>1. \A j \in Urbs : j <= a /\ j # i => got[j] = L
    BY <1>3, <1>8
  <2>2. CASE a < i
    <3>1. \A j \in Urbs : j <= a => got[j] = L
      BY <2>0, <2>1, <2>2 DEF Urbs
    <3>2. f[a] = a * L
      BY <3>1 DEF SumsOf
    <3> QED
      BY <1>1, <2>2, <3>2
  <2>3. CASE a = i
    <3>1. \A j \in Urbs : j <= i - 1 => got[j] = L
      BY <2>0, <2>1, <2>3 DEF Urbs
    <3>2. i - 1 \in 0..N
      BY <1>0
    <3>3. f[i - 1] = (i - 1) * L
      BY <3>1, <3>2 DEF SumsOf
    <3>4. g[a] = g[i - 1] + L
      <4>1. got'[i] = L
        BY <1>8, <2>0, <2>3
      <4> QED
        BY <1>6, <2>3, <4>1
    <3>5. g[i - 1] = f[i - 1]
      BY <1>1, <2>0, <3>2
    <3>6. (i - 1) * L + L = i * L
      BY Places
    <3> QED
      BY <2>3, <3>3, <3>4, <3>5, <3>6
  <2>4. CASE a > i
    <3>1. a \in Urbs /\ a # i
      BY <1>0, <2>0, <2>4 DEF Urbs
    <3>2. got'[a] = L /\ got'[a] = 0
      BY <1>3, <1>8, <2>0, <2>4, <3>1
    <3> QED
      BY <1>0, <3>2
  <2> QED
    BY <2>0, <2>2, <2>3, <2>4
<1> QED
  BY <1>2, <1>4, <1>6, <1>7, <1>8 DEF SumsOf

\* No sum exceeds what the URBs can hold.
LEMMA SumBound ==
  ASSUME NEW f \in [0..N -> Nat], SumsOf(f)
  PROVE  \A a \in 0..N : f[a] \in Nat /\ a * L \in Nat /\ f[a] <= a * L
<1> SUFFICES ASSUME NEW a \in 0..N
             PROVE  f[a] \in Nat /\ a * L \in Nat /\ f[a] <= a * L
  OBVIOUS
<1>1. f[a] \in Nat /\ a * L \in Nat
  BY Places
<1>2. CASE a = 0
  BY <1>1, <1>2 DEF SumsOf
<1>3. CASE a # 0
  BY <1>1, <1>3, BulkAssumption DEF SumsOf, Urbs
<1> QED
  BY <1>1, <1>2, <1>3

\* What URB i has received lies in its part of the buffer.
LEMMA Parts ==
  ASSUME NEW i \in Urbs, NEW k \in 1..L
  PROVE  /\ (i - 1) * L \in Nat /\ i * L \in Nat
         /\ (i - 1) * L + k \in Offsets
         /\ (i - 1) * L + k > (i - 1) * L /\ (i - 1) * L + k <= i * L
<1> DEFINE P == (i - 1) * L
           Q == i * L
           M == N * L
<1>1. i \in Nat /\ N \in Nat /\ i <= N
  BY BulkAssumption DEF Urbs
<1>2. P \in Nat /\ Q \in Nat /\ P + L = Q
  BY <1>1, Places
<1>3. Q <= M /\ M \in Nat
  BY <1>1, Places
<1>4. L \in Nat /\ k \in Nat /\ 1 <= k /\ k <= L
  BY BulkAssumption
<1> HIDE DEF P, Q, M
<1>5. P + k \in 1..M /\ P + k > P /\ P + k <= Q
  BY <1>2, <1>3, <1>4
<1> QED
  BY <1>2, <1>5 DEF P, Q, M, Offsets

\* A byte that comes is put where it belongs, behind what was reaped.
LEMMA ReceivePlaced ==
  ASSUME Types, DataTypes, SubmittedInOrder, DataInOrder, NEW i \in Urbs,
         Receive(i), NEW f \in [0..N -> Nat], Data(f),
         NEW g, g = [j \in 0..N |-> IF j >= i THEN f[j] + 1 ELSE f[j]]
  PROVE  Placed(g)' /\ \E m \in 0..N : Prefix(g, m)'
<1>0. /\ i \in 1..N /\ N \in Nat /\ L \in Nat \ {0} /\ i \in Int
      /\ i - 1 \in 0..N /\ i \in 0..N
  BY BulkAssumption DEF Urbs
<1>1. /\ where[i] = "kernel" /\ got[i] \in Nat /\ got[i] < L
      /\ \A j \in Urbs : j < i => where[j] \notin {"unsent", "kernel"}
      /\ \A j \in Urbs : j > i => got[j] = 0
      /\ got' = [got EXCEPT ![i] = got[i] + 1]
      /\ buf' = [buf EXCEPT ![(i - 1) * L + got[i] + 1] = sent + 1]
      /\ UNCHANGED <<where, transferred>>
  BY ReceiveFacts DEF privVars
<1>2. got'[i] = got[i] + 1 /\ \A j \in Urbs \ {i} : got'[j] = got[j]
  BY <1>1 DEF DataTypes
<1> DEFINE P == (i - 1) * L
<1>3. \A j \in 0..N : j < i => g[j] = f[j]
  BY <1>0
<1>4. P \in Nat /\ f[i - 1] \in Nat /\ f[i - 1] <= P
  BY <1>0, SumBound, Places DEF Data
<1>5. sent = f[i - 1] + got[i]
  <2>1. \A j \in Urbs : i < j /\ j <= N => got[j] = 0
    BY <1>0, <1>1 DEF Urbs
  <2>2. f[i] = f[N]
    BY <1>0, <2>1 DEF Data, SumsOf
  <2> QED
    BY <2>2 DEF Data, SumsOf
<1>6. \A o \in Offsets : o # P + got[i] + 1 => buf'[o] = buf[o]
  BY <1>1 DEF DataTypes
<1>7. P + got[i] + 1 \in Offsets
  <2>1. got[i] + 1 \in 1..L
    BY <1>0, <1>1, SMTT(60)
  <2>2. P + (got[i] + 1) \in Offsets
    BY <2>1, Parts
  <2> QED
    BY <1>1, <1>4, <2>2
<1>8. buf'[P + got[i] + 1] = sent + 1
  BY <1>1, <1>7 DEF DataTypes
<1>9. PICK m \in 0..N : Prefix(f, m)
  BY DEF Data
<1>10. m < i
  BY <1>0, <1>1, <1>9, SMTT(60) DEF Prefix
<1>11. Prefix(g, m)'
  <2>1. transferred' = g[m]
    BY <1>1, <1>3, <1>9, <1>10 DEF Prefix
  <2>2. \A j \in Urbs : where'[j] = "reaped" => got'[j] = got[j]
    BY <1>1, <1>2
  <2> QED
    BY <1>1, <1>9, <2>1, <2>2 DEF Prefix
<1>12. f[m] <= P /\ f[m] \in Nat
  <2>1. f[m] <= f[i - 1]
    BY <1>0, <1>10 DEF Data, SumsOf
  <2>2. f[m] \in Nat
    OBVIOUS
  <2> HIDE DEF P
  <2> QED
    BY <1>4, <2>1, <2>2
<1> HIDE DEF P
<1>13. ASSUME NEW o \in 1..transferred' PROVE buf'[o] = o
  <2>1. o \in 1..transferred /\ transferred <= P /\ transferred \in Nat
    BY <1>1, <1>9, <1>12 DEF Prefix
  <2>2. buf[o] = o
    BY <2>1 DEF Data, Placed
  <2>3. o # P + got[i] + 1 /\ o \in 1..P
    BY <1>1, <1>4, <2>1
  <2>4. o \in Offsets
    <3>1. P <= N * L /\ N * L \in Nat
      BY <1>0, Places DEF P
    <3> QED
      BY <1>4, <2>3, <3>1 DEF Offsets
  <2> QED
    BY <1>6, <2>2, <2>3, <2>4
<1>14. ASSUME NEW j \in Urbs, where'[j] # "reaped", NEW k \in 1..got'[j]
       PROVE  buf'[(j - 1) * L + k] = g[j - 1] + k
  <2>1. j \in Int /\ k \in Int /\ 1 <= k /\ got'[j] \in Nat /\ k <= got'[j]
        /\ j \in 1..N /\ j - 1 \in 0..N
    BY <1>0, <1>1, <1>2, <1>14, SMTT(60) DEF Urbs, DataTypes
  <2>2. j <= i
    BY <1>0, <1>1, <1>2, <2>1
  <2>3. g[j - 1] = f[j - 1]
    BY <1>3, <1>0, <2>1, <2>2
  <2>4. where[j] # "reaped"
    BY <1>1, <1>14
  <2>5. CASE j = i /\ k = got[i] + 1
    <3>1. (j - 1) * L = P
      BY <2>5 DEF P
    <3>2. P + k = P + got[i] + 1
      BY <1>1, <1>4, <2>5
    <3>3. buf'[P + k] = sent + 1
      BY <1>8, <3>2
    <3>4. sent + 1 = f[j - 1] + k
      BY <1>1, <1>4, <1>5, <2>5
    <3> QED
      BY <2>3, <3>1, <3>3, <3>4
  <2>6. CASE ~(j = i /\ k = got[i] + 1)
    <3>1. k \in 1..got[j] /\ got[j] \in 0..L
      BY <1>0, <1>1, <1>2, <2>1, <2>6 DEF DataTypes
    <3>2. buf[(j - 1) * L + k] = f[j - 1] + k
      BY <2>4, <3>1 DEF Data, Placed
    <3>3. k \in 1..L
      BY <1>0, <3>1
    <3> DEFINE R == (j - 1) * L
               S == j * L
    <3>4. R + k \in Offsets /\ R \in Nat /\ S \in Nat /\ R + k <= S
      BY <3>3, Parts
    <3>5. j < i => S <= P
      BY <1>0, <2>1, Places DEF P
    <3>6. j = i => R = P
      BY DEF P
    <3> HIDE DEF R, S
    <3>7. R + k # P + got[i] + 1
      BY <1>1, <1>4, <2>1, <2>2, <2>6, <3>4, <3>5, <3>6
    <3>8. buf'[R + k] = buf[R + k]
      BY <1>6, <3>4, <3>7
    <3> QED
      BY <2>3, <3>2, <3>8 DEF R
  <2> QED
    BY <2>5, <2>6
<1> QED
  BY <1>11, <1>13, <1>14 DEF Placed

\* So a byte that comes leaves the others in order.
LEMMA ReceiveKeeps ==
  ASSUME Types, DoneIsListed, SubmittedInOrder, DataInv, NEW i \in Urbs,
         Receive(i)
  PROVE  DataInv'
<1>0. DataTypes /\ DataInOrder /\ HaltEnds /\ ShortEnds
  BY DEF DataInv
<1>1. /\ where[i] = "kernel" /\ got[i] \in Nat /\ got[i] < L
      /\ \A j \in Urbs : j < i => where[j] \notin {"unsent", "kernel"}
      /\ \A j \in Urbs : j > i => got[j] = 0
      /\ got' = [got EXCEPT ![i] = got[i] + 1]
      /\ sent' = sent + 1 /\ device = "on"
      /\ buf' = [buf EXCEPT ![(i - 1) * L + got[i] + 1] = sent + 1]
      /\ UNCHANGED <<where, transferred, result, done, device, action>>
  BY <1>0, ReceiveFacts DEF privVars
<1>2. got'[i] = got[i] + 1 /\ \A j \in Urbs \ {i} : got'[j] = got[j]
  BY <1>0, <1>1 DEF DataTypes
<1>3. DataInOrder'
  <2>1. \A p \in 1..Len(done) : done[p] \in Urbs \ {i}
    BY <1>1 DEF Types, DoneIsListed
  <2>2. \A j, k \in Urbs : j < k /\ where[j] \in {"unsent", "kernel"} => k # i
    BY <1>1
  <2> QED
    BY <1>0, <1>1, <1>2, <2>1, <2>2 DEF DataInOrder
<1>4. HaltEnds' /\ ShortEnds'
  BY <1>0, <1>1, <1>2 DEF HaltEnds, ShortEnds
<1>5. PICK f \in [0..N -> Nat] : Data(f)
  BY DEF DataInv
<1>6. PICK g : g = [j \in 0..N |-> IF j >= i THEN f[j] + 1 ELSE f[j]]
  OBVIOUS
<1>7. g \in [0..N -> Nat] /\ SumsOf(g)'
  BY <1>0, <1>5, <1>6, ReceiveSums DEF Data
<1>8. Placed(g)' /\ \E m \in 0..N : Prefix(g, m)'
  BY <1>0, <1>5, <1>6, ReceivePlaced
<1>9. DataTypes'
  <2>1. sent + 1 \in 0..(N * L)
    <3>1. N \in Urbs /\ N * L \in Nat
      BY LastUrb, Places
    <3>2. g[N] = sent' /\ g[N] <= N * L
      BY <1>7, <3>1 DEF SumsOf
    <3> QED
      BY <1>0, <1>1, <3>1, <3>2 DEF DataTypes
  <2>2. buf' \in [Offsets -> 0..(N * L)]
    BY <1>0, <1>1, <2>1 DEF DataTypes
  <2>3. got' \in [Urbs -> 0..L]
    BY <1>0, <1>1, BulkAssumption DEF DataTypes
  <2> QED
    BY <1>0, <1>1, <2>2, <2>3 DEF DataTypes
<1> QED
  BY <1>3, <1>4, <1>7, <1>8, <1>9 DEF DataInv, Data

\* The kernel gives back an URB, or takes one.
LEMMA GiveBackKeeps ==
  ASSUME Types, DoneIsListed, ResultIsLate, SubmittedInOrder, DataInv,
         NEW i \in Pending, NEW r \in Results, GiveBack(i, r),
         UNCHANGED <<got, sent, buf, transferred, action>>,
         device' = device \/ device' # "on",
         r \in {"nodev", "stall"} => device' # "on"
  PROVE  DataInv'
<1>0. DataTypes /\ DataInOrder /\ HaltEnds /\ ShortEnds
      /\ i \in Urbs /\ where[i] = "kernel"
  BY DEF DataInv, Pending
<1>1. /\ done' \in Seq(Urbs) /\ Len(done) \in Nat
      /\ Len(done') = Len(done) + 1 /\ done'[Len(done) + 1] = i
      /\ where'[i] = "done" /\ result'[i] = r
      /\ \A j \in Urbs \ {i} : where'[j] = where[j] /\ result'[j] = result[j]
  BY GiveBackFacts DEF Types
<1>2. \A p \in 1..Len(done) : done'[p] = done[p] /\ done[p] \in Urbs
  BY DEF GiveBack, Types
<1>3. \A j \in Urbs : where'[j] = "reaped" <=> where[j] = "reaped"
  BY <1>0, <1>1
<1>4. \A j \in Urbs : where'[j] \in {"unsent", "kernel"} =>
        where'[j] = where[j]
  BY <1>1
<1>5. DataInOrder'
  <2>1. ASSUME NEW p \in 1..Len(done'), NEW q \in 1..Len(done'), p < q,
               done'[p] > done'[q]
        PROVE  got'[done'[p]] = 0
    <3>1. p \in 1..Len(done) /\ (q \in 1..Len(done) \/ q = Len(done) + 1)
      BY <1>1, <2>1
    <3>2. CASE q \in 1..Len(done)
      BY <1>0, <1>2, <2>1, <3>1, <3>2 DEF DataInOrder
    <3>3. CASE q = Len(done) + 1
      <4>1. done[p] \in Urbs /\ i < done[p] /\ done'[p] = done[p]
        BY <1>0, <1>1, <1>2, <2>1, <3>1, <3>3, BulkAssumption DEF Urbs
      <4> QED
        BY <1>0, <4>1 DEF DataInOrder
    <3> QED
      BY <3>1, <3>2, <3>3
  <2>2. \A j \in Urbs : where'[j] = "unsent" => got'[j] = 0
    BY <1>0, <1>4 DEF DataInOrder
  <2>3. \A j, k \in Urbs :
          j < k /\ where'[j] \in {"unsent", "kernel"} => got'[k] = 0
    BY <1>0, <1>4 DEF DataInOrder
  <2>4. \A j, k \in Urbs :
          j < k /\ where'[j] # "reaped" /\ where'[k] = "reaped" => got'[k] = 0
    BY <1>0, <1>3 DEF DataInOrder
  <2> QED
    BY <2>1, <2>2, <2>3, <2>4 DEF DataInOrder
<1>6. \A j \in Urbs : j > i => got[j] = 0
  BY <1>0, BulkAssumption DEF DataInOrder, Urbs
<1>7. HaltEnds'
  BY <1>0, <1>1, <1>6 DEF HaltEnds
<1>8. ShortEnds'
  BY <1>0, <1>3 DEF ShortEnds
<1>9. PICK f \in [0..N -> Nat] : Data(f)
  BY DEF DataInv
<1>10. Data(f)'
  <2>1. SumsOf(f)'
    BY <1>9 DEF Data, SumsOf
  <2>2. Placed(f)'
    BY <1>3, <1>9 DEF Data, Placed
  <2>3. PICK m \in 0..N : Prefix(f, m)
    BY <1>9 DEF Data
  <2>4. Prefix(f, m)'
    BY <1>3, <2>3 DEF Prefix
  <2> QED
    BY <2>1, <2>2, <2>4 DEF Data
<1> QED
  BY <1>0, <1>5, <1>7, <1>8, <1>10 DEF DataInv, DataTypes

\* An URB that is submitted has no bytes yet.
LEMMA SubmitKeeps ==
  ASSUME Types, DataInv, NEW i \in Urbs, where[i] = "unsent",
         where' = [where EXCEPT ![i] = "kernel"],
         UNCHANGED <<got, result, done, sent, device, buf, transferred, action>>
  PROVE  DataInv'
<1>0. DataTypes /\ DataInOrder /\ HaltEnds /\ ShortEnds
  BY DEF DataInv
<1>1. /\ where'[i] = "kernel"
      /\ \A j \in Urbs \ {i} : where'[j] = where[j]
  BY DEF Types
<1>2. \A j \in Urbs : where'[j] = "reaped" <=> where[j] = "reaped"
  BY <1>1
<1>3. \A j \in Urbs : where'[j] \in {"unsent", "kernel"} =>
        where[j] \in {"unsent", "kernel"}
  BY <1>1
<1>4. \A j \in Urbs : where'[j] = "unsent" => where[j] = "unsent"
  BY <1>1
<1>5. DataInOrder'
  BY <1>0, <1>2, <1>3, <1>4 DEF DataInOrder
<1>6. HaltEnds' /\ ShortEnds'
  BY <1>0, <1>2 DEF HaltEnds, ShortEnds
<1>7. PICK f \in [0..N -> Nat] : Data(f)
  BY DEF DataInv
<1>8. Data(f)'
  <2>1. SumsOf(f)'
    BY <1>7 DEF Data, SumsOf
  <2>2. Placed(f)'
    BY <1>2, <1>7 DEF Data, Placed
  <2>3. PICK m \in 0..N : Prefix(f, m)
    BY <1>7 DEF Data
  <2>4. Prefix(f, m)'
    BY <1>2, <2>3 DEF Prefix
  <2> QED
    BY <2>1, <2>2, <2>4 DEF Data
<1> QED
  BY <1>0, <1>5, <1>6, <1>8 DEF DataInv, DataTypes

\* Nothing happens to an URB.
LEMMA QuietKeeps ==
  ASSUME DataInv,
         UNCHANGED <<where, got, result, done, sent, buf, transferred>>,
         device' = device \/ device' # "on",
         action' = "NORMAL" => action = "NORMAL"
  PROVE  DataInv'
<1>0. DataTypes /\ DataInOrder /\ HaltEnds /\ ShortEnds
  BY DEF DataInv
<1>1. PICK f \in [0..N -> Nat] : Data(f)
  BY DEF DataInv
<1>2. Data(f)'
  <2>1. SumsOf(f)' /\ Placed(f)'
    BY <1>1 DEF Data, SumsOf, Placed
  <2>2. PICK m \in 0..N : Prefix(f, m)
    BY <1>1 DEF Data
  <2>3. Prefix(f, m)'
    BY <2>2 DEF Prefix
  <2> QED
    BY <2>1, <2>3 DEF Data
<1>3. DataInOrder'
  BY <1>0 DEF DataInOrder
<1>4. HaltEnds' /\ ShortEnds'
  BY <1>0 DEF HaltEnds, ShortEnds
<1> QED
  BY <1>0, <1>2, <1>3, <1>4 DEF DataInv, DataTypes

\* What reaping an URB does to its bytes.
LEMMA ReapBytes ==
  ASSUME Types, DataTypes, ResultIsLate, NEW i \in Urbs, ReapOne(i)
  PROVE  /\ Reap(i)
         /\ transferred' = transferred + got[i]
         /\ UNCHANGED <<got, sent, result, device>>
         /\ \/ action = "NORMAL" /\ buf' = buf
            \/ /\ action # "NORMAL" /\ action' = action
               /\ buf' = [o \in Offsets |->
                    IF o \in (transferred + 1)..(transferred + got[i])
                    THEN buf[(i - 1) * L + (o - transferred)] ELSE buf[o]]
         /\ action' = "NORMAL" /\ got[i] < L =>
              i = N \/ result[i] \in {"nodev", "stall"}
<1>1. CASE ReapAbnormal(i)
  BY <1>1 DEF ReapAbnormal, Reap
<1>2. CASE ReapGood(i)
  BY <1>2 DEF ReapGood, Reap
<1>3. CASE ReapStalled(i)
  BY <1>3 DEF ReapStalled, Reap
<1>4. CASE ReapOverflow(i)
  BY <1>4 DEF ReapOverflow, Reap, ResultIsLate
<1>5. CASE ReapError(i)
  BY <1>5 DEF ReapError, Reap
<1> QED
  BY <1>1, <1>2, <1>3, <1>4, <1>5 DEF ReapOne

\* The URBs before one that is reaped with bytes were reaped before.
LEMMA ReapedBefore ==
  ASSUME Types, DoneIsListed, DataTypes, DataInOrder, NEW i \in Urbs, Reap(i),
         got[i] # 0, NEW j \in Urbs, j < i
  PROVE  where[j] = "reaped"
<1>1. /\ Len(done) \in Nat /\ Len(done) > 0 /\ done[1] = i
      /\ where[i] = "done"
  BY ReapFacts DEF Types
<1>2. where[j] \notin {"unsent", "kernel"}
  BY DEF DataInOrder
<1>3. where[j] # "done"
  <2> SUFFICES ASSUME where[j] = "done" PROVE FALSE
    OBVIOUS
  <2>1. PICK q \in 1..Len(done) : done[q] = j
    BY DEF DoneIsListed
  <2>2. j # i /\ i > j
    BY BulkAssumption DEF Urbs
  <2>3. 1 \in 1..Len(done) /\ 1 < q
    BY <1>1, <2>1, <2>2
  <2> QED
    BY <1>1, <2>1, <2>2, <2>3 DEF DataInOrder
<1> QED
  BY <1>2, <1>3 DEF Types

\* Reaping keeps the order.
LEMMA ReapOrder ==
  ASSUME Types, DoneIsListed, DataTypes, DataInOrder, NEW i \in Urbs, Reap(i)
  PROVE  DataInOrder'
<1>1. /\ Len(done) \in Nat /\ Len(done') = Len(done) - 1
      /\ \A p \in 1..Len(done') : done'[p] = done[p + 1]
      /\ where[i] = "done" /\ where'[i] = "reaped"
      /\ \A j \in Urbs \ {i} : where'[j] = where[j]
      /\ got' = got
  <2>1. got' = got
    BY DEF Reap
  <2>2. Len(done) \in Nat
    BY DEF Types
  <2> QED
    BY <2>1, <2>2, ReapFacts
<1>2. \A j \in Urbs : where'[j] \in {"unsent", "kernel"} =>
        where[j] = where'[j]
  BY <1>1
<1>3. \A j, k \in Urbs :
        j < k /\ where'[j] # "reaped" /\ where'[k] = "reaped" => got[k] = 0
  <2> SUFFICES ASSUME NEW j \in Urbs, NEW k \in Urbs, j < k,
                      where'[j] # "reaped", where'[k] = "reaped", got[k] # 0
               PROVE  FALSE
    OBVIOUS
  <2>1. j # i /\ where[j] # "reaped"
    BY <1>1
  <2>2. CASE k = i
    BY <2>1, <2>2, ReapedBefore
  <2>3. CASE k # i
    BY <1>1, <2>1, <2>3 DEF DataInOrder
  <2> QED
    BY <2>2, <2>3
<1>4. ASSUME NEW p \in 1..Len(done'), NEW q \in 1..Len(done'), p < q,
             done'[p] > done'[q]
      PROVE  got[done'[p]] = 0
  <2>1. p + 1 \in 1..Len(done) /\ q + 1 \in 1..Len(done) /\ p + 1 < q + 1
    BY <1>1, <1>4
  <2> QED
    BY <1>1, <1>4, <2>1 DEF DataInOrder
<1> QED
  BY <1>1, <1>2, <1>3, <1>4 DEF DataInOrder

\* An URB with bytes is reaped when everything before it has been.
LEMMA ReapPrefix ==
  ASSUME Types, DoneIsListed, DataTypes, DataInOrder, NEW i \in Urbs, Reap(i),
         got[i] # 0, NEW f \in [0..N -> Nat], Data(f)
  PROVE  transferred = f[i - 1] /\ Prefix(f, i)'
<1>0. /\ i \in 1..N /\ N \in Nat /\ i - 1 \in 0..N /\ i \in 0..N
      /\ got[i] \in Nat
  BY BulkAssumption DEF Urbs, DataTypes
<1>1. /\ where[i] = "done" /\ where'[i] = "reaped"
      /\ \A j \in Urbs \ {i} : where'[j] = where[j]
      /\ got' = got /\ transferred' = transferred + got[i]
  BY ReapFacts DEF Reap
<1>2. PICK m \in 0..N : Prefix(f, m)
  BY DEF Data
<1>3. m < i
  BY <1>0, <1>1, <1>2 DEF Prefix
<1>4. \A j \in Urbs : j < i => where[j] = "reaped"
  BY ReapedBefore
<1>5. \A j \in Urbs : m < j /\ j <= i - 1 => got[j] = 0
  BY <1>0, <1>2, <1>4 DEF Prefix, Urbs
<1>6. f[m] = f[i - 1]
  <2>1. m <= i - 1
    BY <1>0, <1>3
  <2> QED
    BY <1>0, <1>5, <2>1 DEF Data, SumsOf
<1>7. transferred = f[i - 1]
  BY <1>2, <1>6 DEF Prefix
<1>8. transferred' = f[i]
  BY <1>1, <1>7 DEF Data, SumsOf
<1>9. \A j \in Urbs : j <= i => where'[j] = "reaped"
  BY <1>0, <1>1, <1>4 DEF Urbs
<1>10. \A j \in Urbs : j > i /\ where'[j] = "reaped" => got'[j] = 0
  BY <1>0, <1>1, <1>2, <1>3, SMTT(60) DEF Prefix, Urbs
<1> QED
  BY <1>7, <1>8, <1>9, <1>10 DEF Prefix

\* Reaping puts the bytes of an URB behind those reaped before.
LEMMA ReapPlaced ==
  ASSUME Types, DoneIsListed, ResultIsLate, DataTypes, DataInOrder, ShortEnds,
         NEW i \in Urbs, ReapOne(i), got[i] # 0, NEW f \in [0..N -> Nat],
         Data(f)
  PROVE  Placed(f)' /\ buf' \in [Offsets -> 0..(N * L)]
<1>0. /\ i \in 1..N /\ N \in Nat /\ L \in Nat /\ i - 1 \in 0..N
      /\ got[i] \in 0..L /\ got[i] \in Nat
  BY BulkAssumption DEF Urbs, DataTypes
<1>1. /\ Reap(i) /\ transferred' = transferred + got[i] /\ got' = got
      /\ \/ action = "NORMAL" /\ buf' = buf
         \/ /\ action # "NORMAL"
            /\ buf' = [o \in Offsets |->
                 IF o \in (transferred + 1)..(transferred + got[i])
                 THEN buf[(i - 1) * L + (o - transferred)] ELSE buf[o]]
  BY ReapBytes
<1>2. /\ where[i] = "done" /\ where'[i] = "reaped"
      /\ \A j \in Urbs \ {i} : where'[j] = where[j]
  BY <1>1, ReapFacts
<1>3. transferred = f[i - 1] /\ transferred \in Nat
  BY <1>1, ReapPrefix DEF DataTypes
<1>4. \A j \in Urbs : j < i => where[j] = "reaped"
  BY <1>1, ReapedBefore
<1> DEFINE P == (i - 1) * L
           Q == i * L
           M == N * L
<1>5. P \in Nat /\ Q \in Nat /\ M \in Nat /\ P + L = Q /\ Q <= M
  BY <1>0, Places
<1>6. transferred <= P
  BY <1>0, <1>3, SumBound DEF Data
<1>7. action = "NORMAL" => transferred = P
  <2> SUFFICES ASSUME action = "NORMAL" PROVE transferred = P
    OBVIOUS
  <2>1. ASSUME NEW j \in Urbs, j <= i - 1 PROVE got[j] = L
    <3>1. j < i /\ j # N /\ i > j
      BY <1>0, <2>1 DEF Urbs
    <3>2. ~(got[j] < L)
      BY <1>4, <3>1 DEF ShortEnds
    <3>3. got[j] \in 0..L
      BY DEF DataTypes
    <3> QED
      BY <1>0, <3>2, <3>3
  <2>2. f[i - 1] = (i - 1) * L
    BY <1>0, <2>1 DEF Data, SumsOf
  <2> QED
    BY <1>3, <2>2
<1>8. ASSUME NEW o \in Offsets,
             o \notin (transferred + 1)..(transferred + got[i])
      PROVE  buf'[o] = buf[o]
  BY <1>1, <1>8
<1>9. \A k \in 1..got[i] : buf[P + k] = f[i - 1] + k /\ P + k \in Offsets
  <2>1. \A k \in 1..got[i] : k \in 1..L
    BY <1>0
  <2> QED
    BY <1>2, <2>1, Parts DEF Data, Placed
<1>10. Offsets = 1..M
  BY DEF Offsets
<1> HIDE DEF P, Q, M
<1>11. ASSUME NEW o \in 1..transferred' PROVE buf'[o] = o
  <2>1. o \in 1..transferred \/ o - transferred \in 1..got[i]
    BY <1>0, <1>1, <1>3, <1>11
  <2>2. o \in Offsets
    BY <1>0, <1>1, <1>3, <1>5, <1>6, <1>10, <1>11
  <2>3. CASE o \in 1..transferred
    <3>1. o \notin (transferred + 1)..(transferred + got[i])
      BY <1>0, <1>3, <2>3
    <3>2. buf[o] = o
      BY <2>3 DEF Data, Placed
    <3> QED
      BY <1>8, <2>2, <3>1, <3>2
  <2>4. CASE o - transferred \in 1..got[i]
    <3>1. buf[P + (o - transferred)] = f[i - 1] + (o - transferred)
      BY <1>9, <2>4
    <3>2. f[i - 1] + (o - transferred) = o
      BY <1>0, <1>1, <1>3, <1>11
    <3>3. CASE action = "NORMAL"
      <4>1. P + (o - transferred) = o
        BY <1>0, <1>1, <1>3, <1>7, <1>11, <3>3
      <4> QED
        BY <1>1, <3>1, <3>2, <3>3, <4>1
    <3>4. CASE action # "NORMAL"
      <4>1. o \in (transferred + 1)..(transferred + got[i])
        BY <1>0, <1>1, <1>3, <1>11, <2>4
      <4>2. buf'[o] = buf[P + (o - transferred)]
        BY <1>1, <2>2, <3>4, <4>1 DEF P
      <4> QED
        BY <3>1, <3>2, <4>2
    <3> QED
      BY <3>3, <3>4
  <2> QED
    BY <2>1, <2>3, <2>4
<1>12. ASSUME NEW j \in Urbs, where'[j] # "reaped", NEW k \in 1..got'[j]
       PROVE  buf'[(j - 1) * L + k] = f[j - 1] + k
  <2>1. j > i /\ where[j] # "reaped" /\ k \in 1..got[j] /\ k \in 1..L
    <3>1. j # i /\ where[j] # "reaped" /\ k \in 1..got[j] /\ ~(j < i)
      BY <1>1, <1>2, <1>4, <1>12
    <3>2. k \in 1..L
      BY <1>0, <3>1 DEF DataTypes
    <3> QED
      BY <1>0, <3>1, <3>2 DEF Urbs
  <2>2. buf[(j - 1) * L + k] = f[j - 1] + k
    BY <2>1 DEF Data, Placed
  <2> DEFINE R == (j - 1) * L
  <2>3. R + k \in Offsets /\ R \in Nat /\ R + k > R
    BY <2>1, Parts
  <2>4. Q <= R
    <3>1. i <= j - 1 /\ i \in Nat /\ j - 1 \in Nat
      BY <1>0, <2>1 DEF Urbs
    <3> QED
      BY <3>1, Places DEF Q
  <2> HIDE DEF R
  <2>5. R + k \notin (transferred + 1)..(transferred + got[i])
    BY <1>0, <1>3, <1>5, <1>6, <2>1, <2>3, <2>4
  <2>6. buf'[R + k] = buf[R + k]
    BY <1>8, <2>3, <2>5
  <2> QED
    BY <2>2, <2>6 DEF R
<1>13. buf' \in [Offsets -> 0..(N * L)]
  <2>1. \A o \in (transferred + 1)..(transferred + got[i]) :
          buf[P + (o - transferred)] \in 0..(N * L)
    <3>1. \A o \in (transferred + 1)..(transferred + got[i]) :
            o - transferred \in 1..got[i]
      BY <1>0, <1>3
    <3> QED
      BY <1>9, <3>1 DEF DataTypes
  <2>2. buf \in [Offsets -> 0..(N * L)]
    BY DEF DataTypes
  <2> QED
    BY <1>1, <2>1, <2>2 DEF P
<1> QED
  BY <1>11, <1>12, <1>13 DEF Placed

\* The event handler reaps an URB.
LEMMA ReapKeeps ==
  ASSUME Types, DoneIsListed, ResultIsLate, DataInv, NEW i \in Urbs, ReapOne(i)
  PROVE  DataInv'
<1>0. DataTypes /\ DataInOrder /\ HaltEnds /\ ShortEnds
  BY DEF DataInv
<1>1. /\ Reap(i) /\ transferred' = transferred + got[i]
      /\ UNCHANGED <<got, sent, result, device>>
      /\ action' = "NORMAL" =>
           /\ action = "NORMAL"
           /\ got[i] < L => i = N \/ result[i] \in {"nodev", "stall"}
  BY <1>0, ReapBytes
<1>2. /\ where[i] = "done" /\ where'[i] = "reaped"
      /\ \A j \in Urbs \ {i} : where'[j] = where[j]
  BY <1>1, ReapFacts
<1>3. DataInOrder'
  BY <1>0, <1>1, ReapOrder
<1>4. HaltEnds'
  BY <1>0, <1>1 DEF HaltEnds
<1>5. ShortEnds'
  <2> SUFFICES ASSUME action' = "NORMAL", NEW j \in Urbs, where'[j] = "reaped",
                      got'[j] < L, j # N
               PROVE  /\ device' # "on"
                      /\ \A k \in Urbs : k > j => got'[k] = 0
    BY DEF ShortEnds
  <2>1. CASE j = i
    BY <1>0, <1>1, <2>1 DEF HaltEnds
  <2>2. CASE j # i
    BY <1>0, <1>1, <1>2, <2>2 DEF ShortEnds
  <2> QED
    BY <2>1, <2>2
<1>6. PICK f \in [0..N -> Nat] : Data(f)
  BY DEF DataInv
<1>7. SumsOf(f)'
  BY <1>1, <1>6 DEF Data, SumsOf
<1>8. /\ Placed(f)' /\ buf' \in [Offsets -> 0..(N * L)]
      /\ \E m \in 0..N : Prefix(f, m)'
  <2>1. CASE got[i] # 0
    <3>1. i \in 0..N
      BY BulkAssumption DEF Urbs
    <3>2. Prefix(f, i)'
      BY <1>0, <1>1, <1>6, <2>1, ReapPrefix
    <3> QED
      BY <1>0, <1>6, <2>1, <3>1, <3>2, ReapPlaced
  <2>2. CASE got[i] = 0
    <3>1. transferred' = transferred /\ transferred \in Nat
      BY <1>0, <1>1, <2>2 DEF DataTypes
    <3>2. buf' = buf
      <4>1. (transferred + 1)..(transferred + got[i]) = {}
        BY <2>2, <3>1
      <4> QED
        BY <1>0, <4>1, ReapBytes DEF DataTypes
    <3>3. Placed(f)'
      BY <1>1, <1>2, <1>6, <3>1, <3>2 DEF Data, Placed
    <3>4. PICK m \in 0..N : Prefix(f, m)
      BY <1>6 DEF Data
    <3>5. Prefix(f, m)'
      BY <1>1, <1>2, <2>2, <3>1, <3>4 DEF Prefix
    <3> QED
      BY <1>0, <3>2, <3>3, <3>5 DEF DataTypes
  <2> QED
    BY <2>1, <2>2
<1>9. DataTypes'
  BY <1>0, <1>1, <1>8 DEF DataTypes
<1> QED
  BY <1>3, <1>4, <1>5, <1>7, <1>8, <1>9 DEF DataInv, Data

\* The bytes of a transfer stay in order, whatever happens.
LEMMA DataKept ==
  ASSUME Types, DoneIsListed, ResultIsLate, LockIsHeld, SubmittedInOrder,
         DataInv, [Next]_vars
  PROVE  DataInv'
<1>0. HaltEnds
  BY DEF DataInv
<1>1. ASSUME NEW i \in Pending, NEW r \in Results \ {"nodev", "stall"},
             GiveBack(i, r),
             UNCHANGED <<got, sent, buf, transferred, action, device>>
      PROVE  DataInv'
  BY <1>1, GiveBackKeeps
<1>2. ASSUME NEW i \in Urbs, Served(i) PROVE i \in Pending
  BY <1>2 DEF Served
<1>3. ASSUME NEW i \in Urbs, Dongle(i) PROVE DataInv'
  <2>1. CASE Receive(i)
    BY <2>1, ReceiveKeeps
  <2>2. CASE CompleteFull(i)
    BY <1>1, <1>2, <2>2 DEF CompleteFull, Serving, Results, privVars
  <2>3. CASE CompleteShort(i)
    <3>1. /\ UNCHANGED <<got, sent, buf, transferred, action, device>>
          /\ GiveBack(i, "remoteio") \/ GiveBack(i, "ok")
          /\ i \in Pending
      BY <1>2, <2>3 DEF CompleteShort, Serving, privVars
    <3> QED
      BY <1>1, <3>1 DEF Results
  <2>4. CASE CompleteFailed(i)
    <3>1. /\ UNCHANGED <<got, sent, buf, transferred, action>> /\ i \in Pending
          /\ \/ GiveBack(i, "proto") /\ UNCHANGED device
             \/ GiveBack(i, "overflow") /\ UNCHANGED device
             \/ GiveBack(i, "stall") /\ device' = "halted"
      BY <1>2, <2>4 DEF CompleteFailed, Serving, privVars
    <3> QED
      BY <1>1, <3>1, GiveBackKeeps DEF Results
  <2> QED
    BY <1>3, <2>1, <2>2, <2>3, <2>4 DEF Dongle
<1>4. ASSUME NEW i \in Urbs, KernelGivesBack(i) PROVE DataInv'
  <2>1. CASE GiveBackRest(i)
    BY <1>1, <1>2, <2>1 DEF GiveBackRest, Results, privVars
  <2>2. CASE CompleteGone(i)
    <3>1. /\ UNCHANGED <<got, sent, buf, transferred, action, device>>
          /\ GiveBack(i, "nodev") /\ i \in Pending /\ device = "gone"
      BY <2>2 DEF CompleteGone, privVars
    <3> QED
      BY <3>1, GiveBackKeeps DEF Results
  <2> QED
    BY <1>4, <2>1, <2>2 DEF KernelGivesBack
<1>5. CASE Unplug
  BY <1>5, QuietKeeps DEF Unplug, privVars
<1>6. CASE DiscardOne
  <2>1. /\ UNCHANGED <<got, sent, buf, transferred, action, device>>
        /\ \/ UNCHANGED <<where, result, done>>
           \/ disc.next \in Pending /\ GiveBack(disc.next, "noent")
    BY <1>6 DEF DiscardOne, privVars
  <2> QED
    BY <1>1, <2>1, QuietKeeps DEF Results
<1>7. CASE SubmitOne
  <2>1. ASSUME NEW i \in Urbs, SubmitUrb(i) PROVE DataInv'
    BY <2>1, SubmitKeeps DEF SubmitUrb, Submitting, privVars
  <2>2. ASSUME NEW i \in Urbs, SubmitRefused(i) \/ LaterUrbFails(i)
        PROVE  DataInv'
    BY <2>2, QuietKeeps DEF SubmitRefused, LaterUrbFails, kernelVars
  <2>3. CASE FirstUrbFails
    BY <2>3, QuietKeeps DEF FirstUrbFails, kernelVars, privVars
  <2> QED
    BY <1>7, <2>1, <2>2, <2>3 DEF SubmitOne
<1>8. CASE SubmitEnds \/ CancelStep \/ EndStep \/ UNCHANGED vars
  <2>1. UNCHANGED <<where, got, result, done, sent, buf, transferred, device>>
    BY <1>8 DEF SubmitEnds, CancelStep, CancelStarts, CancelTooLate, CancelEnds,
       EndStep, ReapEnds, Report, Disconnect, kernelVars, privVars, vars
  <2>2. action' = "NORMAL" => action = "NORMAL"
    BY <1>8 DEF SubmitEnds, CancelStep, CancelStarts, CancelTooLate, CancelEnds,
       EndStep, ReapEnds, Report, Disconnect, privVars, vars
  <2> QED
    BY <2>1, <2>2, QuietKeeps
<1>9. ASSUME NEW i \in Urbs, ReapOne(i) PROVE DataInv'
  BY <1>9, ReapKeeps
<1> QED
  BY <1>3, <1>4, <1>5, <1>6, <1>7, <1>8, <1>9, Steps DEF KernelStep

\* At the start there are no bytes.
LEMMA DataInit == Init => DataInv
<1> SUFFICES ASSUME Init PROVE DataInv
  OBVIOUS
<1>0. N \in Nat /\ L \in Nat /\ 0 \in 0..N /\ N * L \in Nat
  BY BulkAssumption, Places
<1>1. /\ got = [i \in Urbs |-> 0] /\ sent = 0 /\ transferred = 0
      /\ buf = [o \in Offsets |-> 0] /\ where = [i \in Urbs |-> "unsent"]
      /\ result = [i \in Urbs |-> "none"] /\ done = <<>>
  BY DEF Init
<1>2. DataTypes
  BY <1>0, <1>1 DEF DataTypes
<1>3. DataInOrder /\ HaltEnds /\ ShortEnds
  BY <1>1 DEF DataInOrder, HaltEnds, ShortEnds
<1>4. PICK f : f = [a \in 0..N |-> 0]
  OBVIOUS
<1>5. f \in [0..N -> Nat] /\ \A a \in 0..N : f[a] = 0
  BY <1>4
<1>6. SumsOf(f)
  <2>1. \A i \in Urbs :
          i \in 0..N /\ i - 1 \in 0..N /\ got[i] = 0 /\ i * L \in Nat
    BY <1>0, <1>1, Places DEF Urbs
  <2>2. ASSUME NEW a \in 0..N, \A i \in Urbs : i <= a => got[i] = L
        PROVE  f[a] = a * L
    <3>1. CASE a = 0
      BY <1>0, <1>5, <3>1
    <3>2. CASE a # 0
      <4>1. 1 \in Urbs /\ 1 <= a
        BY <3>2, LastUrb DEF Urbs
      <4>2. got[1] = L /\ got[1] = 0
        BY <2>1, <2>2, <4>1
      <4> QED
        BY <4>2, BulkAssumption
    <3> QED
      BY <3>1, <3>2
  <2> QED
    BY <1>0, <1>1, <1>5, <2>1, <2>2 DEF SumsOf
<1>7. Placed(f)
  BY <1>1 DEF Placed
<1>8. Prefix(f, 0)
  BY <1>0, <1>1, <1>5 DEF Prefix, Urbs
<1> QED
  BY <1>0, <1>2, <1>3, <1>5, <1>6, <1>7, <1>8 DEF DataInv, Data

-----------------------------------------------------------------------------
(* The words.                                                              *)

\* What the transfer has to say of itself, and says.
WordTypes ==
  /\ status \in Statuses
  /\ report \in Statuses \cup {"CANCELLED", "none"}

\* The dongle ended an URB early.
EndedEarly ==
  \E i \in Urbs : \/ result[i] \in {"proto", "stall"}
                  \/ result[i] \in {"ok", "remoteio"} /\ got[i] < L

\* Once the last URB was served, no URB is left to serve.
LastServed ==
  /\ \A i \in Urbs : where[i] \in {"done", "reaped"} => result[i] # "none"
  /\ result[N] \notin {"none", "noent", "nodev"} =>
       \A i \in Urbs : where[i] \notin {"unsent", "kernel"}

\* The kernel gives the rest back only behind an URB that the dongle ended
\* early, or behind the last one.
StoppedEarly ==
  /\ stopped => EndedEarly \/ result[N] = "overflow"
  /\ (\E i \in Urbs : result[i] = "connreset") => EndedEarly

\* While the transfer looks normal, nothing of it was discarded, but for what a
\* cancellation is discarding now and will tell.
DiscardedIsTold ==
  /\ (\E i \in Urbs : result[i] = "noent") /\ action = "NORMAL"
     /\ status = "COMPLETED" =>
       \/ cancel = "nodevice"
       \/ lock = "cancel" /\ disc.ret # "notfound" /\ disc.next < N
  /\ lock = "cancel" /\ disc.ret = "notfound" /\ action = "NORMAL"
     /\ status = "COMPLETED" => Pending = {}
  /\ lock = "reap" /\ action = "NORMAL" => status # "COMPLETED"

\* A transfer that was completed early was ended early by the dongle, and one
\* that looks normal has been full so far.
ShortIsTold ==
  /\ action = "COMPLETED_EARLY" /\ status = "COMPLETED" =>
       EndedEarly \/ cancel = "nodevice"
  /\ action = "NORMAL" /\ status = "COMPLETED" =>
       \A i \in Urbs : i < N /\ where[i] = "reaped" => got[i] = L

\* What is told to be complete is.
WholeOrEarly == cancel = "nodevice" \/ transferred = N * L \/ EndedEarly
CompletedIsTrue ==
  /\ phase = "finished" /\ action # "CANCELLED" /\ status = "COMPLETED" =>
       WholeOrEarly
  /\ report = "COMPLETED" => WholeOrEarly

\* After a stall no URB fails with another error.
StallIsLast ==
  /\ \A p, q \in 1..Len(done) :
       p < q /\ result[done[p]] = "stall" => result[done[q]] # "proto"
  /\ status = "STALL" =>
       device # "on" /\ \A i \in Urbs : where[i] = "done" => result[i] # "proto"

\* A cancellation that was told to begin is reported, or an error instead.
CancelIsTold ==
  /\ action = "CANCELLED" => cancel = "ok"
  /\ cancel = "ok" => action \in {"CANCELLED", "ERROR"}
  /\ cancel \in {"ok", "notfound", "nodevice"} =>
       phase \notin {"submitting", "refused"}
  /\ action = "ERROR" => status \in {"ERROR", "NO_DEVICE"}
  /\ status = "OVERFLOW" => phase \notin {"submitting", "submitted"}
  /\ phase # "reported" => report = "none"
  /\ phase = "submitting" => status = "COMPLETED"
  /\ report = "CANCELLED" => cancel = "ok"
  /\ report # "none" /\ cancel = "ok" =>
       report \in {"CANCELLED", "ERROR", "NO_DEVICE"}

WordInv ==
  /\ WordTypes /\ LastServed /\ StoppedEarly /\ DiscardedIsTold /\ ShortIsTold
  /\ CompletedIsTrue /\ StallIsLast /\ CancelIsTold
  /\ (phase = "refused" => retired = 0)

\* The whole inductive invariant: the URBs, the bytes and the words.
FullInv == IInv /\ DataInv /\ WordInv

\* The facts that the steps below start from.
LEMMA WordFacts ==
  ASSUME FullInv
  PROVE  /\ Types /\ DoneIsListed /\ ResultIsLate /\ LockIsHeld
         /\ SubmittedInOrder /\ TornDownIsStopped
         /\ DataTypes /\ DataInOrder /\ HaltEnds
         /\ WordTypes /\ LastServed /\ StoppedEarly /\ DiscardedIsTold
         /\ ShortIsTold /\ CompletedIsTrue /\ StallIsLast /\ CancelIsTold
         /\ phase = "refused" => retired = 0
BY DEF FullInv, IInv, DataInv, WordInv

\* Only the event handler changes the words, and the kernel gives back URBs.
LEMMA KernelWords ==
  ASSUME KernelStep
  PROVE  /\ UNCHANGED <<status, report, cancel, transferred, action, lock, disc,
                        phase, retired>>
         /\ \/ /\ UNCHANGED <<where, result, done, stopped>>
               /\ \/ got' = got
                  \/ \E i \in Urbs : Receive(i)
            \/ \E i \in Urbs :
                 \/ CompleteFull(i) \/ CompleteShort(i) \/ CompleteFailed(i)
                 \/ GiveBackRest(i) \/ CompleteGone(i)
<1> USE DEF privVars, callVars
<1>1. CASE Unplug
  BY <1>1 DEF Unplug
<1>2. ASSUME NEW i \in Urbs, Receive(i)
      PROVE  /\ UNCHANGED <<status, report, cancel, transferred, action, lock,
                            disc, phase, retired>>
             /\ UNCHANGED <<where, result, done, stopped>>
  BY <1>2 DEF Receive
<1>3. ASSUME NEW i \in Urbs,
             \/ CompleteFull(i) \/ CompleteShort(i) \/ CompleteFailed(i)
             \/ GiveBackRest(i) \/ CompleteGone(i)
      PROVE  UNCHANGED <<status, report, cancel, transferred, action, lock,
                         disc, phase, retired>>
  BY <1>3 DEF CompleteFull, CompleteShort, CompleteFailed, GiveBackRest,
     CompleteGone
<1> QED
  BY <1>1, <1>2, <1>3 DEF KernelStep, Dongle, KernelGivesBack

\* What the kernel gives back, and why.
LEMMA GivenBack ==
  ASSUME Types, NEW i \in Urbs,
         \/ CompleteFull(i) \/ CompleteShort(i) \/ CompleteFailed(i)
         \/ GiveBackRest(i) \/ CompleteGone(i)
  PROVE  \E r \in Results :
           /\ i \in Pending /\ GiveBack(i, r) /\ got' = got
           /\ r # "nodev" => Served(i)
           /\ r # "noent"
           /\ r = "connreset" => stopped
           /\ r = "proto" => device = "on"
           /\ r = "overflow" => i = N
           /\ stopped' =>
                \/ stopped \/ r = "overflow" \/ r \in {"proto", "stall"}
                \/ r = "remoteio" /\ got[i] < L
           /\ device # "on" => device' # "on"
<1> USE DEF Served, Serving, Results
<1>1. CASE CompleteFull(i)
  BY <1>1 DEF CompleteFull
<1>2. CASE CompleteShort(i)
  <2>1. /\ i \in Pending /\ Served(i) /\ got' = got /\ got[i] < L
        /\ device = "on" /\ device' = device
    BY <1>2 DEF CompleteShort
  <2>2. CASE continuation /\ i < N
    BY <1>2, <2>1, <2>2 DEF CompleteShort
  <2>3. CASE ~(continuation /\ i < N)
    BY <1>2, <2>1, <2>3 DEF CompleteShort
  <2> QED
    BY <2>2, <2>3
<1>3. CASE CompleteFailed(i)
  BY <1>3 DEF CompleteFailed
<1>4. CASE GiveBackRest(i)
  BY <1>4 DEF GiveBackRest
<1>5. CASE CompleteGone(i)
  BY <1>5 DEF CompleteGone
<1> QED
  BY <1>1, <1>2, <1>3, <1>4, <1>5

\* What submitting does.
LEMMA SubmitWords ==
  ASSUME SubmitOne
  PROVE  /\ UNCHANGED <<status, report, cancel, transferred, got, result, done,
                        device, stopped>>
         /\ phase = "submitting" /\ action = "NORMAL" /\ ~Discarding
         /\ \E i \in Urbs :
              /\ where[i] = "unsent"
              /\ \/ /\ where' = [where EXCEPT ![i] = "kernel"]
                    /\ UNCHANGED <<action, lock, disc, phase, retired>>
                 \/ /\ action' = "COMPLETED_EARLY" /\ phase' = "submitted"
                    /\ lock' = "free" /\ stopped
                    /\ UNCHANGED where
                 \/ /\ phase' = "refused" /\ lock' = "free"
                    /\ UNCHANGED <<where, action, retired>>
                 \/ /\ action' = "SUBMIT_FAILED"
                    /\ UNCHANGED <<where, phase, lock>>
<1> USE DEF Submitting, kernelVars, privVars, callVars
<1>1. CASE FirstUrbFails
  <2>1. 1 \in Urbs
    BY LastUrb DEF Urbs
  <2> QED
    BY <1>1, <2>1 DEF FirstUrbFails
<1>2. ASSUME NEW i \in Urbs, SubmitUrb(i)
      PROVE  /\ UNCHANGED <<status, report, cancel, transferred, got, result,
                            done, device, stopped>>
             /\ phase = "submitting" /\ action = "NORMAL" /\ ~Discarding
             /\ where[i] = "unsent"
             /\ where' = [where EXCEPT ![i] = "kernel"]
             /\ UNCHANGED <<action, lock, disc, phase, retired>>
  BY <1>2 DEF SubmitUrb
<1>3. ASSUME NEW i \in Urbs, SubmitRefused(i)
      PROVE  /\ UNCHANGED <<status, report, cancel, transferred, got, result,
                            done, device, stopped>>
             /\ phase = "submitting" /\ action = "NORMAL" /\ ~Discarding
             /\ where[i] = "unsent"
             /\ action' = "COMPLETED_EARLY" /\ phase' = "submitted"
             /\ lock' = "free" /\ stopped
             /\ UNCHANGED where
  BY <1>3 DEF SubmitRefused, Refuses
<1>4. ASSUME NEW i \in Urbs, LaterUrbFails(i)
      PROVE  /\ UNCHANGED <<status, report, cancel, transferred, got, result,
                            done, device, stopped>>
             /\ phase = "submitting" /\ action = "NORMAL" /\ ~Discarding
             /\ where[i] = "unsent"
             /\ action' = "SUBMIT_FAILED" /\ UNCHANGED <<where, phase, lock>>
  BY <1>4 DEF LaterUrbFails
<1> QED
  BY <1>1, <1>2, <1>3, <1>4 DEF SubmitOne

\* What discarding does.
LEMMA DiscardWords ==
  ASSUME Types, DiscardOne
  PROVE  /\ UNCHANGED <<status, report, cancel, transferred, got, action, lock,
                        phase, retired, device, stopped>>
         /\ Discarding /\ disc.next \in Urbs /\ disc'.next = disc.next - 1
         /\ disc'.last = disc.last
         /\ \/ /\ UNCHANGED <<where, result, done>>
               /\ \/ disc'.ret = disc.ret
                  \/ disc'.ret = "nodevice"
                  \/ /\ disc'.ret = "notfound" /\ disc.next = disc.last
                     /\ disc.next \notin Pending /\ device # "gone"
            \/ /\ disc.next \in Pending /\ GiveBack(disc.next, "noent")
               /\ disc'.ret = disc.ret
<1>1. /\ UNCHANGED <<status, report, cancel, transferred, got, action, lock,
                     phase, retired, device, stopped>>
      /\ Discarding
  BY DEF DiscardOne, privVars
<1>2. disc.next \in Urbs
  BY DiscardFacts
<1>3. disc'.next = disc.next - 1 /\ disc'.last = disc.last
  BY DiscardFacts
<1>4. disc'.ret = IF device = "gone" THEN "nodevice"
                  ELSE IF disc.next \notin Pending /\ disc.next = disc.last
                  THEN "notfound"
                  ELSE disc.ret
  BY DEF DiscardOne, Types
<1>5. \/ /\ UNCHANGED <<where, result, done>>
         /\ disc.next \notin Pending \/ device = "gone"
      \/ /\ disc.next \in Pending /\ device # "gone"
         /\ GiveBack(disc.next, "noent")
  BY DEF DiscardOne
<1> QED
  BY <1>1, <1>2, <1>3, <1>4, <1>5

\* What has a result keeps it, and what is out of the kernel receives nothing
\* more.
LEMMA Moves ==
  ASSUME FullInv, [Next]_vars
  PROVE  /\ \A j \in Urbs : result[j] # "none" =>
              result'[j] = result[j] /\ got'[j] = got[j]
         /\ \A j \in Urbs : where[j] \notin {"unsent", "kernel"} =>
              where'[j] \notin {"unsent", "kernel"}
<1>0. Types /\ DoneIsListed /\ ResultIsLate /\ DataTypes /\ SubmittedInOrder
      /\ DataInOrder
  BY WordFacts
<1>1. \A j \in Urbs : result[j] # "none" => where[j] \notin {"unsent", "kernel"}
  BY <1>0 DEF ResultIsLate
<1>2. CASE UNCHANGED <<where, result, got>>
  BY <1>2
<1>3. ASSUME NEW i \in Pending, NEW r \in Results, GiveBack(i, r), got' = got
      PROVE  /\ \A j \in Urbs : result[j] # "none" =>
                  result'[j] = result[j] /\ got'[j] = got[j]
             /\ \A j \in Urbs : where[j] \notin {"unsent", "kernel"} =>
                  where'[j] \notin {"unsent", "kernel"}
  <2>1. /\ \A j \in Urbs \ {i} : where'[j] = where[j] /\ result'[j] = result[j]
        /\ where[i] = "kernel"
    BY <1>0, <1>3, GiveBackFacts DEF Pending
  <2> QED
    BY <1>1, <1>3, <2>1
<1>4. CASE KernelStep
  <2>1. ASSUME NEW i \in Urbs, Receive(i), UNCHANGED <<where, result>>
        PROVE  /\ \A j \in Urbs : result[j] # "none" =>
                    result'[j] = result[j] /\ got'[j] = got[j]
               /\ \A j \in Urbs : where[j] \notin {"unsent", "kernel"} =>
                    where'[j] \notin {"unsent", "kernel"}
    <3>1. where[i] = "kernel" /\ got' = [got EXCEPT ![i] = got[i] + 1]
      BY <1>0, <2>1, ReceiveFacts
    <3>2. result[i] = "none"
      BY <1>1, <3>1
    <3>3. \A j \in Urbs : j # i => got'[j] = got[j]
      BY <1>0, <3>1 DEF DataTypes
    <3> QED
      BY <2>1, <3>2, <3>3
  <2> QED
    BY <1>0, <1>2, <1>3, <1>4, <2>1, KernelWords, GivenBack
<1>5. CASE SubmitOne
  <2>1. UNCHANGED <<result, got>>
    BY <1>5, SubmitWords
  <2>2. \A j \in Urbs : where[j] \notin {"unsent", "kernel"} =>
          where'[j] \notin {"unsent", "kernel"}
    BY <1>0, <1>5, SubmitWords DEF Types
  <2> QED
    BY <2>1, <2>2
<1>6. CASE DiscardOne
  BY <1>0, <1>2, <1>3, <1>6, DiscardWords DEF Results
<1>7. CASE SubmitEnds \/ CancelStep \/ EndStep \/ UNCHANGED vars
  BY <1>2, <1>7 DEF SubmitEnds, CancelStep, CancelStarts, CancelTooLate,
     CancelEnds, EndStep, ReapEnds, Report, Disconnect, kernelVars, vars
<1>8. ASSUME NEW i \in Urbs, ReapOne(i)
      PROVE  /\ UNCHANGED <<result, got>>
             /\ \A j \in Urbs : where[j] \notin {"unsent", "kernel"} =>
                  where'[j] \notin {"unsent", "kernel"}
  BY <1>0, <1>8, ReapBytes, ReapFacts
<1> QED
  BY <1>4, <1>5, <1>6, <1>7, <1>8, Steps

\* A dongle that ended an URB early has done so for ever.
LEMMA EndedStays ==
  ASSUME FullInv, [Next]_vars, EndedEarly
  PROVE  EndedEarly'
<1>1. PICK i \in Urbs : \/ result[i] \in {"proto", "stall"}
                        \/ result[i] \in {"ok", "remoteio"} /\ got[i] < L
  BY DEF EndedEarly
<1>2. result'[i] = result[i] /\ got'[i] = got[i]
  BY <1>1, Moves
<1> QED
  BY <1>1, <1>2 DEF EndedEarly

\* Once the last URB was served, no other is left to serve.
LEMMA LastServedKept ==
  ASSUME FullInv, [Next]_vars
  PROVE  LastServed'
<1>0. Types /\ DoneIsListed /\ ResultIsLate /\ SubmittedInOrder /\ LastServed
  BY WordFacts
<1>1. CASE UNCHANGED <<where, result>>
  BY <1>0, <1>1 DEF LastServed
<1>2. ASSUME NEW i \in Pending, NEW r \in Results, GiveBack(i, r),
             r \notin {"noent", "nodev"} => Served(i)
      PROVE  LastServed'
  <2>1. /\ \A j \in Urbs \ {i} : where'[j] = where[j] /\ result'[j] = result[j]
        /\ where[i] = "kernel" /\ where'[i] = "done" /\ result'[i] = r
        /\ i \in Urbs /\ N \in Urbs
    BY <1>0, <1>2, GiveBackFacts, LastUrb DEF Pending
  <2>2. \A j \in Urbs : where'[j] \in {"done", "reaped"} => result'[j] # "none"
    BY <1>0, <2>1 DEF LastServed, Results
  <2>3. ASSUME result'[N] \notin {"none", "noent", "nodev"}, NEW j \in Urbs
        PROVE  where'[j] \notin {"unsent", "kernel"}
    <3>1. CASE i # N
      <4>1. result[N] \notin {"none", "noent", "nodev"}
        BY <2>1, <2>3, <3>1
      <4> QED
        BY <1>0, <2>1, <4>1 DEF LastServed
    <3>2. CASE i = N
      <4>1. Served(N)
        BY <1>2, <2>1, <2>3, <3>2
      <4>2. where[j] # "unsent"
        <5>1. j <= N
          BY DEF Urbs
        <5> QED
          BY <1>0, <2>1, <3>2, <5>1 DEF SubmittedInOrder
      <4>3. CASE j = N
        BY <2>1, <3>2, <4>3
      <4>4. CASE j # N
        <5>1. where[j] # "kernel"
          <6>1. ~(N <= j)
            BY <4>4, LastUrb DEF Urbs
          <6> QED
            BY <4>1, <6>1 DEF Served, Pending
        <5> QED
          BY <2>1, <3>2, <4>2, <4>4, <5>1
      <4> QED
        BY <4>3, <4>4
    <3> QED
      BY <3>1, <3>2
  <2> QED
    BY <2>2, <2>3 DEF LastServed
<1>3. CASE KernelStep
  <2>1. ASSUME NEW i \in Urbs,
               \/ CompleteFull(i) \/ CompleteShort(i) \/ CompleteFailed(i)
               \/ GiveBackRest(i) \/ CompleteGone(i)
        PROVE  LastServed'
    BY <1>0, <1>2, <2>1, GivenBack
  <2> QED
    BY <1>1, <1>3, <2>1, KernelWords
<1>4. CASE SubmitOne
  <2>1. result' = result
    BY <1>4, SubmitWords
  <2>2. PICK i \in Urbs : /\ where[i] = "unsent"
                          /\ \/ where' = [where EXCEPT ![i] = "kernel"]
                             \/ where' = where
    BY <1>4, SubmitWords
  <2>3. \A j \in Urbs : where'[j] \in {"done", "reaped"} => where'[j] = where[j]
    BY <1>0, <2>2 DEF Types
  <2>4. result[N] \in {"none", "noent", "nodev"}
    BY <1>0, <2>2 DEF LastServed
  <2> QED
    BY <1>0, <2>1, <2>3, <2>4 DEF LastServed
<1>5. CASE DiscardOne
  BY <1>0, <1>1, <1>2, <1>5, DiscardWords DEF Results
<1>6. CASE SubmitEnds \/ CancelStep \/ EndStep \/ UNCHANGED vars
  BY <1>1, <1>6, QuietFacts
<1>7. ASSUME NEW i \in Urbs, ReapOne(i) PROVE LastServed'
  <2>1. /\ where[i] = "done" /\ where'[i] = "reaped" /\ result' = result
        /\ \A j \in Urbs \ {i} : where'[j] = where[j]
    BY <1>0, <1>7, ReapGoesOn, ReapFacts
  <2> QED
    BY <1>0, <2>1 DEF LastServed
<1> QED
  BY <1>3, <1>4, <1>5, <1>6, <1>7, Steps

\* The kernel gives back the rest behind an URB that ended early.
LEMMA StoppedEarlyKept ==
  ASSUME FullInv, [Next]_vars
  PROVE  StoppedEarly'
<1>0. Types /\ DoneIsListed /\ ResultIsLate /\ LastServed /\ StoppedEarly
      /\ LastServed'
  BY WordFacts, LastServedKept
<1>1. EndedEarly => EndedEarly'
  BY EndedStays
<1>2. result[N] = "overflow" => result'[N] = "overflow"
  BY Moves, LastUrb
<1>3. CASE UNCHANGED <<stopped, result>>
  BY <1>0, <1>1, <1>3 DEF StoppedEarly
<1>4. ASSUME NEW i \in Urbs,
             \/ CompleteFull(i) \/ CompleteShort(i) \/ CompleteFailed(i)
             \/ GiveBackRest(i) \/ CompleteGone(i)
      PROVE  StoppedEarly'
  <2>1. PICK r \in Results :
          /\ i \in Pending /\ GiveBack(i, r) /\ got' = got
          /\ r # "nodev" => Served(i)
          /\ r = "connreset" => stopped
          /\ r = "overflow" => i = N
          /\ stopped' =>
               \/ stopped \/ r = "overflow" \/ r \in {"proto", "stall"}
               \/ r = "remoteio" /\ got[i] < L
    BY <1>0, <1>4, GivenBack
  <2>2. /\ \A j \in Urbs \ {i} : result'[j] = result[j]
        /\ where[i] = "kernel" /\ result'[i] = r
    BY <1>0, <2>1, GiveBackFacts DEF Pending
  <2>3. stopped => EndedEarly
    BY <1>0, <2>2 DEF StoppedEarly, LastServed
  <2>4. r \in {"proto", "stall"} \/ (r = "remoteio" /\ got[i] < L) =>
          EndedEarly'
    BY <2>1, <2>2 DEF EndedEarly
  <2>5. stopped' => EndedEarly' \/ result'[N] = "overflow"
    BY <1>1, <2>1, <2>2, <2>3, <2>4
  <2>6. ASSUME NEW j \in Urbs, result'[j] = "connreset" PROVE EndedEarly'
    BY <1>0, <1>1, <2>1, <2>2, <2>3, <2>6 DEF StoppedEarly
  <2> QED
    BY <2>5, <2>6 DEF StoppedEarly
<1>5. CASE KernelStep
  BY <1>3, <1>4, <1>5, KernelWords
<1>6. CASE SubmitOne
  BY <1>3, <1>6, SubmitWords
<1>7. CASE DiscardOne
  <2>1. ASSUME disc.next \in Pending, GiveBack(disc.next, "noent"),
               stopped' = stopped
        PROVE  StoppedEarly'
    <3>1. /\ \A j \in Urbs \ {disc.next} : result'[j] = result[j]
          /\ result'[disc.next] = "noent"
      BY <1>0, <2>1, GiveBackFacts DEF Results
    <3>2. (\E j \in Urbs : result'[j] = "connreset") => EndedEarly'
      BY <1>0, <1>1, <3>1 DEF StoppedEarly
    <3> QED
      BY <1>0, <1>1, <1>2, <2>1, <3>2 DEF StoppedEarly
  <2> QED
    BY <1>0, <1>3, <1>7, <2>1, DiscardWords
<1>8. CASE SubmitEnds \/ CancelStep \/ EndStep \/ UNCHANGED vars
  BY <1>3, <1>8, QuietFacts
<1>9. ASSUME NEW i \in Urbs, ReapOne(i) PROVE StoppedEarly'
  BY <1>0, <1>3, <1>9, ReapGoesOn, ReapFacts
<1> QED
  BY <1>5, <1>6, <1>7, <1>8, <1>9, Steps

\* What the event handler does to the words.
ReapTells(i) ==
  \/ /\ action # "NORMAL" /\ action' = action
     /\ \/ /\ phase' = "finished"
           /\ status' = IF action # "COMPLETED_EARLY" /\ status = "COMPLETED"
                        THEN "ERROR" ELSE status
           /\ UNCHANGED lock
        \/ UNCHANGED <<status, phase, lock>>
  \/ /\ action = "NORMAL" /\ status' = status
     /\ result[i] \in {"ok", "remoteio", "noent", "connreset"}
     /\ \/ i = N /\ phase' = "finished" /\ UNCHANGED <<action, lock>>
        \/ /\ i # N /\ got[i] < L /\ action' = "COMPLETED_EARLY"
           /\ \/ phase' = "finished" /\ UNCHANGED lock
              \/ lock' = "reap" /\ UNCHANGED phase
        \/ i # N /\ ~(got[i] < L) /\ UNCHANGED <<action, phase, lock>>
  \/ /\ action = "NORMAL" /\ action' = action
     /\ \/ result[i] = "nodev" /\ status' = "NO_DEVICE"
        \/ /\ result[i] = "stall"
           /\ status' = IF status = "COMPLETED" THEN "STALL" ELSE status
     /\ \/ phase' = "finished" /\ UNCHANGED lock
        \/ lock' = "reap" /\ UNCHANGED phase
  \/ /\ action = "NORMAL" /\ action' = action
     /\ result[i] = "overflow"
     /\ status' = IF status = "COMPLETED" THEN "OVERFLOW" ELSE status
     /\ phase' = "finished" /\ UNCHANGED lock
  \/ /\ action = "NORMAL" /\ action' = "ERROR"
     /\ result[i] = "proto"
     /\ status' = IF status = "COMPLETED" THEN "ERROR" ELSE status
     /\ \/ phase' = "finished" /\ UNCHANGED lock
        \/ lock' = "reap" /\ UNCHANGED phase

\* What reaping an URB tells.
LEMMA ReapWords ==
  ASSUME FullInv, NEW i \in Urbs, ReapOne(i)
  PROVE  /\ ReapTells(i) /\ Reap(i)
         /\ UNCHANGED <<report, cancel, got, result, device>>
         /\ phase = "submitted" /\ lock = "free"
         /\ where[i] = "done" /\ where'[i] = "reaped"
         /\ \A j \in Urbs \ {i} : where'[j] = where[j]
<1>0. Types /\ DoneIsListed /\ ResultIsLate /\ DataTypes
  BY WordFacts
<1>1. Reap(i)
  BY <1>0, ReapGoesOn
<1>2. /\ phase = "submitted" /\ lock = "free"
      /\ where[i] = "done" /\ where'[i] = "reaped"
      /\ \A j \in Urbs \ {i} : where'[j] = where[j]
      /\ UNCHANGED <<report, cancel, got, result, device>>
  BY <1>0, <1>1, ReapFacts DEF Reap
<1>3. CancelRemaining(i) => \/ phase' = "finished" /\ UNCHANGED lock
                            \/ lock' = "reap" /\ UNCHANGED phase
  BY DEF CancelRemaining, Finish
<1>4. ReapTells(i)
  <2>1. CASE ReapAbnormal(i)
    BY <2>1 DEF ReapAbnormal, ReapTells, Finish, Unlock
  <2>2. CASE ReapGood(i)
    <3>1. /\ action = "NORMAL" /\ status' = status
          /\ result[i] \in {"ok", "remoteio", "noent", "connreset"}
      BY <2>2 DEF ReapGood
    <3>2. CASE i = N
      <4>1. phase' = "finished" /\ UNCHANGED <<action, lock>>
        BY <2>2, <3>2 DEF ReapGood, Finish
      <4> QED
        BY <3>1, <3>2, <4>1 DEF ReapTells
    <3>3. CASE i # N /\ got[i] < L
      <4>1. action' = "COMPLETED_EARLY" /\ CancelRemaining(i)
        BY <2>2, <3>3 DEF ReapGood
      <4> QED
        BY <1>3, <3>1, <3>3, <4>1 DEF ReapTells
    <3>4. CASE i # N /\ ~(got[i] < L)
      <4>1. UNCHANGED <<action, phase, lock>>
        BY <2>2, <3>4 DEF ReapGood, Unlock
      <4> QED
        BY <3>1, <3>4, <4>1 DEF ReapTells
    <3> QED
      BY <3>2, <3>3, <3>4
  <2>3. CASE ReapStalled(i)
    BY <1>3, <2>3 DEF ReapStalled, ReapTells
  <2>4. CASE ReapOverflow(i)
    BY <2>4 DEF ReapOverflow, ReapTells, Finish
  <2>5. CASE ReapError(i)
    BY <1>3, <2>5 DEF ReapError, ReapTells
  <2> QED
    BY <2>1, <2>2, <2>3, <2>4, <2>5 DEF ReapOne
<1> QED
  BY <1>1, <1>2, <1>4

\* What the others do to the words.
LEMMA QuietWords ==
  ASSUME SubmitEnds \/ CancelStep \/ EndStep \/ UNCHANGED vars
  PROVE  /\ UNCHANGED <<where, result, got, done, device, stopped, status,
                        transferred, retired>>
         /\ \/ /\ phase = "submitting" /\ phase' = "submitted" /\ lock' = "free"
               /\ UNCHANGED <<action, disc, cancel, report>>
            \/ /\ phase = "submitted" /\ lock = "free" /\ cancel = "none"
               /\ cancel' = "busy" /\ lock' = "cancel" /\ disc'.ret = "ok"
               /\ UNCHANGED <<action, phase, report>>
            \/ /\ phase = "finished" /\ cancel = "none" /\ cancel' = "notfound"
               /\ UNCHANGED <<action, lock, disc, phase, report>>
            \/ /\ lock = "cancel" /\ lock' = "free" /\ cancel' = disc.ret
               /\ action' = IF disc.ret = "ok" /\ action # "ERROR"
                            THEN "CANCELLED" ELSE action
               /\ UNCHANGED <<disc, phase, report>>
            \/ /\ lock = "reap" /\ lock' = "free"
               /\ UNCHANGED <<action, disc, phase, cancel, report>>
            \/ /\ phase = "finished" /\ phase' = "reported"
               /\ report' = IF action = "CANCELLED" THEN "CANCELLED" ELSE status
               /\ UNCHANGED <<action, lock, disc, cancel>>
            \/ /\ phase = "submitted" /\ lock = "free" /\ phase' = "reported"
               /\ report' = "NO_DEVICE"
               /\ UNCHANGED <<action, lock, disc, cancel>>
            \/ UNCHANGED <<action, lock, disc, phase, cancel, report>>
<1> USE DEF kernelVars, privVars, callVars, vars
<1>1. CASE SubmitEnds
  BY <1>1 DEF SubmitEnds
<1>2. CASE CancelStarts
  BY <1>2 DEF CancelStarts, StartDiscard
<1>3. CASE CancelTooLate
  BY <1>3 DEF CancelTooLate
<1>4. CASE CancelEnds
  BY <1>4 DEF CancelEnds
<1>5. CASE ReapEnds
  BY <1>5 DEF ReapEnds
<1>6. CASE Report
  BY <1>6 DEF Report
<1>7. CASE Disconnect
  BY <1>7 DEF Disconnect
<1>8. CASE UNCHANGED vars
  BY <1>8
<1> QED
  BY <1>1, <1>2, <1>3, <1>4, <1>5, <1>6, <1>7, <1>8 DEF CancelStep, EndStep

\* While a transfer looks normal, nothing of it was discarded untold.
LEMMA DiscardedIsToldKept ==
  ASSUME FullInv, [Next]_vars
  PROVE  DiscardedIsTold'
<1>0. /\ Types /\ DoneIsListed /\ ResultIsLate /\ LockIsHeld /\ LastServed
      /\ SubmittedInOrder /\ TornDownIsStopped /\ DiscardedIsTold
  BY WordFacts
<1>1. Types' /\ ResultIsLate'
  BY <1>0, TypesKept, ResultIsLateKept
<1>2. lock = "cancel" => cancel = "busy"
  BY <1>0 DEF LockIsHeld
<1>3. ASSUME NEW i \in Pending, NEW r \in Results, GiveBack(i, r), r # "noent",
             UNCHANGED <<action, status, cancel, lock, disc>>
      PROVE  DiscardedIsTold'
  <2>1. /\ \A j \in Urbs \ {i} : where'[j] = where[j] /\ result'[j] = result[j]
        /\ where'[i] = "done" /\ result'[i] = r
    BY <1>0, <1>3, GiveBackFacts
  <2>2. \A j \in Urbs : result'[j] = "noent" => result[j] = "noent"
    BY <1>3, <2>1
  <2>3. Pending = {} => Pending' = {}
    BY <1>3
  <2> QED
    BY <1>0, <1>3, <2>2, <2>3 DEF DiscardedIsTold
<1>4. CASE KernelStep
  <2>1. CASE UNCHANGED <<where, result, action, status, cancel, lock, disc>>
    BY <1>0, <2>1 DEF DiscardedIsTold, Pending
  <2>2. ASSUME NEW i \in Urbs,
               \/ CompleteFull(i) \/ CompleteShort(i) \/ CompleteFailed(i)
               \/ GiveBackRest(i) \/ CompleteGone(i)
        PROVE  DiscardedIsTold'
    BY <1>0, <1>3, <1>4, <2>2, GivenBack, KernelWords
  <2> QED
    BY <1>4, <2>1, <2>2, KernelWords
<1>5. CASE SubmitOne
  <2>1. /\ UNCHANGED <<status, cancel, result>>
        /\ action' = "NORMAL" => action = "NORMAL"
        /\ lock' \in {"submit", "free"} /\ lock = "submit"
    BY <1>0, <1>5, SubmitWords DEF LockIsHeld
  <2> QED
    BY <1>0, <2>1 DEF DiscardedIsTold
<1>6. CASE DiscardOne
  <2>1. /\ UNCHANGED <<status, cancel, action, lock, device>>
        /\ Discarding /\ disc.next \in Urbs /\ disc'.next = disc.next - 1
        /\ disc'.last = disc.last
    BY <1>0, <1>6, DiscardWords
  <2>2. disc'.next < N /\ disc.next <= N
    BY <2>1, LastUrb DEF Urbs
  <2>3. lock = "reap" /\ action = "NORMAL" => status # "COMPLETED"
    BY <1>0 DEF DiscardedIsTold
  <2>4. lock \in {"cancel", "reap"} \/ action # "NORMAL"
    BY <1>0, <2>1 DEF LockIsHeld, Types
  <2> SUFFICES ASSUME action = "NORMAL", status = "COMPLETED", lock = "cancel"
               PROVE  DiscardedIsTold'
    <3>1. CASE action # "NORMAL" \/ status # "COMPLETED"
      BY <2>1, <2>3, <3>1 DEF DiscardedIsTold
    <3>2. CASE action = "NORMAL" /\ status = "COMPLETED" /\ lock # "cancel"
      BY <2>3, <2>4, <3>2
    <3> QED
      BY <3>1, <3>2
  <2>5. /\ cancel = "busy" /\ disc.last = N /\ phase = "submitted"
        /\ disc.next = N => disc.ret = "ok"
    BY <1>0 DEF LockIsHeld
  <2>6. CASE UNCHANGED <<where, result, done>>
    <3>1. CASE disc'.ret = disc.ret
      <4>1. (\E i \in Urbs : result[i] = "noent") => disc.ret # "notfound"
        BY <1>0, <2>5 DEF DiscardedIsTold
      <4>2. disc.ret = "notfound" => Pending = {}
        BY <1>0 DEF DiscardedIsTold
      <4> QED
        BY <2>1, <2>2, <2>6, <3>1, <4>1, <4>2 DEF DiscardedIsTold, Pending
    <3>2. CASE disc'.ret = "nodevice"
      BY <2>1, <2>2, <3>2 DEF DiscardedIsTold
    <3>3. CASE /\ disc'.ret = "notfound" /\ disc.next = disc.last
               /\ disc.next \notin Pending /\ device # "gone"
      <4>1. \A i \in Urbs : result[i] # "noent"
        BY <1>0, <2>5, <3>3, LastUrb DEF DiscardedIsTold
      <4>2. where[N] \in {"done", "reaped"}
        BY <1>0, <2>5, <3>3, LastUrb DEF Pending, SubmittedInOrder, Types
      <4>3. result[N] \notin {"none", "noent", "nodev"}
        BY <1>0, <3>3, <4>1, <4>2, LastUrb DEF LastServed, TornDownIsStopped
      <4>4. Pending = {}
        BY <1>0, <4>3 DEF LastServed, Pending
      <4> QED
        BY <2>1, <2>6, <4>1, <4>4 DEF DiscardedIsTold, Pending
    <3> QED
      BY <1>0, <1>6, <2>6, <3>1, <3>2, <3>3, DiscardWords, GiveBackFacts
         DEF Pending, Results
  <2>7. CASE /\ disc.next \in Pending /\ GiveBack(disc.next, "noent")
             /\ disc'.ret = disc.ret
    <3>1. disc.ret # "notfound"
      BY <1>0, <2>7 DEF DiscardedIsTold
    <3> QED
      BY <2>1, <2>2, <2>7, <3>1 DEF DiscardedIsTold
  <2> QED
    BY <1>0, <1>6, <2>6, <2>7, DiscardWords
<1>7. CASE SubmitEnds \/ CancelStep \/ EndStep \/ UNCHANGED vars
  <2>1. UNCHANGED <<where, result, status>>
    BY <1>7, QuietWords
  <2>2. action' = "NORMAL" => action = "NORMAL"
    BY <1>7, QuietWords
  <2>3. CASE lock = "free"
    <3>1. \/ lock' # "cancel" /\ lock' # "reap" /\ cancel' = cancel
          \/ lock' # "cancel" /\ lock' # "reap" /\ cancel = "none"
          \/ lock' = "cancel" /\ disc'.ret = "ok" /\ cancel = "none"
      BY <1>7, <2>3, QuietWords
    <3>2. action = "NORMAL" /\ status = "COMPLETED" =>
            cancel = "nodevice" \/ \A i \in Urbs : result[i] # "noent"
      BY <1>0, <2>3 DEF DiscardedIsTold
    <3> QED
      BY <2>1, <2>2, <3>1, <3>2 DEF DiscardedIsTold
  <2>4. CASE lock = "cancel"
    <3>1. \/ lock' = "free" /\ cancel' = disc.ret
             /\ (disc.ret = "ok" => action' # "NORMAL")
          \/ UNCHANGED <<lock, disc, cancel>>
      BY <1>0, <1>2, <1>7, <2>4, QuietWords DEF LockIsHeld
    <3>2. disc.ret \in {"ok", "notfound", "nodevice"}
      BY <1>0 DEF Types
    <3>3. CASE UNCHANGED <<lock, disc, cancel>>
      BY <1>0, <2>1, <2>2, <3>3 DEF DiscardedIsTold, Pending
    <3>4. CASE lock' = "free" /\ cancel' = disc.ret
               /\ (disc.ret = "ok" => action' # "NORMAL")
      BY <1>0, <1>2, <2>1, <2>2, <2>4, <3>2, <3>4 DEF DiscardedIsTold
    <3> QED
      BY <3>1, <3>3, <3>4
  <2>5. CASE lock \in {"submit", "reap"}
    <3>1. lock' \in {lock, "free"} /\ (cancel' = cancel \/ cancel = "none")
      BY <1>0, <1>7, <2>5, QuietWords DEF LockIsHeld
    <3>2. action = "NORMAL" /\ status = "COMPLETED" =>
            cancel = "nodevice" \/ \A i \in Urbs : result[i] # "noent"
      BY <1>0, <2>5 DEF DiscardedIsTold
    <3> QED
      BY <1>0, <2>1, <2>2, <2>5, <3>1, <3>2 DEF DiscardedIsTold
  <2> QED
    BY <1>0, <2>3, <2>4, <2>5 DEF Types
<1>8. ASSUME NEW i \in Urbs, ReapOne(i) PROVE DiscardedIsTold'
  <2>1. /\ ReapTells(i) /\ UNCHANGED <<cancel, result>>
        /\ phase = "submitted" /\ lock = "free"
    BY <1>8, ReapWords
  <2>2. action' = "NORMAL" /\ status' = "COMPLETED" =>
          action = "NORMAL" /\ status = "COMPLETED" /\ lock' = "free"
    BY <2>1 DEF ReapTells
  <2>3. lock' \in {"free", "reap"}
    BY <2>1 DEF ReapTells
  <2>4. action = "NORMAL" /\ status = "COMPLETED" =>
          cancel = "nodevice" \/ \A j \in Urbs : result[j] # "noent"
    BY <1>0, <2>1 DEF DiscardedIsTold
  <2> QED
    BY <2>1, <2>2, <2>3, <2>4 DEF DiscardedIsTold
<1> QED
  BY <1>4, <1>5, <1>6, <1>7, <1>8, Steps

\* A transfer is completed early because the dongle ended an URB early.
LEMMA ShortIsToldKept ==
  ASSUME FullInv, [Next]_vars
  PROVE  ShortIsTold'
<1>0. /\ Types /\ DoneIsListed /\ ResultIsLate /\ LockIsHeld /\ LastServed
      /\ SubmittedInOrder /\ DataTypes /\ StoppedEarly /\ DiscardedIsTold
      /\ ShortIsTold /\ CancelIsTold
  BY WordFacts
<1>1. EndedEarly => EndedEarly'
  BY EndedStays
<1>2. \A j \in Urbs : where[j] = "reaped" =>
        result'[j] = result[j] /\ got'[j] = got[j]
  BY <1>0, Moves DEF LastServed
<1>3. ASSUME UNCHANGED <<action, status>>,
             cancel = "nodevice" => cancel' = "nodevice",
             \A j \in Urbs : where'[j] = "reaped" => where[j] = "reaped"
      PROVE  ShortIsTold'
  BY <1>0, <1>1, <1>2, <1>3 DEF ShortIsTold
<1>4. ASSUME NEW i \in Pending, NEW r \in Results, GiveBack(i, r)
      PROVE  \A j \in Urbs : where'[j] = "reaped" => where[j] = "reaped"
  <2>1. /\ \A j \in Urbs \ {i} : where'[j] = where[j]
        /\ where'[i] = "done"
    BY <1>0, <1>4, GiveBackFacts
  <2> QED
    BY <2>1
<1>5. CASE KernelStep
  <2>1. UNCHANGED <<action, status, cancel>>
    BY <1>5, KernelWords
  <2>2. \A j \in Urbs : where'[j] = "reaped" => where[j] = "reaped"
    BY <1>0, <1>4, <1>5, KernelWords, GivenBack
  <2> QED
    BY <1>3, <2>1, <2>2
<1>6. CASE SubmitOne
  <2>1. UNCHANGED <<status, cancel>>
    BY <1>6, SubmitWords
  <2>2. PICK i \in Urbs :
          /\ where[i] = "unsent"
          /\ \/ /\ where' = [where EXCEPT ![i] = "kernel"]
                /\ UNCHANGED <<action, lock, disc, phase, retired>>
             \/ /\ action' = "COMPLETED_EARLY" /\ phase' = "submitted"
                /\ lock' = "free" /\ stopped
                /\ UNCHANGED where
             \/ /\ phase' = "refused" /\ lock' = "free"
                /\ UNCHANGED <<where, action, retired>>
             \/ /\ action' = "SUBMIT_FAILED" /\ UNCHANGED <<where, phase, lock>>
    BY <1>6, SubmitWords
  <2>3. \A j \in Urbs : where'[j] = "reaped" => where[j] = "reaped"
    BY <1>0, <2>2 DEF Types
  <2>4. stopped => EndedEarly
    BY <1>0, <2>2 DEF StoppedEarly, LastServed
  <2>5. CASE UNCHANGED action
    BY <1>3, <2>1, <2>3, <2>5
  <2>6. CASE action' = "COMPLETED_EARLY" /\ stopped
    BY <1>1, <2>4, <2>6 DEF ShortIsTold
  <2>7. CASE action' = "SUBMIT_FAILED"
    BY <2>7 DEF ShortIsTold
  <2> QED
    BY <2>2, <2>5, <2>6, <2>7
<1>7. CASE DiscardOne
  <2>1. UNCHANGED <<action, status, cancel>>
    BY <1>0, <1>7, DiscardWords
  <2>2. \A j \in Urbs : where'[j] = "reaped" => where[j] = "reaped"
    BY <1>0, <1>4, <1>7, DiscardWords DEF Results
  <2> QED
    BY <1>3, <2>1, <2>2
<1>8. CASE SubmitEnds \/ CancelStep \/ EndStep \/ UNCHANGED vars
  <2>1. UNCHANGED <<where, status>>
    BY <1>8, QuietWords
  <2>2. action' \in {action, "CANCELLED"}
    BY <1>8, QuietWords
  <2>3. cancel = "nodevice" => cancel' = "nodevice"
    BY <1>0, <1>8, QuietWords DEF LockIsHeld
  <2>4. CASE action' = action
    BY <1>3, <2>1, <2>3, <2>4
  <2>5. CASE action' = "CANCELLED"
    BY <2>5 DEF ShortIsTold
  <2> QED
    BY <2>2, <2>4, <2>5
<1>9. ASSUME NEW i \in Urbs, ReapOne(i) PROVE ShortIsTold'
  <2>1. /\ ReapTells(i) /\ UNCHANGED <<cancel, result, got>> /\ lock = "free"
        /\ where'[i] = "reaped" /\ \A j \in Urbs \ {i} : where'[j] = where[j]
    BY <1>9, ReapWords
  <2>2. ASSUME action' = "COMPLETED_EARLY", status' = "COMPLETED"
        PROVE  EndedEarly' \/ cancel' = "nodevice"
    <3>1. CASE action = "COMPLETED_EARLY"
      <4>1. status = "COMPLETED"
        BY <2>1, <2>2, <3>1 DEF ReapTells
      <4> QED
        BY <1>0, <1>1, <2>1, <3>1, <4>1 DEF ShortIsTold
    <3>2. CASE action # "COMPLETED_EARLY"
      <4>1. /\ action = "NORMAL" /\ status = "COMPLETED" /\ got[i] < L
            /\ result[i] \in {"ok", "remoteio", "noent", "connreset"}
        BY <2>1, <2>2, <3>2 DEF ReapTells
      <4>2. CASE result[i] \in {"ok", "remoteio"}
        BY <1>1, <4>1, <4>2 DEF EndedEarly
      <4>3. CASE result[i] = "connreset"
        BY <1>0, <1>1, <4>3 DEF StoppedEarly
      <4>4. CASE result[i] = "noent"
        BY <1>0, <2>1, <4>1, <4>4 DEF DiscardedIsTold
      <4> QED
        BY <4>1, <4>2, <4>3, <4>4
    <3> QED
      BY <3>1, <3>2
  <2>3. ASSUME action' = "NORMAL", status' = "COMPLETED",
               NEW j \in Urbs, j < N, where'[j] = "reaped"
        PROVE  got'[j] = L
    <3>1. action = "NORMAL" /\ status = "COMPLETED"
      BY <2>1, <2>3 DEF ReapTells
    <3>2. CASE j = i
      <4>1. i # N
        BY <2>3, <3>2, LastUrb DEF Urbs
      <4>2. ~(got[i] < L)
        BY <2>1, <2>3, <3>1, <4>1 DEF ReapTells
      <4> QED
        BY <1>0, <2>1, <3>2, <4>2, BulkAssumption DEF DataTypes
    <3>3. CASE j # i
      BY <1>0, <2>1, <2>3, <3>1, <3>3 DEF ShortIsTold
    <3> QED
      BY <3>2, <3>3
  <2> QED
    BY <2>2, <2>3 DEF ShortIsTold
<1> QED
  BY <1>5, <1>6, <1>7, <1>8, <1>9, Steps

\* After a stall no URB fails with another error.
LEMMA StallIsLastKept ==
  ASSUME FullInv, [Next]_vars
  PROVE  StallIsLast'
<1>0. Types /\ DoneIsListed /\ ResultIsLate /\ StallIsLast /\ HaltEnds
  BY WordFacts
<1>1. ASSUME UNCHANGED <<where, result, done, status>>,
             device' = device \/ device' # "on"
      PROVE  StallIsLast'
  BY <1>0, <1>1 DEF StallIsLast
<1>2. ASSUME NEW i \in Pending, NEW r \in Results, GiveBack(i, r),
             status' = status, device # "on" => device' # "on",
             r = "proto" => device = "on"
      PROVE  StallIsLast'
  <2>1. /\ Len(done') = Len(done) + 1 /\ done'[Len(done) + 1] = i
        /\ where'[i] = "done" /\ result'[i] = r
        /\ \A j \in Urbs \ {i} : where'[j] = where[j] /\ result'[j] = result[j]
        /\ where[i] = "kernel" /\ i \in Urbs /\ Len(done) \in Nat
    BY <1>0, <1>2, GiveBackFacts DEF Pending, Types
  <2>2. \A p \in 1..Len(done) : /\ done'[p] = done[p] /\ done[p] \in Urbs
                                /\ done[p] # i
    BY <1>0, <1>2, <2>1 DEF GiveBack, Types, DoneIsListed
  <2>3. ASSUME NEW p \in 1..Len(done'), NEW q \in 1..Len(done'), p < q,
               result'[done'[p]] = "stall"
        PROVE  result'[done'[q]] # "proto"
    <3>1. p \in 1..Len(done)
      BY <2>1, <2>3
    <3>2. result[done[p]] = "stall"
      BY <2>1, <2>2, <2>3, <3>1
    <3>3. CASE q \in 1..Len(done)
      BY <1>0, <2>1, <2>2, <2>3, <3>1, <3>2, <3>3 DEF StallIsLast
    <3>4. CASE q = Len(done) + 1
      <4>1. device # "on"
        BY <1>0, <2>2, <3>1, <3>2 DEF HaltEnds
      <4> QED
        BY <1>2, <2>1, <3>4, <4>1
    <3> QED
      BY <2>1, <3>3, <3>4
  <2>4. ASSUME status' = "STALL"
        PROVE  /\ device' # "on"
               /\ \A j \in Urbs : where'[j] = "done" => result'[j] # "proto"
    BY <1>0, <1>2, <2>1, <2>4 DEF StallIsLast
  <2> QED
    BY <2>3, <2>4 DEF StallIsLast
<1>3. CASE KernelStep
  <2>1. CASE Unplug
    BY <1>1, <2>1 DEF Unplug, privVars
  <2>2. ASSUME NEW i \in Urbs, Receive(i) PROVE StallIsLast'
    BY <1>1, <2>2 DEF Receive, privVars
  <2>3. ASSUME NEW i \in Urbs,
               \/ CompleteFull(i) \/ CompleteShort(i) \/ CompleteFailed(i)
               \/ GiveBackRest(i) \/ CompleteGone(i)
        PROVE  StallIsLast'
    BY <1>0, <1>2, <1>3, <2>3, GivenBack, KernelWords
  <2> QED
    BY <1>3, <2>1, <2>2, <2>3 DEF KernelStep, Dongle, KernelGivesBack
<1>4. CASE SubmitOne
  <2>1. UNCHANGED <<status, result, done, device>>
    BY <1>4, SubmitWords
  <2>2. \A j \in Urbs : where'[j] = "done" => where[j] = "done"
    BY <1>0, <1>4, SubmitWords DEF Types
  <2> QED
    BY <1>0, <2>1, <2>2 DEF StallIsLast
<1>5. CASE DiscardOne
  BY <1>0, <1>1, <1>2, <1>5, DiscardWords DEF Results
<1>6. CASE SubmitEnds \/ CancelStep \/ EndStep \/ UNCHANGED vars
  BY <1>1, <1>6, QuietWords
<1>7. ASSUME NEW i \in Urbs, ReapOne(i) PROVE StallIsLast'
  <2>1. /\ ReapTells(i) /\ UNCHANGED <<result, device>> /\ Reap(i)
        /\ where[i] = "done" /\ where'[i] = "reaped"
        /\ \A j \in Urbs \ {i} : where'[j] = where[j]
    BY <1>7, ReapWords
  <2>2. /\ Len(done) \in Nat /\ done[1] = i /\ Len(done) > 0
        /\ Len(done') = Len(done) - 1
        /\ \A p \in 1..Len(done') : done'[p] = done[p + 1]
    BY <1>0, <2>1, ReapFacts DEF Types
  <2>3. ASSUME NEW p \in 1..Len(done'), NEW q \in 1..Len(done'), p < q,
               result'[done'[p]] = "stall"
        PROVE  result'[done'[q]] # "proto"
    <3>1. p + 1 \in 1..Len(done) /\ q + 1 \in 1..Len(done) /\ p + 1 < q + 1
      BY <2>2, <2>3
    <3> QED
      BY <1>0, <2>1, <2>2, <2>3, <3>1 DEF StallIsLast
  <2>4. ASSUME status' = "STALL"
        PROVE  /\ device' # "on"
               /\ \A j \in Urbs : where'[j] = "done" => result'[j] # "proto"
    <3>1. CASE status = "STALL"
      BY <1>0, <2>1, <3>1 DEF StallIsLast
    <3>2. CASE status # "STALL"
      <4>1. result[i] = "stall"
        BY <2>1, <2>4, <3>2 DEF ReapTells
      <4>2. device # "on"
        BY <1>0, <4>1 DEF HaltEnds
      <4>3. ASSUME NEW j \in Urbs, where'[j] = "done" PROVE result[j] # "proto"
        <5>1. where[j] = "done" /\ j # i
          BY <2>1, <4>3
        <5>2. PICK q \in 1..Len(done) : done[q] = j
          BY <1>0, <5>1 DEF DoneIsListed
        <5>3. 1 \in 1..Len(done) /\ 1 < q
          BY <2>2, <5>1, <5>2
        <5> QED
          BY <1>0, <2>2, <4>1, <5>2, <5>3 DEF StallIsLast
      <4> QED
        BY <2>1, <4>2, <4>3
    <3> QED
      BY <3>1, <3>2
  <2> QED
    BY <2>3, <2>4 DEF StallIsLast
<1> QED
  BY <1>3, <1>4, <1>5, <1>6, <1>7, Steps

\* Who was told that a transfer is being cancelled is told how it ended.
LEMMA CancelIsToldKept ==
  ASSUME FullInv, [Next]_vars
  PROVE  CancelIsTold' /\ WordTypes' /\ (phase' = "refused" => retired' = 0)
<1>0. /\ Types /\ ResultIsLate /\ LockIsHeld /\ DoneIsListed
      /\ StallIsLast /\ CancelIsTold /\ WordTypes
      /\ phase = "refused" => retired = 0
  BY WordFacts
<1>1. CASE UNCHANGED <<status, report, cancel, action, phase, retired>>
  BY <1>0, <1>1 DEF CancelIsTold, WordTypes
<1>2. CASE KernelStep
  BY <1>1, <1>2, KernelWords
<1>3. CASE SubmitOne
  <2>1. /\ UNCHANGED <<status, report, cancel>>
        /\ phase = "submitting" /\ action = "NORMAL"
    BY <1>3, SubmitWords
  <2>2. \/ UNCHANGED <<action, phase, retired>>
        \/ action' = "COMPLETED_EARLY" /\ phase' = "submitted"
        \/ phase' = "refused" /\ UNCHANGED <<action, retired>>
        \/ action' = "SUBMIT_FAILED" /\ phase' = phase
    BY <1>3, SubmitWords
  <2>3. status = "COMPLETED" /\ cancel \notin {"ok", "notfound", "nodevice"}
    BY <1>0, <2>1 DEF CancelIsTold
  <2>4. retired = 0
    BY <1>0, <2>1 DEF LockIsHeld
  <2> QED
    BY <1>0, <2>1, <2>2, <2>3, <2>4 DEF CancelIsTold, WordTypes
<1>4. CASE DiscardOne
  BY <1>0, <1>1, <1>4, DiscardWords
<1>5. CASE SubmitEnds \/ CancelStep \/ EndStep \/ UNCHANGED vars
  <2>0. UNCHANGED <<status, retired>>
    BY <1>5, QuietWords
  <2>1. CASE /\ phase = "submitting" /\ phase' = "submitted"
             /\ UNCHANGED <<action, cancel, report>>
    BY <1>0, <2>0, <2>1 DEF CancelIsTold, WordTypes
  <2>2. CASE /\ phase = "submitted" /\ cancel' = "busy" /\ cancel = "none"
             /\ UNCHANGED <<action, phase, report>>
    BY <1>0, <2>0, <2>2 DEF CancelIsTold, WordTypes
  <2>3. CASE /\ phase = "finished" /\ cancel = "none" /\ cancel' = "notfound"
             /\ UNCHANGED <<action, phase, report>>
    BY <1>0, <2>0, <2>3 DEF CancelIsTold, WordTypes
  <2>4. CASE /\ lock = "cancel" /\ cancel' = disc.ret
             /\ action' = IF disc.ret = "ok" /\ action # "ERROR"
                          THEN "CANCELLED" ELSE action
             /\ UNCHANGED <<phase, report>>
    <3>1. cancel = "busy" /\ phase = "submitted" /\ report = "none"
      BY <1>0, <2>4 DEF LockIsHeld, CancelIsTold
    <3>2. action # "CANCELLED"
      BY <1>0, <3>1 DEF CancelIsTold
    <3> QED
      BY <1>0, <2>0, <2>4, <3>1, <3>2 DEF CancelIsTold, WordTypes
  <2>5. CASE UNCHANGED <<action, phase, cancel, report>>
    BY <1>1, <2>0, <2>5
  <2>6. CASE /\ phase = "finished" /\ phase' = "reported"
             /\ report' = IF action = "CANCELLED" THEN "CANCELLED" ELSE status
             /\ UNCHANGED <<action, cancel>>
    <3>1. CASE action = "CANCELLED"
      BY <1>0, <2>0, <2>6, <3>1 DEF CancelIsTold, WordTypes
    <3>2. CASE action # "CANCELLED"
      <4>1. report' = status /\ status # "CANCELLED"
        BY <1>0, <2>6, <3>2 DEF WordTypes, Statuses
      <4>2. cancel = "ok" => status \in {"ERROR", "NO_DEVICE"}
        BY <1>0, <3>2 DEF CancelIsTold
      <4> QED
        BY <1>0, <2>0, <2>6, <4>1, <4>2 DEF CancelIsTold, WordTypes
    <3> QED
      BY <3>1, <3>2
  <2>7. CASE /\ phase = "submitted" /\ phase' = "reported"
             /\ report' = "NO_DEVICE" /\ UNCHANGED <<action, cancel>>
    BY <1>0, <2>0, <2>7 DEF CancelIsTold, WordTypes, Statuses
  <2> QED
    BY <1>5, <2>1, <2>2, <2>3, <2>4, <2>5, <2>6, <2>7, QuietWords
<1>6. ASSUME NEW i \in Urbs, ReapOne(i)
      PROVE  CancelIsTold' /\ WordTypes' /\ (phase' = "refused" => retired' = 0)
  <2>1. /\ ReapTells(i) /\ UNCHANGED <<report, cancel>>
        /\ phase = "submitted" /\ where[i] = "done"
    BY <1>6, ReapWords
  <2>2. WordTypes' /\ phase' \in {"submitted", "finished"}
    BY <1>0, <2>1 DEF ReapTells, WordTypes, Statuses
  <2>3. action = "NORMAL" =>
          status \in {"COMPLETED", "ERROR", "STALL", "NO_DEVICE"}
    BY <1>0, <2>1 DEF CancelIsTold, WordTypes, Statuses
  <2>4. ASSUME action' = "ERROR" PROVE status' \in {"ERROR", "NO_DEVICE"}
    <3>1. CASE action = "ERROR"
      BY <1>0, <2>1, <3>1 DEF ReapTells, CancelIsTold
    <3>2. CASE action # "ERROR"
      <4>1. /\ action = "NORMAL" /\ result[i] = "proto"
            /\ status' = IF status = "COMPLETED" THEN "ERROR" ELSE status
        BY <2>1, <2>4, <3>2 DEF ReapTells
      <4>2. status # "STALL"
        BY <1>0, <2>1, <4>1 DEF StallIsLast
      <4> QED
        BY <2>3, <4>1, <4>2
    <3> QED
      BY <3>1, <3>2
  <2>5. action' = "CANCELLED" => action = "CANCELLED"
    BY <2>1 DEF ReapTells
  <2>6. cancel = "ok" => action' \in {"CANCELLED", "ERROR"}
    BY <1>0, <2>1 DEF ReapTells, CancelIsTold
  <2>7. status' = "OVERFLOW" => phase' = "finished"
    BY <1>0, <2>1 DEF ReapTells, CancelIsTold
  <2> QED
    BY <1>0, <2>1, <2>2, <2>4, <2>5, <2>6, <2>7 DEF CancelIsTold
<1> QED
  BY <1>2, <1>3, <1>4, <1>5, <1>6, Steps

\* What the callback finds is what the dongle sent.
AllThere == transferred = sent /\ \A o \in 1..transferred : buf[o] = o

\* It does when all URBs are back.
LEMMA BackIsAll == DataInv /\ AllBack => AllThere
<1> SUFFICES ASSUME DataInv, AllBack PROVE AllThere
  OBVIOUS
<1>1. PICK f \in [0..N -> Nat] : Data(f)
  BY DEF DataInv
<1>2. PICK m \in 0..N : Prefix(f, m)
  BY <1>1 DEF Data
<1>3. \A i \in Urbs : m < i /\ i <= N => got[i] = 0
  BY <1>2 DEF AllBack, DataInv, DataInOrder, Prefix
<1>4. m <= N /\ N \in 0..N
  BY BulkAssumption
<1>5. f[m] = f[N]
  BY <1>1, <1>3, <1>4 DEF Data, SumsOf
<1> QED
  BY <1>1, <1>2, <1>5 DEF Data, SumsOf, Placed, Prefix, AllThere

AllFull == \A i \in Urbs : got[i] = L

\* What is full is N times L bytes.
LEMMA FullIsAll == DataInv /\ AllFull => sent = N * L
<1> SUFFICES ASSUME DataInv, AllFull PROVE sent = N * L
  OBVIOUS
<1>1. PICK f \in [0..N -> Nat] : Data(f)
  BY DEF DataInv
<1>2. N \in 0..N
  BY BulkAssumption
<1>3. f[N] = N * L
  BY <1>1, <1>2 DEF Data, SumsOf, AllFull
<1> QED
  BY <1>1, <1>3 DEF Data, SumsOf

\* When the last URB is reaped full, and the transfer looked normal, all are
\* full.
LEMMA LastFull ==
  ASSUME FullInv, ReapOne(N), result[N] \in {"ok", "remoteio"}, ~(got[N] < L),
         action = "NORMAL", status = "COMPLETED", [Next]_vars
  PROVE  transferred' = N * L
<1>0. /\ Types /\ DoneIsListed /\ ResultIsLate /\ LockIsHeld /\ SubmittedInOrder
      /\ LastServed /\ DataInOrder /\ DataTypes /\ ShortIsTold /\ DataInv
      /\ N \in Urbs
  BY WordFacts, LastUrb DEF FullInv
<1>1. /\ Reap(N) /\ UNCHANGED <<got, result>>
      /\ where[N] = "done" /\ where'[N] = "reaped"
      /\ \A j \in Urbs \ {N} : where'[j] = where[j]
  BY <1>0, ReapWords
<1>2. done[1] = N /\ Len(done) \in Nat /\ Len(done) > 0
  BY <1>0, <1>1, ReapFacts DEF Types
<1>3. got[N] = L /\ L > 0
  BY <1>0, BulkAssumption DEF DataTypes
<1>4. \A j \in Urbs : where[j] \notin {"unsent", "kernel"}
  BY <1>0 DEF LastServed
<1>5. ASSUME NEW j \in Urbs, j # N PROVE where[j] = "reaped"
  <2>1. where[j] # "done"
    <3> SUFFICES ASSUME where[j] = "done" PROVE FALSE
      OBVIOUS
    <3>1. PICK q \in 1..Len(done) : done[q] = j
      BY <1>0 DEF DoneIsListed
    <3>2. 1 \in 1..Len(done) /\ 1 < q
      BY <1>2, <1>5, <3>1
    <3>3. done[1] > done[q]
      BY <1>2, <1>5, <3>1, LastUrb DEF Urbs
    <3>4. got[N] = 0
      BY <1>0, <1>2, <3>2, <3>3 DEF DataInOrder
    <3> QED
      BY <1>3, <3>4
  <2> QED
    BY <1>0, <1>4, <2>1 DEF Types
<1>6. \A j \in Urbs : got[j] = L
  <2>1. \A j \in Urbs : j # N => j < N
    BY LastUrb DEF Urbs
  <2> QED
    BY <1>0, <1>3, <1>5, <2>1 DEF ShortIsTold
<1>7. AllBack'
  BY <1>1, <1>5 DEF AllBack
<1>8. DataInv'
  BY <1>0, DataKept
<1>9. transferred' = sent'
  <2>1. DataInv' /\ AllBack' => AllThere'
    BY BackIsAll, PTL
  <2> QED
    BY <1>7, <1>8, <2>1 DEF AllThere
<1>10. sent' = N * L
  <2>1. DataInv' /\ AllFull' => (sent = N * L)'
    BY FullIsAll, PTL
  <2>2. AllFull'
    BY <1>1, <1>6 DEF AllFull
  <2> QED
    BY <1>8, <2>1, <2>2
<1> QED
  BY <1>9, <1>10

\* What is told to be complete is complete, or was ended early by the dongle.
LEMMA CompletedIsTrueKept ==
  ASSUME FullInv, [Next]_vars
  PROVE  CompletedIsTrue'
<1>0. /\ Types /\ ResultIsLate /\ LockIsHeld /\ DoneIsListed /\ DataTypes
      /\ StoppedEarly /\ DiscardedIsTold /\ CompletedIsTrue /\ CancelIsTold
      /\ ShortIsTold'
  BY WordFacts, ShortIsToldKept
<1>1. EndedEarly => EndedEarly'
  BY EndedStays
<1>2. ASSUME UNCHANGED <<status, report, cancel, transferred, action>>,
             phase' = "finished" => phase = "finished"
      PROVE  CompletedIsTrue'
  BY <1>0, <1>1, <1>2 DEF CompletedIsTrue, WholeOrEarly
<1>3. CASE KernelStep
  BY <1>2, <1>3, KernelWords
<1>4. CASE SubmitOne
  <2>1. phase' \in {"submitting", "submitted", "refused"}
        /\ phase = "submitting" /\ UNCHANGED report
    BY <1>4, SubmitWords
  <2> QED
    BY <1>0, <2>1 DEF CompletedIsTrue, CancelIsTold
<1>5. CASE DiscardOne
  BY <1>0, <1>2, <1>5, DiscardWords
<1>6. CASE SubmitEnds \/ CancelStep \/ EndStep \/ UNCHANGED vars
  <2>1. UNCHANGED <<status, transferred>>
    BY <1>6, QuietWords
  <2>2. CASE phase = "finished" /\ phase' = "reported"
    <3>1. /\ report' = IF action = "CANCELLED" THEN "CANCELLED" ELSE status
          /\ UNCHANGED <<action, cancel>>
      BY <1>6, <2>2, QuietWords
    <3> QED
      BY <1>0, <1>1, <2>1, <2>2, <3>1 DEF CompletedIsTrue, WholeOrEarly
  <2>3. CASE ~(phase = "finished" /\ phase' = "reported")
    <3>1. report' \in {report, "NO_DEVICE"}
          /\ (phase' = "finished" =>
                phase = "finished" /\ action' = action)
      BY <1>0, <1>6, <2>3, QuietWords DEF LockIsHeld
    <3>2. cancel = "nodevice" => cancel' = "nodevice"
      BY <1>0, <1>6, QuietWords DEF LockIsHeld
    <3> QED
      BY <1>0, <1>1, <2>1, <3>1, <3>2 DEF CompletedIsTrue, WholeOrEarly
  <2> QED
    BY <2>2, <2>3
<1>7. ASSUME NEW i \in Urbs, ReapOne(i) PROVE CompletedIsTrue'
  <2>1. /\ ReapTells(i) /\ UNCHANGED <<report, cancel, got, result>>
        /\ phase = "submitted" /\ lock = "free"
    BY <1>7, ReapWords
  <2>2. report' = "none"
    BY <1>0, <2>1 DEF CancelIsTold
  <2> SUFFICES ASSUME phase' = "finished", action' # "CANCELLED",
                      status' = "COMPLETED"
               PROVE  WholeOrEarly'
    BY <2>2 DEF CompletedIsTrue
  <2>3. CASE action' = "COMPLETED_EARLY"
    BY <1>0, <2>3 DEF ShortIsTold, WholeOrEarly
  <2>4. CASE action' # "COMPLETED_EARLY"
    <3>1. /\ action = "NORMAL" /\ status = "COMPLETED" /\ i = N
          /\ result[i] \in {"ok", "remoteio", "noent", "connreset"}
      BY <2>1, <2>4 DEF ReapTells
    <3>2. CASE result[i] = "connreset"
      BY <1>0, <1>1, <3>2 DEF StoppedEarly, WholeOrEarly
    <3>3. CASE result[i] = "noent"
      BY <1>0, <2>1, <3>1, <3>3 DEF DiscardedIsTold, WholeOrEarly
    <3>4. CASE result[i] \in {"ok", "remoteio"}
      <4>1. CASE got[i] < L
        BY <1>1, <3>4, <4>1 DEF EndedEarly, WholeOrEarly
      <4>2. CASE ~(got[i] < L)
        BY <1>7, <3>1, <3>4, <4>2, LastFull DEF WholeOrEarly
      <4> QED
        BY <4>1, <4>2
    <3> QED
      BY <3>1, <3>2, <3>3, <3>4
  <2> QED
    BY <2>3, <2>4
<1> QED
  BY <1>3, <1>4, <1>5, <1>6, <1>7, Steps

\* At the start nothing was told.
LEMMA InitWords == Init => WordInv
<1> SUFFICES ASSUME Init PROVE WordInv
  OBVIOUS
<1>1. /\ where = [i \in Urbs |-> "unsent"] /\ result = [i \in Urbs |-> "none"]
      /\ done = <<>> /\ stopped = FALSE /\ action = "NORMAL"
      /\ status = "COMPLETED" /\ lock = "submit" /\ phase = "submitting"
      /\ cancel = "none" /\ report = "none" /\ N \in Urbs
  BY LastUrb DEF Init
<1>2. WordTypes /\ LastServed /\ StoppedEarly
  BY <1>1 DEF WordTypes, Statuses, LastServed, StoppedEarly
<1>3. DiscardedIsTold /\ ShortIsTold
  BY <1>1 DEF DiscardedIsTold, ShortIsTold
<1>4. CompletedIsTrue /\ StallIsLast /\ CancelIsTold
  BY <1>1 DEF CompletedIsTrue, StallIsLast, CancelIsTold
<1> QED
  BY <1>1, <1>2, <1>3, <1>4 DEF WordInv

-----------------------------------------------------------------------------
(* No transfer is forgotten.                                               *)

\* A submission that failed has submitted the first URB.
FirstIsOut ==
  phase = "submitting" /\ action # "NORMAL" => where[1] # "unsent"

\* The last URB, if it stalled, comes back last ...
StallComesLast ==
  result[N] = "stall" /\ where[N] = "done" =>
    Len(done) > 0 /\ done[Len(done)] = N

\* ... so that the handler, once it has the last URB and goes on as if nothing had
\* happened, has lost the device, ...
LastReapedIsGone ==
  phase = "submitted" /\ action = "NORMAL" /\ where[N] = "reaped" =>
    result[N] = "nodev"

\* ... whose URBs come back so, or short ...
Late(i) == result[i] = "nodev" \/ (result[i] = "connreset" /\ got[i] < L)

\* ... when they come behind the last one, ...
BehindGone ==
  result[N] = "nodev" =>
    \A q \in 1..Len(done) :
      \/ where[N] = "reaped"
      \/ \E p \in 1..Len(done) : p < q /\ done[p] = N
      => Late(done[q])

\* ... because what the kernel stopped was not full.
RestIsShort == stopped => \A i \in Pending : got[i] < L

StillOut ==
  /\ FirstIsOut /\ StallComesLast /\ LastReapedIsGone /\ BehindGone
  /\ RestIsShort /\ IsNotForgotten

\* The first URB is the first to be submitted.
LEMMA FirstIsOutKept ==
  ASSUME FullInv, FirstIsOut, [Next]_vars
  PROVE  FirstIsOut'
<1>0. /\ Types /\ DoneIsListed /\ SubmittedInOrder /\ ResultIsLate
      /\ 1 \in Urbs
  BY WordFacts, LastUrb DEF Urbs
<1>1. where[1] # "unsent" => where'[1] # "unsent"
  <2>1. where[1] \notin {"unsent", "kernel"} => where'[1] # "unsent"
    BY <1>0, Moves
  <2>2. ASSUME NEW i \in Pending, NEW r \in Results, GiveBack(i, r)
        PROVE  where'[1] = where[1] \/ where'[1] = "done"
    BY <1>0, <2>2, GiveBackFacts
  <2>3. CASE where[1] = "kernel"
    <3>1. CASE KernelStep
      BY <1>0, <2>2, <2>3, <3>1, KernelFacts
    <3>2. CASE SubmitOne
      BY <1>0, <2>3, <3>2, SubmitFacts, SubmitWhere
    <3>3. CASE DiscardOne
      BY <1>0, <2>2, <2>3, <3>3, DiscardFacts DEF Results
    <3>4. ASSUME NEW i \in Urbs, ReapOne(i) PROVE where'[1] # "unsent"
      BY <1>0, <2>3, <3>4, ReapWords
    <3>5. CASE SubmitEnds \/ CancelStep \/ EndStep \/ UNCHANGED vars
      BY <2>3, <3>5, QuietFacts
    <3> QED
      BY <3>1, <3>2, <3>3, <3>4, <3>5, Steps
  <2> QED
    BY <1>0, <2>1, <2>3 DEF Types
<1> SUFFICES ASSUME phase' = "submitting", action' # "NORMAL",
                    phase # "submitting" \/ action = "NORMAL"
             PROVE  where[1] # "unsent"
  BY <1>1 DEF FirstIsOut
<1>2. CASE SubmitOne
  <2>1. PICK i \in Urbs : SubmitEffect(i)
    BY <1>2, SubmitFacts
  <2>2. i > 1
    BY <1>2, <2>1 DEF SubmitEffect, Submitting
  <2> QED
    BY <2>1, <2>2 DEF SubmitEffect, Submitting, Urbs
<1>3. CASE KernelStep
  BY <1>3, KernelWords
<1>4. CASE DiscardOne
  BY <1>0, <1>4, DiscardWords
<1>5. ASSUME NEW i \in Urbs, ReapOne(i) PROVE FALSE
  BY <1>5, ReapWords DEF ReapTells
<1>6. CASE SubmitEnds \/ CancelStep \/ EndStep \/ UNCHANGED vars
  <2>1. lock = "cancel" => phase # "submitting"
    BY WordFacts DEF LockIsHeld
  <2> QED
    BY <1>6, <2>1, QuietWords
<1> QED
  BY <1>2, <1>3, <1>4, <1>5, <1>6, Steps

\* What the kernel stops has received nothing but in its first URB, which ended
\* short, or was the last.
LEMMA RestIsShortKept ==
  ASSUME FullInv, RestIsShort, [Next]_vars
  PROVE  RestIsShort'
<1>0. /\ Types /\ DoneIsListed /\ ResultIsLate /\ SubmittedInOrder
      /\ DataTypes /\ DataInOrder /\ 0 < L
  BY WordFacts, BulkAssumption
<1>1. CASE UNCHANGED <<where, got, stopped>>
  BY <1>1 DEF RestIsShort, Pending
<1>2. ASSUME NEW i \in Pending, NEW r \in Results, GiveBack(i, r), got' = got,
             stopped' => stopped \/ Served(i)
      PROVE  RestIsShort'
  <2> SUFFICES ASSUME stopped', NEW j \in Pending' PROVE got[j] < L
    BY <1>2 DEF RestIsShort
  <2>1. j \in Urbs /\ j # i /\ where[j] = "kernel" /\ i \in Urbs
        /\ where[i] = "kernel"
    BY <1>0, <1>2, GiveBackFacts DEF Pending
  <2>2. CASE stopped
    BY <2>1, <2>2 DEF RestIsShort, Pending
  <2>3. CASE Served(i)
    <3>1. i < j
      BY <2>1, <2>3 DEF Served, Pending, Urbs
    <3> QED
      BY <1>0, <2>1, <3>1 DEF DataInOrder
  <2> QED
    BY <1>2, <2>2, <2>3
<1>3. CASE KernelStep
  <2>1. ASSUME NEW i \in Urbs, Receive(i) PROVE ~stopped /\ stopped' = stopped
    BY <2>1 DEF Receive, Serving
  <2>2. ASSUME NEW i \in Urbs,
               \/ CompleteFull(i) \/ CompleteShort(i) \/ CompleteFailed(i)
               \/ GiveBackRest(i) \/ CompleteGone(i)
        PROVE  RestIsShort'
    <3>1. stopped' => stopped \/ Served(i)
      BY <2>2 DEF CompleteFull, CompleteShort, CompleteFailed, GiveBackRest,
         CompleteGone, Serving
    <3>2. \E r \in Results : i \in Pending /\ GiveBack(i, r) /\ got' = got
      BY <1>0, <2>2, GivenBack
    <3> QED
      BY <1>2, <3>1, <3>2
  <2> QED
    BY <1>1, <1>3, <2>1, <2>2, KernelWords DEF RestIsShort
<1>4. CASE SubmitOne
  <2>1. PICK i \in Urbs : SubmitEffect(i)
    BY <1>4, SubmitFacts
  <2>2. UNCHANGED <<got, stopped>>
    BY <1>4, SubmitWords
  <2>3. where[i] = "unsent" /\ \A j \in Urbs \ {i} : where'[j] = where[j]
    BY <1>0, <2>1, SubmitWhere
  <2>4. got[i] = 0
    BY <1>0, <2>3 DEF DataInOrder
  <2> QED
    BY <1>0, <2>2, <2>3, <2>4 DEF RestIsShort, Pending
<1>5. CASE DiscardOne
  <2>1. stopped' = stopped /\ got' = got
    BY <1>0, <1>5, DiscardWords
  <2> QED
    BY <1>0, <1>1, <1>2, <1>5, <2>1, DiscardWords DEF Results
<1>6. ASSUME NEW i \in Urbs, ReapOne(i) PROVE RestIsShort'
  <2>1. /\ where[i] = "done" /\ where'[i] = "reaped" /\ got' = got
        /\ \A j \in Urbs \ {i} : where'[j] = where[j]
    BY <1>6, ReapWords
  <2>2. stopped' = stopped
    BY <1>0, <1>6, ReapWords, ReapFacts
  <2> QED
    BY <2>1, <2>2 DEF RestIsShort, Pending
<1>7. CASE SubmitEnds \/ CancelStep \/ EndStep \/ UNCHANGED vars
  BY <1>1, <1>7, QuietWords
<1> QED
  BY <1>3, <1>4, <1>5, <1>6, <1>7, Steps

\* The last URB has stalled, and nothing was left in the kernel.
LEMMA StallComesLastKept ==
  ASSUME FullInv, StallComesLast, [Next]_vars
  PROVE  StallComesLast'
<1>0. /\ Types /\ DoneIsListed /\ ResultIsLate /\ LastServed /\ N \in Urbs
  BY WordFacts, LastUrb
<1>1. CASE UNCHANGED <<where, result, done>>
  BY <1>1 DEF StallComesLast
<1>2. ASSUME NEW i \in Pending, NEW r \in Results, GiveBack(i, r)
      PROVE  StallComesLast'
  <2>1. /\ Len(done') = Len(done) + 1 /\ done'[Len(done) + 1] = i
        /\ Len(done) \in Nat /\ i \in Urbs /\ where[i] = "kernel"
        /\ \A j \in Urbs \ {i} : where'[j] = where[j] /\ result'[j] = result[j]
    BY <1>0, <1>2, GiveBackFacts DEF Types, Pending
  <2>2. CASE i = N
    BY <2>1, <2>2 DEF StallComesLast
  <2>3. CASE i # N
    <3>1. result'[N] # "stall"
      BY <1>0, <2>1, <2>3 DEF LastServed
    <3> QED
      BY <3>1 DEF StallComesLast
  <2> QED
    BY <2>2, <2>3
<1>3. CASE KernelStep
  BY <1>0, <1>1, <1>2, <1>3, KernelFacts
<1>4. CASE SubmitOne
  <2>1. PICK i \in Urbs : SubmitEffect(i)
    BY <1>4, SubmitFacts
  <2>2. UNCHANGED <<result, done>>
    BY <2>1 DEF SubmitEffect
  <2>3. where'[N] = "done" => where[N] = "done"
    BY <1>0, <2>1, SubmitWhere
  <2> QED
    BY <2>2, <2>3 DEF StallComesLast
<1>5. CASE DiscardOne
  BY <1>0, <1>1, <1>2, <1>5, DiscardFacts DEF Results
<1>6. ASSUME NEW i \in Urbs, ReapOne(i) PROVE StallComesLast'
  <2>1. /\ where'[i] = "reaped" /\ result' = result
        /\ \A j \in Urbs \ {i} : where'[j] = where[j]
    BY <1>6, ReapWords
  <2>2. Reap(i)
    BY <1>6, ReapWords
  <2>3. /\ done[1] = i /\ Len(done) \in Nat /\ Len(done) > 0
        /\ Len(done') = Len(done) - 1
        /\ \A p \in 1..Len(done') : done'[p] = done[p + 1]
    BY <1>0, <2>2, ReapFacts DEF Types
  <2> SUFFICES ASSUME result[N] = "stall", where'[N] = "done"
               PROVE  Len(done') > 0 /\ done'[Len(done')] = N
    BY <2>1 DEF StallComesLast
  <2>4. N # i /\ where[N] = "done"
    BY <1>0, <2>1
  <2>5. done[Len(done)] = N
    BY <2>4 DEF StallComesLast
  <2>6. Len(done) # 1
    BY <2>3, <2>4, <2>5
  <2> QED
    BY <2>3, <2>5, <2>6
<1>7. CASE SubmitEnds \/ CancelStep \/ EndStep \/ UNCHANGED vars
  BY <1>1, <1>7, QuietFacts
<1> QED
  BY <1>3, <1>4, <1>5, <1>6, <1>7, Steps

\* When all others are reaped the counter says so.
LEMMA BackMeansAllRetired ==
  ASSUME FullInv, phase = "submitted", NEW i \in Urbs, where[i] = "done",
         \A j \in Urbs \ {i} : where[j] \in {"unsent", "reaped"}
  PROVE  AllRetired
<1>1. Types /\ RetiredCounts
  BY DEF FullInv, IInv
<1>2. retired = Cardinality(Back)
  BY <1>1 DEF RetiredCounts
<1>3. Back = Urbs \ {i}
  BY DEF Back
<1>4. Cardinality(Urbs \ {i}) = N - 1
  BY UrbsAreN, FS_RemoveElement
<1> QED
  BY <1>2, <1>3, <1>4, BulkAssumption DEF AllRetired

\* Whoever goes on behind the last URB has found the device gone.
LEMMA LastReapedIsGoneKept ==
  ASSUME FullInv, StallComesLast, LastReapedIsGone, [Next]_vars
  PROVE  LastReapedIsGone'
<1>0. /\ Types /\ DoneIsListed /\ ResultIsLate /\ SubmittedInOrder
      /\ LockIsHeld /\ LastServed /\ N \in Urbs
  BY WordFacts, LastUrb
<1>1. ASSUME where'[N] = "reaped" => where[N] = "reaped",
             phase' = "submitted" /\ action' = "NORMAL" =>
               \/ phase = "submitted" /\ action = "NORMAL"
               \/ where[N] # "reaped"
      PROVE  LastReapedIsGone'
  <2>1. where[N] = "reaped" => result[N] # "none"
    BY <1>0 DEF LastServed
  <2>2. result[N] # "none" => result'[N] = result[N]
    BY <1>0, Moves
  <2> QED
    BY <1>1, <2>1, <2>2 DEF LastReapedIsGone
<1>2. ASSUME NEW i \in Pending, NEW r \in Results, GiveBack(i, r)
      PROVE  where'[N] = "reaped" => where[N] = "reaped"
  BY <1>0, <1>2, GiveBackFacts
<1>3. CASE KernelStep
  BY <1>0, <1>1, <1>2, <1>3, KernelFacts
<1>4. CASE SubmitOne
  <2>1. phase = "submitting"
    BY <1>4, SubmitWords
  <2>2. where'[N] = "reaped" => where[N] = "reaped"
    BY <1>0, <1>4, SubmitFacts, SubmitWhere
  <2>3. where[N] # "reaped"
    BY <1>0, <2>1 DEF SubmittedInOrder
  <2> QED
    BY <1>1, <2>2, <2>3
<1>5. CASE DiscardOne
  BY <1>0, <1>1, <1>2, <1>5, DiscardFacts DEF Results
<1>6. ASSUME NEW i \in Urbs, ReapOne(i) PROVE LastReapedIsGone'
  <2>1. /\ ReapTells(i) /\ Reap(i) /\ phase = "submitted" /\ result' = result
        /\ where[i] = "done" /\ where'[i] = "reaped"
        /\ \A j \in Urbs \ {i} : where'[j] = where[j]
    BY <1>6, ReapWords
  <2>2. action' = "NORMAL" => action = "NORMAL"
    BY <2>1 DEF ReapTells
  <2>3. CASE i # N
    BY <1>0, <1>1, <2>1, <2>2, <2>3
  <2>4. CASE i = N
    <3> SUFFICES ASSUME phase' = "submitted", action' = "NORMAL",
                        result[N] # "nodev"
                 PROVE  FALSE
      BY <2>1 DEF LastReapedIsGone
    <3>1. result[N] = "stall" /\ action = "NORMAL"
      BY <2>1, <2>2, <2>4 DEF ReapTells
    <3>2. ~AllRetired
      <4>1. ReapStalled(i)
        BY <1>6, <2>4, <3>1 DEF ReapOne, ReapAbnormal, ReapGood, ReapOverflow,
           ReapError
      <4> QED
        BY <4>1 DEF ReapStalled, CancelRemaining, Finish
    <3>3. Len(done) \in Nat /\ Len(done) > 0 /\ done[1] = N
      BY <1>0, <2>1, <2>4, ReapFacts DEF Types
    <3>4. done[Len(done)] = N
      BY <2>1, <2>4, <3>1 DEF StallComesLast
    <3>5. Len(done) = 1
      BY <1>0, <3>3, <3>4, SMTT(60) DEF DoneIsListed
    <3>6. ASSUME NEW j \in Urbs \ {N} PROVE where[j] = "reaped"
      <4>1. where[j] # "done"
        BY <1>0, <3>3, <3>5 DEF DoneIsListed
      <4>2. where[j] \notin {"unsent", "kernel"}
        BY <1>0, <3>1 DEF LastServed
      <4> QED
        BY <1>0, <4>1, <4>2 DEF Types
    <3> QED
      BY <1>0, <2>1, <2>4, <3>2, <3>6, BackMeansAllRetired
  <2> QED
    BY <2>3, <2>4
<1>7. CASE SubmitEnds \/ CancelStep \/ EndStep \/ UNCHANGED vars
  <2>1. where' = where
    BY <1>7, QuietWords
  <2>2. lock = "cancel" => phase = "submitted"
    BY <1>0 DEF LockIsHeld
  <2>3. phase = "submitting" => where[N] # "reaped"
    BY <1>0 DEF SubmittedInOrder
  <2>4. \/ phase' = "submitted" /\ action' = "NORMAL" =>
             phase = "submitted" /\ action = "NORMAL"
        \/ phase = "submitting"
    BY <1>7, <2>2, QuietWords
  <2> QED
    BY <1>1, <2>1, <2>3, <2>4
<1> QED
  BY <1>3, <1>4, <1>5, <1>6, <1>7, Steps

\* What comes behind the last URB of a transfer whose device is gone is late.
LEMMA BehindGoneKept ==
  ASSUME FullInv, RestIsShort, BehindGone, [Next]_vars
  PROVE  BehindGone'
<1>0. /\ Types /\ DoneIsListed /\ ResultIsLate /\ LastServed
      /\ TornDownIsStopped /\ N \in Urbs
      /\ done \in Seq(Urbs) /\ Len(done) \in Nat
  BY WordFacts, LastUrb DEF Types
<1> DEFINE Later(j) == \/ result'[j] = "nodev"
                       \/ result'[j] = "connreset" /\ got'[j] < L
<1>1. ASSUME NEW q \in 1..Len(done), Late(done[q]) PROVE Later(done[q])
  <2>1. done[q] \in Urbs /\ result[done[q]] # "none"
    BY <1>0, <1>1 DEF Late
  <2> DEFINE j == done[q]
  <2>2. result'[j] = result[j] /\ got'[j] = got[j]
    BY <2>1, Moves
  <2> QED
    BY <1>1, <2>2 DEF Late
<1>2. CASE UNCHANGED <<where, result, got, done>>
  BY <1>2 DEF BehindGone, Late
<1>3. ASSUME NEW i \in Pending, NEW r \in Results, GiveBack(i, r), got' = got,
             result[N] = "nodev" =>
               \/ r = "nodev"
               \/ r = "connreset" /\ got[i] < L
      PROVE  BehindGone'
  <2>1. /\ Len(done') = Len(done) + 1 /\ done'[Len(done) + 1] = i
        /\ where'[i] = "done" /\ result'[i] = r
        /\ \A j \in Urbs \ {i} : where'[j] = where[j] /\ result'[j] = result[j]
        /\ i \in Urbs /\ where[i] = "kernel"
    BY <1>0, <1>3, GiveBackFacts DEF Pending
  <2>2. \A p \in 1..Len(done) : done'[p] = done[p]
    BY <1>0, <1>3 DEF GiveBack
  <2> SUFFICES ASSUME result'[N] = "nodev", NEW q \in 1..Len(done'),
                      \/ where'[N] = "reaped"
                      \/ \E p \in 1..Len(done') : p < q /\ done'[p] = N
               PROVE  Later(done'[q])
    BY DEF BehindGone, Late
  <2>3. CASE i = N
    <3>1. where'[N] # "reaped"
      BY <2>1, <2>3
    <3>2. PICK p \in 1..Len(done') : p < q /\ done'[p] = N
      BY <3>1
    <3>3. p \in 1..Len(done) /\ done[p] = N
      BY <1>0, <2>1, <2>2, <3>2
    <3> QED
      BY <1>0, <2>1, <2>3, <3>3 DEF DoneIsListed
  <2>4. CASE i # N
    <3>1. result[N] = "nodev" /\ where'[N] = where[N]
      BY <1>0, <2>1, <2>4
    <3>2. CASE q = Len(done) + 1
      BY <1>3, <2>1, <3>1, <3>2 DEF Late
    <3>3. CASE q # Len(done) + 1
      <4>1. q \in 1..Len(done) /\ done'[q] = done[q]
        BY <1>0, <2>1, <2>2, <3>3
      <4>2. where[N] = "reaped" \/ \E p \in 1..Len(done) : p < q /\ done[p] = N
        <5>1. ASSUME NEW p \in 1..Len(done'), p < q
              PROVE  p \in 1..Len(done) /\ done'[p] = done[p]
          BY <1>0, <2>1, <2>2, <4>1, <5>1
        <5> QED
          BY <3>1, <5>1
      <4>3. Late(done[q])
        BY <3>1, <4>1, <4>2 DEF BehindGone
      <4>4. Later(done[q])
        BY <1>1, <4>1, <4>3
      <4> QED
        BY <4>1, <4>4 DEF Late
    <3> QED
      BY <3>2, <3>3
  <2> QED
    BY <2>3, <2>4
<1>4. result[N] = "nodev" => device = "gone"
  BY <1>0 DEF TornDownIsStopped
<1>5. CASE KernelStep
  <2>1. ASSUME NEW i \in Urbs, Receive(i) PROVE result[N] # "nodev"
    BY <1>4, <2>1 DEF Receive, Serving
  <2>2. ASSUME NEW i \in Urbs, CompleteFull(i) \/ CompleteShort(i)
                               \/ CompleteFailed(i)
        PROVE  result[N] # "nodev"
    BY <1>4, <2>2 DEF CompleteFull, CompleteShort, CompleteFailed, Serving
  <2>3. ASSUME NEW i \in Urbs,
               \/ CompleteFull(i) \/ CompleteShort(i) \/ CompleteFailed(i)
        PROVE  BehindGone'
    BY <1>0, <1>3, <2>2, <2>3, GivenBack
  <2>4. ASSUME NEW i \in Urbs, GiveBackRest(i) PROVE BehindGone'
    <3>1. /\ stopped /\ i \in Pending /\ GiveBack(i, "connreset") /\ got' = got
      BY <2>4 DEF GiveBackRest, Served
    <3>2. got[i] < L
      BY <3>1 DEF RestIsShort
    <3> QED
      BY <1>3, <3>1, <3>2 DEF Results
  <2>5. ASSUME NEW i \in Urbs, CompleteGone(i) PROVE BehindGone'
    BY <1>3, <2>5 DEF CompleteGone, Results
  <2>6. UNCHANGED result /\ result[N] # "nodev" => BehindGone'
    BY DEF BehindGone
  <2> QED
    BY <1>2, <1>5, <2>1, <2>3, <2>4, <2>5, <2>6, KernelWords
<1>6. CASE SubmitOne
  <2>1. UNCHANGED <<result, got, done>>
    BY <1>6, SubmitWords
  <2>2. where'[N] = "reaped" => where[N] = "reaped"
    BY <1>0, <1>6, SubmitFacts, SubmitWhere
  <2> QED
    BY <2>1, <2>2 DEF BehindGone, Late
<1>7. CASE DiscardOne
  <2>1. CASE UNCHANGED <<where, result, done>>
    BY <1>0, <1>2, <1>7, <2>1, DiscardWords
  <2>2. CASE ~UNCHANGED <<where, result, done>>
    <3>1. result[N] # "nodev"
      BY <1>0, <1>4, <1>7, <2>2, DiscardFacts
    <3>2. disc.next \in Pending /\ GiveBack(disc.next, "noent") /\ got' = got
      BY <1>0, <1>7, <2>2, DiscardWords
    <3> QED
      BY <1>3, <3>1, <3>2 DEF Results
  <2> QED
    BY <2>1, <2>2
<1>8. ASSUME NEW i \in Urbs, ReapOne(i) PROVE BehindGone'
  <2>1. /\ Reap(i) /\ where[i] = "done" /\ where'[i] = "reaped"
        /\ UNCHANGED <<result, got>>
        /\ \A j \in Urbs \ {i} : where'[j] = where[j]
    BY <1>8, ReapWords
  <2>2. /\ done[1] = i /\ Len(done) > 0 /\ Len(done') = Len(done) - 1
        /\ \A p \in 1..Len(done') : done'[p] = done[p + 1]
    BY <1>0, <2>1, ReapFacts
  <2> SUFFICES ASSUME result[N] = "nodev", NEW q \in 1..Len(done'),
                      \/ where'[N] = "reaped"
                      \/ \E p \in 1..Len(done') : p < q /\ done'[p] = N
               PROVE  Later(done'[q])
    BY <2>1 DEF BehindGone, Late
  <2>3. /\ 1 \in 1..Len(done) /\ q + 1 \in 1..Len(done) /\ 1 < q + 1
        /\ done'[q] = done[q + 1]
    BY <1>0, <2>2
  <2>4. \/ where[N] = "reaped"
        \/ \E p \in 1..Len(done) : p < q + 1 /\ done[p] = N
    <3>1. CASE i = N
      BY <2>2, <2>3, <3>1
    <3>2. CASE i # N /\ where'[N] = "reaped"
      BY <1>0, <2>1, <3>2
    <3>3. CASE \E p \in 1..Len(done') : p < q /\ done'[p] = N
      <4>1. PICK p \in 1..Len(done') : p < q /\ done'[p] = N
        BY <3>3
      <4>2. p + 1 \in 1..Len(done) /\ p + 1 < q + 1 /\ done[p + 1] = N
        BY <1>0, <2>2, <4>1
      <4> QED
        BY <4>2
    <3> QED
      BY <3>1, <3>2, <3>3
  <2>5. Late(done[q + 1])
    BY <2>3, <2>4 DEF BehindGone
  <2> QED
    BY <2>1, <2>3, <2>5 DEF Late
<1>9. CASE SubmitEnds \/ CancelStep \/ EndStep \/ UNCHANGED vars
  BY <1>2, <1>9, QuietWords
<1> QED
  BY <1>5, <1>6, <1>7, <1>8, <1>9, Steps

\* Somebody is still out, or the transfer has finished.
LEMMA IsNotForgottenKept ==
  ASSUME FullInv, StillOut, [Next]_vars
  PROVE  IsNotForgotten'
<1>0. /\ Types /\ DoneIsListed /\ ResultIsLate /\ SubmittedInOrder
      /\ LockIsHeld /\ N \in Urbs /\ 1 \in Urbs
      /\ FirstIsOut /\ LastReapedIsGone /\ BehindGone /\ IsNotForgotten
  BY WordFacts, LastUrb DEF StillOut, Urbs
<1>1. phase = "submitting" /\ where[1] # "unsent" => ~AllBack
  BY <1>0 DEF AllBack, SubmittedInOrder
<1>2. CASE UNCHANGED <<phase, where>>
  BY <1>0, <1>2 DEF IsNotForgotten, AllBack
<1>3. ASSUME NEW i \in Pending, NEW r \in Results, GiveBack(i, r)
      PROVE  IsNotForgotten'
  <2>1. where'[i] = "done" /\ i \in Urbs
    BY <1>0, <1>3, GiveBackFacts DEF Pending
  <2> QED
    BY <2>1 DEF IsNotForgotten, AllBack
<1>4. CASE KernelStep
  BY <1>0, <1>2, <1>3, <1>4, KernelFacts
<1>5. CASE SubmitOne
  <2> SUFFICES ASSUME phase' = "submitted" PROVE ~AllBack'
    BY DEF IsNotForgotten
  <2>1. PICK i \in Urbs : SubmitRefused(i)
    BY <1>5 DEF SubmitOne, FirstUrbFails, SubmitUrb, LaterUrbFails, Submitting,
       callVars
  <2>2. Submitting(i) /\ i > 1 /\ where' = where
    BY <2>1 DEF SubmitRefused, Refuses, kernelVars
  <2>3. phase = "submitting" /\ where[1] # "unsent"
    BY <2>2 DEF Submitting, Urbs
  <2> QED
    BY <1>1, <2>2, <2>3 DEF AllBack
<1>6. CASE SubmitEnds
  <2>1. /\ phase = "submitting" /\ where' = where
        /\ action = "SUBMIT_FAILED" \/ where[1] # "unsent"
    BY <1>0, <1>6 DEF SubmitEnds, kernelVars
  <2>2. where[1] # "unsent"
    BY <1>0, <2>1 DEF FirstIsOut
  <2> QED
    BY <1>1, <2>1, <2>2 DEF IsNotForgotten, AllBack
<1>7. CASE DiscardOne
  BY <1>0, <1>2, <1>3, <1>7, DiscardWords DEF Results
<1>8. CASE CancelStep \/ EndStep \/ UNCHANGED vars
  <2>1. where' = where
    BY <1>8, QuietWords
  <2>2. phase' = "submitted" => phase = "submitted"
    BY <1>8 DEF CancelStep, CancelStarts, CancelTooLate, CancelEnds, EndStep,
       ReapEnds, Report, Disconnect, vars, callVars
  <2> QED
    BY <1>0, <2>1, <2>2 DEF IsNotForgotten, AllBack
<1>9. ASSUME NEW i \in Urbs, ReapOne(i) PROVE IsNotForgotten'
  <2>1. /\ ReapTells(i) /\ Reap(i) /\ phase = "submitted"
        /\ where[i] = "done"
        /\ \A j \in Urbs \ {i} : where'[j] = where[j]
    BY <1>9, ReapWords
  <2> SUFFICES ASSUME phase' = "submitted", AllBack' PROVE FALSE
    BY DEF IsNotForgotten
  <2>2. \A j \in Urbs \ {i} : where[j] \in {"unsent", "reaped"}
    BY <2>1 DEF AllBack
  <2>3. AllRetired
    BY <2>1, <2>2, BackMeansAllRetired
  <2>4. ReapGood(i) /\ i # N /\ ~(got[i] < L)
    BY <1>9, <2>3
       DEF ReapOne, ReapAbnormal, ReapGood, ReapStalled, ReapOverflow,
       ReapError, CancelRemaining, Finish
  <2>5. action = "NORMAL" /\ result[i] \notin {"nodev"}
    BY <2>4 DEF ReapGood
  <2>6. where[N] = "reaped"
    BY <1>0, <2>1, <2>2, <2>4, <2>5 DEF SubmittedInOrder
  <2>7. result[N] = "nodev"
    BY <1>0, <2>1, <2>5, <2>6 DEF LastReapedIsGone
  <2>8. 1 \in 1..Len(done) /\ done[1] = i
    BY <1>0, <2>1, ReapFacts DEF Types
  <2>9. Late(i)
    BY <1>0, <2>6, <2>7, <2>8 DEF BehindGone
  <2> QED
    BY <2>4, <2>5, <2>9 DEF Late
<1> QED
  BY <1>4, <1>5, <1>6, <1>7, <1>8, <1>9, Steps

\* At the start nothing is in the kernel, and nothing is submitted.
LEMMA InitStillOut == Init => StillOut
BY LastUrb
   DEF Init, StillOut, FirstIsOut, StallComesLast, LastReapedIsGone, BehindGone,
   RestIsShort, IsNotForgotten

-----------------------------------------------------------------------------
\* The argument above as an invariant: who holds the lock, what the kernel's
\* list and num_retired say, and that the last URB comes back last.
THEOREM BulkInvariant == Spec => []IInv
<1> QED
  BY IInvKept, InitIInv, PTL DEF Spec

\* handle_bulk_completion frees the URBs of a transfer only when none of them
\* is in the kernel or in its list, but for the two ways that FreedUrbsAreBack
\* names, for any number of URBs.
THEOREM BulkFreedUrbsAreBack == Spec => []FreedUrbsAreBack
<1>1. IInv => FreedUrbsAreBack
  BY DEF IInv
<1> QED
  BY <1>1, BulkInvariant, PTL

\* The bytes and the words, on top of BulkInvariant: every byte is where it
\* belongs, and reap_action and reap_status say why the transfer ended.
THEOREM BulkWords == Spec => []FullInv
<1>1. FullInv /\ [Next]_vars => FullInv'
  <2> SUFFICES ASSUME FullInv, [Next]_vars PROVE FullInv'
    OBVIOUS
  <2>1. IInv'
    BY IInvKept DEF FullInv
  <2>2. DataInv'
    BY DataKept DEF FullInv, IInv
  <2>3. LastServed' /\ StoppedEarly' /\ DiscardedIsTold' /\ ShortIsTold'
    BY LastServedKept, StoppedEarlyKept, DiscardedIsToldKept, ShortIsToldKept
  <2>4. /\ CompletedIsTrue' /\ StallIsLast' /\ CancelIsTold' /\ WordTypes'
        /\ phase' = "refused" => retired' = 0
    BY CompletedIsTrueKept, StallIsLastKept, CancelIsToldKept
  <2> QED
    BY <2>1, <2>2, <2>3, <2>4 DEF FullInv, WordInv
<1>2. Init => FullInv
  BY InitIInv, DataInit, InitWords DEF FullInv
<1> QED
  BY <1>1, <1>2, PTL DEF Spec

\* Every variable keeps its type: no counter exceeds the number of URBs, and no
\* byte its buffer.
THEOREM BulkTypeOK == Spec => []TypeOK
<1>1. ASSUME FullInv PROVE TypeOK
  <2>0. /\ Types /\ DoneIsListed /\ DataTypes /\ WordTypes
        /\ phase = "refused" => retired = 0
    BY <1>1, WordFacts
  <2>1. retired \in 0..N
    <3>1. Cardinality(Back) <= N /\ Cardinality(Back) \in Nat
      BY UrbsAreN, FS_Subset, FS_CardinalityType DEF Back
    <3>2. RetiredCounts
      BY <1>1 DEF FullInv, IInv
    <3> QED
      BY <2>0, <3>1, <3>2, BulkAssumption DEF RetiredCounts
  <2>2. Len(done) <= N
    <3> DEFINE n == Len(done)
    <3>1. n \in Nat /\ \A p \in 1..n : done[p] \in Urbs
      BY <2>0 DEF Types
    <3>2. IsFiniteSet(1..n) /\ Cardinality(1..n) = n
      BY <3>1, FS_Interval
    <3>3. PICK f : f = [p \in 1..n |-> done[p]]
      OBVIOUS
    <3>4. f \in Injection(1..n, Urbs)
      BY <2>0, <3>1, <3>3 DEF DoneIsListed, Injection, IsInjective
    <3> QED
      BY <3>2, <3>4, UrbsAreN, FS_Injection
  <2>3. sent \in 0..(N * L) /\ transferred \in 0..(N * L)
    <3>1. PICK f \in [0..N -> Nat] : Data(f)
      BY <1>1 DEF FullInv, DataInv
    <3>2. PICK m \in 0..N : Prefix(f, m)
      BY <3>1 DEF Data
    <3>3. N \in Urbs /\ N \in 0..N /\ m <= N /\ N * L \in Nat
      BY LastUrb, Places
    <3>4. f[N] = sent /\ f[N] <= N * L /\ f[m] <= f[N] /\ transferred = f[m]
      BY <3>1, <3>2, <3>3 DEF Data, SumsOf, Prefix
    <3> QED
      BY <2>0, <3>3, <3>4 DEF DataTypes
  <2> QED
    BY <2>0, <2>1, <2>2, <2>3 DEF Types, DataTypes, WordTypes, TypeOK
<1> QED
  BY <1>1, BulkWords, PTL

\* What the callback of a transfer is told is true: handle_bulk_completion moves
\* no byte to a wrong place, and libusb_cancel_transfer and the errors of URBs
\* are told in their order.
THEOREM BulkReportIsTrue == Spec => []ReportIsTrue
<1>1. ASSUME FullInv PROVE ReportIsTrue
  <2>1. CompletedIsTrue /\ CancelIsTold /\ DataInv
    BY <1>1, WordFacts DEF FullInv
  <2>2. AllBack => transferred = sent /\ \A o \in 1..transferred : buf[o] = o
    BY <2>1, BackIsAll DEF AllThere
  <2>3. report = "COMPLETED" /\ cancel # "nodevice" =>
          transferred = N * L \/ EndedEarly
    BY <2>1 DEF CompletedIsTrue, WholeOrEarly
  <2>4. /\ report = "CANCELLED" => cancel = "ok"
        /\ report # "none" /\ cancel = "ok" =>
             report \in {"CANCELLED", "ERROR", "NO_DEVICE"}
    BY <2>1 DEF CancelIsTold
  <2> QED
    BY <2>2, <2>3, <2>4 DEF ReportIsTrue, EndedEarly
<1> QED
  BY <1>1, BulkWords, PTL

\* As long as a transfer is neither freed nor reported an URB of it is still in the
\* kernel or in its list, for any number of URBs: counting those that were never
\* sent, cancelling the rest and taking the last for the end never leave a transfer
\* that no URB will bring back to handle_bulk_completion.
THEOREM BulkIsNotForgotten == Spec => []IsNotForgotten
<1>1. StillOut /\ FullInv /\ FullInv' /\ [Next]_vars => StillOut'
  <2> SUFFICES ASSUME StillOut, FullInv, [Next]_vars PROVE StillOut'
    OBVIOUS
  <2> QED
    BY FirstIsOutKept, StallComesLastKept, LastReapedIsGoneKept, BehindGoneKept,
       RestIsShortKept, IsNotForgottenKept
       DEF StillOut
<1>2. StillOut => IsNotForgotten
  BY DEF StillOut
<1> QED
  BY <1>1, <1>2, InitStillOut, BulkWords, PTL DEF Spec
=============================================================================
