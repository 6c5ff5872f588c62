------------------------ MODULE DeviceRegistryProofs ------------------------
(***************************************************************************)
(* The contexts, the monitor and the devices, for any number of sessions,  *)
(* of changes and of addresses: references are counted right, the pipes    *)
(* tell of what is pending, the monitor runs when it is wanted, and every  *)
(* context catches up with the kernel.                                     *)
(***************************************************************************)
EXTENDS DeviceRegistry, FiniteSetTheorems, TLAPS

(* Locks, the monitor and the message in hand.                              *)

\* A session whose context is being made holds default_context_lock, one that
\* starts or stops the monitor linux_hotplug_startstop_lock, one that reads the
\* socket or tells of a loss linux_hotplug_lock.
Making == {"start", "scan", "lists", "pipe", "undo"}
Leaving == {"stop", "unstart"}

LocksHeld ==
  \A c \in Contexts :
    /\ pc[c] \in Making => initLock = c
    /\ initLock = c => pc[c] \in Making \cup Leaving
    /\ pc[c] \in {"scan", "unstart"} <=> startStop = c
    /\ pc[c] \in {"polling", "telling"} <=> hotplug = c

ReadingHolds == monitor = "reading" <=> hotplug = Monitor

\* active_contexts_list has the contexts that were begun and not left.
InUse(c) ==
  /\ pc[c] \notin {"idle", "flush", "unlist", "ended"}
  /\ pc[c] \in Leaving => initLock = c

ActiveIsInUse == \A c \in Contexts : c \in active <=> InUse(c)

\* The contexts that init_count counts.
Counted ==
  {c \in Contexts :
     pc[c] \notin {"idle", "start", "scan", "unstart", "undo", "ended"}}

CountIsRight == initCount = Cardinality(Counted)

\* The monitor has its socket, and both are there from the first start to the
\* last stop, which alone writes to the control pipe.
MonitorLife ==
  /\ socket = "open" <=> monitor # "none"
  /\ socket # "open" => uevents = <<>>
  /\ told => \E c \in Contexts : pc[c] = "unstart"
  /\ initCount = 0 /\ startStop = None => socket = "closed"
  /\ \A c \in Contexts : pc[c] = "unstart" => initCount = 0

\* A message is handled under linux_hotplug_lock, for the contexts in use.
WorkIsHeld ==
  /\ hotplug = None => work = NoWork
  /\ ~work.locked => work.todo = {} /\ work.at = None
  /\ work.todo \subseteq active
  /\ work.at = None <=> work.slot = 0
  /\ work.at # None => work.left /\ work.at \in active \ work.todo

-----------------------------------------------------------------------------
(* The steps by what they are about.                                        *)

KernelStep == Plug \/ Unplug

MonitorOnly == MonitorWakes \/ MonitorEnds \/ MonitorInterrupted

TellStep(c) == Enumerate(c) \/ Find(c) \/ Disconnect(c) \/ Drop(c)

\* Sessions that only go on.
GoesOn(c) ==
  \/ InitFails(c) \/ InitPipeFails(c) \/ OpenFails(c) \/ Claim(c) \/ Flushed(c)

\* Sessions that make or leave their context.
ContextStep(c) ==
  \/ InitContext(c) \/ StartMonitor(c) \/ Scan(c) \/ ScanFails(c) \/ Undo(c)
  \/ Exit(c) \/ OpExit(c) \/ StopMonitor(c) \/ JoinMonitor(c)

\* Sessions whose reasons to interrupt change.
ReasonStep(c) ==
  \/ InitLists(c) \/ InitPipe(c) \/ TakePollfds(c) \/ TakeMessage(c)
  \/ NoticeLoss(c) \/ CloseBegins(c) \/ CloseEnds(c) \/ Unlist(c)

\* Sessions that take or give back linux_hotplug_lock.
HotplugStep(c) ==
  HotplugPoll(c) \/ PollReads(c) \/ PollEnds(c) \/ TellLoss(c) \/ LossTold(c)

\* Sessions that open their device.
OpenStep(c) ==
  GetList(c) \/ NotFound(c) \/ OpenDevice(c) \/ FreeList(c) \/ ClaimFails(c)

LEMMA Steps ==
  ASSUME [Next]_vars
  PROVE  \/ KernelStep \/ MonitorOnly \/ MonitorReads \/ MonitorDone
         \/ LockContexts
         \/ \E c \in Contexts : \/ TellStep(c) \/ GoesOn(c) \/ ContextStep(c)
                                \/ ReasonStep(c) \/ HotplugStep(c) \/ OpenStep(c)
         \/ UNCHANGED vars
<1>1. CASE \E c \in Contexts : SessionStep(c)
  BY <1>1 DEF SessionStep, Running, GoesOn, ContextStep, ReasonStep, HotplugStep,
     OpenStep
<1>2. CASE MonitorStep \/ MonitorInterrupted
  BY <1>2 DEF MonitorStep, MonitorOnly
<1>3. CASE Handling
  BY <1>3 DEF Handling, TellStep
<1>4. CASE Plug \/ Unplug \/ Ended
  BY <1>4 DEF KernelStep, Ended
<1> QED
  BY <1>1, <1>2, <1>3, <1>4 DEF Next

-----------------------------------------------------------------------------
(* Locks.                                                                   *)

LocksInv == LocksHeld /\ ReadingHolds

LEMMA LocksStep ==
  ASSUME TypeOK, LocksInv, MonitorLife, [Next]_vars
  PROVE  LocksInv'
<1> USE DeviceRegistryAssumption
    DEF TypeOK, LocksInv, LocksHeld, ReadingHolds, Making, Leaving, Threads
<1>1. CASE KernelStep \/ LockContexts \/ UNCHANGED vars
  BY <1>1 DEF KernelStep, Plug, Unplug, LockContexts, kernelVars, monitorVars,
     lockVars, vars
<1>2. CASE MonitorOnly \/ MonitorReads \/ MonitorDone
  BY <1>2 DEF MonitorOnly, MonitorWakes, MonitorEnds, MonitorInterrupted,
     MonitorReads, MonitorDone, lockVars
<1>3. ASSUME NEW c \in Contexts, TellStep(c) PROVE LocksInv'
  BY <1>3 DEF TellStep, Enumerate, Find, Disconnect, Drop, monitorVars, lockVars
<1>4. ASSUME NEW c \in Contexts, GoesOn(c) PROVE LocksInv'
  BY <1>4 DEF GoesOn, InitFails, InitPipeFails, OpenFails, Claim, Flushed, Goto,
     monitorVars, lockVars
<1>5. ASSUME NEW c \in Contexts, ContextStep(c) PROVE LocksInv'
  <2>1. CASE InitContext(c) \/ Undo(c) \/ Exit(c)
    BY <1>5, <2>1 DEF InitContext, Undo, Exit, Goto, monitorVars, lockVars
  <2>2. CASE StartMonitor(c)
    BY <1>5, <2>2 DEF StartMonitor, Goto, MonitorLife
  <2>3. CASE Scan(c) \/ ScanFails(c) \/ OpExit(c)
    BY <1>5, <2>3 DEF Scan, ScanFails, OpExit, Stopped, Goto, monitorVars
  <2>4. CASE StopMonitor(c)
    BY <1>5, <2>4 DEF StopMonitor, lockVars
  <2>5. CASE JoinMonitor(c)
    BY <1>5, <2>5 DEF JoinMonitor, Stopped, Goto, MonitorLife
  <2> QED
    BY <1>5, <2>1, <2>2, <2>3, <2>4, <2>5 DEF ContextStep
<1>6. ASSUME NEW c \in Contexts, ReasonStep(c) PROVE LocksInv'
  BY <1>6 DEF ReasonStep, InitLists, InitPipe, TakePollfds, TakeMessage,
     NoticeLoss, CloseBegins, CloseEnds, Unlist, Goto, monitorVars, lockVars
<1>7. ASSUME NEW c \in Contexts, HotplugStep(c) PROVE LocksInv'
  BY <1>7 DEF HotplugStep, HotplugPoll, PollReads, PollEnds, TellLoss, LossTold,
     Goto, monitorVars, lockVars
<1>8. ASSUME NEW c \in Contexts, OpenStep(c) PROVE LocksInv'
  BY <1>8 DEF OpenStep, GetList, NotFound, OpenDevice, FreeList, ClaimFails,
     Goto, monitorVars, lockVars
<1> QED
  BY <1>1, <1>2, <1>3, <1>4, <1>5, <1>6, <1>7, <1>8, Steps

\* active_contexts_list changes only while nobody has it locked, and by the
\* session that its context belongs to.
LEMMA ActiveStep ==
  ASSUME TypeOK, LocksInv, ActiveIsInUse, [Next]_vars
  PROVE  ActiveIsInUse'
<1> USE DeviceRegistryAssumption
    DEF TypeOK, LocksInv, LocksHeld, ActiveIsInUse, InUse, Making, Leaving
<1>1. CASE KernelStep \/ LockContexts \/ UNCHANGED vars
  BY <1>1 DEF KernelStep, Plug, Unplug, LockContexts, kernelVars, monitorVars,
     lockVars, globalVars, vars
<1>2. CASE MonitorOnly \/ MonitorReads \/ MonitorDone
  BY <1>2 DEF MonitorOnly, MonitorWakes, MonitorEnds, MonitorInterrupted,
     MonitorReads, MonitorDone, lockVars, globalVars
<1>3. ASSUME NEW c \in Contexts, TellStep(c) PROVE ActiveIsInUse'
  BY <1>3 DEF TellStep, Enumerate, Find, Disconnect, Drop, lockVars, globalVars
<1>4. ASSUME NEW c \in Contexts, GoesOn(c) PROVE ActiveIsInUse'
  BY <1>4 DEF GoesOn, InitFails, InitPipeFails, OpenFails, Claim, Flushed, Goto,
     lockVars, globalVars
<1>5. ASSUME NEW c \in Contexts, ContextStep(c) PROVE ActiveIsInUse'
  <2>1. CASE InitContext(c) \/ Undo(c)
    BY <1>5, <2>1 DEF InitContext, Undo, Goto
  <2>2. CASE Exit(c) \/ StartMonitor(c)
    BY <1>5, <2>2 DEF Exit, StartMonitor, Goto, lockVars, globalVars
  <2>3. CASE Scan(c) \/ ScanFails(c) \/ OpExit(c)
    BY <1>5, <2>3 DEF Scan, ScanFails, OpExit, Stopped, Goto, globalVars
  <2>4. CASE StopMonitor(c) \/ JoinMonitor(c)
    BY <1>5, <2>4 DEF StopMonitor, JoinMonitor, Stopped, Goto, lockVars,
       globalVars
  <2> QED
    BY <1>5, <2>1, <2>2, <2>3, <2>4 DEF ContextStep
<1>6. ASSUME NEW c \in Contexts, ReasonStep(c) PROVE ActiveIsInUse'
  BY <1>6 DEF ReasonStep, InitLists, InitPipe, TakePollfds, TakeMessage,
     NoticeLoss, CloseBegins, CloseEnds, Unlist, Goto, lockVars, globalVars
<1>7. ASSUME NEW c \in Contexts, HotplugStep(c) PROVE ActiveIsInUse'
  <2>1. CASE HotplugPoll(c) \/ PollReads(c) \/ PollEnds(c)
    BY <2>1 DEF HotplugPoll, PollReads, PollEnds, Goto, lockVars, globalVars
  <2>2. CASE TellLoss(c) \/ LossTold(c)
    <3>1. UNCHANGED <<initLock, active>>
      BY <2>2 DEF TellLoss, LossTold
    <3>2. pc[c] \in {"lost", "telling"}
          /\ \E to \in {"telling", "stream"} : pc' = [pc EXCEPT ![c] = to]
      BY <2>2 DEF TellLoss, LossTold, Goto
    <3> QED
      BY <3>1, <3>2
  <2> QED
    BY <1>7, <2>1, <2>2 DEF HotplugStep
<1>8. ASSUME NEW c \in Contexts, OpenStep(c) PROVE ActiveIsInUse'
  <2>1. UNCHANGED <<initLock, active>>
    BY <1>8 DEF OpenStep, GetList, NotFound, OpenDevice, FreeList, ClaimFails,
       lockVars, globalVars
  <2>2. \/ Goto(c, "list", "open") \/ Goto(c, "open", "exit")
        \/ Goto(c, "open", "opened") \/ Goto(c, "opened", "claim")
        \/ Goto(c, "refused", "exit") \/ Goto(c, "claim", "exit")
    BY <1>8 DEF OpenStep, GetList, NotFound, OpenDevice, FreeList, ClaimFails
  <2> QED
    BY <2>1, <2>2 DEF Goto
<1> QED
  BY <1>1, <1>2, <1>3, <1>4, <1>5, <1>6, <1>7, <1>8, Steps

-----------------------------------------------------------------------------
(* The monitor and init_count.                                              *)

\* A set of contexts is finite, and has members exactly if it counts.
LEMMA CountedFinite ==
  /\ IsFiniteSet(Counted)
  /\ Cardinality(Counted) \in 0 .. Cardinality(Contexts)
  /\ Cardinality(Counted) = 0 <=> Counted = {}
<1>1. IsFiniteSet(Contexts) /\ Cardinality(Contexts) \in Nat
  BY DeviceRegistryAssumption, FS_CardinalityType
<1>2. Counted \in SUBSET Contexts
  BY DEF Counted
<1>3. IsFiniteSet(Counted) /\ Cardinality(Counted) <= Cardinality(Contexts)
  BY <1>1, <1>2, FS_Subset
<1>4. Cardinality(Counted) \in Nat
  BY <1>3, FS_CardinalityType
<1> QED
  BY <1>1, <1>3, <1>4, FS_EmptySet

\* init_count follows the contexts between the two backend calls.
LEMMA CountStep ==
  ASSUME TypeOK, LocksInv, CountIsRight, [Next]_vars
  PROVE  CountIsRight'
<1> USE DEF TypeOK
<1> DEFINE out == {"idle", "start", "scan", "unstart", "undo", "ended"}
<1>1. CASE UNCHANGED initCount /\ Counted' = Counted
  BY <1>1 DEF CountIsRight
<1>2. ASSUME NEW c \in Contexts, Scan(c) PROVE CountIsRight'
  <2>1. Counted' = Counted \cup {c} /\ c \notin Counted
    BY <1>2 DEF Scan, Goto, Counted
  <2>2. initCount' = initCount + 1
    BY <1>2 DEF Scan
  <2> QED
    BY <2>1, <2>2, CountedFinite, FS_AddElement DEF CountIsRight
<1>3. ASSUME NEW c \in Contexts, OpExit(c) PROVE CountIsRight'
  <2>1. Counted' = Counted \ {c} /\ c \in Counted
    BY <1>3 DEF OpExit, Stopped, Goto, Counted
  <2>2. initCount' = initCount - 1
    BY <1>3 DEF OpExit
  <2> QED
    BY <2>1, <2>2, CountedFinite, FS_RemoveElement DEF CountIsRight
<1>4. ASSUME NEW c \in Contexts, UNCHANGED initCount, NEW from, NEW to,
             Goto(c, from, to), from \in out <=> to \in out
      PROVE  UNCHANGED initCount /\ Counted' = Counted
  BY <1>4 DEF Goto, Counted
<1>5. ASSUME UNCHANGED <<initCount, pc>>
      PROVE  UNCHANGED initCount /\ Counted' = Counted
  BY <1>5 DEF Counted
<1>6. CASE \/ KernelStep \/ LockContexts \/ UNCHANGED vars
           \/ MonitorOnly \/ MonitorReads \/ MonitorDone
           \/ \E c \in Contexts : TellStep(c)
  <2>1. UNCHANGED <<initCount, pc>>
    BY <1>6 DEF KernelStep, Plug, Unplug, LockContexts, MonitorOnly,
       MonitorWakes, MonitorEnds, MonitorInterrupted, MonitorReads, MonitorDone,
       TellStep, Enumerate, Find, Disconnect, Drop, globalVars, vars
  <2> QED
    BY <2>1, <1>1, <1>5
<1>7. ASSUME NEW c \in Contexts,
             GoesOn(c) \/ OpenStep(c) \/ ReasonStep(c) \/ HotplugStep(c)
      PROVE  CountIsRight'
  <2>1. UNCHANGED initCount
    BY <1>7 DEF GoesOn, InitFails, InitPipeFails, OpenFails, Claim, Flushed,
       OpenStep, GetList, NotFound, OpenDevice, FreeList, ClaimFails,
       ReasonStep, InitLists, InitPipe, TakePollfds, TakeMessage, NoticeLoss,
       CloseBegins, CloseEnds, Unlist, HotplugStep, HotplugPoll, PollReads,
       PollEnds, TellLoss, LossTold, globalVars
  <2>2. \/ UNCHANGED pc
        \/ \E from, to \in Positions :
             Goto(c, from, to) /\ (from \in out <=> to \in out)
    <3>1. CASE GoesOn(c)
      BY <3>1 DEF GoesOn, InitFails, InitPipeFails, OpenFails, Claim, Flushed,
         Positions, Goto
    <3>2. CASE OpenStep(c)
      BY <3>2 DEF OpenStep, GetList, NotFound, OpenDevice, FreeList, ClaimFails,
         Positions, Goto
    <3>3. CASE ReasonStep(c)
      BY <3>3 DEF ReasonStep, InitLists, InitPipe, TakePollfds, TakeMessage,
         NoticeLoss, CloseBegins, CloseEnds, Unlist, Positions, Goto
    <3>4. CASE HotplugStep(c)
      BY <3>4 DEF HotplugStep, HotplugPoll, PollReads, PollEnds, TellLoss,
         LossTold, Positions, Goto
    <3> QED
      BY <1>7, <3>1, <3>2, <3>3, <3>4
  <2> QED
    BY <2>1, <2>2, <1>1, <1>4, <1>5
<1>8. ASSUME NEW c \in Contexts, ContextStep(c) PROVE CountIsRight'
  <2>1. CASE InitContext(c) \/ StartMonitor(c) \/ ScanFails(c) \/ Undo(c)
    <3>1. UNCHANGED initCount /\ Counted' = Counted
      BY <2>1 DEF InitContext, StartMonitor, ScanFails, Undo, globalVars, Goto,
         Counted
    <3> QED
      BY <3>1, <1>1
  <2>2. CASE Exit(c) \/ StopMonitor(c) \/ JoinMonitor(c)
    <3>1. UNCHANGED initCount /\ Counted' = Counted
      BY <2>2 DEF Exit, StopMonitor, JoinMonitor, Stopped, globalVars, Goto,
         Counted
    <3> QED
      BY <3>1, <1>1
  <2> QED
    BY <1>8, <1>2, <1>3, <2>1, <2>2 DEF ContextStep
<1> QED
  BY <1>6, <1>7, <1>8, Steps

\* The socket and the thread come and go together, under the lock of whoever
\* starts or stops the monitor.
LEMMA MonitorLifeStep ==
  ASSUME TypeOK, LocksInv, CountIsRight, MonitorLife, [Next]_vars
  PROVE  MonitorLife'
<1> USE DeviceRegistryAssumption
    DEF TypeOK, LocksInv, LocksHeld, Threads, MonitorLife, Leaving
<1>1. ASSUME UNCHANGED <<monitorVars, initCount, startStop>>,
             \/ UNCHANGED pc
             \/ \E c \in Contexts, to \in Positions :
                  /\ pc[c] # "unstart" /\ to # "unstart"
                  /\ pc' = [pc EXCEPT ![c] = to]
      PROVE  MonitorLife'
  BY <1>1 DEF monitorVars
<1>2. CASE Plug \/ Unplug
  BY <1>2 DEF Plug, Unplug, Said, lockVars, globalVars
<1>3. CASE LockContexts \/ UNCHANGED vars \/ \E c \in Contexts : TellStep(c)
  BY <1>3, <1>1 DEF LockContexts, TellStep, Enumerate, Find, Disconnect, Drop,
     lockVars, globalVars, vars
<1>4. CASE MonitorOnly \/ MonitorReads \/ MonitorDone
  BY <1>4 DEF MonitorOnly, MonitorWakes, MonitorEnds, MonitorInterrupted,
     MonitorReads, MonitorDone, ReadMessage, lockVars, globalVars
<1>5. ASSUME NEW c \in Contexts, GoesOn(c) \/ OpenStep(c) \/ ReasonStep(c)
      PROVE  MonitorLife'
  <2>1. UNCHANGED <<monitorVars, initCount, startStop>>
    BY <1>5 DEF GoesOn, InitFails, InitPipeFails, OpenFails, Claim, Flushed,
       OpenStep, GetList, NotFound, OpenDevice, FreeList, ClaimFails,
       ReasonStep, InitLists, InitPipe, TakePollfds, TakeMessage, NoticeLoss,
       CloseBegins, CloseEnds, Unlist, globalVars, lockVars
  <2>2. CASE GoesOn(c)
    BY <2>1, <2>2, <1>1 DEF GoesOn, InitFails, InitPipeFails, OpenFails, Claim,
       Flushed, Goto, Positions
  <2>3. CASE OpenStep(c)
    BY <2>1, <2>3, <1>1 DEF OpenStep, GetList, NotFound, OpenDevice, FreeList,
       ClaimFails, Goto, Positions
  <2>4. CASE ReasonStep(c)
    BY <2>1, <2>4, <1>1 DEF ReasonStep, InitLists, InitPipe, TakePollfds,
       TakeMessage, NoticeLoss, CloseBegins, CloseEnds, Unlist, Goto, Positions
  <2> QED
    BY <1>5, <2>2, <2>3, <2>4
<1>6. ASSUME NEW c \in Contexts, HotplugStep(c) PROVE MonitorLife'
  <2>1. CASE PollReads(c)
    BY <2>1 DEF PollReads, ReadMessage, lockVars
  <2>2. CASE HotplugPoll(c) \/ PollEnds(c) \/ LossTold(c)
    BY <2>2, <1>1 DEF HotplugPoll, PollEnds, LossTold, Goto, Positions,
       globalVars
  <2>3. CASE TellLoss(c)
    <3>1. UNCHANGED <<monitorVars, initCount, startStop>>
      BY <2>3 DEF TellLoss
    <3>2. pc[c] = "lost"
          /\ \E to \in {"telling", "stream"} : pc' = [pc EXCEPT ![c] = to]
      BY <2>3 DEF TellLoss
    <3> QED
      BY <3>1, <3>2, <1>1 DEF Positions
  <2> QED
    BY <1>6, <2>1, <2>2, <2>3 DEF HotplugStep
<1>7. ASSUME NEW c \in Contexts, ContextStep(c) PROVE MonitorLife'
  <2>1. CASE InitContext(c) \/ Undo(c) \/ Exit(c)
    BY <2>1, <1>1 DEF InitContext, Undo, Exit, Goto, Positions, lockVars
  <2>2. CASE StartMonitor(c)
    BY <2>2 DEF StartMonitor, Goto, globalVars
  <2>3. CASE Scan(c) \/ ScanFails(c)
    BY <2>3 DEF Scan, ScanFails, Goto, monitorVars, globalVars
  <2>4. CASE OpExit(c)
    <3>1. initCount # 0
      <4>1. c \in Counted
        BY <2>4 DEF OpExit, Goto, Counted
      <4> QED
        BY <4>1, CountedFinite DEF CountIsRight
    <3> QED
      BY <2>4, <3>1 DEF OpExit, Stopped, Goto, monitorVars
  <2>5. CASE StopMonitor(c)
    BY <2>5 DEF StopMonitor, lockVars, globalVars
  <2>6. CASE JoinMonitor(c)
    BY <2>6 DEF JoinMonitor, Stopped, Goto, globalVars
  <2> QED
    BY <1>7, <2>1, <2>2, <2>3, <2>4, <2>5, <2>6 DEF ContextStep
<1> QED
  BY <1>2, <1>3, <1>4, <1>5, <1>6, <1>7, Steps DEF KernelStep

-----------------------------------------------------------------------------
(* The message in hand.                                                     *)

\* Only the holder of linux_hotplug_lock has a message in hand, and tells only
\* contexts that are in use.
LEMMA WorkStep ==
  ASSUME TypeOK, LocksInv, ActiveIsInUse, WorkIsHeld, [Next]_vars
  PROVE  WorkIsHeld'
<1>0. /\ work \in Works /\ active \subseteq Contexts
      /\ None \notin Contexts /\ None # Monitor /\ 0 \notin Slots
  BY DeviceRegistryAssumption DEF TypeOK
<1>1. ASSUME UNCHANGED <<hotplug, work, active>> PROVE WorkIsHeld'
  BY <1>1 DEF WorkIsHeld, NoWork
<1>2. CASE KernelStep \/ UNCHANGED vars \/ MonitorOnly
  BY <1>1, <1>2 DEF KernelStep, Plug, Unplug, MonitorOnly, MonitorWakes,
     MonitorEnds, MonitorInterrupted, lockVars, globalVars, vars
<1>3. ASSUME UNCHANGED active, hotplug' = None => work' = NoWork,
             ~work'.locked, work'.todo = {}, work'.at = None, work'.slot = 0
      PROVE  WorkIsHeld'
  BY <1>3 DEF WorkIsHeld
<1>4. ASSUME UNCHANGED active, work' = NoWork PROVE WorkIsHeld'
  BY <1>4, <1>3 DEF NoWork
<1>5. ASSUME UNCHANGED active, hotplug' # None, ReadMessage PROVE WorkIsHeld'
  <2>1. /\ ~work'.locked /\ work'.todo = {} /\ work'.at = None
        /\ work'.slot = 0
    BY <1>5 DEF ReadMessage, NoWork
  <2> QED
    BY <2>1, <1>5, <1>3
<1>6. CASE LockContexts
  <2>1. work' = [work EXCEPT !.locked = TRUE, !.todo = active]
    BY <1>6 DEF LockContexts
  <2>2. /\ work'.locked /\ work'.todo = active /\ work'.at = work.at
        /\ work'.slot = work.slot /\ work'.left = work.left
    BY <2>1, <1>0 DEF Works
  <2>3. hotplug' # None /\ UNCHANGED active /\ ~work.locked
    BY <1>6 DEF LockContexts, lockVars
  <2> QED
    BY <2>2, <2>3 DEF WorkIsHeld
<1>7. CASE MonitorReads \/ MonitorDone
  <2>1. UNCHANGED active
    BY <1>7 DEF MonitorReads, MonitorDone
  <2>2. CASE MonitorReads /\ uevents = <<>>
    BY <2>1, <2>2, <1>1 DEF MonitorReads
  <2>3. CASE MonitorReads /\ uevents # <<>>
    BY <2>1, <2>3, <1>0, <1>5 DEF MonitorReads
  <2>4. CASE MonitorDone
    BY <2>1, <2>4, <1>4 DEF MonitorDone
  <2> QED
    BY <1>7, <2>2, <2>3, <2>4
<1>8. ASSUME NEW c \in Contexts, TellStep(c) PROVE WorkIsHeld'
  <2>1. UNCHANGED <<hotplug, active>>
    BY <1>8 DEF TellStep, Enumerate, Find, Disconnect, Drop, lockVars, globalVars
  <2>2. CASE Enumerate(c)
    <3>1. work' = [work EXCEPT !.todo = @ \ {c}] /\ c \in work.todo
      BY <2>2 DEF Enumerate
    <3>2. /\ work'.locked = work.locked /\ work'.todo = work.todo \ {c}
          /\ work'.at = work.at /\ work'.slot = work.slot
          /\ work'.left = work.left
      BY <3>1, <1>0 DEF Works
    <3>3. hotplug # None
      BY <3>1 DEF WorkIsHeld, NoWork
    <3> QED
      BY <2>1, <3>1, <3>2, <3>3 DEF WorkIsHeld
  <2>3. CASE Find(c)
    <3>1. work.left /\ c \in work.todo /\ work.at = None
      BY <2>3 DEF Find
    <3>2. CASE work' = [work EXCEPT !.todo = @ \ {c}]
      <4>1. /\ work'.locked = work.locked /\ work'.todo = work.todo \ {c}
            /\ work'.at = work.at /\ work'.slot = work.slot
            /\ work'.left = work.left
        BY <3>2, <1>0 DEF Works
      <4> QED
        BY <2>1, <3>1, <4>1 DEF WorkIsHeld, NoWork
    <3>3. ASSUME NEW s \in Slots,
                 work' = [work EXCEPT !.todo = @ \ {c}, !.at = c, !.slot = s]
          PROVE  WorkIsHeld'
      <4>1. /\ work'.locked = work.locked /\ work'.todo = work.todo \ {c}
            /\ work'.at = c /\ work'.slot = s /\ work'.left = work.left
        BY <3>3, <1>0 DEF Works
      <4>2. work.locked /\ hotplug # None /\ c \in active /\ c # None /\ s # 0
        BY <3>1, <1>0 DEF WorkIsHeld, NoWork
      <4> QED
        BY <2>1, <3>1, <4>1, <4>2 DEF WorkIsHeld
    <3> QED
      BY <2>3, <3>2, <3>3 DEF Find, Here, Listed
  <2>4. CASE Disconnect(c)
    BY <2>1, <2>4, <1>1 DEF Disconnect, globalVars
  <2>5. CASE Drop(c)
    <3>1. work' = [work EXCEPT !.at = None, !.slot = 0] /\ work.at = c
      BY <2>5 DEF Drop
    <3>2. /\ work'.locked = work.locked /\ work'.todo = work.todo
          /\ work'.left = work.left /\ work'.at = None /\ work'.slot = 0
      BY <3>1, <1>0 DEF Works
    <3>3. hotplug # None
      BY <3>1, <1>0 DEF WorkIsHeld, NoWork
    <3> QED
      BY <2>1, <3>2, <3>3 DEF WorkIsHeld
  <2> QED
    BY <1>8, <2>2, <2>3, <2>4, <2>5 DEF TellStep
<1>9. ASSUME NEW c \in Contexts, GoesOn(c) \/ OpenStep(c) \/ ReasonStep(c)
      PROVE  WorkIsHeld'
  BY <1>1, <1>9 DEF GoesOn, InitFails, InitPipeFails, OpenFails, Claim, Flushed,
     OpenStep, GetList, NotFound, OpenDevice, FreeList, ClaimFails,
     ReasonStep, InitLists, InitPipe, TakePollfds, TakeMessage, NoticeLoss,
     CloseBegins, CloseEnds, Unlist, globalVars, lockVars
<1>10. ASSUME NEW c \in Contexts, HotplugStep(c) PROVE WorkIsHeld'
  <2>1. CASE HotplugPoll(c)
    <3>1. UNCHANGED <<work, active>> /\ hotplug = None /\ hotplug' = c
      BY <2>1 DEF HotplugPoll, globalVars
    <3> QED
      BY <3>1, <1>0 DEF WorkIsHeld
  <2>2. CASE PollReads(c)
    <3>1. UNCHANGED <<hotplug, active>> /\ ReadMessage /\ pc[c] = "polling"
      BY <2>2 DEF PollReads, lockVars
    <3>2. hotplug' = c
      BY <3>1 DEF LocksInv, LocksHeld
    <3> QED
      BY <3>1, <3>2, <1>0, <1>5
  <2>3. CASE PollEnds(c) \/ LossTold(c)
    BY <2>3, <1>4 DEF PollEnds, LossTold
  <2>4. CASE TellLoss(c)
    <3>1. UNCHANGED active
      BY <2>4 DEF TellLoss
    <3>2. CASE dev[c][handle[c]].attached
      <4>1. /\ hotplug' = c /\ ~work'.locked /\ work'.todo = {}
            /\ work'.at = None /\ work'.slot = 0
        BY <2>4, <3>2 DEF TellLoss, NoWork
      <4> QED
        BY <3>1, <4>1, <1>0, <1>3
    <3>3. CASE ~dev[c][handle[c]].attached
      BY <2>4, <3>1, <3>3, <1>1 DEF TellLoss
    <3> QED
      BY <3>2, <3>3
  <2> QED
    BY <1>10, <2>1, <2>2, <2>3, <2>4 DEF HotplugStep
<1>11. ASSUME NEW c \in Contexts, ContextStep(c) PROVE WorkIsHeld'
  <2>1. CASE InitContext(c) \/ Undo(c) \/ Exit(c)
    <3>1. UNCHANGED <<hotplug, work>> /\ ~work.locked
      BY <2>1 DEF InitContext, Undo, Exit, lockVars
    <3> QED
      BY <3>1 DEF WorkIsHeld, NoWork
  <2>2. CASE ~(InitContext(c) \/ Undo(c) \/ Exit(c))
    BY <1>1, <1>11, <2>2 DEF ContextStep, StartMonitor, Scan, ScanFails, OpExit,
       StopMonitor, JoinMonitor, lockVars, globalVars
  <2> QED
    BY <2>1, <2>2
<1> QED
  BY <1>2, <1>6, <1>7, <1>8, <1>9, <1>10, <1>11, Steps
-----------------------------------------------------------------------------
(* The reasons to interrupt a context's poll.                               *)

\* The pipe exists from its making to its closing.
UpAt ==
  {"poll", "polling", "list", "open", "opened", "refused", "claim", "stream",
   "lost", "telling", "close", "exit", "flush", "unlist"}
Early == {"idle", "start", "scan", "lists", "pipe"}
After == {"unlist", "stop", "unstart", "undo", "ended"}

PipeTells(e) ==
  e.up => IF e.deaf THEN e.pipe = 0 /\ e.messages # <<>>
          ELSE e.pipe = If(Pending(e))

\* Messages come once their list exists; those that come before the pipe make
\* the context deaf; none is left by a context that was left in order.
EventFits(c) ==
  LET e == event[c]
  IN /\ e.ready => pc[c] \notin {"idle", "start", "scan", "lists"}
     /\ e.messages # <<>> => e.ready
     /\ e.up <=> pc[c] \in UpAt
     /\ e.closing <=> pc[c] = "close"
     /\ pc[c] \in Early =>
          e.pipe = 0 /\ ~e.modified /\ (e.deaf <=> e.messages # <<>>)
     /\ pc[c] \in After /\ c \notin leaked /\ ~e.deaf => e.messages = <<>>
     /\ PipeTells(e)

EventLife == \A c \in Contexts : EventFits(c)

\* What a session holds of its device, and when it may be forgotten.
Holding == {"opened", "claim", "stream", "lost", "telling", "close"}

HeldBy(c) ==
  /\ found[c] # {} => pc[c] \in {"open", "opened", "refused"} \/ c \in leaked
  /\ pc[c] \in Holding => handle[c] \in Slots
  /\ handle[c] # 0 => pc[c] \in Holding \/ c \in leaked
  /\ c \in leaked => pc[c] \in After \cup {"exit", "flush"}

Held == \A c \in Contexts : HeldBy(c)

\* Raise, for reasons that are f's.
LEMMA RaiseFacts ==
  ASSUME NEW e \in Reasons, NEW f \in Reasons, f.pipe = e.pipe
  PROVE  /\ Raise(e, f) \in Reasons
         /\ Raise(e, f).ready = f.ready /\ Raise(e, f).up = f.up
         /\ Raise(e, f).closing = f.closing
         /\ Raise(e, f).modified = f.modified
         /\ Raise(e, f).messages = f.messages /\ Raise(e, f).deaf = f.deaf
         /\ Raise(e, f).pipe = IF Pending(e) \/ ~e.up THEN e.pipe
                               ELSE e.pipe + 1
<1>1. CASE Pending(e) \/ ~e.up
  BY <1>1 DEF Raise
<1>2. CASE ~(Pending(e) \/ ~e.up)
  BY <1>2 DEF Raise, Reasons
<1> QED
  BY <1>1, <1>2

\* Settle, if the pipe has the byte that it takes.
LEMMA SettleFacts ==
  ASSUME NEW f \in Reasons, Pending(f) \/ f.pipe > 0
  PROVE  /\ Settle(f) \in Reasons
         /\ Settle(f).ready = f.ready /\ Settle(f).up = f.up
         /\ Settle(f).closing = f.closing /\ Settle(f).modified = f.modified
         /\ Settle(f).messages = f.messages /\ Settle(f).deaf = f.deaf
         /\ Settle(f).pipe = IF Pending(f) THEN f.pipe ELSE f.pipe - 1
<1>1. CASE Pending(f)
  BY <1>1 DEF Settle
<1>2. CASE ~Pending(f)
  BY <1>2 DEF Settle, Reasons
<1> QED
  BY <1>1, <1>2

\* A context is told of a change.
LEMMA NotifiedFacts ==
  ASSUME NEW e \in Reasons, NEW left \in BOOLEAN, NEW s \in Slots
  PROVE  LET f == Notified(e, left, s)
             m == [left |-> left, slot |-> s]
         IN /\ f \in Reasons
            /\ f.ready = e.ready /\ f.up = e.up /\ f.closing = e.closing
            /\ f.modified = e.modified
            /\ ~e.ready => f = e
            /\ e.ready =>
                 /\ f.messages = Append(e.messages, m)
                 /\ f.deaf = (e.deaf \/ ~e.up)
                 /\ f.pipe = IF Pending(e) \/ ~e.up THEN e.pipe ELSE e.pipe + 1
<1> DEFINE m == [left |-> left, slot |-> s]
           g == [e EXCEPT !.messages = Append(@, m), !.deaf = @ \/ ~e.up]
<1>1. CASE ~e.ready
  BY <1>1 DEF Notified
<1>2. CASE e.ready
  <2>1. Append(e.messages, m) \in Seq(Messages)
    BY DEF Reasons, Messages
  <2>2. /\ g \in Reasons /\ g.pipe = e.pipe
        /\ g.ready = e.ready /\ g.up = e.up /\ g.closing = e.closing
        /\ g.modified = e.modified /\ g.messages = Append(e.messages, m)
        /\ g.deaf = (e.deaf \/ ~e.up)
    BY <2>1 DEF Reasons
  <2>3. Notified(e, left, s) = Raise(e, g)
    BY <1>2 DEF Notified
  <2>4. LET f == Raise(e, g)
        IN /\ f \in Reasons
           /\ f.ready = g.ready /\ f.up = g.up /\ f.closing = g.closing
           /\ f.modified = g.modified /\ f.messages = g.messages
           /\ f.deaf = g.deaf
           /\ f.pipe = IF Pending(e) \/ ~e.up THEN e.pipe ELSE e.pipe + 1
    <3> HIDE DEF g
    <3> QED
      BY <2>2, RaiseFacts
  <2> HIDE DEF g
  <2> QED
    BY <1>2, <2>2, <2>3, <2>4
<1> QED
  BY <1>1, <1>2

LEMMA NotifiedMessages ==
  ASSUME NEW e \in Reasons, NEW left \in BOOLEAN, NEW s \in Slots
  PROVE  Notified(e, left, s).messages
           = IF e.ready THEN Append(e.messages, [left |-> left, slot |-> s])
             ELSE e.messages
<1>1. CASE ~e.ready
  BY <1>1 DEF Notified
<1>2. CASE e.ready
  BY <1>2, NotifiedFacts
<1> QED
  BY <1>1, <1>2

LEMMA ModifiedFacts ==
  ASSUME NEW e \in Reasons
  PROVE  LET f == Modified(e)
         IN /\ f \in Reasons
            /\ f.ready = e.ready /\ f.up = e.up /\ f.closing = e.closing
            /\ f.modified /\ f.messages = e.messages /\ f.deaf = e.deaf
            /\ f.pipe = IF Pending(e) \/ ~e.up THEN e.pipe ELSE e.pipe + 1
<1> DEFINE g == [e EXCEPT !.modified = TRUE]
<1>1. /\ g \in Reasons /\ g.pipe = e.pipe
      /\ g.ready = e.ready /\ g.up = e.up /\ g.closing = e.closing
      /\ g.modified /\ g.messages = e.messages /\ g.deaf = e.deaf
  BY DEF Reasons
<1>2. Modified(e) = Raise(e, g)
  BY DEF Modified
<1> HIDE DEF g
<1> QED
  BY <1>1, <1>2, RaiseFacts
\* The pipe still tells what is pending after a reason was given ...
LEMMA PipeRaised ==
  ASSUME NEW e \in Reasons, NEW f \in Reasons, PipeTells(e), Pending(f),
         f.up = e.up, e.up => f.deaf = e.deaf,
         e.messages # <<>> => f.messages # <<>>,
         f.pipe = IF Pending(e) \/ ~e.up THEN e.pipe ELSE e.pipe + 1
  PROVE  PipeTells(f)
<1>0. e.up \in BOOLEAN /\ e.deaf \in BOOLEAN /\ f.deaf \in BOOLEAN
  BY DEF Reasons
<1>1. CASE e.up /\ e.deaf
  BY <1>0, <1>1 DEF PipeTells, Pending
<1>2. CASE e.up /\ ~e.deaf /\ Pending(e)
  BY <1>0, <1>2 DEF PipeTells, If
<1>3. CASE e.up /\ ~e.deaf /\ ~Pending(e)
  BY <1>0, <1>3 DEF PipeTells, If
<1>4. CASE ~e.up
  BY <1>4 DEF PipeTells
<1> QED
  BY <1>0, <1>1, <1>2, <1>3, <1>4

\* ... and after one was taken.
LEMMA PipeSettled ==
  ASSUME NEW e \in Reasons, NEW g \in Reasons, NEW f \in Reasons,
         PipeTells(e), Pending(e), e.up,
         g.pipe = e.pipe, g.deaf = e.deaf, e.deaf => g.messages # <<>>,
         f.deaf = g.deaf, f.messages = g.messages, f.closing = g.closing,
         f.modified = g.modified,
         f.pipe = IF Pending(g) THEN g.pipe ELSE g.pipe - 1
  PROVE  PipeTells(f)
<1>0. e.deaf \in BOOLEAN /\ f.deaf \in BOOLEAN /\ Pending(f) = Pending(g)
  BY DEF Reasons, Pending
<1>1. CASE e.deaf
  BY <1>0, <1>1 DEF PipeTells, Pending
<1>2. CASE ~e.deaf /\ Pending(g)
  BY <1>0, <1>2 DEF PipeTells, If
<1>3. CASE ~e.deaf /\ ~Pending(g)
  BY <1>0, <1>3 DEF PipeTells, If
<1> QED
  BY <1>0, <1>1, <1>2, <1>3

LEMMA HeldStep ==
  ASSUME TypeOK, Held, [Next]_vars
  PROVE  Held'
<1>0. /\ pc \in [Contexts -> Positions] /\ found \in [Contexts -> SUBSET Slots]
      /\ handle \in [Contexts -> Slots \cup {0}] /\ leaked \subseteq Contexts
      /\ 0 \notin Slots
  BY DeviceRegistryAssumption DEF TypeOK
<1>1. ASSUME UNCHANGED <<pc, found, handle, leaked>> PROVE Held'
  BY <1>1 DEF Held, HeldBy
<1>2. ASSUME NEW c \in Contexts, NEW from \in Positions, NEW to \in Positions,
             Goto(c, from, to), UNCHANGED <<found, handle, leaked>>,
             from = "open" => to = "refused",
             from \notin {"opened", "refused"} /\ to \notin {"opened", "claim"},
             from \in Holding <=> to \in Holding,
             from \in After \cup {"exit", "flush"} =>
               to \in After \cup {"exit", "flush"}
      PROVE  Held'
  BY <1>0, <1>2 DEF Goto, Held, HeldBy, Holding
<1>3. ASSUME NEW c \in Contexts, OpenStep(c) PROVE Held'
  <2>1. CASE GetList(c)
    BY <1>0, <2>1 DEF GetList, Goto, Held, HeldBy, Holding, Listed, After
  <2>2. CASE NotFound(c)
    BY <1>0, <2>2 DEF NotFound, Goto, Held, HeldBy, Holding
  <2>3. CASE OpenDevice(c)
    <3>1. PICK s \in Slots : handle' = [handle EXCEPT ![c] = s]
      BY <1>0, <2>3 DEF OpenDevice
    <3> QED
      BY <1>0, <2>3, <3>1 DEF OpenDevice, Goto, Held, HeldBy, Holding, After
  <2>4. CASE FreeList(c)
    BY <1>0, <2>4 DEF FreeList, Goto, Held, HeldBy, Holding, After
  <2>5. CASE ClaimFails(c)
    BY <1>0, <2>5 DEF ClaimFails, Goto, Held, HeldBy, Holding, After
  <2> QED
    BY <1>3, <2>1, <2>2, <2>3, <2>4, <2>5 DEF OpenStep
<1>4. ASSUME NEW c \in Contexts, CloseEnds(c) PROVE Held'
  BY <1>0, <1>4 DEF CloseEnds, Goto, Held, HeldBy, Holding, After
<1>5. ASSUME NEW c \in Contexts, Claim(c) PROVE Held'
  BY <1>0, <1>5 DEF Claim, Goto, Held, HeldBy, Holding, After, handleVars
<1>6. ASSUME NEW c \in Contexts,
             \/ (GoesOn(c) /\ ~Claim(c)) \/ ContextStep(c) \/ HotplugStep(c)
             \/ ReasonStep(c) /\ ~CloseEnds(c)
      PROVE  Held'
  <2>1. UNCHANGED <<found, handle, leaked>>
    BY <1>6 DEF GoesOn, InitFails, InitPipeFails, OpenFails, Claim, Flushed,
       ContextStep, InitContext, StartMonitor, Scan, ScanFails, Undo, Exit,
       OpExit, StopMonitor, JoinMonitor, HotplugStep, HotplugPoll, PollReads,
       PollEnds, TellLoss, LossTold, ReasonStep, InitLists, InitPipe,
       TakePollfds, TakeMessage, NoticeLoss, CloseBegins, Unlist, handleVars
  <2>2. CASE UNCHANGED pc
    BY <2>1, <2>2, <1>1
  <2>3. CASE GoesOn(c) /\ ~Claim(c)
    BY <2>1, <2>3, <1>2 DEF GoesOn, InitFails, InitPipeFails, OpenFails,
       Flushed, Positions, Holding, After
  <2>4. CASE ContextStep(c) /\ ~UNCHANGED pc
    <3>1. \/ Goto(c, "idle", "start") \/ Goto(c, "start", "scan")
          \/ Goto(c, "scan", "lists") \/ Goto(c, "scan", "unstart")
          \/ Goto(c, "scan", "undo") \/ Goto(c, "undo", "ended")
          \/ Goto(c, "exit", "flush") \/ Goto(c, "exit", "unlist")
          \/ Goto(c, "stop", "unstart") \/ Goto(c, "stop", "undo")
          \/ Goto(c, "stop", "ended") \/ Goto(c, "unstart", "undo")
          \/ Goto(c, "unstart", "ended")
      BY <2>4 DEF ContextStep, InitContext, StartMonitor, Scan, ScanFails, Undo,
         Exit, OpExit, StopMonitor, JoinMonitor, Stopped
    <3> QED
      BY <2>1, <3>1, <1>2 DEF Positions, Holding, After
  <2>5. CASE HotplugStep(c) /\ ~UNCHANGED pc
    <3>1. \/ Goto(c, "poll", "polling") \/ Goto(c, "polling", "list")
          \/ Goto(c, "lost", "telling") \/ Goto(c, "lost", "stream")
          \/ Goto(c, "telling", "stream")
      BY <2>5 DEF HotplugStep, HotplugPoll, PollReads, PollEnds, TellLoss,
         LossTold, Goto
    <3> QED
      BY <2>1, <3>1, <1>2 DEF Positions, Holding, After
  <2>6. CASE ReasonStep(c) /\ ~CloseEnds(c) /\ ~UNCHANGED pc
    <3>1. \/ Goto(c, "lists", "pipe") \/ Goto(c, "pipe", "poll")
          \/ Goto(c, "stream", "lost") \/ Goto(c, "stream", "close")
          \/ Goto(c, "unlist", "stop")
      BY <2>6 DEF ReasonStep, InitLists, InitPipe, TakePollfds, TakeMessage,
         NoticeLoss, CloseBegins, Unlist
    <3> QED
      BY <2>1, <3>1, <1>2 DEF Positions, Holding, After
  <2> QED
    BY <1>6, <2>2, <2>3, <2>4, <2>5, <2>6
<1>7. CASE \/ KernelStep \/ MonitorOnly \/ MonitorReads \/ MonitorDone
           \/ LockContexts \/ UNCHANGED vars \/ \E c \in Contexts : TellStep(c)
  BY <1>1, <1>7 DEF KernelStep, Plug, Unplug, MonitorOnly, MonitorWakes,
     MonitorEnds, MonitorInterrupted, MonitorReads, MonitorDone, LockContexts,
     TellStep, Enumerate, Find, Disconnect, Drop, handleVars, vars
<1> QED
  BY <1>3, <1>4, <1>5, <1>6, <1>7, Steps DEF GoesOn, ReasonStep
LEMMA EventStep ==
  ASSUME TypeOK, ActiveIsInUse, WorkIsHeld, Held, EventLife, [Next]_vars
  PROVE  EventLife' /\ event' \in [Contexts -> Reasons]
<1>0. /\ pc \in [Contexts -> Positions] /\ event \in [Contexts -> Reasons]
      /\ leaked \subseteq Contexts /\ active \subseteq Contexts
      /\ work \in Works /\ 0 \notin Slots /\ None \notin Contexts
  BY DeviceRegistryAssumption DEF TypeOK
<1>1. ASSUME UNCHANGED <<pc, event, leaked>>
      PROVE  EventLife' /\ event' \in [Contexts -> Reasons]
  BY <1>0, <1>1 DEF EventLife, EventFits, PipeTells, Pending
<1>2. ASSUME NEW c \in Contexts, NEW from \in Positions, NEW to \in Positions,
             Goto(c, from, to), UNCHANGED event,
             leaked \subseteq leaked' /\ leaked' \subseteq leaked \cup {c},
             from \in UpAt <=> to \in UpAt, from # "close" /\ to # "close",
             to \in Early => from \in Early /\ from # "pipe" /\ to # "pipe",
             to \in After => \/ from \in After \cup Early
                             \/ c \in leaked' \/ event[c].messages = <<>>
      PROVE  EventLife' /\ event' \in [Contexts -> Reasons]
  <2>1. ASSUME NEW d \in Contexts, d # c PROVE EventFits(d)'
    BY <1>0, <1>2, <2>1 DEF Goto, EventLife, EventFits, PipeTells, Pending
  <2>2. EventFits(c)'
    <3>1. pc[c] = from /\ pc'[c] = to /\ event'[c] = event[c]
          /\ (c \notin leaked' => c \notin leaked)
      BY <1>0, <1>2 DEF Goto
    <3>2. EventFits(c)
      BY DEF EventLife
    <3>3. event[c].ready => to \notin {"idle", "start", "scan", "lists"}
      BY <1>2, <3>1, <3>2 DEF EventFits, Early
    <3> QED
      BY <1>2, <3>1, <3>2, <3>3 DEF EventFits, PipeTells, Pending
  <2> QED
    BY <1>0, <1>2, <2>1, <2>2 DEF EventLife
\* A change of one context's reasons.
<1>3. ASSUME NEW c \in Contexts, NEW f \in Reasons,
             event' = [event EXCEPT ![c] = f],
             \A d \in Contexts \ {c} : pc'[d] = pc[d],
             UNCHANGED leaked, EventFits(c)'
      PROVE  EventLife' /\ event' \in [Contexts -> Reasons]
  <2>1. ASSUME NEW d \in Contexts, d # c PROVE EventFits(d)'
    BY <1>0, <1>3, <2>1 DEF EventLife, EventFits, PipeTells, Pending
  <2> QED
    BY <1>0, <1>3, <2>1 DEF EventLife
<1>4. ASSUME NEW c \in active, NEW left \in BOOLEAN, NEW s \in Slots,
             UNCHANGED <<pc, leaked>>,
             event' = [event EXCEPT ![c] = Notified(@, left, s)]
      PROVE  EventLife' /\ event' \in [Contexts -> Reasons]
  <2> DEFINE e == event[c]
             f == Notified(e, left, s)
  <2>1. c \in Contexts /\ e \in Reasons /\ EventFits(c)
    BY <1>0 DEF EventLife
  <2>2. f \in Reasons /\ event' = [event EXCEPT ![c] = f] /\ event'[c] = f
    BY <1>0, <1>4, <2>1, NotifiedFacts
  <2>3. pc[c] # "unlist"
    BY <2>1 DEF ActiveIsInUse, InUse
  <2>4. EventFits(c)'
    <3>1. CASE ~e.ready
      <4>1. f = e
        BY <3>1 DEF Notified
      <4> QED
        BY <1>4, <2>1, <2>2, <4>1 DEF EventFits, PipeTells, Pending
    <3>2. CASE e.ready
      <4>1. /\ f.ready /\ f.up = e.up /\ f.closing = e.closing
            /\ f.modified = e.modified
            /\ f.messages = Append(e.messages, [left |-> left, slot |-> s])
            /\ f.deaf = (e.deaf \/ ~e.up)
            /\ f.pipe = IF Pending(e) \/ ~e.up THEN e.pipe ELSE e.pipe + 1
        BY <2>1, <3>2, NotifiedFacts
      <4>2. f.messages # <<>>
        BY <2>1, <4>1 DEF Reasons
      <4>3. Pending(f)
        BY <4>2 DEF Pending
      <4>4. PipeTells(f)
        <5>1. PipeTells(e) /\ e.up \in BOOLEAN /\ e.deaf \in BOOLEAN
          BY <2>1 DEF EventFits, Reasons
        <5>2. e.up => f.deaf = e.deaf
          BY <4>1, <5>1
        <5> HIDE DEF f
        <5> QED
          BY <2>1, <2>2, <4>1, <4>2, <4>3, <5>1, <5>2, PipeRaised
      <4>5. pc[c] \in Early \cup (After \ {"unlist"}) => ~e.up
        BY <2>1 DEF EventFits, Early, After, UpAt
      <4>6. /\ pc[c] \notin {"idle", "start", "scan", "lists"}
            /\ e.up <=> pc[c] \in UpAt
            /\ e.closing <=> pc[c] = "close"
            /\ pc[c] \in Early => e.pipe = 0 /\ ~e.modified
        BY <2>1, <3>2 DEF EventFits
      <4>7. pc[c] \in Early => f.pipe = 0 /\ f.deaf
        BY <2>1, <4>1, <4>5, <4>6 DEF Reasons
      <4>8. pc[c] \in After => f.deaf
        BY <2>1, <2>3, <4>1, <4>5 DEF Reasons
      <4>9. pc'[c] = pc[c]
        BY <1>4
      <4> HIDE DEF f
      <4> QED
        BY <2>2, <4>1, <4>2, <4>4, <4>6, <4>7, <4>8, <4>9 DEF EventFits
    <3> QED
      BY <3>1, <3>2
  <2> HIDE DEF f
  <2> QED
    BY <1>3, <1>4, <2>1, <2>2, <2>4
<1>5. ASSUME NEW c \in Contexts, TellStep(c)
      PROVE  EventLife' /\ event' \in [Contexts -> Reasons]
  <2>1. UNCHANGED <<pc, leaked>>
    BY <1>5 DEF TellStep, Enumerate, Find, Disconnect, Drop, handleVars
  <2>2. CASE Enumerate(c)
    <3>1. c \in active
      BY <2>2 DEF Enumerate, WorkIsHeld
    <3>2. \/ UNCHANGED event
          \/ \E s \in Slots :
               event' = [event EXCEPT ![c] = Notified(@, FALSE, s)]
      BY <2>2 DEF Enumerate, Free
    <3> QED
      BY <2>1, <3>1, <3>2, <1>1, <1>4
  <2>3. CASE Find(c) \/ Drop(c)
    BY <2>1, <2>3, <1>1 DEF Find, Drop
  <2>4. CASE Disconnect(c)
    <3>1. c \in active /\ work.slot \in Slots
      BY <1>0, <2>4 DEF Disconnect, WorkIsHeld, Works
    <3>2. event' = [event EXCEPT ![c] = Notified(@, TRUE, work.slot)]
      BY <2>4 DEF Disconnect
    <3> QED
      BY <2>1, <3>1, <3>2, <1>4
  <2> QED
    BY <1>5, <2>2, <2>3, <2>4 DEF TellStep
<1>6. ASSUME NEW c \in Contexts, GoesOn(c)
      PROVE  EventLife' /\ event' \in [Contexts -> Reasons]
  <2>1. UNCHANGED <<event, leaked>>
    BY <1>6 DEF GoesOn, InitFails, InitPipeFails, OpenFails, Claim, Flushed,
       handleVars
  <2>2. CASE Flushed(c)
    <3>1. pc[c] = "flush" /\ event[c].pipe = 0 /\ EventFits(c)
      BY <2>2 DEF Flushed, Goto, EventLife
    <3>2. event[c].messages = <<>> \/ event[c].deaf
      BY <3>1 DEF EventFits, PipeTells, Pending, If, UpAt
    <3>3. CASE event[c].messages = <<>>
      BY <2>1, <2>2, <3>3, <1>2 DEF Flushed, UpAt, Early, After, Positions
    <3>4. CASE event[c].deaf
      <4>1. EventFits(c)'
        BY <1>0, <2>1, <2>2, <3>1, <3>4
           DEF Flushed, Goto, EventFits, PipeTells, Pending, UpAt, Early, After
      <4>2. event' = [event EXCEPT ![c] = event[c]]
        BY <1>0, <2>1
      <4> QED
        BY <1>0, <2>1, <2>2, <4>1, <4>2, <1>3 DEF Flushed, Goto
    <3> QED
      BY <3>2, <3>3, <3>4
  <2>3. CASE ~Flushed(c)
    BY <1>2, <1>6, <2>1, <2>3 DEF GoesOn, InitFails, InitPipeFails, OpenFails,
       Claim, Positions, UpAt, Early, After
  <2> QED
    BY <2>2, <2>3
<1>7. ASSUME NEW c \in Contexts, ContextStep(c)
      PROVE  EventLife' /\ event' \in [Contexts -> Reasons]
  <2>1. UNCHANGED <<event, leaked>>
    BY <1>7 DEF ContextStep, InitContext, StartMonitor, Scan, ScanFails, Undo,
       Exit, OpExit, StopMonitor, JoinMonitor, handleVars
  <2>2. CASE Exit(c)
    <3>1. CASE handle[c] = 0
      BY <2>1, <2>2, <3>1, <1>2 DEF Exit, Positions, UpAt, Early, After
    <3>2. CASE handle[c] # 0
      <4>1. c \in leaked'
        BY <2>1, <2>2, <3>2 DEF Exit, Goto, Held, HeldBy, Holding
      <4> QED
        BY <2>1, <2>2, <3>2, <4>1, <1>2
           DEF Exit, Positions, UpAt, Early, After
    <3> QED
      BY <3>1, <3>2
  <2>3. CASE StopMonitor(c)
    BY <2>1, <2>3, <1>1 DEF StopMonitor
  <2>4. CASE InitContext(c) \/ StartMonitor(c) \/ Scan(c)
    BY <2>1, <2>4, <1>2
       DEF InitContext, StartMonitor, Scan, Positions, UpAt, Early, After
  <2>5. CASE ScanFails(c) \/ Undo(c) \/ OpExit(c) \/ JoinMonitor(c)
    <3>1. \/ Goto(c, "scan", "unstart") \/ Goto(c, "scan", "undo")
          \/ Goto(c, "undo", "ended") \/ Goto(c, "stop", "unstart")
          \/ Goto(c, "stop", "undo") \/ Goto(c, "stop", "ended")
          \/ Goto(c, "unstart", "undo") \/ Goto(c, "unstart", "ended")
      BY <2>5 DEF ScanFails, Undo, OpExit, JoinMonitor, Stopped
    <3> QED
      BY <2>1, <3>1, <1>2 DEF Positions, UpAt, Early, After
  <2> QED
    BY <1>7, <2>2, <2>3, <2>4, <2>5 DEF ContextStep
<1>8. ASSUME NEW c \in Contexts, HotplugStep(c)
      PROVE  EventLife' /\ event' \in [Contexts -> Reasons]
  <2>1. UNCHANGED <<event, leaked>>
    BY <1>8 DEF HotplugStep, HotplugPoll, PollReads, PollEnds, TellLoss,
       LossTold, handleVars
  <2>2. \/ UNCHANGED pc
        \/ Goto(c, "poll", "polling") \/ Goto(c, "polling", "list")
        \/ Goto(c, "lost", "telling") \/ Goto(c, "lost", "stream")
        \/ Goto(c, "telling", "stream")
    BY <1>8 DEF HotplugStep, HotplugPoll, PollReads, PollEnds, TellLoss,
       LossTold, Goto
  <2> QED
    BY <2>1, <2>2, <1>1, <1>2 DEF Positions, UpAt, Early, After
<1>9. ASSUME NEW c \in Contexts, OpenStep(c)
      PROVE  EventLife' /\ event' \in [Contexts -> Reasons]
  <2>1. CASE GetList(c) \/ FreeList(c)
    BY <2>1, <1>2 DEF GetList, FreeList, Positions, UpAt, Early, After
  <2>2. CASE NotFound(c) \/ ClaimFails(c)
    <3>1. leaked \subseteq leaked' /\ leaked' \subseteq leaked \cup {c}
      BY <2>2 DEF NotFound, ClaimFails
    <3> QED
      BY <2>2, <3>1, <1>2
         DEF NotFound, ClaimFails, Positions, UpAt, Early, After
  <2>3. CASE OpenDevice(c)
    <3> DEFINE f == Modified(event[c])
    <3>1. event' = [event EXCEPT ![c] = f] /\ f \in Reasons /\ EventFits(c)
      BY <1>0, <2>3, ModifiedFacts DEF OpenDevice, EventLife
    <3>2. pc[c] = "open" /\ pc' = [pc EXCEPT ![c] = "opened"]
          /\ UNCHANGED leaked
      BY <2>3 DEF OpenDevice, Goto
    <3>3. /\ f.ready = event[c].ready /\ f.up = event[c].up
          /\ f.closing = event[c].closing /\ f.modified
          /\ f.messages = event[c].messages /\ f.deaf = event[c].deaf
          /\ f.pipe = IF Pending(event[c]) \/ ~event[c].up THEN event[c].pipe
                      ELSE event[c].pipe + 1
      BY <1>0, ModifiedFacts
    <3> HIDE DEF f
    <3>4. event'[c] = f /\ pc'[c] = "opened"
      BY <1>0, <3>1, <3>2
    <3>5. PipeTells(f)
      BY <1>0, <3>1, <3>3 DEF EventFits, PipeTells, Pending, If, Reasons
    <3>6. EventFits(c)'
      BY <3>1, <3>2, <3>3, <3>4, <3>5
         DEF EventFits, PipeTells, Pending, UpAt, Early, After
    <3> QED
      BY <1>0, <3>1, <3>2, <3>6, <1>3
  <2> QED
    BY <1>9, <2>1, <2>2, <2>3 DEF OpenStep
<1>10. ASSUME NEW c \in Contexts, ReasonStep(c)
       PROVE  EventLife' /\ event' \in [Contexts -> Reasons]
  <2>1. UNCHANGED leaked /\ \A d \in Contexts \ {c} : pc'[d] = pc[d]
    BY <1>0, <1>10 DEF ReasonStep, InitLists, InitPipe, TakePollfds,
       TakeMessage, NoticeLoss, CloseBegins, CloseEnds, Unlist, Goto, handleVars
  <2>2. ASSUME NEW f \in Reasons, event' = [event EXCEPT ![c] = f],
               EventFits(c)'
        PROVE  EventLife' /\ event' \in [Contexts -> Reasons]
    BY <2>1, <2>2, <1>3
  <2> DEFINE e == event[c]
  <2>3. e \in Reasons /\ EventFits(c) /\ e.pipe \in Nat
        /\ e.messages \in Seq(Messages)
    BY <1>0 DEF EventLife, Reasons
  <2>4. CASE InitLists(c)
    <3> DEFINE f == [e EXCEPT !.ready = TRUE]
    <3>1. /\ f \in Reasons /\ event' = [event EXCEPT ![c] = f]
          /\ f.ready /\ f.up = e.up /\ f.closing = e.closing
          /\ f.modified = e.modified /\ f.messages = e.messages
          /\ f.deaf = e.deaf /\ f.pipe = e.pipe
      BY <1>0, <2>3, <2>4 DEF InitLists, Reasons
    <3> HIDE DEF f
    <3>2. pc[c] = "lists" /\ pc'[c] = "pipe" /\ event'[c] = f
      BY <1>0, <2>4, <3>1 DEF InitLists, Goto
    <3>3. EventFits(c)'
      BY <2>1, <2>3, <3>1, <3>2
         DEF EventFits, PipeTells, Pending, If, UpAt, Early, After
    <3> QED
      BY <2>2, <3>1, <3>3
  <2>5. CASE InitPipe(c)
    <3> DEFINE g == [e EXCEPT !.up = TRUE]
               f == Modified(g)
    <3>1. /\ g \in Reasons /\ event' = [event EXCEPT ![c] = f]
          /\ g.ready = e.ready /\ g.up /\ g.closing = e.closing
          /\ g.modified = e.modified /\ g.messages = e.messages
          /\ g.deaf = e.deaf /\ g.pipe = e.pipe
      BY <1>0, <2>3, <2>5 DEF InitPipe, Reasons
    <3> HIDE DEF g
    <3>2. /\ f \in Reasons /\ f.ready = g.ready /\ f.up = g.up
          /\ f.closing = g.closing /\ f.modified /\ f.messages = g.messages
          /\ f.deaf = g.deaf
          /\ f.pipe = IF Pending(g) \/ ~g.up THEN g.pipe ELSE g.pipe + 1
      BY <3>1, ModifiedFacts
    <3> HIDE DEF f
    <3>3. pc[c] = "pipe" /\ pc'[c] = "poll" /\ event'[c] = f
      BY <1>0, <2>5, <3>1 DEF InitPipe, Goto
    <3>4. /\ ~e.closing /\ ~e.modified /\ e.pipe = 0
          /\ e.deaf <=> e.messages # <<>>
      BY <2>3, <3>3 DEF EventFits, Early
    <3>5. PipeTells(g)
      BY <3>1, <3>4 DEF PipeTells, Pending, If
    <3>6. PipeTells(f)
      BY <3>1, <3>2, <3>5, PipeRaised DEF Pending
    <3>7. EventFits(c)'
      BY <2>3, <3>1, <3>2, <3>3, <3>4, <3>6 DEF EventFits, UpAt, Early, After
    <3> QED
      BY <2>2, <3>1, <3>2, <3>7
  <2>6. CASE NoticeLoss(c)
    <3> DEFINE f == Modified(e)
    <3>1. /\ f \in Reasons /\ f.ready = e.ready /\ f.up = e.up
          /\ f.closing = e.closing /\ f.modified /\ f.messages = e.messages
          /\ f.deaf = e.deaf
          /\ f.pipe = IF Pending(e) \/ ~e.up THEN e.pipe ELSE e.pipe + 1
      BY <2>3, ModifiedFacts
    <3>2. pc[c] = "stream" /\ pc'[c] = "lost" /\ event'[c] = f
          /\ event' = [event EXCEPT ![c] = f]
      BY <1>0, <2>6, <3>1 DEF NoticeLoss, Goto
    <3> HIDE DEF f
    <3>3. EventFits(c)'
      BY <2>1, <2>3, <3>1, <3>2
         DEF EventFits, PipeTells, Pending, If, UpAt, Early, After
    <3> QED
      BY <2>2, <3>1, <3>2, <3>3
  <2>7. CASE CloseBegins(c)
    <3> DEFINE g == [e EXCEPT !.closing = TRUE]
               f == Raise(e, g)
    <3>1. /\ g \in Reasons /\ event' = [event EXCEPT ![c] = f]
          /\ g.ready = e.ready /\ g.up = e.up /\ g.closing
          /\ g.modified = e.modified /\ g.messages = e.messages
          /\ g.deaf = e.deaf /\ g.pipe = e.pipe
      BY <1>0, <2>3, <2>7 DEF CloseBegins, Reasons
    <3> HIDE DEF g
    <3>2. /\ f \in Reasons /\ f.ready = g.ready /\ f.up = g.up
          /\ f.closing = g.closing /\ f.modified = g.modified
          /\ f.messages = g.messages /\ f.deaf = g.deaf
          /\ f.pipe = IF Pending(e) \/ ~e.up THEN e.pipe ELSE e.pipe + 1
      BY <2>3, <3>1, RaiseFacts
    <3> HIDE DEF f
    <3>3. pc[c] = "stream" /\ pc'[c] = "close" /\ event'[c] = f
      BY <1>0, <2>7, <3>1 DEF CloseBegins, Goto
    <3>4. PipeTells(f)
      BY <2>3, <3>1, <3>2, PipeRaised DEF EventFits, Pending
    <3>5. EventFits(c)'
      BY <2>3, <3>1, <3>2, <3>3, <3>4 DEF EventFits, UpAt, Early, After
    <3> QED
      BY <2>2, <3>1, <3>2, <3>5
  <2>8. CASE TakePollfds(c)
    <3> DEFINE g == [e EXCEPT !.modified = FALSE]
               f == Settle(g)
    <3>1. /\ g \in Reasons /\ event' = [event EXCEPT ![c] = f]
          /\ g.ready = e.ready /\ g.up = e.up /\ g.closing = e.closing
          /\ ~g.modified /\ g.messages = e.messages
          /\ g.deaf = e.deaf /\ g.pipe = e.pipe /\ e.modified
      BY <1>0, <2>3, <2>8 DEF TakePollfds, Reasons
    <3> HIDE DEF g
    <3>2. pc[c] \in {"stream", "flush"} /\ pc'[c] = pc[c] /\ event'[c] = f
      BY <1>0, <2>8, <3>1 DEF TakePollfds, HandlesEvents
    <3>3. Pending(g) \/ g.pipe > 0
      BY <2>3, <3>1, <3>2 DEF EventFits, PipeTells, Pending, If, UpAt
    <3>4. /\ f \in Reasons /\ f.ready = g.ready /\ f.up = g.up
          /\ f.closing = g.closing /\ f.modified = g.modified
          /\ f.messages = g.messages /\ f.deaf = g.deaf
          /\ f.pipe = IF Pending(g) THEN g.pipe ELSE g.pipe - 1
      BY <3>1, <3>3, SettleFacts
    <3> HIDE DEF f
    <3>5. EventFits(c)'
      BY <2>1, <2>3, <3>1, <3>2, <3>4
         DEF EventFits, PipeTells, Pending, If, UpAt, Early, After
    <3> QED
      BY <2>2, <3>1, <3>4, <3>5
  <2>9. CASE TakeMessage(c)
    <3> DEFINE g == [e EXCEPT !.messages = Tail(@)]
               f == Settle(g)
    <3>0. Tail(e.messages) \in Seq(Messages) /\ e.messages # <<>> /\ e.pipe > 0
      BY <2>3, <2>9 DEF TakeMessage
    <3>1. /\ g \in Reasons /\ g.ready = e.ready /\ g.up = e.up
          /\ g.closing = e.closing /\ g.modified = e.modified
          /\ g.messages = Tail(e.messages) /\ g.deaf = e.deaf
          /\ g.pipe = e.pipe
      BY <2>3, <3>0 DEF Reasons
    <3>6. event' = [event EXCEPT ![c] = f]
      BY <2>9 DEF TakeMessage
    <3> HIDE DEF g
    <3>2. pc[c] \in {"stream", "flush"} /\ pc'[c] = pc[c] /\ event'[c] = f
      BY <1>0, <2>9, <3>6 DEF TakeMessage, HandlesEvents
    <3>3. ~e.deaf /\ e.up /\ Pending(e)
      BY <2>3, <3>0, <3>2 DEF EventFits, PipeTells, UpAt, Pending
    <3>4. /\ f \in Reasons /\ f.ready = g.ready /\ f.up = g.up
          /\ f.closing = g.closing /\ f.modified = g.modified
          /\ f.messages = g.messages /\ f.deaf = g.deaf
          /\ f.pipe = IF Pending(g) THEN g.pipe ELSE g.pipe - 1
      BY <3>0, <3>1, SettleFacts
    <3> HIDE DEF f
    <3>7. PipeTells(f)
      BY <2>3, <3>1, <3>3, <3>4, PipeSettled DEF EventFits
    <3>5. EventFits(c)'
      BY <2>3, <3>0, <3>1, <3>2, <3>3, <3>4, <3>7
         DEF EventFits, UpAt, Early, After
    <3> QED
      BY <2>2, <3>4, <3>5, <3>6
  <2>10. CASE CloseEnds(c)
    <3> DEFINE h == IF c \in polled THEN Modified(e) ELSE e
               g == [h EXCEPT !.closing = FALSE]
               f == Settle(g)
    <3>1. pc[c] = "close" /\ pc'[c] = "exit"
          /\ event' = [event EXCEPT ![c] = f]
      BY <1>0, <2>10 DEF CloseEnds, Goto
    <3>2. e.closing /\ e.up
      BY <2>3, <3>1 DEF EventFits, UpAt
    <3>3. /\ h \in Reasons /\ h.ready = e.ready /\ h.up = e.up
          /\ h.messages = e.messages /\ h.deaf = e.deaf /\ h.pipe = e.pipe
      BY <2>3, <3>2, ModifiedFacts DEF Pending
    <3> HIDE DEF h
    <3>4. /\ g \in Reasons /\ g.ready = e.ready /\ g.up = e.up /\ ~g.closing
          /\ g.messages = e.messages /\ g.deaf = e.deaf /\ g.pipe = e.pipe
      BY <3>3 DEF Reasons
    <3> HIDE DEF g
    <3>5. Pending(g) \/ g.pipe > 0
      BY <2>3, <3>2, <3>4 DEF EventFits, PipeTells, Pending, If
    <3>6. /\ f \in Reasons /\ f.ready = g.ready /\ f.up = g.up
          /\ f.closing = g.closing /\ f.modified = g.modified
          /\ f.messages = g.messages /\ f.deaf = g.deaf
          /\ f.pipe = IF Pending(g) THEN g.pipe ELSE g.pipe - 1
      BY <3>4, <3>5, SettleFacts
    <3> HIDE DEF f
    <3>7. event'[c] = f
      BY <1>0, <3>1
    <3>8. PipeTells(e) /\ Pending(e) /\ (e.deaf => e.messages # <<>>)
      BY <2>3, <3>2 DEF EventFits, PipeTells, Pending
    <3>9. PipeTells(f)
      BY <2>3, <3>2, <3>4, <3>6, <3>8, PipeSettled
    <3>10. EventFits(c)'
      BY <2>3, <3>1, <3>2, <3>4, <3>6, <3>7, <3>9
         DEF EventFits, UpAt, Early, After
    <3> QED
      BY <2>2, <3>1, <3>6, <3>10
  <2>11. CASE Unlist(c)
    <3> DEFINE f == [e EXCEPT !.up = FALSE]
    <3>1. /\ f \in Reasons /\ event' = [event EXCEPT ![c] = f]
          /\ f.ready = e.ready /\ ~f.up /\ f.closing = e.closing
          /\ f.modified = e.modified /\ f.messages = e.messages
          /\ f.deaf = e.deaf /\ f.pipe = e.pipe
      BY <1>0, <2>3, <2>11 DEF Unlist, Reasons
    <3> HIDE DEF f
    <3>2. pc[c] = "unlist" /\ pc'[c] = "stop" /\ event'[c] = f
      BY <1>0, <2>11, <3>1 DEF Unlist, Goto
    <3>3. EventFits(c)'
      BY <2>1, <2>3, <3>1, <3>2
         DEF EventFits, PipeTells, Pending, If, UpAt, Early, After
    <3> QED
      BY <2>2, <3>1, <3>3
  <2> QED
    BY <1>10, <2>4, <2>5, <2>6, <2>7, <2>8, <2>9, <2>10, <2>11 DEF ReasonStep
<1>11. CASE \/ KernelStep \/ MonitorOnly \/ MonitorReads \/ MonitorDone
            \/ LockContexts \/ UNCHANGED vars
  BY <1>1, <1>11 DEF KernelStep, Plug, Unplug, MonitorOnly, MonitorWakes,
     MonitorEnds, MonitorInterrupted, MonitorReads, MonitorDone, LockContexts,
     handleVars, vars
<1> QED
  BY <1>5, <1>6, <1>7, <1>8, <1>9, <1>10, <1>11, Steps
-----------------------------------------------------------------------------
(* The references to a device.                                              *)

\* The messages of a list that a device has left.
FarewellsIn(messages, s) ==
  {n \in DOMAIN messages : messages[n].left /\ messages[n].slot = s}

\* The references that are not the device's own: other than of the list of its
\* context.
Others(c, s) ==
  Cardinality(FarewellsIn(event[c].messages, s)) + If(s \in found[c])
  + If(handle[c] = s) + If(work.at = c /\ work.slot = s)

Own(d) == If(d.listed) + If(d.orphan)

RefsFit(c) ==
  /\ dev[c] \in [Slots -> Devices]
  /\ \A s \in Slots : dev[c][s].refs = Own(dev[c][s]) + Others(c, s)

RefsCounted == \A c \in Contexts : RefsFit(c)

\* A listed device has an address and was not left behind; a session that was
\* not begun, or is over, lists none.
ListsFit(c) ==
  /\ \A s \in Listed(c) : ~dev[c][s].orphan /\ dev[c][s].address # 0
  /\ pc[c] = "idle" => \A s \in Slots : dev[c][s] = NoDevice
  /\ pc[c] = "ended" => Listed(c) = {}
  /\ pc[c] \in Leaving /\ initLock # c => Listed(c) = {}

Lists == \A c \in Contexts : ListsFit(c)

\* What references do not change.
Kept(d, e) ==
  /\ e.listed = d.listed /\ e.orphan = d.orphan
  /\ d.listed => e.address = d.address /\ e.early = d.early
  /\ e.attached => d.attached /\ e.address = d.address

LEMMA RefKeeps ==
  ASSUME NEW devices \in [Slots -> Devices], NEW S \in SUBSET Slots,
         NEW s \in Slots
  PROVE  /\ Ref(devices, S) \in [Slots -> Devices]
         /\ Kept(devices[s], Ref(devices, S)[s])
         /\ Ref(devices, S)[s].refs = devices[s].refs + If(s \in S)
<1>1. ASSUME NEW t \in Slots
      PROVE  /\ [devices[t] EXCEPT !.refs = @ + 1] \in Devices
             /\ [devices[t] EXCEPT !.refs = @ + 1].refs = devices[t].refs + 1
             /\ Kept(devices[t], [devices[t] EXCEPT !.refs = @ + 1])
  BY DEF Devices, Kept
<1>2. Kept(devices[s], devices[s])
  BY DEF Kept
<1>3. devices[s].refs \in Nat
  BY DEF Devices
<1> QED
  BY <1>1, <1>2, <1>3 DEF Ref, If

LEMMA UnrefKeeps ==
  ASSUME NEW devices \in [Slots -> Devices], NEW S \in SUBSET Slots,
         NEW s \in Slots, NEW n \in Nat,
         devices[s].refs = Own(devices[s]) + n + If(s \in S)
  PROVE  /\ Unref(devices, S)[s] \in Devices
         /\ Kept(devices[s], Unref(devices, S)[s])
         /\ Unref(devices, S)[s].refs = Own(Unref(devices, S)[s]) + n
<1> DEFINE d == devices[s]
           e == Unref(devices, S)[s]
<1>1. /\ d \in Devices /\ d.refs \in Nat
      /\ d.listed \in BOOLEAN /\ d.orphan \in BOOLEAN
  BY DEF Devices
<1>2. CASE s \notin S
  <2>1. e = d
    BY <1>2 DEF Unref
  <2> QED
    BY <1>1, <1>2, <2>1 DEF Kept, If, Own
<1>3. CASE s \in S /\ d.refs = 1
  <2>1. e = NoDevice
    BY <1>3 DEF Unref
  <2>2. n = 0 /\ d.listed = FALSE /\ d.orphan = FALSE
    BY <1>1, <1>3 DEF If, Own
  <2>3. /\ e \in Devices /\ e.listed = FALSE /\ e.orphan = FALSE
        /\ e.attached = FALSE /\ e.refs = 0
    BY <2>1 DEF NoDevice, Devices
  <2> HIDE DEF d, e
  <2>4. Kept(d, e)
    BY <2>2, <2>3 DEF Kept
  <2>5. Own(e) = 0
    BY <2>3 DEF If, Own
  <2>6. e.refs = Own(e) + n
    BY <2>2, <2>3, <2>5
  <2> QED
    BY <2>3, <2>4, <2>6 DEF d, e
<1>4. CASE s \in S /\ d.refs # 1
  <2>1. e = [d EXCEPT !.refs = @ - 1]
    BY <1>4 DEF Unref
  <2>2. d.refs - 1 \in Nat
    BY <1>1, <1>4 DEF If, Own
  <2>3. /\ e \in Devices /\ e.refs = d.refs - 1
        /\ e.listed = d.listed /\ e.orphan = d.orphan
        /\ e.attached = d.attached /\ e.address = d.address
        /\ e.early = d.early
    BY <1>1, <2>1, <2>2 DEF Devices
  <2> HIDE DEF e
  <2>4. Kept(d, e)
    BY <2>3 DEF Kept
  <2>5. Own(e) = Own(d) /\ Own(d) \in Nat
    BY <1>1, <2>3 DEF If, Own
  <2>6. d.refs = Own(d) + n + 1
    BY <1>4 DEF If
  <2>7. e.refs = Own(e) + n
    BY <2>3, <2>5, <2>6
  <2> QED
    BY <2>3, <2>4, <2>7 DEF e
<1> QED
  BY <1>2, <1>3, <1>4

\* Messages that come and go.
LEMMA FarewellsFinite ==
  ASSUME NEW messages \in Seq(Messages), NEW s
  PROVE  /\ IsFiniteSet(FarewellsIn(messages, s))
         /\ Cardinality(FarewellsIn(messages, s)) \in Nat
<1>1. FarewellsIn(messages, s) \in SUBSET (1 .. Len(messages))
  BY DEF FarewellsIn
<1>2. IsFiniteSet(1 .. Len(messages))
  BY FS_Interval
<1> QED
  BY <1>1, <1>2, FS_Subset, FS_CardinalityType

LEMMA FarewellsAppended ==
  ASSUME NEW messages \in Seq(Messages), NEW m \in Messages, NEW s
  PROVE  Cardinality(FarewellsIn(Append(messages, m), s))
           = Cardinality(FarewellsIn(messages, s)) + If(m.left /\ m.slot = s)
<1> DEFINE k == Len(messages) + 1
           F == FarewellsIn(messages, s)
           G == FarewellsIn(Append(messages, m), s)
<1>1. DOMAIN messages = 1 .. (k - 1) /\ DOMAIN Append(messages, m) = 1 .. k
      /\ k \in Nat /\ k \notin F
  BY DEF FarewellsIn
<1>2. \A n \in 1 .. (k - 1) : Append(messages, m)[n] = messages[n]
  BY <1>1
<1>3. Append(messages, m)[k] = m
  BY <1>1
<1>4. CASE m.left /\ m.slot = s
  <2>1. G = F \cup {k}
    BY <1>1, <1>2, <1>3, <1>4 DEF FarewellsIn
  <2>2. IsFiniteSet(F) /\ Cardinality(F) \in Nat
    BY FarewellsFinite
  <2>3. Cardinality(G) = Cardinality(F) + 1
    <3> HIDE DEF F, G, k
    <3> QED
      BY <1>1, <2>1, <2>2, FS_AddElement
  <2> QED
    BY <1>4, <2>3 DEF If
<1>5. CASE ~(m.left /\ m.slot = s)
  <2>1. G = F
    BY <1>1, <1>2, <1>3, <1>5 DEF FarewellsIn
  <2> QED
    BY <1>5, <2>1, FarewellsFinite DEF If
<1> QED
  BY <1>4, <1>5

LEMMA FarewellsTaken ==
  ASSUME NEW messages \in Seq(Messages), messages # <<>>, NEW s
  PROVE  Cardinality(FarewellsIn(messages, s))
           = Cardinality(FarewellsIn(Tail(messages), s))
             + If(Head(messages).left /\ Head(messages).slot = s)
<1> DEFINE F == FarewellsIn(messages, s)
           G == FarewellsIn(Tail(messages), s)
           later == F \ {1}
           f == [n \in later |-> n - 1]
<1>1. /\ Len(messages) \in Nat \ {0} /\ Head(messages) = messages[1]
      /\ DOMAIN messages = 1 .. Len(messages)
      /\ DOMAIN Tail(messages) = 1 .. (Len(messages) - 1)
  OBVIOUS
<1>2. \A n \in 1 .. (Len(messages) - 1) : Tail(messages)[n] = messages[n + 1]
  OBVIOUS
<1>3. \A n \in later : n \in 2 .. Len(messages) /\ n - 1 \in G
  BY <1>1, <1>2 DEF FarewellsIn
<1>4. \A n \in G : n + 1 \in later /\ n \in Nat
  BY <1>1, <1>2 DEF FarewellsIn
<1>5. f \in Bijection(later, G)
  <2>1. f \in [later -> G] /\ \A a, b \in later : f[a] = f[b] => a = b
    BY <1>3
  <2>2. ASSUME NEW n \in G PROVE \E a \in later : f[a] = n
    <3>1. n + 1 \in later /\ f[n + 1] = n
      BY <1>4
    <3> QED
      BY <3>1
  <2> HIDE DEF later, f, G
  <2>3. f \in Injection(later, G)
    BY <2>1 DEF Injection, IsInjective
  <2>4. f \in Surjection(later, G)
    BY <2>1, <2>2 DEF Surjection
  <2> QED
    BY <2>3, <2>4 DEF Bijection
<1>6. IsFiniteSet(F) /\ Cardinality(F) \in Nat
  BY FarewellsFinite
<1>7. IsFiniteSet(later) /\ Cardinality(later) = Cardinality(F) - If(1 \in F)
  <2> HIDE DEF F
  <2> QED
    BY <1>6, FS_RemoveElement DEF If
<1>8. Cardinality(G) = Cardinality(later)
  <2> HIDE DEF later, G, f
  <2> QED
    BY <1>5, <1>7, FS_Bijection DEF ExistsBijection
<1>9. 1 \in F <=> Head(messages).left /\ Head(messages).slot = s
  BY <1>1 DEF FarewellsIn
<1> HIDE DEF F, G, later
<1> QED
  BY <1>6, <1>7, <1>8, <1>9 DEF F, G, If
\* The steps that change what a context's devices are or are referred to by.
Touches(c) ==
  \/ TellStep(c) \/ Scan(c) \/ ScanFails(c) \/ Undo(c) \/ GetList(c)
  \/ OpenDevice(c) \/ FreeList(c) \/ TakeMessage(c) \/ CloseEnds(c) \/ Unlist(c)

Untouched(c) ==
  /\ dev'[c] = dev[c] /\ event'[c].messages = event[c].messages
  /\ found'[c] = found[c] /\ handle'[c] = handle[c]
  /\ \A s \in Slots :
       work'.at = c /\ work'.slot = s <=> work.at = c /\ work.slot = s

LEMMA TouchStep ==
  ASSUME TypeOK, WorkIsHeld, [Next]_vars, NEW d \in Contexts
  PROVE  Untouched(d) \/ Touches(d)
<1>0. /\ dev \in [Contexts -> [Slots -> Devices]]
      /\ event \in [Contexts -> Reasons] /\ work \in Works
      /\ found \in [Contexts -> SUBSET Slots]
      /\ handle \in [Contexts -> Slots \cup {0}]
      /\ None \notin Contexts
  BY DeviceRegistryAssumption DEF TypeOK
<1>1. ASSUME UNCHANGED <<dev, event, found, handle, work>> PROVE Untouched(d)
  BY <1>1 DEF Untouched
<1>2. ASSUME UNCHANGED <<dev, event, found, handle>>,
             work.at = None, work'.at = None
      PROVE  Untouched(d)
  BY <1>0, <1>2 DEF Untouched
<1>3. ReadMessage => work.at = None /\ work'.at = None
  BY DEF ReadMessage, AllTold, NoWork
<1>4. work = NoWork \/ AllTold => work.at = None
  BY DEF AllTold, NoWork
<1>5. CASE KernelStep \/ MonitorOnly \/ UNCHANGED vars
  BY <1>1, <1>5 DEF KernelStep, Plug, Unplug, MonitorOnly, MonitorWakes,
     MonitorEnds, MonitorInterrupted, handleVars, globalVars, vars
<1>6. CASE MonitorReads \/ MonitorDone
  <2>1. CASE MonitorReads /\ uevents = <<>>
    BY <2>1, <1>1 DEF MonitorReads, handleVars
  <2>2. CASE MonitorReads /\ uevents # <<>>
    BY <2>2, <1>2, <1>3 DEF MonitorReads, handleVars
  <2>3. CASE MonitorDone
    BY <2>3, <1>2, <1>4 DEF MonitorDone, NoWork, handleVars
  <2> QED
    BY <1>6, <2>1, <2>2, <2>3
<1>7. CASE LockContexts
  <2>1. work.at = None
    BY <1>7 DEF LockContexts, WorkIsHeld
  <2>2. work' = [work EXCEPT !.locked = TRUE, !.todo = active]
    BY <1>7 DEF LockContexts
  <2>3. work'.at = None
    BY <1>0, <2>1, <2>2 DEF Works
  <2> QED
    BY <1>2, <1>7, <2>1, <2>3 DEF LockContexts, handleVars
<1>8. ASSUME NEW c \in Contexts, TellStep(c) PROVE Untouched(d) \/ Touches(d)
  <2>1. CASE d = c
    BY <1>8, <2>1 DEF Touches
  <2>2. CASE d # c
    <3>1. UNCHANGED <<found, handle>> /\ dev'[d] = dev[d] /\ event'[d] = event[d]
      BY <1>0, <1>8, <2>2 DEF TellStep, Enumerate, Find, Disconnect, Drop,
         handleVars
    <3>2. CASE Enumerate(c)
      <4>1. work' = [work EXCEPT !.todo = @ \ {c}]
        BY <3>2 DEF Enumerate
      <4>2. work'.at = work.at /\ work'.slot = work.slot
        BY <1>0, <4>1 DEF Works
      <4> QED
        BY <3>1, <4>2 DEF Untouched
    <3>3. CASE Disconnect(c)
      BY <3>1, <3>3 DEF Disconnect, globalVars, Untouched
    <3>4. CASE Find(c)
      <4>1. work.at = None
        BY <3>4 DEF Find
      <4>2. work'.at \in {None, c}
        <5>1. CASE work' = [work EXCEPT !.todo = @ \ {c}]
          BY <1>0, <4>1, <5>1 DEF Works
        <5>2. CASE \E s \in Slots :
                work' = [work EXCEPT !.todo = @ \ {c}, !.at = c, !.slot = s]
          BY <1>0, <5>2 DEF Works
        <5> QED
          BY <3>4, <5>1, <5>2 DEF Find, Here, Listed
      <4> QED
        BY <1>0, <2>2, <3>1, <4>1, <4>2 DEF Untouched
    <3>5. CASE Drop(c)
      <4>1. work' = [work EXCEPT !.at = None, !.slot = 0] /\ work.at = c
        BY <3>5 DEF Drop
      <4>2. work'.at = None
        BY <1>0, <4>1 DEF Works
      <4> QED
        BY <1>0, <2>2, <3>1, <4>1, <4>2 DEF Untouched
    <3> QED
      BY <1>8, <3>2, <3>3, <3>4, <3>5 DEF TellStep
  <2> QED
    BY <2>1, <2>2
<1>9. ASSUME NEW c \in Contexts, HotplugStep(c) PROVE Untouched(d)
  <2>1. UNCHANGED <<dev, event, found, handle>>
    BY <1>9 DEF HotplugStep, HotplugPoll, PollReads, PollEnds, TellLoss,
       LossTold, handleVars
  <2>2. CASE HotplugPoll(c)
    BY <2>1, <2>2, <1>1 DEF HotplugPoll, globalVars
  <2>3. CASE PollReads(c)
    BY <2>1, <2>3, <1>2, <1>3 DEF PollReads
  <2>4. CASE PollEnds(c) \/ LossTold(c)
    BY <2>1, <2>4, <1>2, <1>4 DEF PollEnds, LossTold, NoWork
  <2>5. CASE TellLoss(c)
    <3>1. CASE dev[c][handle[c]].attached
      <4>1. hotplug = None /\ work'.at = None
        BY <2>5, <3>1 DEF TellLoss, NoWork
      <4>2. work.at = None
        BY <4>1 DEF WorkIsHeld, NoWork
      <4> QED
        BY <2>1, <4>1, <4>2, <1>2
    <3>2. CASE ~dev[c][handle[c]].attached
      BY <2>1, <2>5, <3>2, <1>1 DEF TellLoss
    <3> QED
      BY <3>1, <3>2
  <2> QED
    BY <1>9, <2>2, <2>3, <2>4, <2>5 DEF HotplugStep
<1>10. ASSUME NEW c \in Contexts,
              GoesOn(c) \/ ContextStep(c) \/ OpenStep(c) \/ ReasonStep(c)
       PROVE  Untouched(d) \/ Touches(d)
  <2>1. CASE d = c /\ Touches(c)
    BY <2>1
  <2>2. UNCHANGED work
    BY <1>10 DEF GoesOn, InitFails, InitPipeFails, OpenFails, Claim, Flushed,
       ContextStep, InitContext, StartMonitor, Scan, ScanFails, Undo, Exit,
       OpExit, StopMonitor, JoinMonitor, OpenStep, GetList, NotFound,
       OpenDevice, FreeList, ClaimFails, ReasonStep, InitLists, InitPipe,
       TakePollfds, TakeMessage, NoticeLoss, CloseBegins, CloseEnds, Unlist,
       globalVars
  <2>3. CASE d # c
    <3>1. /\ dev'[d] = dev[d] /\ event'[d] = event[d]
          /\ found'[d] = found[d] /\ handle'[d] = handle[d]
      <4>1. CASE GoesOn(c) \/ ContextStep(c)
        BY <1>0, <2>3, <4>1 DEF GoesOn, InitFails, InitPipeFails, OpenFails,
           Claim, Flushed, ContextStep, InitContext, StartMonitor, Scan,
           Scanned, ScanFails, Undo, Exit, OpExit, StopMonitor, JoinMonitor,
           handleVars
      <4>2. CASE OpenStep(c)
        BY <1>0, <2>3, <4>2 DEF OpenStep, GetList, NotFound, OpenDevice,
           FreeList, ClaimFails
      <4>3. CASE ReasonStep(c)
        BY <1>0, <2>3, <4>3 DEF ReasonStep, InitLists, InitPipe, TakePollfds,
           TakeMessage, NoticeLoss, CloseBegins, CloseEnds, Unlist, handleVars
      <4> QED
        BY <1>10, <4>1, <4>2, <4>3
    <3> QED
      BY <2>2, <3>1 DEF Untouched
  <2>4. CASE d = c /\ ~Touches(c)
    <3>1. CASE GoesOn(c) \/ ContextStep(c) \/ OpenStep(c)
      <4>1. UNCHANGED <<dev, event, found, handle>>
        BY <2>4, <3>1 DEF Touches, GoesOn, InitFails, InitPipeFails, OpenFails,
           Claim, Flushed, ContextStep, InitContext, StartMonitor, Exit, OpExit,
           StopMonitor, JoinMonitor, OpenStep, NotFound, ClaimFails, handleVars
      <4> QED
        BY <2>2, <4>1, <1>1
    <3>2. CASE ReasonStep(c)
      <4>1. UNCHANGED <<dev, found, handle>>
        BY <2>4, <3>2 DEF Touches, ReasonStep, InitLists, InitPipe, TakePollfds,
           NoticeLoss, CloseBegins, handleVars
      <4>2. event'[c].messages = event[c].messages
        <5> DEFINE e == event[c]
        <5>0. e \in Reasons
          BY <1>0
        <5>1. CASE InitLists(c)
          BY <1>0, <5>0, <5>1 DEF InitLists, Reasons
        <5>2. CASE InitPipe(c)
          <6>1. [e EXCEPT !.up = TRUE] \in Reasons
                /\ [e EXCEPT !.up = TRUE].messages = e.messages
            BY <5>0 DEF Reasons
          <6>2. event'[c] = Modified([e EXCEPT !.up = TRUE])
            BY <1>0, <5>2 DEF InitPipe
          <6> QED
            BY <6>1, <6>2, ModifiedFacts
        <5>3. CASE TakePollfds(c)
          BY <1>0, <5>0, <5>3 DEF TakePollfds, Settle, Reasons
        <5>4. CASE NoticeLoss(c)
          <6>1. event'[c] = Modified(e)
            BY <1>0, <5>4 DEF NoticeLoss
          <6> QED
            BY <5>0, <6>1, ModifiedFacts
        <5>5. CASE CloseBegins(c)
          BY <1>0, <5>0, <5>5 DEF CloseBegins, Raise, Reasons
        <5> QED
          BY <2>4, <3>2, <5>1, <5>2, <5>3, <5>4, <5>5 DEF ReasonStep, Touches
      <4> QED
        BY <2>2, <2>4, <4>1, <4>2 DEF Untouched
    <3> QED
      BY <1>10, <3>1, <3>2
  <2> QED
    BY <2>1, <2>3, <2>4
<1> QED
  BY <1>5, <1>6, <1>7, <1>8, <1>9, <1>10, Steps
\* What references do not change of any device of a context.
DevicesKept(c) == \A s \in Slots : Kept(dev[c][s], dev'[c][s])

LEMMA OthersCount ==
  ASSUME TypeOK, NEW c \in Contexts, NEW s \in Slots
  PROVE  /\ event[c].messages \in Seq(Messages)
         /\ Others(c, s) \in Nat
         /\ Others(c, s) = 0 => /\ s \notin found[c] /\ handle[c] # s
                                /\ FarewellsIn(event[c].messages, s) = {}
                                /\ ~(work.at = c /\ work.slot = s)
<1>1. event[c].messages \in Seq(Messages)
  BY DEF TypeOK, Reasons
<1> DEFINE F == FarewellsIn(event[c].messages, s)
<1>2. Cardinality(F) \in Nat /\ IsFiniteSet(F)
  BY <1>1, FarewellsFinite
<1>3. Cardinality(F) = 0 => F = {}
  <2> HIDE DEF F
  <2> QED
    BY <1>2, FS_EmptySet
<1> QED
  BY <1>1, <1>2, <1>3 DEF Others, If

LEMMA RefsUntouched ==
  ASSUME NEW c \in Contexts, RefsFit(c), Untouched(c)
  PROVE  RefsFit(c)' /\ DevicesKept(c)
<1>1. ASSUME NEW s \in Slots PROVE Others(c, s)' = Others(c, s)
  BY DEF Untouched, Others
<1> QED
  BY <1>1 DEF RefsFit, Untouched, DevicesKept, Kept

LEMMA RefsTaken ==
  ASSUME NEW c \in Contexts, RefsFit(c), NEW S \in SUBSET Slots,
         dev'[c] = Ref(dev[c], S),
         \A s \in Slots : /\ Others(c, s) \in Nat
                          /\ Others(c, s)' = Others(c, s) + If(s \in S)
  PROVE  RefsFit(c)' /\ DevicesKept(c)
<1>1. dev[c] \in [Slots -> Devices]
  BY DEF RefsFit
<1>2. dev'[c] \in [Slots -> Devices]
  <2>1. ASSUME NEW t \in Slots PROVE Ref(dev[c], S) \in [Slots -> Devices]
    BY <1>1, RefKeeps
  <2> QED
    BY <2>1 DEF Ref
<1>3. ASSUME NEW s \in Slots
      PROVE  /\ Kept(dev[c][s], dev'[c][s])
             /\ dev'[c][s].refs = Own(dev'[c][s]) + Others(c, s)'
  <2> DEFINE d == dev[c][s]
             e == dev'[c][s]
  <2>1. Kept(d, e) /\ e.refs = d.refs + If(s \in S)
    BY <1>1, RefKeeps
  <2>2. Own(e) = Own(d) /\ Own(d) \in Nat
    BY <2>1 DEF Kept, Own, If
  <2>3. d.refs = Own(d) + Others(c, s)
    BY DEF RefsFit
  <2>4. If(s \in S) \in Nat
    BY DEF If
  <2> QED
    BY <2>1, <2>2, <2>3, <2>4
<1> QED
  BY <1>2, <1>3 DEF RefsFit, DevicesKept

LEMMA RefsReleased ==
  ASSUME NEW c \in Contexts, RefsFit(c), NEW S \in SUBSET Slots,
         dev'[c] = Unref(dev[c], S),
         \A s \in Slots : /\ Others(c, s)' \in Nat
                          /\ Others(c, s) = Others(c, s)' + If(s \in S)
  PROVE  RefsFit(c)' /\ DevicesKept(c)
<1>1. dev[c] \in [Slots -> Devices]
  BY DEF RefsFit
<1>2. ASSUME NEW s \in Slots
      PROVE  /\ dev'[c][s] \in Devices
             /\ Kept(dev[c][s], dev'[c][s])
             /\ dev'[c][s].refs = Own(dev'[c][s]) + Others(c, s)'
  <2> DEFINE n == Others(c, s)'
  <2>1. n \in Nat /\ Own(dev[c][s]) \in Nat /\ If(s \in S) \in Nat
    BY DEF Own, If
  <2>2. dev[c][s].refs = Own(dev[c][s]) + n + If(s \in S)
    BY <2>1 DEF RefsFit
  <2> HIDE DEF n
  <2>3. /\ Unref(dev[c], S)[s] \in Devices
        /\ Kept(dev[c][s], Unref(dev[c], S)[s])
        /\ Unref(dev[c], S)[s].refs = Own(Unref(dev[c], S)[s]) + n
    BY <1>1, <2>1, <2>2, UnrefKeeps
  <2> QED
    BY <2>3 DEF n
<1>3. dev'[c] \in [Slots -> Devices]
  BY <1>2 DEF Unref
<1> QED
  BY <1>2, <1>3 DEF RefsFit, DevicesKept

LEMMA RefsUnlisted ==
  ASSUME NEW c \in Contexts, RefsFit(c), dev'[c] = Unlisted(c),
         \A s \in Slots : Others(c, s) \in Nat /\ Others(c, s)' = Others(c, s)
  PROVE  /\ RefsFit(c)' /\ Listed(c)' = {}
         /\ \A s \in Slots : dev'[c][s].attached =>
              dev[c][s].attached /\ dev'[c][s].address = dev[c][s].address
<1> DEFINE D == [s \in Slots |-> [dev[c][s] EXCEPT !.listed = FALSE]]
<1>1. dev[c] \in [Slots -> Devices]
  BY DEF RefsFit
<1>2. ASSUME NEW s \in Slots
      PROVE  /\ D[s] \in Devices /\ D[s].listed = FALSE
             /\ D[s].orphan = dev[c][s].orphan
             /\ D[s].refs = dev[c][s].refs
             /\ D[s].attached = dev[c][s].attached
             /\ D[s].address = dev[c][s].address
  BY <1>1 DEF Devices
<1>3. D \in [Slots -> Devices] /\ Listed(c) \in SUBSET Slots
  BY <1>2 DEF Listed
<1>4. dev'[c] = Unref(D, Listed(c))
  BY DEF Unlisted
<1>5. ASSUME NEW s \in Slots
      PROVE  /\ dev'[c][s] \in Devices
             /\ Kept(D[s], dev'[c][s])
             /\ dev'[c][s].refs = Own(dev'[c][s]) + Others(c, s)'
  <2> DEFINE n == Others(c, s)
  <2>1. n \in Nat
    OBVIOUS
  <2>2. dev[c][s].refs = Own(dev[c][s]) + n
    BY DEF RefsFit
  <2>3. s \in Listed(c) <=> dev[c][s].listed
    BY DEF Listed
  <2> HIDE DEF n, D
  <2>4. D[s].refs = Own(D[s]) + n + If(s \in Listed(c))
    <3>1. /\ D[s].refs = dev[c][s].refs /\ D[s].orphan = dev[c][s].orphan
          /\ dev[c][s].refs \in Nat
      BY <1>1, <1>2 DEF Devices
    <3>2. Own(D[s]) = If(dev[c][s].orphan)
      <4>1. If(D[s].listed) = 0
        BY <1>2 DEF If
      <4> QED
        BY <3>1, <4>1 DEF Own, If
    <3>3. Own(dev[c][s]) = If(s \in Listed(c)) + If(dev[c][s].orphan)
      BY <2>3 DEF Own, If
    <3>4. If(s \in Listed(c)) \in Nat /\ If(dev[c][s].orphan) \in Nat
      BY DEF If
    <3> QED
      BY <2>1, <2>2, <3>1, <3>2, <3>3, <3>4
  <2>5. /\ Unref(D, Listed(c))[s] \in Devices
        /\ Kept(D[s], Unref(D, Listed(c))[s])
        /\ Unref(D, Listed(c))[s].refs = Own(Unref(D, Listed(c))[s]) + n
    BY <1>3, <2>1, <2>4, UnrefKeeps
  <2> QED
    BY <1>4, <2>5 DEF n
<1>6. dev'[c] \in [Slots -> Devices]
  BY <1>4, <1>5 DEF Unref
<1> HIDE DEF D
<1> QED
  BY <1>2, <1>5, <1>6 DEF RefsFit, Kept, Listed

\* A device that takes a free slot.
LEMMA RefsArrived ==
  ASSUME NEW c \in Contexts, RefsFit(c), NEW s \in Free(c),
         NEW a \in Addresses \cup {0},
         dev'[c] = [dev[c] EXCEPT ![s] = NewDevice(c, a)],
         \A t \in Slots : Others(c, t) \in Nat /\ Others(c, t)' = Others(c, t)
  PROVE  RefsFit(c)' /\ Others(c, s) = 0
<1>1. /\ dev[c] \in [Slots -> Devices] /\ s \in Slots
      /\ dev[c][s] = NoDevice
  BY DEF RefsFit, Free
<1>2. Others(c, s) = 0
  BY <1>1 DEF RefsFit, Own, If, NoDevice
<1>3. /\ NewDevice(c, a) \in Devices /\ NewDevice(c, a).refs = 1
      /\ Own(NewDevice(c, a)) = 1
  BY DEF NewDevice, Devices, Own, If
<1>4. dev'[c] \in [Slots -> Devices] /\ dev'[c][s] = NewDevice(c, a)
  BY <1>1, <1>3
<1>5. ASSUME NEW t \in Slots, t # s PROVE dev'[c][t] = dev[c][t]
  BY <1>1, <1>5
<1> QED
  BY <1>2, <1>3, <1>4, <1>5 DEF RefsFit
\* Every reference is counted; and the devices of a context stay as they are
\* but for the steps of which one comes or leaves, or that unlist them all.
LEMMA RefsStep ==
  ASSUME TypeOK, WorkIsHeld, Held, EventLife, Lists, RefsCounted,
         [Next]_vars, EventLife', NEW c \in Contexts
  PROVE  /\ RefsFit(c)'
         /\ \/ DevicesKept(c) \/ Enumerate(c) \/ Scan(c) \/ ScanFails(c)
            \/ Disconnect(c) \/ Undo(c) \/ Unlist(c)
<1>0. /\ dev \in [Contexts -> [Slots -> Devices]] /\ RefsFit(c)
      /\ event \in [Contexts -> Reasons] /\ work \in Works
      /\ found \in [Contexts -> SUBSET Slots]
      /\ handle \in [Contexts -> Slots \cup {0}]
      /\ plugged \in Addresses \cup {0}
      /\ None \notin Contexts /\ 0 \notin Slots
  BY DeviceRegistryAssumption DEF TypeOK, RefsCounted
<1> DEFINE e == event[c]
<1>1. e \in Reasons /\ e.messages \in Seq(Messages)
  BY <1>0 DEF Reasons
<1>2. ASSUME NEW s \in Slots
      PROVE  /\ Others(c, s) \in Nat
             /\ Cardinality(FarewellsIn(e.messages, s)) \in Nat
             /\ If(s \in found[c]) \in Nat /\ If(handle[c] = s) \in Nat
             /\ If(work.at = c /\ work.slot = s) \in Nat
             /\ If(s \in found'[c]) \in Nat /\ If(handle'[c] = s) \in Nat
             /\ If(work'.at = c /\ work'.slot = s) \in Nat
  BY <1>1, OthersCount, FarewellsFinite DEF If
<1>3. CASE Untouched(c)
  BY <1>0, <1>3, RefsUntouched
<1>4. CASE Enumerate(c)
  <2>1. /\ UNCHANGED <<found, handle>>
        /\ work' = [work EXCEPT !.todo = @ \ {c}]
    BY <1>4 DEF Enumerate, handleVars
  <2>2. work'.at = work.at /\ work'.slot = work.slot
    BY <1>0, <2>1 DEF Works
  <2>3. CASE UNCHANGED <<dev, event>>
    <3>1. Untouched(c)
      BY <2>1, <2>2, <2>3 DEF Untouched
    <3> QED
      BY <3>1, <1>3
  <2>4. CASE ~UNCHANGED <<dev, event>>
    <3>1. PICK s \in Free(c) :
            /\ dev' = [dev EXCEPT ![c][s] = NewDevice(c, work.address)]
            /\ event' = [event EXCEPT ![c] = Notified(@, FALSE, s)]
      BY <1>4, <2>4 DEF Enumerate
    <3>2. s \in Slots /\ work.address \in Addresses \cup {0}
      BY <1>0 DEF Free, Works
    <3> DEFINE m == [left |-> FALSE, slot |-> s]
    <3>3. m \in Messages /\ ~m.left
      BY <3>2 DEF Messages
    <3>4. \/ event'[c].messages = e.messages
          \/ event'[c].messages = Append(e.messages, m)
      <4>1. event'[c] = Notified(e, FALSE, s)
        BY <1>0, <3>1
      <4> QED
        BY <1>1, <3>2, <4>1, NotifiedMessages
    <3> HIDE DEF m
    <3>5. ASSUME NEW t \in Slots PROVE Others(c, t)' = Others(c, t)
      <4>1. Cardinality(FarewellsIn(event'[c].messages, t))
              = Cardinality(FarewellsIn(e.messages, t))
        <5>1. Cardinality(FarewellsIn(Append(e.messages, m), t))
                = Cardinality(FarewellsIn(e.messages, t))
                  + If(m.left /\ m.slot = t)
          BY <1>1, <3>3, FarewellsAppended
        <5>2. If(m.left /\ m.slot = t) = 0
          BY <3>3 DEF If
        <5>3. Cardinality(FarewellsIn(e.messages, t)) \in Nat
          BY <1>2
        <5>4. Cardinality(FarewellsIn(Append(e.messages, m), t))
                = Cardinality(FarewellsIn(e.messages, t))
          BY <5>1, <5>2, <5>3
        <5> QED
          BY <3>4, <5>4
      <4> QED
        BY <2>1, <2>2, <4>1 DEF Others
    <3>6. dev'[c] = [dev[c] EXCEPT ![s] = NewDevice(c, work.address)]
      BY <1>0, <3>1
    <3> QED
      BY <1>0, <1>2, <1>4, <3>2, <3>5, <3>6, RefsArrived
  <2> QED
    BY <2>3, <2>4
<1>5. CASE Find(c)
  <2>1. /\ UNCHANGED <<found, handle, event>> /\ work.at = None
    BY <1>5 DEF Find, handleVars
  <2>2. CASE Here(c, work.address) = {}
    <3>1. dev' = dev /\ work' = [work EXCEPT !.todo = @ \ {c}]
      BY <1>5, <2>2 DEF Find
    <3>2. work'.at = work.at /\ work'.slot = work.slot
      BY <1>0, <3>1 DEF Works
    <3>3. Untouched(c)
      BY <2>1, <3>1, <3>2 DEF Untouched
    <3> QED
      BY <3>3, <1>3
  <2>3. CASE Here(c, work.address) # {}
    <3>1. PICK s \in Slots :
            /\ work' = [work EXCEPT !.todo = @ \ {c}, !.at = c, !.slot = s]
            /\ dev' = [dev EXCEPT ![c] = Ref(@, {s})]
      BY <1>5, <2>3 DEF Find, Here, Listed
    <3>2. work'.at = c /\ work'.slot = s
      BY <1>0, <3>1 DEF Works
    <3>3. ASSUME NEW t \in Slots
          PROVE  Others(c, t)' = Others(c, t) + If(t \in {s})
      <4>1. /\ If(work.at = c /\ work.slot = t) = 0
            /\ If(work'.at = c /\ work'.slot = t) = If(t \in {s})
        BY <1>0, <2>1, <3>2 DEF If
      <4> QED
        BY <1>2, <2>1, <4>1 DEF Others
    <3>4. dev'[c] = Ref(dev[c], {s})
      BY <1>0, <3>1
    <3> QED
      BY <1>0, <1>2, <3>3, <3>4, RefsTaken
  <2> QED
    BY <2>2, <2>3
<1>6. CASE Drop(c)
  <2>1. /\ UNCHANGED <<found, handle, event>> /\ work.at = c
        /\ work' = [work EXCEPT !.at = None, !.slot = 0]
        /\ dev' = [dev EXCEPT ![c] = Unref(@, {work.slot})]
    BY <1>6 DEF Drop, handleVars
  <2>2. work'.at = None /\ work.slot \in Slots
    BY <1>0, <2>1 DEF Works, WorkIsHeld
  <2>3. ASSUME NEW t \in Slots
        PROVE  /\ Others(c, t)' \in Nat
               /\ Others(c, t) = Others(c, t)' + If(t \in {work.slot})
    <3>1. /\ If(work'.at = c /\ work'.slot = t) = 0
          /\ If(work.at = c /\ work.slot = t) = If(t \in {work.slot})
      BY <1>0, <2>1, <2>2 DEF If
    <3> QED
      BY <1>2, <2>1, <3>1 DEF Others
  <2>4. dev'[c] = Unref(dev[c], {work.slot})
    BY <1>0, <2>1
  <2> QED
    BY <1>0, <2>2, <2>3, <2>4, RefsReleased
<1>7. CASE Disconnect(c)
  <2> DEFINE s == work.slot
             m == [left |-> TRUE, slot |-> s]
             r == e.ready
  <2>1. /\ UNCHANGED <<found, handle, work>> /\ work.at = c /\ dev[c][s].listed
        /\ dev' = [dev EXCEPT ![c][s].listed = FALSE, ![c][s].attached = FALSE,
                              ![c][s].orphan = ~r]
        /\ event' = [event EXCEPT ![c] = Notified(@, TRUE, s)]
    BY <1>7 DEF Disconnect, handleVars, globalVars
  <2>2. s \in Slots /\ r \in BOOLEAN
    BY <1>0, <1>1, <2>1 DEF Works, WorkIsHeld, Reasons
  <2>3. m \in Messages /\ m.left /\ m.slot = s
    BY <2>2 DEF Messages
  <2>4. IF r THEN event'[c].messages = Append(e.messages, m)
        ELSE event'[c].messages = e.messages
    <3>1. event'[c] = Notified(e, TRUE, s)
      BY <1>0, <2>1
    <3>2. Notified(e, TRUE, s).messages
            = IF e.ready THEN Append(e.messages, m) ELSE e.messages
      BY <1>1, <2>2, NotifiedMessages
    <3> QED
      BY <2>2, <3>1, <3>2
  <2>5. ~dev[c][s].orphan
    BY <2>1, <2>2 DEF Lists, ListsFit, Listed
  <2> DEFINE d == dev[c][s]
             f == dev'[c][s]
  <2>6. d \in Devices
    BY <1>0, <2>2
  <2>7. f = [d EXCEPT !.listed = FALSE, !.attached = FALSE, !.orphan = ~r]
    BY <1>0, <2>1, <2>2
  <2>8. /\ f \in Devices /\ f.listed = FALSE /\ f.orphan = ~r
        /\ f.refs = d.refs
    BY <2>2, <2>6, <2>7 DEF Devices
  <2>9. dev'[c] \in [Slots -> Devices]
        /\ \A t \in Slots \ {s} : dev'[c][t] = dev[c][t]
    <3>1. dev'[c] = [dev[c] EXCEPT ![s] = f]
      BY <1>0, <2>1, <2>2, <2>7
    <3> HIDE DEF f
    <3> QED
      BY <1>0, <2>2, <2>8, <3>1
  <2> HIDE DEF d, f, m, s, r
  <2>10. ASSUME NEW t \in Slots
         PROVE  Others(c, t)' = Others(c, t) + If(r /\ t = s)
    <3>1. Cardinality(FarewellsIn(event'[c].messages, t))
            = Cardinality(FarewellsIn(e.messages, t)) + If(r /\ t = s)
      <4>1. CASE r
        BY <1>1, <2>3, <2>4, <4>1, FarewellsAppended DEF If
      <4>2. CASE ~r
        BY <1>2, <2>4, <4>2 DEF If
      <4> QED
        BY <4>1, <4>2
    <3>2. If(r /\ t = s) \in Nat
      BY DEF If
    <3>3. /\ If(t \in found'[c]) = If(t \in found[c])
          /\ If(handle'[c] = t) = If(handle[c] = t)
          /\ If(work'.at = c /\ work'.slot = t)
               = If(work.at = c /\ work.slot = t)
      BY <2>1
    <3> QED
      BY <1>2, <3>1, <3>2, <3>3 DEF Others
  <2>11. ASSUME NEW t \in Slots
         PROVE  dev'[c][t].refs = Own(dev'[c][t]) + Others(c, t)'
    <3>1. dev[c][t].refs = Own(dev[c][t]) + Others(c, t)
      BY <1>0 DEF RefsFit
    <3>2. CASE t # s
      BY <1>2, <2>9, <2>10, <3>1, <3>2 DEF If
    <3>3. CASE t = s
      <4>1. Own(d) = 1 /\ Own(f) = 1 - If(r)
        <5>1. If(d.listed) = 1 /\ If(d.orphan) = 0
          BY <2>1, <2>5 DEF If, d
        <5>2. If(f.listed) = 0 /\ If(f.orphan) = 1 - If(r)
          <6>1. f.listed = FALSE /\ (r => f.orphan = FALSE)
                /\ (~r => f.orphan = TRUE)
            BY <2>8
          <6>2. If(f.listed) = 0
            BY <6>1 DEF If
          <6>3. CASE r
            <7>1. If(r) = 1 /\ If(f.orphan) = 0
              BY <6>1, <6>3 DEF If
            <7> QED
              BY <6>2, <7>1
          <6>4. CASE ~r
            <7>1. If(r) = 0 /\ If(f.orphan) = 1
              BY <6>1, <6>4 DEF If
            <7> QED
              BY <6>2, <7>1
          <6> QED
            BY <6>3, <6>4
        <5>3. If(r) \in Nat
          BY DEF If
        <5> QED
          BY <5>1, <5>2, <5>3 DEF Own
      <4>2. If(r /\ t = s) = If(r) /\ If(r) \in Nat
        BY <3>3 DEF If
      <4> QED
        BY <1>2, <2>8, <2>10, <3>1, <3>3, <4>1, <4>2 DEF d, f
    <3> QED
      BY <3>2, <3>3
  <2> QED
    BY <1>7, <2>9, <2>11 DEF RefsFit
<1>8. CASE Scan(c) \/ ScanFails(c)
  <2>1. UNCHANGED <<found, handle, event, work>>
    BY <1>8 DEF Scan, ScanFails, handleVars, globalVars
  <2>2. CASE UNCHANGED dev
    <3>1. Untouched(c)
      BY <2>1, <2>2 DEF Untouched
    <3> QED
      BY <3>1, <1>3
  <2>3. CASE ~UNCHANGED dev
    <3>1. PICK s \in Free(c) :
            dev' = [dev EXCEPT ![c][s] = NewDevice(c, plugged)]
      BY <1>8, <2>3 DEF Scan, ScanFails, Scanned
    <3>2. dev'[c] = [dev[c] EXCEPT ![s] = NewDevice(c, plugged)]
      BY <1>0, <3>1 DEF Free
    <3>3. ASSUME NEW t \in Slots PROVE Others(c, t)' = Others(c, t)
      BY <2>1 DEF Others
    <3>4. RefsFit(c)'
      <4>1. \A t \in Slots :
              Others(c, t) \in Nat /\ Others(c, t)' = Others(c, t)
        BY <1>2, <3>3
      <4>2. RefsFit(c) /\ plugged \in Addresses \cup {0}
        BY <1>0
      <4> QED
        BY <3>2, <4>1, <4>2, RefsArrived
    <3> QED
      BY <1>8, <3>4
  <2> QED
    BY <2>2, <2>3
<1>9. CASE Undo(c) \/ Unlist(c)
  <2>1. dev'[c] = Unlisted(c)
    BY <1>0, <1>9 DEF Undo, Unlist
  <2>2. event'[c].messages = e.messages
    BY <1>0, <1>1, <1>9 DEF Undo, Unlist, Reasons
  <2>3. UNCHANGED <<found, handle, work>>
    BY <1>9 DEF Undo, Unlist, handleVars, globalVars
  <2>4. ASSUME NEW t \in Slots PROVE Others(c, t)' = Others(c, t)
    BY <2>2, <2>3 DEF Others
  <2> QED
    BY <1>0, <1>2, <1>9, <2>1, <2>4, RefsUnlisted
<1>10. CASE GetList(c)
  <2>1. /\ UNCHANGED <<handle, event, work>> /\ pc[c] = "list"
        /\ found'[c] = Listed(c) /\ dev'[c] = Ref(dev[c], Listed(c))
    BY <1>0, <1>10 DEF GetList, Goto, globalVars
  <2>2. found[c] = {}
    BY <2>1 DEF Held, HeldBy, After
  <2>3. ASSUME NEW t \in Slots
        PROVE  Others(c, t)' = Others(c, t) + If(t \in Listed(c))
    <3>1. If(t \in found[c]) = 0 /\ If(t \in found'[c]) = If(t \in Listed(c))
      BY <2>1, <2>2 DEF If
    <3> QED
      BY <1>2, <2>1, <3>1 DEF Others
  <2>4. Listed(c) \in SUBSET Slots
    BY DEF Listed
  <2> QED
    BY <1>0, <1>2, <2>1, <2>3, <2>4, RefsTaken
<1>11. CASE OpenDevice(c)
  <2>1. PICK s \in Slots : /\ handle' = [handle EXCEPT ![c] = s]
                           /\ dev' = [dev EXCEPT ![c] = Ref(@, {s})]
    BY <1>0, <1>11 DEF OpenDevice
  <2>2. handle'[c] = s /\ dev'[c] = Ref(dev[c], {s})
    BY <1>0, <2>1
  <2>3. /\ UNCHANGED <<found, work>> /\ pc[c] = "open"
        /\ event' = [event EXCEPT ![c] = Modified(@)]
    BY <1>11 DEF OpenDevice, Goto, globalVars
  <2>4. event'[c].messages = e.messages
    BY <1>0, <1>1, <2>3, ModifiedFacts
  <2>5. handle[c] = 0
    BY <2>3 DEF Held, HeldBy, Holding, After
  <2>6. ASSUME NEW t \in Slots
        PROVE  Others(c, t)' = Others(c, t) + If(t \in {s})
    <3>1. If(handle[c] = t) = 0 /\ If(handle'[c] = t) = If(t \in {s})
      BY <1>0, <2>2, <2>5 DEF If
    <3> QED
      BY <1>2, <2>3, <2>4, <3>1 DEF Others
  <2> QED
    BY <1>0, <1>2, <2>2, <2>6, RefsTaken
<1>12. CASE FreeList(c)
  <2>1. /\ UNCHANGED <<handle, event, work>>
        /\ found'[c] = {} /\ dev'[c] = Unref(dev[c], found[c])
    BY <1>0, <1>12 DEF FreeList, globalVars
  <2>2. ASSUME NEW t \in Slots
        PROVE  /\ Others(c, t)' \in Nat
               /\ Others(c, t) = Others(c, t)' + If(t \in found[c])
    <3>1. If(t \in found'[c]) = 0
      BY <2>1 DEF If
    <3> QED
      BY <1>2, <2>1, <3>1 DEF Others
  <2>3. found[c] \in SUBSET Slots
    BY <1>0
  <2> QED
    BY <1>0, <2>1, <2>2, <2>3, RefsReleased
<1>13. CASE TakeMessage(c)
  <2> DEFINE f == [e EXCEPT !.messages = Tail(@)]
             m == Head(e.messages)
  <2>1. /\ UNCHANGED <<found, handle, work>> /\ e.messages # <<>>
        /\ event' = [event EXCEPT ![c] = Settle(f)]
        /\ dev' = IF m.left THEN [dev EXCEPT ![c] = Unref(@, {m.slot})] ELSE dev
    BY <1>13 DEF TakeMessage, handleVars, globalVars
  <2>2. /\ f.messages = Tail(e.messages)
        /\ Settle(f).messages = f.messages
        /\ m \in Messages
    BY <1>1, <2>1 DEF Settle, Reasons
  <2>3. event'[c].messages = Tail(e.messages)
    BY <1>0, <2>1, <2>2
  <2>4. m.left \in BOOLEAN /\ m.slot \in Slots
    BY <2>2 DEF Messages
  <2> HIDE DEF f
  <2>5. ASSUME NEW t \in Slots
        PROVE  /\ Others(c, t)' \in Nat
               /\ Others(c, t) = Others(c, t)' + If(m.left /\ m.slot = t)
    <3>1. /\ Cardinality(FarewellsIn(event'[c].messages, t)) \in Nat
          /\ Cardinality(FarewellsIn(e.messages, t))
               = Cardinality(FarewellsIn(event'[c].messages, t))
                 + If(m.left /\ m.slot = t)
      <4>1. Tail(e.messages) \in Seq(Messages)
        BY <1>1, <2>1
      <4> QED
        BY <1>1, <2>1, <2>3, <4>1, FarewellsTaken, FarewellsFinite
    <3>2. If(m.left /\ m.slot = t) \in Nat
      BY DEF If
    <3> HIDE DEF m, e
    <3>3. Others(c, t)'
            = Cardinality(FarewellsIn(event'[c].messages, t)) + If(t \in found[c])
              + If(handle[c] = t) + If(work.at = c /\ work.slot = t)
      BY <2>1 DEF Others
    <3>4. Others(c, t)
            = Cardinality(FarewellsIn(e.messages, t)) + If(t \in found[c])
              + If(handle[c] = t) + If(work.at = c /\ work.slot = t)
      BY DEF Others, e
    <3>5. /\ If(t \in found[c]) \in Nat /\ If(handle[c] = t) \in Nat
          /\ If(work.at = c /\ work.slot = t) \in Nat
      BY <1>2
    <3> QED
      BY <3>1, <3>2, <3>3, <3>4, <3>5
  <2> HIDE DEF m
  <2>6. CASE m.left
    <3>1. dev'[c] = Unref(dev[c], {m.slot})
      BY <1>0, <2>1, <2>6
    <3>2. ASSUME NEW t \in Slots
          PROVE  If(m.left /\ m.slot = t) = If(t \in {m.slot})
      BY <2>6 DEF If
    <3> QED
      BY <1>0, <2>4, <2>5, <3>1, <3>2, RefsReleased
  <2>7. CASE ~m.left
    <3>1. dev'[c] = dev[c]
      BY <2>1, <2>7
    <3>2. ASSUME NEW t \in Slots PROVE Others(c, t)' = Others(c, t)
      BY <1>2, <2>5, <2>7 DEF If
    <3> QED
      BY <1>0, <3>1, <3>2 DEF RefsFit, DevicesKept, Kept
  <2> QED
    BY <2>6, <2>7
<1>14. CASE CloseEnds(c)
  <2> DEFINE h == IF c \in polled THEN Modified(e) ELSE e
             g == [h EXCEPT !.closing = FALSE]
  <2>1. /\ UNCHANGED <<found, work>> /\ pc[c] = "close"
        /\ handle'[c] = 0 /\ dev'[c] = Unref(dev[c], {handle[c]})
        /\ event'[c] = Settle(g)
    BY <1>0, <1>14 DEF CloseEnds, Goto, globalVars
  <2>2. h \in Reasons /\ h.messages = e.messages
    BY <1>1, ModifiedFacts
  <2> HIDE DEF h
  <2>3. g.messages = e.messages /\ Settle(g).messages = g.messages
    BY <2>2 DEF Settle, Reasons
  <2>4. event'[c].messages = e.messages
    BY <2>1, <2>3
  <2>5. handle[c] \in Slots
    BY <2>1 DEF Held, HeldBy, Holding
  <2>6. ASSUME NEW t \in Slots
        PROVE  /\ Others(c, t)' \in Nat
               /\ Others(c, t) = Others(c, t)' + If(t \in {handle[c]})
    <3>1. If(handle'[c] = t) = 0 /\ If(handle[c] = t) = If(t \in {handle[c]})
      BY <1>0, <2>1 DEF If
    <3> QED
      BY <1>2, <2>1, <2>4, <3>1 DEF Others
  <2> QED
    BY <1>0, <2>1, <2>5, <2>6, RefsReleased
<1> QED
  BY <1>3, <1>4, <1>5, <1>6, <1>7, <1>8, <1>9, <1>10, <1>11, <1>12, <1>13,
     <1>14, TouchStep DEF Touches, TellStep
-----------------------------------------------------------------------------
(* How a session goes on.                                                   *)

Unscanned == {"start", "scan", "unstart", "undo"}
Watching == {"stream", "lost", "telling"}
Emptied == {"stop", "unstart", "undo", "ended"}

\* What a step does to a session, by where the session is.
Moves(c) ==
  /\ pc'[c] = "idle" => pc[c] = "idle"
  /\ pc[c] = "idle" => pc'[c] = "idle" \/ InitContext(c)
  /\ pc'[c] = "ended" =>
       pc[c] = "ended" \/ Undo(c) \/ (pc[c] \in Leaving /\ initLock # c)
  /\ pc'[c] \in Leaving => pc[c] \in Leaving \/ Unlist(c) \/ initLock = c
  /\ pc'[c] \in Leaving /\ initLock = c => initLock' = c
  /\ pc'[c] = "start" => pc[c] = "start" \/ InitContext(c)
  /\ pc[c] \in Unscanned => pc'[c] \in Unscanned \cup {"ended"} \/ Scan(c)
  /\ pc'[c] \in {"lost", "telling"} =>
       pc[c] \in {"lost", "telling"} \/ NoticeLoss(c)
  /\ pc'[c] = "stream" => pc[c] \in Watching \/ Claim(c)
  /\ pc'[c] \in Watching => handle'[c] = handle[c]
  /\ c \in active' => c \in active \/ InitContext(c)
  /\ pc[c] = "ended" => pc'[c] = "ended"
  /\ pc[c] \in Emptied => pc'[c] \in Emptied

LEMMA MoveStep ==
  ASSUME TypeOK, LocksInv, WorkIsHeld, [Next]_vars, NEW d \in Contexts
  PROVE  Moves(d)
<1>0. /\ pc \in [Contexts -> Positions]
      /\ handle \in [Contexts -> Slots \cup {0}]
      /\ None \notin Contexts
  BY DeviceRegistryAssumption DEF TypeOK
<1>1. ASSUME pc'[d] = pc[d], handle'[d] = handle[d],
             d \in active' => d \in active, initLock = d => initLock' = d
      PROVE  Moves(d)
  BY <1>1 DEF Moves, Watching, Emptied, Unscanned
<1>2. CASE \/ KernelStep \/ MonitorOnly \/ MonitorReads \/ MonitorDone
           \/ LockContexts \/ UNCHANGED vars
  <2>1. UNCHANGED <<pc, handle, active, initLock>>
    BY <1>2 DEF KernelStep, Plug, Unplug, MonitorOnly, MonitorWakes,
       MonitorEnds, MonitorInterrupted, MonitorReads, MonitorDone, LockContexts,
       handleVars, globalVars, lockVars, vars
  <2> QED
    BY <2>1, <1>1
<1>3. ASSUME NEW c \in Contexts, TellStep(c) PROVE Moves(d)
  <2>1. UNCHANGED <<pc, handle, active, initLock>>
    BY <1>3 DEF TellStep, Enumerate, Find, Disconnect, Drop, handleVars,
       globalVars, lockVars
  <2> QED
    BY <2>1, <1>1
<1>4. ASSUME NEW c \in Contexts, NEW from \in Positions, NEW to \in Positions,
             Goto(c, from, to)
      PROVE  /\ pc[c] = from /\ pc'[c] = to
             /\ d # c => pc'[d] = pc[d]
  BY <1>0, <1>4 DEF Goto
<1>5. ASSUME NEW c \in Contexts, GoesOn(c) PROVE Moves(d)
  <2>1. UNCHANGED <<handle, active, initLock>>
    BY <1>5 DEF GoesOn, InitFails, InitPipeFails, OpenFails, Claim, Flushed,
       handleVars, globalVars, lockVars
  <2>2. \/ Goto(c, "start", "undo") \/ Goto(c, "pipe", "stop")
        \/ Goto(c, "open", "refused")
        \/ Claim(c) /\ Goto(c, "claim", "stream")
        \/ Goto(c, "flush", "unlist")
    <3>1. CASE Claim(c)
      <4>1. Goto(c, "claim", "stream")
        BY <3>1 DEF Claim
      <4> QED
        BY <3>1, <4>1
    <3>2. CASE ~Claim(c)
      BY <1>5, <3>2 DEF GoesOn, InitFails, InitPipeFails, OpenFails, Flushed
    <3> QED
      BY <3>1, <3>2
  <2>3. CASE d # c
    BY <2>1, <2>2, <2>3, <1>1, <1>4 DEF Positions
  <2>4. CASE d = c
    BY <2>1, <2>2, <2>4, <1>4
       DEF Positions, Moves, LocksInv, LocksHeld, Making, Leaving, Unscanned, Emptied,
           Watching
  <2> QED
    BY <2>3, <2>4
<1>6. ASSUME NEW c \in Contexts, ContextStep(c) PROVE Moves(d)
  <2>1. UNCHANGED handle /\ (d \in active' => d \in active \/ InitContext(d))
    BY <1>6 DEF ContextStep, InitContext, StartMonitor, Scan, ScanFails, Undo,
       Exit, OpExit, StopMonitor, JoinMonitor, handleVars, globalVars
  <2>2. \/ InitContext(c) /\ Goto(c, "idle", "start")
        \/ Goto(c, "start", "scan")
        \/ Scan(c) /\ Goto(c, "scan", "lists")
        \/ Goto(c, "scan", "unstart") \/ Goto(c, "scan", "undo")
        \/ Undo(c) /\ Goto(c, "undo", "ended")
        \/ Goto(c, "exit", "flush") \/ Goto(c, "exit", "unlist")
        \/ Goto(c, "stop", "unstart")
        \/ Goto(c, "stop", "undo") /\ initLock = c
        \/ Goto(c, "stop", "ended") /\ initLock # c
        \/ Goto(c, "unstart", "undo") /\ initLock = c
        \/ Goto(c, "unstart", "ended") /\ initLock # c
        \/ UNCHANGED pc
    <3>1. InitContext(c) => Goto(c, "idle", "start")
      BY DEF InitContext
    <3>2. Scan(c) => Goto(c, "scan", "lists")
      BY DEF Scan
    <3>3. Undo(c) => Goto(c, "undo", "ended")
      BY DEF Undo
    <3>4. CASE StartMonitor(c) \/ ScanFails(c) \/ Exit(c) \/ StopMonitor(c)
      BY <3>4 DEF StartMonitor, ScanFails, Exit, StopMonitor
    <3>5. CASE OpExit(c)
      BY <3>5 DEF OpExit, Stopped
    <3>6. CASE JoinMonitor(c)
      BY <3>6 DEF JoinMonitor, Stopped
    <3> QED
      BY <1>6, <3>1, <3>2, <3>3, <3>4, <3>5, <3>6 DEF ContextStep
  <2>3. \/ initLock' = initLock
        \/ InitContext(c) /\ initLock = None
        \/ Undo(c) /\ pc[c] = "undo" /\ initLock = c
    BY <1>6 DEF ContextStep, InitContext, StartMonitor, Scan, ScanFails, Undo,
       Exit, OpExit, StopMonitor, JoinMonitor, lockVars, LocksInv, LocksHeld,
       Making, Goto
  <2>4. CASE d # c
    <3>1. d \in active' => d \in active
      BY <2>4, <1>0, <1>6 DEF ContextStep, InitContext, StartMonitor, Scan,
         ScanFails, Undo, Exit, OpExit, StopMonitor, JoinMonitor, globalVars
    <3>2. initLock = d => initLock' = d
      BY <1>0, <2>3, <2>4
    <3>3. pc'[d] = pc[d]
      BY <2>2, <2>4, <1>4 DEF Positions
    <3> QED
      BY <2>1, <3>1, <3>2, <3>3, <1>1
  <2>5. CASE d = c
    <3>1. CASE UNCHANGED pc
      <4>1. StopMonitor(c)
        BY <1>0, <1>6, <3>1 DEF ContextStep, InitContext, StartMonitor, Scan,
           ScanFails, Undo, Exit, OpExit, JoinMonitor, Stopped, Goto
      <4> QED
        BY <2>5, <4>1, <1>1 DEF StopMonitor, handleVars, globalVars, lockVars
    <3>2. CASE ~UNCHANGED pc
      BY <1>0, <2>1, <2>2, <2>3, <2>5, <3>2, <1>4, SMTT(60)
         DEF Positions, Moves, LocksInv, LocksHeld, Making, Leaving, Unscanned,
             Emptied, Watching
    <3> QED
      BY <3>1, <3>2
  <2> QED
    BY <2>4, <2>5
<1>7. ASSUME NEW c \in Contexts, ReasonStep(c) PROVE Moves(d)
  <2>1. UNCHANGED active
    BY <1>7 DEF ReasonStep, InitLists, InitPipe, TakePollfds, TakeMessage,
       NoticeLoss, CloseBegins, CloseEnds, Unlist, globalVars
  <2>2. \/ Goto(c, "lists", "pipe") \/ Goto(c, "pipe", "poll")
        \/ NoticeLoss(c) /\ Goto(c, "stream", "lost")
        \/ Goto(c, "stream", "close") \/ Goto(c, "close", "exit")
        \/ Unlist(c) /\ Goto(c, "unlist", "stop")
        \/ UNCHANGED pc
    BY <1>7 DEF ReasonStep, InitLists, InitPipe, TakePollfds, TakeMessage,
       NoticeLoss, CloseBegins, CloseEnds, Unlist
  <2>3. initLock' = initLock \/ (pc[c] = "pipe" /\ initLock = c)
    <3>1. InitPipe(c) => pc[c] = "pipe" /\ initLock = c
      BY DEF InitPipe, Goto, LocksInv, LocksHeld, Making
    <3>2. ~InitPipe(c) => initLock' = initLock
      BY <1>7 DEF ReasonStep, InitLists, TakePollfds, TakeMessage, NoticeLoss,
         CloseBegins, CloseEnds, Unlist, lockVars
    <3> QED
      BY <3>1, <3>2
  <2>4. CASE d # c
    <3>1. initLock = d => initLock' = d
      BY <2>3, <2>4
    <3>2. pc'[d] = pc[d]
      BY <2>2, <2>4, <1>4 DEF Positions
    <3>3. handle'[d] = handle[d]
      BY <1>0, <1>7, <2>4 DEF ReasonStep, InitLists, InitPipe, TakePollfds,
         TakeMessage, NoticeLoss, CloseBegins, CloseEnds, Unlist, handleVars
    <3> QED
      BY <2>1, <3>1, <3>2, <3>3, <1>1
  <2>5. CASE d = c
    <3>1. handle' = handle \/ (CloseEnds(c) /\ Goto(c, "close", "exit"))
      <4>1. CloseEnds(c) => Goto(c, "close", "exit")
        BY DEF CloseEnds
      <4>2. ~CloseEnds(c) => handle' = handle
        BY <1>7 DEF ReasonStep, InitLists, InitPipe, TakePollfds, TakeMessage,
           NoticeLoss, CloseBegins, Unlist, handleVars
      <4> QED
        BY <4>1, <4>2
    <3>2. pc'[c] \in Watching => handle'[c] = handle[c]
      BY <3>1, <1>4 DEF Watching, Positions
    <3>3. CASE UNCHANGED pc
      <4>1. initLock' = initLock
        BY <1>0, <2>3, <3>3, <1>7 DEF ReasonStep, InitLists, InitPipe,
           TakePollfds, TakeMessage, NoticeLoss, CloseBegins, CloseEnds, Unlist,
           lockVars, Goto
      <4> QED
        BY <2>1, <2>5, <3>2, <3>3, <4>1 DEF Moves, Watching, Emptied, Unscanned
    <3>4. CASE ~UNCHANGED pc
      BY <1>0, <2>1, <2>2, <2>3, <2>5, <3>2, <3>4, <1>4
         DEF Positions, Moves, LocksInv, LocksHeld, Making, Leaving, Unscanned,
             Emptied, Watching
    <3> QED
      BY <3>3, <3>4
  <2> QED
    BY <2>4, <2>5
<1>8. ASSUME NEW c \in Contexts, HotplugStep(c) PROVE Moves(d)
  <2>1. UNCHANGED <<handle, active, initLock>>
    BY <1>8 DEF HotplugStep, HotplugPoll, PollReads, PollEnds, TellLoss,
       LossTold, handleVars, globalVars, lockVars
  <2>2. \/ UNCHANGED pc
        \/ Goto(c, "poll", "polling") \/ Goto(c, "polling", "list")
        \/ Goto(c, "lost", "telling") \/ Goto(c, "lost", "stream")
        \/ Goto(c, "telling", "stream")
    BY <1>8 DEF HotplugStep, HotplugPoll, PollReads, PollEnds, TellLoss,
       LossTold, Goto
  <2>3. CASE d # c \/ UNCHANGED pc
    BY <2>1, <2>2, <2>3, <1>1, <1>4 DEF Positions
  <2>4. CASE d = c /\ ~UNCHANGED pc
    BY <2>1, <2>2, <2>4, <1>4
       DEF Positions, Moves, Leaving, Unscanned, Emptied, Watching
  <2> QED
    BY <2>3, <2>4
<1>9. ASSUME NEW c \in Contexts, OpenStep(c) PROVE Moves(d)
  <2>1. UNCHANGED <<active, initLock>>
    BY <1>9 DEF OpenStep, GetList, NotFound, OpenDevice, FreeList, ClaimFails,
       globalVars, lockVars
  <2>2. \/ Goto(c, "list", "open") \/ Goto(c, "open", "exit")
        \/ Goto(c, "open", "opened") \/ Goto(c, "opened", "claim")
        \/ Goto(c, "refused", "exit") \/ Goto(c, "claim", "exit")
    BY <1>9 DEF OpenStep, GetList, NotFound, OpenDevice, FreeList, ClaimFails
  <2>3. CASE d # c
    <3>1. handle'[d] = handle[d]
      BY <1>0, <1>9, <2>3 DEF OpenStep, GetList, NotFound, OpenDevice, FreeList,
         ClaimFails
    <3> QED
      BY <2>1, <2>2, <2>3, <3>1, <1>1, <1>4 DEF Positions
  <2>4. CASE d = c
    BY <2>1, <2>2, <2>4, <1>4
       DEF Positions, Moves, Leaving, Unscanned, Emptied, Watching
  <2> QED
    BY <2>3, <2>4
<1> QED
  BY <1>2, <1>3, <1>5, <1>6, <1>7, <1>8, <1>9, Steps
-----------------------------------------------------------------------------
(* What becomes of a context's devices.                                     *)

\* A message that is handled names an address.
WorkIsNamed == work # NoWork => work.address # 0

\* An attached device of a context in use is listed.
AttachedAreListed ==
  \A c \in active : \A s \in Slots : dev[c][s].attached => dev[c][s].listed

\* The slot of a device that comes.
NewAt(c, s) ==
  /\ Enumerate(c) \/ Scan(c) \/ ScanFails(c)
  /\ s \in Free(c) /\ plugged # 0 /\ Here(c, plugged) = {}
  /\ dev'[c][s] = NewDevice(c, plugged)
  /\ \A t \in Slots \ {s} : dev'[c][t] = dev[c][t]

DeviceMoves(c, s) ==
  LET d == dev[c][s]
      e == dev'[c][s]
  IN /\ e.listed => \/ /\ d.listed /\ e.address = d.address /\ e.early = d.early
                       /\ e.orphan = d.orphan
                    \/ NewAt(c, s)
     /\ e.attached => \/ d.attached /\ e.address = d.address
                      \/ NewAt(c, s)
     /\ d.listed => \/ /\ e.listed /\ e.address = d.address
                       /\ e.early = d.early
                    \/ Disconnect(c) /\ s = work.slot
                    \/ Undo(c) \/ Unlist(c)

LEMMA DeviceStep ==
  ASSUME TypeOK, WorkIsHeld, Held, EventLife, Lists, RefsCounted, WorkIsNamed,
         [Next]_vars, EventLife', NEW c \in Contexts, NEW s \in Slots
  PROVE  DeviceMoves(c, s)
<1>0. /\ dev \in [Contexts -> [Slots -> Devices]] /\ RefsFit(c)
      /\ dev[c] \in [Slots -> Devices] /\ plugged \in Addresses \cup {0}
  BY DEF TypeOK, RefsCounted
<1>1. ASSUME dev'[c][s] = dev[c][s] PROVE DeviceMoves(c, s)
  BY <1>1 DEF DeviceMoves
<1>2. CASE DevicesKept(c)
  BY <1>2 DEF DevicesKept, Kept, DeviceMoves
<1>3. CASE Enumerate(c) \/ Scan(c) \/ ScanFails(c)
  <2>1. CASE UNCHANGED dev
    BY <2>1, <1>1
  <2>2. ASSUME NEW t \in Free(c), NEW a, a = plugged, a # 0, Here(c, a) = {},
               dev' = [dev EXCEPT ![c][t] = NewDevice(c, a)]
        PROVE  DeviceMoves(c, s)
    <3>1. t \in Slots /\ dev'[c] = [dev[c] EXCEPT ![t] = NewDevice(c, plugged)]
      BY <1>0, <2>2 DEF Free
    <3>2. CASE s = t
      <4>1. NewAt(c, s)
        BY <1>0, <1>3, <2>2, <3>1, <3>2 DEF NewAt
      <4>2. dev[c][s].listed = FALSE
        BY <2>2, <3>2 DEF Free, NoDevice
      <4> QED
        BY <4>1, <4>2 DEF DeviceMoves
    <3>3. CASE s # t
      BY <1>0, <1>1, <3>1, <3>3
    <3> QED
      BY <3>2, <3>3
  <2>3. CASE Enumerate(c)
    <3>1. work.address # 0
      BY <2>3 DEF Enumerate, WorkIsNamed, NoWork
    <3> QED
      BY <2>1, <2>2, <2>3, <3>1 DEF Enumerate
  <2>4. CASE Scan(c) \/ ScanFails(c)
    BY <2>1, <2>2, <2>4 DEF Scan, ScanFails, Scanned
  <2> QED
    BY <1>3, <2>3, <2>4
<1>4. CASE Disconnect(c)
  <2> DEFINE t == work.slot
  <2>1. t \in Slots /\ dev[c][t].listed /\ work.at = c
    <3>1. None \notin Contexts
      BY DeviceRegistryAssumption
    <3> QED
      BY <1>4, <3>1 DEF Disconnect, TypeOK, Works, WorkIsHeld
  <2>2. dev'[c] = [dev[c] EXCEPT
                     ![t] = [@ EXCEPT !.listed = FALSE, !.attached = FALSE,
                                      !.orphan = ~event[c].ready]]
    BY <1>0, <1>4, <2>1 DEF Disconnect
  <2>3. CASE s # t
    BY <1>0, <1>1, <2>2, <2>3
  <2>4. CASE s = t
    <3>1. dev'[c][s].listed = FALSE /\ dev'[c][s].attached = FALSE
      BY <1>0, <2>1, <2>2, <2>4 DEF Devices
    <3> QED
      BY <1>4, <2>4, <3>1 DEF DeviceMoves
  <2> QED
    BY <2>3, <2>4
<1>5. CASE Undo(c) \/ Unlist(c)
  <2> DEFINE e == event[c]
  <2>1. dev'[c] = Unlisted(c)
    BY <1>0, <1>5 DEF Undo, Unlist
  <2>2. event'[c].messages = e.messages
    BY <1>5 DEF Undo, Unlist, TypeOK, Reasons
  <2>3. UNCHANGED <<found, handle, work>>
    BY <1>5 DEF Undo, Unlist, handleVars, globalVars
  <2>4. ASSUME NEW t \in Slots
        PROVE  Others(c, t) \in Nat /\ Others(c, t)' = Others(c, t)
    BY <2>2, <2>3, OthersCount DEF Others
  <2>5. Listed(c)' = {} /\ (dev'[c][s].attached =>
              dev[c][s].attached /\ dev'[c][s].address = dev[c][s].address)
    BY <1>0, <2>1, <2>4, RefsUnlisted
  <2> QED
    BY <1>5, <2>5 DEF DeviceMoves, Listed
<1> QED
  BY <1>2, <1>3, <1>4, <1>5, RefsStep

LEMMA ListsStep ==
  ASSUME TypeOK, LocksInv, ActiveIsInUse, WorkIsHeld, Held, EventLife, Lists,
         RefsCounted, WorkIsNamed, [Next]_vars, EventLife'
  PROVE  Lists'
<1> SUFFICES ASSUME NEW c \in Contexts PROVE ListsFit(c)'
  BY DEF Lists
<1>1. Moves(c) /\ ListsFit(c)
  BY MoveStep DEF Lists
<1>2. ASSUME NEW s \in Slots PROVE DeviceMoves(c, s)
  BY DeviceStep
<1>3. ASSUME NEW s \in Slots, dev'[c][s].listed
      PROVE  ~dev'[c][s].orphan /\ dev'[c][s].address # 0
  <2>1. CASE NewAt(c, s)
    BY <2>1 DEF NewAt, NewDevice
  <2>2. CASE ~NewAt(c, s)
    BY <1>1, <1>2, <1>3, <2>2 DEF DeviceMoves, ListsFit, Listed
  <2> QED
    BY <2>1, <2>2
<1>4. TellStep(c) => c \in active /\ UNCHANGED pc /\ UNCHANGED initLock
  <2>1. TellStep(c) => c \in work.todo \/ work.at = c
    BY DEF TellStep, Enumerate, Find, Disconnect, Drop
  <2>2. TellStep(c) => UNCHANGED <<pc, initLock>>
    BY DEF TellStep, Enumerate, Find, Disconnect, Drop, lockVars
  <2> QED
    BY <2>1, <2>2, DeviceRegistryAssumption DEF WorkIsHeld
<1>5. pc'[c] = "idle" => \A s \in Slots : dev'[c][s] = NoDevice
  <2>1. CASE Untouched(c)
    BY <1>1, <2>1 DEF Moves, ListsFit, Untouched
  <2>2. CASE Touches(c)
    <3>1. pc[c] # "idle"
      <4>1. CASE TellStep(c)
        BY <1>4, <4>1 DEF ActiveIsInUse, InUse
      <4>2. CASE ~TellStep(c)
        BY <2>2, <4>2 DEF Touches, Scan, ScanFails, Undo, GetList, OpenDevice,
           FreeList, TakeMessage, CloseEnds, Unlist, Goto, HandlesEvents
      <4> QED
        BY <4>1, <4>2
    <3> QED
      BY <1>1, <3>1 DEF Moves
  <2> QED
    BY <2>1, <2>2, TouchStep
<1>6. ASSUME Listed(c) = {}, \A s \in Slots : ~NewAt(c, s)
      PROVE  Listed(c)' = {}
  BY <1>2, <1>6 DEF DeviceMoves, Listed
<1>7. Undo(c) \/ Unlist(c) => Listed(c)' = {}
  <2> SUFFICES ASSUME Undo(c) \/ Unlist(c) PROVE Listed(c)' = {}
    OBVIOUS
  <2>1. dev'[c] = Unlisted(c)
    BY DEF TypeOK, Undo, Unlist
  <2>2. event'[c].messages = event[c].messages
    BY DEF Undo, Unlist, TypeOK, Reasons
  <2>3. UNCHANGED <<found, handle, work>>
    BY DEF Undo, Unlist, handleVars, globalVars
  <2>4. ASSUME NEW t \in Slots
        PROVE  Others(c, t) \in Nat /\ Others(c, t)' = Others(c, t)
    BY <2>2, <2>3, OthersCount DEF Others
  <2> QED
    BY <2>1, <2>4, RefsUnlisted DEF RefsCounted
\* A device comes only to a context in use.
<1>8. ASSUME NEW s \in Slots, NewAt(c, s)
      PROVE  pc'[c] # "ended" /\ (pc'[c] \in Leaving => initLock' = c)
  <2>1. CASE Enumerate(c)
    BY <1>4, <2>1 DEF TellStep, ActiveIsInUse, InUse
  <2>2. CASE Scan(c)
    BY <2>2 DEF Scan, Goto, TypeOK, Leaving
  <2>3. CASE ScanFails(c)
    BY <2>3 DEF ScanFails, Goto, TypeOK, Leaving, LocksInv, LocksHeld, Making
  <2> QED
    BY <1>8, <2>1, <2>2, <2>3 DEF NewAt
<1>9. pc'[c] = "ended" => Listed(c)' = {}
  BY <1>1, <1>6, <1>7, <1>8 DEF Moves, ListsFit
<1>10. pc'[c] \in Leaving /\ initLock' # c => Listed(c)' = {}
  BY <1>1, <1>6, <1>7, <1>8 DEF Moves, ListsFit
<1> QED
  BY <1>3, <1>5, <1>9, <1>10 DEF ListsFit, Listed
-----------------------------------------------------------------------------
(* What the kernel has said, and what of it the contexts have heard.        *)

OnePerAddress ==
  \A c \in Contexts : \A s, t \in Listed(c) :
    dev[c][s].address = dev[c][t].address => s = t

\* The last message tells what is there now.
Agrees(m) ==
  IF plugged = 0 THEN m.left ELSE ~m.left /\ m.address = plugged

LastAgrees ==
  /\ uevents # <<>> => Agrees(uevents[Len(uevents)])
  /\ socket = "open" /\ work # NoWork /\ uevents = <<>> => Agrees(work)

\* A context has heard of everything that was said.
Heard(c) ==
  /\ uevents = <<>>
  /\ work = NoWork \/ (work.locked /\ c \notin work.todo /\ work.at # c)

ArrivalsListed ==
  socket = "open" /\ plugged # 0 =>
    \A c \in active : pc[c] \notin Unscanned /\ Heard(c) => Here(c, plugged) # {}

\* A context has yet to be told of the loss of a device.
WillLeave(c, s) ==
  \/ \E n \in DOMAIN uevents :
       uevents[n].left /\ uevents[n].address = dev[c][s].address
  \/ /\ work.left /\ work.address = dev[c][s].address
     /\ ~work.locked \/ c \in work.todo \/ (work.at = c /\ work.slot = s)

LossesTold ==
  socket = "open" =>
    \A c \in active : \A s \in Listed(c) :
      dev[c][s].early \/ dev[c][s].address = plugged \/ WillLeave(c, s)

StartsEarly ==
  \A c \in Contexts : pc[c] = "start" => \A s \in Listed(c) : dev[c][s].early

\* The devices of a session whose dongle is still there.
LiveDevices ==
  \A c \in Contexts :
    pc[c] # "idle" /\ c \notin dead =>
      /\ plugged # 0
      /\ \A s \in Slots : dev[c][s].attached => dev[c][s].address = plugged

\* Whoever notices the loss of its device is not the first that knows it.
OwnLoss ==
  \A c \in Contexts :
    /\ pc[c] \in {"lost", "telling"} => c \in dead
    /\ socket = "open" /\ c \in dead /\ pc[c] \in Watching
       /\ dev[c][handle[c]].attached => WillLeave(c, handle[c])

Reads == ReadMessage /\ UNCHANGED <<plugged, socket>>

Loses(c) == TellLoss(c) /\ dev[c][handle[c]].attached

Finishes ==
  /\ work = NoWork \/ AllTold
  /\ work' = NoWork
  /\ UNCHANGED <<plugged, uevents, socket>>

Quiet == UNCHANGED <<plugged, uevents, socket, work>>

LEMMA HearStep ==
  ASSUME [Next]_vars
  PROVE  \/ Plug \/ Unplug \/ Reads \/ LockContexts \/ Finishes \/ Quiet
         \/ \E c \in Contexts : \/ Enumerate(c) \/ Find(c) \/ Drop(c)
                                \/ Loses(c) \/ StartMonitor(c) \/ JoinMonitor(c)
<1>1. CASE MonitorOnly
  BY <1>1 DEF MonitorOnly, MonitorWakes, MonitorEnds, MonitorInterrupted, Quiet,
     kernelVars, globalVars
<1>2. CASE MonitorReads \/ MonitorDone
  BY <1>2 DEF MonitorReads, MonitorDone, Quiet, Reads, Finishes, kernelVars
<1>3. ASSUME NEW c \in Contexts, Disconnect(c) \/ GoesOn(c) PROVE Quiet
  BY <1>3 DEF Disconnect, GoesOn, InitFails, InitPipeFails, OpenFails, Claim,
     Flushed, Quiet, kernelVars, monitorVars, globalVars
<1>4. ASSUME NEW c \in Contexts, ContextStep(c)
      PROVE  Quiet \/ StartMonitor(c) \/ JoinMonitor(c)
  BY <1>4 DEF ContextStep, InitContext, Scan, ScanFails, Undo, Exit, OpExit,
     StopMonitor, Quiet, kernelVars, monitorVars, globalVars
<1>5. ASSUME NEW c \in Contexts, ReasonStep(c) \/ OpenStep(c) PROVE Quiet
  BY <1>5 DEF ReasonStep, OpenStep, InitLists, InitPipe, TakePollfds,
     TakeMessage, NoticeLoss, CloseBegins, CloseEnds, Unlist, GetList, NotFound,
     OpenDevice, FreeList, ClaimFails, Quiet, kernelVars, monitorVars, globalVars
<1>6. ASSUME NEW c \in Contexts, HotplugStep(c)
      PROVE  Quiet \/ Reads \/ Finishes \/ Loses(c)
  BY <1>6 DEF HotplugStep, HotplugPoll, PollReads, PollEnds, TellLoss, LossTold,
     Quiet, Reads, Finishes, Loses, kernelVars, monitorVars, globalVars
<1>7. CASE UNCHANGED vars
  BY <1>7 DEF vars, Quiet, kernelVars, monitorVars, globalVars
<1> QED
  BY <1>1, <1>2, <1>3, <1>4, <1>5, <1>6, <1>7, Steps DEF KernelStep, TellStep

LEMMA TellWork ==
  ASSUME TypeOK, WorkIsHeld, NEW d \in Contexts,
         Enumerate(d) \/ Find(d) \/ Drop(d)
  PROVE  /\ work.locked /\ work'.locked /\ work'.left = work.left
         /\ work'.address = work.address /\ work # NoWork
         /\ work'.todo = IF Drop(d) THEN work.todo ELSE work.todo \ {d}
         /\ ~Find(d) => work'.at \in {work.at, None}
         /\ UNCHANGED <<plugged, uevents, socket, active, pc, handle, dead>>
<1>0. work \in Works /\ None \notin Contexts
  BY DeviceRegistryAssumption DEF TypeOK
<1>1. UNCHANGED <<plugged, uevents, socket, active, pc, handle, dead>>
  BY DEF Enumerate, Find, Drop, kernelVars, monitorVars, handleVars
<1>2. work.locked
  BY <1>0 DEF Enumerate, Find, Drop, WorkIsHeld
<1>3. work # NoWork
  BY <1>2 DEF NoWork
<1>4. CASE Drop(d)
  BY <1>0, <1>1, <1>2, <1>3, <1>4 DEF Drop, Works
<1>5. CASE Find(d) /\ ~Drop(d)
  BY <1>0, <1>1, <1>2, <1>3, <1>5 DEF Find, Works
<1>6. CASE Enumerate(d) /\ ~Drop(d)
  BY <1>0, <1>1, <1>2, <1>3, <1>6 DEF Enumerate, Works
<1> QED
  BY <1>4, <1>5, <1>6

LEMMA WorkIsNamedStep ==
  ASSUME TypeOK, ActiveIsInUse, WorkIsHeld, Held, Lists, AttachedAreListed,
         WorkIsNamed, [Next]_vars
  PROVE  WorkIsNamed'
<1>0. work \in Works /\ uevents \in Seq(Uevents)
      /\ dev \in [Contexts -> [Slots -> Devices]]
  BY DEF TypeOK
<1>1. CASE work' = work \/ work' = NoWork
  BY <1>1 DEF WorkIsNamed
<1>2. CASE ReadMessage
  <2>1. Head(uevents) \in Uevents
    BY <1>0, <1>2 DEF ReadMessage
  <2>2. Head(uevents).address # 0
    BY <2>1, DeviceRegistryAssumption DEF Uevents
  <2>3. work'.address = Head(uevents).address
    BY <1>2 DEF ReadMessage, NoWork
  <2> QED
    BY <2>2, <2>3 DEF WorkIsNamed
<1>3. CASE LockContexts
  BY <1>0, <1>3 DEF LockContexts, WorkIsNamed, Works
<1>4. ASSUME NEW c \in Contexts, Enumerate(c) \/ Find(c) \/ Drop(c)
      PROVE  WorkIsNamed'
  BY <1>4, TellWork DEF WorkIsNamed
<1>5. ASSUME NEW c \in Contexts, Loses(c) PROVE WorkIsNamed'
  <2>1. pc[c] = "lost" /\ dev[c][handle[c]].attached
    BY <1>5 DEF Loses, TellLoss
  <2>2. handle[c] \in Slots /\ c \in active
    BY <2>1 DEF Held, HeldBy, Holding, ActiveIsInUse, InUse, Leaving
  <2>3. dev[c][handle[c]].address # 0
    BY <2>1, <2>2 DEF AttachedAreListed, Lists, ListsFit, Listed
  <2>4. work'.address = dev[c][handle[c]].address
    BY <1>5, <2>1 DEF Loses, TellLoss, NoWork
  <2> QED
    BY <2>3, <2>4 DEF WorkIsNamed
<1>6. CASE KernelStep \/ (\E c \in Contexts : StartMonitor(c) \/ JoinMonitor(c))
  BY <1>1, <1>6 DEF KernelStep, Plug, Unplug, StartMonitor, JoinMonitor,
     globalVars
<1> QED
  BY <1>1, <1>2, <1>3, <1>4, <1>5, <1>6, HearStep
     DEF Reads, Finishes, Quiet, KernelStep

LEMMA OneStep ==
  ASSUME TypeOK, WorkIsHeld, Held, EventLife, Lists, RefsCounted, WorkIsNamed,
         OnePerAddress, [Next]_vars, EventLife'
  PROVE  OnePerAddress'
<1> SUFFICES ASSUME NEW c \in Contexts, NEW s \in Slots, NEW t \in Slots,
                    dev'[c][s].listed, dev'[c][t].listed,
                    dev'[c][s].address = dev'[c][t].address
             PROVE  s = t
  BY DEF OnePerAddress, Listed
<1>1. DeviceMoves(c, s) /\ DeviceMoves(c, t)
  BY DeviceStep
<1>2. ASSUME NEW u \in Slots, NEW v \in Slots, NewAt(c, u), dev'[c][v].listed,
             dev'[c][u].address = dev'[c][v].address, u # v
      PROVE  FALSE
  <2>1. dev[c][v].listed /\ dev[c][v].address = plugged
    BY <1>2 DEF NewAt, NewDevice
  <2> QED
    BY <1>2, <2>1 DEF NewAt, Here, Listed
<1>3. CASE ~NewAt(c, s) /\ ~NewAt(c, t)
  BY <1>1, <1>3 DEF DeviceMoves, OnePerAddress, Listed
<1> QED
  BY <1>2, <1>3

LEMMA ActiveChanges ==
  ASSUME [Next]_vars
  PROVE  \/ UNCHANGED active
         \/ \E c \in Contexts :
              \/ active' = active \ {c}
              \/ InitContext(c) /\ active' = active \cup {c}
<1>1. CASE KernelStep \/ MonitorOnly \/ MonitorReads \/ MonitorDone
           \/ LockContexts \/ UNCHANGED vars
  BY <1>1 DEF KernelStep, Plug, Unplug, MonitorOnly, MonitorWakes, MonitorEnds,
     MonitorInterrupted, MonitorReads, MonitorDone, LockContexts, vars,
     globalVars
<1>2. ASSUME NEW c \in Contexts,
             TellStep(c) \/ GoesOn(c) \/ ReasonStep(c) \/ HotplugStep(c)
               \/ OpenStep(c)
      PROVE  UNCHANGED active
  BY <1>2 DEF TellStep, Enumerate, Find, Disconnect, Drop, GoesOn, InitFails,
     InitPipeFails, OpenFails, Claim, Flushed, ReasonStep, InitLists, InitPipe,
     TakePollfds, TakeMessage, NoticeLoss, CloseBegins, CloseEnds, Unlist,
     HotplugStep, HotplugPoll, PollReads, PollEnds, TellLoss, LossTold, OpenStep,
     GetList, NotFound, OpenDevice, FreeList, ClaimFails, globalVars
<1>3. ASSUME NEW c \in Contexts, ContextStep(c)
      PROVE  \/ UNCHANGED active
             \/ active' = active \ {c}
             \/ InitContext(c) /\ active' = active \cup {c}
  BY <1>3 DEF ContextStep, InitContext, StartMonitor, Scan, ScanFails, Undo,
     Exit, OpExit, StopMonitor, JoinMonitor, globalVars
<1> QED
  BY <1>1, <1>2, <1>3, Steps

LEMMA AttachedStep ==
  ASSUME TypeOK, LocksInv, ActiveIsInUse, WorkIsHeld, Held, EventLife, Lists,
         RefsCounted, WorkIsNamed, AttachedAreListed, [Next]_vars, EventLife'
  PROVE  AttachedAreListed'
<1> SUFFICES ASSUME NEW c \in active', NEW s \in Slots, dev'[c][s].attached,
                    ~dev'[c][s].listed
             PROVE  FALSE
  BY DEF AttachedAreListed
<1>0. c \in Contexts /\ dev \in [Contexts -> [Slots -> Devices]]
  <2>1. active' \subseteq Contexts
    BY ActiveChanges DEF TypeOK
  <2> QED
    BY <2>1 DEF TypeOK
<1>1. DeviceMoves(c, s) /\ Moves(c)
  BY <1>0, DeviceStep, MoveStep
<1>2. ~NewAt(c, s)
  BY DEF NewAt, NewDevice
<1>3. dev[c][s].attached
  BY <1>1, <1>2 DEF DeviceMoves
<1>4. c \in active
  <2>1. InitContext(c) => dev[c][s] = NoDevice
    BY <1>0 DEF InitContext, Goto, Lists, ListsFit
  <2> QED
    BY <1>1, <1>3, <2>1 DEF Moves, NoDevice
<1>5. (Disconnect(c) /\ s = work.slot) \/ Undo(c) \/ Unlist(c)
  BY <1>0, <1>1, <1>3, <1>4 DEF DeviceMoves, AttachedAreListed
<1>6. CASE Disconnect(c) /\ s = work.slot
  BY <1>0, <1>6 DEF Disconnect, Devices
<1>7. CASE Undo(c)
  BY <1>7 DEF Undo
<1>8. CASE Unlist(c)
  BY <1>0, <1>4, <1>8 DEF Unlist, Goto, ActiveIsInUse, InUse
<1> QED
  BY <1>5, <1>6, <1>7, <1>8
\* When the first session starts the monitor, nobody else is heard.
LEMMA FirstStart ==
  ASSUME TypeOK, LocksInv, ActiveIsInUse, CountIsRight, MonitorLife, WorkIsHeld,
         NEW c \in Contexts, StartMonitor(c), initCount = 0
  PROVE  /\ work = NoWork /\ uevents = <<>> /\ active \subseteq {c}
         /\ \A d \in Contexts : pc[d] \notin Watching
<1>0. /\ pc[c] = "start" /\ initLock = c /\ startStop = None
      /\ None \notin Contexts
  BY DeviceRegistryAssumption DEF StartMonitor, Goto, LocksInv, LocksHeld, Making
<1>1. Counted = {}
  BY CountedFinite DEF CountIsRight
<1>2. ASSUME NEW d \in Contexts
      PROVE  pc[d] \in {"idle", "start", "scan", "unstart", "undo", "ended"}
  BY <1>1 DEF Counted
<1>3. socket = "closed" /\ uevents = <<>> /\ monitor = "none"
  BY <1>0 DEF MonitorLife
<1>4. hotplug = None
  <2>1. hotplug # Monitor
    BY <1>3 DEF LocksInv, ReadingHolds
  <2>2. hotplug \notin Contexts
    BY <1>2 DEF LocksInv, LocksHeld
  <2> QED
    BY <2>1, <2>2 DEF TypeOK, Threads
<1>5. ASSUME NEW d \in active PROVE d = c
  <2>1. d \in Contexts /\ InUse(d)
    BY DEF TypeOK, ActiveIsInUse
  <2>2. pc[d] \in {"start", "scan", "unstart", "undo"}
    BY <1>2, <2>1 DEF InUse
  <2>3. pc[d] # "unstart"
    BY <1>0, <2>1 DEF LocksInv, LocksHeld
  <2> QED
    BY <1>0, <2>1, <2>2, <2>3 DEF LocksInv, LocksHeld, Making
<1> QED
  BY <1>2, <1>3, <1>4, <1>5 DEF WorkIsHeld, Watching

\* While somebody listens, the kernel says what happens.
LEMMA KernelSays ==
  ASSUME TypeOK, Plug \/ Unplug, socket = "open"
  PROVE  \E m \in Uevents :
           /\ uevents' = Append(uevents, m)
           /\ IF plugged' = 0 THEN m.left ELSE ~m.left /\ m.address = plugged'
           /\ plugged # 0 => m.left /\ m.address = plugged
<1>0. plugged \in Addresses \cup {0}
  BY DEF TypeOK
<1>1. CASE Plug
  <2> DEFINE m == [left |-> FALSE, address |-> plugged']
  <2>1. /\ m \in Uevents /\ m.left = FALSE /\ m.address = plugged'
        /\ uevents' = Append(uevents, m) /\ plugged' # 0 /\ plugged = 0
    BY <1>1, DeviceRegistryAssumption DEF Plug, Said, Uevents
  <2> QED
    BY <2>1
<1>2. CASE Unplug
  <2> DEFINE m == [left |-> TRUE, address |-> plugged]
  <2>1. /\ m \in Uevents /\ m.left = TRUE /\ plugged' = 0
        /\ m.address = plugged /\ uevents' = Append(uevents, m)
    BY <1>0, <1>2 DEF Unplug, Said, Uevents
  <2> QED
    BY <2>1
<1> QED
  BY <1>1, <1>2

LEMMA LastStep ==
  ASSUME TypeOK, LocksInv, ActiveIsInUse, CountIsRight, MonitorLife, WorkIsHeld,
         Held, AttachedAreListed, OwnLoss, LastAgrees, [Next]_vars
  PROVE  LastAgrees'
<1>0. uevents \in Seq(Uevents) /\ work \in Works /\ plugged \in Addresses \cup {0}
  BY DEF TypeOK
<1>1. CASE Plug \/ Unplug
  <2>1. CASE socket # "open"
    BY <1>1, <2>1 DEF Plug, Unplug, Said, MonitorLife, LastAgrees
  <2>2. CASE socket = "open"
    <3>1. \E m \in Uevents :
            /\ uevents' = Append(uevents, m)
            /\ IF plugged' = 0 THEN m.left ELSE ~m.left /\ m.address = plugged'
      BY <1>1, <2>2, KernelSays
    <3>2. PICK m \in Uevents :
            /\ uevents' = Append(uevents, m)
            /\ IF plugged' = 0 THEN m.left ELSE ~m.left /\ m.address = plugged'
      BY <3>1
    <3>3. uevents' # <<>> /\ uevents'[Len(uevents')] = m
      BY <1>0, <3>2
    <3> QED
      BY <3>2, <3>3 DEF LastAgrees, Agrees
  <2> QED
    BY <2>1, <2>2
<1>2. CASE Reads
  <2>1. /\ uevents # <<>> /\ uevents' = Tail(uevents) /\ plugged' = plugged
        /\ work'.left = Head(uevents).left
        /\ work'.address = Head(uevents).address
    BY <1>2 DEF Reads, ReadMessage, NoWork
  <2>2. CASE Tail(uevents) = <<>>
    <3>1. Head(uevents) = uevents[Len(uevents)]
      BY <1>0, <2>1, <2>2
    <3>2. Agrees(Head(uevents))
      BY <2>1, <3>1 DEF LastAgrees
    <3> QED
      BY <2>1, <2>2, <3>2 DEF LastAgrees, Agrees
  <2>3. CASE Tail(uevents) # <<>>
    <3>1. Tail(uevents)[Len(Tail(uevents))] = uevents[Len(uevents)]
      BY <1>0, <2>1, <2>3
    <3> QED
      BY <2>1, <2>3, <3>1 DEF LastAgrees, Agrees
  <2> QED
    BY <2>2, <2>3
<1>3. CASE Finishes \/ Quiet
  BY <1>3 DEF Finishes, Quiet, LastAgrees, Agrees
<1>4. CASE LockContexts
  <2>1. /\ work # NoWork /\ work'.left = work.left
        /\ work'.address = work.address
        /\ UNCHANGED <<plugged, uevents, socket>>
    BY <1>0, <1>4 DEF LockContexts, Works, kernelVars, monitorVars
  <2> QED
    BY <2>1 DEF LastAgrees, Agrees
<1>5. ASSUME NEW c \in Contexts, Enumerate(c) \/ Find(c) \/ Drop(c)
      PROVE  LastAgrees'
  BY <1>5, TellWork DEF LastAgrees, Agrees
<1>6. ASSUME NEW c \in Contexts, Loses(c) PROVE LastAgrees'
  <2>1. /\ pc[c] = "lost" /\ dev[c][handle[c]].attached /\ hotplug = None
        /\ UNCHANGED <<plugged, uevents, socket>>
    BY <1>6 DEF Loses, TellLoss, kernelVars, monitorVars
  <2>2. work = NoWork
    BY <2>1 DEF WorkIsHeld
  <2>3. socket = "open" => WillLeave(c, handle[c])
    BY <2>1 DEF OwnLoss, Watching
  <2>4. socket = "open" => uevents # <<>>
    BY <2>2, <2>3 DEF WillLeave, NoWork
  <2> QED
    BY <2>1, <2>4 DEF LastAgrees, Agrees
<1>7. ASSUME NEW c \in Contexts, StartMonitor(c) PROVE LastAgrees'
  <2>1. UNCHANGED <<plugged, uevents, work>>
    BY <1>7 DEF StartMonitor, kernelVars, globalVars
  <2>2. CASE initCount = 0
    BY <1>7, <2>1, <2>2, FirstStart DEF LastAgrees
  <2>3. CASE initCount # 0
    BY <1>7, <2>1, <2>3 DEF StartMonitor, LastAgrees, Agrees
  <2> QED
    BY <2>2, <2>3
<1>8. ASSUME NEW c \in Contexts, JoinMonitor(c) PROVE LastAgrees'
  BY <1>8 DEF JoinMonitor, LastAgrees
<1> QED
  BY <1>1, <1>2, <1>3, <1>4, <1>5, <1>6, <1>7, <1>8, HearStep

LEMMA Hearable ==
  ASSUME TypeOK, LocksInv, ActiveIsInUse, WorkIsHeld, Lists, WorkIsNamed,
         [Next]_vars, NEW c \in active', pc'[c] \notin Unscanned,
         ActiveIsInUse', active' \subseteq Contexts
  PROVE  /\ c \in Contexts /\ c \in active
         /\ pc[c] \notin Unscanned \/ Scan(c)
<1>1. c \in Contexts /\ Moves(c)
  BY MoveStep
<1>2. pc'[c] # "ended"
  BY <1>1 DEF ActiveIsInUse, InUse
<1>3. InitContext(c) => pc'[c] = "start"
  BY <1>1 DEF InitContext, Goto, TypeOK
<1> QED
  BY <1>1, <1>2, <1>3 DEF Moves, Unscanned
\* What is still to be told is told or remains to be told.
LEMMA WillLeaveStep ==
  ASSUME TypeOK, WorkIsHeld, OnePerAddress, [Next]_vars,
         socket = "open", socket' = "open",
         NEW c \in active, NEW s \in Slots, dev[c][s].listed, WillLeave(c, s),
         dev'[c][s].listed, dev'[c][s].address = dev[c][s].address
  PROVE  WillLeave(c, s)'
<1> DEFINE a == dev[c][s].address
           Told == \E n \in DOMAIN uevents :
                     uevents[n].left /\ uevents[n].address = a
           InHand == /\ work.left /\ work.address = a
                     /\ \/ ~work.locked \/ c \in work.todo
                        \/ work.at = c /\ work.slot = s
<1>0. /\ uevents \in Seq(Uevents) /\ work \in Works /\ c \in Contexts
      /\ None \notin Contexts
  BY DeviceRegistryAssumption DEF TypeOK
<1>1. Told \/ InHand
  BY DEF WillLeave
<1>2. ASSUME \E n \in DOMAIN uevents' :
               uevents'[n].left /\ uevents'[n].address = a
      PROVE  WillLeave(c, s)'
  BY <1>2 DEF WillLeave
<1>3. ASSUME work'.left, work'.address = a,
             \/ ~work'.locked \/ c \in work'.todo
             \/ (work'.at = c /\ work'.slot = s)
      PROVE  WillLeave(c, s)'
  BY <1>3 DEF WillLeave
<1>4. ASSUME Told, uevents' = uevents PROVE WillLeave(c, s)'
  BY <1>2, <1>4
<1>5. ASSUME work = NoWork \/ AllTold PROVE ~InHand
  BY <1>0, <1>5 DEF NoWork, AllTold
<1>6. CASE Plug \/ Unplug
  <2>1. UNCHANGED work /\ \E m \in Uevents : uevents' = Append(uevents, m)
    BY <1>6, KernelSays DEF Plug, Unplug, globalVars
  <2>2. CASE Told
    <3>1. PICK n \in DOMAIN uevents :
            uevents[n].left /\ uevents[n].address = a
      BY <2>2
    <3>2. PICK m \in Uevents : uevents' = Append(uevents, m)
      BY <2>1
    <3>3. n \in 1 .. Len(uevents) /\ n \in 1 .. Len(uevents) + 1
      BY <1>0, <3>1
    <3>4. n \in DOMAIN uevents' /\ uevents'[n] = uevents[n]
      BY <1>0, <3>2, <3>3
    <3> QED
      BY <1>2, <3>1, <3>4
  <2>3. CASE InHand
    BY <1>3, <2>1, <2>3
  <2> QED
    BY <1>1, <2>2, <2>3
<1>7. CASE Reads
  <2>1. /\ uevents # <<>> /\ uevents' = Tail(uevents)
        /\ work'.left = Head(uevents).left /\ work'.locked = FALSE
        /\ work'.address = Head(uevents).address
    BY <1>7 DEF Reads, ReadMessage, NoWork
  <2>2. Told
    BY <1>1, <1>5, <1>7 DEF Reads, ReadMessage
  <2>3. PICK n \in DOMAIN uevents : uevents[n].left /\ uevents[n].address = a
    BY <2>2
  <2> HIDE DEF a, Told, InHand
  <2>4. n \in 1 .. Len(uevents)
    BY <1>0, <2>3
  <2>5. CASE n = 1
    <3>1. Head(uevents) = uevents[n]
      BY <1>0, <2>1, <2>5
    <3> QED
      BY <1>3, <2>1, <2>3, <3>1
  <2>6. CASE n # 1
    <3>1. /\ n - 1 \in DOMAIN Tail(uevents)
          /\ Tail(uevents)[n - 1] = uevents[n]
      BY <1>0, <2>1, <2>4, <2>6
    <3> QED
      BY <1>2, <2>1, <2>3, <3>1
  <2> QED
    BY <2>5, <2>6
<1>8. CASE Finishes
  BY <1>1, <1>4, <1>5, <1>8 DEF Finishes
<1>9. CASE Quiet
  BY <1>1, <1>3, <1>4, <1>9 DEF Quiet
<1>10. CASE LockContexts
  <2>1. uevents' = uevents
    BY <1>10 DEF LockContexts, monitorVars
  <2>2. work'.left = work.left /\ work'.address = work.address
        /\ work'.todo = active
    BY <1>0, <1>10 DEF LockContexts, Works
  <2> QED
    BY <1>1, <1>3, <1>4, <2>1, <2>2
<1>11. ASSUME NEW d \in Contexts, Enumerate(d) \/ Find(d) \/ Drop(d)
       PROVE  WillLeave(c, s)'
  <2>1. /\ work.locked /\ work'.locked /\ work'.left = work.left
        /\ work'.address = work.address /\ uevents' = uevents
        /\ work'.todo = IF Drop(d) THEN work.todo ELSE work.todo \ {d}
    BY <1>11, TellWork
  <2>2. CASE Told
    BY <1>4, <2>1, <2>2
  <2>3. CASE InHand /\ Enumerate(d)
    BY <2>3 DEF Enumerate
  <2>4. CASE InHand /\ Drop(d)
    <3>1. ~(work.at = c /\ work.slot = s)
      BY <2>4 DEF Drop
    <3> QED
      BY <1>3, <2>1, <2>4, <3>1
  <2>5. CASE InHand /\ Find(d) /\ ~Drop(d)
    <3>1. work.at # c
      BY <1>0, <2>5 DEF Find
    <3>2. c \in work.todo
      BY <2>1, <2>5, <3>1
    <3>3. CASE d # c
      BY <1>3, <2>1, <2>5, <3>2, <3>3
    <3>4. CASE d = c
      <4>1. s \in Here(c, work.address)
        BY <2>5 DEF Here, Listed
      <4>2. PICK t \in Here(c, work.address) :
              work' = [work EXCEPT !.todo = @ \ {c}, !.at = c, !.slot = t]
        BY <2>5, <3>4, <4>1 DEF Find
      <4>3. t = s
        BY <1>0, <4>1, <4>2 DEF Here, OnePerAddress
      <4>4. work'.at = c /\ work'.slot = s
        BY <1>0, <4>2, <4>3 DEF Works
      <4> QED
        BY <1>3, <2>1, <2>5, <4>4
    <3> QED
      BY <3>3, <3>4
  <2> QED
    BY <1>1, <1>11, <2>2, <2>3, <2>4, <2>5
<1>12. ASSUME NEW d \in Contexts, Loses(d) PROVE WillLeave(c, s)'
  <2>1. hotplug = None /\ uevents' = uevents
    BY <1>12 DEF Loses, TellLoss, monitorVars
  <2>2. work = NoWork
    BY <2>1 DEF WorkIsHeld
  <2> QED
    BY <1>1, <1>4, <1>5, <2>1, <2>2
<1>13. ASSUME NEW d \in Contexts, StartMonitor(d) PROVE WillLeave(c, s)'
  <2>1. UNCHANGED <<uevents, work>>
    BY <1>13 DEF StartMonitor, globalVars
  <2> QED
    BY <1>1, <1>3, <1>4, <2>1
<1>14. ASSUME NEW d \in Contexts, JoinMonitor(d) PROVE FALSE
  BY <1>14 DEF JoinMonitor
<1> QED
  BY <1>6, <1>7, <1>8, <1>9, <1>10, <1>11, <1>12, <1>13, <1>14, HearStep

LEMMA StartsStep ==
  ASSUME TypeOK, LocksInv, WorkIsHeld, Held, EventLife, Lists, RefsCounted,
         WorkIsNamed, StartsEarly, [Next]_vars, EventLife'
  PROVE  StartsEarly'
<1> SUFFICES ASSUME NEW c \in Contexts, pc'[c] = "start", NEW s \in Slots,
                    dev'[c][s].listed
             PROVE  dev'[c][s].early
  BY DEF StartsEarly, Listed
<1>1. DeviceMoves(c, s) /\ Moves(c)
  BY DeviceStep, MoveStep
<1>2. CASE InitContext(c)
  BY <1>2 DEF InitContext, Goto, Lists, ListsFit, NoDevice
<1>3. CASE pc[c] = "start" /\ NewAt(c, s)
  <2>1. dev'[c][s] = NewDevice(c, plugged)
    BY <1>3 DEF NewAt
  <2>2. NewDevice(c, plugged).early = (pc[c] = "start")
    BY DEF NewDevice
  <2> QED
    BY <1>3, <2>1, <2>2
<1>4. CASE pc[c] = "start" /\ ~NewAt(c, s)
  BY <1>1, <1>4 DEF DeviceMoves, StartsEarly, Listed
<1> QED
  BY <1>1, <1>2, <1>3, <1>4 DEF Moves

LEMMA DeadStep ==
  ASSUME [Next]_vars
  PROVE  \/ dead' = dead /\ UNCHANGED plugged
         \/ Plug /\ dead' = dead
         \/ Unplug /\ dead' = dead \cup {c \in Contexts : pc[c] # "idle"}
         \/ \E c \in Contexts :
              /\ InitContext(c) /\ UNCHANGED plugged
              /\ dead' = IF plugged = 0 THEN dead \cup {c} ELSE dead
<1>1. CASE KernelStep
  BY <1>1 DEF KernelStep, Plug, Unplug, handleVars
<1>2. CASE MonitorOnly \/ MonitorReads \/ MonitorDone \/ LockContexts
           \/ UNCHANGED vars
  BY <1>2 DEF MonitorOnly, MonitorWakes, MonitorEnds, MonitorInterrupted,
     MonitorReads, MonitorDone, LockContexts, vars, handleVars, kernelVars
<1>3. ASSUME NEW c \in Contexts,
             TellStep(c) \/ GoesOn(c) \/ ReasonStep(c) \/ HotplugStep(c)
               \/ OpenStep(c)
      PROVE  dead' = dead /\ UNCHANGED plugged
  BY <1>3 DEF TellStep, Enumerate, Find, Disconnect, Drop, GoesOn, InitFails,
     InitPipeFails, OpenFails, Claim, Flushed, ReasonStep, InitLists, InitPipe,
     TakePollfds, TakeMessage, NoticeLoss, CloseBegins, CloseEnds, Unlist,
     HotplugStep, HotplugPoll, PollReads, PollEnds, TellLoss, LossTold, OpenStep,
     GetList, NotFound, OpenDevice, FreeList, ClaimFails, handleVars, kernelVars
<1>4. ASSUME NEW c \in Contexts, ContextStep(c)
      PROVE  \/ dead' = dead /\ UNCHANGED plugged
             \/ /\ InitContext(c) /\ UNCHANGED plugged
                /\ dead' = IF plugged = 0 THEN dead \cup {c} ELSE dead
  BY <1>4 DEF ContextStep, InitContext, StartMonitor, Scan, ScanFails, Undo,
     Exit, OpExit, StopMonitor, JoinMonitor, handleVars, kernelVars
<1> QED
  BY <1>1, <1>2, <1>3, <1>4, Steps
LEMMA LiveStep ==
  ASSUME TypeOK, LocksInv, WorkIsHeld, Held, EventLife, Lists, RefsCounted,
         WorkIsNamed, LiveDevices, [Next]_vars, EventLife'
  PROVE  LiveDevices'
<1> SUFFICES ASSUME NEW c \in Contexts, pc'[c] # "idle", c \notin dead'
             PROVE  /\ plugged' # 0
                    /\ \A s \in Slots : dev'[c][s].attached =>
                         dev'[c][s].address = plugged'
  BY DEF LiveDevices
<1>1. Moves(c)
  BY MoveStep
<1>2. ASSUME NEW s \in Slots PROVE DeviceMoves(c, s)
  BY DeviceStep
<1>3. CASE InitContext(c)
  <2>1. /\ UNCHANGED <<plugged, dev>> /\ pc[c] = "idle"
        /\ dead' = IF plugged = 0 THEN dead \cup {c} ELSE dead
    BY <1>3 DEF InitContext, Goto, kernelVars
  <2>2. \A s \in Slots : dev[c][s] = NoDevice
    BY <2>1 DEF Lists, ListsFit
  <2>3. NoDevice.attached = FALSE
    BY DEF NoDevice
  <2> QED
    BY <2>1, <2>2, <2>3
<1>4. CASE ~InitContext(c)
  <2>1. pc[c] # "idle"
    BY <1>1, <1>4 DEF Moves
  <2>2. UNCHANGED plugged /\ c \notin dead
    <3>1. CASE dead' = dead /\ UNCHANGED plugged
      BY <3>1
    <3>2. CASE Plug /\ dead' = dead
      BY <2>1, <3>2 DEF Plug, LiveDevices
    <3>3. CASE Unplug /\ dead' = dead \cup {d \in Contexts : pc[d] # "idle"}
      BY <2>1, <3>3
    <3>4. ASSUME NEW d \in Contexts, InitContext(d), UNCHANGED plugged,
                 dead' = IF plugged = 0 THEN dead \cup {d} ELSE dead
          PROVE  UNCHANGED plugged /\ c \notin dead
      BY <3>4
    <3> QED
      BY <3>1, <3>2, <3>3, <3>4, DeadStep
  <2>3. ASSUME NEW s \in Slots, dev'[c][s].attached
        PROVE  dev'[c][s].address = plugged
    <3>1. CASE NewAt(c, s)
      BY <3>1 DEF NewAt, NewDevice
    <3>2. CASE ~NewAt(c, s)
      BY <1>2, <2>1, <2>2, <2>3, <3>2 DEF DeviceMoves, LiveDevices
    <3> QED
      BY <3>1, <3>2
  <2> QED
    BY <2>1, <2>2, <2>3 DEF LiveDevices
<1> QED
  BY <1>3, <1>4

\* The socket is opened by the first session and closed by the last.
LEMMA SocketStep ==
  ASSUME TypeOK, WorkIsHeld, [Next]_vars
  PROVE  \/ socket' = socket
         \/ \E c \in Contexts : \/ StartMonitor(c) /\ initCount = 0
                                \/ JoinMonitor(c) /\ socket' = "closed"
<1>1. ASSUME NEW c \in Contexts, StartMonitor(c), initCount # 0
      PROVE  socket' = socket
  BY <1>1 DEF StartMonitor
<1>2. ASSUME NEW c \in Contexts, JoinMonitor(c) PROVE socket' = "closed"
  BY <1>2 DEF JoinMonitor
<1>3. ASSUME NEW c \in Contexts, Enumerate(c) \/ Find(c) \/ Drop(c) \/ Loses(c)
      PROVE  socket' = socket
  BY <1>3 DEF Enumerate, Find, Drop, Loses, TellLoss, monitorVars
<1>4. CASE Plug \/ Unplug \/ Reads \/ LockContexts \/ Finishes \/ Quiet
  BY <1>4 DEF Plug, Unplug, Reads, LockContexts, Finishes, Quiet, monitorVars
<1> QED
  BY <1>1, <1>2, <1>3, <1>4, HearStep

LEMMA OwnStep ==
  ASSUME TypeOK, LocksInv, ActiveIsInUse, CountIsRight, MonitorLife, WorkIsHeld,
         Held, EventLife, Lists, RefsCounted, WorkIsNamed, OnePerAddress,
         AttachedAreListed, LiveDevices, OwnLoss, [Next]_vars,
         EventLife', ActiveIsInUse', AttachedAreListed'
  PROVE  OwnLoss'
<1> SUFFICES ASSUME NEW c \in Contexts
             PROVE  /\ pc'[c] \in {"lost", "telling"} => c \in dead'
                    /\ socket' = "open" /\ c \in dead' /\ pc'[c] \in Watching
                       /\ dev'[c][handle'[c]].attached
                         => WillLeave(c, handle[c])'
  BY DEF OwnLoss
<1>1. Moves(c)
  BY MoveStep
<1>2. c \in dead => c \in dead'
  BY DeadStep
<1>3. ASSUME pc'[c] \in {"lost", "telling"} PROVE c \in dead'
  <2>1. NoticeLoss(c) => c \in dead
    BY DEF NoticeLoss
  <2> QED
    BY <1>1, <1>2, <1>3, <2>1 DEF Moves, OwnLoss
<1>4. ASSUME socket' = "open", c \in dead', pc'[c] \in Watching,
             dev'[c][handle'[c]].attached
      PROVE  WillLeave(c, handle[c])'
  <2>2. pc[c] \in Watching \/ Claim(c)
    BY <1>1, <1>4 DEF Moves, Watching, NoticeLoss, Goto
  <2>3. pc[c] \in Watching \cup {"claim"}
    BY <2>2 DEF Claim, Goto
  <2>0. handle[c] \in Slots /\ c \in active /\ pc[c] # "idle"
    BY <2>3 DEF Watching, Held, HeldBy, Holding, ActiveIsInUse, InUse, Leaving
  <2>1. PICK s \in Slots : handle[c] = s /\ handle'[c] = s
    BY <1>1, <1>4, <2>0 DEF Moves
  <2>4. s \in Slots /\ c \in active /\ pc[c] # "idle"
    BY <2>0
  <2>5. ~NewAt(c, s)
    <3>1. Others(c, s) # 0
      BY <2>1, OthersCount
    <3>2. dev[c][s] # NoDevice
      <4>1. dev[c][s].refs = Own(dev[c][s]) + Others(c, s) /\ Others(c, s) \in Nat
        BY <2>4, OthersCount DEF RefsCounted, RefsFit
      <4>2. Own(dev[c][s]) \in Nat
        BY DEF Own, If
      <4> QED
        BY <3>1, <4>1, <4>2 DEF NoDevice
    <3> QED
      BY <3>2 DEF NewAt, Free
  <2>6. dev[c][s].attached /\ dev'[c][s].address = dev[c][s].address
    BY <1>4, <2>1, <2>4, <2>5, DeviceStep DEF DeviceMoves
  <2>7. dev[c][s].listed /\ dev'[c][s].listed
    <3>1. c \in active'
      BY <1>4 DEF Watching, ActiveIsInUse, InUse, Leaving
    <3> QED
      BY <1>4, <2>1, <2>4, <2>6, <3>1 DEF AttachedAreListed
  <2>8. CASE c \notin dead
    <3>1. ~Claim(c) /\ plugged = dev[c][s].address /\ plugged # 0
      <4>1. plugged = dev[c][s].address /\ plugged # 0
        BY <2>4, <2>6, <2>8 DEF LiveDevices
      <4>2. Unplug \/ \E d \in Contexts : InitContext(d)
        BY <1>4, <2>8, DeadStep
      <4>3. Claim(c) => UNCHANGED dead
        BY DEF Claim, handleVars
      <4> QED
        BY <1>4, <2>8, <4>1, <4>3
    <3>2. Unplug
      BY <1>4, <2>8, <3>1, DeadStep
    <3>3. socket = "open"
      BY <1>4, <3>2 DEF Unplug
    <3>4. PICK m \in Uevents : uevents' = Append(uevents, m)
                               /\ m.left /\ m.address = plugged
      BY <3>1, <3>2, <3>3, KernelSays
    <3>5. \E n \in DOMAIN uevents' : uevents'[n] = m
      <4>1. /\ Len(uevents') \in DOMAIN uevents'
            /\ uevents'[Len(uevents')] = m
        BY <3>4 DEF TypeOK
      <4> QED
        BY <4>1
    <3>6. \E n \in DOMAIN uevents' :
            uevents'[n].left /\ uevents'[n].address = dev'[c][handle'[c]].address
      BY <2>1, <2>6, <3>1, <3>4, <3>5
    <3> QED
      BY <3>6 DEF WillLeave
  <2>9. CASE c \in dead
    <3>1. pc[c] \in Watching
      BY <2>2, <2>9 DEF Claim
    <3>2. socket = "open"
      <4>1. ASSUME NEW d \in Contexts, StartMonitor(d), initCount = 0 PROVE FALSE
        BY <3>1, <4>1, FirstStart
      <4> QED
        BY <1>4, <4>1, SocketStep
    <3>3. WillLeave(c, s)
      BY <2>1, <2>6, <2>9, <3>1, <3>2 DEF OwnLoss
    <3>4. WillLeave(c, s)'
      BY <1>4, <2>4, <2>6, <2>7, <3>2, <3>3, WillLeaveStep
    <3> QED
      BY <2>1, <3>4 DEF WillLeave
  <2> QED
    BY <2>8, <2>9
<1> QED
  <2>1. ASSUME pc'[c] \in Watching PROVE handle'[c] = handle[c]
    BY <1>1, <2>1 DEF Moves
  <2> QED
    BY <1>3, <1>4, <2>1
LEMMA LossesStep ==
  ASSUME TypeOK, LocksInv, ActiveIsInUse, CountIsRight, MonitorLife, WorkIsHeld,
         Held, EventLife, Lists, RefsCounted, WorkIsNamed, OnePerAddress,
         StartsEarly, LossesTold, [Next]_vars, EventLife'
  PROVE  LossesTold'
<1> SUFFICES ASSUME socket' = "open", NEW c \in active', NEW s \in Slots,
                    dev'[c][s].listed
             PROVE  \/ dev'[c][s].early \/ dev'[c][s].address = plugged'
                    \/ WillLeave(c, s)'
  BY DEF LossesTold, Listed
<1>0. c \in Contexts
  BY ActiveChanges DEF TypeOK
<1>1. DeviceMoves(c, s) /\ Moves(c)
  BY <1>0, DeviceStep, MoveStep
<1>2. plugged' = plugged \/ Plug \/ Unplug
  BY DeadStep
<1>3. CASE NewAt(c, s)
  <2>1. dev'[c][s].address = plugged
    BY <1>3 DEF NewAt, NewDevice
  <2>2. plugged' = plugged
    BY <1>3 DEF NewAt, Enumerate, Scan, ScanFails, kernelVars
  <2> QED
    BY <2>1, <2>2
<1>4. CASE ~NewAt(c, s)
  <2>1. /\ dev[c][s].listed /\ dev'[c][s].address = dev[c][s].address
        /\ dev'[c][s].early = dev[c][s].early
    BY <1>1, <1>4 DEF DeviceMoves
  <2>2. c \in active
    <3>1. InitContext(c) => dev[c][s] = NoDevice
      BY <1>0 DEF InitContext, Goto, Lists, ListsFit
    <3> QED
      BY <1>1, <2>1, <3>1 DEF Moves, NoDevice
  <2>3. ASSUME NEW d \in Contexts, StartMonitor(d), initCount = 0
        PROVE  dev[c][s].early
    <3>1. d = c /\ pc[c] = "start"
      BY <2>2, <2>3, FirstStart DEF StartMonitor, Goto
    <3> QED
      BY <1>0, <2>1, <3>1 DEF StartsEarly, Listed
  <2>4. CASE socket # "open"
    BY <2>1, <2>3, <2>4, SocketStep
  <2>5. CASE socket = "open" /\ WillLeave(c, s)
    BY <2>1, <2>2, <2>5, WillLeaveStep
  <2>6. CASE socket = "open" /\ dev[c][s].address = plugged
    <3>1. CASE Unplug
      <4>1. dev[c][s].address # 0
        BY <1>0, <2>1 DEF Lists, ListsFit, Listed
      <4>2. PICK m \in Uevents : uevents' = Append(uevents, m)
                                 /\ m.left /\ m.address = plugged
        BY <2>6, <3>1, <4>1, KernelSays
      <4>3. /\ Len(uevents') \in DOMAIN uevents'
            /\ uevents'[Len(uevents')] = m
        BY <4>2 DEF TypeOK
      <4>4. \E n \in DOMAIN uevents' :
              uevents'[n].left /\ uevents'[n].address = dev'[c][s].address
        BY <2>1, <2>6, <4>2, <4>3
      <4> QED
        BY <4>4 DEF WillLeave
    <3>2. CASE Plug
      BY <1>0, <2>1, <2>6, <3>2 DEF Plug, Lists, ListsFit, Listed
    <3> QED
      BY <1>2, <2>1, <2>6, <3>1, <3>2
  <2> QED
    BY <2>1, <2>2, <2>4, <2>5, <2>6 DEF LossesTold, Listed
<1> QED
  BY <1>3, <1>4

LEMMA ArrivalsStep ==
  ASSUME TypeOK, LocksInv, ActiveIsInUse, CountIsRight, MonitorLife, WorkIsHeld,
         Held, EventLife, Lists, RefsCounted, WorkIsNamed, LastAgrees,
         ArrivalsListed, [Next]_vars, EventLife', ActiveIsInUse', WorkIsNamed'
  PROVE  ArrivalsListed'
<1> SUFFICES ASSUME socket' = "open", plugged' # 0, NEW c \in active',
                    pc'[c] \notin Unscanned, Heard(c)'
             PROVE  Here(c, plugged)' # {}
  BY DEF ArrivalsListed
<1>0. /\ work \in Works /\ None \notin Contexts
      /\ dev \in [Contexts -> [Slots -> Devices]]
  BY DeviceRegistryAssumption DEF TypeOK
<1>1. /\ c \in Contexts /\ c \in active
      /\ pc[c] \notin Unscanned \/ Scan(c)
  <2>1. active' \subseteq Contexts
    BY ActiveChanges DEF TypeOK
  <2> QED
    BY <2>1, Hearable
<1>2. socket = "open"
  <2>1. ASSUME NEW d \in Contexts, StartMonitor(d), initCount = 0 PROVE FALSE
    <3>1. d = c
      BY <1>1, <2>1, FirstStart
    <3>2. pc'[c] = "scan"
      BY <1>1, <2>1, <3>1 DEF StartMonitor, Goto, TypeOK
    <3> QED
      BY <3>2 DEF Unscanned
  <2> QED
    BY <2>1, SocketStep
<1>3. ~Plug /\ ~Unplug
  <2>1. ASSUME Plug PROVE FALSE
    <3>1. PICK m \in Uevents : uevents' = Append(uevents, m)
      BY <1>2, <2>1, KernelSays
    <3>2. uevents' # <<>>
      BY <3>1 DEF TypeOK
    <3> QED
      BY <3>2 DEF Heard
  <2>2. ~Unplug
    BY DEF Unplug
  <2> QED
    BY <2>1, <2>2
<1>4. plugged' = plugged /\ plugged # 0
  BY <1>3, DeadStep
<1>5. ASSUME uevents = <<>>, work # NoWork
      PROVE  work.left = FALSE /\ work.address = plugged
  BY <1>0, <1>2, <1>4, <1>5 DEF LastAgrees, Agrees, Works
<1>6. ASSUME NEW s \in Free(c),
             dev' = [dev EXCEPT ![c][s] = NewDevice(c, plugged)]
      PROVE  Here(c, plugged)' # {}
  <2>1. s \in Slots /\ dev'[c][s] = NewDevice(c, plugged)
    BY <1>0, <1>1, <1>6 DEF Free
  <2>2. s \in Here(c, plugged)'
    BY <1>4, <2>1 DEF Here, Listed, NewDevice
  <2> QED
    BY <2>2
<1>7. CASE Scan(c)
  <2>1. CASE Here(c, plugged) # {} /\ UNCHANGED dev
    BY <1>4, <2>1 DEF Here, Listed
  <2> QED
    BY <1>4, <1>6, <1>7, <2>1 DEF Scan, Scanned
<1>8. CASE ~Scan(c)
  <2>1. ASSUME Here(c, plugged) # {} PROVE Here(c, plugged)' # {}
    <3>1. PICK s \in Slots : dev[c][s].listed /\ dev[c][s].address = plugged
      BY <2>1 DEF Here, Listed
    <3>2. ~Disconnect(c)
      <4> SUFFICES ASSUME Disconnect(c) PROVE FALSE
        OBVIOUS
      <4>1. uevents = <<>> /\ work.at = c
        BY DEF Disconnect, monitorVars, Heard
      <4>2. work.left /\ work # NoWork
        BY <1>0, <1>1, <4>1 DEF WorkIsHeld, NoWork
      <4> QED
        BY <1>5, <4>1, <4>2
    <3>3. ~Undo(c) /\ ~Unlist(c)
      BY <1>1, <1>8 DEF Undo, Unlist, Goto, Unscanned, ActiveIsInUse, InUse
    <3>4. dev'[c][s].listed /\ dev'[c][s].address = plugged
      BY <1>1, <3>1, <3>2, <3>3, DeviceStep DEF DeviceMoves
    <3> QED
      BY <1>4, <3>1, <3>4 DEF Here, Listed
  <2>2. ASSUME Heard(c) PROVE Here(c, plugged)' # {}
    BY <1>1, <1>2, <1>4, <1>8, <2>1, <2>2 DEF ArrivalsListed
  <2>3. CASE Reads
    <3>1. work'.address # 0 \/ work' = NoWork
      BY DEF WorkIsNamed
    <3>2. work'.locked = FALSE /\ work' # NoWork
      <4>1. Head(uevents) \in Uevents
        BY <2>3 DEF Reads, ReadMessage, TypeOK
      <4>2. work'.address = Head(uevents).address /\ work'.locked = FALSE
        BY <2>3 DEF Reads, ReadMessage, NoWork
      <4> QED
        BY <4>1, <4>2, DeviceRegistryAssumption DEF Uevents, NoWork
    <3> QED
      BY <3>2 DEF Heard
  <2>4. CASE Finishes
    <3>1. Heard(c)
      BY <1>0, <1>1, <2>4 DEF Finishes, AllTold, Heard
    <3> QED
      BY <2>2, <3>1
  <2>5. CASE Quiet
    <3>1. Heard(c)
      BY <2>5 DEF Quiet, Heard
    <3> QED
      BY <2>2, <3>1
  <2>6. CASE LockContexts
    <3>1. work'.todo = active /\ work'.locked
      BY <1>0, <2>6 DEF LockContexts, Works
    <3> QED
      BY <1>1, <3>1 DEF Heard, NoWork
  <2>7. ASSUME NEW d \in Contexts, Find(d) \/ Drop(d) PROVE FALSE
    <3>1. uevents = <<>> /\ work # NoWork
      BY <2>7, TellWork DEF Heard
    <3>2. work.left
      BY <1>0, <2>7 DEF Find, Drop, WorkIsHeld
    <3> QED
      BY <1>5, <3>1, <3>2
  <2>8. ASSUME NEW d \in Contexts, Enumerate(d) PROVE Here(c, plugged)' # {}
    <3>1. /\ uevents = <<>> /\ work # NoWork /\ work.locked /\ work'.locked
          /\ work'.todo = work.todo \ {d} \/ Drop(d)
      BY <2>8, TellWork DEF Heard
    <3>2. ~Drop(d)
      BY <2>7
    <3>3. work.address = plugged /\ work.left = FALSE
      BY <1>5, <3>1
    <3>4. CASE d = c
      BY <1>6, <2>1, <2>8, <3>3, <3>4 DEF Enumerate
    <3>5. CASE d # c
      <4>1. c \notin work'.todo
        BY <3>1 DEF Heard, NoWork
      <4>2. work.at # c
        BY <1>0, <1>1, <3>3 DEF WorkIsHeld
      <4>3. Heard(c)
        BY <3>1, <3>2, <3>5, <4>1, <4>2 DEF Heard
      <4> QED
        BY <2>2, <4>3
    <3> QED
      BY <3>4, <3>5
  <2>9. ASSUME NEW d \in Contexts, Loses(d) PROVE FALSE
    <3>1. work'.left = TRUE /\ work'.locked = FALSE
      BY <2>9 DEF Loses, TellLoss, NoWork
    <3> QED
      BY <3>1 DEF Heard, NoWork
  <2>10. ASSUME NEW d \in Contexts, StartMonitor(d)
         PROVE  Here(c, plugged)' # {}
    <3>1. Heard(c)
      BY <2>10 DEF StartMonitor, globalVars, Heard
    <3> QED
      BY <2>2, <3>1
  <2>11. ASSUME NEW d \in Contexts, JoinMonitor(d) PROVE FALSE
    BY <2>11 DEF JoinMonitor
  <2> QED
    BY <1>3, <2>3, <2>4, <2>5, <2>6, <2>7, <2>8, <2>9, <2>10, <2>11, HearStep
<1> QED
  BY <1>7, <1>8
-----------------------------------------------------------------------------
(* The messages of a context.                                               *)

\* A device that a message names is listed, or a message of its loss follows.
Lives(c, n) ==
  \/ dev[c][event[c].messages[n].slot].listed
  \/ \E m \in DOMAIN event[c].messages :
       /\ m >= n /\ event[c].messages[m].left
       /\ event[c].messages[m].slot = event[c].messages[n].slot

MessagesLive ==
  \A c \in Contexts :
    pc[c] \notin Emptied => \A n \in DOMAIN event[c].messages : Lives(c, n)

LEMMA MessageMoves ==
  ASSUME TypeOK, WorkIsHeld, [Next]_vars, NEW c \in Contexts
  PROVE  LET before == event[c].messages
             now == event'[c].messages
         IN \/ now = before
            \/ \E s \in Slots : /\ dev'[c][s].listed
                                /\ now = Append(before, [left |-> FALSE,
                                                         slot |-> s])
            \/ /\ Disconnect(c) /\ work.slot \in Slots
               /\ now = Append(before, [left |-> TRUE, slot |-> work.slot])
            \/ TakeMessage(c) /\ before # <<>> /\ now = Tail(before)
<1>0. /\ dev \in [Contexts -> [Slots -> Devices]]
      /\ event \in [Contexts -> Reasons] /\ work \in Works
      /\ None \notin Contexts
  BY DeviceRegistryAssumption DEF TypeOK
<1> DEFINE e == event[c]
<1>1. e \in Reasons
  BY <1>0
<1>2. CASE Untouched(c)
  BY <1>2 DEF Untouched
<1>3. CASE Enumerate(c)
  <2>1. CASE UNCHANGED event
    BY <2>1
  <2>2. CASE ~UNCHANGED event
    <3>1. PICK s \in Free(c) :
            /\ dev' = [dev EXCEPT ![c][s] = NewDevice(c, work.address)]
            /\ event' = [event EXCEPT ![c] = Notified(@, FALSE, s)]
      BY <1>3, <2>2 DEF Enumerate
    <3>2. s \in Slots /\ dev'[c][s] = NewDevice(c, work.address)
      BY <1>0, <3>1 DEF Free
    <3>3. dev'[c][s].listed
      BY <3>2 DEF NewDevice
    <3>4. event'[c] = Notified(e, FALSE, s)
      BY <1>0, <3>1
    <3> QED
      BY <1>1, <3>2, <3>3, <3>4, NotifiedMessages
  <2> QED
    BY <2>1, <2>2
<1>4. CASE Disconnect(c)
  <2>1. work.slot \in Slots
    BY <1>0, <1>4 DEF Disconnect, WorkIsHeld, Works
  <2>2. event'[c] = Notified(e, TRUE, work.slot)
    BY <1>0, <1>4 DEF Disconnect
  <2> QED
    BY <1>1, <1>4, <2>1, <2>2, NotifiedMessages
<1>5. CASE TakeMessage(c)
  <2> DEFINE f == [e EXCEPT !.messages = Tail(e.messages)]
  <2>1. event'[c] = Settle(f) /\ e.messages # <<>>
    BY <1>0, <1>5 DEF TakeMessage
  <2>2. f.messages = Tail(e.messages) /\ Settle(f).messages = f.messages
    BY <1>1 DEF Settle, Reasons
  <2> QED
    BY <1>5, <2>1, <2>2
<1>6. CASE CloseEnds(c)
  <2> DEFINE h == IF c \in polled THEN Modified(e) ELSE e
             g == [h EXCEPT !.closing = FALSE]
  <2>1. event'[c] = Settle(g)
    BY <1>0, <1>6 DEF CloseEnds
  <2>2. h \in Reasons /\ h.messages = e.messages
    BY <1>1, ModifiedFacts
  <2> HIDE DEF h
  <2>3. g.messages = e.messages /\ Settle(g).messages = g.messages
    BY <2>2 DEF Settle, Reasons
  <2> QED
    BY <2>1, <2>3
<1>7. CASE OpenDevice(c)
  <2>1. event'[c] = Modified(e)
    BY <1>0, <1>7 DEF OpenDevice
  <2> QED
    BY <1>1, <2>1, ModifiedFacts
<1>8. CASE Unlist(c)
  BY <1>0, <1>8 DEF Unlist, Reasons
<1>9. CASE Find(c) \/ Drop(c) \/ Scan(c) \/ ScanFails(c) \/ Undo(c)
           \/ GetList(c) \/ FreeList(c)
  BY <1>9 DEF Find, Drop, Scan, ScanFails, Undo, GetList, FreeList
<1> QED
  BY <1>2, <1>3, <1>4, <1>5, <1>6, <1>7, <1>8, <1>9, TouchStep
     DEF Touches, TellStep

LEMMA MessagesStep ==
  ASSUME TypeOK, LocksInv, WorkIsHeld, Held, EventLife, Lists, RefsCounted,
         WorkIsNamed, MessagesLive, [Next]_vars, EventLife'
  PROVE  MessagesLive'
<1> SUFFICES ASSUME NEW c \in Contexts, pc'[c] \notin Emptied,
                    NEW n \in DOMAIN event'[c].messages
             PROVE  Lives(c, n)'
  BY DEF MessagesLive
<1> DEFINE before == event[c].messages
           now == event'[c].messages
<1>0. before \in Seq(Messages)
  BY DEF TypeOK, Reasons
<1>1. pc[c] \notin Emptied
  BY MoveStep DEF Moves
<1>2. ASSUME NEW s \in Slots, dev[c][s].listed
      PROVE  dev'[c][s].listed \/ (Disconnect(c) /\ s = work.slot)
  <2>1. Undo(c) => pc[c] \in Emptied
    BY DEF Undo, Goto, Emptied
  <2>2. Unlist(c) => pc'[c] \in Emptied
    BY DEF Unlist, Goto, Emptied, TypeOK
  <2> QED
    BY <1>1, <1>2, <2>1, <2>2, DeviceStep DEF DeviceMoves
<1>3. ASSUME NEW k \in DOMAIN before
      PROVE  /\ before[k] \in Messages /\ before[k].slot \in Slots
             /\ k \in 1 .. Len(before)
             /\ \/ dev[c][before[k].slot].listed
                \/ \E m \in DOMAIN before :
                     m >= k /\ before[m].left /\ before[m].slot = before[k].slot
  <2>1. before[k] \in Messages /\ k \in 1 .. Len(before)
    BY <1>0
  <2>2. before[k].slot \in Slots
    BY <2>1 DEF Messages
  <2>3. Lives(c, k)
    BY <1>1 DEF MessagesLive
  <2> QED
    BY <2>1, <2>2, <2>3 DEF Lives
<1>4. SUFFICES \/ dev'[c][now[n].slot].listed
               \/ \E m \in DOMAIN now :
                    m >= n /\ now[m].left /\ now[m].slot = now[n].slot
  BY DEF Lives
<1>5. CASE now = before
  <2>1. ~Disconnect(c)
    <3> SUFFICES ASSUME Disconnect(c) PROVE FALSE
      OBVIOUS
    <3>1. event[c].ready
      BY <1>3, <1>5 DEF EventLife, EventFits
    <3>2. /\ work.slot \in Slots /\ event[c] \in Reasons
          /\ event'[c] = Notified(event[c], TRUE, work.slot)
      BY DeviceRegistryAssumption DEF Disconnect, WorkIsHeld, Works, TypeOK
    <3>3. now = Append(before, [left |-> TRUE, slot |-> work.slot])
      <4>1. Notified(event[c], TRUE, work.slot).messages
              = Append(before, [left |-> TRUE, slot |-> work.slot])
        <5>1. \A e \in Reasons, s \in Slots :
                e.ready => Notified(e, TRUE, s).messages
                             = Append(e.messages, [left |-> TRUE, slot |-> s])
          BY NotifiedMessages
        <5> QED
          BY ONLY <3>1, <3>2, <5>1 DEF before
      <4>2. event'[c].messages = Notified(event[c], TRUE, work.slot).messages
        <5>1. event'[c] = Notified(event[c], TRUE, work.slot)
          BY <3>2
        <5> QED
          BY ONLY <5>1
      <4> HIDE DEF before
      <4> QED
        BY <4>1, <4>2
    <3>4. [left |-> TRUE, slot |-> work.slot] \in Messages
      BY <3>2 DEF Messages
    <3>5. Len(now) = Len(before) + 1
      BY <1>0, <3>3, <3>4
    <3> QED
      BY <1>0, <1>5, <3>5
  <2> QED
    BY <1>2, <1>3, <1>5, <2>1
<1>6. ASSUME NEW a \in Messages, now = Append(before, a),
             dev'[c][a.slot].listed \/ a.left,
             Disconnect(c) => a.left /\ a.slot = work.slot
      PROVE  \/ dev'[c][now[n].slot].listed
             \/ \E m \in DOMAIN now :
                  m >= n /\ now[m].left /\ now[m].slot = now[n].slot
  <2>1. /\ DOMAIN now = 1 .. Len(before) + 1 /\ now[Len(before) + 1] = a
        /\ \A k \in 1 .. Len(before) : now[k] = before[k]
        /\ DOMAIN before = 1 .. Len(before) /\ Len(before) \in Nat
    BY <1>0, <1>6
  <2> HIDE DEF before, now
  <2>2. CASE n = Len(before) + 1
    BY <1>6, <2>1, <2>2
  <2>3. CASE n # Len(before) + 1
    <3>1. n \in DOMAIN before /\ now[n] = before[n]
      BY <2>1, <2>3 DEF now
    <3>2. CASE dev[c][before[n].slot].listed
      <4>1. CASE dev'[c][before[n].slot].listed
        BY <3>1, <4>1
      <4>2. CASE ~dev'[c][before[n].slot].listed
        <5>1. a.left /\ a.slot = before[n].slot
          BY <1>2, <1>3, <1>6, <3>1, <3>2, <4>2
        <5>2. Len(before) + 1 \in DOMAIN now /\ Len(before) + 1 >= n
          BY <2>1, <3>1
        <5> QED
          BY <2>1, <3>1, <5>1, <5>2
      <4> QED
        BY <4>1, <4>2
    <3>3. CASE ~dev[c][before[n].slot].listed
      <4>1. PICK m \in DOMAIN before :
              m >= n /\ before[m].left /\ before[m].slot = before[n].slot
        BY <1>3, <3>1, <3>3
      <4>2. m \in DOMAIN now /\ now[m] = before[m]
        BY <2>1
      <4> QED
        BY <3>1, <4>1, <4>2
    <3> QED
      BY <3>2, <3>3
  <2> QED
    BY <2>2, <2>3
<1>7. CASE \E s \in Slots : /\ dev'[c][s].listed
                            /\ now = Append(before, [left |-> FALSE, slot |-> s])
  <2>1. PICK s \in Slots : /\ dev'[c][s].listed
                           /\ now = Append(before, [left |-> FALSE, slot |-> s])
    BY <1>7
  <2> DEFINE a == [left |-> FALSE, slot |-> s]
  <2>2. a \in Messages /\ a.slot = s /\ a.left = FALSE
    BY DEF Messages
  <2>3. ~Disconnect(c)
    <3> SUFFICES ASSUME Disconnect(c) PROVE FALSE
      OBVIOUS
    <3>1. /\ work.slot \in Slots /\ event[c] \in Reasons
          /\ event'[c] = Notified(event[c], TRUE, work.slot)
      BY DeviceRegistryAssumption DEF Disconnect, WorkIsHeld, Works, TypeOK
    <3>2. \/ now = before
          \/ now = Append(before, [left |-> TRUE, slot |-> work.slot])
      <4>1. event'[c].messages = Notified(event[c], TRUE, work.slot).messages
        BY <3>1
      <4> QED
        BY <3>1, <4>1, NotifiedMessages, TRUE \in BOOLEAN
    <3> DEFINE b == [left |-> TRUE, slot |-> work.slot]
    <3>3. b \in Messages /\ b.left = TRUE
      BY <3>1 DEF Messages
    <3>4. /\ Append(before, a)[Len(before) + 1] = a
          /\ Append(before, b)[Len(before) + 1] = b
          /\ Len(Append(before, a)) = Len(before) + 1 /\ Len(before) \in Nat
      <4> HIDE DEF a, b
      <4> QED
        BY <1>0, <2>2, <3>3
    <3> QED
      BY <2>1, <2>2, <3>2, <3>3, <3>4
  <2> QED
    BY <1>6, <2>1, <2>2, <2>3
<1>8. CASE /\ Disconnect(c) /\ work.slot \in Slots
           /\ now = Append(before, [left |-> TRUE, slot |-> work.slot])
  <2> DEFINE a == [left |-> TRUE, slot |-> work.slot]
  <2>1. a \in Messages /\ a.slot = work.slot /\ a.left = TRUE
    BY <1>8 DEF Messages
  <2> QED
    BY <1>6, <1>8, <2>1
<1>9. CASE TakeMessage(c) /\ before # <<>> /\ now = Tail(before)
  <2>1. /\ DOMAIN before = 1 .. Len(before) /\ Len(before) \in Nat
        /\ DOMAIN now = 1 .. Len(before) - 1
        /\ \A k \in 1 .. Len(before) - 1 : now[k] = before[k + 1]
    BY <1>0, <1>9
  <2>2. ~Disconnect(c)
    <3> SUFFICES ASSUME Disconnect(c) PROVE FALSE
      OBVIOUS
    <3>1. pc[c] \in {"stream", "flush"}
      BY <1>9 DEF TakeMessage, HandlesEvents
    <3>2. /\ work.slot \in Slots /\ event[c] \in Reasons
          /\ event'[c] = Notified(event[c], TRUE, work.slot)
      BY DeviceRegistryAssumption DEF Disconnect, WorkIsHeld, Works, TypeOK
    <3>3. \/ now = before
          \/ now = Append(before, [left |-> TRUE, slot |-> work.slot])
      BY <3>2, NotifiedMessages, ZenonT(60)
    <3>4. [left |-> TRUE, slot |-> work.slot] \in Messages
      BY <3>2 DEF Messages
    <3>5. Len(now) = Len(before) \/ Len(now) = Len(before) + 1
      BY <1>0, <3>3, <3>4
    <3>6. Len(now) = Len(before) - 1
      BY <1>0, <1>9
    <3> QED
      BY <2>1, <3>5, <3>6
  <2> HIDE DEF before, now
  <2>3. n + 1 \in DOMAIN before /\ now[n] = before[n + 1]
        /\ n \in Nat /\ n >= 1
    BY <2>1 DEF now
  <2>4. CASE dev[c][before[n + 1].slot].listed
    BY <1>2, <1>3, <2>2, <2>3, <2>4
  <2>5. CASE ~dev[c][before[n + 1].slot].listed
    <3>1. PICK m \in DOMAIN before :
            /\ m >= n + 1 /\ before[m].left
            /\ before[m].slot = before[n + 1].slot
      BY <1>3, <2>3, <2>5
    <3>2. m - 1 \in DOMAIN now /\ now[m - 1] = before[m] /\ m - 1 >= n
      BY <2>1, <2>3, <3>1
    <3> QED
      BY <2>3, <3>1, <3>2
  <2> QED
    BY <2>4, <2>5
<1> QED
  BY <1>5, <1>7, <1>8, <1>9, MessageMoves
-----------------------------------------------------------------------------
(* Types.                                                                   *)

LEMMA HeardTypes ==
  ASSUME TypeOK, WorkIsHeld, Held, [Next]_vars
  PROVE  uevents' \in Seq(Uevents) /\ work' \in Works
<1>0. /\ uevents \in Seq(Uevents) /\ work \in Works /\ active \subseteq Contexts
      /\ dev \in [Contexts -> [Slots -> Devices]]
  BY DEF TypeOK
<1>1. NoWork \in Works
  BY DEF NoWork, Works
<1>2. CASE Plug \/ Unplug
  <2>1. work' = work
    BY <1>2 DEF Plug, Unplug, globalVars
  <2>2. CASE socket = "open"
    <3>1. PICK m \in Uevents : uevents' = Append(uevents, m)
      BY <1>2, <2>2, KernelSays
    <3> QED
      BY <1>0, <2>1, <3>1
  <2>3. CASE socket # "open"
    BY <1>0, <1>2, <2>1, <2>3 DEF Plug, Unplug, Said
  <2> QED
    BY <2>2, <2>3
<1>3. CASE Reads
  <2>1. Head(uevents) \in Uevents /\ Tail(uevents) \in Seq(Uevents)
    BY <1>0, <1>3 DEF Reads, ReadMessage
  <2>2. work' = [NoWork EXCEPT !.left = Head(uevents).left,
                               !.address = Head(uevents).address]
        /\ uevents' = Tail(uevents)
    BY <1>3 DEF Reads, ReadMessage
  <2>3. Head(uevents).left \in BOOLEAN /\ Head(uevents).address \in Addresses
    BY <2>1 DEF Uevents
  <2> QED
    BY <1>1, <2>1, <2>2, <2>3 DEF Works
<1>4. CASE Finishes \/ Quiet
  BY <1>0, <1>1, <1>4 DEF Finishes, Quiet
<1>5. CASE LockContexts
  BY <1>0, <1>5 DEF LockContexts, Works, monitorVars
<1>6. ASSUME NEW c \in Contexts, Enumerate(c) \/ Find(c) \/ Drop(c)
      PROVE  uevents' \in Seq(Uevents) /\ work' \in Works
  <2>1. uevents' = uevents
    BY <1>6 DEF Enumerate, Find, Drop, monitorVars
  <2>2. CASE Enumerate(c)
    BY <1>0, <2>1, <2>2 DEF Enumerate, Works
  <2>3. CASE Drop(c)
    BY <1>0, <2>1, <2>3 DEF Drop, Works
  <2>4. CASE Find(c)
    <3>1. \/ work' = [work EXCEPT !.todo = @ \ {c}]
          \/ \E s \in Slots :
               work' = [work EXCEPT !.todo = @ \ {c}, !.at = c, !.slot = s]
      BY <2>4 DEF Find, Here, Listed
    <3> QED
      BY <1>0, <2>1, <3>1 DEF Works
  <2> QED
    BY <1>6, <2>2, <2>3, <2>4
<1>7. ASSUME NEW c \in Contexts, Loses(c)
      PROVE  uevents' \in Seq(Uevents) /\ work' \in Works
  <2> DEFINE d == dev[c][handle[c]]
  <2>1. /\ pc[c] = "lost" /\ uevents' = uevents
        /\ work' = [NoWork EXCEPT !.left = TRUE, !.address = d.address]
    BY <1>7 DEF Loses, TellLoss, monitorVars
  <2>2. handle[c] \in Slots
    BY <2>1 DEF Held, HeldBy, Holding
  <2>3. d \in Devices
    BY <1>0, <2>2
  <2>4. d.address \in Addresses \cup {0}
    BY <2>3 DEF Devices
  <2> QED
    BY <1>0, <1>1, <2>1, <2>4 DEF Works
<1>8. ASSUME NEW c \in Contexts, StartMonitor(c) \/ JoinMonitor(c)
      PROVE  uevents' \in Seq(Uevents) /\ work' \in Works
  <2>1. work' = work /\ (uevents' = uevents \/ uevents' = <<>>)
    BY <1>8 DEF StartMonitor, JoinMonitor, globalVars
  <2>2. <<>> \in Seq(Uevents)
    OBVIOUS
  <2> QED
    BY <1>0, <2>1, <2>2
<1> QED
  BY <1>2, <1>3, <1>4, <1>5, <1>6, <1>7, <1>8, HearStep

GlobalTypes ==
  /\ plugged \in Addresses \cup {0} /\ changes \in 0 .. MaxChanges
  /\ socket \in {"closed", "open", "stale"}
  /\ monitor \in {"none", "poll", "locking", "reading", "ended"}
  /\ told \in BOOLEAN
  /\ initLock \in Contexts \cup {None} /\ startStop \in Contexts \cup {None}
  /\ hotplug \in Threads

LEMMA GlobalTypesStep ==
  ASSUME GlobalTypes, [Next]_vars
  PROVE  GlobalTypes'
<1> USE DEF GlobalTypes
<1>1. CASE KernelStep
  <2>1. /\ changes' = changes - 1 /\ changes > 0
        /\ plugged' \in Addresses \cup {0}
        /\ UNCHANGED <<socket, monitor, told, lockVars>>
    BY <1>1 DEF KernelStep, Plug, Unplug
  <2>2. changes' \in 0 .. MaxChanges
    BY <2>1, DeviceRegistryAssumption
  <2> QED
    BY <2>1, <2>2 DEF lockVars
<1>2. CASE MonitorOnly \/ MonitorReads \/ MonitorDone
  BY <1>2 DEF MonitorOnly, MonitorWakes, MonitorEnds, MonitorInterrupted,
     MonitorReads, MonitorDone, kernelVars, lockVars, Threads
<1>3. CASE LockContexts \/ UNCHANGED vars
  BY <1>3 DEF LockContexts, vars, kernelVars, monitorVars, lockVars
<1>4. ASSUME NEW c \in Contexts,
             TellStep(c) \/ GoesOn(c) \/ ReasonStep(c) \/ OpenStep(c)
      PROVE  /\ UNCHANGED <<kernelVars, monitorVars, startStop, hotplug>>
             /\ initLock' \in {initLock, None}
  <2>1. CASE TellStep(c)
    BY <2>1 DEF TellStep, Enumerate, Find, Disconnect, Drop, lockVars
  <2>2. CASE GoesOn(c)
    BY <2>2 DEF GoesOn, InitFails, InitPipeFails, OpenFails, Claim, Flushed,
       lockVars
  <2>3. CASE ReasonStep(c)
    <3>1. CASE TakeMessage(c) \/ CloseEnds(c)
      BY <3>1 DEF TakeMessage, CloseEnds, lockVars
    <3>2. CASE ~TakeMessage(c) /\ ~CloseEnds(c)
      BY <2>3, <3>2 DEF ReasonStep, InitLists, InitPipe, TakePollfds,
         NoticeLoss, CloseBegins, Unlist, lockVars
    <3> QED
      BY <3>1, <3>2
  <2>4. CASE OpenStep(c)
    BY <2>4 DEF OpenStep, GetList, NotFound, OpenDevice, FreeList, ClaimFails,
       lockVars
  <2> QED
    BY <1>4, <2>1, <2>2, <2>3, <2>4
<1>5. ASSUME NEW c \in Contexts, ContextStep(c) PROVE GlobalTypes'
  BY <1>5 DEF ContextStep, InitContext, StartMonitor, Scan, ScanFails, Undo,
     Exit, OpExit, StopMonitor, JoinMonitor, kernelVars, monitorVars, lockVars
<1>6. ASSUME NEW c \in Contexts, HotplugStep(c) PROVE GlobalTypes'
  BY <1>6 DEF HotplugStep, HotplugPoll, PollReads, PollEnds, TellLoss, LossTold,
     kernelVars, monitorVars, lockVars, Threads
<1> QED
  BY <1>1, <1>2, <1>3, <1>4, <1>5, <1>6, Steps
     DEF kernelVars, monitorVars, lockVars

\* Where a session is, and what it holds.
SessionTypes ==
  /\ pc \in [Contexts -> Positions]
  /\ found \in [Contexts -> SUBSET Slots]
  /\ handle \in [Contexts -> Slots \cup {0}]
  /\ polled \subseteq Contexts /\ leaked \subseteq Contexts

LEMMA SessionTypesStep ==
  ASSUME SessionTypes, [Next]_vars
  PROVE  SessionTypes'
<1>0. ASSUME NEW c \in Contexts, NEW p \in Positions, pc' = [pc EXCEPT ![c] = p]
      PROVE  pc' \in [Contexts -> Positions]
  BY <1>0 DEF SessionTypes
<1>1. CASE KernelStep \/ MonitorOnly \/ MonitorReads \/ MonitorDone
           \/ LockContexts \/ UNCHANGED vars
  BY <1>1 DEF KernelStep, Plug, Unplug, MonitorOnly, MonitorWakes, MonitorEnds,
     MonitorInterrupted, MonitorReads, MonitorDone, LockContexts, vars,
     handleVars, SessionTypes
<1>2. ASSUME NEW c \in Contexts, TellStep(c) PROVE SessionTypes'
  BY <1>2 DEF TellStep, Enumerate, Find, Disconnect, Drop, handleVars,
     SessionTypes
<1>3. ASSUME NEW c \in Contexts, GoesOn(c) PROVE SessionTypes'
  BY <1>3, <1>0 DEF GoesOn, InitFails, InitPipeFails, OpenFails, Claim, Flushed,
     Goto, Positions, handleVars, SessionTypes
<1>4. ASSUME NEW c \in Contexts, ContextStep(c) PROVE SessionTypes'
  <2>1. UNCHANGED <<found, handle, polled, leaked>>
    BY <1>4 DEF ContextStep, InitContext, StartMonitor, Scan, ScanFails, Undo,
       Exit, OpExit, StopMonitor, JoinMonitor, handleVars
  <2>2. pc' \in [Contexts -> Positions]
    BY <1>4, <1>0 DEF ContextStep, InitContext, StartMonitor, Scan, ScanFails,
       Undo, Exit, OpExit, StopMonitor, JoinMonitor, Goto, Positions, Stopped,
       SessionTypes
  <2> QED
    BY <2>1, <2>2 DEF SessionTypes
<1>5. ASSUME NEW c \in Contexts, ReasonStep(c) PROVE SessionTypes'
  <2>1. pc' \in [Contexts -> Positions]
    BY <1>5, <1>0 DEF ReasonStep, InitLists, InitPipe, TakePollfds, TakeMessage,
       NoticeLoss, CloseBegins, CloseEnds, Unlist, Goto, Positions, SessionTypes
  <2>2. /\ UNCHANGED <<found, leaked>> /\ polled' \subseteq polled
        /\ handle' = handle \/ handle' = [handle EXCEPT ![c] = 0]
    BY <1>5 DEF ReasonStep, InitLists, InitPipe, TakePollfds, TakeMessage,
       NoticeLoss, CloseBegins, CloseEnds, Unlist, handleVars
  <2> QED
    BY <2>1, <2>2 DEF SessionTypes
<1>6. ASSUME NEW c \in Contexts, HotplugStep(c) PROVE SessionTypes'
  BY <1>6, <1>0 DEF HotplugStep, HotplugPoll, PollReads, PollEnds, TellLoss,
     LossTold, Goto, Positions, handleVars, SessionTypes
<1>7. ASSUME NEW c \in Contexts, OpenStep(c) PROVE SessionTypes'
  <2>1. pc' \in [Contexts -> Positions]
    BY <1>7, <1>0 DEF OpenStep, GetList, NotFound, OpenDevice, FreeList,
       ClaimFails, Goto, Positions
  <2>2. CASE OpenDevice(c)
    <3>1. PICK s \in found[c] : handle' = [handle EXCEPT ![c] = s]
      BY <2>2 DEF OpenDevice
    <3> QED
      BY <2>1, <2>2, <3>1 DEF OpenDevice, SessionTypes
  <2>3. CASE ~OpenDevice(c)
    BY <1>7, <2>1, <2>3 DEF OpenStep, GetList, NotFound, FreeList, ClaimFails,
       handleVars, Listed, SessionTypes
  <2> QED
    BY <2>2, <2>3
<1> QED
  BY <1>1, <1>2, <1>3, <1>4, <1>5, <1>6, <1>7, Steps

LEMMA DevDomain ==
  ASSUME TypeOK, [Next]_vars
  PROVE  dev' = [c \in Contexts |-> dev'[c]]
<1>0. dev = [c \in Contexts |-> dev[c]]
  BY DEF TypeOK
<1>1. CASE KernelStep \/ MonitorOnly \/ MonitorReads \/ MonitorDone
           \/ LockContexts \/ UNCHANGED vars
  BY <1>0, <1>1 DEF KernelStep, Plug, Unplug, MonitorOnly, MonitorWakes,
     MonitorEnds, MonitorInterrupted, MonitorReads, MonitorDone, LockContexts,
     vars
<1>2. ASSUME NEW c \in Contexts,
             TellStep(c) \/ GoesOn(c) \/ ContextStep(c) \/ ReasonStep(c)
               \/ HotplugStep(c) \/ OpenStep(c)
      PROVE  \/ dev' = dev \/ Disconnect(c)
             \/ \E x : dev' = [dev EXCEPT ![c] = x]
  <2>1. CASE TellStep(c)
    <3>1. CASE Enumerate(c)
      BY <3>1 DEF Enumerate
    <3>2. CASE Find(c) \/ Drop(c)
      BY <3>2 DEF Find, Drop
    <3> QED
      BY <2>1, <3>1, <3>2 DEF TellStep
  <2>2. CASE GoesOn(c) \/ HotplugStep(c)
    BY <2>2 DEF GoesOn, InitFails, InitPipeFails, OpenFails, Claim, Flushed,
       HotplugStep, HotplugPoll, PollReads, PollEnds, TellLoss, LossTold
  <2>3. CASE ContextStep(c)
    BY <2>3 DEF ContextStep, InitContext, StartMonitor, Scan, ScanFails, Scanned,
       Undo, Exit, OpExit, StopMonitor, JoinMonitor
  <2>4. CASE ReasonStep(c)
    BY <2>4 DEF ReasonStep, InitLists, InitPipe, TakePollfds, TakeMessage,
       NoticeLoss, CloseBegins, CloseEnds, Unlist
  <2>5. CASE OpenStep(c)
    BY <2>5 DEF OpenStep, GetList, NotFound, OpenDevice, FreeList, ClaimFails
  <2> QED
    BY <1>2, <2>1, <2>2, <2>3, <2>4, <2>5
<1>3. ASSUME NEW c \in Contexts, NEW x, dev' = [dev EXCEPT ![c] = x]
      PROVE  dev' = [d \in Contexts |-> dev'[d]]
  BY <1>0, <1>3
<1>4. ASSUME NEW c \in Contexts, Disconnect(c)
      PROVE  dev' = [d \in Contexts |-> dev'[d]]
  <2>1. ASSUME NEW s, NEW o,
               dev' = [dev EXCEPT ![c][s].listed = FALSE,
                                  ![c][s].attached = FALSE, ![c][s].orphan = o]
        PROVE  dev' = [d \in Contexts |-> dev'[d]]
    BY ONLY <1>0, <2>1
  <2>2. dev' = [dev EXCEPT ![c][work.slot].listed = FALSE,
                           ![c][work.slot].attached = FALSE,
                           ![c][work.slot].orphan = ~event[c].ready]
    BY <1>4 DEF Disconnect
  <2> QED
    BY <2>1, <2>2
<1>5. ASSUME NEW c \in Contexts,
             TellStep(c) \/ GoesOn(c) \/ ContextStep(c) \/ ReasonStep(c)
               \/ HotplugStep(c) \/ OpenStep(c)
      PROVE  dev' = [d \in Contexts |-> dev'[d]]
  <2>1. CASE dev' = dev
    BY <1>0, <2>1
  <2> QED
    BY <1>2, <1>3, <1>4, <1>5, <2>1
<1> QED
  BY <1>1, <1>5, Steps

LEMMA TypeStep ==
  ASSUME TypeOK, ActiveIsInUse, WorkIsHeld, Held, EventLife, Lists, RefsCounted,
         [Next]_vars, EventLife', CountIsRight'
  PROVE  TypeOK'
<1>1. uevents' \in Seq(Uevents) /\ work' \in Works
  BY HeardTypes
<1>2. GlobalTypes'
  BY GlobalTypesStep DEF TypeOK, GlobalTypes
<1>3. SessionTypes'
  BY SessionTypesStep DEF TypeOK, SessionTypes
<1>4. dev' \in [Contexts -> [Slots -> Devices]]
  <2>1. ASSUME NEW c \in Contexts PROVE dev'[c] \in [Slots -> Devices]
    BY RefsStep DEF RefsFit
  <2> QED
    BY <2>1, DevDomain
<1>5. event' \in [Contexts -> Reasons]
  BY EventStep
<1>6. active' \subseteq Contexts
  BY ActiveChanges DEF TypeOK
<1>7. dead' \subseteq Contexts
  BY DeadStep DEF TypeOK
<1>8. initCount' \in 0 .. Cardinality(Contexts)
  <2>1. Counted' \subseteq Contexts
    BY DEF Counted
  <2>2. /\ IsFiniteSet(Counted') /\ Cardinality(Counted') <= Cardinality(Contexts)
        /\ Cardinality(Contexts) \in Nat /\ Cardinality(Counted') \in Nat
    BY <2>1, FS_Subset, FS_CardinalityType, DeviceRegistryAssumption
  <2> QED
    BY <2>2 DEF CountIsRight
<1> QED
  BY <1>1, <1>2, <1>3, <1>4, <1>5, <1>6, <1>7, <1>8
     DEF TypeOK, GlobalTypes, SessionTypes
-----------------------------------------------------------------------------
(* The invariant of the registry.                                           *)

RegistryInv ==
  /\ TypeOK /\ LocksInv /\ ActiveIsInUse /\ CountIsRight /\ MonitorLife
  /\ WorkIsHeld /\ WorkIsNamed
  /\ EventLife /\ Held /\ Lists /\ RefsCounted
  /\ OnePerAddress /\ AttachedAreListed /\ MessagesLive
  /\ LastAgrees /\ ArrivalsListed /\ LossesTold
  /\ StartsEarly /\ LiveDevices /\ OwnLoss

LEMMA RegistryInit ==
  ASSUME Init
  PROVE  RegistryInv
<1> USE DEF Init
<1>0. /\ None \notin Contexts /\ Monitor \notin Contexts /\ Monitor # None
      /\ 0 \notin Slots /\ MaxChanges \in Nat
  BY DeviceRegistryAssumption
<1>1. /\ NoWork \in Works /\ NoDevice \in Devices
      /\ NoDevice.listed = FALSE /\ NoDevice.attached = FALSE
      /\ NoDevice.refs = 0 /\ NoDevice.orphan = FALSE
      /\ NoWork.at = None /\ NoWork.slot = 0 /\ NoWork.todo = {}
      /\ NoWork.locked = FALSE
  BY DEF NoWork, Works, NoDevice, Devices
<1>2. Counted = {} /\ Cardinality(Counted) = 0 /\ Cardinality(Contexts) \in Nat
  BY FS_EmptySet, FS_CardinalityType, DeviceRegistryAssumption DEF Counted
<1>3. TypeOK
  <2>1. <<>> \in Seq(Messages) /\ <<>> \in Seq(Uevents)
    OBVIOUS
  <2>2. event \in [Contexts -> Reasons]
    BY <2>1 DEF Reasons
  <2>3. pc \in [Contexts -> Positions]
    BY DEF Positions
  <2>4. dev \in [Contexts -> [Slots -> Devices]]
    BY <1>1
  <2>5. /\ found \in [Contexts -> SUBSET Slots]
        /\ handle \in [Contexts -> Slots \cup {0}]
    OBVIOUS
  <2>6. initCount \in 0 .. Cardinality(Contexts) /\ changes \in 0 .. MaxChanges
    BY <1>0, <1>2
  <2> QED
    BY <1>1, <2>1, <2>2, <2>3, <2>4, <2>5, <2>6 DEF TypeOK, Threads
<1>4. /\ LocksInv /\ ActiveIsInUse /\ CountIsRight /\ MonitorLife /\ WorkIsHeld
      /\ WorkIsNamed
  BY <1>0, <1>1, <1>2 DEF LocksInv, LocksHeld, ReadingHolds, ActiveIsInUse,
     InUse, CountIsRight, MonitorLife, WorkIsHeld, WorkIsNamed, Making
<1>5. /\ Held /\ Lists /\ StartsEarly
  BY <1>1 DEF Held, HeldBy, Holding, Lists, ListsFit, Listed, Leaving,
     StartsEarly
<1>6. EventLife
  BY DEF EventLife, EventFits, UpAt, After, PipeTells
<1>7. RefsCounted
  <2> SUFFICES ASSUME NEW c \in Contexts PROVE RefsFit(c)
    BY DEF RefsCounted
  <2>1. ASSUME NEW s \in Slots
        PROVE  dev[c][s].refs = Own(dev[c][s]) + Others(c, s)
    <3>1. FarewellsIn(event[c].messages, s) = {}
      BY DEF FarewellsIn
    <3>2. Cardinality(FarewellsIn(event[c].messages, s)) = 0
      BY <3>1, FS_EmptySet
    <3>3. /\ dev[c][s] = NoDevice /\ s \notin found[c] /\ handle[c] # s
          /\ work.at # c
      BY <1>0, <1>1
    <3> QED
      BY <1>1, <3>2, <3>3 DEF Own, Others, If
  <2> QED
    BY <1>1, <2>1 DEF RefsFit
<1>8. OnePerAddress /\ AttachedAreListed /\ MessagesLive
  BY <1>1 DEF OnePerAddress, Listed, AttachedAreListed, MessagesLive
<1>9. LastAgrees /\ ArrivalsListed /\ LossesTold /\ LiveDevices /\ OwnLoss
  BY <1>1 DEF LastAgrees, ArrivalsListed, LossesTold, LiveDevices, OwnLoss,
     Watching
<1> QED
  BY <1>3, <1>4, <1>5, <1>6, <1>7, <1>8, <1>9 DEF RegistryInv

LEMMA RegistryStep ==
  ASSUME RegistryInv, [Next]_vars
  PROVE  RegistryInv'
<1> USE DEF RegistryInv
<1>1. LocksInv' /\ ActiveIsInUse' /\ CountIsRight' /\ MonitorLife'
  BY LocksStep, ActiveStep, CountStep, MonitorLifeStep
<1>2. WorkIsHeld' /\ WorkIsNamed'
  BY WorkStep, WorkIsNamedStep
<1>3. EventLife' /\ Held'
  BY EventStep, HeldStep
<1>4. Lists' /\ RefsCounted'
  BY <1>3, ListsStep, RefsStep DEF RefsCounted
<1>5. OnePerAddress' /\ AttachedAreListed'
  BY <1>3, OneStep, AttachedStep
<1>6. MessagesLive'
  BY <1>3, MessagesStep
<1>7. LastAgrees' /\ StartsEarly' /\ LiveDevices' /\ LossesTold'
  BY <1>3, LastStep, StartsStep, LiveStep, LossesStep
<1>8. OwnLoss' /\ ArrivalsListed'
  BY <1>1, <1>2, <1>3, <1>5, OwnStep, ArrivalsStep
<1>9. TypeOK'
  BY <1>1, <1>3, TypeStep
<1> QED
  BY <1>1, <1>2, <1>3, <1>4, <1>5, <1>6, <1>7, <1>8, <1>9

\* Whatever the sessions, the monitor and the kernel do, in whatever order.
THEOREM RegistryInvariant == Spec => []RegistryInv
<1>1. RegistryInv /\ UNCHANGED vars => RegistryInv'
  BY RegistryStep
<1> QED
  BY RegistryInit, RegistryStep, PTL DEF Spec

\* Every variable keeps its type.
THEOREM RegistryTypeOK == Spec => []TypeOK
<1>1. RegistryInv => TypeOK
  BY DEF RegistryInv
<1> QED
  BY <1>1, RegistryInvariant, PTL

\* A device of libusb lives exactly as long as a list, a message, the open
\* handle or whoever tells of its loss refers to it, and a session that has
\* ended in order has freed its devices.
THEOREM RegistryRefsAreHeld == Spec => []RefsAreHeld
<1>1. RegistryInv => RefsAreHeld
  <2> SUFFICES ASSUME RegistryInv, NEW c \in Contexts
               PROVE  /\ \A s \in Slots : dev[c][s].refs = References(c, s)
                      /\ pc[c] \notin Emptied =>
                           \A n \in DOMAIN event[c].messages :
                             dev[c][event[c].messages[n].slot].refs > 0
                      /\ pc[c] = "ended" /\ c \notin leaked /\ ~event[c].deaf =>
                           \A s \in Slots :
                             dev[c][s].refs = If(dev[c][s].orphan)
    BY DEF RefsAreHeld, Emptied
  <2> DEFINE messages == event[c].messages
  <2>0. TypeOK /\ RefsFit(c) /\ messages \in Seq(Messages)
    BY DEF RegistryInv, RefsCounted, TypeOK, Reasons
  <2>1. ASSUME NEW s \in Slots
        PROVE  /\ dev[c][s].refs
                    = If(dev[c][s].listed) + If(dev[c][s].orphan)
                      + Others(c, s)
               /\ Others(c, s) \in Nat
               /\ IsFiniteSet(FarewellsIn(messages, s))
               /\ Cardinality(FarewellsIn(messages, s)) \in Nat
    BY <2>0, OthersCount, FarewellsFinite DEF RefsFit, Own
  <2>2. ASSUME NEW s \in Slots PROVE dev[c][s].refs = References(c, s)
    <3>1. Farewells(c, s) = FarewellsIn(messages, s)
      BY DEF Farewells, FarewellsIn
    <3>2. Cardinality(Farewells(c, s)) \in Nat
      BY <2>1, <3>1
    <3> QED
      BY <2>1, <3>1, <3>2 DEF References, Others, If
  <2>3. ASSUME NEW s \in Slots,
               \/ dev[c][s].listed
               \/ \E m \in DOMAIN messages : /\ messages[m].left
                                             /\ messages[m].slot = s
        PROVE  dev[c][s].refs > 0
    <3>1. CASE dev[c][s].listed
      BY <2>1, <3>1 DEF If
    <3>2. CASE \E m \in DOMAIN messages :
                 messages[m].left /\ messages[m].slot = s
      <4>1. FarewellsIn(messages, s) # {}
        BY <3>2 DEF FarewellsIn
      <4>2. Cardinality(FarewellsIn(messages, s)) # 0
        BY <2>1, <4>1, FS_EmptySet
      <4>3. Others(c, s) # 0
        BY <2>0, <4>1, OthersCount
      <4> QED
        BY <2>1, <4>3 DEF If
    <3> QED
      BY <2>3, <3>1, <3>2
  <2>4. ASSUME pc[c] \notin Emptied, NEW n \in DOMAIN messages
        PROVE  dev[c][messages[n].slot].refs > 0
    <3>1. Lives(c, n)
      BY <2>4 DEF RegistryInv, MessagesLive
    <3>2. messages[n] \in Messages
      BY <2>0
    <3>3. messages[n].slot \in Slots
      BY <3>2 DEF Messages
    <3> QED
      BY <2>3, <3>1, <3>3 DEF Lives
  <2>5. ASSUME pc[c] = "ended", c \notin leaked, ~event[c].deaf,
               NEW s \in Slots
        PROVE  dev[c][s].refs = If(dev[c][s].orphan)
    <3>1. messages = <<>>
      BY <2>5 DEF RegistryInv, EventLife, EventFits, After
    <3>2. found[c] = {} /\ handle[c] = 0
      BY <2>5 DEF RegistryInv, Held, HeldBy, Holding
    <3>3. ~dev[c][s].listed
      BY <2>5 DEF RegistryInv, Lists, ListsFit, Listed
    <3>4. work.at # c
      BY <2>5, DeviceRegistryAssumption
         DEF RegistryInv, WorkIsHeld, ActiveIsInUse, InUse
    <3>5. Cardinality(FarewellsIn(messages, s)) = 0
      <4>1. FarewellsIn(messages, s) = {}
        BY <3>1 DEF FarewellsIn
      <4> QED
        BY <4>1, FS_EmptySet
    <3>6. Others(c, s) = 0
      <4>1. handle[c] # s
        BY <3>2, DeviceRegistryAssumption
      <4> QED
        BY <3>2, <3>4, <3>5, <4>1 DEF Others, If
    <3> QED
      BY <2>1, <3>3, <3>6 DEF If
  <2> QED
    BY <2>2, <2>4, <2>5
<1> QED
  BY <1>1, RegistryInvariant, PTL

\* The pipe of a context holds one byte while something is pending, and none
\* otherwise, except in a context that no message reaches any more.
THEOREM RegistryPipeTellsPending == Spec => []PipeTellsPending
<1>1. RegistryInv => PipeTellsPending
  BY DEF RegistryInv, EventLife, EventFits, PipeTells, PipeTellsPending
<1> QED
  BY <1>1, RegistryInvariant, PTL

\* The monitor of hotplug events runs from the first context to the last.
THEOREM RegistryMonitorIsWanted == Spec => []MonitorIsWanted
<1>1. RegistryInv => MonitorIsWanted
  <2> SUFFICES ASSUME RegistryInv PROVE MonitorIsWanted
    OBVIOUS
  <2>1. startStop = None => ~told
    BY DeviceRegistryAssumption
       DEF RegistryInv, MonitorLife, LocksInv, LocksHeld
  <2>2. initCount = Cardinality(Counted)
    BY DEF RegistryInv, CountIsRight
  <2> QED
    BY <2>1, <2>2 DEF RegistryInv, MonitorLife, MonitorIsWanted, Counted
<1> QED
  BY <1>1, RegistryInvariant, PTL

\* Once the monitor has told of all that it heard, every context in use that
\* has been scanned lists the dongle that is there and nothing else, but for
\* devices that it was told of before it looked for the monitor itself.
THEOREM RegistryCaughtUp == Spec => []CaughtUp
<1>1. RegistryInv => CaughtUp
  <2> SUFFICES ASSUME RegistryInv, monitor = "poll", uevents = <<>>,
                      hotplug = None, NEW c \in active, pc[c] \notin Unscanned
               PROVE  /\ plugged # 0 => Here(c, plugged) # {}
                      /\ \A s \in Listed(c) :
                           dev[c][s].early \/ dev[c][s].address = plugged
    BY DEF CaughtUp, Unscanned
  <2>1. socket = "open" /\ work = NoWork
    BY DEF RegistryInv, MonitorLife, WorkIsHeld
  <2>2. plugged # 0 => Here(c, plugged) # {}
    BY <2>1 DEF RegistryInv, ArrivalsListed, Heard
  <2>3. ASSUME NEW s \in Listed(c) PROVE ~WillLeave(c, s)
    BY <2>1 DEF WillLeave, NoWork
  <2> QED
    BY <2>1, <2>2, <2>3 DEF RegistryInv, LossesTold
<1> QED
  BY <1>1, RegistryInvariant, PTL
-----------------------------------------------------------------------------
(* Nobody waits for ever for a lock, the monitor or the pipe.               *)

\* Whoever reads from the socket, or tells of a loss, has something to tell.
WorkIsThere ==
  /\ monitor = "reading" => work # NoWork
  /\ \A c \in Contexts : pc[c] = "telling" => work # NoWork

\* A message that was locked, or that a device left, is one ...
LEMMA SomeWork == work.locked \/ work.left => work # NoWork
BY DEF NoWork

\* ... after a step, too.
LEMMA SomeWorkNext == work'.locked \/ work'.left => work' # NoWork
BY DEF NoWork

\* Only who reads a message, or finds its own device lost, begins to handle one.
LEMMA WorkIsThereStep ==
  ASSUME RegistryInv, WorkIsThere, [Next]_vars
  PROVE  WorkIsThere'
<1> USE DeviceRegistryAssumption
<1>1. TypeOK /\ LocksHeld /\ ReadingHolds /\ WorkIsHeld
  BY DEF RegistryInv, LocksInv
<1>2. CASE KernelStep \/ MonitorOnly \/ UNCHANGED vars
  BY <1>2 DEF WorkIsThere, KernelStep, Plug, Unplug, MonitorOnly, MonitorWakes,
     MonitorEnds, MonitorInterrupted, monitorVars, globalVars, vars
<1>3. ASSUME ReadMessage PROVE work' # NoWork
  <2>1. Head(uevents).address # 0
    <3>1. Head(uevents) \in Uevents
      BY <1>1, <1>3 DEF ReadMessage, TypeOK
    <3> QED BY <3>1 DEF Uevents
  <2>2. work'.address = Head(uevents).address
    BY <1>3 DEF ReadMessage, NoWork
  <2> QED BY <2>1, <2>2 DEF NoWork
<1>4. CASE MonitorReads
  <2>1. CASE uevents = <<>>
    BY <1>4, <2>1 DEF WorkIsThere, MonitorReads
  <2>2. CASE uevents # <<>>
    BY <1>3, <1>4, <2>2 DEF WorkIsThere, MonitorReads
  <2> QED BY <2>1, <2>2
<1>5. CASE MonitorDone
  BY <1>1, <1>5 DEF WorkIsThere, MonitorDone, LocksHeld, ReadingHolds
<1>6. CASE LockContexts
  <2>1. work'.locked
    BY <1>1, <1>6 DEF LockContexts, TypeOK, Works
  <2> QED BY <1>6, <2>1 DEF WorkIsThere, LockContexts, NoWork, monitorVars
<1>7. ASSUME NEW c \in Contexts, TellStep(c) PROVE WorkIsThere'
  <2>1. c \in work.todo \/ work.at = c
    <3>1. Enumerate(c) \/ Find(c) => c \in work.todo
      BY Zenon DEF Enumerate, Find
    <3>2. Disconnect(c) \/ Drop(c) => work.at = c
      BY Zenon DEF Disconnect, Drop
    <3> QED BY <1>7, <3>1, <3>2 DEF TellStep
  <2>2. work.locked
    BY <1>1, <2>1 DEF WorkIsHeld
  <2>3. work'.locked = work.locked
    <3>1. CASE Enumerate(c)
      BY <1>1, <3>1 DEF Enumerate, TypeOK, Works
    <3>2. CASE Find(c)
      <4>1. work \in Works
        BY <1>1 DEF TypeOK
      <4>2. \/ work' = [work EXCEPT !.todo = @ \ {c}]
            \/ \E s \in Here(c, work.address) :
                 work' = [work EXCEPT !.todo = @ \ {c}, !.at = c, !.slot = s]
        BY <3>2, Zenon DEF Find
      <4>3. ASSUME NEW s PROVE [work EXCEPT !.todo = @ \ {c}, !.at = c,
                                            !.slot = s].locked = work.locked
        BY <4>1 DEF Works
      <4>4. [work EXCEPT !.todo = @ \ {c}].locked = work.locked
        BY <4>1 DEF Works
      <4> QED BY <4>2, <4>3, <4>4, Zenon
    <3>3. CASE Disconnect(c)
      BY <3>3, Zenon DEF Disconnect, globalVars
    <3>4. CASE Drop(c)
      BY <1>1, <3>4 DEF Drop, TypeOK, Works
    <3> QED BY <1>7, <3>1, <3>2, <3>3, <3>4 DEF TellStep
  <2> QED BY <2>2, <2>3, SomeWorkNext, Zenon DEF WorkIsThere
<1>8. ASSUME NEW c \in Contexts, GoesOn(c) \/ ReasonStep(c) \/ OpenStep(c)
      PROVE  WorkIsThere'
  <2>1. work' = work /\ monitor' = monitor
    BY <1>8 DEF GoesOn, InitFails, InitPipeFails, OpenFails, Claim, Flushed,
       ReasonStep, InitLists, InitPipe, TakePollfds, TakeMessage, NoticeLoss,
       CloseBegins, CloseEnds, Unlist, OpenStep, GetList, NotFound, OpenDevice,
       FreeList, ClaimFails, monitorVars, globalVars
  <2>2. \A d \in Contexts : pc'[d] = "telling" => pc[d] = "telling"
    BY <1>1, <1>8
       DEF TypeOK, Goto, GoesOn, InitFails, InitPipeFails, OpenFails, Claim, Flushed,
       ReasonStep, InitLists, InitPipe, TakePollfds, TakeMessage, NoticeLoss,
       CloseBegins, CloseEnds, Unlist, OpenStep, GetList, NotFound, OpenDevice,
       FreeList, ClaimFails
  <2> QED BY <2>1, <2>2 DEF WorkIsThere
<1>9. ASSUME NEW c \in Contexts, ContextStep(c) PROVE WorkIsThere'
  <2>1. work' = work /\ (monitor' = "reading" => monitor = "reading")
    BY <1>9 DEF ContextStep, InitContext, StartMonitor, Scan, ScanFails, Undo,
       Exit, OpExit, StopMonitor, JoinMonitor, monitorVars, globalVars
  <2>2. \A d \in Contexts : pc'[d] = "telling" => pc[d] = "telling"
    BY <1>1, <1>9
       DEF TypeOK, Goto, Stopped, ContextStep, InitContext, StartMonitor, Scan,
       ScanFails, Undo, Exit, OpExit, StopMonitor, JoinMonitor
  <2> QED BY <2>1, <2>2 DEF WorkIsThere
<1>10. ASSUME NEW c \in Contexts, HotplugStep(c) PROVE WorkIsThere'
  <2>1. CASE HotplugPoll(c)
    BY <1>1, <2>1 DEF WorkIsThere, HotplugPoll, Goto, TypeOK, monitorVars, globalVars
  <2>2. CASE PollReads(c)
    BY <1>3, <2>2 DEF WorkIsThere, PollReads
  <2>3. CASE PollEnds(c) \/ LossTold(c)
    <3>1. hotplug = c
      BY <1>1, <2>3 DEF PollEnds, LossTold, Goto, LocksHeld
    <3>2. \A d \in Contexts : pc'[d] # "telling"
      BY <1>1, <2>3, <3>1 DEF PollEnds, LossTold, Goto, LocksHeld, TypeOK
    <3>3. monitor' # "reading"
      BY <1>1, <2>3, <3>1 DEF PollEnds, LossTold, ReadingHolds, monitorVars
    <3> QED BY <3>2, <3>3 DEF WorkIsThere
  <2>4. CASE TellLoss(c)
    <3>1. CASE dev[c][handle[c]].attached
      <4>1. work'.left
        BY <2>4, <3>1 DEF TellLoss, NoWork
      <4> QED BY <4>1 DEF WorkIsThere, NoWork
    <3>2. CASE ~dev[c][handle[c]].attached
      BY <1>1, <2>4, <3>2 DEF WorkIsThere, TellLoss, TypeOK, monitorVars
    <3> QED BY <3>1, <3>2
  <2> QED BY <1>10, <2>1, <2>2, <2>3, <2>4 DEF HotplugStep
<1> QED
  BY <1>2, <1>4, <1>5, <1>6, <1>7, <1>8, <1>9, <1>10, Steps

\* Somebody can go on.
Moving ==
  \/ MonitorGoesOn \/ MessageGoesOn
  \/ \E c \in Contexts : InCall(c) /\ ~Awaits(c)

\* The owner of linux_hotplug_lock can go on, or who tells the contexts for it ...
LEMMA HotplugMoves ==
  ASSUME RegistryInv, WorkIsThere, hotplug # None
  PROVE  Moving
<1> USE DeviceRegistryAssumption
<1>1. hotplug \in Contexts \cup {Monitor}
  BY DEF RegistryInv, TypeOK, Threads
<1>2. CASE hotplug = Monitor
  BY <1>2 DEF RegistryInv, LocksInv, ReadingHolds, WorkIsThere, Moving, MonitorGoesOn,
     MessageGoesOn
<1>3. CASE hotplug \in Contexts
  <2>1. pc[hotplug] \in {"polling", "telling"}
    BY <1>3 DEF RegistryInv, LocksInv, LocksHeld
  <2>2. pc[hotplug] = "telling" => work # NoWork
    BY <1>3 DEF WorkIsThere
  <2> QED BY <1>3, <2>1, <2>2 DEF Moving, MessageGoesOn, InCall, Awaits
<1> QED BY <1>1, <1>2, <1>3

\* ... that of active_contexts_lock is the same thread ...
LEMMA LockedMoves ==
  ASSUME RegistryInv, WorkIsThere, work.locked
  PROVE  Moving
<1>1. hotplug # None
  BY DEF RegistryInv, WorkIsHeld, NoWork
<1> QED BY <1>1, HotplugMoves

\* ... that of linux_hotplug_startstop_lock scans, or joins the monitor, which ends
\* unless it waits for linux_hotplug_lock ...
LEMMA StartStopMoves ==
  ASSUME RegistryInv, WorkIsThere, startStop # None
  PROVE  Moving
<1> USE DeviceRegistryAssumption
<1>1. startStop \in Contexts
  BY DEF RegistryInv, TypeOK
<1>2. pc[startStop] \in {"scan", "unstart"}
  BY <1>1 DEF RegistryInv, LocksInv, LocksHeld
<1>3. CASE hotplug # None
  BY <1>3, HotplugMoves
<1>4. CASE hotplug = None
  <2>1. monitor # "reading"
    BY <1>4 DEF RegistryInv, LocksInv, ReadingHolds
  <2>2. monitor \in {"none", "poll", "locking", "ended"}
    BY <2>1 DEF RegistryInv, TypeOK
  <2> QED BY <1>1, <1>2, <1>4, <2>2 DEF Moving, MonitorGoesOn, InCall, Awaits
<1> QED BY <1>3, <1>4

\* ... and that of default_context_lock makes its context, or undoes it.
LEMMA InitLockMoves ==
  ASSUME RegistryInv, WorkIsThere, initLock # None
  PROVE  Moving
<1> USE DeviceRegistryAssumption
<1>1. initLock \in Contexts
  BY DEF RegistryInv, TypeOK
<1>2. pc[initLock] \in Making \cup Leaving
  BY <1>1 DEF RegistryInv, LocksInv, LocksHeld
<1>3. CASE hotplug # None \/ work.locked \/ startStop # None
  BY <1>3, HotplugMoves, LockedMoves, StartStopMoves
<1>4. CASE hotplug = None /\ ~work.locked /\ startStop = None
  <2>1. pc[initLock] # "unstart"
    BY <1>1, <1>4 DEF RegistryInv, LocksInv, LocksHeld
  <2> QED BY <1>1, <1>2, <1>4, <2>1 DEF Moving, InCall, Awaits, Making, Leaving
<1> QED BY <1>3, <1>4

\* However many sessions open, close and fail, the locks, the joining of the
\* monitor and the pipes never make everybody wait.
THEOREM RegistrySomebodyGoesOn == Spec => []SomebodyGoesOn
<1>1. Init => WorkIsThere
  BY DEF Init, WorkIsThere
<1>2. RegistryInv /\ WorkIsThere /\ [Next]_vars => WorkIsThere'
  BY WorkIsThereStep
<1>3. RegistryInv /\ WorkIsThere => SomebodyGoesOn
  <2> SUFFICES ASSUME RegistryInv, WorkIsThere,
                      NEW c \in Contexts, InCall(c), Awaits(c)
               PROVE  Moving
    BY DEF SomebodyGoesOn, Moving
  <2>1. CASE hotplug # None \/ work.locked \/ startStop # None \/ initLock # None
    BY <2>1, HotplugMoves, LockedMoves, StartStopMoves, InitLockMoves
  <2>2. CASE hotplug = None /\ ~work.locked /\ startStop = None /\ initLock = None
    <3>1. pc[c] = "flush"
      BY <2>2, DeviceRegistryAssumption
         DEF Awaits, RegistryInv, LocksInv, LocksHeld
    <3>2. event[c].pipe = 0 \/ Pending(event[c])
      BY <3>1 DEF RegistryInv, EventLife, EventFits, PipeTells, UpAt, If
    <3>3. ~event[c].closing
      BY <3>1 DEF RegistryInv, EventLife, EventFits
    <3> QED BY <3>1, <3>2, <3>3 DEF Awaits, Pending, RegistryInv, TypeOK
  <2> QED BY <2>1, <2>2
<1>4. Spec => []WorkIsThere
  BY <1>1, <1>2, RegistryInvariant, PTL DEF Spec
<1> QED
  BY <1>3, <1>4, RegistryInvariant, PTL
=============================================================================
