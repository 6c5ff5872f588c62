---------------------------- MODULE DeviceRegistry ----------------------------
(***************************************************************************)
(* What libusb knows of the dongle.  Every session has a context of its    *)
(* own, with a list of devices, which counts references, and a pipe that   *)
(* interrupts whoever polls.  One thread for all contexts, the monitor,    *)
(* reads from a netlink socket what the kernel says of dongles that come   *)
(* and go; the thread that handles the events of a context notices a loss  *)
(* by itself, and the opening of a device reads the socket as well.  A     *)
(* session opens its device (rtlsdr_open2), streams, closes it             *)
(* (rtlsdr_close) and leaves its context, or takes one of the error paths. *)
(***************************************************************************)
EXTENDS Integers, Sequences, FiniteSets

CONSTANTS
  Contexts,    \* the sessions, with a context each
  Monitor,     \* the thread of linux_netlink.c
  None,
  Addresses,   \* what the kernel may call the dongle (it may repeat itself)
  Slots,       \* bound: devices of a context that exist together
  MaxChanges   \* bound: how often the dongle is plugged or unplugged

ASSUME DeviceRegistryAssumption ==
  /\ IsFiniteSet(Contexts)
  /\ Monitor \notin Contexts /\ None \notin Contexts \cup {Monitor}
  /\ Addresses \subseteq Nat \ {0}
  /\ Slots \subseteq Nat \ {0}
  /\ MaxChanges \in Nat

VARIABLES
  plugged,     \* the address of the dongle, 0 without one
  changes,     \* how often it may still change
  uevents,     \* messages in the socket
  socket,      \* linux_netlink_socket: closed (-1), open, stale (a number
               \* that was closed and not forgotten)
  monitor,     \* the thread: none, in its poll, locking, reading, ended
  told,        \* the byte in its control pipe
  initLock,    \* default_context_lock
  startStop,   \* linux_hotplug_startstop_lock
  hotplug,     \* linux_hotplug_lock
  initCount,   \* init_count
  active,      \* active_contexts_list
  work,        \* the message that the owner of hotplug handles, locked once
               \* it has active_contexts_lock
  pc,
  dev,         \* usb_devs and what else has not been freed, by context
  event,       \* a context's reasons to interrupt its poll, and the pipe
  found,       \* the list of libusb_get_device_list
  handle,      \* devh, by its device
  polled,      \* the handle's descriptor is in the poll set
  dead,        \* contexts whose descriptor is of an unplugged dongle
  leaked       \* contexts left by an error path that forgot something

kernelVars == <<plugged, changes>>
monitorVars == <<uevents, socket, monitor, told>>
lockVars == <<initLock, startStop, hotplug>>
globalVars == <<initCount, active, work>>
handleVars == <<found, handle, polled, dead, leaked>>
vars == <<kernelVars, monitorVars, lockVars, globalVars, pc, dev, event,
          handleVars>>

NoDevice ==
  [address |-> 0, refs |-> 0, listed |-> FALSE, attached |-> FALSE,
   orphan |-> FALSE, early |-> FALSE]

NoWork ==
  [locked |-> FALSE, left |-> FALSE, address |-> 0, todo |-> {}, at |-> None,
   slot |-> 0]

\* usbi_alloc_device, for a context's list: early if the context has not
\* looked for the monitor yet.
NewDevice(c, address) ==
  [address |-> address, refs |-> 1, listed |-> TRUE, attached |-> TRUE,
   orphan |-> FALSE, early |-> pc[c] = "start"]

Listed(c) == {s \in Slots : dev[c][s].listed}

Here(c, address) == {s \in Listed(c) : dev[c][s].address = address}

Free(c) == {s \in Slots : dev[c][s] = NoDevice}

Ref(devices, slots) ==
  [s \in Slots |-> IF s \in slots
                   THEN [devices[s] EXCEPT !.refs = @ + 1] ELSE devices[s]]

\* libusb_unref_device
Unref(devices, slots) ==
  [s \in Slots |-> IF s \notin slots THEN devices[s]
                   ELSE IF devices[s].refs = 1 THEN NoDevice
                   ELSE [devices[s] EXCEPT !.refs = @ - 1]]

\* A context without its list of devices.
Unlisted(c) ==
  Unref([s \in Slots |-> [dev[c][s] EXCEPT !.listed = FALSE]], Listed(c))

-----------------------------------------------------------------------------
(* The event pipe of a context.                                             *)

\* usbi_pending_events
Pending(e) == e.closing \/ e.modified \/ e.messages # <<>>

\* (variant) Every reason is written to the pipe.
RaiseAlways(e, f) == IF ~e.up THEN f ELSE [f EXCEPT !.pipe = @ + 1]

\* The reasons become f's: whoever gives the first one writes to the pipe.
Raise(e, f) ==
  IF Pending(e) \/ ~e.up THEN f ELSE [f EXCEPT !.pipe = @ + 1]

\* The reasons become f's: whoever takes the last one reads from the pipe, and
\* blocks for ever if it is empty.
Settle(f) == IF Pending(f) THEN f ELSE [f EXCEPT !.pipe = @ - 1]

Modified(e) == Raise(e, [e EXCEPT !.modified = TRUE])

\* usbi_hotplug_notification, from usbi_connect_device and
\* usbi_disconnect_device: only once the list of messages exists.
Notified(e, left, slot) ==
  IF ~e.ready THEN e
  ELSE Raise(e, [e EXCEPT
                   !.messages = Append(@, [left |-> left, slot |-> slot]),
                   !.deaf = @ \/ ~e.up])

-----------------------------------------------------------------------------
Init ==
  /\ plugged \in Addresses \cup {0}
  /\ changes = MaxChanges
  /\ uevents = <<>> /\ socket = "closed" /\ monitor = "none"
  /\ told = FALSE
  /\ initLock = None /\ startStop = None /\ hotplug = None
  /\ initCount = 0 /\ active = {} /\ work = NoWork
  /\ pc = [c \in Contexts |-> "idle"]
  /\ dev = [c \in Contexts |-> [s \in Slots |-> NoDevice]]
  /\ event = [c \in Contexts |->
                [ready |-> FALSE, up |-> FALSE, pipe |-> 0, closing |-> FALSE,
                 modified |-> FALSE, messages |-> <<>>, deaf |-> FALSE]]
  /\ found = [c \in Contexts |-> {}]
  /\ handle = [c \in Contexts |-> 0]
  /\ polled = {} /\ dead = {} /\ leaked = {}

Said(left, address) ==
  uevents' = IF socket = "open"
             THEN Append(uevents, [left |-> left, address |-> address])
             ELSE uevents

Plug ==
  /\ plugged = 0 /\ changes > 0
  /\ changes' = changes - 1
  /\ plugged' \in Addresses
  /\ Said(FALSE, plugged')
  /\ UNCHANGED <<socket, monitor, told, lockVars, globalVars, pc,
                 dev, event, handleVars>>

Unplug ==
  /\ plugged # 0 /\ changes > 0
  /\ changes' = changes - 1
  /\ plugged' = 0
  /\ Said(TRUE, plugged)
  /\ dead' = dead \cup {c \in Contexts : pc[c] # "idle"}
  /\ UNCHANGED <<socket, monitor, told, lockVars, globalVars, pc,
                 dev, event, found, handle, polled, leaked>>

-----------------------------------------------------------------------------
(* Messages of the kernel, under linux_hotplug_lock.                        *)

Goto(c, from, to) == pc[c] = from /\ pc' = [pc EXCEPT ![c] = to]

AllTold == work.locked /\ work.todo = {} /\ work.at = None

\* linux_netlink_read_message, up to the list of contexts.
ReadMessage ==
  /\ work = NoWork \/ AllTold
  /\ uevents # <<>>
  /\ work' = [NoWork EXCEPT !.left = Head(uevents).left,
                            !.address = Head(uevents).address]
  /\ uevents' = Tail(uevents)

MonitorWakes ==
  /\ monitor = "poll" /\ ~told /\ uevents # <<>>
  /\ monitor' = "locking"
  /\ UNCHANGED <<kernelVars, uevents, socket, told, lockVars,
                 globalVars, pc, dev, event, handleVars>>

\* (variant) The socket blocks.
MonitorReadsBlocking ==
  /\ monitor = "locking" /\ hotplug = None
  /\ monitor' = "reading"
  /\ hotplug' = Monitor
  /\ ReadMessage
  /\ UNCHANGED <<kernelVars, socket, told, initLock, startStop,
                 initCount, active, pc, dev, event, handleVars>>

\* Somebody who opens a device may have read the message meanwhile.
MonitorReads ==
  /\ monitor = "locking" /\ hotplug = None
  /\ IF uevents = <<>>
     THEN /\ monitor' = "poll"
          /\ UNCHANGED <<uevents, hotplug, work>>
     ELSE /\ monitor' = "reading"
          /\ hotplug' = Monitor
          /\ ReadMessage
  /\ UNCHANGED <<kernelVars, socket, told, initLock, startStop,
                 initCount, active, pc, dev, event, handleVars>>

\* (variant) Only contexts that have their pipe are told.
LockContextsUp ==
  /\ hotplug # None /\ work # NoWork /\ ~work.locked
  /\ work' = [work EXCEPT !.locked = TRUE,
                          !.todo = {c \in active : event[c].up}]
  /\ UNCHANGED <<kernelVars, monitorVars, lockVars, initCount, active, pc, dev,
                 event, handleVars>>

\* Whoever has a message takes active_contexts_lock.
LockContexts ==
  /\ hotplug # None /\ work # NoWork /\ ~work.locked
  /\ work' = [work EXCEPT !.locked = TRUE, !.todo = active]
  /\ UNCHANGED <<kernelVars, monitorVars, lockVars, initCount, active, pc, dev,
                 event, handleVars>>

\* linux_enumerate_device
Enumerate(c) ==
  /\ ~work.left /\ c \in work.todo
  /\ IF Here(c, work.address) # {} \/ plugged # work.address
     THEN UNCHANGED <<dev, event>>
     ELSE \E s \in Free(c) :
            /\ \A r \in Free(c) : s <= r
            /\ dev' = [dev EXCEPT ![c][s] = NewDevice(c, work.address)]
            /\ event' = [event EXCEPT ![c] = Notified(@, FALSE, s)]
  /\ work' = [work EXCEPT !.todo = @ \ {c}]
  /\ UNCHANGED <<kernelVars, monitorVars, lockVars, initCount, active, pc,
                 handleVars>>

\* usbi_get_device_by_session_id
Find(c) ==
  /\ work.left /\ c \in work.todo /\ work.at = None
  /\ IF Here(c, work.address) = {}
     THEN /\ work' = [work EXCEPT !.todo = @ \ {c}]
          /\ UNCHANGED dev
     ELSE \E s \in Here(c, work.address) :
            /\ work' = [work EXCEPT !.todo = @ \ {c}, !.at = c, !.slot = s]
            /\ dev' = [dev EXCEPT ![c] = Ref(@, {s})]
  /\ UNCHANGED <<kernelVars, monitorVars, lockVars, initCount, active, pc,
                 event, handleVars>>

\* usbi_disconnect_device: the message inherits the list's reference, if it can
\* be sent.
Disconnect(c) ==
  LET s == work.slot
  IN /\ work.at = c /\ dev[c][s].listed
     /\ dev' = [dev EXCEPT ![c][s].listed = FALSE, ![c][s].attached = FALSE,
                           ![c][s].orphan = ~event[c].ready]
     /\ event' = [event EXCEPT ![c] = Notified(@, TRUE, s)]
     /\ UNCHANGED <<kernelVars, monitorVars, lockVars, globalVars, pc,
                    handleVars>>

\* linux_device_disconnected goes on to the next context.
Drop(c) ==
  /\ work.at = c /\ ~dev[c][work.slot].listed
  /\ dev' = [dev EXCEPT ![c] = Unref(@, {work.slot})]
  /\ work' = [work EXCEPT !.at = None, !.slot = 0]
  /\ UNCHANGED <<kernelVars, monitorVars, lockVars, initCount, active, pc,
                 event, handleVars>>

MonitorDone ==
  /\ monitor = "reading" /\ AllTold
  /\ monitor' = "poll"
  /\ work' = NoWork
  /\ hotplug' = None
  /\ UNCHANGED <<kernelVars, uevents, socket, told, initLock,
                 startStop, initCount, active, pc, dev, event, handleVars>>

\* The thread finds the byte in its control pipe.
MonitorEnds ==
  /\ monitor = "poll" /\ told
  /\ monitor' = "ended"
  /\ UNCHANGED <<kernelVars, uevents, socket, told, lockVars,
                 globalVars, pc, dev, event, handleVars>>

\* A signal ends the thread: it polls while poll fails not.
MonitorInterrupted ==
  /\ monitor = "poll"
  /\ monitor' = "ended"
  /\ UNCHANGED <<kernelVars, uevents, socket, told, lockVars,
                 globalVars, pc, dev, event, handleVars>>

-----------------------------------------------------------------------------
(* rtlsdr_open2: the context.                                               *)

\* libusb_init2 holds default_context_lock to its end.  Android has opened the
\* descriptor.
InitContext(c) ==
  /\ Goto(c, "idle", "start")
  /\ initLock = None /\ ~work.locked
  /\ initLock' = c
  /\ active' = active \cup {c}
  /\ dead' = IF plugged = 0 THEN dead \cup {c} ELSE dead
  /\ UNCHANGED <<kernelVars, monitorVars, startStop, hotplug, initCount, work,
                 dev, event, found, handle, polled, leaked>>

\* op_init2 finds no usbfs, or cannot tell the kernel's version.
InitFails(c) ==
  /\ Goto(c, "start", "undo")
  /\ UNCHANGED <<kernelVars, monitorVars, lockVars, globalVars, dev, event,
                 handleVars>>

\* op_init2.  linux_netlink_start_event_monitor may fail before the socket is
\* bound, or later, when it closes the socket and keeps its number; the result
\* is lost in a variable of an inner block.
StartMonitor(c) ==
  /\ Goto(c, "start", "scan")
  /\ startStop = None
  /\ startStop' = c
  /\ IF initCount = 0
     THEN /\ socket' \in {"open", "closed", "stale"}
          /\ monitor' = IF socket' = "open" THEN "poll" ELSE "none"
     ELSE UNCHANGED <<socket, monitor>>
  /\ UNCHANGED <<kernelVars, uevents, told, initLock, hotplug,
                 globalVars, dev, event, handleVars>>

Scanned(c) ==
  IF plugged = 0 \/ Here(c, plugged) # {} THEN UNCHANGED dev
  ELSE \E s \in Free(c) :
         /\ \A r \in Free(c) : s <= r
         /\ dev' = [dev EXCEPT ![c][s] = NewDevice(c, plugged)]

\* linux_scan_devices
Scan(c) ==
  /\ Goto(c, "scan", "lists")
  /\ hotplug = None
  /\ Scanned(c)
  /\ initCount' = initCount + 1
  /\ startStop' = None
  /\ UNCHANGED <<kernelVars, monitorVars, initLock, hotplug, active, work,
                 event, handleVars>>

\* (variant) The monitor is left running.
ScanFailsOnly(c) ==
  /\ Goto(c, "scan", "undo")
  /\ hotplug = None
  /\ UNCHANGED dev \/ Scanned(c)
  /\ startStop' = None
  /\ UNCHANGED <<kernelVars, monitorVars, initLock, hotplug, globalVars, event,
                 handleVars>>

\* (variant) The lock stays locked when the scan fails and other contexts are left.
ScanFailsLocked(c) ==
  /\ Goto(c, "scan", IF initCount = 0 THEN "unstart" ELSE "undo")
  /\ hotplug = None
  /\ UNCHANGED dev \/ Scanned(c)
  /\ UNCHANGED <<kernelVars, monitorVars, lockVars, globalVars, event, handleVars>>

\* It may fail for another device, or because it finds none.
ScanFails(c) ==
  /\ Goto(c, "scan", IF initCount = 0 THEN "unstart" ELSE "undo")
  /\ hotplug = None
  /\ UNCHANGED dev \/ Scanned(c)
  /\ startStop' = IF initCount = 0 THEN c ELSE None
  /\ UNCHANGED <<kernelVars, monitorVars, initLock, hotplug, globalVars, event,
                 handleVars>>

\* libusb_init2, err_free_ctx.
Undo(c) ==
  /\ Goto(c, "undo", "ended")
  /\ ~work.locked
  /\ active' = active \ {c}
  /\ dev' = [dev EXCEPT ![c] = Unlisted(c)]
  /\ initLock' = None
  /\ UNCHANGED <<kernelVars, monitorVars, startStop, hotplug, initCount, work,
                 event, handleVars>>

\* usbi_io_init initialises the lists first.
InitLists(c) ==
  /\ Goto(c, "lists", "pipe")
  /\ event' = [event EXCEPT ![c].ready = TRUE]
  /\ UNCHANGED <<kernelVars, monitorVars, lockVars, globalVars, dev,
                 handleVars>>

InitPipe(c) ==
  /\ Goto(c, "pipe", "poll")
  /\ event' = [event EXCEPT ![c] = Modified([@ EXCEPT !.up = TRUE])]
  /\ initLock' = None
  /\ UNCHANGED <<kernelVars, monitorVars, startStop, hotplug, globalVars, dev,
                 handleVars>>

\* libusb_init2, err_backend_exit: without a pipe.
InitPipeFails(c) ==
  /\ Goto(c, "pipe", "stop")
  /\ UNCHANGED <<kernelVars, monitorVars, lockVars, globalVars, dev, event,
                 handleVars>>

-----------------------------------------------------------------------------
(* rtlsdr_open2: the device.                                                *)

\* linux_netlink_hotplug_poll
HotplugPoll(c) ==
  /\ Goto(c, "poll", "polling")
  /\ hotplug = None
  /\ hotplug' = c
  /\ UNCHANGED <<kernelVars, monitorVars, initLock, startStop, globalVars, dev,
                 event, handleVars>>

PollReads(c) ==
  /\ pc[c] = "polling"
  /\ ReadMessage
  /\ UNCHANGED <<kernelVars, socket, monitor, told, lockVars,
                 initCount, active, pc, dev, event, handleVars>>

\* The socket is empty, or has a message that USB has nothing to do with.
PollEnds(c) ==
  /\ Goto(c, "polling", "list")
  /\ work = NoWork \/ AllTold
  /\ work' = NoWork
  /\ hotplug' = None
  /\ UNCHANGED <<kernelVars, monitorVars, initLock, startStop, initCount,
                 active, dev, event, handleVars>>

\* libusb_get_device_list
GetList(c) ==
  /\ Goto(c, "list", "open")
  /\ found' = [found EXCEPT ![c] = Listed(c)]
  /\ dev' = [dev EXCEPT ![c] = Ref(@, Listed(c))]
  /\ UNCHANGED <<kernelVars, monitorVars, lockVars, globalVars, event, handle,
                 polled, dead, leaked>>

\* No dongle has the index that was asked for: the list is not freed.
NotFound(c) ==
  /\ Goto(c, "open", "exit")
  /\ leaked' = IF found[c] = {} THEN leaked ELSE leaked \cup {c}
  /\ UNCHANGED <<kernelVars, monitorVars, lockVars, globalVars, dev, event,
                 found, handle, polled, dead>>

\* libusb_open2, with the descriptor that Android gave.
OpenDevice(c) ==
  /\ Goto(c, "open", "opened")
  /\ \E s \in found[c] :
       /\ dev[c][s].attached
       /\ handle' = [handle EXCEPT ![c] = s]
       /\ dev' = [dev EXCEPT ![c] = Ref(@, {s})]
  /\ polled' = polled \cup {c}
  /\ event' = [event EXCEPT ![c] = Modified(@)]
  /\ UNCHANGED <<kernelVars, monitorVars, lockVars, globalVars, found, dead,
                 leaked>>

\* The device has gone, or the descriptor is none.
OpenFails(c) ==
  /\ Goto(c, "open", "refused")
  /\ found[c] # {}
  /\ UNCHANGED <<kernelVars, monitorVars, lockVars, globalVars, dev, event,
                 handleVars>>

FreeList(c) ==
  /\ \/ Goto(c, "opened", "claim")
     \/ Goto(c, "refused", "exit")
  /\ found' = [found EXCEPT ![c] = {}]
  /\ dev' = [dev EXCEPT ![c] = Unref(@, found[c])]
  /\ UNCHANGED <<kernelVars, monitorVars, lockVars, globalVars, event, handle,
                 polled, dead, leaked>>

Claim(c) ==
  /\ Goto(c, "claim", "stream")
  /\ c \notin dead
  /\ UNCHANGED <<kernelVars, monitorVars, lockVars, globalVars, dev, event,
                 handleVars>>

\* rtlsdr_open2 leaves the context, and forgets the handle.
ClaimFails(c) ==
  /\ Goto(c, "claim", "exit")
  /\ leaked' = leaked \cup {c}
  /\ UNCHANGED <<kernelVars, monitorVars, lockVars, globalVars, dev, event,
                 found, handle, polled, dead>>

-----------------------------------------------------------------------------
(* Events of a context, handled while it streams, and once more when it is  *)
(* left.                                                                    *)

HandlesEvents(c) == pc[c] \in {"stream", "flush"}

\* handle_events takes the new set of descriptors.
TakePollfds(c) ==
  /\ HandlesEvents(c) /\ event[c].modified
  /\ event' = [event EXCEPT ![c] = Settle([@ EXCEPT !.modified = FALSE])]
  /\ UNCHANGED <<kernelVars, monitorVars, lockVars, globalVars, pc, dev,
                 handleVars>>

\* handle_events finds the pipe readable.
TakeMessage(c) ==
  LET e == event[c]
      m == Head(e.messages)
      f == [e EXCEPT !.messages = Tail(@)]
  IN /\ HandlesEvents(c) /\ e.pipe > 0 /\ e.messages # <<>>
     /\ event' = [event EXCEPT ![c] = Settle(f)]
     /\ dev' = IF m.left THEN [dev EXCEPT ![c] = Unref(@, {m.slot})] ELSE dev
     /\ UNCHANGED <<kernelVars, monitorVars, lockVars, globalVars, pc,
                    handleVars>>

\* op_handle_events, POLLERR.
NoticeLoss(c) ==
  /\ Goto(c, "stream", "lost")
  /\ c \in dead /\ c \in polled
  /\ polled' = polled \ {c}
  /\ event' = [event EXCEPT ![c] = Modified(@)]
  /\ UNCHANGED <<kernelVars, monitorVars, lockVars, globalVars, dev, found,
                 handle, dead, leaked>>

\* The monitor may not have told of the loss yet.
TellLoss(c) ==
  LET d == dev[c][handle[c]]
  IN /\ pc[c] = "lost" /\ hotplug = None
     /\ IF d.attached
        THEN /\ hotplug' = c
             /\ work' = [NoWork EXCEPT !.left = TRUE, !.address = d.address]
             /\ pc' = [pc EXCEPT ![c] = "telling"]
        ELSE /\ pc' = [pc EXCEPT ![c] = "stream"]
             /\ UNCHANGED <<hotplug, work>>
     /\ UNCHANGED <<kernelVars, monitorVars, initLock, startStop, initCount,
                    active, dev, event, handleVars>>

LossTold(c) ==
  /\ Goto(c, "telling", "stream")
  /\ AllTold
  /\ work' = NoWork
  /\ hotplug' = None
  /\ UNCHANGED <<kernelVars, monitorVars, initLock, startStop, initCount,
                 active, dev, event, handleVars>>

-----------------------------------------------------------------------------
(* rtlsdr_close.                                                            *)

\* libusb_close interrupts whoever polls.
CloseBegins(c) ==
  /\ Goto(c, "stream", "close")
  /\ event' = [event EXCEPT ![c] = Raise(@, [@ EXCEPT !.closing = TRUE])]
  /\ UNCHANGED <<kernelVars, monitorVars, lockVars, globalVars, dev,
                 handleVars>>

\* do_close, with the events lock, which keeps the poll out to the end.
CloseEnds(c) ==
  LET e == IF c \in polled THEN Modified(event[c]) ELSE event[c]
  IN /\ Goto(c, "close", "exit")
     /\ event' = [event EXCEPT ![c] = Settle([e EXCEPT !.closing = FALSE])]
     /\ polled' = polled \ {c}
     /\ dev' = [dev EXCEPT ![c] = Unref(@, {handle[c]})]
     /\ handle' = [handle EXCEPT ![c] = 0]
     /\ UNCHANGED <<kernelVars, monitorVars, lockVars, globalVars, found, dead,
                    leaked>>

\* libusb_exit: messages are handled once more, unless a handle was forgotten.
Exit(c) ==
  /\ Goto(c, "exit", IF handle[c] = 0 THEN "flush" ELSE "unlist")
  /\ initLock = None /\ ~work.locked
  /\ active' = active \ {c}
  /\ UNCHANGED <<kernelVars, monitorVars, lockVars, initCount, work, dev,
                 event, handleVars>>

\* (variant) libusb_exit handles no more messages.
FlushedNot(c) ==
  /\ Goto(c, "flush", "unlist")
  /\ UNCHANGED <<kernelVars, monitorVars, lockVars, globalVars, dev, event,
                 handleVars>>

Flushed(c) ==
  /\ Goto(c, "flush", "unlist")
  /\ ~event[c].modified
  /\ event[c].pipe = 0
  /\ UNCHANGED <<kernelVars, monitorVars, lockVars, globalVars, dev, event,
                 handleVars>>

\* The devices are unlisted and the pipe is closed.
Unlist(c) ==
  /\ Goto(c, "unlist", "stop")
  /\ dev' = [dev EXCEPT ![c] = Unlisted(c)]
  /\ event' = [event EXCEPT ![c].up = FALSE]
  /\ UNCHANGED <<kernelVars, monitorVars, lockVars, globalVars, handleVars>>

\* op_exit is also called when libusb_init2 fails.
Stopped(c) == IF initLock = c THEN "undo" ELSE "ended"

OpExit(c) ==
  /\ Goto(c, "stop", IF initCount = 1 THEN "unstart" ELSE Stopped(c))
  /\ startStop = None
  /\ initCount' = initCount - 1
  /\ startStop' = IF initCount = 1 THEN c ELSE None
  /\ UNCHANGED <<kernelVars, monitorVars, initLock, hotplug, active, work, dev,
                 event, handleVars>>

\* linux_netlink_stop_event_monitor, which op_init2 calls as well.
StopMonitor(c) ==
  /\ pc[c] = "unstart" /\ socket # "closed" /\ ~told
  /\ told' = TRUE
  /\ UNCHANGED <<kernelVars, uevents, socket, monitor, lockVars,
                 globalVars, pc, dev, event, handleVars>>

\* With a stale number of a socket, a thread is joined that was not created.
JoinMonitor(c) ==
  /\ Goto(c, "unstart", Stopped(c))
  /\ socket = "closed" \/ (told /\ monitor \in {"none", "ended"})
  /\ told' = FALSE
  /\ monitor' = "none" /\ socket' = "closed" /\ uevents' = <<>>
  /\ startStop' = None
  /\ UNCHANGED <<kernelVars, initLock, hotplug, globalVars, dev, event,
                 handleVars>>

Ended == /\ \A c \in Contexts : pc[c] = "ended"
         /\ UNCHANGED vars

-----------------------------------------------------------------------------
MonitorStep ==
  MonitorWakes \/ MonitorReads \/ MonitorDone \/ MonitorEnds

Handling ==
  \/ LockContexts
  \/ \E c \in Contexts : Enumerate(c) \/ Find(c) \/ Disconnect(c) \/ Drop(c)

\* What a session does once it was started.
Running(c) ==
  \/ StartMonitor(c) \/ InitFails(c) \/ Scan(c) \/ ScanFails(c) \/ Undo(c)
  \/ InitLists(c) \/ InitPipe(c) \/ InitPipeFails(c) \/ HotplugPoll(c)
  \/ PollReads(c) \/ PollEnds(c) \/ GetList(c) \/ NotFound(c)
  \/ OpenDevice(c) \/ OpenFails(c) \/ FreeList(c) \/ Claim(c) \/ ClaimFails(c)
  \/ TakePollfds(c) \/ TakeMessage(c) \/ TellLoss(c) \/ LossTold(c)
  \/ CloseEnds(c) \/ Exit(c) \/ Flushed(c) \/ Unlist(c)
  \/ OpExit(c) \/ StopMonitor(c) \/ JoinMonitor(c)

SessionStep(c) ==
  InitContext(c) \/ Running(c) \/ NoticeLoss(c) \/ CloseBegins(c)

Next ==
  \/ Plug \/ Unplug \/ MonitorStep \/ MonitorInterrupted \/ Handling \/ Ended
  \/ \E c \in Contexts : SessionStep(c)

Spec == Init /\ [][Next]_vars

\* Some thread goes on while one can; nobody has to start or to end a session.
\* (Every thread's work is finite, so each of them gets its turn.)
Fairness == WF_vars(MonitorStep \/ Handling \/ \E c \in Contexts : Running(c))

FairSpec == Spec /\ Fairness

-----------------------------------------------------------------------------
(* Properties.                                                              *)

Threads == Contexts \cup {Monitor, None}

Positions ==
  {"idle", "start", "scan", "lists", "pipe", "poll", "polling", "list", "open",
   "opened", "refused", "claim", "stream", "lost", "telling", "close", "exit",
   "flush", "unlist", "stop", "unstart", "undo", "ended"}

Uevents == [left : BOOLEAN, address : Addresses]

Messages == [left : BOOLEAN, slot : Slots]

Devices ==
  [address : Addresses \cup {0}, refs : Nat, listed : BOOLEAN,
   attached : BOOLEAN, orphan : BOOLEAN, early : BOOLEAN]

Reasons ==
  [ready : BOOLEAN, up : BOOLEAN, pipe : Nat, closing : BOOLEAN,
   modified : BOOLEAN, deaf : BOOLEAN, messages : Seq(Messages)]

Works ==
  [locked : BOOLEAN, left : BOOLEAN, address : Addresses \cup {0},
   todo : SUBSET Contexts, at : Contexts \cup {None}, slot : Slots \cup {0}]

\* The type of every variable.
TypeOK ==
  /\ plugged \in Addresses \cup {0} /\ changes \in 0 .. MaxChanges
  /\ uevents \in Seq(Uevents)
  /\ socket \in {"closed", "open", "stale"}
  /\ monitor \in {"none", "poll", "locking", "reading", "ended"}
  /\ told \in BOOLEAN
  /\ initLock \in Contexts \cup {None} /\ startStop \in Contexts \cup {None}
  /\ hotplug \in Threads
  /\ initCount \in 0 .. Cardinality(Contexts)
  /\ active \subseteq Contexts
  /\ work \in Works
  /\ pc \in [Contexts -> Positions]
  /\ dev \in [Contexts -> [Slots -> Devices]]
  /\ event \in [Contexts -> Reasons]
  /\ found \in [Contexts -> SUBSET Slots]
  /\ handle \in [Contexts -> Slots \cup {0}]
  /\ polled \subseteq Contexts /\ dead \subseteq Contexts
  /\ leaked \subseteq Contexts

If(condition) == IF condition THEN 1 ELSE 0

Farewells(c, s) ==
  {n \in DOMAIN event[c].messages :
     event[c].messages[n].left /\ event[c].messages[n].slot = s}

References(c, s) ==
  If(dev[c][s].listed) + Cardinality(Farewells(c, s)) + If(s \in found[c])
  + If(handle[c] = s) + If(work.at = c /\ work.slot = s)
  + If(dev[c][s].orphan)

\* A device lives exactly as long as something refers to it: the list of its
\* context, the message that it has left (which inherits the list's
\* reference), a list that libusb_get_device_list returned, the open handle, or
\* whoever tells the contexts of its loss; and for ever, if it left before its
\* context could send messages.  The messages that may still be taken name
\* devices that live, though a message of an arrival holds no reference.  A
\* session that has ended has freed its devices but for those, unless it took an
\* error path of rtlsdr_open2 that forgets the list or the handle, or its
\* context got a message before its pipe was made.
RefsAreHeld ==
  \A c \in Contexts :
    /\ \A s \in Slots : dev[c][s].refs = References(c, s)
    /\ pc[c] \notin {"stop", "unstart", "undo", "ended"} =>
         \A n \in DOMAIN event[c].messages :
           dev[c][event[c].messages[n].slot].refs > 0
    /\ pc[c] = "ended" /\ c \notin leaked /\ ~event[c].deaf =>
         \A s \in Slots : dev[c][s].refs = If(dev[c][s].orphan)

\* The pipe holds one byte while there is a reason to interrupt the poll, and
\* none otherwise, so nobody reads it in vain: whoever gives or takes a reason
\* looks at the others under event_data_lock.  A context that got a message
\* between the making of its lists and of its pipe keeps that message and never
\* hears of any other.
PipeTellsPending ==
  \A c \in Contexts :
    event[c].up =>
      IF event[c].deaf
      THEN event[c].pipe = 0 /\ event[c].messages # <<>>
      ELSE event[c].pipe = If(Pending(event[c]))

\* The monitor runs while a context needs it and only then, unless its start
\* failed or a signal ended it, though contexts come and go and may fail to be
\* made while others are left.
MonitorIsWanted ==
  /\ startStop = None =>
       IF initCount = 0
       THEN monitor = "none" /\ socket = "closed" /\ uevents = <<>> /\ ~told
       ELSE monitor = "none" <=> socket # "open"
  /\ initCount = Cardinality({c \in Contexts :
       pc[c] \notin {"idle", "start", "scan", "unstart", "undo", "ended"}})

\* Once the monitor has told of everything that it heard, every context that is
\* in use and has been scanned lists the dongle if there is one, and nothing
\* else: the scan and the messages overlap, the kernel may give an address
\* again, and the thread that handles events tells of a loss as well.  But a
\* context is told of a dongle as soon as it exists, by a monitor that may be
\* about to stop for the context before it: the loss of that dongle is missed
\* if it comes before the next monitor starts, for the scan removes nothing.
CaughtUp ==
  monitor = "poll" /\ uevents = <<>> /\ hotplug = None =>
    \A c \in active :
      pc[c] \notin {"start", "scan", "unstart", "undo"} =>
        /\ plugged # 0 => Here(c, plugged) # {}
        /\ \A s \in Listed(c) :
             dev[c][s].early \/ dev[c][s].address = plugged

\* In a call, and not for the user or the dongle to go on.
InCall(c) == pc[c] \notin {"idle", "stream", "ended"}

\* The session waits for a lock, for whoever handles its messages, for the monitor
\* to end, or at a pipe that holds a byte and has no reason for it.
Awaits(c) ==
  \/ pc[c] \in {"start", "stop"} /\ startStop # None
  \/ pc[c] \in {"scan", "poll", "lost"} /\ hotplug # None
  \/ pc[c] \in {"undo", "exit"} /\ work.locked
  \/ pc[c] = "exit" /\ initLock # None
  \/ pc[c] = "polling" /\ work # NoWork /\ ~AllTold
  \/ pc[c] = "telling" /\ ~AllTold
  \/ pc[c] = "unstart" /\ socket # "closed" /\ told
       /\ monitor \notin {"none", "ended"}
  \/ pc[c] = "flush" /\ event[c].pipe > 0 /\ event[c].messages = <<>>
       /\ ~event[c].modified

\* The monitor has something to do, and its lock.
MonitorGoesOn ==
  \/ monitor = "poll" /\ (told \/ uevents # <<>>)
  \/ monitor = "locking" /\ hotplug = None
  \/ monitor = "reading" /\ AllTold

\* Somebody has a message in hand, and contexts to tell of it.
MessageGoesOn == hotplug # None /\ work # NoWork /\ ~AllTold

\* Three locks, the joining of the monitor and the byte in the pipe never make
\* everybody wait: while a session is in a call somebody can go on, a session,
\* the monitor, or whoever tells the contexts of a message, whatever failed.
SomebodyGoesOn ==
  (\E c \in Contexts : InCall(c)) =>
    \/ MonitorGoesOn \/ MessageGoesOn
    \/ \E c \in Contexts : InCall(c) /\ ~Awaits(c)

\* Whatever comes and goes meanwhile, the opening of a session's device ends,
\* one way or the other, and so does its closing: again and again no session is
\* in between, although they wait for three locks, for the monitor to end and
\* for the pipe to be empty.
CallsReturn == []<>(\A c \in Contexts : pc[c] \in {"idle", "stream", "ended"})
=============================================================================
