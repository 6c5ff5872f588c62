# Rtl_Ais_Android: specification and verification

This directory holds TLA+ models of the AIS receiver of this repository, the
TLC configurations that check them on small instances, and proofs checked by
TLAPS. Paths are relative to `src/app/src/main/`; `J` stands for `jni/`, `A` for
`java/com/wordpress/ebc81/rtl_ais_android/`.

Run a check with `tlc -config <file>.cfg <Module>`, a proof with
`tlapm <Module>.tla`. `PROJECT.json` lists every run, the source lines each
definition stands for, and for every property a *variant* of a definition that
breaks it. A definition whose comment begins with "(variant)" is never part of a
specification: it is what a plausible mistake would make of the definition that
follows it.

## 1. The system

An Android application receives AIS with an RTL2832U dongle. Java asks for the
USB permission, opens the device and passes a file descriptor to C code that runs
inside the application's process: `rtl_ais_main`, librtlsdr, libusb with its
usbfs backend, and a demodulator and decoder. Messages leave by UDP; a client
may send commands over TCP.

| component | state | operations | where |
|---|---|---|---|
| asynchronous reader | `async_status`, `async_cancel`, `dev_lost`, `xfer_errors`, the transfers | `rtlsdr_read_async`, the transfer callback, `rtlsdr_cancel_async`, `rtlsdr_close` | `J/rtl-sdr/src/librtlsdr.c` |
| session | `do_exit`, `dev`, `is_running`, threads, `ready`, `ready_m` | `rtl_ais_main`, `rtl_ais_close`, `sighandler`, `command_worker` | `J/rtl_ais_andro.c` |
| sample handoff, demodulator | `both.buf`, `both.rw`, `ready` | `rtlsdr_callback`, `demod_thread_fn` | `J/rtl_ais_andro.c` |
| session launcher | static `exitcode`, `exitcode_set`, threads | `RtlAisJava.start`, `stop`, `onclose`; `BinaryRunnerService.start`, `stop`, `onDestroy` | `A/core/RtlAisJava.java`, `A/tools/BinaryRunnerService.java`, `J/RtlAisJava.c` |
| usbfs backend | the URBs of a transfer, `num_retired`, `reap_action`, `reap_status` | submit, discard, reap | `J/libusb-andro/libusb/os/linux_usbfs.c` |
| libusb events | `events_lock`, `event_waiters_lock`, `flying_transfers`, transfer flags | submit, cancel, complete, wait, time out | `J/libusb-andro/libusb/io.c`, `sync.c` |
| registry (libusb core, hot plug) | `active_contexts_list`, `usb_devs` with reference counts, `event_pipe` and its reasons, `init_count`, the netlink socket and its thread | `libusb_init`, `libusb_get_device_list`, `libusb_open2`, `libusb_close`, `libusb_exit`, arrival and loss of a device | `core.c`, `hotplug.c`, `os/linux_netlink.c`, `J/librtlsdr_andro.c` |
| device control, tuners | fields of `struct rtlsdr_dev`, what the tuner drivers remember, the registers of the chips | the `rtlsdr_set_...` functions | `librtlsdr.c`, `tuner_r82xx.c`, `tuner_e4k.c`, `tuner_fc0012.c`, `tuner_fc0013.c`, `tuner_fc2580.c` |
| signal path | rates and lengths, filter histories, averages | the computation of the rates in `rtl_ais_main`; one turn of `demod_thread_fn` | `J/rtl_ais_andro.c` |
| requests | activities, permission, the connection to the service, its listeners | `DeviceOpenActivity` from `onStart` to its answer; `BinaryRunnerService` | `A/DeviceOpenActivity.java`, `A/tools/BinaryRunnerService.java` |
| AIS decoder, NMEA output | message buffer, filter ring | `init_ais_decoder`, `run_rtlais_decoder`, `nmea_sentence_received` | `J/aisdecoder/` |

How they meet:

* **Threads.** Main is the Java thread that runs `rtl_ais_main` and, inside it,
  `rtlsdr_read_async`. The demodulator and the command worker are pthreads of the
  session. Java's `stop` calls `sighandler` on the application's main thread.
  A command of the TCP client makes synchronous control transfers on the
  worker, which then handles libusb events for everybody, and runs the
  application's sample callback.
* **Shared memory without a lock.** `async_status`, `async_cancel`, `dev_lost`,
  `do_exit`, `dev`, `is_running`, a transfer's `status`, the static exit code.
* **Hot plug.** One netlink thread serves the contexts of all sessions; it puts
  messages into their lists and a byte into their pipes. The thread that handles
  events notices the loss of a device as well, and a scan reads the socket, too.
* **Requests.** Android runs activities and the service on the main thread; a
  session's own thread tells the service's listeners, which are activities, that
  its device is open or that it ended, while the main thread changes their list.
* **Callbacks.** usbfs → `handle_events` → the transfer callback of librtlsdr
  (which submits the transfer again) → `rtlsdr_callback` → the demodulator.
* **Ends.** A stop sets `do_exit` and cancels the stream; the reader ends; Main
  joins the worker, closes the device and announces an exit code to Java, which
  reports it to the service. A loss of the dongle cancels the stream from the
  transfer callback.

What makes each part correct:

* *Reader*: the buffers handed to the application are not being filled; a
  cancelled or lost stream ends although completed transfers go on submitting
  themselves; INACTIVE means that nothing is used any more.
* *Session*: nobody who is waited for touches a closed device; whoever asks for
  the end gets it; the exit code says why the session ended.
* *Handoff*: the decoder gets whole blocks in order, and in calm weather each
  exactly once.
* *Launcher*: one native session at a time (it lives in globals), and the user
  is told each session's own exit code.
* *usbfs*: no byte lost, no URB freed in the kernel's hands, every transfer
  reported with the right status.
* *Events*: no lost wake-up, no use of a freed transfer, every synchronous call
  returns.
* *Registry*: a device lives exactly as long as something refers to it; the pipe
  holds a byte exactly while there is a reason for one; every context learns what
  the kernel says; opening and closing return.
* *Device control*: the frequency, the gain mode and the clock that the driver
  reports are those of the chip, whichever transfer failed; a failure is told.
* *Signal path*: an accepted configuration receives both channels; a cut between
  blocks costs a filter no more than a sample; the phase differences are right.
* *Requests*: each is answered; the process ends itself only for a reason.

Section 6 says what is not modelled. The 39 hazards in `PROJECT.json` are the
places where a test would hardly reach; each names the properties that watch it,
or says why none does yet.

## 2. The modules

| module | models | on top of |
|---|---|---|
| `AsyncReader` | the asynchronous reader with the transfers as libusb and usbfs see them | |
| `AsyncStream` | what the reader promises its callers, without transfers | |
| `AsyncReaderProofs` | proofs about `AsyncReader`; that it implements `AsyncStream` | |
| `AisSession` | one call of `rtl_ais_main` with its threads | `AsyncStream` |
| `AisSessionProofs` | proofs about `AisSession` | |
| `SampleHandoff` | `rtlsdr_callback` and `demod_thread_fn` | |
| `SamplePathProofs` | proofs about `SampleHandoff` and `SignalPath` | |
| `SessionLauncher` | the Java side, several sessions of one process | |
| `SessionLauncherProofs` | proofs about `SessionLauncher` | |
| `UsbfsBulk` | one bulk transfer: its URBs, kernel, event handler, canceller | |
| `UsbfsBulkProofs` | proofs about `UsbfsBulk` | |
| `EventLock` | sharing of event handling, synchronous transfers and timeouts | |
| `DeviceRegistry` | contexts, devices, hot plug, opening, closing | |
| `DeviceRegistryProofs` | proofs about `DeviceRegistry` | |
| `DeviceControl` | control calls of librtlsdr and five tuners | |
| `ControlTransferProofs` | proofs about `EventLock` and `DeviceControl` | |
| `SignalPath` | rates, filters, rotation, discriminator, resampler | |
| `DeviceOpening` | activities, permission, service and its listeners | |
| `DeviceOpeningProofs` | proofs about `DeviceOpening` | |

The modules are layers. What one layer abstracts into a step, the next refines:
`AsyncReader` takes a whole bulk transfer for one step of the kernel, which
`UsbfsBulk` opens; it lets any thread that may handle events reap, which
`EventLock` explains; `AisSession` takes the stream for `AsyncStream`, which
`AsyncReader` provably implements; `SessionLauncher` takes a session for its
flags and its exit code, and `DeviceOpening` for what it reports.
`DeviceRegistry` has the life around a session's stream, `DeviceControl` the calls
that are made during it, `SignalPath` what becomes of a block that
`SampleHandoff` handed over.

### AsyncReader and AsyncStream

A transfer is seen from three sides whose disagreement is the interesting part:
`kern[t]` (what usbfs holds), `inFlight[t]` and `cancelling[t]` (libusb's
flags), `xstatus[t]` (`transfer->status`, the only field the cancel scan of
`rtlsdr_read_async` reads). `rpc` walks through `rtlsdr_read_async` and
`rtlsdr_close`: `submit`, `loop` (the event call), `check`, `scan`, `cancelled`
(the event call with a zero timeout between cancellations), `drain`, `free`,
`publish` and so on. `cpc[p]` is any thread's position in
`rtlsdr_cancel_async`, whose test and two writes are separate steps, since no
lock protects them. `evOwner` is the thread that holds the events lock, `inCb`
the transfer whose callback runs.

A `Helper` is a thread whose control transfer makes it handle events. Outcomes of
an URB are COMPLETED, ERROR, STALL (standing for OVERFLOW too), CANCELLED and
NO_DEVICE. `Unplug` removes the dongle at any moment.

`AsyncStream` keeps `status`, `reading`, `saw` (threads between the test and the
write of `rtlsdr_cancel_async`), `lost`, `trouble`, `closed`. Its actions say who
may change the status and when `rtlsdr_read_async` may return.

### AisSession

`mpc`, `wpc`, `dpc` are the positions of Main, worker and demodulator, `sig` and
`cpc` those of every thread in `sighandler` and `rtlsdr_cancel_async`, `inCb` the
thread that runs the sample callback: Main, or the worker while a command changes
the tuner and its control transfers handle everybody's events. `mode`
is "tcp", or "x" for the option that leaves the worker out. The initial states
include those an earlier session of the same process leaves behind: `do_exit` is
never reset, and `dev` still points to a freed device.

### SampleHandoff

One buffer of two halves (so that a reader in the middle of a write would be
noticed), the mutex `both.rw`, the condition `ready`, which has no predicate.
A block is its number; `cooked` counts how often it was downsampled in place.
Two history variables, `early` and `hurried`, remember a block that was taken
before its own signal, and a block that found the demodulator busy.

### SessionLauncher

`upc` is the application's main thread in `BinaryRunnerService` and
`RtlAisJava.start`; `tpc[t]` the thread of the t-th session, from its creation
through `rtl_ais_main` to `OnClosed`; `listening` says whether the service's
callback is registered. The end of the process, by `System.exit` or by the `exit(1)`
of `rtl_ais_main`, removes its threads and statics. Each test of `is_running`
(`StartFree`, `StartAgain`) and the creation of the thread that relies on it
(`StartSpawns`) are steps of their own, and a session may call `set_isrunning(1)` in
between. The history variable `blind` says that some test found the program idle
while a session was on its way there; `hasty` that a start was asked for before the
previous session had been reported.

### UsbfsBulk

The loop of `submit_bulk_transfer`, the loop of `discard_urbs` one ioctl at a
time (the kernel does not hold the transfer's lock), and
`handle_bulk_completion` with its three cases by `reap_action`. The dongle sends
the bytes 1, 2, 3, ... so that losing or swapping one shows. `continuation`
says whether the kernel supports `USBFS_URB_BULK_CONTINUATION`. The kernel's part
is external: it serves URBs in order, and gives back those that continue a
short or failed one.

### EventLock

Every thread's position in `libusb_submit_transfer`,
`sync_transfer_wait_for_completion`, `libusb_handle_events_timeout_completed`,
`handle_timeouts` and `usbi_handle_transfer_completion`; the three locks, the
condition, the flags of each control transfer. `Late` names transfers whose
timeout may expire though the dongle answers, `Refused` those the kernel may
refuse; the dongle may leave any transfer unanswered.

Two facts of the library shape the model: a timed-out transfer is marked so only
after its URB was discarded, so that another thread may reap it and report it as
cancelled (io.c:1949); and the flying list is walked with its lock held while a
refused submission holds the lock of a transfer.

### DeviceRegistry

A session is a context: `pc[c]` walks through `libusb_init` (the default context's
lock, the lists, the pipe, the monitor, the scan), `rtlsdr_open2`, the stream,
`rtlsdr_close` and `libusb_exit`, or through one of the error paths, with their
omissions. `dev[c][s]` are its devices with reference counts, `event[c]` the
reasons to interrupt its poll (`device_close`, `fd_notify`, hot-plug messages) and
the bytes in its pipe. The monitor thread has its own position, and the socket is
*stale* where the code keeps the number of a closed one. `work` is a message of the
kernel on its way through the contexts: a loss is told to one context after
the other under two locks. The dongle may come back at the same address.
`leaked`, `deaf`, `orphan` and `early` mark contexts and devices to which one of
the code's slips happened; the properties say that nothing else goes wrong:

* *leaked*: `rtlsdr_open2` returns without freeing the list of devices, or without
  closing its handle (librtlsdr_andro.c:91, :128);
* *deaf*: a message that arrives between the making of a context's lists and of
  its pipe is never signalled, and all later ones find a list that is not
  empty (io.c:1128);
* *orphan*: a dongle that leaves before its context can take messages
  keeps a reference for ever (core.c:726);
* *early*: a context is on the list of active contexts before the monitor was
  started for it, and may keep a dongle that has left (core.c:2079).

### DeviceControl

One action per function: `rtlsdr_set_sample_rate`, `..._center_freq`,
`..._freq_correction`, `..._xtal_freq`, `..._tuner_bandwidth`,
`..._tuner_gain_mode`, `..._direct_sampling`, `..._offset_tuning`. A call is a
sequence of transfers, the n-th of which, or all from the n-th on, may fail; a
register whose write failed is `Torn`, a PLL that does not lock `Unlocked`. `dev`
and `tun` are what the driver remembers, `chip` what is programmed; frequencies are
small numbers, and a clock is a crystal with a correction. The tuners differ in
what they do about failures, and the model keeps the differences: the E4000's
functions ignore failed writes, and its bandwidth is never recorded since
`e4000_set_bw` returns 2; the R82xx returns 0 when its PLL does not lock;
`r82xx_init` resets the gain registers but not `gain_mode`; the FC0012 sets a GPIO
bit before it tunes and loses the results of that and of its read of the gain;
the FC0012 and FC0013 refuse a frequency that wrapped around, the FC2580 takes it;
the FC2580 computes from a crystal of its own, which no correction reaches, and
answers failures with 1. Without a known tuner `rtlsdr_open2` switches direct
sampling on, and after it is switched off no frequency is taken. On librtlsdr's own
side, `rtlsdr_set_sample_rate` (librtlsdr.c:1193) and `rtlsdr_set_xtal_freq` hide
failures, `rtlsdr_set_freq_correction` leaves the intermediate frequency with
the old correction, and offset tuning and direct sampling overwrite each
other's intermediate frequency. `rtlsdr_set_i2c_repeater` (librtlsdr.c:577) returns
nothing: a switch of the repeater that was lost shows only if the tuner could not
be reached then (`I2c`); so every function that asks a tuner may return 0 although
closing the repeater failed (`hidden` = "repeater").

### SignalPath

The first step computes `plan`, all that `rtl_ais_main` derives from the options, or
refuses them. Then a block comes and every filter pass, droop compensation,
rotation, discriminator, average and resampling is a step. A sample is a pair,
since the code runs each filter over the even and the odd places of one array. The
arithmetic is that of the code: 16-bit results wrap, divisions truncate, and
`fast_atan2` is computed as written. `heard` is a history of what went into each
stage, from which the properties compute what an endless filter would have done.

### DeviceOpening

`life` is where Android is with an activity; `conn` the activity's connection, next
to `mBound`, what its code believes; `inbox` the answers about the permission that
its receiver is to get; `exception_listeners` the service's list, over which a
session's thread iterates (`telling`, and in `toTell` those it has still to tell)
while the main thread may change it (`torn`). The exception that follows ends the
process from `OnClosed`; `OnOpened` was called by native code, which does not look
for exceptions: there it is "pending", `rtl_ais_main` goes on, and the listeners
behind are not told, until something strikes or the session ends. `answered` are
the activities that told their caller something, if only an error that
`DeviceOpenActivity` tells and then ignores. `process` also says where the main
thread is in `RtlAisJava.start`, whose two tests, wait and creation of a thread are
steps of their own, and at last how the process ended: by `System.exit`, by
the `exit(1)` of `rtl_ais_main` for rates that do not fit, or by one of three
exceptions. The end of `rtl_ais_main` (`Ends`) and `OnClosed` (`Closes`) are apart,
and a connection in between finds a program that is not running. A user may leave,
return, be asked for the permission and never decide; the dongle may be unplugged and
plugged in. `Destroy`, delivery of answers and connections are Android's part.

## 3. The runs

Deadlock is checked in every run but `control` and `opening`, where callers and
users may simply stop asking for anything. Elsewhere, where a system may rest, the
module says so with a stutter of its own (`Closed`, `Ended`, `Exited`, `Quiet`,
`Over`).

| run | bounds | states | shows |
|---|---|---|---|
| `reader` | 2 transfers, 1 canceller, 1 helper, 1 fault | 95 000 | `CancelledStaysDown`, `BuffersHaveOneOwner`, `LossIsTold`: who owns a buffer, when a device is given up; `ImplementsStream`: the reader is an `AsyncStream`; `StreamEnds`: a cancelled or lost stream ends |
| `session` | 1 stopper, 2 faults, both modes, fresh or left-over globals | 42 000 | `NobodyUsesFreed`: device and condition outlive their users; `ExitOkMeansAsked`; `SessionEnds` for sessions asked to end or without their device |
| `handoff` | 4 blocks, 1 spurious wake-up | 35 000 | `WholeBlocksInOrder`, the causes of stale blocks, and exactly-once in calm weather; `BlockGetsDecoded` |
| `launcher` | 2 sessions | 23 000 | `OneMainUnlessBlind`: when two native sessions overlap; `ReportsOwnCode`; `EndedGetsReported` |
| `usbfs` | 3 URBs of 2 bytes, both kernels | 100 000 | `FreedUrbsAreBack`; `IsNotForgotten`: some URB is still to come; `ReportIsTrue`: bytes and statuses; `TransferEnds` |
| `events` | 2 synchronous transfers, one of them unanswered, late or refused, and the reader | 209 000 | `SleeperHasWaker`, `TimeoutsTouchNoFreed`; `SomebodyGoesOn`: the locks and the broadcast make everybody wait in one named way only; `EndedReturns` but for two named ways of getting stuck |
| `registry` | 2 contexts, 1 address, 3 devices of a context, 1 change | 171 000 | `RefsAreHeld`, `PipeTellsPending`, `MonitorIsWanted`, `CaughtUp`; `SomebodyGoesOn`: locks, monitor and pipe never make everybody wait; `CallsReturn` |
| `control` | 5 tuners and none, 2 frequencies, 1 rate, 1 bandwidth, 2 crystals (alike), 2 corrections, failures at any transfer of one call | 188 000 | `HearsWhatItSays`, `GainModeKnown`, `FailuresAreTold` |
| `signal` | 12 distances of the channels, 3 sample rates, 2 output rates, 6 signals, 2 blocks of 512 | 15 200 | `ChannelsAreReceived`; `CutsCostOneSampleAtMost`, `NothingWraps`, `TurnsAreTold`: what the decoder hears |
| `opening` | 2 requests, 1 return, 1 unplugging, 2 sessions | 2 404 000 | `EndsHaveCause`; `RequestsAreAnswered` |
| `reader_frees_active`, `reader_close_hangs` | small | | statements of the code's own comments that the code does not keep, section 5 |

`AsyncReader`, `AisSession`, `SampleHandoff` and `DeviceControl` are also checked for
their types, the other modules not: their types are part of their proofs.

Why the bounds are enough. *Reader*: the cancel scan needs a transfer before and one
after the one that moves; the helper and the canceller give three threads in one
status word; the safety properties and the refinement are proved for any number of
each. *Session*: every thread that can cancel occurs, stoppers are alike and their
count is free in the proofs; two faults let a failure happen after a failure.
*Handoff*: two blocks overwrite, a third tells old from older, a fourth follows a
stale one. *Launcher*: the shared codes and flags are disturbed by a second session;
an instance with three sessions (1.4 million states, three minutes) was checked too
and adds nothing new; its safety properties are proved for any number. *usbfs*:
`discard_urbs` treats the first, the last and the others differently, and two bytes
tell a short URB from an empty and a full one. *Events*: two sleepers and one
handler, of which one can be unlucky in every way (`Late`, `Mute`, `Refused`); with
both unanswered the run was made once (593 000 states), and the safety properties
are proved for any number. *Registry*: two contexts are the least for which one
starts the monitor while the other stops it; a change, a dongle that comes or leaves,
happens around any step; runs with two changes, so that it leaves and returns
at the same address, and with two addresses (3.6 million states) were made once; the
safety properties are proved for any number of contexts, addresses and changes.
*Control*: any transfer of a call may fail, alone or with all later ones; one of the
frequencies is below the offset of offset tuning, the other above; crystals differ
by nothing but their identity, and a correction is tried with equal crystals only
(`OneClock`); one call fails, any number of calls before and after it do not.
*Signal*: the distances lie on and beside every threshold of the computation of
the rates; a second block begins where the histories end; a block is demodulated
if 512 numbers leave at least two samples at the end (`Fits`; the rates of the
others are computed and checked all the same); the signals are silence, a weak and
two strong tones on either side, pulses at the ends of blocks and steps.
*Opening*: a second request meets a session of the first, and a user returns to a
dongle that was unplugged; the cause of every end is proved for any number of each.

The temporal properties of the session and of the events name the ways in which the
code can get stuck, so that these are the *only* ones:

* `StopMissed`: the stop came before `rtlsdr_read_async` had set RUNNING, was
  refused, and nobody is left to repeat it;
* `CloseBlocked`: a late cancellation, or a failed event call, left
  `async_status` at CANCELING and `rtlsdr_close` waits for INACTIVE;
* `AwaitsWorker`: the device is lost and Main joins a worker that waits for its
  client;
* `Spinning`: a timeout expired when the answer was there but not reaped: the
  cancellation fails, the timeout is found again and again, and no thread polls;
* `Deadlocked`: a refused submission and `handle_timeouts` take the lock of a
  transfer and that of the flying list in opposite orders.

Likewise the safety properties name their exceptions.

* *UsbfsBulk*, `DiscardedLooksLast`: after a stall without bulk continuation, or
  when the dongle disappears while a cancellation discards URBs, the last URB
  comes back first and is taken for the end of the transfer (linux_usbfs.c:2457),
  and the others are freed in the kernel's hands. `ReportIsTrue` counts an URB that
  failed with a short one, since `submit_bulk_transfer` takes the kernel's EREMOTEIO
  for "short" though the kernel answers so after a failure too.
* *SessionLauncher*, `hasty`: a user who starts again before the previous session
  was reported may be told that the process cannot be closed, or another session's
  code. `blind`: a test of `is_running` in the window between the creation of a
  session's thread and its `set_isrunning(1)` lets a second `rtl_ais_main` run beside
  the first.
* *SampleHandoff*: a stale block has one of three causes; `Calm` is the absence of
  all of them.
* *DeviceRegistry*: the four slips of section 2, and, in `MonitorIsWanted`, a
  monitor that a signal ended (linux_netlink.c:341) or whose start failed.
* *DeviceControl*: `HearsWhatItSays` excepts registers that could not be written, a
  PLL that is out of lock where the driver calls it tuned, frequencies not above the
  offset (offset tuning does not tune again), and offset tuning across direct
  sampling (`OffsetForgotten`). `GainModeKnown` excepts the R82xx being automatic
  while the driver believes it manual. `FailuresAreTold` lists who hides a
  failure, and lets everybody hide a lost switch of the repeater.
* *SignalPath*: channels more than 600 kHz or less than the sample rate apart are
  accepted and not received (a filter without passes takes the empty row of
  `cic_9_tables`); distances below 586 Hz, or 1024 times the sample rate and more, use
  histories that do not exist. `OutputTooSlow`: the rate of the channels is compared
  with that of the output after the fraction of a Hz was cut off, so that the
  resampler may get more samples than it gives ("len1 < len2",
  rtl_ais_andro.c:435); it leaves samples out then. `TooStrong` are amplitudes,
  from about 724 up, whose product overflows in `fast_atan2`.
  The cuts between blocks are not free: `fifth_order` neither uses nor keeps the
  last sample of a block (its loop stops a sample short, and the history ends where
  the loop did, rtl_ais_andro.c:297-312), so each pass is one of its samples short
  at every cut, together less than one sample of the filter's result.
  `CutsCostOneSampleAtMost` allows a pass that loss and nothing more: it holds
  of the code, which loses the sample, and would hold of a `fifth_order` that kept
  it. A rotation begins anew with every block, which makes no difference if four
  divides the length of the block.
  The width of a channel, at least that of `-s` and less than twice it, is the code's
  (the logarithm is rounded down, rtl_ais_andro.c:951); the usage text calls `-s` a
  "maximum value, might be down to 12k" (rtl_ais_andro.c:177, in a function that is
  commented out), the opposite: the default of 24k gives channels of 25 kHz.
* *DeviceOpening*: `EndsHaveCause` says what a user may be surprised by: returning
  to an activity repeats its request, which stops the session it started; and
  `mBound`, never reset, lets `onStop` unbind what is not bound. A single request to
  start is enough for `exit(1)` and for a torn list. `Skipped` are the listeners
  that an exception in `OnOpened` left without an answer while the session is open;
  when it ends they are told. `NoSessionLeft` is a bound of the model.

### Fairness

Threads run when they can (weak fairness of each thread's steps, written per
module in `Fairness`). The rest is deliberate:

* *AsyncReader*: `KeepsUp`, a handler of events is not overtaken for ever by URBs
  that finish as fast as it reaps them (a buffer takes a tenth of a second to
  fill, a callback far less). Nothing is assumed of the dongle, of stops, of
  helpers.
* *AisSession*: strong fairness of `ReadEnds`, the return of a stream that was
  cancelled or lost, which is what `CancelEnds` and `LossEnds` of `AsyncReader`
  establish. Nothing is assumed of the client, of stops, of USB.
* *SampleHandoff*: both threads run; the dongle need not send.
* *SessionLauncher*: the Java steps of a session and the last two of its native
  part; a native session need not end.
* *UsbfsBulk*: the threads inside libusb, the event handler and the kernel's
  giving back of what was discarded; the dongle need not send.
* *DeviceRegistry*: some thread goes on while any inside a call can. Nobody
  must start or end a session, and the dongle need not move.
* *DeviceOpening*: as long as something is left to do, of the connections and the
  answers that Android promised, of the steps of threads and of `System.exit`, some
  of it is done; the module bounds all of these. The user need not do anything, an
  open session need not end, and a pending exception need not strike.
* *DeviceControl* and *SignalPath* are checked for safety only.
* *EventLock*: strong fairness of each thread's steps, since a mutex that becomes
  free again and again is granted in the end; weak fairness of the timed wait, which
  ends when its timeout has expired.

## 4. The proofs

The eight modules whose names end in `Proofs` are
checked by TLAPS for every value of the constants under the assumptions stated in
the modules: at least one transfer, threads that are
different from each other, a natural number of faults, marks for a register that is
torn and an oscillator out of lock that are no settings. `ControlTransferProofs`
has both those who make control transfers, their thread and what they are for,
`SamplePathProofs` both parts of the demodulator. Each proof is by an
inductive invariant, which was first checked with TLC, and has one step
per action, grouped by what the actions touch.

* **Reader** (`ReaderInvariant`, `ReaderTypeOK`, `ReaderCancelledStaysDown`,
  `ReaderBuffersHaveOneOwner`, `ReaderLossIsTold`, `ReaderInactiveMeansFreed`). The
  properties need each other. `CancelledStaysDown` is kept by the submission in the
  callback only because a callback that submits has COMPLETED before it, by
  `CallbackOwnsBuffer`; that rests on `FlightMatchesKernel`: a transfer that was
  reaped is not in flight. `DeviceLossCancels` needs that the thread that found out
  keeps the events lock until it has cancelled. `InactiveMeansFreed` needs
  `ReaderProgress`: a transfer the submit loop has not come to is unknown to
  everybody, and the buffers exist exactly between the entry and the exit of the
  event loop. `GivenUpMeansDead`, half of `LossIsTold`, is a counting argument: the
  error count is at most the number of transfers that ended with an error, so it
  reaches the number of transfers only when all of them did.
* **The reader implements its interface** (`ReaderImplementsStream`). The mapping is
  `Stream` in `AsyncReader`: a thread at its write is in `saw`, `trouble` is a used
  fault. Two more invariants are needed: before the stream starts nobody has seen
  RUNNING (`StreamInv`), and only the holder of the events lock cancels from a
  callback (`HandlerInv`). Every action is a step of `AsyncStream` or a stutter.
* **Events** (`EventsInvariant`, `EventsTypeOK`, `EventsSleeperHasWaker`,
  `EventsTimeoutsTouchNoFreed`, `EventsSomebodyGoesOn`). `LocksHeld` ties the three locks to the positions
  of their owners; `Waking` says that the flag `event_handler_active` is set only
  while somebody who will broadcast is between taking and releasing the events lock,
  and that a thread between its test of that flag and its wait holds the lock the
  broadcast needs; `Flights` says that a transfer on the list of a thread in
  `handle_timeouts` cannot complete, because its completion needs the flying lock
  that thread holds. `SomebodyGoesOn` follows chains of waiting to their end: whoever
  owns a lock is a thread at one of a few positions (`OwnersAreThere`), the owner of
  the waiters' lock waits for nobody, that of the flying list waits in
  `handle_timeouts` for the lock of a transfer that is being submitted, and its
  submitter goes on unless it was refused and wants the flying list: the named
  deadlock. A thread that sleeps has a waker, who goes on or is in such a chain.
* **Session** (`SessionInvariant`, `SessionTypeOK`, `SessionNobodyUsesFreed`,
  `SessionExitOkMeansAsked`). `Life` ties the life of the device and of the worker
  to Main's position: calls into the library need a device (`CallsWhen`), the worker
  lives between its creation and the join (`WorkerWhen`), the stream is closed only
  from there on (`ClosedWhen`), the condition `ready` lasts until everybody who may
  signal it was waited for (`ReadyWhen`), and a worker that leaves has passed
  through `sighandler` (`AskedWhen`).
* **Launcher** (`LauncherInvariant`, `LauncherTypeOK`, `LauncherOneMainUnlessBlind`,
  `LauncherReportsOwnCode`). As long as no test was blind one thread at most is in
  or before `rtl_ais_main` (`OneAtATime`), and `is_running` is its flag
  (`RunningIsSomebody`); as long as no start was hasty one session at most has an
  end to report (`OneUnreported`), and the static code is that session's own
  (`CodesAreOwn`).
* **Handoff** (`HandoffInvariant`, `HandoffTypeOK`, `HandoffWholeBlocksInOrder`).
  The mutex is held exactly where the positions say (`LockIsHeld`); the halves agree
  while nobody is writing (`HalvesAgree`, `BufferIsCurrent`), so that what is taken
  is whole (`TakenIsWhole`) and in order (`DecodedInOrder`); a stale block has its
  cause (`StaleIsExcused`); and in calm weather what was decoded follows from what
  arrived and from the two positions (`KeepsStep`).
* **usbfs** (`BulkInvariant`, `BulkWords`, `BulkTypeOK`, `BulkFreedUrbsAreBack`,
  `BulkReportIsTrue`, `BulkIsNotForgotten`). Four layers, for any number of URBs of any length.
  1. The URBs (`IInv`). `num_retired` is the number of URBs that came back or were
     never sent (`RetiredCounts`). URBs come back in the order of their submission
     (`SubmittedInOrder`, `DoneIsListed`) and `discard_urbs` goes from the last to
     the first, so that the last comes back last (`LastEnds`), unless one of the
     two named events intervenes; then the counter reaches the end only with
     everything back.
  2. The bytes (`DataInv`). An URB receives its bytes only when those before it are
     served, and is reaped before those behind it unless it is empty
     (`DataInOrder`). So there is a function `f`, the bytes of the first URBs, that
     says where the bytes of an URB lie and where they belong (`SumsOf`,
     `Placed`), and what was reaped is always a prefix (`Prefix`), whichever of
     them `handle_bulk_completion` had to move. `f` is a witness and not a recursive
     definition, because what it sums up would need induction.
  3. The words (`WordInv`). While `reap_action` is NORMAL and `reap_status`
     COMPLETED, every URB but the last was reaped full (`ShortIsTold`) and nothing was
     discarded that a cancellation will not tell (`DiscardedIsTold`). The kernel
     gives back the rest only behind an URB that the dongle ended early, or behind
     the last (`StoppedEarly`, `LastServed`). So what finishes as COMPLETED is
     full, or was ended early by the dongle (`CompletedIsTrue`). That an error which
     comes after a cancellation is told as an error needs that a stall is the last
     thing to go wrong (`StallIsLast`, `CancelIsTold`).
  4. The converse of the first (`StillOut`). `FreedUrbsAreBack` says that the URBs are
     not freed too early, `IsNotForgotten` that they are not freed too late: the
     counter reaches the end with the last of them, and the handler then frees them,
     unless that one is full, reap_action is NORMAL and it is not URB N. That would
     need URB N to be reaped before it, and the transfer to go on; but then URB N had
     lost its device (`LastReapedIsGone`, `StallComesLast`), and what comes back
     behind such an URB has lost it too, or was stopped before it was full
     (`BehindGone`, `RestIsShort`).
* **Opening** (`OpeningInvariant`, `OpeningEndsHaveCause`). Without a return, every
  session was started for an activity that asked for it and was connected once, and
  is not connected again (`StartedForSomebody`), so that a second connection with a
  session running belongs to a second request. A connection needs a dongle with
  permission (`ConnectedByPermission`), so that an activity which takes itself for
  bound and is not has lost its dongle in between (`BoundUnlessReturned`).

* **Registry** (`RegistryInvariant`, `RegistryTypeOK`, `RegistryRefsAreHeld`,
  `RegistryPipeTellsPending`, `RegistryMonitorIsWanted`, `RegistryCaughtUp`,
  `RegistrySomebodyGoesOn`). `RegistryInv` grows from the locks outwards.
  1. Who holds which of the three locks is seen from the positions (`LocksInv`);
     hence the list of active contexts has the contexts in use (`ActiveIsInUse`),
     `init_count` is the number of the contexts between the two calls of the backend
     (`CountIsRight`), and socket and monitor come with the first of them and go with
     the last (`MonitorLife`). That is `MonitorIsWanted`.
  2. The message of the kernel that is being handled is so under
     `linux_hotplug_lock`, for contexts in use, at a named address (`WorkIsHeld`,
     `WorkIsNamed`).
  3. Reasons come once the lists of a context exist, its pipe is there between
     certain positions, and the byte in it follows the reasons (`EventLife`, which
     contains `PipeTellsPending`).
  4. What a session has found and what it holds open follow from its position
     (`Held`), and every reference is one of those that `RefsAreHeld` names
     (`RefsCounted`, `Lists`). A message that may still be taken names a listed
     device, or one whose farewell, which holds a reference, is in the same list at or
     behind it (`MessagesLive`); so that device lives.
  5. The last message of the kernel says what is there (`LastAgrees`). A context that
     has heard everything lists the dongle (`ArrivalsListed`), and a listed device
     that is not the dongle has a loss before it that will take it off the list, in
     the socket or in the hands of whoever tells of it (`LossesTold`); for the
     loss that a session notices by itself this needs that only an unplugged
     dongle is noticed so, and that its loss was said before (`LiveDevices`,
     `OwnLoss`). With nothing in the socket and nobody telling, `CaughtUp` is left.
  6. The locks are taken in one order, that of the contexts, that of the monitor's
     starts and stops, that of the messages, and who holds the last has somebody to
     tell or tells nobody and goes on (`WorkIsThere`, `HotplugMoves`, `LockedMoves`);
     who joins the monitor has told it to end, so that it goes on (`StartStopMoves`,
     `InitLockMoves`); and a byte in the pipe has a reason, by `PipeTellsPending`.
     That is `SomebodyGoesOn`. It says nothing of whether the memory for one more
     device suffices: the slots are a bound of the model.

  Contexts, addresses, devices of a context and changes are unbounded.

* **Control functions** (`ControlInvariant`, `ControlTyped`, `ControlHearsWhatItSays`,
  `ControlGainModeKnown`, `ControlFailuresAreTold`). A call turns one *world* (what
  driver and tuner remember, what the chips hold, the transfers so far) into another,
  function by function. Each function is shown by itself to advance any good world to a
  good one (`Advances`), wherever its transfers fail. `Good` says that the R82xx, which
  has an intermediate frequency instead, has no offset (`NoOffset`), that the tuner's
  driver knows the clock in force (`ClockKnown`) and the demodulator the correction
  (`Corrects`), that the intermediate frequency is the one the tuner's driver reckons
  with unless offset tuning moved it (`IfKnown`), that every clock in a chip is one
  of the crystals with a correction (`ClockIsReal`), and that the mode of the gain is
  the driver's (`ModeKnown`); each but for registers that could not be written.
  `Tuned` says that the oscillator was set for the frequency that is remembered, by the
  clock in force, and `Samples` that the demodulator has the rate. `Told` says of the
  functions below the driver that a failure is in the result, and leaves out the
  switches of the repeater, of which `SetI2cRepeater` keeps account. The invariant
  between calls is `ControlInv`, and `...Keeps` is the lemma that an action keeps it.
  Calls, failures, frequencies, rates, bandwidths, crystals and corrections are
  unbounded.

* **Signal path** (`SignalChannelsAreReceived`, `SignalDataInvariant`,
  `SignalTurnsAreTold`, `SignalCutsCostOneSampleAtMost`). Frequencies, rates, the length of a
  block, their number, and with it the number of filter passes, are free.
  1. What the recursive functions of the model compute (a filter's sum, joined
     blocks, the resampler, the average) is shown without the induction theorems
     of the library: the numbers are well ordered, so a false statement has a least
     counterexample (`LeastOf`, `UpTo`), and a function that goes on step by step has
     exactly one path (`StepByStep`, `OnlyOne`).
  2. The plan (`PlanIs`): the number of passes is a logarithm, so the rates lie
     between a bound and its double, and the resampler is never more than one step
     from its place (`Between`). That is `ChannelsAreReceived`. The proof found
     `OutputTooSlow`: without it the resampler's places could not be shown to be right.
  3. The data (`DataInv`): each block is as long as the passes to come need, each
     pass has its history, and the average stays below half a turn.
  4. The turns (`TurnsInv`): `heard` ends with the block that the discriminator took,
     and `pre` is the last sample before it, so each result is the turn between two
     neighbours, whose octant `AngleIs` computes from the code's arithmetic.
  5. The cuts (`FiltersInv`, `RotationsInv`): a pass keeps the end of the line that
     one filter over all blocks would have seen, the last sample of each block left
     out, as the code does (`PassInv`); the droop compensation leaves none out
     (`DroopInv`). This holds whatever the length of a block, even one shorter than the
     history; so what they make of the next block is what that filter makes
     (`PassGoesOn`, `DroopGoesOn`). The channels take all that the first filter gives,
     in order (`RotationInv`), and four turns are none (`RotatedJoined`).

Only model-checked: everything temporal (liveness under fairness is out of the
prover's reach), but for the refinement, whose specification has no fairness; and
`NothingWraps`, which is about the signals and the rates of the run: each pass doubles
the amplitude, and a bound for every signal would have to leave out those that many
passes amplify beyond 16 bits.

## 5. Where the code departs from what it says

Each is a run that must fail, with the comment it contradicts quoted under
"findings" in `PROJECT.json`.

* `reader_frees_active` (librtlsdr.c:1939): the cancel scan takes a transfer whose
  cancellation was refused for finished; it is only waiting to be reaped, and is
  freed after it has submitted itself again.
* `reader_close_hangs` (librtlsdr.c:1971): a cancellation preempted between its
  test and its write overwrites INACTIVE, and `rtlsdr_close` never returns.

Other departures are the named exceptions of section 3: behaviours that the code
has, and that the properties therefore allow by name. A stop that
comes before RUNNING is forgotten (rtl_ais_andro.c:1225); a stall without bulk
continuation frees URBs before all were reaped (linux_usbfs.c:2457); `-s`, a maximum in
the usage text, is a minimum.

Seen while modelling, in code that no module contains: `e4k_get_tuner_gains` returns
an array on its stack (tuner_e4k.c:782); command 0x0e of the TCP client is used
without `ntohl`; `rtlsdr_read_reg` returns uninitialised data when the transfer
fails; the test mode and the digital AGC share register 0x19 and overwrite each
other (librtlsdr.c:1232).

Undefined behaviour, such as using freed memory, is followed with the outcome
where the memory still holds what it held; the alternative, a crash, is a
behaviour that stops.

## 6. What is not modelled, and the plan

Not modelled because it is outside this program or pure input and output: the
command line tools of rtl-sdr and the backends of other systems (in the tree,
not built: `Android.mk` names `linux_usbfs.c` and `linux_netlink.c` only), log
views, option parsing, printing. `receiver.c`, `protodec.c`, `sounddecoder.c` and
`hmalloc.c` are named by `Android.mk` but are not in the repository.

These are also why the mapped lines are about a seventh of all lines of the tree:
more than half of them belong to backends and tools that are never compiled for the
application, to the documentation in `libusb.h` and `core.c`, and to the tables and
register sequences of tuners. Of what is built and keeps state, the following is
left out:

* *Device control*: GPIO but for the FC0012's, EEPROM, single gain stages, test mode,
  digital AGC, the probing in `rtlsdr_open`, the filter that the FC2580 resets with
  every frequency.
* *Registry*: failures to grow the poll set, a netlink socket that overflows, the
  callbacks of `libusb_hotplug_register_callback` (nobody registers one), parents of
  devices, the reuse of a default context, descriptors, isochronous transfers.
* *Signal path*: the mode for edge tuning, the interpolated values of the resampler
  (doubles; their places are modelled), block lengths for rates below 12 kHz, the
  option that switches the DC filter off.
* *Requests*: the dialog that chooses among several dongles, the restart of a STICKY
  service, `onServiceDisconnected`, the view of the log; races about the lists
  `accummulated_errors` and `talk_callacks`, which are changed on one thread while
  another reads them as `exception_listeners` is.
* *Decoder*: the message buffer of `nmea_sentence_received` (aisdecoder.c:75), the
  ring of the FIR filter. *Convenience functions*: nearest gain, nearest bandwidth.

Three hazards have no property: the pointer `dev` that outlives its session
(rtl_ais_andro.c:1103), the demodulator that is never joined (:523), and what
the option -x leaves out (:1254). `PROJECT.json` says why at each.

Planned, most important first:

1. What a session leaves to the next: the pointer `dev` after `rtlsdr_close`, the
   demodulator that is never joined, the condition destroyed under a waiter, the
   listening socket closed twice, as a second call of `rtl_ais_main` in
   `AisSession`.
2. An abstract bulk transfer that `UsbfsBulk` implements and `AsyncReader` uses.
3. The message buffer of `nmea_sentence_received` and the ring of the FIR filter
   against reference definitions; nearest gain and bandwidth.
4. Single gain stages, the bandwidth that the chip really has, and the register
   sequences of `rtlsdr_open`.
