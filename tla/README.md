# A TLA+ verification of NoteUSB

NoteUSB is a module (a shared library) of NoteDaemon. It finds USB HID devices,
lends them to clients, streams their reports to the client that holds one, and
leaves a crash-recovery file behind for a monitor process. This directory models
it in TLA+, model-checks the models with TLC and proves theorems about the core
with TLAPS. Paths below are relative to `src/`.

## 1. The system

Four kinds of threads and processes meet in it:

| who | runs | shares |
|---|---|---|
| NoteDaemon's thread | the module's life cycle, management messages, `handle_client`, `cleanup_client` | everything the module owns |
| one detached thread per device-socket session | `NoteUSBSession::start` and its message loop | the USB bus; its own object, which the daemon may delete |
| capture and process thread of a stream | libusb's event loop with the transfer callback; sending to the client | `running_`, one transfer, one queue |
| `note_usb_monitor` | waits for the daemon to die, gives kernel drivers back | the registry file, the USB bus |

### Components

**DeviceHandler** (`src/device_handler.cpp`). State: `available_devices_`,
`claimed_devices_`, `running_`, `ctx_`; through them libusb handles, interface
claims, kernel drivers; the registry file; the daemon's ownership registry.
Operations: discover, list, claim, release, release all. *Hard:* one claim is
recorded in five places that only this code keeps together; devices vanish and
come back under the same `bus:address` while they are claimed; any of four libusb
calls may fail half-way. *Correct if* the five places agree, no handle leaks or is
used twice, every way out of a claim gives the kernel driver back, and a claim is
exclusive.

**DeviceRegistry and the monitor** (`src/device_handler.cpp:45-212`,
`monitor/note_usb_monitor.cpp`). State: a JSON file. Each change reads all of it,
truncates it and writes it again. *Hard:* crash between two of the steps; a
restarted daemon, its predecessor's monitor and its own work on one file and one
bus. *Correct if* a driver the daemon detached is never forgotten.

**SPSCQueue** (`include/dro/spsc-queue.hpp`). A ring with two atomic indices, each
side caching the other's. *Hard:* lock-free; old values of an index may be read.
*Correct if* no slot is touched by both threads at once and the ring is a FIFO.

**HIDStreamingThread** (`src/hid_streaming_thread.cpp`). State: `running_`,
`xfer_`, the queue, two threads, counters. *Hard:* the owner's `stop`, the loss of
the device, a failed send and a failed resubmission all clear `running_`, in any
order, while the callback is anywhere. *Correct if* both threads end, `stop`
returns, nothing is lost or counted twice, and nothing in use is freed.

**NoteUSBModule and NoteUSBSession** (`src/module.cpp`,
`src/note_usb_session.cpp`). The module owns one DeviceHandler and a map from
client to session. A session claims and releases devices through libusb handles of
its own. *Hard:* two paths to one device that know nothing of each other; sessions
are deleted while their threads run. *Correct if* neither path disturbs the other
and no session is used after it was deleted.

**Encryption of a session** (`src/note_usb_session.cpp:326-421`, `:736-748`). State: a
flag and a key, plain variables of the session, and the provider's contexts, one for each
device id, shared by all sessions. *Hard:* the session's thread writes what the process
thread reads, one variable after the other; a report that cannot be encrypted is sent in
the clear. *Correct if* a client that has been told `ENCRYPTION_READY` gets no clear text
until it disables encryption.

**SessionManager** (`include/note_usb/session_manager.h`). State: a map under a mutex.
The program registers and unregisters sessions and broadcasts. Registration exchanges its
two arguments (`src/note_usb_session.cpp:431`), so that an entry is filed under the socket,
names the process number as its descriptor, is never found again and outlives its session.
Not modelled: whether a broadcast then reaches anybody depends on which numbers happen to be
open descriptors.

**Hotplug callbacks** (in the module) are never registered. `src/session_manager.cpp`,
`src/device_discovery.cpp` and `monitor/main.cpp` are stubs.

One thing to know: `handle_client` (`src/module.cpp:298`) creates sessions without a
device id, so that `start()` starts no stream. StreamingThread and NoteUSBSession model the
two classes as their constructors offer them, with a device id or without.

## 2. The modules

    UsbBus          libusb and the kernel, as far as the code uses them (external)
    UsbBus_proofs   a lemma the two proof modules below share
    DeviceLease     abstract: a device is lent to one client at a time
    DeviceHandler   EXTENDS UsbBus; implements DeviceLease
    DeviceHandler_proofs
    DeviceUse       abstract: a device is used by one of handler and sessions at a time
    NoteUSBModule   EXTENDS DeviceHandler: module, sessions, two claim paths; implements
                    DeviceUse
    NoteUSBModule_proofs
    BoundedFifo     abstract: a bounded queue
    SPSCQueue       implements BoundedFifo
    SPSCQueue_proofs
    StreamingThread the owner, capture thread, callback, process thread
    StreamingThread_proofs
    NoteUSBSession  EXTENDS StreamingThread: one session's life
    NoteUSBSession_proofs
    DriverCustody   abstract: who has a device's driver, kernel, daemon or recovery
    CrashRecovery   registry file, crashes, restarts, monitors; implements DriverCustody
    CrashRecovery_proofs

`MC*` modules give the constants their values for TLC; StreamingThread, NoteUSBSession and
CrashRecovery take theirs in the configuration.

**UsbBus** holds the bus in one record: which devices are plugged, which of them the
kernel has and wants a driver for, what each handle is open on and whether that device
is still there, and which handle has claimed an interface. Unplugging a device kills
its handles but closes none. `KernelExclusive` says whether the kernel refuses to
claim an interface that its own driver is bound to. The code claims first and detaches
afterwards, so it presupposes a platform that does not refuse; the passing runs
follow it (`FALSE`), and a run of its own shows what the code does on the other kind.

**DeviceHandler.** The daemon calls the handler from one thread, so each call is one
action, trailing updates of descriptors, file and ownership included. `claimed` and
`available` are the two tables, `file` the registry file (one rewrite is atomic here),
`ownership` the daemon's registry, `reply` what the client is told.
A claim that fails after `libusb_open` (`ClaimFails`) opens a handle and closes it again, in
one action, as no other thread sees the handler in between. `LibusbMayFail` lets opening and
claiming fail where nothing on the bus explains it, `AttachMayFail` the return of a driver.
`SetOwnershipRegistry` replaces the handler, and so includes its destructor. The code
hands one descriptor to both tables by pointer; the model stores it in both, and
`DescriptorsMirrorClaims` says they stay equal.

**NoteUSBModule** puts that handler on the daemon's thread and adds the sessions, each
with its thread. A claim takes effect when the interface is claimed; giving back is
split between releasing the interface and giving the driver back, on both paths,
because the other path may get in between. With several claims, `release_all_devices`
is split at one device of its loop only. A thread that runs on in a deleted session
ends the model in `crashed`. The history variable `lost` holds the devices whose driver one
of three known ways has lost; only a property uses it. For DeviceUse a device is used by
whoever knows the handle that has claimed its interface, and is abandoned when nobody does.

**SPSCQueue** has one action per shared access. An acquire load returns any value the
index has held since this thread's last (`Loads`), a slot is `Torn` while it is being
written, and a value moved out leaves `NoValue`.

**StreamingThread** has one action per access to `running_`, the queue or the
transfer. A pop is one step, which is what SPSCQueue shows it may be. A push is one step
where SPSCQueue's condition holds, that only one thread is inside `try_push`; but the code
does not ensure it, as `stop()` pushes its sentinel (`src/hid_streaming_thread.cpp:100`)
while the callback may be pushing a report (`:146`). So a push has two steps, the choice of
the slot and its publication, and of two that overlap the second publishes the index that the
first has published (`overtaken`): the slot holds what either has written, the process
thread may read it half-way through (`Readable`), one of the two events is lost, or the
vectors behind the slot destroy the heap (`RaceEndsProcess`). `PatientWait` assumes that the 100 ms wait after the event loop outlasts a
cancellation that is on its way; with it the findings below do not depend on timing.
The history variable `streamGaps` records four known events: a failure that clears
`running_` without telling the process thread, a submission after `running_` was cleared, a
report queued after that, and two threads inside `try_push` at once. Only the properties use
it, and `PollsOn`, which says that a process thread whose sentinel was lost polls for
ever.

**NoteUSBSession** adds the session round that stream: `dpc` is the daemon's thread, which
constructs, stops and deletes it, `spc` the session's thread, which starts the stream and
handles messages. The owner's actions of StreamingThread are taken by the session's thread
for `start` and by the daemon's for `stop` and the destructor. Of `device_` only matters
whether it still holds the stream's handle: releasing it closes the handle under the
transfer, which is then `orphaned`. Enabling encryption is a step for each variable it
writes, and a report is sealed in three (read the flag, encrypt, send); the provider may fail
to encrypt, for whatever reason, and the report is then sent as it is. Undefined behaviour
may end the model in `crashed`. Other sessions appear as one that disables encryption of
the same device. Entries in SessionManager are left out, so `Freed` is the destructor without
`unregister_from_hotplug`.

**CrashRecovery** has daemon processes with increasing pids, one at a time, each with
its monitor or without one: `device_monitor.enabled` is false unless configured, and a `fork`
or `exec` that fails is only logged (`src/module.cpp:146`, `:454-467`). Reading, truncating and writing the file are separate steps; a file may not
open for writing and a write may fail half-way, which nobody looks at, and the kernel may
refuse a driver given back, which nobody acts on. The history variable `gap` records the
first that occurs of eight known ways of losing a driver: the crash of a daemon that has no
monitor and owes a driver, a crash before a claim is recorded
or while the file is truncated, the clearing of a record that its monitor has still to read,
its overwriting by a monitor's older copy, the claim of a device whose driver is off
already, a record that could not be written, a monitor that reads while the file is being
rewritten, and a driver that the kernel refuses. Only properties use it. Pids are not
reused; `remove_all_by_pid` is NoteDaemon's and modelled as a read and a write. For
DriverCustody, recovery has the drivers that are off and not the running daemon's, as long
as a record for a monitor to read, or a monitor's list, names the device.

## 3. What the runs check

| run | states | bounds | shows |
|---|---|---|---|
| `device_handler` | 27 thousand | 2 HID devices and a hub, 2 handles, 2 clients; libusb may fail | the agreement and lease properties below |
| `note_usb_module` | 970 thousand | 1 device, 2 handles, 2 clients, 2 sessions | two claim paths, deletion, stop, unload; refines DeviceUse |
| `spsc_queue` | 11 thousand | capacity 3 (4 slots), 2 values | race freedom, FIFO |
| `streaming_thread` | 664 | queue of 2, any outcome of any transfer | the streaming properties |
| `note_usb_session` | 810 thousand | 2 messages about devices or encryption, any number of others | a session with its stream, from construction to destruction |
| `crash_recovery` | 176 thousand | 2 devices, 2 daemon processes | what crashes can and cannot lose; refines DriverCustody |

Why the bounds are enough: two devices tell "this device" from "another one", and two
handles let a third claim fail for want of one. Two sessions and the handler contend
for one device, which is the resource the two paths share. A ring of four slots wraps
and has every relation of the four indices; other sizes are covered by proof. The streaming queue never holds more than a report
and a sentinel, because the code submits a transfer again only when it brought no
report. Two daemon processes are two crashes and one restart, with the monitor of the first
at work on the file of the second. Its safety properties and the refinement are proved for
any number of processes; `RepairedWithoutGaps` is checked for two. Two messages enable
encryption and disable it, or enable it twice, or release a device around one of these;
that more of them change nothing is proved.

### Properties

*DeviceHandler.* `HandlesAccounted`: open handles and claims correspond one to one,
claims that failed half-way included.
`InterfaceHeldByClaim`: an interface is held by its claim's handle while that device
stays plugged in. `FileMatchesClaims`, `OwnershipMatchesClaims`,
`DescriptorsMirrorClaims`: file, daemon and descriptors say what the claim table says.
`DriverNeverStranded`: a driver is off only under a live claim that recorded taking it.
`ImplementsLease`: refinement of DeviceLease.

*NoteUSBModule.* `HandlesNotShared`: across handler and live sessions no handle is
shared or used after closing. `ClaimsHoldAcrossPaths`: a claim of either path holds its
interface until given back or unplugged. `NoDriverUnderClaim`: nobody brings the driver
back under a claim that took it. `DriverLostOnlyThroughGaps`: a driver is lost in three
ways only, when a session is deleted with its device claimed, when a second claim overwrites
`device_`, and when the other path claims between the release of the interface and the
return of the driver; without any one of the three TLC refutes the property.
`ImplementsUse`: no step of either path, of a deletion or of the cable passes a device from
one user to another, and an abandoned device is out of use until it is unplugged.

*SPSCQueue.* `NoSlotRace`, `CachesLag` (reader and writer see each other late but never
ahead), `ImplementsFifo` (refinement of BoundedFifo).

*StreamingThread.* `OneSentinel`, `ReportsAccounted` (every report counted as read is queued,
being sent or counted as sent, and the process thread leaves none in the queue, except one
queued after `running_` was cleared; not where two threads were inside `try_push` at once),
`SentinelFits` (the sentinel, the
result of whose push is ignored, finds room), `FreedInFlightOnlyAfterLateSubmit` (`stop()`
frees a transfer in flight only if the callback submitted it after `running_` was cleared),
`ToldToEnd` (once `running_` is clear, the sentinel that ends the process thread is queued or
about to be, except after a silent end, which no `stop()` waits for, or a collision in
`try_push`), `EndsInBoundedSteps`
(from then on each step of the stream lowers `StepsLeft`: threads and owner may wait for each
other, never go round in a circle), and under fairness `CaptureFollowsRunning`, and for a
client that reads (`ClientReads`) `StopReturns`, `DeviceLossEndsThreads` and
`EndsUnlessSilent` (the process thread ends whatever clears `running_`, except a failed send,
a failed resubmission, or a sentinel lost in a collision). `SentinelFits` holds because a stream brings one report: its
mutant, which resubmits the transfer as the design has it, breaks it.

*NoteUSBSession.* `PromiseKept`: between `ENCRYPTION_READY` and the disabling of encryption
no report is about to be sent in the clear, except in five cases: the report was past the
test of the flag by then, the key is empty, another session removed the context, the
client disabled encryption for another device, or the provider failed to encrypt. `StreamEndsWithSession`: a destroyed session
leaves no thread of its stream behind. It says
nothing of the orders that are undefined behaviour (the thread still in the freed session,
`start_streaming` against `stop_streaming`), which end in `crashed`. `DestructionEnds`: a
destruction that has begun ends, even when the device was released under the stream, if
only by bringing the process down; for a client that reads, and without a collision.

*CrashRecovery.* `ForgottenOnlyThroughGaps`: unless one of the eight gaps has occurred, a
device without its driver is owed by the running daemon, recorded for a monitor still
to read, or on a monitor's list. `NothingLeftToRepair`: when the daemon is down and no
monitor is at work, every device has its driver, unless a gap has occurred.
`ImplementsCustody`: the kernel parts with a driver to the daemon only, one at a time; a
crash passes everything the daemon owes to recovery at once; recovery gives drivers to the
kernel, never to another daemon; and none is lost before a gap. `RepairedWithoutGaps`: then a daemon that stays down
has its drivers restored.

### Fairness

StreamingThread: a thread that can run does. The capture thread blocks in the event loop
only, with a timeout, and has `WF`; the process thread sleeps with a timeout, and has `WF` on
what it does with the queue, but not on `Send`: `write()` blocks while the client does not
read (`src/hid_streaming_thread.cpp:265`). The properties that need the write to end say so:
`ClientReads` is their premise. The owner finishes a `stop` it has begun, and libusb
completes a cancellation. Nobody has to call `start` or `stop`, and the device has to say
nothing. NoteUSBSession: the same, with the encrypting of a report among what must go on, and the daemon gets on
with a destruction it has begun; the session's own thread may be held up for ever, as
reading its socket may. CrashRecovery: each monitor gets on (it
polls every 200 ms and ignores signals); daemons may stay up or down for ever.
The other specifications assume no fairness and state safety only. CrashRecovery and
NoteUSBModule may stop (no process left to start; crashed), so deadlock is not
checked for them.

## 4. Where the code and what is said of it disagree

Each is a run whose counterexample TLC prints:

* `streaming_resubmits`: a transfer that has delivered a report is never submitted
  again, so a stream delivers one report (`src/hid_streaming_thread.cpp:140`).
* `streaming_terminates`: when the device is lost, or a send fails, before `stop()`,
  `stop()` returns early and destroying the unjoined threads ends the process
  (`src/hid_streaming_thread.cpp:94`).
* `module_frees_session`: sessions are deleted under their running threads
  (`src/module.cpp:328`).
* `handler_foreign_release`: any client's release message ends any claim
  (`src/device_handler.cpp:470`).
* `handler_bound_driver`: where the kernel refuses to claim what its driver is bound
  to, the driver stands in the way of the claim that would detach it
  (`src/device_handler.cpp:408`).
* `crash_strands_driver`: a crash between detaching a driver and recording it leaves
  the device without one (`src/device_handler.cpp:424`).

`PROJECT.json` lists, under hazards, further ones that have no run, with the reason.

## 5. What is proved

`UsbBus_proofs` has one lemma, that a handle opened and closed again leaves the bus as it was.

`DeviceHandler_proofs` proves for every set of devices, handles and clients, from the
assumptions `BusAssumption` and `HandlerAssumption` alone:

* `TypeCorrect`: `Spec => []TypeOK`
* `HandlesCorrect` and `InterfacesCorrect`: `HandlesAccounted` and `InterfaceHeldByClaim`
  always hold
* `FileAgrees`, `OwnershipAgrees`, `DescriptorsAgree`: so do `FileMatchesClaims`,
  `OwnershipMatchesClaims` and `DescriptorsMirrorClaims`
* `DriversRestored`: if the kernel never refuses a driver that is given back,
  `DriverNeverStranded` always holds
* `Refinement`: `Spec => ImplementsLease`

The argument is one inductive invariant, `IInv`. `Held` joins the handles and
interfaces to the claim table; neither `HandlesAccounted` nor `InterfaceHeldByClaim` is
inductive without the other, because releasing a claim closes a handle and frees
whatever that handle holds, and both need `BusSound` (a live handle is open on a device
that is plugged in), without which a device plugged in anew could inherit the claim of
the old one. To this come the agreement invariants, which follow the claim table. Two
lemmas carry the proof, `ReleaseHeld` for giving back any set of claims and `GrantHeld`
for one grant; every action that changes the bus is one of these or the cable. The
driver invariant is preserved on top of `IInv` (`NextDriver`). The refinement maps a
grant to a grant, a release to an end, the bulk releases to the end of all leases, and
everything else to a stutter.

`SPSCQueue_proofs` proves for every capacity and every set of values, from
`QueueAssumption` and `SingleProducer` (at most one thread calls `try_push`, the
contract of the class):

* `TypeCorrect`: `Spec => []TypeOK`
* `CachesCorrect`: `Spec => []CachesLag`
* `SlotsNotShared`: `Spec => []NoSlotRace`
* `Refinement`: `Spec => ImplementsFifo`

`NoSlotRace` is not inductive. The invariant adds `CachesLag`, which fixes the order of
the four indices round the ring, and what each thread has found out before it touches a
slot: `WriterHasRoom` (the slot after the writer's is not the one the reader was last
seen at) and `ReaderHasValue`. Each is kept when a load returns an old index, because an
old index lies between the cache and the index. The facts about the ring are seven
lemmas on `Ahead` and `After`. In the refinement a store to `writeIndex` is a put
(`PutStep`), a store to `readIndex` a take (`TakeStep`), and every other step leaves the
contents alone (`ContentsUnchanged`), because it writes the writer's slot or moves the
head on its way out.

`StreamingThread_proofs` proves for every capacity of the queue, from
`StreamingAssumption`:

* `StreamTypeCorrect`, `SentinelOnce`, `AccountsCorrect`: `TypeOK`, `OneSentinel` and
  `ReportsAccounted` always hold
* `SentinelRoom`: for a capacity of at least 2 (the code's is 256), so does `SentinelFits`
* `FreesAwaited`: under `PatientWait`, so does `FreedInFlightOnlyAfterLateSubmit`

`IInv` says who may have cleared `running_` (`EndAnnounced`), that the callback does
nothing once the event loop has been left (`LoopLeft`), that only threads that have
ended are joined (`JoinedEnded`), and of pushes under way that a producer alone in `try_push`
still has room when it publishes, and that overtaking one is a collision (`SlotTaken`). `ReportsAccounted` is inductive on top of it, with lemmas
that count the reports of a queue to which an event is appended or from which one is taken;
its second half, that the process thread leaves no report behind, needs `OnlyReports`:
while `running_` is set the process thread is in its loop, so that a report which it does not
see any more has been queued late.
`SentinelRoom` adds `OneReport`: a transfer that may still bring a report has brought none.
`FreesAwaited` adds `TransferAwaited`: without a late submission, a capture thread that ends
while `stop()` is under way leaves a transfer that has ended.

The stream's liveness stays with TLC, but what could go wrong with it in the code is proved:

* `ThreadTold`: for a capacity of at least 2, `ToldToEnd` always holds
* `EndBounded`: `Spec => EndsInBoundedSteps`

A thread that does not end either waits for something that never comes or never stops doing
things. The process thread waits for a sentinel, and `ThreadTold` says that it comes; the
owner's joins wait for the two threads; and `EndBounded` gives every other step a bound, for
any interleaving. What is left to TLC of `StopReturns`, `DeviceLossEndsThreads`,
`CaptureFollowsRunning` and `EndsUnlessSilent` is that a thread that can take a step takes it,
which is fairness. `ToldToEnd` is not inductive: `ToldUnlessSilent` adds that a silent end
leaves `running_` clear, so that no `stop()` after it gets to its joins; and it needs
`SentinelFits`, because a sentinel that found no room would tell nobody.
`EndBounded` goes by `IInv` alone, with one lemma for each way an action changes the queue.

`NoteUSBSession_proofs` proves for every capacity and any number of messages, from
`SessionAssumption`:

* `SessionTypeCorrect`: `SessionSpec => []SessionTypeOK`
* `SessionKeepsPromise`: `SessionSpec => []PromiseKept`
* `SessionEndsStream`: `SessionSpec => []StreamEndsWithSession`
* `SessionThreadTold`, `SessionEndBounded`: `ToldToEnd` (for a capacity of at least 2) and
  `EndsInBoundedSteps` hold of the stream in its session

Every step of a session is a step of its stream, takes the transfer from it, or leaves it
alone (`StreamInSession`), so the `IInv` of the stream holds in the session too. A freed
session had no stream, and gets none afterwards (`FreedWithoutStream`); with `JoinedEnded`
this is `StreamEndsWithSession`. The promise needs `Sealed`, which adds to `PromiseKept`
that flag, key and context are all there as long as the promise stands.

`NoteUSBModule_proofs` proves for every set of devices, handles, clients and sessions, from
`BusAssumption`, `HandlerAssumption` and `ModuleAssumption` (no device is named like a state
of the daemon's thread):

* `ModuleTypeCorrect`: `ModuleSpec => []ModuleTypeOK`
* `HandlesApart`, `ClaimsHold`, `DriverStaysAway`: `HandlesNotShared`,
  `ClaimsHoldAcrossPaths` and `NoDriverUnderClaim` always hold
* `DriversLostKnown`: if the kernel never refuses a driver that is given back, so does
  `DriverLostOnlyThroughGaps`
* `UseImplemented`: `ModuleSpec => ImplementsUse`

`Shared` is the inductive invariant of the first four. None of the three is inductive
alone: a driver could come back under a claim if two claims owed it, which `OwedOnce`
excludes, because a claim that detached the driver left none for another to detach; a device
could come back under a live handle without `BusSound`; and clearing one entry of
`sessions_` leaves no other dangling only because a session object has one client
(`SessionsSound`). What a step may do to the claims is one of a few kinds (`DaemonKinds` for
the daemon's thread), and there is a lemma for each: `Quiet`, a grant on either path, giving
back on either path in its two halves, looking at another device, and the cable.
`DriversLostKnown` adds `RefusalsKnown`: once somebody has taken the interface in the middle
of a release, the driver that the kernel is about to refuse counts as lost. `OwedMoves` says
of every step where the claims that owe a driver go. `UseImplemented` needs more than who
holds an interface: two users of one device would have one handle, which `Shared` excludes,
and a handle that has been closed could be handed out again while an interface is held
through it, which `HoldersOpen` excludes. On `Shared` and `HoldersOpen` together
(`UseInv`) the user of a device is the one claim that names its holder, and each step begins,
ends or abandons uses, plugs, unplugs, or changes no user.

`CrashRecovery_proofs` proves for every set of devices and any number of daemon processes,
from `RecoveryAssumption`:

* `RecoveryTypeCorrect`: `Spec => []TypeOK`
* `ForgottenCorrect`: `Spec => []ForgottenOnlyThroughGaps`
* `RepairedCorrect`: `Spec => []NothingLeftToRepair`
* `CustodyImplemented`: `Spec => ImplementsCustody`

`ForgottenOnlyThroughGaps` speaks of what a device can be known by, and does not say which
of the three it is, so a crash, which takes away what is owed, would refute its induction.
`OwedRecorded` says that each driver owed by a daemon with a monitor has its record in the
file, or about to be written while the daemon is busy with that very device, when a crash
counts as a gap; a daemon without a monitor owes what it likes, and its crash is a gap.
`InheritedKnown` says that a driver which the running process does not owe is on a monitor's
list or has the record of another process, still to be read, and that what the process is
about to write keeps those records; where a rewrite would drop one, a gap is noted.
`MonitorsReady` says which monitors wait: no list is filled before its process has died.
The refinement rests on the same invariant: without a gap `CustodyOf` is never "lost"
(`ForgottenOnlyThroughGaps`), so that a step which moves no driver moves no custody
(`NoDriverMoved`); a claim is `Detach` or nothing (`Detaches`), a release `GiveBack`
(`Returns`), a crash `Inherit` (`Inherits`), a monitor's reattachment `Repair` or nothing
(`Repairs`); and a step that opens a gap, or comes after one, is `Mislay` (`Mislays`), which
still may neither take a driver from the kernel nor hand one from recovery to a daemon.

Liveness is model-checked only: ENABLED and liveness under fairness are out of the prover's
reach.

## 6. What is not modelled

The wire format and logging; SessionManager; the daemon itself, beyond the calls it makes; discovery's
reading of descriptors, beyond which devices are HID; `push`, `pop`, `force_push` of the
queue, which nothing calls; the wording of
answers; the hotplug callbacks, which nothing registers; the stubs. Memory exhaustion does not happen
in the models, and DeviceHandler, where one rewrite of the registry file is atomic, always
succeeds with it (CrashRecovery has the failures).

## 7. Plan

1. SPSCQueue with two producers, access by access: StreamingThread takes from it what two
   overlapping pushes may leave, without the steps in between.
2. Several streams at once, each with its session, on the claims of NoteUSBModule.
