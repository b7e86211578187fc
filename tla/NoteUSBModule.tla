--------------------------- MODULE NoteUSBModule ---------------------------
(***************************************************************************)
(* The module as NoteDaemon sees it: its life cycle and management         *)
(* messages, on the daemon's thread, around one DeviceHandler; and the     *)
(* device-socket sessions, each with a detached thread of its own that     *)
(* claims and releases devices through libusb handles the DeviceHandler    *)
(* knows nothing of.  The two paths meet only on the bus, and there a      *)
(* claim takes effect at once, when the interface is claimed, but giving a *)
(* device back takes two steps: between releasing the interface and giving *)
(* the driver back the other path may claim it.                            *)
(*                                                                         *)
(* A session object may be freed while its thread is still running.  What  *)
(* happens when the thread then touches it is undefined; here the daemon   *)
(* crashes, and nothing is claimed of what follows.                        *)
(***************************************************************************)
EXTENDS DeviceHandler

CONSTANTS Sessions,  \* the NoteUSBSession objects that may be created
          NoSession

ASSUME ModuleAssumption ==
    /\ NoSession \notin Sessions
    /\ Devices \cap {"idle", "stopping", "closing"} = {}
    /\ Sessions \cap {"nobody", "handler", "abandoned"} = {}

VARIABLES
    daemon,         \* the daemon's thread: "idle", "stopping" or "closing" the module,
                    \* or giving back a device
    moduleRunning,  \* NoteUSBModule's running_
    sessionOf,      \* sessions_: client -> session object
    life,           \* of each object: "unborn", "live" or "freed"
    thread,         \* "none", "spawned", "reading", "releasing" or "ended"
    device,         \* device_: the descriptor the session looks at or has claimed
    crashed,
    lost            \* history: devices whose driver is known to be lost, see Losses

moduleVars == <<daemon, moduleRunning, sessionOf, life>>

threadVars == <<thread, device, crashed>>

allVars == <<vars, moduleVars, threadVars, lost>>

NoDescriptor == [id |-> NoDevice, handle |-> NoHandle, kdriver |-> FALSE]

Descriptor == [id      : Devices \cup {NoDevice},
               handle  : Handles \cup {NoHandle},
               kdriver : BOOLEAN]

ModuleInitial ==
    /\ Init
    /\ daemon = "idle"
    /\ moduleRunning = FALSE
    /\ sessionOf = [p \in Clients |-> NoSession]
    /\ life = [s \in Sessions |-> "unborn"]
    /\ thread = [s \in Sessions |-> "none"]
    /\ device = [s \in Sessions |-> NoDescriptor]
    /\ crashed = FALSE
    /\ lost = {}

-----------------------------------------------------------------------------
(* The daemon's thread: sessions.  A session's own start and stop move flags *)
(* that nothing here depends on: it is created without a device to stream.   *)

\* Mutant: the sessions are deleted and their entries stay.
EraseButKeepEntries(ps) ==
    /\ UNCHANGED sessionOf
    /\ life' = [s \in Sessions |->
                  IF \E p \in ps : sessionOf[p] = s THEN "freed" ELSE life[s]]

\* sessions_ owns its objects, so erasing entries frees them.  Neither the thread
\* nor the device of a session is waited for or given back.
Erase(ps) ==
    /\ sessionOf' = [p \in Clients |-> IF p \in ps THEN NoSession ELSE sessionOf[p]]
    /\ life' = [s \in Sessions |->
                  IF \E p \in ps : sessionOf[p] = s THEN "freed" ELSE life[s]]

\* A client that is still in sessions_ is turned away.  The daemon hands clients only
\* to a module it has initialised.
HandleClient(p, s) ==
    /\ daemon = "idle" /\ handler # "absent"
    /\ sessionOf[p] = NoSession
    /\ life[s] = "unborn"
    /\ sessionOf' = [sessionOf EXCEPT ![p] = s]
    /\ life' = [life EXCEPT ![s] = "live"]
    /\ thread' = [thread EXCEPT ![s] = "spawned"]
    /\ UNCHANGED <<vars, daemon, moduleRunning, device, crashed>>

CleanupClient(p) ==
    /\ daemon = "idle"
    /\ sessionOf[p] # NoSession
    /\ Erase({p})
    /\ UNCHANGED <<vars, daemon, moduleRunning, threadVars>>

-----------------------------------------------------------------------------
(* The daemon's thread: the handler's calls, which are those of DeviceHandler *)

HandlerCall ==
    /\ daemon = "idle"
    /\ \/ Construct
       \/ \E p \in Clients : SendDeviceList(p)
       \/ \E p \in Clients, d \in Devices \cup {NoDevice} :
             ClaimDevice(p, d) \/ (handler # "absent" /\ ReleaseRefused(p, d))
    /\ UNCHANGED <<moduleVars, threadVars>>

\* The first half of giving back device d; its claim is still in the tables.
ReleasesInterface(d) ==
    /\ daemon = "idle"
    /\ d \in DOMAIN claimed
    /\ bus' = ReleaseInterface(bus, claimed[d].handle, d)
    /\ daemon' = d
    /\ UNCHANGED <<handler, ctx, discovering, available, claimed, file, ownership, reply>>
    /\ UNCHANGED <<moduleRunning, sessionOf, life, threadVars>>

\* The second half of release_device.
Releases ==
    /\ daemon \in DOMAIN claimed
    /\ \E p \in Clients : ReleaseGranted(p, daemon)
    /\ daemon' = "idle"
    /\ UNCHANGED <<moduleRunning, sessionOf, life, threadVars>>

\* Is the loop over all claims done, but for the second half of the last?
AtLastClaim == daemon \in DOMAIN claimed \/ (daemon = "idle" /\ claimed = EmptyTable)

ModuleSetsRegistry ==
    /\ AtLastClaim
    /\ SetOwnershipRegistry
    /\ daemon' = "idle"
    /\ UNCHANGED <<moduleRunning, sessionOf, life, threadVars>>

-----------------------------------------------------------------------------
(* The daemon's thread: life cycle *)

ModuleStart ==
    /\ daemon = "idle" /\ ~moduleRunning
    /\ moduleRunning' = TRUE
    /\ StartDiscovery
    /\ UNCHANGED <<daemon, sessionOf, life, threadVars>>

\* The handler's devices are given back while the sessions are still at work.
ModuleStop ==
    /\ AtLastClaim /\ moduleRunning
    /\ StopAll
    /\ daemon' = "stopping"
    /\ UNCHANGED <<moduleRunning, sessionOf, life, threadVars>>

ModuleStopped ==
    /\ daemon = "stopping"
    /\ Erase(Clients)
    /\ moduleRunning' = FALSE
    /\ daemon' = "idle"
    /\ UNCHANGED <<vars, threadVars>>

\* What shutdown() does after stop(): the sessions go first, then the handler.
Shutdown ==
    /\ daemon = "idle" /\ ~moduleRunning /\ handler # "absent"
    /\ Erase(Clients)
    /\ daemon' = "closing"
    /\ UNCHANGED <<vars, moduleRunning, threadVars>>

HandlerDestroyed ==
    /\ daemon = "closing"
    /\ Destroy
    /\ daemon' = "idle"
    /\ UNCHANGED <<moduleRunning, sessionOf, life, threadVars>>

-----------------------------------------------------------------------------
(* A session's thread *)

\* handle_client gives a session no device, so start() goes straight to the socket.
SessionStarts(s) ==
    /\ thread[s] = "spawned" /\ life[s] = "live"
    /\ thread' = [thread EXCEPT ![s] = "reading"]
    /\ UNCHANGED <<vars, moduleVars, device, crashed>>

Reads(s) == thread[s] = "reading" /\ life[s] = "live"

OnlyBusAndSession ==
    /\ UNCHANGED <<handler, ctx, discovering, available, claimed, file, ownership, reply>>
    /\ UNCHANGED <<moduleVars, crashed>>

\* A HID device that can be opened becomes the session's device_, whatever that was.
SessionDiscovers(s) ==
    /\ Reads(s)
    /\ FreeHandles(bus) # {}
    /\ \E d \in HidDevices \cap bus.present :
          device' = [device EXCEPT ![s] = [NoDescriptor EXCEPT !.id = d]]
    /\ UNCHANGED <<bus, thread>>
    /\ OnlyBusAndSession

\* Mutant: the interface is not claimed before the device is used.
UsableWithoutClaim(d) == d \in bus.present

\* What claim_device needs of the bus to succeed.  It does not ask whether the
\* session has a device already.
SessionCanClaim(d) == CanClaim(bus, d)

\* Mutant: a driver that could not be detached counts as detached.
DriverCountsAsDetached(d, h, kdriver) == [id |-> d, handle |-> h, kdriver |-> TRUE]

\* Mutant: that the driver was detached is not recorded.
DetachForgotten(d, h, kdriver) == [id |-> d, handle |-> h, kdriver |-> FALSE]

ClaimedDescriptor(d, h, kdriver) == [id |-> d, handle |-> h, kdriver |-> kdriver]

SessionClaims(s, d) ==
    /\ Reads(s)
    /\ SessionCanClaim(d)
    /\ \E h \in FreeHandles(bus), kdriver \in BOOLEAN :
          LET held == ClaimInterface(OpenDevice(bus, h, d), h, d)
          IN  /\ kdriver => d \in bus.bound
              /\ bus' = IF kdriver THEN DetachDriver(held, d) ELSE held
              /\ device' = [device EXCEPT ![s] = ClaimedDescriptor(d, h, kdriver)]
    /\ UNCHANGED thread
    /\ OnlyBusAndSession

SessionReleasesInterface(s) ==
    /\ Reads(s)
    /\ device[s].handle # NoHandle
    /\ bus' = ReleaseInterface(bus, device[s].handle, device[s].id)
    /\ thread' = [thread EXCEPT ![s] = "releasing"]
    /\ UNCHANGED device
    /\ OnlyBusAndSession

\* Mutant: the handle is closed and stays in the descriptor.
KeepsHandle(desc) == desc

Closed(desc) == [desc EXCEPT !.handle = NoHandle, !.kdriver = FALSE]

\* The driver is given back, if the kernel takes it, and the handle closed either way.
SessionReleases(s) ==
    /\ thread[s] = "releasing" /\ life[s] = "live"
    /\ LET mine == [d \in {device[s].id} |-> device[s]]
       IN  \E attached \in Reattached(DOMAIN mine) :
              bus' = GiveBack(bus, mine, DOMAIN mine, attached)
    /\ device' = [device EXCEPT ![s] = Closed(@)]
    /\ thread' = [thread EXCEPT ![s] = "reading"]
    /\ OnlyBusAndSession

\* SHUTDOWN from the client, or the end of the socket, ends the loop and the thread.
\* The entry in sessions_ stays.
SessionEnds(s) ==
    /\ Reads(s)
    /\ thread' = [thread EXCEPT ![s] = "ended"]
    /\ UNCHANGED <<vars, moduleVars, device, crashed>>

\* A thread that is not at its end runs on in an object that has been freed.
TouchesFreed(s) ==
    /\ thread[s] \in {"spawned", "reading", "releasing"} /\ life[s] = "freed"
    /\ crashed' = TRUE
    /\ UNCHANGED <<vars, moduleVars, thread, device>>

-----------------------------------------------------------------------------
Cable ==
    /\ \E d \in Devices : Plug(d) \/ Unplug(d)
    /\ UNCHANGED <<moduleVars, threadVars>>

Daemon ==
    \/ HandlerCall \/ Releases \/ ModuleSetsRegistry
    \/ \E d \in Devices : ReleasesInterface(d)
    \/ ModuleStart \/ ModuleStop \/ ModuleStopped \/ Shutdown \/ HandlerDestroyed
    \/ \E p \in Clients, s \in Sessions : HandleClient(p, s)
    \/ \E p \in Clients : CleanupClient(p)

Session(s) ==
    \/ SessionStarts(s)
    \/ SessionDiscovers(s)
    \/ \E d \in Devices : SessionClaims(s, d)
    \/ SessionReleasesInterface(s)
    \/ SessionReleases(s)
    \/ SessionEnds(s)
    \/ TouchesFreed(s)

\* The claims that owe a device its driver, on either path.
OwedByHandler(d) ==
    d \in DOMAIN claimed /\ claimed[d].kdriver /\ claimed[d].handle \in bus.live
Owes(s, d) ==
    /\ life[s] = "live" /\ device[s].id = d
    /\ device[s].kdriver /\ device[s].handle \in bus.live

\* The three known ways in which a step loses a driver that a claim owes: the session
\* is freed, the session's device_ is overwritten, or somebody claims the device after
\* its interface has been released and before the driver is given back.
LostByFreeing == {d \in Devices : \E s \in Sessions : Owes(s, d) /\ life'[s] = "freed"}
LostByOverwriting ==
    {d \in Devices : \E s \in Sessions :
        Owes(s, d) /\ thread[s] = "reading" /\ device'[s] # device[s]}
LostInTheWindow ==
    {d \in Devices : /\ OwedByHandler(d) \/ (\E s \in Sessions : Owes(s, d))
                     /\ bus.holder[d] = NoHandle /\ bus'.holder[d] # NoHandle}

Losses == LostByFreeing \cup LostByOverwriting \cup LostInTheWindow

RemembersLosses == lost' = (lost \cup Losses) \cap (bus'.wanted \ bus'.bound)

ModuleNext ==
    /\ ~crashed
    /\ Daemon \/ (\E s \in Sessions : Session(s)) \/ Cable
    /\ RemembersLosses

ModuleSpec == ModuleInitial /\ [][ModuleNext]_allVars

-----------------------------------------------------------------------------
(* Properties *)

\* The handler's state keeps its type, the sessions' state has theirs, and sessions_
\* refers to live sessions only.
ModuleTypeOK ==
    /\ TypeOK
    /\ daemon \in {"idle", "stopping", "closing"} \cup DOMAIN claimed
    /\ moduleRunning \in BOOLEAN
    /\ sessionOf \in [Clients -> Sessions \cup {NoSession}]
    /\ life \in [Sessions -> {"unborn", "live", "freed"}]
    /\ \A p \in Clients : sessionOf[p] # NoSession => life[sessionOf[p]] = "live"
    /\ thread \in [Sessions -> {"none", "spawned", "reading", "releasing", "ended"}]
    /\ device \in [Sessions -> Descriptor]
    /\ crashed \in BOOLEAN
    /\ lost \subseteq Devices

Live == {s \in Sessions : life[s] = "live" /\ device[s].handle # NoHandle}

\* No handle is used after it was closed, and none by two owners: the handles of the
\* claim table and of the live sessions are open on the devices they are filed under
\* and all different, although each side takes handles without asking the other.
HandlesNotShared ==
    /\ \A d \in DOMAIN claimed : bus.open[claimed[d].handle] = d
    /\ \A s \in Live : bus.open[device[s].handle] = device[s].id
    /\ \A s \in Live, d \in DOMAIN claimed : device[s].handle # claimed[d].handle
    /\ \A s, t \in Live : s # t => device[s].handle # device[t].handle

\* A claim made on either path, in whatever order they race, holds its interface
\* until it is given back or the device unplugged: the other path cannot have the
\* same device in the meantime.
ClaimsHoldAcrossPaths ==
    /\ \A d \in DOMAIN claimed : claimed[d].handle \in bus.live /\ daemon # d =>
          bus.holder[d] = claimed[d].handle
    /\ \A s \in Live : device[s].handle \in bus.live /\ thread[s] # "releasing" =>
          bus.holder[device[s].id] = device[s].handle

\* As long as a claim that took the kernel driver away lasts, nobody brings the
\* driver back behind it, not even another claim on the device that ends first.
NoDriverUnderClaim ==
    /\ \A d \in DOMAIN claimed : claimed[d].kdriver /\ claimed[d].handle \in bus.live =>
          d \notin bus.bound
    /\ \A s \in Live : device[s].kdriver /\ device[s].handle \in bus.live =>
          device[s].id \notin bus.bound

\* A device that is plugged in without the driver its kernel has for it is owed the
\* driver by a claim that can still give it back, or has lost it in one of the three
\* known ways: no other order of claims, releases, stop, unload and unplugging on the
\* two paths loses one.
DriverLostOnlyThroughGaps ==
    \A d \in bus.wanted \ bus.bound :
        d \in lost \/ OwedByHandler(d) \/ \E s \in Sessions : Owes(s, d)

\* The user of a device is whoever knows the handle that has claimed its interface.
UserOf ==
    [d \in Devices |->
        IF bus.holder[d] = NoHandle THEN "nobody"
        ELSE IF d \in DOMAIN claimed /\ claimed[d].handle = bus.holder[d] THEN "handler"
        ELSE IF \E s \in Live : device[s].handle = bus.holder[d]
             THEN CHOOSE s \in Live : device[s].handle = bus.holder[d]
        ELSE "abandoned"]

Use == INSTANCE DeviceUse WITH plugged <- bus.present, user <- UserOf

\* The two claiming paths together implement the use of devices by one user at a time:
\* whatever handler, sessions, cleanup and cable do, no step takes a device from one of
\* them for another, and a device whose session has turned away or been freed stays
\* unusable until it is unplugged.
ImplementsUse == Use!Spec

\* module.cpp, handle_client: a session cleans itself up when its socket closes, so
\* that its detached thread never runs in a session that is gone.
NoUseAfterFree == ~crashed
=============================================================================
