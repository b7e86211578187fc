--------------------------- MODULE DeviceHandler ---------------------------
(***************************************************************************)
(* NoteUSB::DeviceHandler: discovery of HID devices, the claims that       *)
(* clients make on the management socket, and what a claim is recorded in. *)
(* One claim is spread over five places that nothing but this code keeps   *)
(* together: the claimed_devices_ table, the shared USBDeviceDescriptor    *)
(* of available_devices_, the crash-recovery file, the daemon's ownership  *)
(* registry, and the libusb handle with its interface and kernel driver.   *)
(*                                                                         *)
(* The daemon calls the handler from one thread, so a call is one action.  *)
(***************************************************************************)
EXTENDS UsbBus

CONSTANTS Clients,         \* pids of the clients, from SO_PEERCRED
          NoClient,        \* owner_pid 0
          LibusbMayFail,   \* may libusb_open fail with a handle to spare, or
                           \* libusb_claim_interface with the interface free?
          AttachMayFail    \* may libusb_attach_kernel_driver fail?

ASSUME HandlerAssumption ==
    /\ NoClient \notin Clients
    /\ LibusbMayFail \in BOOLEAN
    /\ AttachMayFail \in BOOLEAN

VARIABLES
    bus,          \* the devices, the kernel drivers and the libusb handles
    handler,      \* "absent", "bare" (null ownership_registry_) or "linked"
    ctx,          \* ctx_ # nullptr
    discovering,  \* running_
    available,    \* available_devices_: device -> descriptor
    claimed,      \* claimed_devices_: device -> DeviceInfo
    file,         \* the records of the crash-recovery registry file
    ownership,    \* the devices NoteDaemon's registry routes to this module
    reply         \* what the last call wrote to its reply_fd

vars == <<bus, handler, ctx, discovering, available, claimed, file, ownership, reply>>

-----------------------------------------------------------------------------
(* Data *)

\* The fields of a USBDeviceDescriptor that change, and those of a DeviceInfo.
Entry == [handle  : Handles \cup {NoHandle},
          kdriver : BOOLEAN,
          owner   : Clients \cup {NoClient}]

Unclaimed == [handle |-> NoHandle, kdriver |-> FALSE, owner |-> NoClient]

EmptyTable == [d \in {} |-> Unclaimed]

\* Mutant: the handle is opened but never stored.
EntryWithoutHandle(h, kdriver, p) == [handle |-> NoHandle, kdriver |-> kdriver, owner |-> p]

\* Mutant: the outcome of detaching the driver is not stored.
EntryWithoutDriver(h, kdriver, p) == [handle |-> h, kdriver |-> FALSE, owner |-> p]

\* What a successful claim stores in both tables.
ClaimEntry(h, kdriver, p) == [handle |-> h, kdriver |-> kdriver, owner |-> p]

With(table, d, entry) ==
    [x \in DOMAIN table \cup {d} |-> IF x = d THEN entry ELSE table[x]]

Without(table, d) == [x \in DOMAIN table \ {d} |-> table[x]]

Record == [device : Devices, kdriver : BOOLEAN]

Codes == {"SUCCESS", "INVALID_MESSAGE", "DEVICE_NOT_FOUND",
          "ITEM_NOT_AVAILABLE", "PERMISSION_DENIED"}

Reply == [to     : Clients \cup {NoClient},
          event  : {"none", "ITEM_LIST", "ITEM_CLAIMED", "ITEM_RELEASED"},
          device : Devices \cup {NoDevice},
          code   : Codes]

NoReply == [to |-> NoClient, event |-> "none", device |-> NoDevice, code |-> "SUCCESS"]

Answer(p, e, d, c) == [to |-> p, event |-> e, device |-> d, code |-> c]

\* DeviceRegistry::add_device drops an earlier record of the device first.
AddRecord(f, d, k) == {r \in f : r.device # d} \cup {[device |-> d, kdriver |-> k]}

\* Mutant: the record of a released device stays in the file.
KeepRecord(f, d) == f

RemoveRecord(f, d) == {r \in f : r.device # d}

\* Mutant: the test for devices already known is dropped.
RediscoveredAfresh(table, seen) ==
    [d \in DOMAIN table \cup seen |-> IF d \in seen THEN Unclaimed ELSE table[d]]

\* discover_devices: what is new on the bus is added, nothing is ever removed.
Discovered(table, seen) ==
    [d \in DOMAIN table \cup seen |-> IF d \in DOMAIN table THEN table[d] ELSE Unclaimed]

Scans == IF ctx THEN SUBSET (HidDevices \cap bus.present) ELSE {{}}

-----------------------------------------------------------------------------
(* Life of the handler, driven by the module's init, set_ownership_registry *)
(* and shutdown *)

Init ==
    /\ \E plugged \in SUBSET Devices : \E driven \in SUBSET plugged :
          bus = BusStart(plugged, driven)
    /\ handler = "absent"
    /\ ctx = FALSE
    /\ discovering = FALSE
    /\ available = EmptyTable
    /\ claimed = EmptyTable
    /\ file = {}
    /\ ownership = {}
    /\ reply = NoReply

\* The kernel's verdict on giving each of the devices ds its driver back.
Reattached(ds) == IF AttachMayFail THEN SUBSET ds ELSE {ds}

\* Mutant: closing the handle has slipped into the test for a detached driver.
GiveBackDetachedOnly(ds, attached) ==
    GiveBack(bus, claimed, {d \in ds : claimed[d].kdriver}, attached)

\* Interface, driver and handle of the claims on ds are given back.
BusAfterRelease(ds, attached) == GiveBack(bus, claimed, ds, attached)

\* Mutant: a released device stays routed to this module.
StillRouted(ds) == ownership

Unrouted(ds) == IF handler = "linked" THEN ownership \ ds ELSE ownership

ReleaseAllDevices ==
    /\ \E attached \in Reattached(DOMAIN claimed) :
          bus' = BusAfterRelease(DOMAIN claimed, attached)
    /\ ownership' = Unrouted(DOMAIN claimed)
    /\ claimed' = EmptyTable
    /\ available' = EmptyTable
    /\ file' = {}
    /\ reply' = NoReply

\* libusb_init may fail, which leaves a handler that finds nothing.
Construct ==
    /\ handler = "absent"
    /\ handler' = "bare"
    /\ ctx' \in BOOLEAN
    /\ discovering' = FALSE
    /\ reply' = NoReply
    /\ UNCHANGED <<bus, available, claimed, file, ownership>>

\* A second handler takes the place of the first, whose destructor runs.
SetOwnershipRegistry ==
    /\ handler # "absent"
    /\ ReleaseAllDevices
    /\ handler' = "linked"
    /\ ctx' \in BOOLEAN
    /\ discovering' = FALSE

Destroy ==
    /\ handler # "absent"
    /\ ReleaseAllDevices
    /\ handler' = "absent"
    /\ ctx' = FALSE
    /\ discovering' = FALSE

-----------------------------------------------------------------------------
(* Discovery *)

DiscoverDevices ==
    \E seen \in Scans : available' = Discovered(available, seen)

StartDiscovery ==
    /\ handler # "absent"
    /\ discovering' = TRUE
    /\ IF discovering THEN UNCHANGED available ELSE DiscoverDevices
    /\ reply' = NoReply
    /\ UNCHANGED <<bus, handler, ctx, claimed, file, ownership>>

StopDiscovery ==
    /\ handler # "absent"
    /\ discovering' = FALSE
    /\ reply' = NoReply
    /\ UNCHANGED <<bus, handler, ctx, available, claimed, file, ownership>>

SendDeviceList(p) ==
    /\ handler # "absent"
    /\ DiscoverDevices
    /\ reply' = Answer(p, "ITEM_LIST", NoDevice, "SUCCESS")
    /\ UNCHANGED <<bus, handler, ctx, discovering, claimed, file, ownership>>

StopAll ==  \* NoteUSBModule's stop: stop_discovery, then cleanup
    /\ handler # "absent"
    /\ ReleaseAllDevices
    /\ discovering' = FALSE
    /\ UNCHANGED <<handler, ctx>>

-----------------------------------------------------------------------------
(* Claim: client p names device d; d = NoDevice is a message without one *)

Refuse(p, e, d, code) ==
    /\ reply' = Answer(p, e, d, code)
    /\ UNCHANGED <<handler, ctx, discovering, available, claimed, file, ownership>>

\* Mutant: the handle stays open when the interface cannot be claimed.
LeftOpen(h, d) == OpenDevice(bus, h, d)

\* The device is opened, its interface not claimed, and the handle closed again.
BusAfterRefusal(h, d) == CloseDevice(OpenDevice(bus, h, d), h)

ClaimRefused(p, d) ==
    /\ \/ /\ d = NoDevice
          /\ Refuse(p, "ITEM_CLAIMED", d, "INVALID_MESSAGE")
       \/ /\ d \in Devices \ DOMAIN available
          /\ Refuse(p, "ITEM_CLAIMED", d, "DEVICE_NOT_FOUND")
       \/ /\ d \in DOMAIN available \cap DOMAIN claimed
          /\ Refuse(p, "ITEM_CLAIMED", d, "ITEM_NOT_AVAILABLE")
       \/ /\ d \in DOMAIN available \ (DOMAIN claimed \cup bus.present)
          /\ Refuse(p, "ITEM_CLAIMED", d, "DEVICE_NOT_FOUND")
       \/ /\ d \in (DOMAIN available \cap bus.present) \ DOMAIN claimed
          /\ FreeHandles(bus) = {} \/ LibusbMayFail
          /\ Refuse(p, "ITEM_CLAIMED", d, "PERMISSION_DENIED")
    /\ UNCHANGED bus

ClaimFails(p, d) ==
    /\ d \in (DOMAIN available \cap bus.present) \ DOMAIN claimed
    /\ LibusbMayFail \/ ~CanClaim(bus, d)
    /\ \E h \in FreeHandles(bus) : bus' = BusAfterRefusal(h, d)
    /\ Refuse(p, "ITEM_CLAIMED", d, "PERMISSION_DENIED")

\* Mutant: a device that is claimed already may be claimed again.
ClaimableAgain == DOMAIN available

Claimable == DOMAIN available \ DOMAIN claimed

\* The interface is claimed first and the kernel driver detached after it;
\* a driver that cannot be detached is left bound and the claim stands.
ClaimGranted(p, d) ==
    /\ d \in Claimable
    /\ CanClaim(bus, d)
    /\ \E h \in FreeHandles(bus), kdriver \in BOOLEAN :
          LET held  == ClaimInterface(OpenDevice(bus, h, d), h, d)
              entry == ClaimEntry(h, kdriver, p)
          IN  /\ kdriver => d \in bus.bound
              /\ bus' = IF kdriver THEN DetachDriver(held, d) ELSE held
              /\ claimed' = With(claimed, d, entry)
              /\ available' = With(available, d, entry)
              /\ file' = AddRecord(file, d, kdriver)
    /\ ownership' = IF handler = "linked" THEN ownership \cup {d} ELSE ownership
    /\ reply' = Answer(p, "ITEM_CLAIMED", d, "SUCCESS")
    /\ UNCHANGED <<handler, ctx, discovering>>

ClaimDevice(p, d) ==
    /\ handler # "absent"
    /\ ClaimRefused(p, d) \/ ClaimFails(p, d) \/ ClaimGranted(p, d)

-----------------------------------------------------------------------------
(* Release.  release_device is not told who asks: p is only where the answer *)
(* goes.  A message without a device gets no answer at all.                  *)

ReleaseRefused(p, d) ==
    \/ /\ d = NoDevice
       /\ reply' = NoReply
       /\ UNCHANGED <<bus, handler, ctx, discovering, available, claimed, file, ownership>>
    \/ /\ d \in Devices \ DOMAIN claimed
       /\ Refuse(p, "ITEM_RELEASED", d, "DEVICE_NOT_FOUND")
       /\ UNCHANGED bus

ReleaseGranted(p, d) ==
    /\ d \in DOMAIN claimed
    /\ \E attached \in Reattached({d}) :
          bus' = BusAfterRelease({d}, attached)
    /\ claimed' = Without(claimed, d)
    /\ available' = IF d \in DOMAIN available
                    THEN With(available, d, Unclaimed) ELSE available
    /\ file' = RemoveRecord(file, d)
    /\ ownership' = Unrouted({d})
    /\ reply' = Answer(p, "ITEM_RELEASED", d, "SUCCESS")
    /\ UNCHANGED <<handler, ctx, discovering>>

ReleaseDevice(p, d) ==
    /\ handler # "absent"
    /\ ReleaseRefused(p, d) \/ ReleaseGranted(p, d)

-----------------------------------------------------------------------------
(* Devices come and go while the handler holds them *)

Plug(d) ==
    /\ d \notin bus.present
    /\ \E driven \in BOOLEAN : bus' = PlugIn(bus, d, driven)
    /\ reply' = NoReply
    /\ UNCHANGED <<handler, ctx, discovering, available, claimed, file, ownership>>

Unplug(d) ==
    /\ d \in bus.present
    /\ bus' = PullOut(bus, d)
    /\ reply' = NoReply
    /\ UNCHANGED <<handler, ctx, discovering, available, claimed, file, ownership>>

Next ==
    \/ Construct
    \/ SetOwnershipRegistry
    \/ Destroy
    \/ StartDiscovery
    \/ StopDiscovery
    \/ StopAll
    \/ \E p \in Clients : SendDeviceList(p)
    \/ \E p \in Clients, d \in Devices \cup {NoDevice} : ClaimDevice(p, d)
    \/ \E p \in Clients, d \in Devices \cup {NoDevice} : ReleaseDevice(p, d)
    \/ \E d \in Devices : Plug(d)
    \/ \E d \in Devices : Unplug(d)

Spec == Init /\ [][Next]_vars

-----------------------------------------------------------------------------
(* Properties *)

\* Every variable has the shape of the code's: handles and owners only in the
\* tables, and a claim always with a handle.
TypeOK ==
    /\ bus \in Bus
    /\ handler \in {"absent", "bare", "linked"}
    /\ ctx \in BOOLEAN
    /\ discovering \in BOOLEAN
    /\ DOMAIN available \subseteq Devices
    /\ \A d \in DOMAIN available : available[d] \in Entry
    /\ DOMAIN claimed \subseteq Devices
    /\ \A d \in DOMAIN claimed : claimed[d] \in Entry /\ claimed[d].handle \in Handles
    /\ file \subseteq Record
    /\ ownership \subseteq Devices
    /\ reply \in Reply

\* No libusb handle leaks and none is shared: the open handles are exactly those
\* of the claim table, each opened on the device it is filed under, whatever was
\* refused, released or unplugged in between.
HandlesAccounted ==
    /\ \A d \in DOMAIN claimed : bus.open[claimed[d].handle] = d
    /\ \A h \in Handles : bus.open[h] # NoDevice =>
          /\ bus.open[h] \in DOMAIN claimed
          /\ claimed[bus.open[h]].handle = h

\* The interface of a device is held by the handle of its claim and by no other,
\* for as long as the device that was claimed stays plugged in: a device plugged in
\* later under the same name is not held by the claim on the first one.
InterfaceHeldByClaim ==
    \A d \in Devices :
        bus.holder[d] = IF d \in DOMAIN claimed /\ claimed[d].handle \in bus.live
                        THEN claimed[d].handle ELSE NoHandle

\* The crash-recovery file holds one record for each claim, with the driver flag
\* of the claim: what a monitor would need to undo it.
FileMatchesClaims ==
    file = {[device |-> d, kdriver |-> claimed[d].kdriver] : d \in DOMAIN claimed}

\* The daemon routes a device to this module exactly while the module has it
\* claimed (with no ownership registry, it routes nothing).
OwnershipMatchesClaims ==
    ownership = IF handler = "linked" THEN DOMAIN claimed ELSE {}

\* The descriptors handed out by discovery show a claim as long as it lasts and
\* never a handle that has been closed.
DescriptorsMirrorClaims ==
    /\ DOMAIN claimed \subseteq DOMAIN available
    /\ \A d \in DOMAIN available :
          available[d] = IF d \in DOMAIN claimed THEN claimed[d] ELSE Unclaimed

\* A plugged device that the kernel has a driver for is without it only under a
\* live claim that is recorded as having taken it: every way out of a claim gives
\* the driver back.
DriverNeverStranded ==
    \A d \in bus.wanted \ bus.bound :
        /\ d \in DOMAIN claimed
        /\ claimed[d].kdriver
        /\ claimed[d].handle \in bus.live

\* The handler implements DeviceLease: a claim is exclusive, is never overwritten
\* or handed on, and ends by a release of its device or of all of them.
leaseOf == [d \in Devices |-> IF d \in DOMAIN claimed THEN claimed[d].owner ELSE NoClient]

Lease == INSTANCE DeviceLease WITH lease <- leaseOf

ImplementsLease == Lease!Spec

\* docs/device_acquisition_api.md: a release verifies that the client asking is
\* the owner of the device.
OnlyOwnerReleases ==
    [][\A d \in DOMAIN claimed \ DOMAIN claimed' :
          reply'.event = "ITEM_RELEASED" => reply'.to = claimed[d].owner]_vars

\* docs/device_acquisition_api.md: the interface of a device is claimed and the
\* kernel driver, if active, detached: a driver does not stand in a claim's way.
DriverDoesNotPreventClaim ==
    reply.event = "ITEM_CLAIMED" /\ reply.code = "PERMISSION_DENIED" =>
        \/ FreeHandles(bus) = {}
        \/ bus.holder[reply.device] # NoHandle
=============================================================================
