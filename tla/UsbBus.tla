------------------------------- MODULE UsbBus -------------------------------
(***************************************************************************)
(* The part of libusb and of the kernel that NoteUSB depends on, modelled  *)
(* from the calls the code makes.  None of it is NoteUSB's own code.       *)
(*                                                                         *)
(* A device is named by its "bus:address" string.  The bus is one record:  *)
(*   present  the devices plugged in                                       *)
(*   wanted   those for which the kernel has a driver of its own           *)
(*   bound    those whose interface 0 the kernel driver is driving         *)
(*   open     what each libusb_device_handle was opened on                 *)
(*   live     the handles whose device has not been unplugged since        *)
(*   holder   the handle that has claimed a device's interface 0           *)
(***************************************************************************)
EXTENDS Naturals, FiniteSets

CONSTANTS Devices,         \* bus:address names
          HidDevices,      \* those with an interface of class HID
          Handles,         \* the handles the process may have open at once
          NoDevice,
          NoHandle,
          KernelExclusive  \* is claiming refused while a kernel driver is bound?

ASSUME BusAssumption ==
    /\ HidDevices \subseteq Devices
    /\ NoDevice \notin Devices
    /\ NoHandle \notin Handles
    /\ KernelExclusive \in BOOLEAN

Bus == [present : SUBSET Devices,
        wanted  : SUBSET Devices,
        bound   : SUBSET Devices,
        open    : [Handles -> Devices \cup {NoDevice}],
        live    : SUBSET Handles,
        holder  : [Devices -> Handles \cup {NoHandle}]]

BusStart(plugged, driven) ==
    [present |-> plugged, wanted |-> driven, bound |-> driven,
     open    |-> [h \in Handles |-> NoDevice],
     live    |-> {},
     holder  |-> [d \in Devices |-> NoHandle]]

-----------------------------------------------------------------------------
(* libusb_open, libusb_close, libusb_claim_interface, libusb_detach_kernel_driver *)

FreeHandles(u) == {h \in Handles : u.open[h] = NoDevice}

OpenDevice(u, h, d) == [u EXCEPT !.open[h] = d, !.live = @ \cup {h}]

\* For a handle that has claimed nothing.
CloseDevice(u, h) == [u EXCEPT !.open[h] = NoDevice, !.live = @ \ {h}]

CanClaim(u, d) ==
    /\ d \in u.present
    /\ u.holder[d] = NoHandle
    /\ KernelExclusive => d \notin u.bound

ClaimInterface(u, h, d) == [u EXCEPT !.holder[d] = h]

DetachDriver(u, d) == [u EXCEPT !.bound = @ \ {d}]

\* libusb_release_interface alone; it fails, and changes nothing, for a handle that
\* no longer holds the interface.
ReleaseInterface(u, h, d) ==
    [u EXCEPT !.holder[d] = IF @ = h THEN NoHandle ELSE @]

-----------------------------------------------------------------------------
(* libusb_release_interface, then libusb_attach_kernel_driver where one was *)
(* detached, then libusb_close, for the devices ds of the claim table c.    *)
(* "attached" are the devices for which the kernel accepts its driver back. *)

Rebindable(u, c, ds) ==
    {d \in ds : /\ c[d].kdriver
                /\ c[d].handle \in u.live
                /\ u.holder[d] \in {c[d].handle, NoHandle}}

GiveBack(u, c, ds, attached) ==
    LET closed == {c[d].handle : d \in ds}
    IN  [u EXCEPT
          !.bound  = @ \cup (attached \cap Rebindable(u, c, ds)),
          !.open   = [h \in Handles |-> IF h \in closed THEN NoDevice ELSE @[h]],
          !.live   = @ \ closed,
          !.holder = [d \in Devices |-> IF @[d] \in closed THEN NoHandle ELSE @[d]]]

-----------------------------------------------------------------------------
(* The cable: a device arrives, with or without a kernel driver for it, or *)
(* leaves with its interface claimed and its handles still open.           *)

PlugIn(u, d, driven) ==
    [u EXCEPT !.present = @ \cup {d},
              !.wanted  = IF driven THEN @ \cup {d} ELSE @,
              !.bound   = IF driven THEN @ \cup {d} ELSE @]

PullOut(u, d) ==
    [u EXCEPT !.present = @ \ {d},
              !.wanted  = @ \ {d},
              !.bound   = @ \ {d},
              !.live    = {h \in @ : u.open[h] # d},
              !.holder[d] = NoHandle]
=============================================================================
