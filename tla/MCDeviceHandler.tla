-------------------------- MODULE MCDeviceHandler --------------------------
(***************************************************************************)
(* An instance of DeviceHandler for TLC: two HID devices, a hub that is    *)
(* not HID, a handle for each device and two clients.                      *)
(***************************************************************************)
EXTENDS DeviceHandler, TLC

CONSTANTS d1, d2, hub, h1, h2, p1, p2

MCDevices == {d1, d2, hub}
MCHidDevices == {d1, d2}
MCHandles == {h1, h2}
MCClients == {p1, p2}

Symmetry ==
    Permutations(MCHidDevices) \cup Permutations(MCHandles) \cup Permutations(MCClients)
=============================================================================
