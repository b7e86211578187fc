---------------------------- MODULE DeviceLease ----------------------------
(***************************************************************************)
(* What DeviceHandler promises to its clients, stripped of everything it   *)
(* does to keep the promise: a device is leased to at most one client, a   *)
(* lease is granted only when the device is free, and it ends alone or     *)
(* together with all the others, never by being passed on.                 *)
(***************************************************************************)
CONSTANTS Devices, Clients, NoClient

VARIABLE lease  \* device -> the client it is leased to, or NoClient

Init == lease = [d \in Devices |-> NoClient]

Grant(p, d) ==
    /\ lease[d] = NoClient
    /\ lease' = [lease EXCEPT ![d] = p]

End(d) == lease' = [lease EXCEPT ![d] = NoClient]

EndAll == lease' = [d \in Devices |-> NoClient]

Next ==
    \/ \E p \in Clients, d \in Devices : Grant(p, d)
    \/ \E d \in Devices : End(d)
    \/ EndAll

Spec == Init /\ [][Next]_lease
=============================================================================
