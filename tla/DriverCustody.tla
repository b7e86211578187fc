--------------------------- MODULE DriverCustody ---------------------------
(***************************************************************************)
(* What the crash-recovery registry promises, stripped of files, processes *)
(* and monitors: each device's driver is with the kernel, with the daemon  *)
(* that has detached it, or, once that daemon has died, with recovery,     *)
(* which gives it back to the kernel.  As long as the registry is sound no *)
(* driver is lost; once it is not, those that the daemon or recovery had   *)
(* may be.                                                                 *)
(***************************************************************************)
CONSTANT Devices

VARIABLES custody,  \* of each device, who has its driver
          sound

Holders == {"kernel", "daemon", "recovery", "lost"}

With(who) == {d \in Devices : custody[d] = who}

Passed(ds, who) == [d \in Devices |-> IF d \in ds THEN who ELSE custody[d]]

Init ==
    /\ custody = [d \in Devices |-> "kernel"]
    /\ sound = TRUE

Detach ==
    /\ \E d \in With("kernel") : custody' = Passed({d}, "daemon")
    /\ UNCHANGED sound

\* One device is released, or all of them.
GiveBack ==
    /\ \E ds \in SUBSET With("daemon") : custody' = Passed(ds, "kernel")
    /\ UNCHANGED sound

\* The daemon dies, and leaves everything it had to recovery.
Inherit ==
    /\ custody' = Passed(With("daemon"), "recovery")
    /\ UNCHANGED sound

Repair ==
    /\ \E d \in With("recovery") : custody' = Passed({d}, "kernel")
    /\ UNCHANGED sound

\* Recovery forgets devices, or comes to know of some again, and so it may be with what
\* the daemon leaves it or gives back.  A driver the kernel has stays there.
Mislay ==
    /\ sound' = FALSE
    /\ custody' \in [Devices -> Holders]
    /\ \A d \in Devices :
          /\ custody[d] = "kernel" => custody'[d] = "kernel"
          /\ custody[d] \in {"recovery", "lost"} => custody'[d] \in {"recovery", "lost"}

Next == Detach \/ GiveBack \/ Inherit \/ Repair \/ Mislay

Spec == Init /\ [][Next]_<<custody, sound>>
=============================================================================
