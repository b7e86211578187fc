----------------------------- MODULE DeviceUse -----------------------------
(***************************************************************************)
(* What keeps the handler and the sessions apart, stripped of handles,     *)
(* interfaces and tables: each device is in use by nobody, by the handler  *)
(* or by one session, a use begins only when nobody uses the device, and   *)
(* no step passes a device on from one user to the next.  The handler may  *)
(* use any number of devices, a session uses one at most: it abandons the  *)
(* one it has when it turns to another or is freed.  An abandoned device   *)
(* is free again only when it has been unplugged.                          *)
(***************************************************************************)
CONSTANTS Devices, Sessions

VARIABLES plugged,
          user  \* of each device

Using(u) == {d \in Devices : user[d] = u}

Passed(ds, u) == [d \in Devices |-> IF d \in ds THEN u ELSE user[d]]

\* Nobody uses a device when the program starts, whatever is plugged in.
Init ==
    /\ plugged \in SUBSET Devices
    /\ user = [d \in Devices |-> "nobody"]

HandlerBegins ==
    /\ \E d \in Using("nobody") \cap plugged : user' = Passed({d}, "handler")
    /\ UNCHANGED plugged

SessionBegins ==
    /\ \E s \in Sessions, d \in Using("nobody") \cap plugged :
          user' = [x \in Devices |-> IF x = d THEN s
                                     ELSE IF user[x] = s THEN "abandoned" ELSE user[x]]
    /\ UNCHANGED plugged

\* The handler may end all its uses at once.
Ends ==
    /\ \E u \in Sessions \cup {"handler"} : \E ds \in SUBSET Using(u) :
          user' = Passed(ds, "nobody")
    /\ UNCHANGED plugged

\* Sessions are freed, or turn away from their devices.
Abandons ==
    /\ \E ss \in SUBSET Sessions :
          user' = [d \in Devices |-> IF user[d] \in ss THEN "abandoned" ELSE user[d]]
    /\ UNCHANGED plugged

Plugs(d) ==
    /\ plugged' = plugged \cup {d}
    /\ UNCHANGED user

Unplugs(d) ==
    /\ plugged' = plugged \ {d}
    /\ user' = Passed({d}, "nobody")

Next ==
    \/ HandlerBegins \/ SessionBegins \/ Ends \/ Abandons
    \/ \E d \in Devices : Plugs(d) \/ Unplugs(d)

Spec == Init /\ [][Next]_<<plugged, user>>
=============================================================================
