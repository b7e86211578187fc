--------------------------- MODULE CrashRecovery ---------------------------
(***************************************************************************)
(* The crash-recovery registry: a file that the daemon process rewrites    *)
(* for each claim and release, that its successor clears when it comes up, *)
(* and that a monitor process reads once the daemon it watches is dead, to *)
(* give the kernel drivers back.  The file is read and rewritten in steps  *)
(* that a crash may separate, and that nothing orders between processes.   *)
(*                                                                         *)
(* Every device here is plugged in, of class HID and has a kernel driver.  *)
(* The claims of device-socket sessions are never recorded and are left    *)
(* out.  gap is a history variable: the first of the known ways in which a *)
(* driver can get lost that has occurred.                                  *)
(***************************************************************************)
EXTENDS Naturals, FiniteSets

CONSTANTS Devices,
          MaxDaemons  \* bound: the daemon processes that are started, one at a time

ASSUME RecoveryAssumption == MaxDaemons \in Nat \ {0}

Pids == 1..MaxDaemons

VARIABLES
    daemon,   \* "down" or where the daemon process is
    pid,      \* of the daemon process, the last one started
    busy,     \* the devices being claimed or released, one at most
    held,     \* claimed_devices_ of the daemon
    owed,     \* those whose driver it has detached
    todo,     \* what it is about to write to the file
    bound,    \* the devices that have their kernel driver
    file,     \* the records in the registry file
    monitor,  \* of each pid, the monitor process; "off" when it has none
    list,     \* the records of devices it still has to see to
    rest,     \* what it is about to leave in the file
    gap       \* history: the first of the Gaps that has occurred, or "none"

daemonVars == <<daemon, pid, busy, held, owed, todo>>

monitorVars == <<monitor, list, rest>>

vars == <<daemonVars, bound, file, monitorVars, gap>>

Record == [device : Devices, pid : Pids]

DaemonPC == {"down", "booting", "ready", "claimed", "released", "writing", "truncated", "exiting"}

\* A claim interrupted by a crash, the crash of a process that has no monitor, a record wiped
\* or overwritten before its monitor has read it, a device claimed while its driver was off,
\* a record that could not be written or that its monitor looked for between truncating and
\* writing, and a driver that the kernel refused to take back.
Gaps == {"interrupted", "unmonitored", "wiped", "overwritten", "claimedBare", "unwritten",
         "unread", "refused"}

Init ==
    /\ daemon = "down" /\ pid = 0
    /\ busy = {} /\ held = {} /\ owed = {} /\ todo = {}
    /\ bound = Devices
    /\ file = {}
    /\ monitor = [i \in Pids |-> "off"]
    /\ list = [i \in Pids |-> {}]
    /\ rest = [i \in Pids |-> {}]
    /\ gap = "none"

Noted(way, occurs) == IF occurs /\ gap = "none" THEN way ELSE gap

\* The records that a monitor has still to read.
Pending(records) == {r \in records : monitor[r.pid] = "watching"}

\* What the file will be once a rewrite that has begun is through.
Contents == IF daemon = "truncated" THEN todo ELSE file

-----------------------------------------------------------------------------
(* The daemon process comes up and goes down *)

Boot ==
    /\ daemon = "down" /\ pid < MaxDaemons
    /\ daemon' = "booting"
    /\ pid' = pid + 1
    /\ UNCHANGED <<busy, held, owed, todo, bound, file, monitorVars, gap>>

\* A registry that cannot be opened for writing stays as it is, and nobody looks.
Cleared == {{}, file}

\* start() starts a monitor if it is configured to, which it is not by default, and goes on
\* without one when fork or exec fails.
MonitorStarted == {[monitor EXCEPT ![pid] = "watching"], monitor}

\* set_ownership_registry destroys the first handler, which clears the registry.
ComeUp ==
    /\ daemon = "booting"
    /\ file' \in Cleared
    /\ gap' = Noted("wiped", ~(Pending(file) \subseteq file'))
    /\ daemon' = "ready"
    /\ monitor' \in MonitorStarted
    /\ UNCHANGED <<pid, busy, held, owed, todo, bound, list, rest>>

\* The kernel is given the drivers of devices ds back; whether it takes them is not looked at.
Returned(ds) ==
    \E attached \in SUBSET (owed \cap ds) :
        /\ bound' = bound \cup attached
        /\ gap' = Noted("refused", attached # owed \cap ds)

\* release_all_devices, and then its DeviceRegistry::remove_all.
ReleaseAll ==
    /\ daemon = "ready"
    /\ daemon' = "exiting"
    /\ Returned(held)
    /\ held' = {} /\ owed' = {}
    /\ UNCHANGED <<pid, busy, todo, file, monitorVars>>

Exit ==
    /\ daemon = "exiting"
    /\ file' \in Cleared
    /\ gap' = Noted("wiped", \E r \in Pending(file) \ file' : r.pid # pid)
    /\ daemon' = "down"
    /\ UNCHANGED <<pid, busy, held, owed, todo, bound, monitorVars>>

\* Nobody will see to the drivers that the daemon owes.
Unmonitored == monitor[pid] = "off" /\ owed # {}

\* The kernel frees the interfaces of a process that dies; the drivers stay off.
Crash ==
    /\ daemon # "down"
    /\ daemon' = "down"
    /\ busy' = {} /\ held' = {} /\ owed' = {} /\ todo' = {}
    /\ gap' = IF Unmonitored THEN Noted("unmonitored", TRUE)
              ELSE Noted("interrupted", \/ daemon = "truncated"
                                        \/ daemon \in {"claimed", "writing"} /\ busy \cap held # {})
    /\ UNCHANGED <<pid, bound, file, monitorVars>>

-----------------------------------------------------------------------------
(* The daemon process claims and releases.  The interface is claimed and the *)
(* driver detached, if that succeeds, before anything is recorded.           *)

\* Mutant: a driver that is off already counts as detached.
CountsAsDetached(d) == {d}

\* Only a driver that is active can be detached.
Active(d) == bound \cap {d}

Claim(d) ==
    /\ daemon = "ready" /\ d \notin held
    /\ held' = held \cup {d}
    /\ \E detached \in SUBSET Active(d) :
          /\ bound' = bound \ detached
          /\ owed' = owed \cup detached
    /\ gap' = Noted("claimedBare", d \notin bound)
    /\ daemon' = "claimed"
    /\ busy' = {d}
    /\ UNCHANGED <<pid, todo, file, monitorVars>>

\* Mutant: the records of other devices are lost on the way.
RecordedAlone(records, d) == {[device |-> d, pid |-> pid]}

Recorded(records, d) == {r \in records : r.device # d} \cup {[device |-> d, pid |-> pid]}

AddReads ==
    /\ daemon = "claimed"
    /\ \E d \in busy : todo' = Recorded(file, d)
    /\ daemon' = "writing"
    /\ UNCHANGED <<pid, busy, held, owed, bound, file, monitorVars, gap>>

\* Mutant: a driver that has been given back is still owed.
StillOwed(d) == owed

Settled(d) == owed \ {d}

Release(d) ==
    /\ daemon = "ready" /\ d \in held
    /\ held' = held \ {d}
    /\ owed' = Settled(d)
    /\ Returned({d})
    /\ daemon' = "released"
    /\ busy' = {d}
    /\ UNCHANGED <<pid, todo, file, monitorVars>>

\* Nothing is written when the device has no record.
RemoveReads ==
    /\ daemon = "released"
    /\ todo' = {r \in file : r.device \notin busy}
    /\ daemon' = IF todo' = file THEN "ready" ELSE "writing"
    /\ UNCHANGED <<pid, busy, held, owed, bound, file, monitorVars, gap>>

\* Opening the file for writing empties it; the records get there when it is closed.
Truncate ==
    /\ daemon = "writing"
    /\ file' = {}
    /\ daemon' = "truncated"
    /\ UNCHANGED <<pid, busy, held, owed, todo, bound, monitorVars, gap>>

Write ==
    /\ daemon = "truncated"
    /\ file' = todo
    /\ daemon' = "ready"
    /\ busy' = {} /\ todo' = {}
    /\ UNCHANGED <<pid, held, owed, bound, monitorVars, gap>>

\* The file cannot be opened, or the records not be written, and nobody looks.
WriteFails ==
    /\ daemon \in {"writing", "truncated"}
    /\ daemon' = "ready"
    /\ busy' = {} /\ todo' = {}
    /\ gap' = Noted("unwritten", ~(Pending(todo) \subseteq file))
    /\ UNCHANGED <<pid, held, owed, bound, file, monitorVars>>

-----------------------------------------------------------------------------
(* The monitor of process i *)

Dead(i) == daemon = "down" \/ pid # i

MonitorReads(i) ==
    /\ monitor[i] = "watching" /\ Dead(i)
    /\ list' = [list EXCEPT ![i] = {r \in file : r.pid = i}]
    /\ monitor' = [monitor EXCEPT ![i] = "reattaching"]
    /\ gap' = Noted("unread", \E r \in Contents \ file : r.pid = i)
    /\ UNCHANGED <<daemonVars, bound, file, rest>>

\* Mutant: the monitor trusts that a successor will see to the device.
GivenUp(d) == bound

\* The kernel refuses a driver while the interface is claimed.
Reattached(d) == IF d \in held THEN bound ELSE bound \cup {d}

\* Failures of libusb and of the kernel are counted and otherwise ignored.
MonitorReattaches(i) ==
    /\ monitor[i] = "reattaching"
    /\ \E r \in list[i] :
          /\ list' = [list EXCEPT ![i] = @ \ {r}]
          /\ \/ bound' = Reattached(r.device) /\ UNCHANGED gap
             \/ gap' = Noted("refused", r.device \notin bound) /\ UNCHANGED bound
    /\ UNCHANGED <<daemonVars, file, monitor, rest>>

\* remove_all_by_pid is NoteDaemon's: it too reads the file and then rewrites it.
MonitorRereads(i) ==
    /\ monitor[i] = "reattaching" /\ list[i] = {}
    /\ rest' = [rest EXCEPT ![i] = {r \in file : r.pid # i}]
    /\ monitor' = [monitor EXCEPT ![i] = "removing"]
    /\ UNCHANGED <<daemonVars, bound, file, list, gap>>

MonitorRemoves(i) ==
    /\ monitor[i] = "removing"
    /\ file' = rest[i]
    /\ gap' = Noted("overwritten", ~(Pending(file) \subseteq rest[i]))
    /\ rest' = [rest EXCEPT ![i] = {}]
    /\ monitor' = [monitor EXCEPT ![i] = "done"]
    /\ UNCHANGED <<daemonVars, bound, list>>

-----------------------------------------------------------------------------
Monitor(i) ==
    MonitorReads(i) \/ MonitorReattaches(i) \/ MonitorRereads(i) \/ MonitorRemoves(i)

Daemon ==
    \/ Boot \/ ComeUp \/ ReleaseAll \/ Exit \/ Crash
    \/ \E d \in Devices : Claim(d) \/ Release(d)
    \/ AddReads \/ RemoveReads \/ Truncate \/ Write \/ WriteFails

Next == Daemon \/ \E i \in Pids : Monitor(i)

\* Only the monitors have to get on: a daemon may stay down, or up, for ever.
Spec == Init /\ [][Next]_vars /\ \A i \in Pids : WF_vars(Monitor(i))

-----------------------------------------------------------------------------
(* Properties *)

\* Every variable has its type; a driver is owed for claimed devices only, and a
\* process that is down has nothing.
TypeOK ==
    /\ daemon \in DaemonPC
    /\ pid \in 0..MaxDaemons
    /\ busy \subseteq Devices
    /\ held \subseteq Devices /\ owed \subseteq held
    /\ daemon = "down" => held = {}
    /\ todo \subseteq Record
    /\ bound \subseteq Devices /\ owed \cap bound = {}
    /\ file \subseteq Record
    /\ monitor \in [Pids -> {"off", "watching", "reattaching", "removing", "done"}]
    /\ list \in [Pids -> SUBSET Record]
    /\ rest \in [Pids -> SUBSET Record]
    /\ gap \in Gaps \cup {"none"}

\* Is there a record of the device for a monitor to read, or has one read it?
Known(d) ==
    \/ \E r \in Pending(Contents) : r.device = d
    \/ \E i \in Pids : \E r \in list[i] : r.device = d

\* A device without its driver is never forgotten, by any interleaving of daemons,
\* crashes and monitors, except through one of the gaps: it is owed by the daemon
\* that runs, or recorded for a monitor still to read, or on a monitor's list.
ForgottenOnlyThroughGaps ==
    gap = "none" => \A d \in Devices \ bound : d \in owed \/ Known(d)

\* When the daemon is down and no monitor is at work any more, every device has its
\* driver, unless one of the gaps has occurred: no monitor stops, or is told to, before
\* it has seen to everything its daemon left.
NothingLeftToRepair ==
    /\ daemon = "down" /\ gap = "none"
    /\ \A i \in Pids : monitor[i] \in {"off", "done"}
    => bound = Devices

\* Recovery has a driver that is off, and that the daemon does not owe, as long as the
\* device is known.
CustodyOf ==
    [d \in Devices |->
        IF d \in bound THEN "kernel"
        ELSE IF d \in owed THEN "daemon"
        ELSE IF Known(d) THEN "recovery" ELSE "lost"]

Custody == INSTANCE DriverCustody WITH custody <- CustodyOf, sound <- (gap = "none")

\* The file, its rewriting in steps and the monitors implement the custody of drivers: a
\* driver leaves the kernel for the daemon only, one device at a time; only the death of
\* the daemon passes it on, everything at once, to recovery; and recovery gives it to the
\* kernel, never to another daemon.
ImplementsCustody == Custody!Spec

\* If the daemon stays down and no gap has occurred, its monitors give every device
\* its driver back.
RepairedWithoutGaps ==
    <>[](daemon = "down" /\ gap = "none") => <>[](bound = Devices)

\* docs/device_acquisition_simulation.md: the monitor reattaches kernel drivers
\* after a daemon crash and prevents a device from being stuck in detached state.  Here with
\* a monitor, a file that can be written, a kernel that takes its drivers, and no second
\* daemon.
CrashIsRepaired ==
    [](gap \in {"none", "interrupted"}) /\ <>[](daemon = "down") => <>[](bound = Devices)
=============================================================================
