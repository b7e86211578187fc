------------------------ MODULE CrashRecovery_proofs ------------------------
(***************************************************************************)
(* Proofs about CrashRecovery for every set of devices and any number of   *)
(* daemon processes: the types are right, a device without its driver is   *)
(* forgotten through one of the gaps only, and files, processes and        *)
(* monitors implement the custody of drivers.                              *)
(***************************************************************************)
EXTENDS CrashRecovery, TLAPS

USE RecoveryAssumption

-----------------------------------------------------------------------------
(* The inductive invariant *)

\* A process has its pid, and holds nothing before it is ready and after it has released
\* everything.
HoldsWhileReady ==
    /\ daemon \in {"down", "booting", "exiting"} => held = {}
    /\ daemon # "down" => pid \in Pids

\* A process that claims is busy with one device; one it releases it no longer holds.
BusyWithOne ==
    /\ daemon = "claimed" => \E d \in held : busy = {d}
    /\ daemon = "released" => busy \cap held = {}

\* Each process has its monitor, if any, once it is ready, and no monitor has a list before its
\* process has died or after it has seen to it.
MonitorsReady ==
    /\ \A i \in Pids : i > pid => monitor[i] = "off"
    /\ daemon = "booting" => monitor[pid] = "off"
    /\ daemon \notin {"down", "booting"} => monitor[pid] \in {"watching", "off"}
    /\ \A i \in Pids : monitor[i] # "reattaching" => list[i] = {}

\* The record by which the monitor of the running process knows device d.
RecordOf(d) == [device |-> d, pid |-> pid]

Listed(d) == \E i \in Pids : \E r \in list[i] : r.device = d

\* Without a gap, each driver that is owed by a process with a monitor has its record, unless
\* it is being made, and a device that has been released has its driver.
OwedRecorded ==
    gap = "none" =>
        /\ held \subseteq bound \cup owed
        /\ daemon = "released" => busy \subseteq bound
        /\ monitor[pid] = "watching" => \A d \in owed :
              /\ daemon \in {"ready", "released"} => RecordOf(d) \in file
              /\ daemon \in {"claimed", "writing"} => RecordOf(d) \in file \/ d \in busy
              /\ daemon \in {"writing", "truncated"} => RecordOf(d) \in todo

\* Does a record of another process, for its monitor still to read, name device d?
Inherited(d, records) == \E r \in Pending(records) : r.pid # pid /\ r.device = d

\* Without a gap, a driver that the process does not owe itself is known from a monitor's
\* list or from another process's record; and what it is about to write keeps the records
\* of other processes, and takes none from elsewhere.
InheritedKnown ==
    gap = "none" =>
        /\ daemon \notin {"down", "booting"} =>
              \A d \in Devices \ bound : d \in owed \/ Listed(d) \/ Inherited(d, Contents)
        /\ daemon = "writing" =>
              /\ \A d \in Devices \ bound : d \in owed \/ Listed(d) \/ Inherited(d, todo)
              /\ \A r \in Pending(todo) : r.pid # pid => r \in file

IInv ==
    /\ TypeOK /\ HoldsWhileReady /\ BusyWithOne /\ MonitorsReady
    /\ OwedRecorded /\ InheritedKnown /\ ForgottenOnlyThroughGaps

-----------------------------------------------------------------------------
(* Steps *)

LEMMA InitInv == Init => IInv
  BY DEF Init, IInv, TypeOK, DaemonPC, Gaps, Pids, HoldsWhileReady, BusyWithOne,
         MonitorsReady, OwedRecorded, InheritedKnown, ForgottenOnlyThroughGaps

\* Every step keeps the types.
LEMMA TypeStep ==
    ASSUME TypeOK, HoldsWhileReady, [Next]_vars
    PROVE  TypeOK'
  <1> USE DEF TypeOK, HoldsWhileReady, DaemonPC, Gaps, Noted, Pids, Record,
              daemonVars, monitorVars, Recorded, Settled, Reattached
  <1>1. CASE Boot
    BY <1>1 DEF Boot
  <1>2. CASE ComeUp
    BY <1>2 DEF ComeUp, Cleared, MonitorStarted
  <1>3. CASE ReleaseAll
    BY <1>3 DEF ReleaseAll, Returned
  <1>4. CASE Exit
    BY <1>4 DEF Exit, Cleared
  <1>5. CASE Crash
    BY <1>5 DEF Crash, Unmonitored
  <1>6. ASSUME NEW d \in Devices, Claim(d) PROVE TypeOK'
    BY <1>6 DEF Claim, Active
  <1>7. ASSUME NEW d \in Devices, Release(d) PROVE TypeOK'
    BY <1>7 DEF Release, Returned
  <1>8. CASE AddReads
    BY <1>8 DEF AddReads
  <1>9. CASE RemoveReads
    BY <1>9 DEF RemoveReads
  <1>10. CASE Truncate
    BY <1>10 DEF Truncate
  <1>11. CASE Write
    BY <1>11 DEF Write
  <1>17. CASE WriteFails
    BY <1>17 DEF WriteFails
  <1>12. ASSUME NEW i \in Pids, MonitorReads(i) PROVE TypeOK'
    BY <1>12 DEF MonitorReads, Contents
  <1>13. ASSUME NEW i \in Pids, MonitorReattaches(i) PROVE TypeOK'
    BY <1>13 DEF MonitorReattaches
  <1>14. ASSUME NEW i \in Pids, MonitorRereads(i) PROVE TypeOK'
    BY <1>14 DEF MonitorRereads
  <1>15. ASSUME NEW i \in Pids, MonitorRemoves(i) PROVE TypeOK'
    BY <1>15 DEF MonitorRemoves
  <1>16. CASE UNCHANGED vars
    BY <1>16 DEF vars, daemonVars, monitorVars
  <1> QED
    BY <1>1, <1>2, <1>3, <1>4, <1>5, <1>6, <1>7, <1>8,
       <1>9, <1>10, <1>11, <1>12, <1>13, <1>14, <1>15, <1>16, <1>17
       DEF Next, Daemon, Monitor

\* Every step keeps what a process holds and is busy with.
LEMMA ReadyStep ==
    ASSUME TypeOK, HoldsWhileReady, BusyWithOne, [Next]_vars
    PROVE  HoldsWhileReady' /\ BusyWithOne'
  <1> USE DEF TypeOK, HoldsWhileReady, BusyWithOne, Pids, daemonVars, monitorVars
  <1>1. CASE Boot
    BY <1>1 DEF Boot
  <1>2. CASE ComeUp
    BY <1>2 DEF ComeUp, Cleared, MonitorStarted
  <1>3. CASE ReleaseAll
    BY <1>3 DEF ReleaseAll, Returned
  <1>4. CASE Exit
    BY <1>4 DEF Exit, Cleared
  <1>5. CASE Crash
    BY <1>5 DEF Crash, Unmonitored
  <1>6. ASSUME NEW d \in Devices, Claim(d) PROVE HoldsWhileReady' /\ BusyWithOne'
    BY <1>6 DEF Claim, Active
  <1>7. ASSUME NEW d \in Devices, Release(d) PROVE HoldsWhileReady' /\ BusyWithOne'
    BY <1>7 DEF Release, Returned
  <1>8. CASE AddReads
    BY <1>8 DEF AddReads
  <1>9. CASE RemoveReads
    BY <1>9 DEF RemoveReads
  <1>10. CASE Truncate
    BY <1>10 DEF Truncate
  <1>11. CASE Write
    BY <1>11 DEF Write
  <1>17. CASE WriteFails
    BY <1>17 DEF WriteFails
  <1>12. ASSUME NEW i \in Pids, MonitorReads(i) PROVE HoldsWhileReady' /\ BusyWithOne'
    BY <1>12 DEF MonitorReads, Contents
  <1>13. ASSUME NEW i \in Pids, MonitorReattaches(i) PROVE HoldsWhileReady' /\ BusyWithOne'
    BY <1>13 DEF MonitorReattaches
  <1>14. ASSUME NEW i \in Pids, MonitorRereads(i) PROVE HoldsWhileReady' /\ BusyWithOne'
    BY <1>14 DEF MonitorRereads
  <1>15. ASSUME NEW i \in Pids, MonitorRemoves(i) PROVE HoldsWhileReady' /\ BusyWithOne'
    BY <1>15 DEF MonitorRemoves
  <1>16. CASE UNCHANGED vars
    BY <1>16 DEF vars, daemonVars, monitorVars
  <1> QED
    BY <1>1, <1>2, <1>3, <1>4, <1>5, <1>6, <1>7, <1>8,
       <1>9, <1>10, <1>11, <1>12, <1>13, <1>14, <1>15, <1>16, <1>17
       DEF Next, Daemon, Monitor

\* Every step keeps the order in which monitors come and read.
LEMMA MonitorsStep ==
    ASSUME TypeOK, HoldsWhileReady, MonitorsReady, [Next]_vars
    PROVE  MonitorsReady'
  <1> USE DEF TypeOK, HoldsWhileReady, MonitorsReady, Dead, Pids, daemonVars, monitorVars
  <1>1. CASE Boot
    BY <1>1 DEF Boot
  <1>2. CASE ComeUp
    BY <1>2 DEF ComeUp, Cleared, MonitorStarted
  <1>3. CASE ReleaseAll
    BY <1>3 DEF ReleaseAll, Returned
  <1>4. CASE Exit
    BY <1>4 DEF Exit, Cleared
  <1>5. CASE Crash
    BY <1>5 DEF Crash, Unmonitored
  <1>6. ASSUME NEW d \in Devices, Claim(d) PROVE MonitorsReady'
    BY <1>6 DEF Claim, Active
  <1>7. ASSUME NEW d \in Devices, Release(d) PROVE MonitorsReady'
    BY <1>7 DEF Release, Returned
  <1>8. CASE AddReads
    BY <1>8 DEF AddReads
  <1>9. CASE RemoveReads
    BY <1>9 DEF RemoveReads
  <1>10. CASE Truncate
    BY <1>10 DEF Truncate
  <1>11. CASE Write
    BY <1>11 DEF Write
  <1>17. CASE WriteFails
    BY <1>17 DEF WriteFails
  <1>12. ASSUME NEW i \in Pids, MonitorReads(i) PROVE MonitorsReady'
    BY <1>12 DEF MonitorReads, Contents
  <1>13. ASSUME NEW i \in Pids, MonitorReattaches(i) PROVE MonitorsReady'
    BY <1>13 DEF MonitorReattaches
  <1>14. ASSUME NEW i \in Pids, MonitorRereads(i) PROVE MonitorsReady'
    BY <1>14 DEF MonitorRereads
  <1>15. ASSUME NEW i \in Pids, MonitorRemoves(i) PROVE MonitorsReady'
    BY <1>15 DEF MonitorRemoves
  <1>16. CASE UNCHANGED vars
    BY <1>16 DEF vars, daemonVars, monitorVars
  <1> QED
    BY <1>1, <1>2, <1>3, <1>4, <1>5, <1>6, <1>7, <1>8,
       <1>9, <1>10, <1>11, <1>12, <1>13, <1>14, <1>15, <1>16, <1>17
       DEF Next, Daemon, Monitor

\* Every step keeps a record for each driver that is owed.
LEMMA OwedStep ==
    ASSUME TypeOK, HoldsWhileReady, BusyWithOne, MonitorsReady, OwedRecorded, [Next]_vars
    PROVE  OwedRecorded'
  <1> USE DEF TypeOK, HoldsWhileReady, BusyWithOne, MonitorsReady, OwedRecorded,
              RecordOf, Pending, Noted, Pids, daemonVars, monitorVars, Recorded,
              Settled, Reattached
  <1>1. CASE Boot
    BY <1>1 DEF Boot
  <1>2. CASE ComeUp
    BY <1>2 DEF ComeUp, Cleared, MonitorStarted
  <1>3. CASE ReleaseAll
    BY <1>3 DEF ReleaseAll, Returned
  <1>4. CASE Exit
    BY <1>4 DEF Exit, Cleared
  <1>5. CASE Crash
    BY <1>5 DEF Crash, Unmonitored
  <1>6. ASSUME NEW d \in Devices, Claim(d) PROVE OwedRecorded'
    BY <1>6 DEF Claim, Active
  <1>7. ASSUME NEW d \in Devices, Release(d) PROVE OwedRecorded'
    BY <1>7 DEF Release, Returned
  <1>8. CASE AddReads
    BY <1>8 DEF AddReads
  <1>9. CASE RemoveReads
    BY <1>9 DEF RemoveReads
  <1>10. CASE Truncate
    BY <1>10 DEF Truncate
  <1>11. CASE Write
    BY <1>11 DEF Write
  <1>17. CASE WriteFails
    BY <1>17 DEF WriteFails
  <1>12. ASSUME NEW i \in Pids, MonitorReads(i) PROVE OwedRecorded'
    BY <1>12 DEF MonitorReads, Contents
  <1>13. ASSUME NEW i \in Pids, MonitorReattaches(i) PROVE OwedRecorded'
    BY <1>13 DEF MonitorReattaches
  <1>14. ASSUME NEW i \in Pids, MonitorRereads(i) PROVE OwedRecorded'
    BY <1>14 DEF MonitorRereads
  <1>15. ASSUME NEW i \in Pids, MonitorRemoves(i) PROVE OwedRecorded'
    BY <1>15 DEF MonitorRemoves
  <1>16. CASE UNCHANGED vars
    BY <1>16 DEF vars, daemonVars, monitorVars
  <1> QED
    BY <1>1, <1>2, <1>3, <1>4, <1>5, <1>6, <1>7, <1>8,
       <1>9, <1>10, <1>11, <1>12, <1>13, <1>14, <1>15, <1>16, <1>17
       DEF Next, Daemon, Monitor

\* Every step keeps the inherited drivers listed.
LEMMA InheritedStep ==
    ASSUME TypeOK, HoldsWhileReady, BusyWithOne, MonitorsReady, OwedRecorded,
           InheritedKnown, ForgottenOnlyThroughGaps, [Next]_vars
    PROVE  InheritedKnown'
  <1> USE DEF TypeOK, HoldsWhileReady, BusyWithOne, MonitorsReady, OwedRecorded,
              InheritedKnown, ForgottenOnlyThroughGaps, Known, Listed, Inherited, Pending,
              Contents, Record, Recorded, Settled, Reattached, Noted, Pids, daemonVars,
              monitorVars
  <1>1. CASE Boot
    BY <1>1 DEF Boot
  <1>2. CASE ComeUp
    BY <1>2 DEF ComeUp, Cleared, MonitorStarted
  <1>3. CASE ReleaseAll
    BY <1>3 DEF ReleaseAll, Returned
  <1>4. CASE Exit
    BY <1>4 DEF Exit, Cleared
  <1>5. CASE Crash
    BY <1>5 DEF Crash, Unmonitored
  <1>6. ASSUME NEW d \in Devices, Claim(d) PROVE InheritedKnown'
    BY <1>6 DEF Claim, Active
  <1>7. ASSUME NEW d \in Devices, Release(d) PROVE InheritedKnown'
    BY <1>7 DEF Release, Returned
  <1>8. CASE AddReads
    BY <1>8 DEF AddReads
  <1>9. CASE RemoveReads
    BY <1>9 DEF RemoveReads
  <1>10. CASE Truncate
    BY <1>10 DEF Truncate
  <1>11. CASE Write
    BY <1>11 DEF Write
  <1>17. CASE WriteFails
    BY <1>17 DEF WriteFails
  <1>12. ASSUME NEW i \in Pids, MonitorReads(i) PROVE InheritedKnown'
    <2> SUFFICES ASSUME gap' = "none"
                 PROVE  InheritedKnown'
      OBVIOUS
    <2>1. gap = "none" /\ \A r \in Contents : r.pid = i => r \in file
      BY <1>12 DEF MonitorReads
    <2>2. UNCHANGED <<daemon, pid, owed, bound, file, todo>>
      BY <1>12 DEF MonitorReads
    <2>3. ASSUME NEW d, Listed(d)
          PROVE  Listed(d)'
      BY <1>12, <2>3 DEF MonitorReads
    <2>4. ASSUME NEW d, NEW records \in SUBSET Record, Inherited(d, records),
                 \A r \in Pending(records) : r.pid = i => r \in file
          PROVE  Listed(d)' \/ \E r \in records : /\ monitor'[r.pid] = "watching"
                                                /\ r.pid # pid /\ r.device = d
      <3>1. PICK r \in Pending(records) : r.pid # pid /\ r.device = d
        BY <2>4
      <3>2. CASE r.pid = i
        BY <1>12, <2>4, <3>1, <3>2 DEF MonitorReads
      <3>3. CASE r.pid # i
        BY <1>12, <3>1, <3>3 DEF MonitorReads
      <3> QED
        BY <3>2, <3>3
    <2>5. ASSUME daemon \notin {"down", "booting"}, NEW d \in Devices \ bound
          PROVE  d \in owed \/ Listed(d)' \/ Inherited(d, Contents)'
      <3>1. d \in owed \/ Listed(d) \/ Inherited(d, Contents)
        BY <2>1, <2>5
      <3>2. Contents \in SUBSET Record /\ Contents' = Contents
        BY <2>2 DEF Record
      <3>3. ASSUME Inherited(d, Contents)
            PROVE  Listed(d)' \/ Inherited(d, Contents)'
        <4>1. \/ Listed(d)'
              \/ \E r \in Contents : /\ monitor'[r.pid] = "watching"
                                     /\ r.pid # pid /\ r.device = d
          BY <2>1, <2>4, <3>2, <3>3 DEF Pending
        <4> QED
          BY <2>2, <3>2, <4>1 DEF Pending
      <3> QED
        BY <2>3, <3>1, <3>3
    <2>6. ASSUME daemon = "writing", NEW d \in Devices \ bound
          PROVE  d \in owed \/ Listed(d)' \/ Inherited(d, todo)'
      <3>1. \A r \in Pending(todo) : r.pid = i => r \in file
        BY <1>12, <2>1, <2>6 DEF MonitorReads, Dead
      <3> QED
        <4>1. d \in owed \/ Listed(d) \/ Inherited(d, todo)
          BY <2>1, <2>6
        <4>2. ASSUME Inherited(d, todo)
              PROVE  Listed(d)' \/ Inherited(d, todo)'
          <5>1. \/ Listed(d)'
                \/ \E r \in todo : /\ monitor'[r.pid] = "watching"
                                   /\ r.pid # pid /\ r.device = d
            BY <2>4, <3>1, <4>2
          <5> QED
            BY <2>2, <5>1
        <4> QED
          BY <2>3, <4>1, <4>2
    <2>7. ASSUME daemon = "writing", NEW r \in Pending(todo)', r.pid # pid
          PROVE  r \in file
      BY <1>12, <2>1, <2>2, <2>7 DEF MonitorReads
    <2> QED
      BY <2>2, <2>5, <2>6, <2>7
  <1>13. ASSUME NEW i \in Pids, MonitorReattaches(i) PROVE InheritedKnown'
    BY <1>13 DEF MonitorReattaches
  <1>14. ASSUME NEW i \in Pids, MonitorRereads(i) PROVE InheritedKnown'
    BY <1>14 DEF MonitorRereads
  <1>15. ASSUME NEW i \in Pids, MonitorRemoves(i) PROVE InheritedKnown'
    BY <1>15 DEF MonitorRemoves
  <1>16. CASE UNCHANGED vars
    BY <1>16 DEF vars, daemonVars, monitorVars
  <1> QED
    BY <1>1, <1>2, <1>3, <1>4, <1>5, <1>6, <1>7, <1>8,
       <1>9, <1>10, <1>11, <1>12, <1>13, <1>14, <1>15, <1>16, <1>17
       DEF Next, Daemon, Monitor

\* Every step keeps each driver that is off known to someone.
LEMMA ForgottenStep ==
    ASSUME TypeOK, HoldsWhileReady, MonitorsReady, OwedRecorded, InheritedKnown,
           ForgottenOnlyThroughGaps, [Next]_vars
    PROVE  ForgottenOnlyThroughGaps'
  <1> USE DEF TypeOK, HoldsWhileReady, MonitorsReady, OwedRecorded, InheritedKnown,
              ForgottenOnlyThroughGaps, Known, Listed, Contents, Inherited, RecordOf, Pending, Noted,
              Pids, daemonVars, monitorVars, Settled, Reattached
  <1>1. CASE Boot
    BY <1>1 DEF Boot
  <1>2. CASE ComeUp
    <2> SUFFICES ASSUME gap' = "none", NEW d \in Devices \ bound
                 PROVE  Known(d)'
      BY <1>2 DEF ComeUp
    <2>1. gap = "none" /\ Pending(file) \subseteq file' /\ owed = {}
      BY <1>2 DEF ComeUp
    <2>2. Known(d)
      BY <2>1
    <2>3. CASE \E r \in Pending(file) : r.device = d
      <3>1. PICK r \in Pending(file) : r.device = d
        BY <2>3
      <3>2. r \in file' /\ monitor'[r.pid] = "watching"
        BY <1>2, <2>1, <3>1 DEF ComeUp, MonitorStarted, Record
      <3>3. Contents' = file'
        BY <1>2 DEF ComeUp
      <3> QED
        BY <3>1, <3>2, <3>3
    <2>4. CASE Listed(d)
      BY <1>2, <2>4 DEF ComeUp
    <2> QED
      BY <1>2, <2>2, <2>3, <2>4 DEF ComeUp
  <1>3. CASE ReleaseAll
    BY <1>3 DEF ReleaseAll, Returned
  <1>4. CASE Exit
    BY <1>4 DEF Exit, Cleared
  <1>5. CASE Crash
    <2> SUFFICES ASSUME gap' = "none", NEW d \in Devices \ bound
                 PROVE  \/ \E r \in Pending(file) : r.device = d
                        \/ Listed(d)
      BY <1>5 DEF Crash, Unmonitored
    <2>1. gap = "none" /\ daemon # "truncated"
      BY <1>5 DEF Crash, Unmonitored
    <2>2. CASE d \in owed
      <3>0. monitor[pid] = "watching"
        BY <1>5, <2>1, <2>2 DEF Crash, Unmonitored
      <3>1. RecordOf(d) \in file
        BY <1>5, <2>1, <2>2, <3>0 DEF Crash, DaemonPC
      <3>2. RecordOf(d) \in Pending(file)
        BY <3>0, <3>1
      <3> QED
        BY <3>2
    <2>3. CASE d \notin owed
      BY <2>1, <2>3
    <2> QED
      BY <2>2, <2>3
  <1>6. ASSUME NEW d \in Devices, Claim(d) PROVE ForgottenOnlyThroughGaps'
    BY <1>6 DEF Claim, Active
  <1>7. ASSUME NEW d \in Devices, Release(d) PROVE ForgottenOnlyThroughGaps'
    BY <1>7 DEF Release, Returned
  <1>8. CASE AddReads
    BY <1>8 DEF AddReads
  <1>9. CASE RemoveReads
    BY <1>9 DEF RemoveReads
  <1>10. CASE Truncate
    BY <1>10 DEF Truncate
  <1>11. CASE Write
    BY <1>11 DEF Write
  <1>17. CASE WriteFails
    BY <1>17 DEF WriteFails
  <1>12. ASSUME NEW i \in Pids, MonitorReads(i) PROVE ForgottenOnlyThroughGaps'
    BY <1>12 DEF MonitorReads, Contents
  <1>13. ASSUME NEW i \in Pids, MonitorReattaches(i) PROVE ForgottenOnlyThroughGaps'
    BY <1>13 DEF MonitorReattaches
  <1>14. ASSUME NEW i \in Pids, MonitorRereads(i) PROVE ForgottenOnlyThroughGaps'
    BY <1>14 DEF MonitorRereads
  <1>15. ASSUME NEW i \in Pids, MonitorRemoves(i) PROVE ForgottenOnlyThroughGaps'
    <2> SUFFICES ASSUME gap' = "none", NEW d \in Devices \ bound, d \notin owed
                 PROVE  Known(d)'
      BY <1>15 DEF MonitorRemoves
    <2>1. gap = "none" /\ Pending(file) \subseteq rest[i]
      BY <1>15 DEF MonitorRemoves
    <2>2. Known(d)
      BY <2>1
    <2>3. CASE \E r \in Pending(Contents) : r.device = d
      <3>1. PICK r \in Pending(Contents) : r.device = d
        BY <2>3
      <3>2. r \in Contents' /\ monitor'[r.pid] = "watching"
        BY <1>15, <2>1, <3>1 DEF MonitorRemoves
      <3> QED
        BY <3>1, <3>2
    <2>4. CASE Listed(d)
      BY <1>15, <2>4 DEF MonitorRemoves
    <2> QED
      BY <2>2, <2>3, <2>4
  <1>16. CASE UNCHANGED vars
    BY <1>16 DEF vars, daemonVars, monitorVars
  <1> QED
    BY <1>1, <1>2, <1>3, <1>4, <1>5, <1>6, <1>7, <1>8,
       <1>9, <1>10, <1>11, <1>12, <1>13, <1>14, <1>15, <1>16, <1>17
       DEF Next, Daemon, Monitor

-----------------------------------------------------------------------------
(* Theorems *)

LEMMA InvStep ==
    ASSUME IInv, [Next]_vars
    PROVE  IInv'
  BY TypeStep, ReadyStep, MonitorsStep, OwedStep, InheritedStep, ForgottenStep DEF IInv

LEMMA Inductive == Spec => []IInv
  <1>1. Init => IInv
    BY InitInv
  <1>2. IInv /\ [Next]_vars => IInv'
    BY InvStep
  <1> QED
    BY <1>1, <1>2, PTL DEF Spec

\* The types are right, a driver is owed only for a device that is held, and a process
\* that is down holds nothing: the kernel has freed what it held.
THEOREM RecoveryTypeCorrect == Spec => []TypeOK
  <1>1. IInv => TypeOK
    BY DEF IInv
  <1> QED
    BY <1>1, Inductive, PTL

\* Whatever the order of claims, releases, crashes, restarts and monitors, a device whose
\* driver is off is known to the daemon that holds it, to the registry file or to a
\* monitor, unless one of the gaps has occurred.
THEOREM ForgottenCorrect == Spec => []ForgottenOnlyThroughGaps
  <1>1. IInv => ForgottenOnlyThroughGaps
    BY DEF IInv
  <1> QED
    BY <1>1, Inductive, PTL

\* Once the daemon is down and every monitor has stopped, or never started, all drivers are
\* back: the monitors' loops are left only when their lists are empty.
THEOREM RepairedCorrect == Spec => []NothingLeftToRepair
  <1>1. IInv => NothingLeftToRepair
    <2> SUFFICES ASSUME IInv, daemon = "down", gap = "none",
                        \A i \in Pids : monitor[i] \in {"off", "done"},
                        NEW d \in Devices \ bound
                 PROVE  FALSE
      BY DEF NothingLeftToRepair, IInv, TypeOK
    <2>1. owed = {}
      BY DEF IInv, TypeOK
    <2>2. Pending(Contents) = {}
      BY DEF IInv, TypeOK, Pending, Contents, Record
    <2>3. \A i \in Pids : list[i] = {}
      BY DEF IInv, MonitorsReady
    <2> QED
      BY <2>1, <2>2, <2>3 DEF IInv, ForgottenOnlyThroughGaps, Known
  <1> QED
    BY <1>1, Inductive, PTL

-----------------------------------------------------------------------------
(* The refinement: files, processes and monitors implement DriverCustody *)

\* No step undoes a gap.
LEMMA GapsGrow ==
    ASSUME [Next]_vars
    PROVE  gap # "none" => gap' = gap
  BY DEF Next, Daemon, Monitor, vars, Boot, ComeUp, ReleaseAll, Exit, Crash, Claim,
         Release, AddReads, RemoveReads, Truncate, Write, WriteFails,
         Returned, MonitorReads, MonitorReattaches, MonitorRereads, MonitorRemoves, Noted

\* Who has a driver, in terms of the sets the daemon and the kernel keep.
LEMMA CustodyCases ==
    ASSUME TypeOK, NEW d \in Devices
    PROVE  CustodyOf[d] = IF d \in bound THEN "kernel"
                          ELSE IF d \in owed THEN "daemon"
                          ELSE IF Known(d) THEN "recovery" ELSE "lost"
  BY DEF CustodyOf

\* The same after a step.
LEMMA CustodyCasesNext ==
    ASSUME TypeOK', NEW d \in Devices
    PROVE  CustodyOf'[d] = IF d \in bound' THEN "kernel"
                           ELSE IF d \in owed' THEN "daemon"
                           ELSE IF Known(d)' THEN "recovery" ELSE "lost"
  BY DEF CustodyOf

Implements == Custody!Next \/ UNCHANGED <<CustodyOf, gap = "none">>

\* A step that leaves the registry unsound mislays, whatever it does to what the daemon
\* has, when the kernel keeps its drivers and nobody takes any from recovery.
LEMMA Mislays ==
    ASSUME IInv, IInv', gap' # "none",
           bound \subseteq bound',
           (bound' \cup owed') \subseteq (bound \cup owed)
    PROVE  Implements
  <1> USE DEF IInv
  <1>1. CustodyOf' \in [Devices -> Custody!Holders]
    BY DEF CustodyOf, Custody!Holders
  <1>2. ASSUME NEW d \in Devices, CustodyOf[d] = "kernel"
        PROVE  CustodyOf'[d] = "kernel"
    BY <1>2, CustodyCases, CustodyCasesNext
  <1>3. ASSUME NEW d \in Devices, CustodyOf[d] \in {"recovery", "lost"}
        PROVE  CustodyOf'[d] \in {"recovery", "lost"}
    BY <1>3, CustodyCases, CustodyCasesNext
  <1>4. Custody!Mislay
    BY <1>1, <1>2, <1>3 DEF Custody!Mislay
  <1> QED
    BY <1>4 DEF Implements, Custody!Next

\* A step that moves no driver changes nothing in a sound registry; in one that is not it
\* mislays what recovery has.
LEMMA NoDriverMoved ==
    ASSUME IInv, IInv', [Next]_vars, UNCHANGED <<bound, owed>>
    PROVE  Implements
  <1> USE DEF IInv
  <1>1. gap # "none" => gap' = gap
    BY GapsGrow
  <1>2. CASE gap' = "none"
    <2>1. gap = "none"
      BY <1>1, <1>2
    <2>2. ASSUME NEW d \in Devices
          PROVE  CustodyOf'[d] = CustodyOf[d]
      BY <1>2, <2>1, CustodyCases, CustodyCasesNext DEF ForgottenOnlyThroughGaps
    <2>3. CustodyOf' = CustodyOf
      BY <2>2 DEF CustodyOf
    <2> QED
      BY <1>2, <2>1, <2>3 DEF Implements
  <1>3. CASE gap' # "none"
    BY <1>3, Mislays
  <1> QED
    BY <1>2, <1>3

\* Giving devices back passes their drivers from the daemon to the kernel.
LEMMA GivesBack ==
    ASSUME IInv, IInv', NEW ds \in SUBSET owed,
           bound' = bound \cup ds, owed' = owed \ ds, gap' = gap,
           \A d \in Devices : Known(d)' = Known(d)
    PROVE  Implements
  <1> USE DEF IInv
  <1>1. ASSUME NEW d \in Devices
        PROVE  CustodyOf'[d] = IF d \in ds THEN "kernel" ELSE CustodyOf[d]
    BY CustodyCases, CustodyCasesNext
  <1>2. CustodyOf' = Custody!Passed(ds, "kernel")
    BY <1>1 DEF CustodyOf, Custody!Passed
  <1>3. ds \in SUBSET Custody!With("daemon")
    BY CustodyCases DEF Custody!With, TypeOK
  <1> QED
    BY <1>2, <1>3 DEF Implements, Custody!Next, Custody!GiveBack

\* So does the daemon when the kernel takes all of them back; when it refuses some, the
\* registry is not sound any more.
LEMMA Returns ==
    ASSUME IInv, IInv', [Next]_vars, NEW ds, Returned(ds), owed' = owed \ ds,
           \A d \in Devices : Known(d)' = Known(d)
    PROVE  Implements
  <1>1. PICK attached \in SUBSET (owed \cap ds) :
           /\ bound' = bound \cup attached
           /\ gap' = Noted("refused", attached # owed \cap ds)
    BY DEF Returned
  <1>2. CASE attached = owed \cap ds
    <2>1. gap' = gap
      BY <1>1, <1>2 DEF Noted
    <2>2. owed' = owed \ (owed \cap ds)
      OBVIOUS
    <2> QED
      BY <1>1, <1>2, <2>1, <2>2, GivesBack
  <1>3. CASE attached # owed \cap ds
    <2>1. gap' # "none"
      BY <1>1, <1>3 DEF Noted
    <2> QED
      BY <1>1, <2>1, Mislays
  <1> QED
    BY <1>2, <1>3

\* A daemon that dies leaves its drivers to recovery, or they are lost through a gap.
LEMMA Inherits ==
    ASSUME IInv, IInv', Crash
    PROVE  Implements
  <1> USE DEF IInv
  <1>1. bound' = bound /\ owed' = {}
    BY DEF Crash
  <1>2. CASE gap' = "none"
    <2>1. gap = "none"
      BY <1>2, GapsGrow DEF Next, Daemon
    <2>2. ASSUME NEW d \in Devices
          PROVE  CustodyOf'[d] = IF d \in Custody!With("daemon") THEN "recovery"
                                 ELSE CustodyOf[d]
      BY <1>1, <1>2, <2>1, CustodyCases, CustodyCasesNext
         DEF ForgottenOnlyThroughGaps, Custody!With, TypeOK
    <2>3. CustodyOf' = Custody!Passed(Custody!With("daemon"), "recovery")
      BY <2>2 DEF CustodyOf, Custody!Passed
    <2> QED
      BY <1>2, <2>1, <2>3 DEF Implements, Custody!Next, Custody!Inherit
  <1>3. CASE gap' # "none"
    BY <1>1, <1>3, Mislays
  <1> QED
    BY <1>2, <1>3

\* Claiming a device detaches the driver that the kernel has for it, or moves none.
LEMMA Detaches ==
    ASSUME IInv, IInv', NEW d \in Devices, Claim(d)
    PROVE  Implements
  <1> USE DEF IInv
  <1>1. PICK detached \in SUBSET (bound \cap {d}) :
           bound' = bound \ detached /\ owed' = owed \cup detached
    BY DEF Claim, Active
  <1>2. CASE detached = {}
    BY <1>1, <1>2, NoDriverMoved DEF Next, Daemon
  <1>3. CASE detached # {}
    <2>1. d \in bound /\ bound' = bound \ {d} /\ owed' = owed \cup {d}
      BY <1>1, <1>3
    <2>2. gap' = gap
      BY <2>1 DEF Claim, Noted
    <2>3. ASSUME NEW e \in Devices
          PROVE  Known(e)' = Known(e)
      BY DEF Claim, Known, Pending, Contents, monitorVars
    <2>4. ASSUME NEW e \in Devices
          PROVE  CustodyOf'[e] = IF e \in {d} THEN "daemon" ELSE CustodyOf[e]
      BY <2>1, <2>3, CustodyCases, CustodyCasesNext
    <2>5. CustodyOf' = Custody!Passed({d}, "daemon")
      BY <2>4 DEF CustodyOf, Custody!Passed
    <2>6. d \in Custody!With("kernel")
      BY <2>1, CustodyCases DEF Custody!With
    <2> QED
      BY <2>2, <2>5, <2>6 DEF Implements, Custody!Next, Custody!Detach
  <1> QED
    BY <1>2, <1>3

\* A monitor gives a driver that recovery has to the kernel, or moves none.
LEMMA Repairs ==
    ASSUME IInv, IInv', NEW i \in Pids, MonitorReattaches(i)
    PROVE  Implements
  <1> USE DEF IInv
  <1>0. CASE UNCHANGED bound
    BY <1>0, NoDriverMoved DEF Next, Monitor, MonitorReattaches, daemonVars
  <1> SUFFICES ASSUME bound' # bound PROVE Implements
    BY <1>0
  <1>1. PICK r \in list[i] :
           /\ bound' = Reattached(r.device) /\ gap' = gap
           /\ list' = [list EXCEPT ![i] = @ \ {r}]
    BY DEF MonitorReattaches
  <1>2. owed' = owed /\ gap' = gap
    BY <1>1 DEF MonitorReattaches, daemonVars
  <1>3. r.device \in Devices
    BY DEF TypeOK, Record
  <1>4. CASE r.device \in held \cup bound
    <2>1. bound' = bound
      BY <1>1, <1>4 DEF Reattached
    <2> QED
      BY <1>2, <2>1, NoDriverMoved DEF Next, Monitor
  <1>5. CASE r.device \notin held \cup bound
    <2>1. bound' = bound \cup {r.device} /\ r.device \notin owed
      BY <1>1, <1>5 DEF Reattached, TypeOK
    <2>2. Known(r.device)
      BY DEF Known
    <2>3. ASSUME NEW e \in Devices, e # r.device
          PROVE  Known(e)' = Known(e)
      <3>1. UNCHANGED <<daemon, todo, file, monitor>>
        BY DEF MonitorReattaches, daemonVars
      <3>2. UNCHANGED Pending(Contents)
        BY <3>1 DEF Pending, Contents
      <3>3. ASSUME NEW j \in Pids
            PROVE  (\E q \in list'[j] : q.device = e) <=> (\E q \in list[j] : q.device = e)
        BY <1>1, <2>3 DEF TypeOK
      <3> QED
        BY <3>2, <3>3 DEF Known
    <2>4. ASSUME NEW e \in Devices
          PROVE  CustodyOf'[e] = IF e \in {r.device} THEN "kernel" ELSE CustodyOf[e]
      BY <1>2, <2>1, <2>3, CustodyCases, CustodyCasesNext
    <2>5. CustodyOf' = Custody!Passed({r.device}, "kernel")
      BY <2>4 DEF CustodyOf, Custody!Passed
    <2>6. r.device \in Custody!With("recovery")
      BY <1>3, <1>5, <2>1, <2>2, CustodyCases DEF Custody!With
    <2> QED
      BY <1>2, <2>5, <2>6 DEF Implements, Custody!Next, Custody!Repair
  <1> QED
    BY <1>4, <1>5

\* Every step of the processes is a step of custody, or none.
LEMMA CustodyStep ==
    ASSUME IInv, IInv', [Next]_vars
    PROVE  Implements
  <1>1. ASSUME UNCHANGED <<bound, owed>> PROVE Implements
    BY <1>1, NoDriverMoved
  <1>2. CASE \/ Boot \/ ComeUp \/ Exit
             \/ AddReads \/ RemoveReads \/ Truncate \/ Write \/ WriteFails
    BY <1>1, <1>2
       DEF Boot, ComeUp, Exit, AddReads, RemoveReads, Truncate, Write, WriteFails
  <1>3. CASE ReleaseAll
    <2>1. ASSUME NEW d \in Devices
          PROVE  Known(d)' = Known(d)
      BY <1>3 DEF ReleaseAll, Known, Pending, Contents, monitorVars
    <2>2. owed' = owed \ held
      BY <1>3 DEF ReleaseAll, IInv, TypeOK
    <2> QED
      BY <1>3, <2>1, <2>2, Returns DEF ReleaseAll
  <1>4. CASE Crash
    BY <1>4, Inherits
  <1>5. ASSUME NEW d \in Devices, Claim(d) PROVE Implements
    BY <1>5, Detaches
  <1>6. ASSUME NEW d \in Devices, Release(d) PROVE Implements
    <2>1. ASSUME NEW e \in Devices
          PROVE  Known(e)' = Known(e)
      BY <1>6 DEF Release, Known, Pending, Contents, monitorVars
    <2> QED
      BY <1>6, <2>1, Returns DEF Release, Settled
  <1>7. ASSUME NEW i \in Pids, MonitorReattaches(i) PROVE Implements
    BY <1>7, Repairs
  <1>8. ASSUME NEW i \in Pids, MonitorReads(i) \/ MonitorRereads(i) \/ MonitorRemoves(i)
        PROVE  Implements
    BY <1>1, <1>8 DEF MonitorReads, MonitorRereads, MonitorRemoves, daemonVars
  <1>9. CASE UNCHANGED vars
    BY <1>1, <1>9 DEF vars, daemonVars
  <1> QED
    BY <1>2, <1>3, <1>4, <1>5, <1>6, <1>7, <1>8, <1>9 DEF Next, Daemon, Monitor

\* All drivers are with the kernel when the first daemon has not come up yet.
LEMMA CustodyInit == Init => Custody!Init
  BY DEF Init, Custody!Init, CustodyOf

\* For any devices and number of processes, a driver leaves the kernel for the daemon only;
\* the daemon gives it back or leaves it, with all the others, to recovery when it dies;
\* and recovery gives it to the kernel: never to another daemon, and none is lost in a
\* sound registry.
THEOREM CustodyImplemented == Spec => ImplementsCustody
  <1>1. Init => Custody!Init
    BY CustodyInit
  <1>2. IInv /\ IInv' /\ [Next]_vars => [Custody!Next]_<<CustodyOf, gap = "none">>
    BY CustodyStep DEF Implements
  <1> QED
    BY <1>1, <1>2, Inductive, PTL DEF Spec, ImplementsCustody, Custody!Spec
=============================================================================
