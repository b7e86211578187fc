------------------------ MODULE NoteUSBModule_proofs ------------------------
(***************************************************************************)
(* Proofs about NoteUSBModule for every set of devices, handles, clients   *)
(* and sessions: the claims of the handler and of the sessions share no    *)
(* handle, hold what they claimed and keep its driver away, and a driver   *)
(* is lost in the three known ways only.                                   *)
(***************************************************************************)
EXTENDS NoteUSBModule, UsbBus_proofs

USE BusAssumption, HandlerAssumption, ModuleAssumption

-----------------------------------------------------------------------------
(* The inductive invariant *)

\* A live handle is open on a device that is still plugged in, and the kernel drives
\* only what it wants to drive.
BusSound ==
    /\ \A h \in bus.live : bus.open[h] \in bus.present
    /\ bus.bound \subseteq bus.wanted
    /\ bus.wanted \subseteq bus.present

\* A session object has one client, and no handle before it is born.
SessionsSound ==
    /\ \A p, q \in Clients : sessionOf[p] = sessionOf[q] /\ sessionOf[p] # NoSession => p = q
    /\ \A s \in Sessions :
          /\ life[s] = "unborn" => device[s].handle = NoHandle
          /\ device[s].handle # NoHandle => device[s].id \in Devices
          /\ thread[s] = "releasing" => device[s].handle # NoHandle

\* One claim at most owes a device its driver, which cannot be detached twice, and owes
\* only what the kernel wants back.
OwedOnce ==
    \A d \in Devices :
        /\ OwedByHandler(d) => d \in bus.wanted /\ \A s \in Sessions : ~Owes(s, d)
        /\ \A s \in Sessions : Owes(s, d) =>
              d \in bus.wanted /\ \A t \in Sessions : Owes(t, d) => s = t

\* What the claims on both paths and the bus have to do with each other.
Claims ==
    /\ BusSound /\ OwedOnce
    /\ HandlesNotShared /\ ClaimsHoldAcrossPaths /\ NoDriverUnderClaim

Shared == ModuleTypeOK /\ SessionsSound /\ Claims

\* When somebody has taken the interface of a device that is still owed its driver, so
\* that the kernel will refuse the driver, it is known to be lost.
RefusalsKnown ==
    \A d \in Devices :
        /\ OwedByHandler(d) => bus.holder[d] \in {claimed[d].handle, NoHandle} \/ d \in lost
        /\ \A s \in Sessions : Owes(s, d) =>
              bus.holder[d] \in {device[s].handle, NoHandle} \/ d \in lost

DriverInv == Shared /\ RefusalsKnown /\ DriverLostOnlyThroughGaps

-----------------------------------------------------------------------------
(* What the operators of the bus do to its fields *)

\* Claiming device d through a free handle h, with its driver detached or not.
Taken(h, d, kdriver) ==
    LET held == ClaimInterface(OpenDevice(bus, h, d), h, d)
    IN  IF kdriver THEN DetachDriver(held, d) ELSE held

LEMMA TakenFields ==
    ASSUME bus \in Bus, NEW h \in Handles, NEW d \in Devices, NEW kdriver \in BOOLEAN,
           bus' = Taken(h, d, kdriver)
    PROVE  /\ bus' \in Bus
           /\ bus'.present = bus.present /\ bus'.wanted = bus.wanted
           /\ bus'.bound = bus.bound \ (IF kdriver THEN {d} ELSE {})
           /\ bus'.open = [bus.open EXCEPT ![h] = d]
           /\ bus'.live = bus.live \cup {h}
           /\ bus'.holder = [bus.holder EXCEPT ![d] = h]
<1>1. CASE kdriver
  BY <1>1 DEF Taken, Bus, ClaimInterface, OpenDevice, DetachDriver
<1>2. CASE ~kdriver
  BY <1>2 DEF Taken, Bus, ClaimInterface, OpenDevice
<1> QED
  BY <1>1, <1>2

LEMMA InterfaceFields ==
    ASSUME bus \in Bus, NEW h \in Handles, NEW d \in Devices,
           bus' = ReleaseInterface(bus, h, d)
    PROVE  /\ bus' \in Bus
           /\ bus'.present = bus.present /\ bus'.wanted = bus.wanted
           /\ bus'.bound = bus.bound
           /\ bus'.open = bus.open /\ bus'.live = bus.live
           /\ bus'.holder = [bus.holder EXCEPT ![d] = IF @ = h THEN NoHandle ELSE @]
  BY DEF ReleaseInterface, Bus

LEMMA GiveBackFields ==
    ASSUME bus \in Bus, NEW ds \in SUBSET Devices, NEW c, NEW attached \in SUBSET ds,
           bus' = GiveBack(bus, c, ds, attached)
    PROVE  LET closed == {c[d].handle : d \in ds}
           IN  /\ bus' \in Bus
               /\ bus'.present = bus.present /\ bus'.wanted = bus.wanted
               /\ bus'.bound = bus.bound \cup (attached \cap Rebindable(bus, c, ds))
               /\ bus'.open = [h \in Handles |-> IF h \in closed THEN NoDevice ELSE bus.open[h]]
               /\ bus'.live = bus.live \ closed
               /\ bus'.holder = [d \in Devices |->
                                   IF bus.holder[d] \in closed THEN NoHandle ELSE bus.holder[d]]
  BY DEF GiveBack, Bus

\* A session gives back one device: its driver, unless the kernel refuses it.
Returned(h, d, kdriver) ==
    IF kdriver /\ h \in bus.live /\ bus.holder[d] \in {h, NoHandle} THEN {d} ELSE {}

LEMMA SessionGivesBack ==
    ASSUME bus \in Bus, NEW s \in Sessions, device[s].id \in Devices, SessionReleases(s)
    PROVE  LET h == device[s].handle
               back == Returned(h, device[s].id, device[s].kdriver)
           IN  /\ bus' \in Bus
               /\ bus'.present = bus.present /\ bus'.wanted = bus.wanted
               /\ bus.bound \subseteq bus'.bound /\ bus'.bound \subseteq bus.bound \cup back
               /\ AttachMayFail = FALSE => bus'.bound = bus.bound \cup back
               /\ bus'.open = [x \in Handles |-> IF x = h THEN NoDevice ELSE bus.open[x]]
               /\ bus'.live = bus.live \ {h}
               /\ bus'.holder = [d \in Devices |->
                                   IF bus.holder[d] = h THEN NoHandle ELSE bus.holder[d]]
<1> DEFINE h == device[s].handle
           d == device[s].id
           mine == [x \in {d} |-> device[s]]
           back == Returned(h, d, device[s].kdriver)
<1>1. PICK attached \in Reattached({d}) : bus' = GiveBack(bus, mine, {d}, attached)
  BY DEF SessionReleases
<1>2. mine[d] = device[s] /\ {mine[x].handle : x \in {d}} = {h}
  OBVIOUS
<1>3. Rebindable(bus, mine, {d}) = back
  BY <1>2 DEF Rebindable, Returned
<1>0. attached \in SUBSET {d} /\ (AttachMayFail = FALSE => attached = {d})
  BY DEF Reattached
<1> HIDE DEF mine, back
<1>4. bus' = [bus EXCEPT
          !.bound  = @ \cup (attached \cap back),
          !.open   = [x \in Handles |-> IF x \in {h} THEN NoDevice ELSE @[x]],
          !.live   = @ \ {h},
          !.holder = [x \in Devices |-> IF @[x] \in {h} THEN NoHandle ELSE @[x]]]
  BY <1>1, <1>2, <1>3 DEF GiveBack
<1>5. back \subseteq {d}
  BY DEF Returned, back
<1>6. /\ bus'.bound = bus.bound \cup (attached \cap back)
      /\ bus'.present = bus.present /\ bus'.wanted = bus.wanted
      /\ bus'.open = [x \in Handles |-> IF x = h THEN NoDevice ELSE bus.open[x]]
      /\ bus'.live = bus.live \ {h}
      /\ bus'.holder = [x \in Devices |-> IF bus.holder[x] = h THEN NoHandle ELSE bus.holder[x]]
      /\ bus' \in Bus
  BY <1>4, <1>5 DEF Bus
<1>7. AttachMayFail = FALSE => bus'.bound = bus.bound \cup back
  BY <1>0, <1>5, <1>6
<1> QED
  BY <1>0, <1>6, <1>7 DEF back

\* A claim that fails closes what it has opened.
LEMMA FailureFields ==
    ASSUME bus \in Bus, BusSound, NEW p, NEW d \in Devices, ClaimFails(p, d)
    PROVE  bus' = bus
<1>1. PICK h \in FreeHandles(bus) : bus' = CloseDevice(OpenDevice(bus, h, d), h)
  BY DEF ClaimFails, BusAfterRefusal
<1>2. h \notin bus.live
  BY DEF FreeHandles, BusSound, Bus
<1> QED
  BY <1>1, <1>2, OpenedAndClosed

LEMMA PlugFields ==
    ASSUME bus \in Bus, NEW d \in Devices, Plug(d)
    PROVE  /\ bus' \in Bus
           /\ bus'.present = bus.present \cup {d}
           /\ bus'.open = bus.open /\ bus'.live = bus.live /\ bus'.holder = bus.holder
           /\ \/ bus'.wanted = bus.wanted \cup {d} /\ bus'.bound = bus.bound \cup {d}
              \/ bus'.wanted = bus.wanted /\ bus'.bound = bus.bound
<1>1. PICK driven \in BOOLEAN : bus' = PlugIn(bus, d, driven)
  BY DEF Plug
<1>2. CASE driven
  BY <1>1, <1>2 DEF PlugIn, Bus
<1>3. CASE ~driven
  BY <1>1, <1>3 DEF PlugIn, Bus
<1> QED
  BY <1>2, <1>3

LEMMA UnplugFields ==
    ASSUME bus \in Bus, NEW d \in Devices, Unplug(d)
    PROVE  /\ bus' \in Bus
           /\ bus'.present = bus.present \ {d} /\ bus'.wanted = bus.wanted \ {d}
           /\ bus'.bound = bus.bound \ {d}
           /\ bus'.open = bus.open /\ bus'.live = {h \in bus.live : bus.open[h] # d}
           /\ bus'.holder = [bus.holder EXCEPT ![d] = NoHandle]
  BY DEF Unplug, PullOut, Bus

-----------------------------------------------------------------------------
(* Types *)

LEMMA BusOnlyTypes ==
    ASSUME TypeOK, bus' \in Bus, UNCHANGED <<available, claimed, file, ownership>>,
           handler' \in {"absent", "bare", "linked"}, ctx' \in BOOLEAN, discovering' \in BOOLEAN,
           reply' \in Reply
    PROVE  TypeOK'
  BY DEF TypeOK

\* The calls of the handler keep its types, whatever the sessions have done to the bus.
LEMMA HandlerTypes ==
    ASSUME TypeOK
    PROVE  /\ Construct => TypeOK'
           /\ StartDiscovery => TypeOK'
           /\ \A p \in Clients : SendDeviceList(p) => TypeOK'
           /\ \A p \in Clients, d \in Devices \cup {NoDevice} :
                 ClaimRefused(p, d) \/ ReleaseRefused(p, d) => TypeOK'
           /\ \A p \in Clients, d \in Devices \cup {NoDevice} : ClaimFails(p, d) => TypeOK'
           /\ \A d \in Devices : Plug(d) \/ Unplug(d) => TypeOK'
<1> USE DEF TypeOK, NoReply, Answer, Reply, Codes
<1>1. ASSUME Construct PROVE TypeOK'
  <2>1. /\ bus' = bus /\ UNCHANGED <<available, claimed, file, ownership>>
        /\ handler' = "bare" /\ reply' = NoReply
    BY <1>1 DEF Construct
  <2>2. ctx' \in BOOLEAN /\ discovering' \in BOOLEAN
    BY <1>1, Zenon DEF Construct
  <2> QED
    BY <2>1, <2>2, BusOnlyTypes
<1>2. ASSUME DiscoverDevices
      PROVE  /\ DOMAIN available' \subseteq Devices
             /\ \A d \in DOMAIN available' : available'[d] \in Entry
  <2>1. PICK seen \in SUBSET Devices : available' = Discovered(available, seen)
    BY <1>2 DEF DiscoverDevices, Scans
  <2> QED
    BY <2>1 DEF Discovered, Unclaimed, Entry
<1>3. StartDiscovery => TypeOK'
  BY <1>2 DEF StartDiscovery
<1>4. \A p \in Clients : SendDeviceList(p) => TypeOK'
  BY <1>2 DEF SendDeviceList
<1>5. \A p \in Clients, d \in Devices \cup {NoDevice} :
         ClaimRefused(p, d) \/ ReleaseRefused(p, d) => TypeOK'
  BY DEF ClaimRefused, ReleaseRefused, Refuse
<1>6. \A d \in Devices : Plug(d) => TypeOK'
  BY PlugFields DEF Plug
<1>7. \A d \in Devices : Unplug(d) => TypeOK'
  <2>1. ASSUME NEW d \in Devices, Unplug(d) PROVE bus' \in Bus
    BY <2>1, UnplugFields
  <2> QED
    BY <2>1, BusOnlyTypes DEF Unplug
<1>8. ASSUME NEW p \in Clients, NEW d \in Devices \cup {NoDevice}, ClaimFails(p, d)
      PROVE  TypeOK'
  <2>1. d \in Devices
    BY <1>8 DEF ClaimFails
  <2>2. PICK h \in Handles : bus' = CloseDevice(OpenDevice(bus, h, d), h)
    BY <1>8 DEF ClaimFails, BusAfterRefusal, FreeHandles
  <2>3. bus' \in Bus
    BY <2>1, <2>2 DEF OpenDevice, CloseDevice, Bus
  <2> QED
    BY <1>8, <2>1, <2>3 DEF ClaimFails, Refuse
<1> QED
  BY <1>1, <1>3, <1>4, <1>5, <1>6, <1>7, <1>8

LEMMA ReleaseAllTypes ==
    ASSUME TypeOK, ReleaseAllDevices,
           handler' \in {"absent", "bare", "linked"}, ctx' \in BOOLEAN, discovering' \in BOOLEAN
    PROVE  TypeOK'
<1>1. PICK attached \in SUBSET DOMAIN claimed :
         bus' = GiveBack(bus, claimed, DOMAIN claimed, attached)
  BY DEF ReleaseAllDevices, Reattached, BusAfterRelease
<1>2. bus' \in Bus
  BY <1>1, GiveBackFields DEF TypeOK
<1>3. DOMAIN claimed' = {} /\ DOMAIN available' = {}
  BY DEF ReleaseAllDevices, EmptyTable
<1>4. file' = {} /\ reply' \in Reply /\ ownership' \subseteq Devices
  BY DEF ReleaseAllDevices, TypeOK, Unrouted, NoReply, Reply, Codes
<1> QED
  BY <1>2, <1>3, <1>4 DEF TypeOK

LEMMA GrantTypes ==
    ASSUME TypeOK, NEW p \in Clients, NEW d \in Devices, ClaimGranted(p, d)
    PROVE  TypeOK'
<1>1. PICK h \in Handles, kdriver \in BOOLEAN :
         /\ bus' = Taken(h, d, kdriver)
         /\ claimed' = With(claimed, d, ClaimEntry(h, kdriver, p))
         /\ available' = With(available, d, ClaimEntry(h, kdriver, p))
         /\ file' = AddRecord(file, d, kdriver)
  BY DEF ClaimGranted, FreeHandles, Taken
<1>2. bus' \in Bus
  BY <1>1, TakenFields DEF TypeOK
<1>3. ClaimEntry(h, kdriver, p) \in Entry /\ ClaimEntry(h, kdriver, p).handle \in Handles
  BY <1>1 DEF ClaimEntry, Entry
<1>4. /\ DOMAIN claimed' \subseteq Devices
      /\ \A x \in DOMAIN claimed' : claimed'[x] \in Entry /\ claimed'[x].handle \in Handles
      /\ DOMAIN available' \subseteq Devices
      /\ \A x \in DOMAIN available' : available'[x] \in Entry
  BY <1>1, <1>3 DEF TypeOK, With
<1>5. file' \subseteq Record
  BY <1>1 DEF TypeOK, AddRecord, Record
<1>6. reply' \in Reply /\ ownership' \subseteq Devices /\ UNCHANGED <<handler, ctx, discovering>>
  BY DEF TypeOK, ClaimGranted, Answer, Reply, Codes
<1> QED
  BY <1>2, <1>4, <1>5, <1>6 DEF TypeOK

LEMMA ReleaseTypes ==
    ASSUME TypeOK, NEW p \in Clients, NEW d \in Devices, ReleaseGranted(p, d)
    PROVE  TypeOK'
<1>1. PICK attached \in SUBSET {d} : bus' = GiveBack(bus, claimed, {d}, attached)
  BY DEF ReleaseGranted, Reattached, BusAfterRelease
<1>2. bus' \in Bus
  <2>1. bus \in Bus /\ {d} \in SUBSET Devices
    BY DEF TypeOK
  <2> QED
    BY <1>1, <2>1, GiveBackFields
<1>3. /\ DOMAIN claimed' \subseteq Devices
      /\ \A x \in DOMAIN claimed' : claimed'[x] \in Entry /\ claimed'[x].handle \in Handles
      /\ DOMAIN available' \subseteq Devices
      /\ \A x \in DOMAIN available' : available'[x] \in Entry
  BY DEF TypeOK, ReleaseGranted, Without, With, Unclaimed, Entry
<1>4. file' \subseteq Record /\ reply' \in Reply /\ ownership' \subseteq Devices
  BY DEF TypeOK, ReleaseGranted, RemoveRecord, Unrouted, Answer, Reply, Codes
<1> QED
  BY <1>2, <1>3, <1>4 DEF TypeOK, ReleaseGranted

\* Freeing the sessions of some clients leaves the other entries and their objects.
LEMMA EraseSound ==
    ASSUME ModuleTypeOK, SessionsSound, NEW ps \in SUBSET Clients, Erase(ps)
    PROVE  /\ sessionOf' \in [Clients -> Sessions \cup {NoSession}]
           /\ life' \in [Sessions -> {"unborn", "live", "freed"}]
           /\ \A p \in Clients : sessionOf'[p] # NoSession =>
                 sessionOf'[p] = sessionOf[p] /\ life'[sessionOf'[p]] = "live"
           /\ \A s \in Sessions : life'[s] # "freed" => life'[s] = life[s]
<1> USE DEF ModuleTypeOK, SessionsSound, Erase
<1>1. /\ sessionOf' \in [Clients -> Sessions \cup {NoSession}]
      /\ life' \in [Sessions -> {"unborn", "live", "freed"}]
      /\ \A s \in Sessions : life'[s] # "freed" => life'[s] = life[s]
  OBVIOUS
<1>2. ASSUME NEW p \in Clients, sessionOf'[p] # NoSession
      PROVE  sessionOf'[p] = sessionOf[p] /\ life'[sessionOf'[p]] = "live"
  <2>1. p \notin ps /\ sessionOf'[p] = sessionOf[p]
    BY <1>2
  <2>2. \A q \in ps : sessionOf[q] # sessionOf[p]
    BY <1>2, <2>1
  <2>3. sessionOf[p] \in Sessions /\ life[sessionOf[p]] = "live"
    BY <1>2, <2>1
  <2> QED
    BY <2>1, <2>2, <2>3
<1> QED
  BY <1>1, <1>2

\* The types of the daemon's and the sessions' state.
ModulePart ==
    /\ daemon \in {"idle", "stopping", "closing"} \cup DOMAIN claimed
    /\ moduleRunning \in BOOLEAN
    /\ sessionOf \in [Clients -> Sessions \cup {NoSession}]
    /\ life \in [Sessions -> {"unborn", "live", "freed"}]
    /\ \A p \in Clients : sessionOf[p] # NoSession => life[sessionOf[p]] = "live"
    /\ thread \in [Sessions -> {"none", "spawned", "reading", "releasing", "ended"}]
    /\ device \in [Sessions -> Descriptor]
    /\ crashed \in BOOLEAN

\* The daemon's part of the bus and the tables may change while the sessions do not.
LEMMA SessionsUntouched ==
    ASSUME ModuleTypeOK, SessionsSound, UNCHANGED <<moduleRunning, sessionOf, life, threadVars>>,
           daemon' \in {"idle", "stopping", "closing"} \cup DOMAIN claimed'
    PROVE  ModulePart' /\ SessionsSound'
  BY DEF ModuleTypeOK, ModulePart, SessionsSound, threadVars

LEMMA DaemonTypes ==
    ASSUME ModuleTypeOK, SessionsSound, Daemon
    PROVE  TypeOK' /\ ModulePart' /\ SessionsSound'
<1>0. /\ TypeOK
      /\ daemon \in {"idle", "stopping", "closing"} \cup DOMAIN claimed
  BY DEF ModuleTypeOK
<1>1. CASE HandlerCall
  <2>1. TypeOK'
    BY <1>0, <1>1, HandlerTypes, GrantTypes
       DEF HandlerCall, ClaimDevice, ClaimGranted, Claimable, TypeOK
  <2>2. daemon' = "idle" /\ UNCHANGED <<moduleRunning, sessionOf, life, threadVars>>
    BY <1>1 DEF HandlerCall, moduleVars
  <2> QED
    BY <2>1, <2>2, SessionsUntouched
<1>2. CASE Releases
  <2>1. TypeOK'
    BY <1>0, <1>2, ReleaseTypes DEF Releases, TypeOK
  <2> QED
    BY <1>2, <2>1, SessionsUntouched DEF Releases
<1>3. CASE ModuleSetsRegistry
  <2>1. TypeOK'
    <3>1. discovering' \in BOOLEAN
      BY <1>3, Zenon DEF ModuleSetsRegistry, SetOwnershipRegistry
    <3> QED
      BY <1>0, <1>3, <3>1, ReleaseAllTypes DEF ModuleSetsRegistry, SetOwnershipRegistry
  <2> QED
    BY <1>3, <2>1, SessionsUntouched DEF ModuleSetsRegistry
<1>4. ASSUME NEW d \in Devices, ReleasesInterface(d)
      PROVE  TypeOK' /\ ModulePart' /\ SessionsSound'
  <2>1. bus' \in Bus
    BY <1>0, <1>4, InterfaceFields DEF ReleasesInterface, TypeOK
  <2>2. TypeOK'
    BY <1>0, <1>4, <2>1 DEF ReleasesInterface, TypeOK
  <2> QED
    BY <1>4, <2>2, SessionsUntouched DEF ReleasesInterface
<1>5. CASE ModuleStart
  <2>1. TypeOK'
    BY <1>0, <1>5, HandlerTypes DEF ModuleStart
  <2>2. /\ claimed' = claimed /\ moduleRunning' \in BOOLEAN
        /\ UNCHANGED <<daemon, sessionOf, life, threadVars>>
    BY <1>5 DEF ModuleStart, StartDiscovery
  <2> QED
    BY <1>0, <2>1, <2>2 DEF ModuleTypeOK, ModulePart, SessionsSound, threadVars
<1>6. CASE ModuleStop
  <2>1. TypeOK'
    <3>1. discovering' \in BOOLEAN
      BY <1>6, Zenon DEF ModuleStop, StopAll
    <3> QED
      BY <1>0, <1>6, <3>1, ReleaseAllTypes DEF ModuleStop, StopAll, TypeOK
  <2> QED
    BY <1>6, <2>1, SessionsUntouched DEF ModuleStop
<1>7. CASE ModuleStopped
  <2>1. TypeOK'
    BY <1>0, <1>7 DEF ModuleStopped, TypeOK, vars
  <2>2. moduleRunning' \in BOOLEAN
    BY <1>7, Zenon DEF ModuleStopped
  <2> QED
    BY <1>7, <2>1, <2>2, EraseSound
       DEF ModuleStopped, ModuleTypeOK, ModulePart, SessionsSound, threadVars
<1>8. CASE Shutdown
  <2>1. TypeOK'
    BY <1>0, <1>8 DEF Shutdown, TypeOK, vars
  <2> QED
    BY <1>8, <2>1, EraseSound DEF Shutdown, ModuleTypeOK, ModulePart, SessionsSound, threadVars
<1>9. CASE HandlerDestroyed
  <2>1. TypeOK'
    <3>1. ctx' \in BOOLEAN /\ discovering' \in BOOLEAN
      BY <1>9, Zenon DEF HandlerDestroyed, Destroy
    <3> QED
      BY <1>0, <1>9, <3>1, ReleaseAllTypes DEF HandlerDestroyed, Destroy
  <2> QED
    BY <1>9, <2>1, SessionsUntouched DEF HandlerDestroyed
<1>10. ASSUME NEW p \in Clients, NEW s \in Sessions, HandleClient(p, s)
       PROVE  TypeOK' /\ ModulePart' /\ SessionsSound'
  <2>1. TypeOK'
    BY <1>0, <1>10 DEF HandleClient, TypeOK, vars
  <2>2. \A q \in Clients : sessionOf[q] # s
    BY <1>10 DEF HandleClient, ModuleTypeOK
  <2>3. ModulePart'
    BY <1>10, <2>2 DEF HandleClient, ModuleTypeOK, ModulePart, vars
  <2>4. SessionsSound'
    BY <1>10, <2>2 DEF HandleClient, ModuleTypeOK, SessionsSound
  <2> QED
    BY <2>1, <2>3, <2>4
<1>11. ASSUME NEW p \in Clients, CleanupClient(p)
       PROVE  TypeOK' /\ ModulePart' /\ SessionsSound'
  <2>1. TypeOK'
    BY <1>0, <1>11 DEF CleanupClient, TypeOK, vars
  <2>2. Erase({p}) /\ {p} \in SUBSET Clients /\ claimed' = claimed
        /\ UNCHANGED <<daemon, moduleRunning, thread, device, crashed>>
    BY <1>11 DEF CleanupClient, vars, threadVars
  <2> QED
    BY <2>1, <2>2, EraseSound DEF ModuleTypeOK, ModulePart, SessionsSound
<1> QED
  BY <1>1, <1>2, <1>3, <1>4, <1>5, <1>6, <1>7, <1>8, <1>9, <1>10, <1>11 DEF Daemon

LEMMA ClosedFields ==
    ASSUME NEW desc \in Descriptor
    PROVE  /\ Closed(desc) \in Descriptor
           /\ Closed(desc).id = desc.id /\ Closed(desc).handle = NoHandle
           /\ ~Closed(desc).kdriver
  BY DEF Closed, Descriptor

\* A session's thread moves its own descriptor and place, and the bus.
LEMMA SessionTypes ==
    ASSUME ModuleTypeOK, SessionsSound, NEW s \in Sessions, Session(s)
    PROVE  TypeOK' /\ ModulePart' /\ SessionsSound'
<1> USE DEF OnlyBusAndSession, moduleVars
<1>0. /\ TypeOK
      /\ device[s] \in Descriptor
      /\ thread \in [Sessions -> {"none", "spawned", "reading", "releasing", "ended"}]
  BY DEF ModuleTypeOK
<1>1. CASE SessionStarts(s) \/ SessionEnds(s) \/ TouchesFreed(s)
  <2>1. TypeOK'
    BY <1>0, <1>1 DEF SessionStarts, SessionEnds, TouchesFreed, TypeOK, vars
  <2>2. crashed' \in BOOLEAN
    BY <1>1, Zenon DEF SessionStarts, SessionEnds, TouchesFreed, ModuleTypeOK
  <2> QED
    BY <1>1, <2>1, <2>2
       DEF SessionStarts, SessionEnds, TouchesFreed, vars, ModuleTypeOK, ModulePart, SessionsSound
<1>2. CASE SessionDiscovers(s)
  <2>1. PICK d \in Devices :
           device' = [device EXCEPT ![s] = [id |-> d, handle |-> NoHandle, kdriver |-> FALSE]]
    BY <1>2 DEF SessionDiscovers, NoDescriptor
  <2>2. TypeOK'
    BY <1>0, <1>2 DEF SessionDiscovers, TypeOK
  <2>3. [id |-> d, handle |-> NoHandle, kdriver |-> FALSE] \in Descriptor
    BY DEF Descriptor
  <2> QED
    BY <1>2, <2>1, <2>2, <2>3 DEF SessionDiscovers, Reads, ModuleTypeOK, ModulePart, SessionsSound
<1>3. ASSUME NEW d \in Devices, SessionClaims(s, d)
      PROVE  TypeOK' /\ ModulePart' /\ SessionsSound'
  <2>1. PICK h \in Handles, kdriver \in BOOLEAN :
           /\ bus' = Taken(h, d, kdriver)
           /\ device' = [device EXCEPT ![s] = [id |-> d, handle |-> h, kdriver |-> kdriver]]
    BY <1>3 DEF SessionClaims, FreeHandles, Taken, ClaimedDescriptor
  <2>2. bus' \in Bus
    BY <1>0, <2>1, TakenFields DEF TypeOK
  <2>3. TypeOK'
    BY <1>0, <1>3, <2>2 DEF SessionClaims, TypeOK
  <2>4. [id |-> d, handle |-> h, kdriver |-> kdriver] \in Descriptor
    BY DEF Descriptor
  <2> QED
    BY <1>3, <2>1, <2>3, <2>4 DEF SessionClaims, Reads, ModuleTypeOK, ModulePart, SessionsSound
<1>4. CASE SessionReleasesInterface(s)
  <2>1. device[s].handle \in Handles /\ device[s].id \in Devices
    BY <1>0, <1>4 DEF SessionReleasesInterface, Descriptor, SessionsSound
  <2>2. bus' \in Bus
    BY <1>0, <1>4, <2>1, InterfaceFields DEF SessionReleasesInterface, TypeOK
  <2>3. TypeOK'
    BY <1>0, <1>4, <2>2 DEF SessionReleasesInterface, TypeOK
  <2> QED
    BY <1>4, <2>3 DEF SessionReleasesInterface, Reads, ModuleTypeOK, ModulePart, SessionsSound
<1>5. CASE SessionReleases(s)
  <2>1. device[s].id \in Devices
    BY <1>5 DEF SessionReleases, SessionsSound
  <2>3. bus' \in Bus
    BY <1>0, <1>5, <2>1, SessionGivesBack DEF TypeOK
  <2>4. TypeOK'
    BY <1>0, <1>5, <2>3 DEF SessionReleases, TypeOK
  <2>5. device' = [device EXCEPT ![s] = Closed(device[s])]
    BY <1>5 DEF SessionReleases
  <2> QED
    BY <1>0, <1>5, <2>4, <2>5, ClosedFields
       DEF SessionReleases, ModuleTypeOK, ModulePart, SessionsSound
<1> QED
  BY <1>1, <1>2, <1>3, <1>4, <1>5 DEF Session

LEMMA CableTypes ==
    ASSUME ModuleTypeOK, SessionsSound, Cable
    PROVE  TypeOK' /\ ModulePart' /\ SessionsSound'
<1>1. TypeOK'
  BY HandlerTypes DEF Cable, ModuleTypeOK
<1>2. claimed' = claimed /\ UNCHANGED <<moduleVars, threadVars>>
  BY DEF Cable, Plug, Unplug
<1>3. daemon' \in {"idle", "stopping", "closing"} \cup DOMAIN claimed'
  BY <1>2 DEF ModuleTypeOK, moduleVars
<1> QED
  BY <1>1, <1>2, <1>3, SessionsUntouched DEF moduleVars

\* Every step keeps the types; what counts as lost is a device.
LEMMA ModuleTypes ==
    ASSUME ModuleTypeOK, SessionsSound, [ModuleNext]_allVars
    PROVE  ModuleTypeOK' /\ SessionsSound'
<1>1. CASE ModuleNext
  <2>1. TypeOK' /\ ModulePart' /\ SessionsSound'
    BY <1>1, DaemonTypes, SessionTypes, CableTypes DEF ModuleNext
  <2>2. lost' \subseteq Devices
    BY <1>1, <2>1 DEF ModuleNext, RemembersLosses, TypeOK, Bus
  <2> QED
    BY <2>1, <2>2 DEF ModuleTypeOK, ModulePart
<1>2. CASE UNCHANGED allVars
  BY <1>2 DEF allVars, vars, moduleVars, threadVars, ModuleTypeOK, SessionsSound, TypeOK
<1> QED
  BY <1>1, <1>2

-----------------------------------------------------------------------------
(* How steps change the claims *)

\* Nothing happens to the bus, and no claim gets a new owner.
Quiet ==
    /\ UNCHANGED <<bus, claimed, device>>
    /\ \A s \in Sessions : device[s].handle # NoHandle =>
          /\ life'[s] = "live" => life[s] = "live"
          /\ life[s] = "live" => life'[s] \in {"live", "freed"}
          /\ thread[s] = "releasing" => thread'[s] = "releasing"
    /\ daemon \in Devices => daemon' = daemon

LEMMA QuietClaims ==
    ASSUME Shared, Quiet
    PROVE  Claims'
<1> USE DEF Shared, Quiet, ModuleTypeOK, TypeOK
<1>1. \A s \in Live' : s \in Live
  BY DEF Live
<1>2. /\ \A d \in Devices : OwedByHandler(d)' => OwedByHandler(d)
      /\ \A s \in Sessions, d \in Devices : Owes(s, d)' => Owes(s, d)
  BY DEF OwedByHandler, Owes, Bus
<1>3. BusSound' /\ OwedOnce'
  BY <1>2 DEF Claims, BusSound, OwedOnce
<1>4. HandlesNotShared'
  BY <1>1 DEF Claims, HandlesNotShared
<1>5. ClaimsHoldAcrossPaths'
  BY <1>1 DEF Claims, ClaimsHoldAcrossPaths, Live
<1>6. NoDriverUnderClaim'
  BY <1>1 DEF Claims, NoDriverUnderClaim
<1> QED
  BY <1>3, <1>4, <1>5, <1>6 DEF Claims

\* The handler has claimed device d through handle h.
Granted(d, h, kdriver) ==
    /\ d \notin DOMAIN claimed /\ bus.open[h] = NoDevice /\ CanClaim(bus, d)
    /\ kdriver => d \in bus.bound
    /\ bus' = Taken(h, d, kdriver)
    /\ DOMAIN claimed' = DOMAIN claimed \cup {d}
    /\ claimed'[d].handle = h /\ claimed'[d].kdriver = kdriver
    /\ \A x \in DOMAIN claimed : claimed'[x] = claimed[x]
    /\ UNCHANGED <<device, life, thread, daemon>>

LEMMA GrantedClaims ==
    ASSUME Shared, NEW d \in Devices, NEW h \in Handles, NEW kdriver \in BOOLEAN,
           Granted(d, h, kdriver), daemon \notin Devices
    PROVE  Claims'
<1> USE DEF Shared, Granted
<1>1. /\ bus' \in Bus /\ bus \in Bus
      /\ bus'.present = bus.present /\ bus'.wanted = bus.wanted
      /\ bus'.bound = bus.bound \ (IF kdriver THEN {d} ELSE {})
      /\ bus'.open = [bus.open EXCEPT ![h] = d]
      /\ bus'.live = bus.live \cup {h}
      /\ bus'.holder = [bus.holder EXCEPT ![d] = h]
  <2>1. bus \in Bus /\ bus' = Taken(h, d, kdriver)
    BY DEF ModuleTypeOK, TypeOK
  <2> QED
    BY <2>1, TakenFields
<1>2. d \in bus.present /\ bus.holder[d] = NoHandle
  BY DEF CanClaim
<1>3. Live' = Live /\ UNCHANGED <<device, life, thread, daemon>>
  BY DEF Live
<1>4. /\ \A x \in DOMAIN claimed :
            /\ x # d /\ x \in Devices
            /\ claimed[x].handle \in Handles /\ claimed[x].handle # h
      /\ \A s \in Live : /\ device[s].handle \in Handles /\ device[s].handle # h
                         /\ device[s].id \in Devices
  BY DEF Claims, HandlesNotShared, ModuleTypeOK, TypeOK, Live, Descriptor, SessionsSound
<1>5. BusSound'
  BY <1>1, <1>2 DEF Claims, BusSound, Bus
<1>6. HandlesNotShared'
  BY <1>1, <1>3, <1>4 DEF Claims, HandlesNotShared, Bus
<1>7. ClaimsHoldAcrossPaths'
  BY <1>1, <1>2, <1>3, <1>4 DEF Claims, ClaimsHoldAcrossPaths, Bus
<1>8. NoDriverUnderClaim'
  BY <1>1, <1>3, <1>4 DEF Claims, NoDriverUnderClaim, Bus
<1>9. OwedOnce'
  <2>1. \A s \in Sessions, x \in Devices : Owes(s, x)' => Owes(s, x) /\ s \in Live
    BY <1>1, <1>4 DEF Owes, Live, Bus
  <2>2. \A x \in Devices : OwedByHandler(x)' => OwedByHandler(x) \/ (x = d /\ d \in bus.bound)
    BY <1>1, <1>4 DEF OwedByHandler
  <2>3. \A s \in Sessions : Owes(s, d) /\ s \in Live => d \notin bus.bound
    BY DEF Owes, Claims, NoDriverUnderClaim
  <2> QED
    BY <1>1, <2>1, <2>2, <2>3 DEF Claims, OwedOnce, BusSound
<1> QED
  BY <1>5, <1>6, <1>7, <1>8, <1>9 DEF Claims

\* A session claims a device; what it had before is no longer its own.
LEMMA SessionClaimsClaims ==
    ASSUME Shared, NEW s \in Sessions, NEW d \in Devices, SessionClaims(s, d)
    PROVE  Claims'
<1> USE DEF Shared
<1>1. PICK h \in Handles, kdriver \in BOOLEAN :
         /\ bus.open[h] = NoDevice /\ (kdriver => d \in bus.bound)
         /\ bus' = Taken(h, d, kdriver)
         /\ device' = [device EXCEPT ![s] = [id |-> d, handle |-> h, kdriver |-> kdriver]]
  BY DEF SessionClaims, FreeHandles, Taken, ClaimedDescriptor
<1>2. /\ bus' \in Bus /\ bus \in Bus
      /\ bus'.present = bus.present /\ bus'.wanted = bus.wanted
      /\ bus'.bound = bus.bound \ (IF kdriver THEN {d} ELSE {})
      /\ bus'.open = [bus.open EXCEPT ![h] = d]
      /\ bus'.live = bus.live \cup {h}
      /\ bus'.holder = [bus.holder EXCEPT ![d] = h]
  <2>1. bus \in Bus
    BY DEF ModuleTypeOK, TypeOK
  <2> QED
    BY <1>1, <2>1, TakenFields
<1>3. /\ d \in bus.present /\ bus.holder[d] = NoHandle
      /\ life[s] = "live" /\ thread[s] = "reading"
      /\ UNCHANGED <<claimed, life, thread, daemon>>
  BY DEF SessionClaims, SessionCanClaim, CanClaim, Reads, OnlyBusAndSession, moduleVars
<1>4. /\ device'[s].id = d /\ device'[s].handle = h /\ device'[s].kdriver = kdriver
      /\ \A t \in Sessions \ {s} : device'[t] = device[t]
  BY <1>1 DEF ModuleTypeOK
<1>5. Live' = Live \cup {s}
  BY <1>3, <1>4 DEF Live
<1>6. /\ \A x \in DOMAIN claimed :
            x \in Devices /\ claimed[x].handle \in Handles /\ claimed[x].handle # h
      /\ \A t \in Live : /\ device[t].handle \in Handles /\ device[t].handle # h
                         /\ device[t].id \in Devices
  BY <1>1 DEF Claims, HandlesNotShared, ModuleTypeOK, TypeOK, Live, Descriptor, SessionsSound
<1> DEFINE others == Live \ {s}
<1>6a. \A t \in others : t \in Live /\ t \in Sessions /\ t # s /\ device'[t] = device[t]
  BY <1>4 DEF Live
<1>6b. Live' = others \cup {s}
  BY <1>5
<1> HIDE DEF others
<1>7. BusSound'
  BY <1>1, <1>2, <1>3 DEF Claims, BusSound, Bus
<1>8. HandlesNotShared'
  BY <1>2, <1>3, <1>4, <1>6, <1>6a, <1>6b DEF Claims, HandlesNotShared, Bus
<1>9. ClaimsHoldAcrossPaths'
  BY <1>2, <1>3, <1>4, <1>6, <1>6a, <1>6b DEF Claims, ClaimsHoldAcrossPaths, Bus
<1>10. NoDriverUnderClaim'
  BY <1>2, <1>3, <1>4, <1>6, <1>6a, <1>6b DEF Claims, NoDriverUnderClaim, Bus
<1>11. OwedOnce'
  <2>1. \A x \in Devices : OwedByHandler(x)' => OwedByHandler(x)
    BY <1>2, <1>3, <1>6 DEF OwedByHandler
  <2>2. \A t \in Sessions \ {s}, x \in Devices : Owes(t, x)' => Owes(t, x)
    BY <1>2, <1>3, <1>4, <1>6 DEF Owes, Live, Bus
  <2>3. \A x \in Devices : Owes(s, x)' => x = d /\ d \in bus.bound
    BY <1>1, <1>4 DEF Owes
  <2>4. d \in bus.bound => ~OwedByHandler(d) /\ \A t \in Sessions : ~Owes(t, d)
    BY DEF OwedByHandler, Owes, Live, Claims, NoDriverUnderClaim, Bus, ModuleTypeOK, TypeOK
  <2> QED
    BY <1>2, <2>1, <2>2, <2>3, <2>4 DEF Claims, OwedOnce, BusSound
<1> QED
  BY <1>7, <1>8, <1>9, <1>10, <1>11 DEF Claims

\* The handler has given back the devices ds, and was not in the middle of another.
Given(ds, attached) ==
    /\ bus' = GiveBack(bus, claimed, ds, attached)
    /\ DOMAIN claimed' = DOMAIN claimed \ ds
    /\ \A x \in DOMAIN claimed' : claimed'[x] = claimed[x]
    /\ daemon \in Devices => daemon \in ds
    /\ UNCHANGED <<device, life, thread>>

LEMMA GivenClaims ==
    ASSUME Shared, NEW ds \in SUBSET DOMAIN claimed, NEW attached \in SUBSET ds,
           Given(ds, attached)
    PROVE  Claims'
<1> USE DEF Shared, Given
<1> DEFINE closed == {claimed[d].handle : d \in ds}
<1>1. /\ bus' \in Bus /\ bus \in Bus
      /\ bus'.present = bus.present /\ bus'.wanted = bus.wanted
      /\ bus'.bound = bus.bound \cup (attached \cap Rebindable(bus, claimed, ds))
      /\ bus'.open = [h \in Handles |-> IF h \in closed THEN NoDevice ELSE bus.open[h]]
      /\ bus'.live = bus.live \ closed
      /\ bus'.holder = [d \in Devices |->
                          IF bus.holder[d] \in closed THEN NoHandle ELSE bus.holder[d]]
  BY DEF GiveBack, Bus, ModuleTypeOK, TypeOK
<1>2. Live' = Live /\ UNCHANGED <<device, life, thread>>
  BY DEF Live
<1>3. /\ \A x \in DOMAIN claimed' :
            /\ x \in DOMAIN claimed /\ x \in Devices /\ x \notin ds /\ claimed'[x] = claimed[x]
            /\ claimed[x].handle \in Handles /\ claimed[x].handle \notin closed
            /\ daemon # x
      /\ \A s \in Live : /\ device[s].handle \in Handles /\ device[s].handle \notin closed
                         /\ device[s].id \in Devices
  BY DEF Claims, HandlesNotShared, ModuleTypeOK, TypeOK, Live, Descriptor, SessionsSound
<1>4. \A d \in bus'.bound \ bus.bound : d \in ds /\ OwedByHandler(d) /\ d \in bus.wanted
  <2>1. \A d \in bus'.bound \ bus.bound : d \in ds /\ OwedByHandler(d)
    BY <1>1 DEF Rebindable, OwedByHandler
  <2> QED
    BY <2>1 DEF Claims, OwedOnce, ModuleTypeOK, TypeOK
<1> HIDE DEF closed
<1>5. BusSound'
  BY <1>1, <1>4 DEF Claims, BusSound, Bus
<1>6. HandlesNotShared'
  BY <1>1, <1>2, <1>3 DEF Claims, HandlesNotShared, Bus
<1>7. ClaimsHoldAcrossPaths'
  BY <1>1, <1>2, <1>3 DEF Claims, ClaimsHoldAcrossPaths, Bus
<1>8. NoDriverUnderClaim'
  BY <1>1, <1>2, <1>3, <1>4 DEF Claims, NoDriverUnderClaim, OwedOnce, OwedByHandler, Owes, Live, Bus
<1>9. OwedOnce'
  <2>1. /\ \A x \in Devices : OwedByHandler(x)' => OwedByHandler(x)
        /\ \A t \in Sessions, x \in Devices : Owes(t, x)' => Owes(t, x)
    BY <1>1, <1>2, <1>3 DEF OwedByHandler, Owes
  <2> QED
    BY <1>1, <2>1 DEF Claims, OwedOnce
<1> QED
  BY <1>5, <1>6, <1>7, <1>8, <1>9 DEF Claims

\* A session gives back what it has claimed.
LEMMA SessionReleasesClaims ==
    ASSUME Shared, NEW s \in Sessions, SessionReleases(s)
    PROVE  Claims'
<1> USE DEF Shared
<1> DEFINE h == device[s].handle
           d == device[s].id
<1>1. /\ life[s] = "live" /\ thread[s] = "releasing" /\ s \in Live
      /\ h \in Handles /\ d \in Devices
      /\ UNCHANGED <<claimed, life, daemon>>
      /\ device' = [device EXCEPT ![s] = Closed(device[s])]
      /\ thread' = [thread EXCEPT ![s] = "reading"]
  BY DEF SessionReleases, SessionsSound, ModuleTypeOK, Descriptor, Live,
         OnlyBusAndSession, moduleVars
<1>2. /\ bus' \in Bus /\ bus \in Bus
      /\ bus'.present = bus.present /\ bus'.wanted = bus.wanted
      /\ bus.bound \subseteq bus'.bound
      /\ bus'.bound \subseteq bus.bound \cup Returned(h, d, device[s].kdriver)
      /\ bus'.open = [x \in Handles |-> IF x = h THEN NoDevice ELSE bus.open[x]]
      /\ bus'.live = bus.live \ {h}
      /\ bus'.holder = [x \in Devices |-> IF bus.holder[x] = h THEN NoHandle ELSE bus.holder[x]]
  BY <1>1, SessionGivesBack DEF ModuleTypeOK, TypeOK
<1>3. /\ device'[s].handle = NoHandle
      /\ \A t \in Sessions \ {s} : device'[t] = device[t] /\ thread'[t] = thread[t]
  BY <1>1, ClosedFields DEF ModuleTypeOK
<1>4. /\ \A x \in DOMAIN claimed :
            x \in Devices /\ claimed[x].handle \in Handles /\ claimed[x].handle # h
      /\ \A t \in Live' : /\ t \in Live /\ t \in Sessions /\ t # s /\ device'[t] = device[t]
                          /\ thread'[t] = thread[t]
                          /\ device[t].handle \in Handles /\ device[t].handle # h
                          /\ device[t].id \in Devices
  <2>1. \A t \in Live' : t \in Live /\ t \in Sessions /\ t # s
    BY <1>1, <1>3 DEF Live
  <2> QED
    BY <1>1, <1>3, <2>1
       DEF Claims, HandlesNotShared, ModuleTypeOK, TypeOK, Live, Descriptor, SessionsSound
<1>5. \A x \in bus'.bound \ bus.bound : x = d /\ Owes(s, d) /\ d \in bus.wanted
  BY <1>1, <1>2 DEF Returned, Owes, Claims, OwedOnce
<1> HIDE DEF h, d
<1>6. BusSound'
  BY <1>2, <1>5 DEF Claims, BusSound, Bus
<1>7. HandlesNotShared'
  BY <1>1, <1>2, <1>4 DEF Claims, HandlesNotShared, Bus
<1>8. ClaimsHoldAcrossPaths'
  BY <1>1, <1>2, <1>4 DEF Claims, ClaimsHoldAcrossPaths, Bus
<1>9. NoDriverUnderClaim'
  <2>1. \A x \in DOMAIN claimed' : OwedByHandler(x)' => OwedByHandler(x)
    BY <1>1, <1>2, <1>4 DEF OwedByHandler
  <2>2. \A t \in Live', x \in Devices : Owes(t, x)' => Owes(t, x)
    BY <1>1, <1>2, <1>4 DEF Owes
  <2>3. ~OwedByHandler(d) \/ ~Owes(s, d)
    BY <1>1 DEF Claims, OwedOnce, h, d
  <2>4. \A t \in Live' : ~Owes(t, d) \/ ~Owes(s, d)
    BY <1>1, <1>4 DEF Claims, OwedOnce, h, d
  <2> QED
    BY <1>1, <1>2, <1>4, <1>5, <2>1, <2>2, <2>3, <2>4
       DEF Claims, NoDriverUnderClaim, OwedByHandler, Owes, Live, Bus
<1>10. OwedOnce'
  <2>1. \A x \in Devices : OwedByHandler(x)' => OwedByHandler(x)
    BY <1>1, <1>2, <1>4 DEF OwedByHandler
  <2>2. \A t \in Sessions, x \in Devices : Owes(t, x)' => t \in Live'
    BY <1>1, <1>2, NoHandle \notin Handles DEF Owes, Live, Bus
  <2>3. \A t \in Sessions, x \in Devices : Owes(t, x)' => Owes(t, x)
    BY <1>1, <1>2, <1>4, <2>2 DEF Owes
  <2> QED
    BY <1>2, <2>1, <2>3 DEF Claims, OwedOnce
<1> QED
  BY <1>6, <1>7, <1>8, <1>9, <1>10 DEF Claims

\* The first half of giving back: the interface is free, and whoever was giving it back
\* is known to be at it.
LEMMA InterfaceClaims ==
    ASSUME Shared, NEW d \in Devices, NEW h \in Handles, bus' = ReleaseInterface(bus, h, d),
           UNCHANGED <<claimed, device, life>>,
           \A x \in DOMAIN claimed : claimed[x].handle = h => daemon' = x,
           \A x \in DOMAIN claimed : daemon = x => daemon' = x,
           \A s \in Live : device[s].handle = h => thread'[s] = "releasing",
           \A s \in Live : thread[s] = "releasing" => thread'[s] = "releasing"
    PROVE  Claims'
<1> USE DEF Shared
<1>1. /\ bus' \in Bus /\ bus \in Bus
      /\ bus'.present = bus.present /\ bus'.wanted = bus.wanted
      /\ bus'.bound = bus.bound
      /\ bus'.open = bus.open /\ bus'.live = bus.live
      /\ bus'.holder = [bus.holder EXCEPT ![d] = IF @ = h THEN NoHandle ELSE @]
  <2>1. bus \in Bus
    BY DEF ModuleTypeOK, TypeOK
  <2> QED
    BY <2>1, InterfaceFields
<1>2. Live' = Live
  BY DEF Live
<1>3. BusSound' /\ HandlesNotShared' /\ NoDriverUnderClaim'
  BY <1>1, <1>2 DEF Claims, BusSound, HandlesNotShared, NoDriverUnderClaim
<1>4. ClaimsHoldAcrossPaths'
  <2>1. \A x \in DOMAIN claimed : claimed[x].handle \in bus.live /\ daemon' # x =>
           bus'.holder[x] = claimed[x].handle
    BY <1>1 DEF Claims, ClaimsHoldAcrossPaths, Bus, ModuleTypeOK, TypeOK
  <2>2. \A s \in Live : device[s].handle \in bus.live /\ thread'[s] # "releasing" =>
           bus'.holder[device[s].id] = device[s].handle
    BY <1>1 DEF Claims, ClaimsHoldAcrossPaths, Bus, Live, SessionsSound
  <2> QED
    BY <1>1, <1>2, <2>1, <2>2 DEF ClaimsHoldAcrossPaths
<1>5. OwedOnce'
  BY <1>1 DEF Claims, OwedOnce, OwedByHandler, Owes
<1> QED
  BY <1>3, <1>4, <1>5 DEF Claims

\* A session that looks at a device no longer has the one it had claimed.
LEMMA DiscoversClaims ==
    ASSUME Shared, NEW s \in Sessions, SessionDiscovers(s)
    PROVE  Claims'
<1> USE DEF Shared
<1>1. /\ UNCHANGED <<bus, claimed, life, thread, daemon>>
      /\ device'[s].handle = NoHandle
      /\ \A t \in Sessions \ {s} : device'[t] = device[t]
  BY DEF SessionDiscovers, NoDescriptor, OnlyBusAndSession, moduleVars, ModuleTypeOK
<1>2. \A t \in Live' : t \in Live /\ device'[t] = device[t]
  BY <1>1 DEF Live
<1>3. BusSound'
  BY <1>1 DEF Claims, BusSound
<1>4. HandlesNotShared'
  BY <1>1, <1>2 DEF Claims, HandlesNotShared
<1>5. ClaimsHoldAcrossPaths'
  BY <1>1, <1>2 DEF Claims, ClaimsHoldAcrossPaths
<1>6. NoDriverUnderClaim'
  BY <1>1, <1>2 DEF Claims, NoDriverUnderClaim
<1>7. OwedOnce'
  <2>1. \A d \in Devices : OwedByHandler(d)' => OwedByHandler(d)
    BY <1>1 DEF OwedByHandler
  <2>2. \A t \in Sessions, d \in Devices : Owes(t, d)' => Owes(t, d)
    BY <1>1, NoHandle \notin Handles DEF Owes, Bus, ModuleTypeOK, TypeOK
  <2> QED
    BY <1>1, <2>1, <2>2 DEF Claims, OwedOnce
<1> QED
  BY <1>3, <1>4, <1>5, <1>6, <1>7 DEF Claims

\* A device that is plugged in is under nobody's live handle.
LEMMA PlugClaims ==
    ASSUME Shared, NEW d \in Devices, Plug(d), UNCHANGED <<moduleVars, threadVars>>
    PROVE  Claims'
<1> USE DEF Shared
<1>1. /\ bus' \in Bus /\ bus \in Bus
      /\ bus'.present = bus.present \cup {d}
      /\ bus'.open = bus.open /\ bus'.live = bus.live /\ bus'.holder = bus.holder
      /\ \/ bus'.wanted = bus.wanted \cup {d} /\ bus'.bound = bus.bound \cup {d}
         \/ bus'.wanted = bus.wanted /\ bus'.bound = bus.bound
  BY PlugFields DEF ModuleTypeOK, TypeOK
<1>2. /\ d \notin bus.present /\ UNCHANGED <<claimed, life, thread, device, daemon>>
      /\ Live' = Live
  BY DEF Plug, moduleVars, threadVars, Live
<1>3. \A h \in bus.live : bus.open[h] # d
  BY <1>2 DEF Claims, BusSound
<1>4. BusSound'
  BY <1>1 DEF Claims, BusSound
<1>5. HandlesNotShared'
  BY <1>1, <1>2 DEF Claims, HandlesNotShared
<1>6. ClaimsHoldAcrossPaths'
  BY <1>1, <1>2 DEF Claims, ClaimsHoldAcrossPaths
<1>7. NoDriverUnderClaim'
  BY <1>1, <1>2, <1>3 DEF Claims, NoDriverUnderClaim, HandlesNotShared
<1>8. OwedOnce'
  BY <1>1, <1>2 DEF Claims, OwedOnce, OwedByHandler, Owes
<1> QED
  BY <1>4, <1>5, <1>6, <1>7, <1>8 DEF Claims

\* Unplugging a device ends the claims on it and no other.
LEMMA UnplugClaims ==
    ASSUME Shared, NEW d \in Devices, Unplug(d), UNCHANGED <<moduleVars, threadVars>>
    PROVE  Claims'
<1> USE DEF Shared
<1>1. /\ bus' \in Bus /\ bus \in Bus
      /\ bus'.present = bus.present \ {d} /\ bus'.wanted = bus.wanted \ {d}
      /\ bus'.bound = bus.bound \ {d}
      /\ bus'.open = bus.open /\ bus'.live = {h \in bus.live : bus.open[h] # d}
      /\ bus'.holder = [bus.holder EXCEPT ![d] = NoHandle]
  BY UnplugFields DEF ModuleTypeOK, TypeOK
<1>2. UNCHANGED <<claimed, life, thread, device, daemon>> /\ Live' = Live
  BY DEF Unplug, moduleVars, threadVars, Live
<1>3. BusSound'
  BY <1>1 DEF Claims, BusSound
<1>4. HandlesNotShared'
  BY <1>1, <1>2 DEF Claims, HandlesNotShared
<1>5. ClaimsHoldAcrossPaths'
  <2>1. \A x \in DOMAIN claimed : x \in Devices
    BY DEF ModuleTypeOK, TypeOK
  <2>2. \A s \in Live : device[s].id \in Devices
    BY DEF Live, SessionsSound
  <2> QED
    BY <1>1, <1>2, <2>1, <2>2 DEF Claims, ClaimsHoldAcrossPaths, HandlesNotShared, Bus
<1>6. NoDriverUnderClaim'
  BY <1>1, <1>2 DEF Claims, NoDriverUnderClaim
<1>7. OwedOnce'
  <2>1. /\ \A x \in Devices : OwedByHandler(x)' => OwedByHandler(x) /\ x # d
        /\ \A s \in Sessions, x \in Devices : Owes(s, x)' => Owes(s, x) /\ x # d
    BY <1>1, <1>2, NoHandle \notin Handles
       DEF OwedByHandler, Owes, Claims, HandlesNotShared, Live, Bus
  <2> QED
    BY <1>1, <2>1 DEF Claims, OwedOnce
<1> QED
  BY <1>3, <1>4, <1>5, <1>6, <1>7 DEF Claims

\* What a step of the daemon's thread may do to the claims.
LEMMA DaemonKinds ==
    ASSUME ModuleTypeOK, SessionsSound, BusSound, Daemon
    PROVE  \/ Quiet
           \/ \E d \in Devices, h \in Handles, kdriver \in BOOLEAN :
                 Granted(d, h, kdriver) /\ daemon \notin Devices
           \/ \E ds \in SUBSET DOMAIN claimed : \E attached \in Reattached(ds) : Given(ds, attached)
           \/ \E d \in DOMAIN claimed : ReleasesInterface(d)
<1>0. /\ \A x \in {"idle", "stopping", "closing"} : x \notin Devices
      /\ DOMAIN claimed \subseteq Devices
  BY DEF ModuleTypeOK, TypeOK
<1>1. CASE HandlerCall
  <2>1. daemon = "idle" /\ UNCHANGED <<daemon, life, thread, device>>
    BY <1>1 DEF HandlerCall, moduleVars, threadVars
  <2>2. ASSUME NEW p \in Clients, NEW d \in Devices, ClaimGranted(p, d)
        PROVE  \E h \in Handles, kdriver \in BOOLEAN : Granted(d, h, kdriver)
    <3>1. PICK h \in Handles, kdriver \in BOOLEAN :
             /\ bus.open[h] = NoDevice /\ (kdriver => d \in bus.bound)
             /\ bus' = Taken(h, d, kdriver)
             /\ claimed' = With(claimed, d, ClaimEntry(h, kdriver, p))
      BY <2>2 DEF ClaimGranted, FreeHandles, Taken
    <3>2. d \notin DOMAIN claimed /\ CanClaim(bus, d)
      BY <2>2 DEF ClaimGranted, Claimable
    <3>3. /\ DOMAIN claimed' = DOMAIN claimed \cup {d}
          /\ claimed'[d] = ClaimEntry(h, kdriver, p)
          /\ \A x \in DOMAIN claimed : claimed'[x] = claimed[x]
      BY <3>1, <3>2 DEF With
    <3>4. Granted(d, h, kdriver)
      BY <2>1, <3>1, <3>2, <3>3 DEF Granted, ClaimEntry
    <3> QED
      BY <3>4
  <2>3. \/ UNCHANGED <<bus, claimed>>
        \/ \E p \in Clients, d \in Devices : ClaimGranted(p, d)
    <3>1. ASSUME NEW p, NEW d \in Devices \cup {NoDevice}, ClaimFails(p, d)
          PROVE  bus' = bus /\ claimed' = claimed
      <4>1. d \in Devices
        BY <3>1 DEF ClaimFails, ModuleTypeOK, TypeOK
      <4>2. bus' = bus
        BY <3>1, <4>1, FailureFields DEF ModuleTypeOK, TypeOK
      <4> QED
        BY <3>1, <4>2 DEF ClaimFails, Refuse
    <3> QED
      BY <1>0, <1>1, <3>1
         DEF HandlerCall, Construct, SendDeviceList, ClaimDevice, ClaimRefused, Refuse,
                ReleaseRefused, ClaimGranted, Claimable, ModuleTypeOK, TypeOK
  <2>4. CASE UNCHANGED <<bus, claimed>>
    BY <2>1, <2>4 DEF Quiet
  <2> QED
    BY <1>0, <2>1, <2>2, <2>3, <2>4
<1>2. CASE Releases
  <2>1. PICK attached \in Reattached({daemon}) :
           /\ bus' = GiveBack(bus, claimed, {daemon}, attached)
           /\ claimed' = Without(claimed, daemon)
    BY <1>2 DEF Releases, ReleaseGranted, BusAfterRelease
  <2>2. Given({daemon}, attached) /\ {daemon} \in SUBSET DOMAIN claimed
    BY <1>2, <2>1 DEF Releases, Given, Without, threadVars
  <2> QED
    BY <2>2
<1>3. ASSUME ReleaseAllDevices, UNCHANGED <<life, threadVars>>
      PROVE  \E attached \in Reattached(DOMAIN claimed) : Given(DOMAIN claimed, attached)
  <2>1. PICK attached \in Reattached(DOMAIN claimed) :
           /\ bus' = GiveBack(bus, claimed, DOMAIN claimed, attached)
           /\ claimed' = EmptyTable
    BY <1>3 DEF ReleaseAllDevices, BusAfterRelease
  <2>2. daemon \in Devices => daemon \in DOMAIN claimed
    BY <1>0 DEF ModuleTypeOK
  <2>3. Given(DOMAIN claimed, attached)
    BY <1>3, <2>1, <2>2 DEF Given, EmptyTable, threadVars
  <2> QED
    BY <2>3
<1>4. CASE ModuleSetsRegistry
  BY <1>3, <1>4 DEF ModuleSetsRegistry, SetOwnershipRegistry
<1>5. ASSUME NEW d \in Devices, ReleasesInterface(d)
      PROVE  d \in DOMAIN claimed
  BY <1>5 DEF ReleasesInterface
<1>6. CASE ModuleStart
  BY <1>6 DEF ModuleStart, StartDiscovery, Quiet, threadVars
<1>7. CASE ModuleStop
  BY <1>3, <1>7 DEF ModuleStop, StopAll
<1>8. CASE ModuleStopped
  <2>1. \A s \in Sessions : life'[s] # "freed" => life'[s] = life[s]
    BY <1>8, EraseSound DEF ModuleStopped
  <2> QED
    BY <1>0, <1>8, <2>1 DEF ModuleStopped, Quiet, vars, threadVars
<1>9. CASE Shutdown
  <2>1. \A s \in Sessions : life'[s] # "freed" => life'[s] = life[s]
    BY <1>9, EraseSound DEF Shutdown
  <2> QED
    BY <1>0, <1>9, <2>1 DEF Shutdown, Quiet, vars, threadVars
<1>10. CASE HandlerDestroyed
  BY <1>3, <1>10 DEF HandlerDestroyed, Destroy
<1>11. ASSUME NEW p \in Clients, NEW s \in Sessions, HandleClient(p, s)
       PROVE  Quiet
  BY <1>11 DEF HandleClient, Quiet, vars, SessionsSound, ModuleTypeOK
<1>12. ASSUME NEW p \in Clients, CleanupClient(p)
       PROVE  Quiet
  <2>1. \A s \in Sessions : life'[s] # "freed" => life'[s] = life[s]
    BY <1>12, EraseSound DEF CleanupClient
  <2> QED
    BY <1>12, <2>1 DEF CleanupClient, Quiet, vars, threadVars
<1> QED
  BY <1>1, <1>2, <1>3, <1>4, <1>5, <1>6, <1>7, <1>8, <1>9, <1>10, <1>11, <1>12 DEF Daemon

\* A session's thread that does not touch the claims.
LEMMA SessionQuiet ==
    ASSUME ModuleTypeOK, NEW s \in Sessions,
           SessionStarts(s) \/ SessionEnds(s) \/ TouchesFreed(s)
    PROVE  Quiet
  BY DEF SessionStarts, SessionEnds, TouchesFreed, Reads, Quiet, vars, moduleVars, ModuleTypeOK

LEMMA InitShared == ModuleInitial => Shared
<1> SUFFICES ASSUME ModuleInitial PROVE Shared
  OBVIOUS
<1>1. PICK plugged \in SUBSET Devices, driven \in SUBSET Devices :
         bus = BusStart(plugged, driven) /\ driven \subseteq plugged
  BY DEF ModuleInitial, Init
<1>2. DOMAIN available = {} /\ DOMAIN claimed = {}
  BY DEF ModuleInitial, Init, EmptyTable
<1>3. bus \in Bus
  BY <1>1 DEF BusStart, Bus
<1>4. TypeOK
  BY <1>2, <1>3 DEF ModuleInitial, Init, TypeOK, NoReply, Reply, Codes
<1>5. ModuleTypeOK /\ SessionsSound
  BY <1>4 DEF ModuleInitial, ModuleTypeOK, SessionsSound, Descriptor, NoDescriptor
<1>6. Live = {}
  BY DEF Live, ModuleInitial
<1>7. Claims
  BY <1>1, <1>2, <1>6
     DEF ModuleInitial, Claims, BusSound, OwedOnce, OwedByHandler, Owes, HandlesNotShared,
         ClaimsHoldAcrossPaths, NoDriverUnderClaim, BusStart
<1> QED
  BY <1>5, <1>7 DEF Shared

LEMMA SharedStep == Shared /\ [ModuleNext]_allVars => Shared'
<1> SUFFICES ASSUME Shared, [ModuleNext]_allVars PROVE Claims'
  BY ModuleTypes DEF Shared
<1>0. ModuleTypeOK /\ SessionsSound /\ bus \in Bus /\ BusSound
  BY DEF Shared, ModuleTypeOK, TypeOK, Claims
<1>1. CASE Daemon
  <2>1. CASE Quiet
    BY <2>1, QuietClaims
  <2>2. ASSUME NEW d \in Devices, NEW h \in Handles, NEW kdriver \in BOOLEAN,
               Granted(d, h, kdriver), daemon \notin Devices
        PROVE  Claims'
    BY <2>2, GrantedClaims
  <2>3. ASSUME NEW ds \in SUBSET DOMAIN claimed, NEW attached \in Reattached(ds),
               Given(ds, attached)
        PROVE  Claims'
    BY <2>3, GivenClaims DEF Reattached
  <2>4. ASSUME NEW d \in DOMAIN claimed, ReleasesInterface(d)
        PROVE  Claims'
    <3>1. /\ d \in Devices /\ claimed[d].handle \in Handles
          /\ \A x \in DOMAIN claimed : claimed[x].handle = claimed[d].handle => x = d
          /\ \A s \in Live : device[s].handle # claimed[d].handle
      BY <1>0 DEF Shared, Claims, HandlesNotShared, ModuleTypeOK, TypeOK
    <3>2. /\ daemon = "idle" /\ daemon' = d /\ UNCHANGED <<claimed, device, life, thread>>
          /\ bus' = ReleaseInterface(bus, claimed[d].handle, d)
      BY <2>4 DEF ReleasesInterface, threadVars
    <3>3. \A x \in DOMAIN claimed : daemon # x
      BY <1>0, <3>2 DEF ModuleTypeOK, TypeOK
    <3> QED
      BY <3>1, <3>2, <3>3, InterfaceClaims
  <2> QED
    BY <1>0, <1>1, <2>1, <2>2, <2>3, <2>4, DaemonKinds
<1>2. ASSUME NEW s \in Sessions, Session(s)
      PROVE  Claims'
  <2>1. CASE SessionStarts(s) \/ SessionEnds(s) \/ TouchesFreed(s)
    BY <1>0, <2>1, SessionQuiet, QuietClaims
  <2>2. CASE SessionReleasesInterface(s)
    <3>1. /\ device[s].handle \in Handles /\ device[s].id \in Devices /\ s \in Live
          /\ \A x \in DOMAIN claimed : claimed[x].handle # device[s].handle
          /\ \A t \in Live : device[t].handle = device[s].handle => t = s
      BY <1>0, <2>2
         DEF SessionReleasesInterface, Reads, Live, Descriptor, Shared, Claims, HandlesNotShared,
             ModuleTypeOK, SessionsSound
    <3>2. /\ bus' = ReleaseInterface(bus, device[s].handle, device[s].id)
          /\ thread' = [thread EXCEPT ![s] = "releasing"]
          /\ UNCHANGED <<claimed, device, life, daemon>>
      BY <2>2 DEF SessionReleasesInterface, OnlyBusAndSession, moduleVars
    <3>3. \A t \in Live : t = s \/ thread[t] = "releasing" => thread'[t] = "releasing"
      BY <1>0, <3>2 DEF ModuleTypeOK, Live
    <3> DEFINE h == device[s].handle
               d == device[s].id
    <3>4. /\ h \in Handles /\ d \in Devices /\ bus' = ReleaseInterface(bus, h, d)
          /\ UNCHANGED <<claimed, device, life, daemon>>
          /\ \A x \in DOMAIN claimed : claimed[x].handle # h
          /\ \A t \in Live : device[t].handle = h => t = s
      BY <3>1, <3>2
    <3> HIDE DEF h, d
    <3> QED
      BY <3>3, <3>4, InterfaceClaims
  <2> QED
    BY <1>2, <2>1, <2>2, DiscoversClaims, SessionClaimsClaims, SessionReleasesClaims DEF Session
<1>3. CASE Cable
  BY <1>3, PlugClaims, UnplugClaims DEF Cable
<1>4. CASE UNCHANGED allVars
  <2>1. Quiet
    BY <1>4 DEF allVars, vars, moduleVars, threadVars, Quiet
  <2> QED
    BY <2>1, QuietClaims
<1> QED
  BY <1>1, <1>2, <1>3, <1>4 DEF ModuleNext

LEMMA SharedAlways == ModuleSpec => []Shared
  BY InitShared, SharedStep, PTL DEF ModuleSpec

-----------------------------------------------------------------------------
(* Theorems *)

\* The state of the module keeps its types, and its table of sessions names live session
\* objects only.
THEOREM ModuleTypeCorrect == ModuleSpec => []ModuleTypeOK
<1>1. Shared => ModuleTypeOK
  BY DEF Shared
<1> QED
  BY <1>1, SharedAlways, PTL

\* Handler and sessions, which take handles without asking each other, never share one
\* and use none that has been closed.
THEOREM HandlesApart == ModuleSpec => []HandlesNotShared
<1>1. Shared => HandlesNotShared
  BY DEF Shared, Claims
<1> QED
  BY <1>1, SharedAlways, PTL

\* A claim of the handler or of a session holds its interface against the other path until
\* it begins to be given back or the device is unplugged.
THEOREM ClaimsHold == ModuleSpec => []ClaimsHoldAcrossPaths
<1>1. Shared => ClaimsHoldAcrossPaths
  BY DEF Shared, Claims
<1> QED
  BY <1>1, SharedAlways, PTL

\* No step of either path puts the kernel driver back under a claim that took it away.
THEOREM DriverStaysAway == ModuleSpec => []NoDriverUnderClaim
<1>1. Shared => NoDriverUnderClaim
  BY DEF Shared, Claims
<1> QED
  BY <1>1, SharedAlways, PTL

-----------------------------------------------------------------------------
(* No driver is lost but through the gaps *)

\* What every step does to the claims that owe a driver, and to the interface they need
\* to give it back.
OwedMoves ==
    \A d \in Devices :
        /\ bus'.holder[d] \in {bus.holder[d], NoHandle} \/ bus.holder[d] = NoHandle
        /\ OwedByHandler(d)' =>
              \/ OwedByHandler(d) /\ claimed'[d].handle = claimed[d].handle
              \/ bus'.holder[d] = claimed'[d].handle
        /\ \A s \in Sessions : Owes(s, d)' =>
              \/ Owes(s, d) /\ device'[s].handle = device[s].handle
              \/ bus'.holder[d] = device'[s].handle
        /\ d \in bus'.wanted \ bus'.bound =>
              /\ d \notin bus.wanted \ bus.bound =>
                    OwedByHandler(d)' \/ \E s \in Sessions : Owes(s, d)'
              /\ OwedByHandler(d) => OwedByHandler(d)' \/ d \in lost \cup Losses
              /\ \A s \in Sessions : Owes(s, d) => Owes(s, d)' \/ d \in lost \cup Losses

LEMMA OwedMovesKeep ==
    ASSUME Shared, Shared', RefusalsKnown, DriverLostOnlyThroughGaps, OwedMoves, RemembersLosses
    PROVE  RefusalsKnown' /\ DriverLostOnlyThroughGaps'
<1>1. bus \in Bus /\ bus' \in Bus
  BY DEF Shared, ModuleTypeOK, TypeOK
<1>2. \A d \in lost \cup Losses : d \in bus'.wanted \ bus'.bound => d \in lost'
  BY DEF RemembersLosses
<1>3. \A d \in Devices : (OwedByHandler(d) \/ \E s \in Sessions : Owes(s, d)) =>
         bus.holder[d] # NoHandle \/ bus'.holder[d] = NoHandle \/ d \in Losses
  BY DEF Losses, LostInTheWindow
<1>4. \A d \in Devices : OwedByHandler(d)' \/ (\E s \in Sessions : Owes(s, d)') =>
         d \in bus'.wanted \ bus'.bound
  BY NoHandle \notin Handles, <1>1
     DEF Shared, Claims, OwedOnce, NoDriverUnderClaim, OwedByHandler, Owes, Live, Bus
<1>5. RefusalsKnown'
  BY <1>2, <1>3, <1>4 DEF RefusalsKnown, OwedMoves
<1>6. DriverLostOnlyThroughGaps'
  <2> SUFFICES ASSUME NEW d \in (bus.wanted \ bus.bound)'
               PROVE  d \in lost' \/ OwedByHandler(d)' \/ \E s \in Sessions : Owes(s, d)'
    BY DEF DriverLostOnlyThroughGaps
  <2>1. d \in Devices
    BY <1>1 DEF Bus
  <2>2. CASE d \notin bus.wanted \ bus.bound
    BY <2>1, <2>2 DEF OwedMoves
  <2>3. CASE d \in bus.wanted \ bus.bound
    BY <1>2, <2>1, <2>3 DEF OwedMoves, DriverLostOnlyThroughGaps
  <2> QED
    BY <2>2, <2>3
<1> QED
  BY <1>5, <1>6

LEMMA QuietMoves ==
    ASSUME Shared, Quiet
    PROVE  OwedMoves
<1>1. bus' = bus /\ claimed' = claimed /\ device' = device /\ bus \in Bus
  BY DEF Quiet, Shared, ModuleTypeOK, TypeOK
<1>2. \A d \in Devices : OwedByHandler(d)' <=> OwedByHandler(d)
  BY <1>1 DEF OwedByHandler
<1>3. \A s \in Sessions, d \in Devices : Owes(s, d)' => Owes(s, d)
  BY <1>1, NoHandle \notin Handles DEF Owes, Quiet, Bus
<1>4. \A s \in Sessions, d \in Devices : Owes(s, d) => Owes(s, d)' \/ d \in Losses
  BY <1>1, NoHandle \notin Handles DEF Owes, Quiet, Losses, LostByFreeing, Bus
<1> QED
  BY <1>1, <1>2, <1>3, <1>4 DEF OwedMoves

LEMMA GrantedMoves ==
    ASSUME Shared, NEW d \in Devices, NEW h \in Handles, NEW kdriver \in BOOLEAN,
           Granted(d, h, kdriver)
    PROVE  OwedMoves
<1>1. /\ bus \in Bus /\ bus' = Taken(h, d, kdriver) /\ (kdriver => d \in bus.bound)
      /\ d \notin DOMAIN claimed /\ bus.holder[d] = NoHandle /\ bus.open[h] = NoDevice
      /\ DOMAIN claimed' = DOMAIN claimed \cup {d}
      /\ claimed'[d].handle = h /\ claimed'[d].kdriver = kdriver
      /\ \A x \in DOMAIN claimed : claimed'[x] = claimed[x]
      /\ UNCHANGED <<device, life, thread>>
  BY DEF Granted, CanClaim, Shared, ModuleTypeOK, TypeOK
<1>2. /\ bus'.wanted = bus.wanted /\ bus'.bound = bus.bound \ (IF kdriver THEN {d} ELSE {})
      /\ bus'.live = bus.live \cup {h}
      /\ bus'.holder = [bus.holder EXCEPT ![d] = h]
  <2>1. bus \in Bus /\ bus' = Taken(h, d, kdriver)
    BY <1>1
  <2> QED
    BY <2>1, TakenFields
<1>3. \A x \in Devices \ {d} :
         /\ OwedByHandler(x)' <=> OwedByHandler(x)
         /\ bus'.holder[x] = bus.holder[x]
         /\ x \in bus'.bound <=> x \in bus.bound
         /\ OwedByHandler(x) => claimed'[x].handle = claimed[x].handle
  BY <1>1, <1>2 DEF OwedByHandler, Shared, Claims, HandlesNotShared, Bus
<1>4. \A s \in Sessions, x \in Devices : Owes(s, x)' <=> Owes(s, x)
  BY <1>1, <1>2, NoHandle \notin Handles
     DEF Owes, Live, Shared, Claims, HandlesNotShared, SessionsSound, Bus
<1>5. /\ bus'.holder[d] = h /\ ~OwedByHandler(d)
      /\ kdriver => OwedByHandler(d)'
  BY <1>1, <1>2 DEF OwedByHandler, Bus
<1> QED
  BY <1>1, <1>2, <1>3, <1>4, <1>5 DEF OwedMoves

LEMMA GivenMoves ==
    ASSUME Shared, RefusalsKnown, NEW ds \in SUBSET DOMAIN claimed, Given(ds, ds)
    PROVE  OwedMoves
<1> DEFINE closed == {claimed[d].handle : d \in ds}
<1>1. /\ bus \in Bus
      /\ DOMAIN claimed \subseteq Devices
      /\ DOMAIN claimed' = DOMAIN claimed \ ds
      /\ \A x \in DOMAIN claimed' : claimed'[x] = claimed[x]
      /\ UNCHANGED <<device, life, thread>>
  BY DEF Given, Shared, ModuleTypeOK, TypeOK
<1>2. /\ bus'.wanted = bus.wanted
      /\ bus'.bound = bus.bound \cup (ds \cap Rebindable(bus, claimed, ds))
      /\ bus'.live = bus.live \ closed
      /\ bus'.holder = [d \in Devices |->
                          IF bus.holder[d] \in closed THEN NoHandle ELSE bus.holder[d]]
  BY DEF GiveBack, Bus, Given, Shared, ModuleTypeOK, TypeOK
<1>3. /\ \A x \in DOMAIN claimed' : claimed[x].handle \notin closed
      /\ \A s \in Live : device[s].handle \notin closed
  BY <1>1 DEF Shared, Claims, HandlesNotShared
<1>4. \A d \in ds : OwedByHandler(d) => d \in bus'.bound \/ d \in lost
  BY <1>1, <1>2 DEF Rebindable, OwedByHandler, RefusalsKnown
<1> HIDE DEF closed
<1>5. \A x \in Devices :
         /\ OwedByHandler(x)' => OwedByHandler(x) /\ claimed'[x].handle = claimed[x].handle
         /\ OwedByHandler(x) => OwedByHandler(x)' \/ x \in ds
  BY <1>1, <1>2, <1>3 DEF OwedByHandler
<1>6. \A s \in Sessions, x \in Devices : Owes(s, x)' <=> Owes(s, x)
  BY <1>1, <1>2, <1>3, NoHandle \notin Handles DEF Owes, Live, Bus
<1>7. \A x \in Devices : bus'.holder[x] \in {bus.holder[x], NoHandle}
  BY <1>2
<1> QED
  BY <1>1, <1>2, <1>4, <1>5, <1>6, <1>7 DEF OwedMoves

LEMMA InterfaceMoves ==
    ASSUME Shared, NEW d \in Devices, NEW h \in Handles, bus' = ReleaseInterface(bus, h, d),
           UNCHANGED <<claimed, device, life>>
    PROVE  OwedMoves
<1>1. bus \in Bus
  BY DEF Shared, ModuleTypeOK, TypeOK
<1>2. /\ bus'.wanted = bus.wanted /\ bus'.bound = bus.bound /\ bus'.live = bus.live
      /\ bus'.holder = [bus.holder EXCEPT ![d] = IF @ = h THEN NoHandle ELSE @]
  BY <1>1, InterfaceFields
<1>3. /\ \A x \in Devices : OwedByHandler(x)' <=> OwedByHandler(x)
      /\ \A s \in Sessions, x \in Devices : Owes(s, x)' <=> Owes(s, x)
  BY <1>2 DEF OwedByHandler, Owes
<1>4. \A x \in Devices : bus'.holder[x] \in {bus.holder[x], NoHandle}
  BY <1>1, <1>2 DEF Bus
<1> QED
  BY <1>2, <1>3, <1>4 DEF OwedMoves

LEMMA DiscoversMoves ==
    ASSUME Shared, NEW s \in Sessions, SessionDiscovers(s)
    PROVE  OwedMoves
<1>1. /\ UNCHANGED <<bus, claimed, life, thread>> /\ bus \in Bus
      /\ thread[s] = "reading" /\ device'[s].handle = NoHandle
      /\ \A t \in Sessions \ {s} : device'[t] = device[t]
  BY DEF SessionDiscovers, Reads, NoDescriptor, OnlyBusAndSession, moduleVars, Shared,
         ModuleTypeOK, TypeOK
<1>2. \A x \in Devices : OwedByHandler(x)' <=> OwedByHandler(x)
  BY <1>1 DEF OwedByHandler
<1>3. \A x \in Devices : ~Owes(s, x)' /\ (Owes(s, x) => x \in Losses)
  BY <1>1, NoHandle \notin Handles DEF Owes, Losses, LostByOverwriting, Bus
<1>4. \A t \in Sessions \ {s}, x \in Devices : Owes(t, x)' <=> Owes(t, x)
  BY <1>1 DEF Owes
<1> QED
  BY <1>1, <1>2, <1>3, <1>4 DEF OwedMoves

LEMMA SessionClaimsMoves ==
    ASSUME Shared, NEW s \in Sessions, NEW d \in Devices, SessionClaims(s, d)
    PROVE  OwedMoves
<1>1. PICK h \in Handles, kdriver \in BOOLEAN :
         /\ bus.open[h] = NoDevice /\ (kdriver => d \in bus.bound)
         /\ bus' = Taken(h, d, kdriver)
         /\ device' = [device EXCEPT ![s] = [id |-> d, handle |-> h, kdriver |-> kdriver]]
  BY DEF SessionClaims, FreeHandles, Taken, ClaimedDescriptor
<1>2. /\ bus \in Bus /\ bus.holder[d] = NoHandle
      /\ life[s] = "live" /\ thread[s] = "reading"
      /\ UNCHANGED <<claimed, life, thread>>
      /\ device'[s].id = d /\ device'[s].handle = h /\ device'[s].kdriver = kdriver
      /\ \A t \in Sessions \ {s} : device'[t] = device[t]
  BY <1>1 DEF SessionClaims, SessionCanClaim, CanClaim, Reads, OnlyBusAndSession, moduleVars,
              Shared, ModuleTypeOK, TypeOK
<1>3. /\ bus'.wanted = bus.wanted /\ bus'.bound = bus.bound \ (IF kdriver THEN {d} ELSE {})
      /\ bus'.live = bus.live \cup {h}
      /\ bus'.holder = [bus.holder EXCEPT ![d] = h]
  BY <1>1, <1>2, TakenFields
<1>4. /\ \A x \in DOMAIN claimed : claimed[x].handle # h
      /\ \A t \in Live : device[t].handle # h
  BY <1>1 DEF Shared, Claims, HandlesNotShared, ModuleTypeOK, TypeOK, Live, SessionsSound
<1>5. \A x \in Devices : OwedByHandler(x)' <=> OwedByHandler(x)
  BY <1>2, <1>3, <1>4 DEF OwedByHandler
<1>6. \A t \in Sessions \ {s}, x \in Devices : Owes(t, x)' <=> Owes(t, x)
  BY <1>2, <1>3, <1>4, NoHandle \notin Handles DEF Owes, Live, Bus
<1>7. \A x \in Devices : /\ Owes(s, x) => x \in Losses
                         /\ Owes(s, x)' => x = d
  BY <1>2, <1>4, NoHandle \notin Handles DEF Owes, Losses, LostByOverwriting, Live, Bus
<1>8. /\ bus'.holder[d] = h
      /\ \A x \in Devices \ {d} : bus'.holder[x] = bus.holder[x]
      /\ kdriver => Owes(s, d)'
  BY <1>2, <1>3 DEF Owes, Bus
<1>9. \A x \in Devices : x \in bus.bound \ bus'.bound => x = d /\ kdriver
  BY <1>3
<1> QED
  BY <1>2, <1>3, <1>5, <1>6, <1>7, <1>8, <1>9 DEF OwedMoves

LEMMA SessionReleasesMoves ==
    ASSUME AttachMayFail = FALSE, Shared, RefusalsKnown, NEW s \in Sessions, SessionReleases(s)
    PROVE  OwedMoves
<1> DEFINE h == device[s].handle
           d == device[s].id
<1>1. /\ bus \in Bus /\ s \in Live /\ h \in Handles /\ d \in Devices
      /\ UNCHANGED <<claimed, life>>
      /\ device'[s].handle = NoHandle
      /\ \A t \in Sessions \ {s} : device'[t] = device[t]
  BY ClosedFields
     DEF SessionReleases, Shared, SessionsSound, ModuleTypeOK, TypeOK, Descriptor, Live,
         OnlyBusAndSession, moduleVars
<1>2. /\ bus' \in Bus /\ bus'.wanted = bus.wanted
      /\ bus'.bound = bus.bound \cup Returned(h, d, device[s].kdriver)
      /\ bus'.live = bus.live \ {h}
      /\ bus'.holder = [x \in Devices |-> IF bus.holder[x] = h THEN NoHandle ELSE bus.holder[x]]
  BY <1>1, SessionGivesBack
<1>3. /\ \A x \in DOMAIN claimed : claimed[x].handle # h
      /\ \A t \in Live : t # s => device[t].handle # h
  BY <1>1 DEF Shared, Claims, HandlesNotShared
<1>4. \A x \in Devices : Owes(s, x) => x \in bus'.bound \/ x \in lost
  BY <1>2 DEF Owes, Returned, RefusalsKnown
<1>5. \A x \in Devices : OwedByHandler(x)' <=> OwedByHandler(x)
  BY <1>1, <1>2, <1>3 DEF OwedByHandler
<1>6. \A t \in Sessions \ {s}, x \in Devices : Owes(t, x)' <=> Owes(t, x)
  BY <1>1, <1>2, <1>3, NoHandle \notin Handles DEF Owes, Live, Bus
<1>7. \A x \in Devices : ~Owes(s, x)'
  BY <1>1, <1>2, NoHandle \notin Handles DEF Owes, Bus
<1>8. \A x \in Devices : bus'.holder[x] \in {bus.holder[x], NoHandle}
  BY <1>2
<1> QED
  BY <1>1, <1>2, <1>4, <1>5, <1>6, <1>7, <1>8 DEF OwedMoves

LEMMA CableMoves ==
    ASSUME Shared, NEW d \in Devices, Plug(d) \/ Unplug(d), UNCHANGED <<moduleVars, threadVars>>
    PROVE  OwedMoves
<1>1. bus \in Bus /\ UNCHANGED <<claimed, device, life>>
  BY DEF Plug, Unplug, moduleVars, threadVars, Shared, ModuleTypeOK, TypeOK
<1>2. CASE Plug(d)
  <2>1. /\ bus'.live = bus.live /\ bus'.holder = bus.holder
        /\ \/ bus'.wanted = bus.wanted \cup {d} /\ bus'.bound = bus.bound \cup {d}
           \/ bus'.wanted = bus.wanted /\ bus'.bound = bus.bound
    BY <1>1, <1>2, PlugFields
  <2>2. /\ \A x \in Devices : OwedByHandler(x)' <=> OwedByHandler(x)
        /\ \A s \in Sessions, x \in Devices : Owes(s, x)' <=> Owes(s, x)
    BY <1>1, <2>1 DEF OwedByHandler, Owes
  <2> QED
    BY <1>1, <2>1, <2>2 DEF OwedMoves
<1>3. CASE Unplug(d)
  <2>1. /\ bus'.wanted = bus.wanted \ {d} /\ bus'.bound = bus.bound \ {d}
        /\ bus'.live = {h \in bus.live : bus.open[h] # d}
        /\ bus'.holder = [bus.holder EXCEPT ![d] = NoHandle]
    BY <1>1, <1>3, UnplugFields
  <2>2. \A x \in Devices : /\ OwedByHandler(x)' => OwedByHandler(x)
                           /\ OwedByHandler(x) => OwedByHandler(x)' \/ x = d
    BY <1>1, <2>1 DEF OwedByHandler, Shared, Claims, HandlesNotShared
  <2>3. \A s \in Sessions, x \in Devices : /\ Owes(s, x)' => Owes(s, x)
                                           /\ Owes(s, x) => Owes(s, x)' \/ x = d
    BY <1>1, <2>1, NoHandle \notin Handles
       DEF Owes, Live, Bus, Shared, Claims, HandlesNotShared
  <2>4. \A x \in Devices : bus'.holder[x] \in {bus.holder[x], NoHandle}
    BY <1>1, <2>1 DEF Bus
  <2> QED
    BY <1>1, <2>1, <2>2, <2>3, <2>4 DEF OwedMoves
<1> QED
  BY <1>2, <1>3

LEMMA EveryStepMoves ==
    ASSUME AttachMayFail = FALSE, Shared, RefusalsKnown, ModuleNext
    PROVE  OwedMoves
<1>0. ModuleTypeOK /\ SessionsSound /\ bus \in Bus /\ BusSound
  BY DEF Shared, ModuleTypeOK, TypeOK, Claims
<1>1. CASE Daemon
  <2>1. CASE Quiet
    BY <2>1, QuietMoves
  <2>2. ASSUME NEW d \in Devices, NEW h \in Handles, NEW kdriver \in BOOLEAN, Granted(d, h, kdriver)
        PROVE  OwedMoves
    BY <2>2, GrantedMoves
  <2>3. ASSUME NEW ds \in SUBSET DOMAIN claimed, NEW attached \in Reattached(ds),
               Given(ds, attached)
        PROVE  OwedMoves
    <3>1. attached = ds
      BY <2>3 DEF Reattached
    <3> QED
      BY <2>3, <3>1, GivenMoves
  <2>4. ASSUME NEW d \in DOMAIN claimed, ReleasesInterface(d)
        PROVE  OwedMoves
    <3>1. /\ d \in Devices /\ claimed[d].handle \in Handles
          /\ bus' = ReleaseInterface(bus, claimed[d].handle, d)
          /\ UNCHANGED <<claimed, device, life>>
      BY <1>0, <2>4 DEF ReleasesInterface, threadVars, ModuleTypeOK, TypeOK
    <3> QED
      BY <3>1, InterfaceMoves
  <2> QED
    BY <1>0, <1>1, <2>1, <2>2, <2>3, <2>4, DaemonKinds
<1>2. ASSUME NEW s \in Sessions, Session(s)
      PROVE  OwedMoves
  <2>1. CASE SessionStarts(s) \/ SessionEnds(s) \/ TouchesFreed(s)
    BY <1>0, <2>1, SessionQuiet, QuietMoves
  <2>2. CASE SessionReleasesInterface(s)
    <3>1. /\ device[s].handle \in Handles /\ device[s].id \in Devices
          /\ bus' = ReleaseInterface(bus, device[s].handle, device[s].id)
          /\ UNCHANGED <<claimed, device, life>>
      BY <1>0, <2>2
         DEF SessionReleasesInterface, Descriptor, ModuleTypeOK, SessionsSound,
             OnlyBusAndSession, moduleVars
    <3> QED
      BY <3>1, InterfaceMoves
  <2> QED
    BY <1>2, <2>1, <2>2, DiscoversMoves, SessionClaimsMoves, SessionReleasesMoves DEF Session
<1>3. CASE Cable
  BY <1>3, CableMoves DEF Cable
<1> QED
  BY <1>1, <1>2, <1>3 DEF ModuleNext

LEMMA DriverStep ==
    ASSUME AttachMayFail = FALSE
    PROVE  DriverInv /\ [ModuleNext]_allVars => DriverInv'
<1> SUFFICES ASSUME DriverInv, [ModuleNext]_allVars PROVE DriverInv'
  OBVIOUS
<1>1. Shared /\ Shared' /\ RefusalsKnown /\ DriverLostOnlyThroughGaps
  BY SharedStep DEF DriverInv
<1>2. CASE ModuleNext
  BY <1>1, <1>2, EveryStepMoves, OwedMovesKeep DEF DriverInv, ModuleNext
<1>3. CASE UNCHANGED allVars
  BY <1>1, <1>3
     DEF DriverInv, RefusalsKnown, DriverLostOnlyThroughGaps, OwedByHandler, Owes, allVars, vars,
         moduleVars, threadVars
<1> QED
  BY <1>2, <1>3

\* When the kernel takes every driver it is offered, a device that stays without its driver
\* is owed it by a live claim or has lost it by a session's being freed, by its looking at
\* another device, or by a claim in the middle of giving the device back.
THEOREM DriversLostKnown ==
    AttachMayFail = FALSE => (ModuleSpec => []DriverLostOnlyThroughGaps)
<1> SUFFICES ASSUME AttachMayFail = FALSE
             PROVE  ModuleSpec => []DriverLostOnlyThroughGaps
  OBVIOUS
<1>1. ASSUME ModuleInitial PROVE DriverInv
  <2>1. bus.wanted = bus.bound /\ bus.live = {}
    BY <1>1 DEF ModuleInitial, Init, BusStart
  <2>2. RefusalsKnown /\ DriverLostOnlyThroughGaps
    BY <2>1 DEF RefusalsKnown, DriverLostOnlyThroughGaps, OwedByHandler, Owes
  <2> QED
    BY <1>1, <2>2, InitShared DEF DriverInv
<1>2. DriverInv /\ [ModuleNext]_allVars => DriverInv'
  BY DriverStep
<1>3. DriverInv => DriverLostOnlyThroughGaps
  BY DEF DriverInv
<1> QED
  BY <1>1, <1>2, <1>3, PTL DEF ModuleSpec

-----------------------------------------------------------------------------
(* The refinement: the two claiming paths implement DeviceUse *)

\* A handle that has claimed an interface is open on that device.
HoldersOpen ==
    \A d \in Devices : bus.holder[d] # NoHandle => bus.open[bus.holder[d]] = d

UseInv == Shared /\ HoldersOpen

\* Who uses a device, in terms of the handle that has claimed its interface.
Free(d) == bus.holder[d] = NoHandle
ByHandler(d) == d \in DOMAIN claimed /\ claimed[d].handle = bus.holder[d]
BySession(s, d) == s \in Live /\ device[s].handle = bus.holder[d]

UserKnown(d) ==
    /\ UserOf[d] = "nobody" <=> Free(d)
    /\ UserOf[d] = "handler" <=> ByHandler(d)
    /\ \A s \in Sessions : UserOf[d] = s <=> BySession(s, d)
    /\ UserOf[d] \in {"nobody", "handler", "abandoned"} \cup Sessions

LEMMA UserCases ==
    ASSUME Shared, NEW d \in Devices
    PROVE  UserKnown(d)
<1> USE DEF UserKnown
<1>1. /\ \A s \in Live : s \in Sessions /\ device[s].handle # NoHandle
      /\ \A s, t \in Live : device[s].handle = device[t].handle => s = t
      /\ d \in DOMAIN claimed => /\ claimed[d].handle # NoHandle
                                 /\ \A s \in Live : device[s].handle # claimed[d].handle
  BY NoHandle \notin Handles DEF Shared, Claims, HandlesNotShared, Live, ModuleTypeOK, TypeOK
<1>2. \A s \in Sessions : s \notin {"nobody", "handler", "abandoned"}
  OBVIOUS
<1>3. CASE Free(d)
  <2>1. UserOf[d] = "nobody" /\ ~ByHandler(d) /\ \A s \in Sessions : ~BySession(s, d)
    BY <1>1, <1>3 DEF UserOf, Free, ByHandler, BySession
  <2> QED
    BY <1>2, <1>3, <2>1
<1>4. CASE ~Free(d) /\ ByHandler(d)
  <2>1. UserOf[d] = "handler" /\ \A s \in Sessions : ~BySession(s, d)
    BY <1>1, <1>4 DEF UserOf, Free, ByHandler, BySession
  <2> QED
    BY <1>2, <1>4, <2>1
<1>5. ASSUME ~Free(d), ~ByHandler(d), NEW s \in Live, device[s].handle = bus.holder[d]
      PROVE  /\ UserOf[d] = s /\ s \in Sessions
             /\ \A t \in Sessions : BySession(t, d) <=> t = s
  <2>1. UserOf[d] = CHOOSE t \in Live : device[t].handle = bus.holder[d]
    BY <1>5 DEF UserOf, Free, ByHandler
  <2>2. UserOf[d] \in Live /\ device[UserOf[d]].handle = bus.holder[d]
    BY <1>5, <2>1
  <2> QED
    BY <1>1, <1>5, <2>2 DEF BySession
<1>6. CASE ~Free(d) /\ ~ByHandler(d) /\ \E s \in Live : device[s].handle = bus.holder[d]
  BY <1>2, <1>5, <1>6
<1>7. CASE ~Free(d) /\ ~ByHandler(d) /\ ~\E s \in Live : device[s].handle = bus.holder[d]
  <2>1. UserOf[d] = "abandoned" /\ \A s \in Sessions : ~BySession(s, d)
    BY <1>7 DEF UserOf, Free, ByHandler, BySession
  <2> QED
    BY <1>2, <1>7, <2>1
<1> QED
  BY <1>3, <1>4, <1>6, <1>7

LEMMA UserCasesNext ==
    ASSUME NEW d \in Devices
    PROVE  Shared' => UserKnown(d)'
<1>1. Shared => UserKnown(d)
  BY UserCases
<1> QED
  BY <1>1, PTL

\* A device that is used as before.
SameUse(d) ==
    /\ Free(d)' <=> Free(d)
    /\ ByHandler(d)' <=> ByHandler(d)
    /\ \A s \in Sessions : BySession(s, d)' <=> BySession(s, d)

LEMMA SameUser ==
    ASSUME Shared, Shared', NEW d \in Devices, SameUse(d)
    PROVE  UserOf'[d] = UserOf[d]
BY UserCases, UserCasesNext DEF SameUse, UserKnown

Implements == Use!Next \/ UNCHANGED <<bus.present, UserOf>>

\* What a step by which u may end its use of one device comes to.
LEMMA EndsOne ==
    ASSUME Shared, Shared', NEW d \in Devices, NEW u \in Sessions \cup {"handler"},
           SameUse(d) \/ (Free(d)' /\ UserOf[d] = u),
           \A x \in Devices \ {d} : SameUse(x),
           bus'.present = bus.present
    PROVE  Implements
<1>1. ASSUME NEW x \in Devices \ {d}
      PROVE  UserOf'[x] = UserOf[x]
  BY <1>1, SameUser
<1>2. CASE SameUse(d)
  <2>1. UserOf'[d] = UserOf[d]
    BY <1>2, SameUser
  <2>2. UserOf' = UserOf
    BY <1>1, <2>1 DEF UserOf
  <2> QED
    BY <2>2 DEF Implements
<1>3. CASE Free(d)' /\ UserOf[d] = u
  <2>1. UserOf'[d] = "nobody"
    BY <1>3, UserCasesNext DEF UserKnown
  <2>2. UserOf' = Use!Passed({d}, "nobody")
    BY <1>1, <2>1 DEF UserOf, Use!Passed
  <2>3. {d} \in SUBSET Use!Using(u)
    BY <1>3 DEF Use!Using
  <2> QED
    BY <2>2, <2>3 DEF Implements, Use!Next, Use!Ends
<1> QED
  BY <1>2, <1>3

\* Nobody gets a claim, and none is given back: sessions may be freed.
LEMMA QuietUse ==
    ASSUME Shared, Shared', HoldersOpen, Quiet
    PROVE  HoldersOpen' /\ Implements
<1> DEFINE ss == {s \in Live : s \notin Live'}
<1>1. /\ bus' = bus /\ claimed' = claimed /\ device' = device
      /\ \A s \in Live' : s \in Live
      /\ Live \subseteq Sessions
  BY DEF Quiet, Live
<1>2. HoldersOpen'
  BY <1>1 DEF HoldersOpen
<1>3. ASSUME NEW d \in Devices
      PROVE  UserOf'[d] = IF UserOf[d] \in ss THEN "abandoned" ELSE UserOf[d]
  <2>1. /\ Free(d)' <=> Free(d)
        /\ ByHandler(d)' <=> ByHandler(d)
        /\ \A s \in Sessions : BySession(s, d)' <=> BySession(s, d) /\ s \notin ss
    BY <1>1 DEF Free, ByHandler, BySession
  <2>2. ss \subseteq Sessions /\ \A s \in Sessions : s \notin {"nobody", "handler", "abandoned"}
    BY <1>1
  <2>3. UserKnown(d) /\ UserKnown(d)'
    BY UserCases, UserCasesNext
  <2> HIDE DEF ss
  <2>4. CASE UserOf[d] \in ss
    BY <2>1, <2>2, <2>3, <2>4 DEF UserKnown
  <2>5. CASE UserOf[d] \notin ss
    BY <2>1, <2>2, <2>3, <2>5 DEF UserKnown
  <2> QED
    BY <2>4, <2>5
<1>4. UserOf' = [d \in Devices |-> IF UserOf[d] \in ss THEN "abandoned" ELSE UserOf[d]]
  BY <1>3 DEF UserOf
<1>5. ss \in SUBSET Sessions /\ bus'.present = bus.present
  BY <1>1
<1> HIDE DEF ss
<1> QED
  BY <1>2, <1>4, <1>5 DEF Implements, Use!Next, Use!Abandons

\* The handler claims a device that nobody uses.
LEMMA GrantedUse ==
    ASSUME Shared, Shared', HoldersOpen, NEW d \in Devices, NEW h \in Handles,
           NEW kdriver \in BOOLEAN, Granted(d, h, kdriver)
    PROVE  HoldersOpen' /\ Implements
<1>1. /\ bus \in Bus /\ bus' = Taken(h, d, kdriver)
      /\ bus.holder[d] = NoHandle /\ bus.open[h] = NoDevice /\ h # NoHandle
      /\ DOMAIN claimed' = DOMAIN claimed \cup {d}
      /\ claimed'[d].handle = h
      /\ \A x \in DOMAIN claimed : claimed'[x] = claimed[x]
      /\ device' = device /\ Live' = Live
  BY DEF Granted, CanClaim, Live, Shared, ModuleTypeOK, TypeOK
<1>2. /\ bus'.open = [bus.open EXCEPT ![h] = d]
      /\ bus'.holder = [bus.holder EXCEPT ![d] = h]
      /\ bus'.present = bus.present /\ d \in bus.present
  <2>1. bus \in Bus /\ bus' = Taken(h, d, kdriver)
    BY <1>1
  <2>2. d \in bus.present
    BY DEF Granted, CanClaim
  <2> QED
    BY <2>1, <2>2, TakenFields
<1>3. /\ bus'.holder[d] = h /\ bus'.open[h] = d
      /\ \A x \in Devices \ {d} : bus'.holder[x] = bus.holder[x]
      /\ \A g \in Handles \ {h} : bus'.open[g] = bus.open[g]
      /\ \A x \in Devices : bus.holder[x] # h
  BY <1>1, <1>2 DEF Bus, HoldersOpen
<1>4. HoldersOpen'
  BY <1>1, <1>3 DEF HoldersOpen, Bus
<1>5. ASSUME NEW x \in Devices
      PROVE  UserOf'[x] = IF x \in {d} THEN "handler" ELSE UserOf[x]
  <2>1. CASE x = d
    <3>1. ByHandler(d)'
      BY <1>1, <1>3 DEF ByHandler
    <3> QED
      BY <2>1, <3>1, UserCasesNext DEF UserKnown
  <2>2. CASE x # d
    <3>1. SameUse(x)
      BY <1>1, <1>3, <2>2 DEF SameUse, Free, ByHandler, BySession
    <3> QED
      BY <2>2, <3>1, SameUser
  <2> QED
    BY <2>1, <2>2
<1>6. UserOf' = Use!Passed({d}, "handler")
  BY <1>5 DEF UserOf, Use!Passed
<1>7. d \in Use!Using("nobody") \cap bus.present
  BY <1>1, <1>2, UserCases DEF UserKnown, Free, Use!Using
<1> QED
  BY <1>2, <1>4, <1>6, <1>7 DEF Implements, Use!Next, Use!HandlerBegins

\* A session claims a device that nobody uses, and abandons the one it had.
LEMMA SessionClaimsUse ==
    ASSUME Shared, Shared', HoldersOpen, NEW s \in Sessions, NEW d \in Devices,
           SessionClaims(s, d)
    PROVE  HoldersOpen' /\ Implements
<1>1. PICK h \in Handles, kdriver \in BOOLEAN :
         /\ bus.open[h] = NoDevice
         /\ bus' = Taken(h, d, kdriver)
         /\ device' = [device EXCEPT ![s] = [id |-> d, handle |-> h, kdriver |-> kdriver]]
  BY DEF SessionClaims, FreeHandles, Taken, ClaimedDescriptor
<1>2. /\ bus \in Bus /\ bus.holder[d] = NoHandle /\ h # NoHandle
      /\ life[s] = "live" /\ UNCHANGED <<claimed, life>> /\ d \in bus.present
      /\ device'[s].handle = h
      /\ \A t \in Sessions \ {s} : device'[t] = device[t]
  BY <1>1 DEF SessionClaims, SessionCanClaim, CanClaim, Reads, OnlyBusAndSession, moduleVars,
              Shared, ModuleTypeOK, TypeOK
<1>3. /\ bus'.open = [bus.open EXCEPT ![h] = d]
      /\ bus'.holder = [bus.holder EXCEPT ![d] = h]
      /\ bus'.present = bus.present
  BY <1>1, <1>2, TakenFields
<1>4. /\ bus'.holder[d] = h /\ bus'.open[h] = d
      /\ \A x \in Devices \ {d} : bus'.holder[x] = bus.holder[x]
      /\ \A g \in Handles \ {h} : bus'.open[g] = bus.open[g]
      /\ \A x \in Devices : bus.holder[x] # h
  BY <1>1, <1>2, <1>3 DEF Bus, HoldersOpen
<1>5. HoldersOpen'
  BY <1>2, <1>4 DEF HoldersOpen, Bus
<1>6. s \in Live' /\ \A t \in Sessions \ {s} : t \in Live' <=> t \in Live
  BY <1>2 DEF Live
<1>7. ASSUME NEW x \in Devices
      PROVE  UserOf'[x] = IF x = d THEN s
                          ELSE IF UserOf[x] = s THEN "abandoned" ELSE UserOf[x]
  <2>1. CASE x = d
    <3>1. BySession(s, d)'
      BY <1>2, <1>4, <1>6 DEF BySession
    <3> QED
      BY <2>1, <3>1, UserCasesNext DEF UserKnown
  <2>2. CASE x # d
    <3>1. /\ Free(x)' <=> Free(x)
          /\ ByHandler(x)' <=> ByHandler(x)
          /\ ~BySession(s, x)'
          /\ \A t \in Sessions \ {s} : BySession(t, x)' <=> BySession(t, x)
      BY <1>2, <1>4, <1>6, <2>2 DEF Free, ByHandler, BySession
    <3>2. UserKnown(x) /\ UserKnown(x)'
      BY UserCases, UserCasesNext
    <3>3. \A t \in Sessions : t \notin {"nobody", "handler", "abandoned"}
      OBVIOUS
    <3>4. CASE UserOf[x] = s
      BY <2>2, <3>1, <3>2, <3>3, <3>4 DEF UserKnown
    <3>5. CASE UserOf[x] # s
      BY <2>2, <3>1, <3>2, <3>3, <3>5 DEF UserKnown
    <3> QED
      BY <2>2, <3>4, <3>5
  <2> QED
    BY <2>1, <2>2
<1>8. UserOf' = [x \in Devices |-> IF x = d THEN s
                                   ELSE IF UserOf[x] = s THEN "abandoned" ELSE UserOf[x]]
  BY <1>7 DEF UserOf
<1>9. d \in Use!Using("nobody") \cap bus.present
  BY <1>2, UserCases DEF UserKnown, Free, Use!Using
<1> QED
  BY <1>3, <1>5, <1>8, <1>9 DEF Implements, Use!Next, Use!SessionBegins

\* The handler gives devices back; each of them it used, or it had lost its interface.
LEMMA GivenUse ==
    ASSUME Shared, Shared', HoldersOpen, NEW ds \in SUBSET DOMAIN claimed,
           NEW attached \in SUBSET ds, Given(ds, attached)
    PROVE  HoldersOpen' /\ Implements
<1> DEFINE closed == {claimed[d].handle : d \in ds}
           used == {d \in ds : ByHandler(d)}
<1>1. /\ bus \in Bus /\ bus'.present = bus.present
      /\ bus'.open = [h \in Handles |-> IF h \in closed THEN NoDevice ELSE bus.open[h]]
      /\ bus'.holder = [d \in Devices |->
                          IF bus.holder[d] \in closed THEN NoHandle ELSE bus.holder[d]]
  BY DEF GiveBack, Bus, Given, Shared, ModuleTypeOK, TypeOK
<1>2. /\ DOMAIN claimed \subseteq Devices
      /\ DOMAIN claimed' = DOMAIN claimed \ ds
      /\ \A x \in DOMAIN claimed' : claimed'[x] = claimed[x]
      /\ device' = device /\ Live' = Live
      /\ closed \subseteq Handles
      /\ \A d \in ds : bus.open[claimed[d].handle] = d
      /\ \A s \in Live : device[s].handle \notin closed /\ device[s].handle # NoHandle
      /\ \A x \in DOMAIN claimed' : claimed[x].handle \notin closed /\ claimed[x].handle # NoHandle
  BY DEF Given, Live, Shared, Claims, HandlesNotShared, ModuleTypeOK, TypeOK
<1>3. \A x \in Devices : bus.holder[x] \in closed <=> x \in used
  <2>1. ASSUME NEW x \in Devices, bus.holder[x] \in closed
        PROVE  x \in used
    <3>1. PICK d \in ds : bus.holder[x] = claimed[d].handle
      BY <2>1
    <3>2. bus.holder[x] # NoHandle
      BY <1>2, <2>1
    <3>3. x = d
      BY <1>2, <3>1, <3>2 DEF HoldersOpen
    <3> QED
      BY <3>1, <3>3 DEF ByHandler
  <2>2. ASSUME NEW x \in used
        PROVE  bus.holder[x] \in closed
    BY <2>2 DEF ByHandler
  <2> QED
    BY <2>1, <2>2
<1> HIDE DEF closed, used
<1>4. HoldersOpen'
  BY <1>1, <1>2 DEF HoldersOpen, Bus
<1>5. ASSUME NEW x \in Devices
      PROVE  UserOf'[x] = IF x \in used THEN "nobody" ELSE UserOf[x]
  <2>1. CASE x \in used
    <3>1. Free(x)'
      BY <1>1, <1>3, <2>1 DEF Free
    <3> QED
      BY <2>1, <3>1, UserCasesNext DEF UserKnown
  <2>2. CASE x \notin used
    <3>1. bus'.holder[x] = bus.holder[x]
      BY <1>1, <1>3, <2>2
    <3>2. ByHandler(x)' <=> ByHandler(x)
      BY <1>2, <2>2, <3>1 DEF ByHandler, used
    <3>3. SameUse(x)
      BY <1>2, <3>1, <3>2 DEF SameUse, Free, BySession
    <3> QED
      BY <2>2, <3>3, SameUser
  <2> QED
    BY <2>1, <2>2
<1>6. UserOf' = Use!Passed(used, "nobody")
  BY <1>5 DEF UserOf, Use!Passed
<1>7. used \in SUBSET Use!Using("handler")
  BY <1>2, UserCases DEF UserKnown, used, Use!Using
<1> QED
  BY <1>1, <1>4, <1>6, <1>7, "handler" \in Sessions \cup {"handler"}
     DEF Implements, Use!Next, Use!Ends

\* The interface of a device is released, and nobody else's is.
LEMMA InterfaceUse ==
    ASSUME Shared, Shared', HoldersOpen, NEW d \in Devices, NEW h \in Handles,
           bus' = ReleaseInterface(bus, h, d), UNCHANGED <<claimed, device, life>>,
           NEW u \in Sessions \cup {"handler"}, bus.holder[d] = h => UserOf[d] = u
    PROVE  HoldersOpen' /\ Implements
<1>1. bus \in Bus
  BY DEF Shared, ModuleTypeOK, TypeOK
<1>2. /\ bus'.open = bus.open /\ bus'.present = bus.present
      /\ bus'.holder = [bus.holder EXCEPT ![d] = IF @ = h THEN NoHandle ELSE @]
  BY <1>1, InterfaceFields
<1>3. /\ \A x \in Devices \ {d} : bus'.holder[x] = bus.holder[x]
      /\ bus'.holder[d] = IF bus.holder[d] = h THEN NoHandle ELSE bus.holder[d]
      /\ Live' = Live
  BY <1>1, <1>2 DEF Bus, Live
<1>4. HoldersOpen'
  BY <1>2, <1>3 DEF HoldersOpen
<1>5. SameUse(d) \/ (Free(d)' /\ UserOf[d] = u)
  BY <1>3 DEF SameUse, Free, ByHandler, BySession
<1>6. \A x \in Devices \ {d} : SameUse(x)
  BY <1>3 DEF SameUse, Free, ByHandler, BySession
<1> QED
  BY <1>2, <1>4, <1>5, <1>6, EndsOne

\* A session that looks at a device abandons the one it had claimed.
LEMMA DiscoversUse ==
    ASSUME Shared, Shared', HoldersOpen, NEW s \in Sessions, SessionDiscovers(s)
    PROVE  HoldersOpen' /\ Implements
<1>1. /\ UNCHANGED <<bus, claimed, life>>
      /\ device'[s].handle = NoHandle
      /\ \A t \in Sessions \ {s} : device'[t] = device[t]
  BY DEF SessionDiscovers, NoDescriptor, OnlyBusAndSession, moduleVars, Shared, ModuleTypeOK
<1>2. HoldersOpen'
  BY <1>1 DEF HoldersOpen
<1>3. s \notin Live' /\ \A t \in Sessions \ {s} : t \in Live' <=> t \in Live
  BY <1>1 DEF Live
<1>4. ASSUME NEW x \in Devices
      PROVE  UserOf'[x] = IF UserOf[x] \in {s} THEN "abandoned" ELSE UserOf[x]
  <2>1. /\ Free(x)' <=> Free(x)
        /\ ByHandler(x)' <=> ByHandler(x)
        /\ ~BySession(s, x)'
        /\ \A t \in Sessions \ {s} : BySession(t, x)' <=> BySession(t, x)
    BY <1>1, <1>3 DEF Free, ByHandler, BySession
  <2>2. UserKnown(x) /\ UserKnown(x)'
    BY UserCases, UserCasesNext
  <2>3. \A t \in Sessions : t \notin {"nobody", "handler", "abandoned"}
    OBVIOUS
  <2>4. CASE UserOf[x] = s
    BY <2>1, <2>2, <2>3, <2>4 DEF UserKnown
  <2>5. CASE UserOf[x] # s
    BY <2>1, <2>2, <2>3, <2>5 DEF UserKnown
  <2> QED
    BY <2>4, <2>5
<1>5. UserOf' = [x \in Devices |-> IF UserOf[x] \in {s} THEN "abandoned" ELSE UserOf[x]]
  BY <1>4 DEF UserOf
<1>6. {s} \in SUBSET Sessions /\ bus'.present = bus.present
  BY <1>1
<1> QED
  BY <1>2, <1>5, <1>6 DEF Implements, Use!Next, Use!Abandons

\* A session closes the handle it had, and so ends its use of the device if it still has one.
LEMMA SessionReleasesUse ==
    ASSUME Shared, Shared', HoldersOpen, NEW s \in Sessions, SessionReleases(s)
    PROVE  HoldersOpen' /\ Implements
<1>0. PICK h \in Handles, d \in Devices : h = device[s].handle /\ d = device[s].id
  BY DEF SessionReleases, Shared, SessionsSound, ModuleTypeOK, Descriptor
<1>1. /\ bus \in Bus /\ s \in Live
      /\ UNCHANGED <<claimed, life>>
      /\ device'[s].handle = NoHandle
      /\ \A t \in Sessions \ {s} : device'[t] = device[t]
      /\ bus.open[h] = d
  BY <1>0, ClosedFields
     DEF SessionReleases, Shared, SessionsSound, ModuleTypeOK, TypeOK, Descriptor, Live,
         OnlyBusAndSession, moduleVars, Claims, HandlesNotShared
<1>2. /\ bus'.present = bus.present
      /\ bus'.open = [x \in Handles |-> IF x = h THEN NoDevice ELSE bus.open[x]]
      /\ bus'.holder = [x \in Devices |-> IF bus.holder[x] = h THEN NoHandle ELSE bus.holder[x]]
  <2>1. bus \in Bus /\ device[s].id \in Devices
    BY <1>0, <1>1
  <2>2. /\ bus'.present = bus.present
        /\ bus'.open = [x \in Handles |-> IF x = device[s].handle THEN NoDevice ELSE bus.open[x]]
        /\ bus'.holder = [x \in Devices |-> IF bus.holder[x] = device[s].handle
                                             THEN NoHandle ELSE bus.holder[x]]
    BY <2>1, SessionGivesBack
  <2> QED
    BY <1>0, <2>2
<1>3. s \notin Live' /\ \A t \in Sessions \ {s} : t \in Live' <=> t \in Live
  BY <1>1 DEF Live
<1>4. HoldersOpen'
  BY <1>1, <1>2 DEF HoldersOpen, Bus
<1>5. \A x \in Devices : bus.holder[x] = h => x = d
  BY <1>1 DEF HoldersOpen
<1>6. \A x \in Devices : bus.holder[x] # h => SameUse(x)
  <2>1. \A x \in Devices : bus.holder[x] # h => bus'.holder[x] = bus.holder[x]
    BY <1>2
  <2>2. \A x \in Devices : bus.holder[x] # h => ~BySession(s, x) /\ ~BySession(s, x)'
    BY <1>0, <1>3 DEF BySession
  <2> QED
    BY <1>1, <1>3, <2>1, <2>2 DEF SameUse, Free, ByHandler, BySession
<1>7. bus.holder[d] = h => Free(d)' /\ UserOf[d] = s
  <2>1. bus.holder[d] = h => Free(d)'
    BY <1>1, <1>2 DEF Free
  <2>2. bus.holder[d] = h => BySession(s, d)
    BY <1>0, <1>1 DEF BySession
  <2> QED
    BY <1>1, <2>1, <2>2, UserCases DEF UserKnown
<1>8. \A x \in Devices \ {d} : SameUse(x)
  BY <1>5, <1>6
<1>9. SameUse(d) \/ (Free(d)' /\ UserOf[d] = s)
  BY <1>1, <1>6, <1>7
<1> QED
  BY <1>1, <1>2, <1>4, <1>8, <1>9, EndsOne

\* Plugging a device in changes no use of it, unplugging it ends its use.
LEMMA CableUse ==
    ASSUME Shared, Shared', HoldersOpen, NEW d \in Devices, Plug(d) \/ Unplug(d),
           UNCHANGED <<moduleVars, threadVars>>
    PROVE  HoldersOpen' /\ Implements
<1>1. bus \in Bus /\ UNCHANGED <<claimed, device, life>> /\ Live' = Live
  BY DEF Plug, Unplug, moduleVars, threadVars, Live, Shared, ModuleTypeOK, TypeOK
<1>2. CASE Plug(d)
  <2>1. /\ bus'.open = bus.open /\ bus'.holder = bus.holder
        /\ bus'.present = bus.present \cup {d}
    BY <1>1, <1>2, PlugFields
  <2>2. HoldersOpen'
    BY <2>1 DEF HoldersOpen
  <2>3. ASSUME NEW x \in Devices
        PROVE  UserOf'[x] = UserOf[x]
    <3>1. SameUse(x)
      BY <1>1, <2>1 DEF SameUse, Free, ByHandler, BySession
    <3> QED
      BY <3>1, SameUser
  <2>4. UserOf' = UserOf
    BY <2>3 DEF UserOf
  <2> QED
    BY <2>1, <2>2, <2>4 DEF Implements, Use!Next, Use!Plugs
<1>3. CASE Unplug(d)
  <2>1. /\ bus'.open = bus.open /\ bus'.holder = [bus.holder EXCEPT ![d] = NoHandle]
        /\ bus'.present = bus.present \ {d}
    BY <1>1, <1>3, UnplugFields
  <2>2. /\ bus'.holder[d] = NoHandle
        /\ \A x \in Devices \ {d} : bus'.holder[x] = bus.holder[x]
    BY <1>1, <2>1 DEF Bus
  <2>3. HoldersOpen'
    BY <2>1, <2>2 DEF HoldersOpen
  <2>4. ASSUME NEW x \in Devices
        PROVE  UserOf'[x] = IF x \in {d} THEN "nobody" ELSE UserOf[x]
    <3>1. CASE x = d
      <4>1. Free(d)'
        BY <2>2 DEF Free
      <4> QED
        BY <3>1, <4>1, UserCasesNext DEF UserKnown
    <3>2. CASE x # d
      <4>1. SameUse(x)
        BY <1>1, <2>2, <3>2 DEF SameUse, Free, ByHandler, BySession
      <4> QED
        BY <3>2, <4>1, SameUser
    <3> QED
      BY <3>1, <3>2
  <2>5. UserOf' = Use!Passed({d}, "nobody")
    BY <2>4 DEF UserOf, Use!Passed
  <2> QED
    BY <2>1, <2>3, <2>5 DEF Implements, Use!Next, Use!Unplugs
<1> QED
  BY <1>2, <1>3

LEMMA UseStep ==
    ASSUME Shared, Shared', HoldersOpen, ModuleNext
    PROVE  HoldersOpen' /\ Implements
<1>0. ModuleTypeOK /\ SessionsSound /\ BusSound
  BY DEF Shared, Claims
<1>1. CASE Daemon
  <2>1. CASE Quiet
    BY <2>1, QuietUse
  <2>2. ASSUME NEW d \in Devices, NEW h \in Handles, NEW kdriver \in BOOLEAN, Granted(d, h, kdriver)
        PROVE  HoldersOpen' /\ Implements
    BY <2>2, GrantedUse
  <2>3. ASSUME NEW ds \in SUBSET DOMAIN claimed, NEW attached \in Reattached(ds),
               Given(ds, attached)
        PROVE  HoldersOpen' /\ Implements
    BY <2>3, GivenUse DEF Reattached
  <2>4. ASSUME NEW d \in DOMAIN claimed, ReleasesInterface(d)
        PROVE  HoldersOpen' /\ Implements
    <3>1. /\ d \in Devices /\ claimed[d].handle \in Handles
          /\ bus' = ReleaseInterface(bus, claimed[d].handle, d)
          /\ UNCHANGED <<claimed, device, life>>
      BY <1>0, <2>4 DEF ReleasesInterface, threadVars, ModuleTypeOK, TypeOK
    <3>2. bus.holder[d] = claimed[d].handle => UserOf[d] = "handler"
      BY <3>1, UserCases DEF UserKnown, ByHandler
    <3>3. "handler" \in Sessions \cup {"handler"}
      OBVIOUS
    <3> QED
      BY <3>1, <3>2, <3>3, InterfaceUse
  <2> QED
    BY <1>0, <1>1, <2>1, <2>2, <2>3, <2>4, DaemonKinds
<1>2. ASSUME NEW s \in Sessions, Session(s)
      PROVE  HoldersOpen' /\ Implements
  <2>1. CASE SessionStarts(s) \/ SessionEnds(s) \/ TouchesFreed(s)
    BY <1>0, <2>1, SessionQuiet, QuietUse
  <2>2. CASE SessionReleasesInterface(s)
    <3>1. /\ device[s].handle \in Handles /\ device[s].id \in Devices
          /\ bus' = ReleaseInterface(bus, device[s].handle, device[s].id)
          /\ UNCHANGED <<claimed, device, life>>
      BY <1>0, <2>2
         DEF SessionReleasesInterface, Descriptor, ModuleTypeOK, SessionsSound,
             OnlyBusAndSession, moduleVars
    <3>2. s \in Live
      BY <2>2 DEF SessionReleasesInterface, Reads, Live
    <3>3. bus.holder[device[s].id] = device[s].handle => UserOf[device[s].id] = s
      BY <3>1, <3>2, UserCases DEF UserKnown, BySession
    <3> DEFINE h == device[s].handle
               d == device[s].id
    <3>4. /\ h \in Handles /\ d \in Devices /\ bus' = ReleaseInterface(bus, h, d)
          /\ bus.holder[d] = h => UserOf[d] = s
      BY <3>1, <3>3
    <3> HIDE DEF h, d
    <3> QED
      BY <3>1, <3>4, s \in Sessions \cup {"handler"}, InterfaceUse
  <2> QED
    BY <1>2, <2>1, <2>2, DiscoversUse, SessionClaimsUse, SessionReleasesUse DEF Session
<1>3. CASE Cable
  BY <1>3, CableUse DEF Cable
<1> QED
  BY <1>1, <1>2, <1>3 DEF ModuleNext

LEMMA UseInit == ModuleInitial => HoldersOpen /\ Use!Init
<1> SUFFICES ASSUME ModuleInitial PROVE HoldersOpen /\ Use!Init
  OBVIOUS
<1>1. bus.present \in SUBSET Devices /\ \A d \in Devices : bus.holder[d] = NoHandle
  BY DEF ModuleInitial, Init, BusStart
<1> QED
  BY <1>1 DEF HoldersOpen, Use!Init, UserOf

\* For any devices, clients, handles and sessions, and whatever the two paths and the cable
\* do, a device is used by one of the handler and the sessions at a time, begins to be used
\* only when it is free, is never passed on in one step, and when it has been abandoned is
\* free again only once it is unplugged.
THEOREM UseImplemented == ModuleSpec => ImplementsUse
<1>1. ModuleInitial => UseInv /\ Use!Init
  BY InitShared, UseInit DEF UseInv
<1>2. UseInv /\ [ModuleNext]_allVars => UseInv' /\ [Use!Next]_<<bus.present, UserOf>>
  <2> SUFFICES ASSUME UseInv, [ModuleNext]_allVars
               PROVE  UseInv' /\ [Use!Next]_<<bus.present, UserOf>>
    OBVIOUS
  <2>1. Shared /\ Shared' /\ HoldersOpen
    BY SharedStep DEF UseInv
  <2>2. CASE ModuleNext
    BY <2>1, <2>2, UseStep DEF UseInv, Implements
  <2>3. CASE UNCHANGED allVars
    BY <2>1, <2>3
       DEF UseInv, HoldersOpen, UserOf, Live, allVars, vars, moduleVars, threadVars
  <2> QED
    BY <2>2, <2>3
<1> QED
  BY <1>1, <1>2, PTL DEF ModuleSpec, ImplementsUse, Use!Spec
=============================================================================
