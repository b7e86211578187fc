------------------------ MODULE DeviceHandler_proofs ------------------------
(***************************************************************************)
(* Proofs about DeviceHandler for every set of devices, handles and        *)
(* clients: its type invariant, the agreement of the five places a claim   *)
(* is kept in, and that it implements DeviceLease.                         *)
(***************************************************************************)
EXTENDS DeviceHandler, UsbBus_proofs

USE BusAssumption, HandlerAssumption

-----------------------------------------------------------------------------
(* The inductive invariant *)

\* A live handle is open on a device that is still plugged in, and the kernel
\* wants to drive only what is plugged in.
BusSound ==
    /\ \A h \in bus.live : bus.open[h] \in bus.present
    /\ bus.wanted \subseteq bus.present

\* What the handles are used for depends on the claim table and the bus alone.
Held == TypeOK /\ BusSound /\ HandlesAccounted /\ InterfaceHeldByClaim

IInv ==
    /\ Held
    /\ FileMatchesClaims
    /\ OwnershipMatchesClaims
    /\ DescriptorsMirrorClaims

\* With no claim on the books, nothing is held of the bus.
LEMMA InitIInv == Init => IInv
<1> SUFFICES ASSUME Init PROVE IInv
  OBVIOUS
<1>1. PICK plugged \in SUBSET Devices, driven \in SUBSET Devices :
         bus = BusStart(plugged, driven) /\ driven \subseteq plugged
  BY DEF Init
<1>2. DOMAIN available = {} /\ DOMAIN claimed = {}
  BY DEF Init, EmptyTable
<1>3. bus \in Bus
  BY <1>1 DEF BusStart, Bus
<1>4. TypeOK
  BY <1>2, <1>3 DEF TypeOK, Init, NoReply, Reply, Codes
<1>5. BusSound /\ HandlesAccounted /\ InterfaceHeldByClaim
  BY <1>1, <1>2 DEF BusSound, HandlesAccounted, InterfaceHeldByClaim, BusStart
<1>6. FileMatchesClaims /\ OwnershipMatchesClaims /\ DescriptorsMirrorClaims
  BY <1>2 DEF FileMatchesClaims, OwnershipMatchesClaims, DescriptorsMirrorClaims, Init
<1> QED
  BY <1>4, <1>5, <1>6 DEF IInv, Held

-----------------------------------------------------------------------------
(* One lemma per way the bus and the claim table change *)

\* Giving back the claims on any set of devices closes exactly their handles and
\* frees exactly their interfaces.
LEMMA ReleaseHeld ==
    ASSUME Held, NEW ds \in SUBSET DOMAIN claimed, NEW attached \in SUBSET ds,
           bus' = BusAfterRelease(ds, attached),
           DOMAIN claimed' = DOMAIN claimed \ ds,
           \A d \in DOMAIN claimed' : claimed'[d] = claimed[d]
    PROVE  bus' \in Bus /\ BusSound' /\ HandlesAccounted' /\ InterfaceHeldByClaim'
<1> DEFINE closed == {claimed[d].handle : d \in ds}
<1> USE DEF Held, BusAfterRelease
<1>1. /\ bus \in Bus /\ ds \subseteq Devices /\ attached \subseteq Devices
      /\ \A d \in DOMAIN claimed : d \in Devices /\ claimed[d].handle \in Handles
  BY DEF TypeOK
<1>2. /\ bus'.present = bus.present /\ bus'.wanted = bus.wanted
      /\ bus'.bound = bus.bound \cup (attached \cap Rebindable(bus, claimed, ds))
      /\ bus'.open = [h \in Handles |-> IF h \in closed THEN NoDevice ELSE bus.open[h]]
      /\ bus'.live = bus.live \ closed
      /\ bus'.holder = [d \in Devices |->
                          IF bus.holder[d] \in closed THEN NoHandle ELSE bus.holder[d]]
  BY <1>1 DEF GiveBack, Bus
<1>3. bus' \in Bus
  BY <1>1 DEF GiveBack, Bus
<1>4. \A d \in DOMAIN claimed : claimed[d].handle \in closed <=> d \in ds
  BY DEF HandlesAccounted
<1>5. BusSound'
  BY <1>1, <1>2, NoDevice \notin Devices DEF BusSound, Bus
<1>6. HandlesAccounted'
  BY <1>1, <1>2, <1>4 DEF HandlesAccounted, Bus
<1>7. InterfaceHeldByClaim'
  BY <1>1, <1>2, <1>4 DEF InterfaceHeldByClaim, Bus
<1> QED
  BY <1>3, <1>5, <1>6, <1>7

\* A claim that fails closes what it has opened: nothing is left of it on the bus.
LEMMA FailureHeld ==
    ASSUME bus \in Bus, BusSound, NEW p \in Clients, NEW d \in Devices, ClaimFails(p, d)
    PROVE  bus' = bus
<1>1. PICK h \in FreeHandles(bus) : bus' = CloseDevice(OpenDevice(bus, h, d), h)
  BY DEF ClaimFails, BusAfterRefusal
<1>2. h \in Handles /\ bus.open[h] = NoDevice /\ h \notin bus.live
  BY DEF FreeHandles, BusSound, Bus
<1> QED
  BY <1>1, <1>2, OpenedAndClosed

\* A granted claim opens one free handle and puts the device under it.
LEMMA GrantHeld ==
    ASSUME Held, NEW p \in Clients, NEW d \in Devices, ClaimGranted(p, d)
    PROVE  Held'
<1> USE DEF Held
<1>1. PICK h \in FreeHandles(bus), kdriver \in BOOLEAN :
         LET held == ClaimInterface(OpenDevice(bus, h, d), h, d)
         IN  /\ kdriver => d \in bus.bound
             /\ bus' = IF kdriver THEN DetachDriver(held, d) ELSE held
             /\ claimed' = With(claimed, d, ClaimEntry(h, kdriver, p))
             /\ available' = With(available, d, ClaimEntry(h, kdriver, p))
             /\ file' = AddRecord(file, d, kdriver)
  BY DEF ClaimGranted
<1>2. /\ bus \in Bus /\ h \in Handles /\ bus.open[h] = NoDevice /\ kdriver \in BOOLEAN
      /\ d \in DOMAIN available /\ d \notin DOMAIN claimed
      /\ d \in bus.present /\ bus.holder[d] = NoHandle
  <2>2. h \in Handles /\ bus.open[h] = NoDevice
    BY DEF FreeHandles
  <2>3. /\ d \in DOMAIN available /\ d \notin DOMAIN claimed
        /\ d \in bus.present /\ bus.holder[d] = NoHandle
    BY DEF ClaimGranted, Claimable, CanClaim
  <2> QED
    BY <2>2, <2>3 DEF TypeOK
<1>3. /\ bus' \in Bus
      /\ bus'.present = bus.present /\ bus'.wanted = bus.wanted
      /\ bus'.open = [bus.open EXCEPT ![h] = d]
      /\ bus'.live = bus.live \cup {h}
      /\ bus'.holder = [bus.holder EXCEPT ![d] = h]
  BY <1>1, <1>2 DEF Bus, ClaimInterface, OpenDevice, DetachDriver
<1>4. /\ DOMAIN claimed' = DOMAIN claimed \cup {d}
      /\ claimed'[d] = ClaimEntry(h, kdriver, p)
      /\ \A x \in DOMAIN claimed : claimed'[x] = claimed[x]
  BY <1>1, <1>2 DEF With
<1>5. TypeOK'
  <2>1. ClaimEntry(h, kdriver, p) \in Entry
    BY <1>2 DEF ClaimEntry, Entry
  <2>2. \A x \in DOMAIN claimed' : claimed'[x] \in Entry /\ claimed'[x].handle \in Handles
    BY <1>2, <1>4, <2>1 DEF TypeOK, ClaimEntry
  <2>3. \A x \in DOMAIN available' : x \in Devices /\ available'[x] \in Entry
    BY <1>1, <1>2, <2>1 DEF TypeOK, With
  <2>4. file' \subseteq Record
    BY <1>1, <1>2 DEF TypeOK, AddRecord, Record
  <2>5. /\ reply' \in Reply /\ ownership' \subseteq Devices /\ handler' = handler
        /\ ctx' = ctx /\ discovering' = discovering
    BY DEF TypeOK, ClaimGranted, Answer, Reply, Codes
  <2> QED
    BY <1>3, <1>4, <2>2, <2>3, <2>4, <2>5 DEF TypeOK
<1>6. BusSound'
  BY <1>2, <1>3 DEF BusSound, Bus
<1>7. HandlesAccounted'
  BY <1>2, <1>3, <1>4 DEF HandlesAccounted, Bus, TypeOK, ClaimEntry
<1>8. InterfaceHeldByClaim'
  <2> SUFFICES ASSUME NEW x \in Devices
               PROVE  bus'.holder[x] = IF x \in DOMAIN claimed' /\ claimed'[x].handle \in bus'.live
                                       THEN claimed'[x].handle ELSE NoHandle
    BY DEF InterfaceHeldByClaim
  <2>1. CASE x = d
    BY <1>2, <1>3, <1>4, <2>1 DEF ClaimEntry, Bus
  <2>2. CASE x # d
    <3>1. x \in DOMAIN claimed => claimed[x].handle # h
      BY <1>2, <2>2 DEF HandlesAccounted, TypeOK
    <3> QED
      BY <1>2, <1>3, <1>4, <2>2, <3>1 DEF InterfaceHeldByClaim, Bus
  <2> QED
    BY <2>1, <2>2
<1> QED
  BY <1>5, <1>6, <1>7, <1>8

\* A device that is plugged in is not yet under anybody's handle.
LEMMA PlugHeld ==
    ASSUME Held, NEW d \in Devices, Plug(d)
    PROVE  Held'
<1> USE DEF Held
<1>1. PICK driven \in BOOLEAN : bus' = PlugIn(bus, d, driven)
  BY DEF Plug
<1>2. bus \in Bus
  BY DEF TypeOK
<1>3. /\ bus' \in Bus
      /\ bus'.present = bus.present \cup {d} /\ bus'.wanted \subseteq bus.wanted \cup {d}
      /\ bus'.open = bus.open /\ bus'.live = bus.live /\ bus'.holder = bus.holder
  BY <1>1, <1>2 DEF PlugIn, Bus
<1>4. TypeOK'
  BY <1>3 DEF TypeOK, Plug, NoReply, Reply, Codes
<1>5. BusSound' /\ HandlesAccounted' /\ InterfaceHeldByClaim'
  BY <1>3 DEF BusSound, HandlesAccounted, InterfaceHeldByClaim, Plug
<1> QED
  BY <1>4, <1>5

\* Unplugging a device ends the use of the handles open on it and of no other.
LEMMA UnplugHeld ==
    ASSUME Held, NEW d \in Devices, Unplug(d)
    PROVE  Held'
<1> USE DEF Held
<1>1. bus \in Bus /\ bus' = PullOut(bus, d)
  BY DEF TypeOK, Unplug
<1>2. /\ bus' \in Bus
      /\ bus'.present = bus.present \ {d} /\ bus'.wanted = bus.wanted \ {d}
      /\ bus'.open = bus.open /\ bus'.live = {h \in bus.live : bus.open[h] # d}
      /\ bus'.holder = [bus.holder EXCEPT ![d] = NoHandle]
  BY <1>1 DEF PullOut, Bus
<1>3. TypeOK'
  BY <1>2 DEF TypeOK, Unplug, NoReply, Reply, Codes
<1>4. BusSound' /\ HandlesAccounted'
  BY <1>1, <1>2 DEF BusSound, HandlesAccounted, Unplug, Bus
<1>5. InterfaceHeldByClaim'
  BY <1>1, <1>2 DEF InterfaceHeldByClaim, HandlesAccounted, Unplug, Bus
<1> QED
  BY <1>3, <1>4, <1>5

-----------------------------------------------------------------------------
(* The invariant is inductive *)

\* The bulk release leaves nothing behind, whichever handler is in place after it.
LEMMA ReleaseAllKeeps ==
    ASSUME IInv, ReleaseAllDevices,
           handler' \in {"absent", "bare", "linked"}, ctx' \in BOOLEAN, discovering' \in BOOLEAN
    PROVE  IInv'
<1>1. PICK attached \in SUBSET DOMAIN claimed :
         bus' = BusAfterRelease(DOMAIN claimed, attached)
  BY DEF ReleaseAllDevices, Reattached
<1>2. /\ DOMAIN claimed' = {} /\ DOMAIN available' = {}
      /\ file' = {} /\ ownership' = {} /\ reply' = NoReply
  BY DEF ReleaseAllDevices, EmptyTable, Unrouted, IInv, OwnershipMatchesClaims
<1>3. bus' \in Bus /\ BusSound' /\ HandlesAccounted' /\ InterfaceHeldByClaim'
  BY <1>1, <1>2, ReleaseHeld DEF IInv
<1>4. TypeOK'
  BY <1>2, <1>3 DEF TypeOK, NoReply, Reply, Codes
<1>5. FileMatchesClaims' /\ OwnershipMatchesClaims' /\ DescriptorsMirrorClaims'
  BY <1>2 DEF FileMatchesClaims, OwnershipMatchesClaims, DescriptorsMirrorClaims
<1> QED
  BY <1>3, <1>4, <1>5 DEF IInv, Held

\* A scan adds descriptors of unclaimed devices and touches no other.
LEMMA DiscoveryKeeps ==
    ASSUME IInv, DiscoverDevices, UNCHANGED <<bus, handler, ctx, claimed, file, ownership>>,
           discovering' \in BOOLEAN, reply' \in Reply
    PROVE  IInv'
<1>1. PICK seen \in SUBSET Devices : available' = Discovered(available, seen)
  BY DEF DiscoverDevices, Scans, IInv, Held, TypeOK
<1>2. Unclaimed \in Entry
  BY DEF Unclaimed, Entry
<1>3. TypeOK'
  BY <1>1, <1>2 DEF IInv, Held, TypeOK, Discovered
<1>4. DescriptorsMirrorClaims'
  BY <1>1 DEF IInv, DescriptorsMirrorClaims, Discovered
<1> QED
  BY <1>3, <1>4 DEF IInv, Held, BusSound, HandlesAccounted, InterfaceHeldByClaim,
                    FileMatchesClaims, OwnershipMatchesClaims

\* A call that leaves the bus and the tables alone keeps the invariant, as long as the
\* handler does not stop answering to the ownership registry.
LEMMA UntouchedKeeps ==
    ASSUME IInv, UNCHANGED <<bus, available, claimed, file, ownership>>,
           handler' \in {"absent", "bare", "linked"}, handler' = "linked" <=> handler = "linked",
           ctx' \in BOOLEAN, discovering' \in BOOLEAN, reply' \in Reply
    PROVE  IInv'
<1>1. TypeOK'
  BY DEF IInv, Held, TypeOK
<1>2. BusSound' /\ HandlesAccounted' /\ InterfaceHeldByClaim'
  BY DEF IInv, Held, BusSound, HandlesAccounted, InterfaceHeldByClaim
<1>3. FileMatchesClaims' /\ OwnershipMatchesClaims' /\ DescriptorsMirrorClaims'
  BY DEF IInv, FileMatchesClaims, OwnershipMatchesClaims, DescriptorsMirrorClaims
<1> QED
  BY <1>1, <1>2, <1>3 DEF IInv, Held

\* A granted claim enters all five places at once.
LEMMA GrantKeeps ==
    ASSUME IInv, NEW p \in Clients, NEW d \in Devices, handler # "absent", ClaimGranted(p, d)
    PROVE  IInv'
<1>1. Held'
  BY GrantHeld DEF IInv
<1>2. PICK h \in FreeHandles(bus), kdriver \in BOOLEAN :
         /\ claimed' = With(claimed, d, ClaimEntry(h, kdriver, p))
         /\ available' = With(available, d, ClaimEntry(h, kdriver, p))
         /\ file' = AddRecord(file, d, kdriver)
  BY DEF ClaimGranted
<1>3. d \in DOMAIN available /\ d \notin DOMAIN claimed
  BY DEF ClaimGranted, Claimable
<1>4. FileMatchesClaims'
  <2>1. DOMAIN claimed' = DOMAIN claimed \cup {d} /\ claimed'[d].kdriver = kdriver
    BY <1>2 DEF With, ClaimEntry
  <2>2. \A x \in DOMAIN claimed : claimed'[x] = claimed[x]
    BY <1>2, <1>3 DEF With
  <2>3. file' = file \cup {[device |-> d, kdriver |-> kdriver]}
    BY <1>2, <1>3 DEF IInv, FileMatchesClaims, AddRecord
  <2> QED
    BY <1>3, <2>1, <2>2, <2>3 DEF IInv, FileMatchesClaims
<1>5. OwnershipMatchesClaims'
  BY <1>2 DEF IInv, OwnershipMatchesClaims, With, ClaimGranted
<1>6. DescriptorsMirrorClaims'
  BY <1>2, <1>3 DEF IInv, DescriptorsMirrorClaims, With
<1> QED
  BY <1>1, <1>4, <1>5, <1>6 DEF IInv

\* A granted release leaves all five places at once.
LEMMA ReleaseKeeps ==
    ASSUME IInv, NEW p \in Clients, NEW d \in Devices, handler # "absent", ReleaseGranted(p, d)
    PROVE  IInv'
<1>1. PICK attached \in SUBSET {d} : bus' = BusAfterRelease({d}, attached)
  BY DEF ReleaseGranted, Reattached
<1>2. /\ d \in DOMAIN claimed /\ d \in DOMAIN available
      /\ DOMAIN claimed' = DOMAIN claimed \ {d}
      /\ \A x \in DOMAIN claimed' : claimed'[x] = claimed[x]
      /\ available' = With(available, d, Unclaimed)
      /\ file' = RemoveRecord(file, d) /\ ownership' = Unrouted({d})
      /\ reply' = Answer(p, "ITEM_RELEASED", d, "SUCCESS")
      /\ UNCHANGED <<handler, ctx, discovering>>
  BY DEF ReleaseGranted, Without, IInv, DescriptorsMirrorClaims
<1>3. bus' \in Bus /\ BusSound' /\ HandlesAccounted' /\ InterfaceHeldByClaim'
  BY <1>1, <1>2, ReleaseHeld DEF IInv
<1>4. TypeOK'
  <2>1. \A x \in DOMAIN available' : x \in Devices /\ available'[x] \in Entry
    BY <1>2 DEF IInv, Held, TypeOK, With, Unclaimed, Entry
  <2>2. file' \subseteq Record /\ ownership' \subseteq Devices /\ reply' \in Reply
    BY <1>2 DEF IInv, Held, TypeOK, RemoveRecord, Unrouted, Answer, Reply, Codes
  <2> QED
    BY <1>2, <1>3, <2>1, <2>2 DEF IInv, Held, TypeOK
<1>5. FileMatchesClaims'
  BY <1>2 DEF IInv, FileMatchesClaims, RemoveRecord
<1>6. OwnershipMatchesClaims'
  BY <1>2 DEF IInv, OwnershipMatchesClaims, Unrouted
<1>7. DescriptorsMirrorClaims'
  BY <1>2 DEF IInv, DescriptorsMirrorClaims, With
<1> QED
  BY <1>3, <1>4, <1>5, <1>6, <1>7 DEF IInv, Held

LEMMA NextIInv == IInv /\ [Next]_vars => IInv'
<1> SUFFICES ASSUME IInv, [Next]_vars PROVE IInv'
  OBVIOUS
<1> USE DEF NoReply, Answer, Reply, Codes
<1>1. CASE Construct
  BY <1>1, UntouchedKeeps DEF Construct
<1>2. CASE SetOwnershipRegistry
  BY <1>2, ReleaseAllKeeps DEF SetOwnershipRegistry
<1>3. CASE Destroy
  BY <1>3, ReleaseAllKeeps DEF Destroy
<1>4. CASE StartDiscovery
  <2>1. CASE discovering
    BY <1>4, <2>1, UntouchedKeeps DEF StartDiscovery, IInv, Held, TypeOK
  <2>2. CASE ~discovering
    BY <1>4, <2>2, DiscoveryKeeps DEF StartDiscovery
  <2> QED
    BY <2>1, <2>2
<1>5. CASE StopDiscovery
  BY <1>5, UntouchedKeeps DEF StopDiscovery, IInv, Held, TypeOK
<1>6. CASE StopAll
  BY <1>6, ReleaseAllKeeps DEF StopAll, IInv, Held, TypeOK
<1>7. ASSUME NEW p \in Clients, SendDeviceList(p) PROVE IInv'
  BY <1>7, DiscoveryKeeps DEF SendDeviceList, IInv, Held, TypeOK
<1>8. ASSUME NEW p \in Clients, NEW d \in Devices \cup {NoDevice}, ClaimDevice(p, d) PROVE IInv'
  <2>1. CASE ClaimRefused(p, d)
    BY <2>1, UntouchedKeeps DEF ClaimRefused, Refuse, IInv, Held, TypeOK
  <2>3. CASE ClaimFails(p, d)
    <3>1. d \in Devices
      BY <2>3 DEF ClaimFails, IInv, Held, TypeOK
    <3>2. bus' = bus
      BY <2>3, <3>1, FailureHeld DEF IInv, Held, TypeOK
    <3> QED
      BY <2>3, <3>1, <3>2, UntouchedKeeps DEF ClaimFails, Refuse, IInv, Held, TypeOK
  <2>2. CASE ClaimGranted(p, d)
    <3>1. d \in Devices
      BY <2>2 DEF ClaimGranted, Claimable, IInv, Held, TypeOK
    <3> QED
      BY <1>8, <2>2, <3>1, GrantKeeps DEF ClaimDevice
  <2> QED
    BY <1>8, <2>1, <2>2, <2>3 DEF ClaimDevice
<1>9. ASSUME NEW p \in Clients, NEW d \in Devices \cup {NoDevice}, ReleaseDevice(p, d) PROVE IInv'
  <2>1. CASE ReleaseRefused(p, d)
    BY <2>1, UntouchedKeeps DEF ReleaseRefused, Refuse, IInv, Held, TypeOK
  <2>2. CASE ReleaseGranted(p, d)
    <3>1. d \in Devices
      BY <2>2 DEF ReleaseGranted, IInv, Held, TypeOK
    <3> QED
      BY <1>9, <2>2, <3>1, ReleaseKeeps DEF ReleaseDevice
  <2> QED
    BY <1>9, <2>1, <2>2 DEF ReleaseDevice
<1>10. ASSUME NEW d \in Devices, Plug(d) PROVE IInv'
  BY <1>10, PlugHeld DEF Plug, IInv, FileMatchesClaims, OwnershipMatchesClaims, DescriptorsMirrorClaims
<1>11. ASSUME NEW d \in Devices, Unplug(d) PROVE IInv'
  BY <1>11, UnplugHeld DEF Unplug, IInv, FileMatchesClaims, OwnershipMatchesClaims, DescriptorsMirrorClaims
<1>12. CASE UNCHANGED vars
  BY <1>12, UntouchedKeeps DEF vars, IInv, Held, TypeOK
<1> QED
  BY <1>1, <1>2, <1>3, <1>4, <1>5, <1>6, <1>7, <1>8, <1>9, <1>10, <1>11, <1>12 DEF Next

-----------------------------------------------------------------------------
(* The theorems *)

LEMMA Invariance == Spec => []IInv
  BY InitIInv, NextIInv, PTL DEF Spec

\* The tables, the file and the bus always have their types, whatever the clients
\* ask for and however devices come and go.
THEOREM TypeCorrect == Spec => []TypeOK
  BY Invariance, PTL DEF IInv, Held

\* No handle leaks: the handles that are open are those of the claims.
THEOREM HandlesCorrect == Spec => []HandlesAccounted
  BY Invariance, PTL DEF IInv, Held

\* A claimed device that is still plugged in is held by the handle of its claim, and
\* no other interface is held.
THEOREM InterfacesCorrect == Spec => []InterfaceHeldByClaim
  BY Invariance, PTL DEF IInv, Held

\* The crash-recovery file records the claims, each with what became of its driver.
THEOREM FileAgrees == Spec => []FileMatchesClaims
  BY Invariance, PTL DEF IInv

\* The daemon's ownership registry names the owners the claim table names.
THEOREM OwnershipAgrees == Spec => []OwnershipMatchesClaims
  BY Invariance, PTL DEF IInv

\* The descriptors of both tables say what the claim table says.
THEOREM DescriptorsAgree == Spec => []DescriptorsMirrorClaims
  BY Invariance, PTL DEF IInv

-----------------------------------------------------------------------------
(* Kernel drivers, when the kernel always takes its driver back *)

LEMMA InitDriver == Init => DriverNeverStranded
  BY DEF Init, BusStart, DriverNeverStranded

\* Of the devices given back, those whose driver had been detached get it again.
LEMMA ReleaseReattaches ==
    ASSUME IInv, DriverNeverStranded, NEW ds \in SUBSET DOMAIN claimed,
           bus' = BusAfterRelease(ds, ds),
           DOMAIN claimed' = DOMAIN claimed \ ds,
           \A d \in DOMAIN claimed' : claimed'[d] = claimed[d]
    PROVE  DriverNeverStranded'
<1> SUFFICES ASSUME NEW d \in bus'.wanted \ bus'.bound
             PROVE  d \in DOMAIN claimed' /\ claimed'[d].kdriver /\ claimed'[d].handle \in bus'.live
  BY DEF DriverNeverStranded
<1>1. bus \in Bus
  BY DEF IInv, Held, TypeOK
<1>2. /\ bus'.wanted = bus.wanted
      /\ bus'.bound = bus.bound \cup (ds \cap Rebindable(bus, claimed, ds))
      /\ bus'.live = bus.live \ {claimed[x].handle : x \in ds}
  BY <1>1 DEF BusAfterRelease, GiveBack, Bus
<1>3. d \in DOMAIN claimed /\ claimed[d].kdriver /\ claimed[d].handle \in bus.live
  BY <1>2 DEF DriverNeverStranded
<1>4. bus.holder[d] = claimed[d].handle
  BY <1>3 DEF IInv, Held, TypeOK, InterfaceHeldByClaim
<1>5. d \notin ds
  BY <1>2, <1>3, <1>4 DEF Rebindable
<1>6. \A x \in ds : claimed[x].handle # claimed[d].handle
  BY <1>3, <1>5 DEF IInv, Held, HandlesAccounted
<1> QED
  BY <1>2, <1>3, <1>5, <1>6

LEMMA NextDriver ==
    AttachMayFail = FALSE /\ IInv /\ DriverNeverStranded /\ [Next]_vars => DriverNeverStranded'
<1> SUFFICES ASSUME AttachMayFail = FALSE, IInv, DriverNeverStranded, [Next]_vars
             PROVE  DriverNeverStranded'
  OBVIOUS
<1>1. ASSUME ReleaseAllDevices PROVE DriverNeverStranded'
  BY <1>1, ReleaseReattaches DEF ReleaseAllDevices, Reattached, EmptyTable
<1>2. ASSUME UNCHANGED <<bus, claimed>> PROVE DriverNeverStranded'
  BY <1>2 DEF DriverNeverStranded
<1>3. ASSUME NEW p, NEW d, ReleaseGranted(p, d) PROVE DriverNeverStranded'
  <2>1. /\ {d} \in SUBSET DOMAIN claimed /\ bus' = BusAfterRelease({d}, {d})
        /\ DOMAIN claimed' = DOMAIN claimed \ {d}
        /\ \A x \in DOMAIN claimed' : claimed'[x] = claimed[x]
    BY <1>3 DEF ReleaseGranted, Reattached, Without
  <2> QED
    BY <2>1, ReleaseReattaches
<1>4. ASSUME NEW p, NEW d, ClaimGranted(p, d) PROVE DriverNeverStranded'
  <2>1. PICK h \in FreeHandles(bus), kdriver \in BOOLEAN :
           LET held == ClaimInterface(OpenDevice(bus, h, d), h, d)
           IN  /\ bus' = IF kdriver THEN DetachDriver(held, d) ELSE held
               /\ claimed' = With(claimed, d, ClaimEntry(h, kdriver, p))
    BY <1>4 DEF ClaimGranted
  <2>2. bus \in Bus /\ d \notin DOMAIN claimed
    BY <1>4 DEF ClaimGranted, Claimable, IInv, Held, TypeOK
  <2>3. /\ bus'.wanted = bus.wanted /\ bus'.live = bus.live \cup {h}
        /\ bus'.bound = IF kdriver THEN bus.bound \ {d} ELSE bus.bound
    BY <2>1, <2>2 DEF ClaimInterface, OpenDevice, DetachDriver, Bus
  <2>4. /\ DOMAIN claimed' = DOMAIN claimed \cup {d}
        /\ claimed'[d].handle = h /\ claimed'[d].kdriver = kdriver
        /\ \A x \in DOMAIN claimed : claimed'[x] = claimed[x]
    BY <2>1, <2>2 DEF With, ClaimEntry
  <2> QED
    BY <2>2, <2>3, <2>4 DEF DriverNeverStranded
<1>5. ASSUME NEW d \in Devices, Plug(d) PROVE DriverNeverStranded'
  BY <1>5 DEF Plug, PlugIn, DriverNeverStranded, IInv, Held, TypeOK, Bus, BusSound
<1>6. ASSUME NEW d \in Devices, Unplug(d) PROVE DriverNeverStranded'
  <2>1. bus \in Bus /\ bus' = PullOut(bus, d) /\ claimed' = claimed
    BY <1>6 DEF Unplug, IInv, Held, TypeOK
  <2>2. /\ bus'.wanted = bus.wanted \ {d} /\ bus'.bound = bus.bound \ {d}
        /\ bus'.live = {h \in bus.live : bus.open[h] # d}
    BY <2>1 DEF PullOut, Bus
  <2>3. \A x \in DOMAIN claimed : bus.open[claimed[x].handle] = x
    BY DEF IInv, Held, HandlesAccounted
  <2> QED
    BY <2>1, <2>2, <2>3 DEF DriverNeverStranded
<1> USE DEF Next
<1>7. CASE Construct \/ StopDiscovery \/ StartDiscovery \/ UNCHANGED vars
  BY <1>2, <1>7 DEF Construct, StopDiscovery, StartDiscovery, vars
<1>8. CASE SetOwnershipRegistry \/ Destroy \/ StopAll
  BY <1>1, <1>8 DEF SetOwnershipRegistry, Destroy, StopAll
<1>9. CASE \E p \in Clients : SendDeviceList(p)
  BY <1>2, <1>9 DEF SendDeviceList
<1>10. CASE \E p \in Clients, d \in Devices \cup {NoDevice} : ClaimDevice(p, d)
  <2>1. PICK p \in Clients, d \in Devices \cup {NoDevice} : ClaimDevice(p, d)
    BY <1>10
  <2>2. CASE ClaimRefused(p, d)
    BY <1>2, <2>2 DEF ClaimRefused, Refuse
  <2>3. CASE ClaimFails(p, d)
    <3>1. d \in Devices
      BY <2>3 DEF ClaimFails, IInv, Held, TypeOK
    <3> QED
      BY <1>2, <2>3, <3>1, FailureHeld DEF ClaimFails, Refuse, IInv, Held, TypeOK
  <2>4. CASE ClaimGranted(p, d)
    BY <1>4, <2>4
  <2> QED
    BY <2>1, <2>2, <2>3, <2>4 DEF ClaimDevice
<1>11. CASE \E p \in Clients, d \in Devices \cup {NoDevice} : ReleaseDevice(p, d)
  BY <1>2, <1>3, <1>11 DEF ReleaseDevice, ReleaseRefused, Refuse
<1> QED
  BY <1>5, <1>6, <1>7, <1>8, <1>9, <1>10, <1>11

\* If the kernel never refuses a driver that is given back, a plugged device is
\* without its driver only while a claim that took it lasts.
THEOREM DriversRestored == AttachMayFail = FALSE => (Spec => []DriverNeverStranded)
<1> SUFFICES ASSUME AttachMayFail = FALSE PROVE Spec => []DriverNeverStranded
  OBVIOUS
<1>1. IInv /\ DriverNeverStranded /\ [Next]_vars => DriverNeverStranded'
  BY NextDriver
<1> QED
  BY <1>1, InitDriver, Invariance, PTL DEF Spec

-----------------------------------------------------------------------------
(* Refinement *)

LEMMA InitLease == Init => Lease!Init
  BY DEF Init, EmptyTable, Lease!Init, leaseOf

\* Every step of the handler grants one lease, ends one, ends all or none.
LEMMA StepLease == IInv /\ [Next]_vars => [Lease!Next]_leaseOf
<1> SUFFICES ASSUME IInv, [Next]_vars PROVE [Lease!Next]_leaseOf
  OBVIOUS
<1>1. ASSUME ReleaseAllDevices PROVE Lease!EndAll
  BY <1>1 DEF ReleaseAllDevices, EmptyTable, Lease!EndAll, leaseOf
<1>2. ASSUME UNCHANGED claimed PROVE UNCHANGED leaseOf
  BY <1>2 DEF leaseOf
<1>3. ASSUME NEW p \in Clients, NEW d \in Devices \cup {NoDevice}, ClaimGranted(p, d)
      PROVE  d \in Devices /\ Lease!Grant(p, d)
  <2>1. PICK h, kdriver : claimed' = With(claimed, d, ClaimEntry(h, kdriver, p))
    BY <1>3 DEF ClaimGranted
  <2>2. d \in Devices /\ d \notin DOMAIN claimed
    BY <1>3 DEF ClaimGranted, Claimable, IInv, Held, TypeOK
  <2> QED
    BY <2>1, <2>2 DEF Lease!Grant, leaseOf, With, ClaimEntry
<1>4. ASSUME NEW p \in Clients, NEW d \in Devices \cup {NoDevice}, ReleaseGranted(p, d)
      PROVE  d \in Devices /\ Lease!End(d)
  <2>1. d \in Devices
    BY <1>4 DEF ReleaseGranted, IInv, Held, TypeOK
  <2> QED
    BY <1>4, <2>1 DEF ReleaseGranted, Lease!End, leaseOf, Without
<1> USE DEF Next, Lease!Next
<1>5. CASE Construct \/ StopDiscovery \/ StartDiscovery \/ UNCHANGED vars
  BY <1>2, <1>5 DEF Construct, StopDiscovery, StartDiscovery, vars
<1>6. CASE SetOwnershipRegistry \/ Destroy \/ StopAll
  BY <1>1, <1>6 DEF SetOwnershipRegistry, Destroy, StopAll
<1>7. CASE \E p \in Clients : SendDeviceList(p)
  BY <1>2, <1>7 DEF SendDeviceList
<1>8. CASE \E p \in Clients, d \in Devices \cup {NoDevice} : ClaimDevice(p, d)
  BY <1>2, <1>3, <1>8 DEF ClaimDevice, ClaimRefused, ClaimFails, Refuse
<1>9. CASE \E p \in Clients, d \in Devices \cup {NoDevice} : ReleaseDevice(p, d)
  BY <1>2, <1>4, <1>9 DEF ReleaseDevice, ReleaseRefused, Refuse
<1>10. CASE (\E d \in Devices : Plug(d)) \/ (\E d \in Devices : Unplug(d))
  BY <1>2, <1>10 DEF Plug, Unplug
<1> QED
  BY <1>5, <1>6, <1>7, <1>8, <1>9, <1>10

\* The handler implements the abstract lease: exclusive, never passed on.
THEOREM Refinement == Spec => ImplementsLease
  BY InitLease, StepLease, Invariance, PTL DEF Spec, ImplementsLease, Lease!Spec
=============================================================================
