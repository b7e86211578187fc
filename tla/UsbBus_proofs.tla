--------------------------- MODULE UsbBus_proofs ---------------------------
(***************************************************************************)
(* What the proofs about the handler and the module have in common: facts  *)
(* about the operators of UsbBus.                                          *)
(***************************************************************************)
EXTENDS UsbBus, TLAPS

\* A handle that is opened on a device and closed again leaves the bus as it was.
LEMMA OpenedAndClosed ==
    ASSUME NEW u \in Bus, NEW h \in FreeHandles(u), h \notin u.live, NEW d
    PROVE  CloseDevice(OpenDevice(u, h, d), h) = u
<1> DEFINE open == u.open
           live == u.live
<1>1. h \in Handles /\ open[h] = NoDevice /\ h \notin live
  BY DEF FreeHandles
<1>2. open \in [Handles -> Devices \cup {NoDevice}]
  BY DEF Bus
<1>3. CloseDevice(OpenDevice(u, h, d), h) =
         [u EXCEPT !.open = [[open EXCEPT ![h] = d] EXCEPT ![h] = NoDevice],
                   !.live = (live \cup {h}) \ {h}]
  BY DEF OpenDevice, CloseDevice, Bus
<1> HIDE DEF open, live
<1>4. [[open EXCEPT ![h] = d] EXCEPT ![h] = NoDevice] = open
  BY <1>1, <1>2
<1>5. (live \cup {h}) \ {h} = live
  BY <1>1
<1>6. CloseDevice(OpenDevice(u, h, d), h) = [u EXCEPT !.open = open, !.live = live]
  BY <1>3, <1>4, <1>5
<1> QED
  BY <1>6 DEF open, live, Bus
=============================================================================
