----------------------- MODULE StreamingThread_proofs -----------------------
(***************************************************************************)
(* Proofs about StreamingThread for every capacity of the queue: the types *)
(* are right, the process thread is told to end, once, and every report is *)
(* accounted for, unless two threads push at once; the sentinel finds room *)
(* in the queue; when the last wait outlasts a cancellation, stop() frees  *)
(* the transfer in flight only after a late submission; and no thread goes *)
(* round in a circle once running_ is clear.                               *)
(***************************************************************************)
EXTENDS StreamingThread, FiniteSetTheorems, SequenceTheorems, TLAPS

USE StreamingAssumption

-----------------------------------------------------------------------------
(* The inductive invariants *)

\* Nothing has happened before start().
Fresh ==
    opc = "new" =>
        /\ ~running /\ ~draining
        /\ transfer = "null"
        /\ queue = << >>
        /\ cpc = "none" /\ ppc = "none"
        /\ sentinels = 0
        /\ joined = {}

\* While running_ is set nobody has announced the end; of those that clear it at most
\* one is on its way to queue the sentinel.
OwnerAnnounces == opc \in {"push", "pushing"}
CaptureAnnounces == cpc \in {"pushSentinel", "pushingSentinel"}

EndAnnounced ==
    /\ running => opc = "started" /\ sentinels = 0 /\ ~CaptureAnnounces
                  /\ transfer # "null"
    /\ OwnerAnnounces \/ CaptureAnnounces => sentinels = 0
    /\ ~(OwnerAnnounces /\ CaptureAnnounces)
    /\ OneSentinel

\* Once the event loop has been left, the callback finds running_ clear and does nothing.
LoopLeft ==
    /\ draining => cpc \in {"wait", "callback", "exited"}
    /\ ~draining => cpc # "exited"

\* Only threads that have ended are joined.
JoinedEnded ==
    /\ "capture" \in joined => cpc = "exited"
    /\ "process" \in joined => ppc = "exited"
    /\ opc \in {"joinProcess", "free"} => cpc = "exited"
    /\ opc = "destroyed" => cpc \in {"none", "exited"} /\ ppc \in {"none", "exited"}

\* A push under way whose slot nobody has published has room; it shares the slot with
\* another push only after a collision, which stop() cannot be far beyond.
CapturePushes == cpc \in {"pushingReport", "pushingSentinel"}

SlotTaken ==
    opc # "terminated" =>
        /\ "owner" \in overtaken => opc = "pushing"
        /\ "capture" \in overtaken => CapturePushes /\ opc \in {"cancel", "joinCapture"}
        /\ opc = "pushing" /\ "owner" \notin overtaken => HasRoom
        /\ CapturePushes /\ "capture" \notin overtaken => HasRoom
        /\ overtaken # {} \/ (opc = "pushing" /\ CapturePushes) =>
              "collision" \in streamGaps

IInv == TypeOK /\ Fresh /\ EndAnnounced /\ LoopLeft /\ JoinedEnded /\ SlotTaken

\* Without a late submission, a capture thread that has ended leaves a transfer that has
\* ended, because the cancellation was waited for.
TransferAwaited ==
    /\ opc \in Stopping => transfer \notin {"null", "freedInFlight"}
    /\ transfer = "freedInFlight" => opc \in {"stopped", "destroyed", "terminated"}
    /\ "lateSubmit" \notin streamGaps =>
          /\ opc \in Stopping /\ cpc = "exited" => transfer \in {"idle", "orphaned"}
          /\ ~cancelling => ~(opc \in Stopping \ {"push", "pushing", "cancel"} /\ transfer = "inflight")
          /\ transfer # "freedInFlight"

\* A step of the stream, whoever takes it.
StreamStep ==
    /\ opc # "terminated"
    /\ \/ Start \/ StartFails \/ Stop \/ Owner \/ Capture \/ Process
       \/ TransferEnds \/ TransferCancelled \/ RaceEndsProcess

-----------------------------------------------------------------------------
(* The parts of the type *)

\* TypeOK, a group of variables at a time.
ControlTyped ==
    /\ running \in BOOLEAN
    /\ transfer \in Transfer
    /\ cancelling \in BOOLEAN
    /\ opc \in OwnerPC /\ cpc \in CapturePC /\ ppc \in ProcessPC
    /\ draining \in BOOLEAN /\ (draining => ~running)
    /\ joined \subseteq Threads
    /\ streamGaps \subseteq Gaps
    /\ overtaken \subseteq Pushing

QueueTyped == queue \in Seq(Events) /\ Len(queue) <= Capacity

CountersTyped ==
    /\ eventsRead \in Nat /\ eventsSent \in Nat /\ eventsDropped \in Nat
    /\ sentinels \in Nat

LEMMA TypeParts == TypeOK <=> ControlTyped /\ QueueTyped /\ CountersTyped
<1>1. {eventsRead, eventsSent, eventsDropped, sentinels} \subseteq Nat <=> CountersTyped
  BY DEF CountersTyped
<1> QED
  BY <1>1 DEF TypeOK, ControlTyped, QueueTyped

\* What an event that is queued, and one that is taken, leaves of the queue's type.
LEMMA AppendKeeps ==
    ASSUME NEW e \in Events, QueueTyped, HasRoom
    PROVE  Append(queue, e) \in Seq(Events) /\ Len(Append(queue, e)) <= Capacity
  BY AppendProperties, LenProperties DEF QueueTyped, HasRoom

LEMMA TailKeeps ==
    ASSUME QueueTyped, queue # << >>
    PROVE  Tail(queue) \in Seq(Events) /\ Len(Tail(queue)) <= Capacity
  BY HeadTailProperties, LenProperties DEF QueueTyped

\* Who is pushing, one at a time.
LEMMA PushingIs ==
    /\ Pushing \subseteq {"owner", "capture"}
    /\ "owner" \in Pushing <=> opc = "pushing"
    /\ "capture" \in Pushing <=> CapturePushes
  BY DEF Pushing, Producers, CapturePushes

\* A push that is published: of the first, the event is queued; of the second, it is
\* lost, or takes the place of the first.
LEMMA Published ==
    ASSUME QueueTyped, NEW p \in Producers, p \notin overtaken => HasRoom, Publish(p)
    PROVE  /\ QueueTyped'
           /\ EventOf(p) \in Events
           /\ p \notin overtaken => queue' = Append(queue, EventOf(p))
                                   /\ Len(queue') = Len(queue) + 1
           /\ p \in overtaken => Len(queue') = Len(queue)
           /\ Len(queue') <= Len(queue) + 1
           /\ Len(queue) \in Nat /\ Len(queue') \in Nat
<1>1. EventOf(p) \in Events /\ queue \in Seq(Events) /\ Len(queue) \in Nat
  BY LenProperties DEF EventOf, Events, Sentinel, QueueTyped
<1>2. CASE p \notin overtaken
  <2>1. queue' = Append(queue, EventOf(p))
    BY <1>2 DEF Publish
  <2>2. Len(queue') = Len(queue) + 1
    BY <1>1, <2>1, AppendProperties
  <2>3. QueueTyped'
    BY <1>1, <1>2, <2>1, AppendKeeps DEF QueueTyped
  <2> QED
    BY <1>1, <1>2, <2>1, <2>2, <2>3
<1>3. CASE p \in overtaken
  <2>1. CASE queue' = queue
    BY <1>1, <1>3, <2>1 DEF QueueTyped
  <2>2. CASE queue # << >> /\ queue' = [queue EXCEPT ![Len(queue)] = EventOf(p)]
    <3>1. Len(queue) \in 1 .. Len(queue)
      BY <1>1, <2>2, EmptySeq
    <3>2. queue' \in Seq(Events) /\ Len(queue') = Len(queue)
      BY <1>1, <2>2, <3>1, ExceptSeq
    <3> QED
      BY <1>1, <1>3, <3>2 DEF QueueTyped
  <2> QED
    BY <1>3, <2>1, <2>2 DEF Publish, Overwritten
<1> QED
  BY <1>2, <1>3

-----------------------------------------------------------------------------
(* Every step keeps the invariant *)

LEMMA InitIInv == Init => IInv
<1> SUFFICES ASSUME Init PROVE IInv
  OBVIOUS
<1>1. ControlTyped
  BY DEF Init, ControlTyped, Transfer, OwnerPC, CapturePC, ProcessPC
<1>2. QueueTyped
  BY EmptySeq DEF Init, QueueTyped
<1>3. CountersTyped
  BY DEF Init, CountersTyped
<1> QED
  BY <1>1, <1>2, <1>3, TypeParts
     DEF Init, IInv, Fresh, EndAnnounced, OwnerAnnounces, CaptureAnnounces, LoopLeft,
         JoinedEnded, SlotTaken, CapturePushes, OneSentinel

\* running_ is kept or cleared.
LEMMA ClearedKeeps ==
    ASSUME running \in BOOLEAN, draining \in BOOLEAN, draining => ~running,
           running' = running \/ running' = FALSE
    PROVE  running' \in BOOLEAN /\ (draining => ~running')
<1>1. CASE running' = running
  BY <1>1
<1>2. CASE running' = FALSE
  BY <1>2
<1> QED
  BY <1>1, <1>2

LEMMA ControlStep == IInv /\ StreamStep => ControlTyped'
<1> SUFFICES ASSUME ControlTyped, Fresh, LoopLeft, SlotTaken, StreamStep PROVE ControlTyped'
  BY TypeParts DEF IInv
<1> USE DEF ControlTyped, Transfer, Completions, Outcomes, OwnerPC, CapturePC, ProcessPC,
            Pushing, Producers, SlotTaken, CapturePushes
<1>1. CASE StartFails
  BY <1>1 DEF StartFails
<1>2. CASE Start
  BY <1>2 DEF Start, Fresh
<1>3. CASE Stop
  <2>1. overtaken' \subseteq Pushing'
    BY <1>3 DEF Stop, StepAfterExchange
  <2> HIDE DEF Pushing
  <2> QED
    BY <1>3, <2>1 DEF Stop, StepAfterExchange
<1>4. CASE StopPushes
  BY <1>4 DEF StopPushes, BeginsPush, Gaps
<1>5. CASE StopCancels
  BY <1>5 DEF StopCancels, Cancels
<1>6. CASE StopJoinsCapture
  BY <1>6 DEF StopJoinsCapture, Threads
<1>7. CASE StopJoinsProcess
  BY <1>7 DEF StopJoinsProcess, Threads
<1>8. CASE StopFrees
  BY <1>8 DEF StopFrees
<1>9. CASE Destroy
  BY <1>9 DEF Destroy
<1>10. CASE CaptureTests
  BY <1>10 DEF CaptureTests, LoopEnds, LoopLeft
<1>11. CASE EventsTimeOut
  BY <1>11 DEF EventsTimeOut, AfterEvents
<1>12. CASE EnterCallback
  BY <1>12 DEF EnterCallback
<1>13. CASE CallbackGuard
  BY <1>13 DEF CallbackGuard, AfterEvents, Reaction
<1>14. CASE PushReport
  BY <1>14 DEF PushReport, BeginsPush, Gaps, AfterEvents, AfterReport
<1>15. CASE NotifyDeviceLost
  BY <1>15 DEF NotifyDeviceLost, AfterEvents, FirstToStop
<1>16. CASE DeviceLostPushes
  BY <1>16 DEF DeviceLostPushes, BeginsPush, Gaps, AfterEvents
<1>17. CASE CheckRunning
  BY <1>17 DEF CheckRunning, AfterEvents
<1>18. CASE Resubmit
  <2>1. running' = running \/ running' = FALSE
    BY <1>18 DEF Resubmit
  <2>2. running' \in BOOLEAN /\ (draining => ~running')
    BY <2>1, ClearedKeeps
  <2>3. streamGaps' \subseteq Gaps
    BY <1>18 DEF Resubmit, EndedSilently, SubmittedLate, Gaps
  <2> QED
    BY <1>18, <2>2, <2>3 DEF Resubmit, AfterEvents
<1>19. CASE Pop
  BY <1>19 DEF Pop
<1>20. CASE Drain
  BY <1>20 DEF Drain
<1>21. CASE Send
  <2>1. running' = running \/ running' = FALSE
    BY <1>21 DEF Send
  <2>2. running' \in BOOLEAN /\ (draining => ~running')
    BY <2>1, ClearedKeeps
  <2>3. streamGaps' \subseteq Gaps
    BY <1>21 DEF Send, EndedSilently, Gaps
  <2> QED
    BY <1>21, <2>2, <2>3 DEF Send
<1>22. CASE TransferEnds
  BY <1>22 DEF TransferEnds
<1>23. CASE TransferCancelled
  BY <1>23 DEF TransferCancelled
<1>24. CASE StopPublishes
  <2>1. overtaken' \subseteq Pushing \ {"owner"} /\ Pushing' = Pushing \ {"owner"}
    BY <1>24, PushingIs DEF StopPublishes, Publish
  <2> QED
    BY <1>24, <2>1 DEF StopPublishes
<1>25. CASE PublishReport
  BY <1>25 DEF PublishReport, Publish, QueuedLate, Gaps, AfterEvents, AfterReport
<1>26. CASE DeviceLostPublishes
  BY <1>26 DEF DeviceLostPublishes, Publish, AfterEvents
<1>27. CASE RaceEndsProcess
  BY <1>27 DEF RaceEndsProcess
<1> QED
  BY <1>1, <1>2, <1>3, <1>4, <1>5, <1>6, <1>7, <1>8, <1>9, <1>10,
     <1>11, <1>12, <1>13, <1>14, <1>15, <1>16, <1>17, <1>18, <1>19, <1>20,
     <1>21, <1>22, <1>23, <1>24, <1>25, <1>26, <1>27
     DEF StreamStep, Owner, Capture, Process

\* Of the queue and the counters, the steps that do not touch them need no case of
\* their own.
LEMMA DataStep == IInv /\ StreamStep => QueueTyped' /\ CountersTyped'
<1> SUFFICES ASSUME QueueTyped, CountersTyped, SlotTaken, StreamStep
             PROVE  QueueTyped' /\ CountersTyped'
  BY TypeParts DEF IInv
<1>0. {"owner", "capture"} \subseteq Producers /\ opc # "terminated"
  BY DEF Producers, StreamStep
<1>1. CASE StopPushes \/ PushReport \/ DeviceLostPushes
  <2>1. /\ UNCHANGED <<queue, eventsRead, eventsSent>>
        /\ eventsDropped' \in {eventsDropped, eventsDropped + 1}
        /\ sentinels' \in {sentinels, sentinels + 1}
    BY <1>1 DEF StopPushes, PushReport, DeviceLostPushes, BeginsPush
  <2> QED
    BY <2>1 DEF QueueTyped, CountersTyped
<1>2. CASE StopPublishes
  <2>1. /\ QueueTyped' /\ sentinels' = sentinels + 1
        /\ UNCHANGED <<eventsRead, eventsSent, eventsDropped>>
    BY <1>0, <1>2, Published DEF StopPublishes, SlotTaken
  <2> QED
    BY <2>1 DEF CountersTyped
<1>3. CASE PublishReport \/ DeviceLostPublishes
  <2>1. QueueTyped'
    BY <1>0, <1>3, Published DEF PublishReport, DeviceLostPublishes, SlotTaken, CapturePushes
  <2>2. /\ UNCHANGED <<eventsSent, eventsDropped>>
        /\ eventsRead' \in {eventsRead, eventsRead + 1}
        /\ sentinels' \in {sentinels, sentinels + 1}
    BY <1>3 DEF PublishReport, DeviceLostPublishes
  <2> QED
    BY <2>1, <2>2 DEF CountersTyped
<1>4. CASE Pop
  BY <1>4, TailKeeps DEF Pop, QueueTyped, CountersTyped
<1>5. CASE Drain
  <2>1. CASE queue = << >>
    BY <1>5, <2>1 DEF Drain, QueueTyped, CountersTyped
  <2>2. CASE queue # << >>
    BY <1>5, <2>2, TailKeeps DEF Drain, QueueTyped, CountersTyped
  <2> QED
    BY <2>1, <2>2
<1>6. CASE Send
  <2>1. /\ UNCHANGED <<queue, eventsRead, eventsDropped, sentinels>>
        /\ eventsSent' = eventsSent + 1
    BY <1>6 DEF Send, Counted
  <2> QED
    BY <2>1 DEF QueueTyped, CountersTyped
<1>7. CASE UNCHANGED <<queue, eventsRead, eventsSent, eventsDropped, sentinels>>
  BY <1>7 DEF QueueTyped, CountersTyped
<1> QED
  BY <1>1, <1>2, <1>3, <1>4, <1>5, <1>6, <1>7
     DEF StreamStep, Owner, Capture, Process, Start, StartFails, Stop, StopCancels,
         StopJoinsCapture, StopJoinsProcess, StopFrees, Destroy, CaptureTests,
         EventsTimeOut, EnterCallback, CallbackGuard, NotifyDeviceLost, CheckRunning,
         Resubmit, TransferEnds, TransferCancelled, RaceEndsProcess

LEMMA OrderStep ==
    IInv /\ StreamStep => (Fresh /\ EndAnnounced /\ LoopLeft /\ JoinedEnded)'
<1> SUFFICES ASSUME IInv, StreamStep
             PROVE  (Fresh /\ EndAnnounced /\ LoopLeft /\ JoinedEnded)'
  OBVIOUS
<1> USE DEF IInv, Fresh, EndAnnounced, OwnerAnnounces, CaptureAnnounces, LoopLeft,
            JoinedEnded, OneSentinel
<1>0. /\ draining => ~running
      /\ ControlTyped /\ QueueTyped /\ CountersTyped
      /\ OwnerAnnounces \/ CaptureAnnounces => ~running
  BY TypeParts DEF ControlTyped
<1>1. CASE StartFails
  BY <1>0, <1>1 DEF StartFails
<1>2. CASE Start
  BY <1>0, <1>2 DEF Start
<1>3. CASE Stop
  BY <1>0, <1>3 DEF Stop, StepAfterExchange
<1>4. CASE StopPushes
  <2>1. /\ ~running /\ sentinels' \in {0, 1}
        /\ opc' = "pushing" => sentinels' = 0
        /\ UNCHANGED <<running, joined, draining, ppc>>
    BY <1>0, <1>4 DEF StopPushes, CountersTyped
  <2> QED
    BY <1>0, <1>4, <2>1 DEF StopPushes
<1>5. CASE StopCancels
  BY <1>0, <1>5 DEF StopCancels, Cancels
<1>6. CASE StopJoinsCapture
  BY <1>0, <1>6 DEF StopJoinsCapture
<1>7. CASE StopJoinsProcess
  BY <1>0, <1>7 DEF StopJoinsProcess
<1>8. CASE StopFrees
  BY <1>0, <1>8 DEF StopFrees
<1>9. CASE Destroy
  BY <1>0, <1>9 DEF Destroy
<1>10. CASE CaptureTests
  BY <1>0, <1>10 DEF CaptureTests, LoopEnds
<1>11. CASE EventsTimeOut
  BY <1>0, <1>11 DEF EventsTimeOut, AfterEvents
<1>12. CASE EnterCallback
  BY <1>0, <1>12 DEF EnterCallback
<1>13. CASE CallbackGuard
  BY <1>0, <1>13 DEF CallbackGuard, AfterEvents, Reaction
<1>14. CASE PushReport
  BY <1>0, <1>14 DEF PushReport, AfterEvents, AfterReport
<1>15. CASE NotifyDeviceLost
  BY <1>0, <1>15 DEF NotifyDeviceLost, AfterEvents, FirstToStop
<1>16. CASE DeviceLostPushes
  <2>1. /\ ~running /\ sentinels' \in {0, 1}
        /\ cpc' = "pushingSentinel" => sentinels' = 0
        /\ UNCHANGED <<running, joined, draining, ppc>>
    BY <1>0, <1>16 DEF DeviceLostPushes, CountersTyped, AfterEvents
  <2> QED
    BY <1>0, <1>16, <2>1 DEF DeviceLostPushes, AfterEvents
<1>17. CASE CheckRunning
  BY <1>0, <1>17 DEF CheckRunning, AfterEvents
<1>18. CASE Resubmit
  <2>1. running' => running
    BY <1>18 DEF Resubmit
  <2> QED
    BY <1>0, <1>18, <2>1 DEF Resubmit, AfterEvents
<1>19. CASE Pop
  BY <1>0, <1>19 DEF Pop
<1>20. CASE Drain
  BY <1>0, <1>20 DEF Drain
<1>21. CASE Send
  <2>1. running' => running
    BY <1>21 DEF Send
  <2> QED
    BY <1>0, <1>21, <2>1 DEF Send
<1>22. CASE TransferEnds
  BY <1>0, <1>22 DEF TransferEnds, Outcomes
<1>23. CASE TransferCancelled
  BY <1>0, <1>23 DEF TransferCancelled
<1>24. CASE StopPublishes
  <2>1. /\ ~running /\ sentinels' = 1
        /\ UNCHANGED <<running, joined, draining, ppc>>
    BY <1>0, <1>24 DEF StopPublishes, CountersTyped
  <2> QED
    BY <1>0, <1>24, <2>1 DEF StopPublishes
<1>25. CASE PublishReport
  BY <1>0, <1>25 DEF PublishReport, AfterEvents, AfterReport
<1>26. CASE DeviceLostPublishes
  <2>1. /\ ~running /\ sentinels' = 1
        /\ UNCHANGED <<running, joined, draining, ppc>>
    BY <1>0, <1>26 DEF DeviceLostPublishes, CountersTyped
  <2> QED
    BY <1>0, <1>26, <2>1 DEF DeviceLostPublishes, AfterEvents
<1>27. CASE RaceEndsProcess
  <2>1. opc \in {"pushing", "cancel", "joinCapture"}
    BY <1>0, <1>27, PushingIs
       DEF RaceEndsProcess, ControlTyped, SlotTaken, Producers, StreamStep
  <2> QED
    BY <1>0, <1>27, <2>1 DEF RaceEndsProcess
<1> QED
  BY <1>1, <1>2, <1>3, <1>4, <1>5, <1>6, <1>7, <1>8, <1>9, <1>10,
     <1>11, <1>12, <1>13, <1>14, <1>15, <1>16, <1>17, <1>18, <1>19, <1>20,
     <1>21, <1>22, <1>23, <1>24, <1>25, <1>26, <1>27
     DEF StreamStep, Owner, Capture, Process

\* The steps that begin no push and publish none leave the slots under way as they are.
LEMMA QuietSlots ==
    ASSUME IInv, opc # "terminated", UNCHANGED overtaken, HasRoom => HasRoom',
           streamGaps \subseteq streamGaps',
           \/ opc' = opc
           \/ /\ opc # "pushing" /\ opc' # "pushing"
              /\ opc' = "joinCapture" \/ opc \notin {"cancel", "joinCapture"} \/ cpc = "exited",
           CapturePushes' <=> CapturePushes
    PROVE  SlotTaken'
<1>1. SlotTaken /\ overtaken \subseteq {"owner", "capture"}
  BY TypeParts, PushingIs DEF IInv, ControlTyped
<1>2. CASE opc' = opc
  BY <1>1, <1>2 DEF SlotTaken
<1>3. CASE opc' # opc
  BY <1>1, <1>3 DEF SlotTaken, CapturePushes
<1> QED
  BY <1>2, <1>3

LEMMA SlotStep == IInv /\ StreamStep => SlotTaken'
<1> SUFFICES ASSUME IInv, StreamStep PROVE SlotTaken'
  OBVIOUS
<1>0. /\ QueueTyped /\ SlotTaken /\ JoinedEnded /\ opc # "terminated"
      /\ overtaken \subseteq Pushing
      /\ {"owner", "capture"} \subseteq Producers
  BY TypeParts DEF IInv, ControlTyped, StreamStep, Producers
<1>1. CASE StopPushes
  BY <1>0, <1>1, PushingIs DEF StopPushes, BeginsPush, SlotTaken, CapturePushes, HasRoom
<1>2. CASE PushReport \/ DeviceLostPushes
  BY <1>0, <1>2, PushingIs
     DEF PushReport, DeviceLostPushes, BeginsPush, SlotTaken, CapturePushes, HasRoom,
         AfterEvents
<1>3. CASE StopPublishes
  <2>1. /\ opc = "pushing" /\ opc' = "cancel" /\ UNCHANGED <<cpc, streamGaps>>
        /\ overtaken' = IF "owner" \in overtaken THEN overtaken \ {"owner"}
                        ELSE Pushing \ {"owner"}
    BY <1>3 DEF StopPublishes, Publish
  <2>2. "owner" \in overtaken => Len(queue') = Len(queue)
    BY <1>0, <1>3, Published DEF StopPublishes, SlotTaken
  <2> QED
    BY <1>0, <2>1, <2>2, PushingIs DEF SlotTaken, CapturePushes, HasRoom
<1>4. CASE PublishReport \/ DeviceLostPublishes
  <2>1. /\ CapturePushes /\ ~CapturePushes' /\ UNCHANGED opc
        /\ streamGaps \subseteq streamGaps'
        /\ overtaken' = IF "capture" \in overtaken THEN overtaken \ {"capture"}
                        ELSE Pushing \ {"capture"}
    BY <1>4 DEF PublishReport, DeviceLostPublishes, Publish, CapturePushes, AfterEvents
  <2>2. "capture" \in overtaken => opc # "pushing"
    BY <1>0 DEF SlotTaken
  <2> QED
    BY <1>0, <2>1, <2>2, PushingIs DEF SlotTaken
<1>5. CASE RaceEndsProcess
  BY <1>5 DEF RaceEndsProcess, SlotTaken
<1>6. CASE Pop \/ Drain
  <2>1. HasRoom => HasRoom'
    <3>1. CASE queue # << >>
      BY <1>0, <1>6, <3>1, HeadTailProperties, LenProperties
         DEF Pop, Drain, HasRoom, QueueTyped
    <3>2. CASE queue = << >>
      BY <1>6, <3>2 DEF Pop, Drain, HasRoom
    <3> QED
      BY <3>1, <3>2
  <2> QED
    BY <1>0, <1>6, <2>1, QuietSlots DEF Pop, Drain, CapturePushes
<1>7. CASE Start \/ StartFails \/ Stop \/ (Owner /\ opc \notin {"push", "pushing"})
  <2>1. /\ UNCHANGED <<queue, overtaken, streamGaps>>
        /\ opc # "pushing" /\ opc' # "pushing"
        /\ opc' = "joinCapture" \/ opc \notin {"cancel", "joinCapture"} \/ cpc = "exited"
        /\ CapturePushes' <=> CapturePushes
    BY <1>7 DEF Start, StartFails, Stop, StepAfterExchange, Owner, StopPushes, StopPublishes,
                StopCancels, StopJoinsCapture, StopJoinsProcess, StopFrees, Destroy,
                CapturePushes, IInv, Fresh
  <2> QED
    BY <1>0, <2>1, QuietSlots DEF HasRoom
<1>8. CASE CaptureTests \/ EventsTimeOut \/ EnterCallback \/ CallbackGuard
           \/ NotifyDeviceLost \/ CheckRunning \/ Resubmit \/ Send
           \/ TransferEnds \/ TransferCancelled
  <2>1. /\ UNCHANGED <<queue, overtaken, opc>> /\ streamGaps \subseteq streamGaps'
        /\ CapturePushes' <=> CapturePushes
    BY <1>8 DEF CaptureTests, EventsTimeOut, EnterCallback, CallbackGuard, Reaction,
                NotifyDeviceLost, CheckRunning, Resubmit, Send, TransferEnds,
                TransferCancelled, AfterEvents, CapturePushes
  <2> QED
    BY <1>0, <2>1, QuietSlots DEF HasRoom
<1> QED
  BY <1>1, <1>2, <1>3, <1>4, <1>5, <1>6, <1>7, <1>8
     DEF StreamStep, Owner, Capture, Process, StopPushes, StopPublishes, StopCancels,
         StopJoinsCapture, StopJoinsProcess, StopFrees, Destroy

LEMMA StepIInv == IInv /\ StreamStep => IInv'
<1> SUFFICES ASSUME IInv, StreamStep PROVE IInv'
  OBVIOUS
<1>1. TypeOK' <=> ControlTyped' /\ QueueTyped' /\ CountersTyped'
  BY TypeParts, PTL
<1>2. TypeOK'
  BY <1>1, ControlStep, DataStep
<1> QED
  BY <1>2, OrderStep, SlotStep DEF IInv

LEMMA InitAwaited == Init => TransferAwaited
  BY DEF Init, TransferAwaited, Stopping

LEMMA StepAwaited == PatientWait /\ IInv /\ TransferAwaited /\ StreamStep => TransferAwaited'
<1> SUFFICES ASSUME PatientWait, IInv, TransferAwaited, StreamStep
             PROVE  TransferAwaited'
  OBVIOUS
<1> USE DEF TransferAwaited, Stopping
<1>0. Fresh /\ EndAnnounced /\ LoopLeft /\ JoinedEnded /\ ControlTyped
  BY TypeParts DEF IInv
<1>1. CASE StartFails
  BY <1>0, <1>1 DEF StartFails, Fresh
<1>2. CASE Start
  BY <1>0, <1>2 DEF Start, Fresh
<1>3. CASE Stop
  BY <1>0, <1>3 DEF Stop, StepAfterExchange, EndAnnounced, LoopLeft, ControlTyped
<1>4. CASE StopPushes
  BY <1>0, <1>4 DEF StopPushes, BeginsPush
<1>5. CASE StopCancels
  BY <1>0, <1>5 DEF StopCancels, Cancels
<1>6. CASE StopJoinsCapture
  BY <1>0, <1>6 DEF StopJoinsCapture
<1>7. CASE StopJoinsProcess
  BY <1>0, <1>7 DEF StopJoinsProcess, JoinedEnded
<1>8. CASE StopFrees
  BY <1>0, <1>8 DEF StopFrees, JoinedEnded
<1>9. CASE Destroy
  BY <1>0, <1>9 DEF Destroy
<1>10. CASE CaptureTests
  BY <1>0, <1>10 DEF CaptureTests, LoopEnds, LoopLeft, EndAnnounced, OwnerAnnounces, CaptureAnnounces, ControlTyped
<1>11. CASE EventsTimeOut
  BY <1>0, <1>11 DEF EventsTimeOut, AfterEvents, LoopLeft, JoinedEnded, ControlTyped, Transfer, Completions, Outcomes
<1>12. CASE EnterCallback
  BY <1>0, <1>12 DEF EnterCallback, Completions, Outcomes, LoopLeft
<1>13. CASE CallbackGuard
  BY <1>0, <1>13 DEF CallbackGuard, AfterEvents, Reaction, ControlTyped, LoopLeft
<1>14. CASE PushReport
  BY <1>0, <1>14 DEF PushReport, BeginsPush, AfterEvents, AfterReport, LoopLeft, ControlTyped
<1>15. CASE NotifyDeviceLost
  BY <1>0, <1>15 DEF NotifyDeviceLost, AfterEvents, FirstToStop, LoopLeft, EndAnnounced, OwnerAnnounces, CaptureAnnounces, ControlTyped
<1>16. CASE DeviceLostPushes
  BY <1>0, <1>16 DEF DeviceLostPushes, BeginsPush, AfterEvents, LoopLeft, ControlTyped
<1>17. CASE CheckRunning
  BY <1>0, <1>17 DEF CheckRunning, AfterEvents, LoopLeft, EndAnnounced, OwnerAnnounces, CaptureAnnounces, ControlTyped
<1>18. CASE Resubmit
  BY <1>0, <1>18 DEF Resubmit, AfterEvents, SubmittedLate, EndedSilently, LoopLeft, EndAnnounced, OwnerAnnounces, CaptureAnnounces, ControlTyped
<1>19. CASE Pop
  BY <1>0, <1>19 DEF Pop
<1>20. CASE Drain
  BY <1>0, <1>20 DEF Drain
<1>21. CASE Send
  BY <1>0, <1>21 DEF Send, EndedSilently
<1>22. CASE TransferEnds
  BY <1>0, <1>22 DEF TransferEnds, Outcomes
<1>23. CASE TransferCancelled
  BY <1>0, <1>23 DEF TransferCancelled
<1>24. CASE StopPublishes
  BY <1>0, <1>24 DEF StopPublishes
<1>25. CASE PublishReport
  BY <1>0, <1>25 DEF PublishReport, QueuedLate, AfterEvents, AfterReport, LoopLeft
<1>26. CASE DeviceLostPublishes
  BY <1>0, <1>26 DEF DeviceLostPublishes, AfterEvents, LoopLeft
<1>27. CASE RaceEndsProcess
  BY <1>0, <1>27 DEF RaceEndsProcess
<1> QED
  BY <1>1, <1>2, <1>3, <1>4, <1>5, <1>6, <1>7, <1>8, <1>9, <1>10,
     <1>11, <1>12, <1>13, <1>14, <1>15, <1>16, <1>17, <1>18, <1>19, <1>20,
     <1>21, <1>22, <1>23, <1>24, <1>25, <1>26, <1>27
     DEF StreamStep, Owner, Capture, Process

-----------------------------------------------------------------------------
(* Reports *)

\* The places of the reports in a queue.
ReportsIn(q) == {n \in DOMAIN q : q[n] = "report"}

LEMMA ReportsFinite ==
    ASSUME NEW q \in Seq(Events)
    PROVE  IsFiniteSet(ReportsIn(q)) /\ Cardinality(ReportsIn(q)) \in Nat
<1>1. ReportsIn(q) \subseteq 1 .. Len(q)
  BY DEF ReportsIn
<1>2. Len(q) \in Nat
  BY LenProperties
<1>3. IsFiniteSet(1 .. Len(q))
  BY <1>2, FS_Interval
<1>4. IsFiniteSet(ReportsIn(q))
  BY <1>1, <1>3, FS_Subset
<1> QED
  BY <1>4, FS_CardinalityType

\* A report that is queued counts.
LEMMA ReportQueued ==
    ASSUME NEW q \in Seq(Events)
    PROVE  Cardinality(ReportsIn(Append(q, "report"))) = Cardinality(ReportsIn(q)) + 1
<1> DEFINE n == Len(q) + 1
<1>1. n \in Nat /\ n \notin DOMAIN q
  BY LenProperties
<1>2. ReportsIn(Append(q, "report")) = ReportsIn(q) \cup {n}
  BY <1>1, AppendProperties, LenProperties DEF ReportsIn, Events
<1>3. n \notin ReportsIn(q)
  BY <1>1 DEF ReportsIn
<1> QED
  BY <1>2, <1>3, ReportsFinite, FS_AddElement

\* A sentinel does not.
LEMMA SentinelNoReport ==
    ASSUME NEW q \in Seq(Events)
    PROVE  ReportsIn(Append(q, "sentinel")) = ReportsIn(q)
  BY AppendProperties, LenProperties DEF ReportsIn, Events

\* Taking an event moves the others forward and takes at most that one from the count.
LEMMA EventTaken ==
    ASSUME NEW q \in Seq(Events), q # << >>
    PROVE  Cardinality(ReportsIn(q)) =
           Cardinality(ReportsIn(Tail(q))) + (IF Head(q) = "report" THEN 1 ELSE 0)
<1> DEFINE T == ReportsIn(Tail(q))
           R == ReportsIn(q) \ {1}
           f == [n \in T |-> n + 1]
<1>1. /\ Tail(q) \in Seq(Events) /\ Len(Tail(q)) = Len(q) - 1
      /\ \A n \in 1 .. Len(q) - 1 : Tail(q)[n] = q[n + 1]
      /\ Len(q) \in Nat /\ Len(q) # 0
      /\ DOMAIN q = 1 .. Len(q) /\ DOMAIN Tail(q) = 1 .. Len(q) - 1
      /\ Head(q) = q[1]
  BY HeadTailProperties, LenProperties, EmptySeq
<1>2. T = {n \in 1 .. Len(q) - 1 : q[n + 1] = "report"}
  BY <1>1 DEF ReportsIn
<1>3. R = {n \in 2 .. Len(q) : q[n] = "report"}
  BY <1>1 DEF ReportsIn
<1>4. f \in Bijection(T, R)
  <2>1. \A n \in T : n + 1 \in R
    BY <1>1, <1>2, <1>3
  <2>2. \A m \in R : m - 1 \in T /\ (m - 1) + 1 = m
    BY <1>1, <1>2, <1>3
  <2>3. f \in [T -> R]
    BY <2>1
  <2>4. \A m, n \in T : f[m] = f[n] => m = n
    BY <1>1, <1>2
  <2>5. \A m \in R : \E n \in T : f[n] = m
    BY <2>2
  <2> QED
    BY <2>3, <2>4, <2>5 DEF Bijection, Injection, Surjection, IsInjective
<1>5. IsFiniteSet(T) /\ Cardinality(T) \in Nat /\ IsFiniteSet(ReportsIn(q))
  BY <1>1, ReportsFinite
<1>6. Cardinality(R) = Cardinality(T)
  BY <1>4, <1>5, FS_Bijection DEF ExistsBijection
<1>7. CASE Head(q) = "report"
  <2>1. 1 \in ReportsIn(q)
    BY <1>1, <1>7 DEF ReportsIn
  <2>2. Cardinality(R) = Cardinality(ReportsIn(q)) - 1
    BY <1>5, <2>1, FS_RemoveElement
  <2> QED
    BY <1>5, <1>6, <1>7, <2>2, ReportsFinite
<1>8. CASE Head(q) # "report"
  <2>1. R = ReportsIn(q)
    BY <1>1, <1>8 DEF ReportsIn
  <2>2. Cardinality(ReportsIn(q)) = Cardinality(T)
    BY <1>6, <2>1
  <2> HIDE DEF T
  <2> QED
    BY <1>5, <1>8, <2>2 DEF T
<1> QED
  BY <1>7, <1>8

\* The sentinel ends the stream: while running_ is set the queue has reports only, and
\* the process thread is in its loop.
OnlyReports ==
    running => /\ \A n \in DOMAIN queue : queue[n] = "report"
               /\ ppc \notin {"drain", "sendDrained", "exited"}

LEMMA InitOnlyReports == Init => OnlyReports
  BY DEF Init, OnlyReports

LEMMA StepOnlyReports == IInv /\ OnlyReports /\ StreamStep => OnlyReports'
<1> SUFFICES ASSUME IInv, OnlyReports, StreamStep, running'
             PROVE  /\ \A n \in DOMAIN queue' : queue'[n] = "report"
                    /\ ppc' \notin {"drain", "sendDrained", "exited"}
  BY DEF OnlyReports
<1>1. CASE Start
  BY <1>1, EmptySeq DEF Start, IInv, Fresh
<1>2. CASE ~Start
  <2>1. running
    BY <1>2 DEF StreamStep, Owner, Capture, Process, StartFails, Stop, StopPushes,
         StopPublishes, StopCancels, StopJoinsCapture, StopJoinsProcess, StopFrees, Destroy,
         CaptureTests, EventsTimeOut, EnterCallback, CallbackGuard, PushReport,
         PublishReport, NotifyDeviceLost, DeviceLostPushes, DeviceLostPublishes,
         CheckRunning, Resubmit, Pop, Drain, Send, TransferEnds, TransferCancelled,
         RaceEndsProcess
  <2>2. /\ \A n \in DOMAIN queue : queue[n] = "report"
        /\ ppc \notin {"drain", "sendDrained", "exited"}
        /\ opc = "started" /\ ~CaptureAnnounces /\ overtaken = {}
        /\ queue \in Seq(Events) /\ "report" \in Events
    BY <2>1, TypeParts, PushingIs
       DEF OnlyReports, IInv, EndAnnounced, SlotTaken, ControlTyped, QueueTyped, Events
  <2>3. CASE PublishReport
    <3>1. queue' = Append(queue, "report") /\ UNCHANGED ppc
      BY <2>2, <2>3 DEF PublishReport, Publish, EventOf
    <3> QED
      BY <2>2, <3>1, AppendProperties, LenProperties
  <2>4. CASE Pop
    <3>1. queue # << >> /\ queue' = Tail(queue)
      BY <2>4 DEF Pop
    <3>2. Readable = {Head(queue)}
      BY <2>2 DEF Readable
    <3>3. Head(queue) = "report"
      BY <2>2, <3>1, HeadTailProperties, LenProperties, EmptySeq
    <3>4. ppc' = "send"
      BY <2>4, <3>2, <3>3 DEF Pop
    <3> QED
      BY <2>2, <3>1, <3>4, HeadTailProperties, LenProperties
  <2>5. CASE UNCHANGED queue /\ (ppc' = ppc \/ (Send /\ ppc = "send"))
    BY <2>2, <2>5 DEF Send
  <2> QED
    BY <1>2, <2>2, <2>3, <2>4, <2>5
       DEF StreamStep, Owner, Capture, Process, StartFails, Stop, StopPushes, BeginsPush,
         StopPublishes, StopCancels, StopJoinsCapture, StopJoinsProcess, StopFrees, Destroy,
         CaptureTests, EventsTimeOut, EnterCallback, CallbackGuard, PushReport,
         NotifyDeviceLost, DeviceLostPushes, DeviceLostPublishes, CaptureAnnounces,
         CheckRunning, Resubmit, Drain, Send, TransferEnds, TransferCancelled,
         RaceEndsProcess
<1> QED
  BY <1>1, <1>2

\* The two halves of ReportsAccounted.
Balanced ==
    eventsRead = eventsSent + Cardinality(ReportsIn(queue))
                 + (IF ppc \in {"send", "sendDrained"} THEN 1 ELSE 0)

NoneLeft == ppc = "exited" /\ "lateReport" \notin streamGaps => ReportsIn(queue) = {}

Collided == "collision" \in streamGaps

LEMMA AccountsOf == ReportsAccounted <=> (~Collided => Balanced /\ NoneLeft)
<1>1. NoneLeft <=> (ppc = "exited" /\ "lateReport" \notin streamGaps =>
                        \A n \in DOMAIN queue : queue[n] # "report")
  BY DEF NoneLeft, ReportsIn
<1>2. Balanced <=> eventsRead = eventsSent
                        + Cardinality({n \in DOMAIN queue : queue[n] = "report"})
                        + (IF ppc \in {"send", "sendDrained"} THEN 1 ELSE 0)
  BY DEF Balanced, ReportsIn
<1> QED
  BY <1>1, <1>2, Zenon DEF ReportsAccounted, Collided

LEMMA InitAccounts == Init => ReportsAccounted
<1> SUFFICES ASSUME Init PROVE Balanced /\ NoneLeft
  BY AccountsOf
<1>1. ReportsIn(queue) = {}
  BY DEF Init, ReportsIn
<1>2. Cardinality(ReportsIn(queue)) = 0
  BY <1>1, FS_EmptySet
<1> QED
  BY <1>1, <1>2 DEF Init, Balanced, NoneLeft

\* The history only grows.
LEMMA GapsGrow == StreamStep => streamGaps \subseteq streamGaps'
  BY DEF StreamStep, Owner, Capture, Process, Start, StartFails, Stop, StopPushes,
         BeginsPush, StopPublishes, StopCancels, StopJoinsCapture, StopJoinsProcess,
         StopFrees, Destroy, CaptureTests, EventsTimeOut, EnterCallback, CallbackGuard,
         PushReport, PublishReport, NotifyDeviceLost, DeviceLostPushes,
         DeviceLostPublishes, CheckRunning, Resubmit, Pop, Drain, Send, TransferEnds,
         TransferCancelled, RaceEndsProcess

\* Without a collision a push has its slot to itself.
LEMMA AloneInPush ==
    ASSUME IInv, StreamStep, "collision" \notin streamGaps
    PROVE  /\ overtaken = {} /\ Readable = {Head(queue)}
           /\ StopPublishes \/ DeviceLostPublishes => queue' = Append(queue, "sentinel")
           /\ PublishReport => queue' = Append(queue, "report")
<1>1. overtaken = {}
  BY DEF IInv, SlotTaken, StreamStep
<1> QED
  BY <1>1 DEF Readable, StopPublishes, DeviceLostPublishes, PublishReport, Publish,
              EventOf, Sentinel

LEMMA StepAccounts ==
    IInv /\ OnlyReports /\ ReportsAccounted /\ StreamStep => ReportsAccounted'
<1> SUFFICES ASSUME IInv, OnlyReports, ReportsAccounted, StreamStep,
                    ~Collided'
             PROVE  Balanced' /\ NoneLeft'
  <2>1. ReportsAccounted' <=> (~Collided' => Balanced' /\ NoneLeft')
    BY AccountsOf, PTL
  <2> QED
    BY <2>1
<1>0. "collision" \notin streamGaps /\ streamGaps \subseteq streamGaps'
  BY GapsGrow DEF Collided
<1> DEFINE reports == Cardinality(ReportsIn(queue))
           inHand == IF ppc \in {"send", "sendDrained"} THEN 1 ELSE 0
<1>1. eventsRead = eventsSent + reports + inHand /\ NoneLeft
  BY <1>0, AccountsOf DEF Balanced, Collided
<1>2. QueueTyped /\ CountersTyped /\ queue \in Seq(Events) /\ reports \in Nat
  BY TypeParts, ReportsFinite DEF IInv, QueueTyped
<1>3. SUFFICES eventsRead' = eventsSent' + reports' + inHand' /\ NoneLeft'
  BY DEF Balanced
<1>4. CASE StopPublishes \/ DeviceLostPublishes
  <2>1. /\ queue' = Append(queue, "sentinel")
        /\ UNCHANGED <<eventsRead, eventsSent, ppc, streamGaps>>
    BY <1>0, <1>4, AloneInPush DEF StopPublishes, DeviceLostPublishes
  <2>2. ReportsIn(queue') = ReportsIn(queue) /\ reports' = reports
    BY <1>2, <2>1, SentinelNoReport
  <2>3. NoneLeft'
    BY <1>1, <2>1, <2>2 DEF NoneLeft, ReportsIn
  <2> QED
    BY <1>1, <2>1, <2>2, <2>3
<1>5. CASE PublishReport
  <2>1. /\ queue' = Append(queue, "report") /\ eventsRead' = eventsRead + 1
        /\ UNCHANGED <<eventsSent, ppc>>
    BY <1>0, <1>5, AloneInPush DEF PublishReport
  <2>2. reports' = reports + 1
    BY <1>2, <2>1, ReportQueued
  <2>3. NoneLeft'
    <3>1. "lateReport" \notin streamGaps' => running
      BY <1>5 DEF PublishReport, QueuedLate
    <3> QED
      BY <2>1, <3>1 DEF NoneLeft, OnlyReports
  <2> QED
    BY <1>1, <1>2, <2>1, <2>2, <2>3 DEF CountersTyped
<1>6. CASE (Pop \/ Drain) /\ queue # << >>
  <2>1. /\ queue' = Tail(queue)
        /\ UNCHANGED <<eventsRead, eventsSent>>
        /\ inHand = 0
        /\ inHand' = IF Head(queue) = "report" THEN 1 ELSE 0
        /\ ppc' # "exited"
    <3>1. Head(queue) \in Events
      BY <1>2, <1>6, HeadTailProperties
    <3>2. Readable = {Head(queue)}
      BY <1>0, AloneInPush
    <3> QED
      BY <1>6, <3>1, <3>2 DEF Pop, Drain, Events
  <2>2. reports = reports' + (IF Head(queue) = "report" THEN 1 ELSE 0)
    BY <1>2, <1>6, <2>1, EventTaken
  <2>3. reports' \in Nat
    BY <1>2, <1>6, <2>1, HeadTailProperties, ReportsFinite
  <2>4. NoneLeft'
    BY <2>1 DEF NoneLeft
  <2> QED
    BY <1>1, <1>2, <2>1, <2>2, <2>3, <2>4 DEF CountersTyped
<1>7. CASE Drain /\ queue = << >>
  <2>1. UNCHANGED <<queue, eventsRead, eventsSent, inHand>>
    BY <1>7 DEF Drain
  <2>2. NoneLeft'
    BY <1>7, <2>1 DEF NoneLeft, ReportsIn
  <2> QED
    BY <1>1, <2>1, <2>2
<1>8. CASE Send
  <2>1. /\ UNCHANGED <<queue, eventsRead>>
        /\ eventsSent' = eventsSent + 1
        /\ inHand = 1 /\ inHand' = 0 /\ ppc' # "exited"
    BY <1>8 DEF Send, Counted
  <2>2. NoneLeft'
    BY <2>1 DEF NoneLeft
  <2> QED
    BY <1>1, <1>2, <2>1, <2>2 DEF CountersTyped
<1>9. CASE UNCHANGED <<queue, eventsRead, eventsSent, inHand>>
           /\ (ppc' = ppc \/ ppc' # "exited")
  <2>1. NoneLeft'
    BY <1>0, <1>1, <1>9 DEF NoneLeft, ReportsIn
  <2> QED
    BY <1>1, <1>9, <2>1
<1> QED
  <2>1. CASE Start
    BY <1>9, <2>1 DEF Start, IInv, Fresh
  <2>2. CASE Process
    BY <1>6, <1>7, <1>8, <2>2 DEF Process, Pop
  <2> QED
    BY <1>4, <1>5, <1>9, <2>1, <2>2
       DEF StreamStep, Owner, Capture, StartFails, Stop, StopPushes, BeginsPush,
           StopCancels, StopJoinsCapture, StopJoinsProcess, StopFrees, Destroy,
           CaptureTests, EventsTimeOut, EnterCallback, CallbackGuard, PushReport,
           NotifyDeviceLost, DeviceLostPushes, CheckRunning, Resubmit, TransferEnds,
           TransferCancelled, RaceEndsProcess

-----------------------------------------------------------------------------
(* The queue holds one report at most *)

InCallback == {"callback", "pushReport", "pushingReport", "lost", "pushSentinel",
               "pushingSentinel", "check", "submit"}

\* A transfer that can still bring a report has brought none, and what is queued has
\* been read or announces the end.
OneReport ==
    /\ opc = "new" => eventsRead = 0
    /\ transfer \in {"inflight"} \cup Completions => eventsRead = 0
    /\ cpc \in InCallback => transfer \in Completions
    /\ eventsRead <= 1
    /\ Len(queue) <= eventsRead + sentinels

LEMMA InitOneReport == Init => OneReport
  BY EmptySeq DEF Init, OneReport, InCallback, Completions, Outcomes

\* The steps that neither queue nor take anything; a sentinel may be given up.
LEMMA QuietOneReport ==
    IInv /\ OneReport /\ StreamStep /\ UNCHANGED <<queue, eventsRead>>
         /\ sentinels' \in {sentinels, sentinels + 1}
        => OneReport'
<1> SUFFICES ASSUME IInv, OneReport, StreamStep, UNCHANGED <<queue, eventsRead>>,
                    sentinels' \in {sentinels, sentinels + 1}
             PROVE  OneReport'
  OBVIOUS
<1> USE DEF OneReport, InCallback, Completions, Outcomes
<1>0. Fresh /\ JoinedEnded
  BY DEF IInv
<1>1. eventsRead' <= 1 /\ Len(queue') <= eventsRead' + sentinels'
  BY TypeParts, LenProperties DEF IInv, QueueTyped, CountersTyped
<1>2. CASE Start \/ StartFails \/ Stop \/ Owner
  <2>1. CASE Start
    BY <1>0, <1>1, <2>1 DEF Start, Fresh
  <2>2. CASE StopFrees
    BY <1>0, <1>1, <2>2 DEF StopFrees, JoinedEnded
  <2>3. CASE StartFails \/ Stop \/ StopPushes \/ StopPublishes \/ StopCancels
             \/ StopJoinsCapture \/ StopJoinsProcess \/ Destroy
    <3>1. UNCHANGED <<transfer, cpc>> /\ opc' # "new"
      BY <2>3 DEF StartFails, Stop, StepAfterExchange, StopPushes, StopPublishes, StopCancels,
                  StopJoinsCapture, StopJoinsProcess, Destroy
    <3> QED
      BY <1>1, <3>1
  <2> QED
    BY <1>2, <2>1, <2>2, <2>3 DEF Owner
<1>3. CASE Capture
  <2>1. opc' = opc
    BY <1>3 DEF Capture, CaptureTests, EventsTimeOut, EnterCallback, CallbackGuard,
                PushReport, PublishReport, NotifyDeviceLost, DeviceLostPushes,
                DeviceLostPublishes, CheckRunning, Resubmit
  <2>2. CASE CaptureTests \/ EventsTimeOut \/ EnterCallback
    BY <1>1, <2>1, <2>2 DEF CaptureTests, EventsTimeOut, EnterCallback, AfterEvents
  <2>3. CASE CallbackGuard
    BY <1>1, <2>1, <2>3 DEF CallbackGuard, AfterEvents, Reaction
  <2>4. CASE PushReport \/ PublishReport \/ DeviceLostPushes \/ DeviceLostPublishes
    BY <1>1, <2>1, <2>4
       DEF PushReport, PublishReport, DeviceLostPushes, DeviceLostPublishes, AfterEvents,
           AfterReport
  <2>5. CASE NotifyDeviceLost \/ CheckRunning
    BY <1>1, <2>1, <2>5 DEF NotifyDeviceLost, CheckRunning, AfterEvents
  <2>6. CASE Resubmit
    BY <1>1, <2>1, <2>6 DEF Resubmit, AfterEvents
  <2> QED
    BY <1>3, <2>2, <2>3, <2>4, <2>5, <2>6 DEF Capture
<1>4. CASE Process
  BY <1>1, <1>4 DEF Process, Pop, Drain, Send
<1>5. CASE TransferEnds \/ TransferCancelled
  BY <1>1, <1>5 DEF TransferEnds, TransferCancelled
<1>6. CASE RaceEndsProcess
  BY <1>1, <1>6 DEF RaceEndsProcess
<1> QED
  BY <1>2, <1>3, <1>4, <1>5, <1>6 DEF StreamStep

LEMMA StepOneReport == IInv /\ OneReport /\ StreamStep => OneReport'
<1> SUFFICES ASSUME IInv, OneReport, StreamStep PROVE OneReport'
  OBVIOUS
<1> USE DEF OneReport, InCallback, Completions, Outcomes
<1>0. /\ QueueTyped /\ CountersTyped /\ queue \in Seq(Events) /\ Len(queue) \in Nat
      /\ SlotTaken /\ opc # "terminated" /\ {"owner", "capture"} \subseteq Producers
  BY TypeParts, LenProperties DEF IInv, QueueTyped, StreamStep, Producers
<1>1. CASE StopPublishes \/ DeviceLostPublishes
  <2>1. sentinels' = sentinels + 1 /\ eventsRead' = eventsRead
    BY <1>1 DEF StopPublishes, DeviceLostPublishes
  <2>2. Len(queue') <= Len(queue) + 1 /\ Len(queue') \in Nat
    BY <1>0, <1>1, Published
       DEF StopPublishes, DeviceLostPublishes, SlotTaken, CapturePushes
  <2>3. Len(queue') <= eventsRead' + sentinels'
    BY <1>0, <2>1, <2>2 DEF CountersTyped
  <2> QED
    BY <1>1, <2>1, <2>3 DEF StopPublishes, DeviceLostPublishes, AfterEvents
<1>2. CASE PublishReport
  <2>1. /\ UNCHANGED <<opc, sentinels>>
        /\ eventsRead = 0 /\ eventsRead' = 1
        /\ transfer' = "idle" /\ cpc' \in {"exited", "test"}
    BY <1>2 DEF PublishReport, AfterReport, AfterEvents
  <2>2. Len(queue') <= Len(queue) + 1 /\ Len(queue') \in Nat
    BY <1>0, <1>2, Published DEF PublishReport, SlotTaken, CapturePushes
  <2>3. opc # "new"
    BY <1>2 DEF PublishReport, IInv, Fresh
  <2>4. Len(queue') <= eventsRead' + sentinels'
    BY <1>0, <2>1, <2>2 DEF CountersTyped
  <2> QED
    BY <2>1, <2>3, <2>4
<1>3. CASE StopPushes \/ PushReport \/ DeviceLostPushes
  <2>1. UNCHANGED <<queue, eventsRead>> /\ sentinels' \in {sentinels, sentinels + 1}
    BY <1>3 DEF StopPushes, PushReport, DeviceLostPushes, BeginsPush
  <2> QED
    BY <2>1, QuietOneReport
<1>4. CASE (Pop \/ Drain) /\ queue # << >>
  <2>1. /\ queue' = Tail(queue)
        /\ UNCHANGED <<opc, cpc, transfer, eventsRead, sentinels>>
    BY <1>4 DEF Pop, Drain
  <2>2. Len(queue') = Len(queue) - 1
    BY <1>0, <1>4, <2>1, HeadTailProperties
  <2> QED
    BY <1>0, <2>1, <2>2 DEF CountersTyped
<1>5. CASE UNCHANGED <<queue, eventsRead, sentinels>>
  BY <1>5, QuietOneReport
<1> QED
  BY <1>1, <1>2, <1>3, <1>4, <1>5
     DEF StreamStep, Owner, Capture, Process, Start, StartFails, Stop, StopCancels,
         StopJoinsCapture, StopJoinsProcess, StopFrees, Destroy, CaptureTests,
         EventsTimeOut, EnterCallback, CallbackGuard, NotifyDeviceLost, CheckRunning,
         Resubmit, Pop, Drain, Send, TransferEnds, TransferCancelled, RaceEndsProcess

LEMMA OneReportFits == ASSUME Capacity >= 2 PROVE IInv /\ OneReport => SentinelFits
<1> SUFFICES ASSUME IInv, OneReport PROVE SentinelFits
  OBVIOUS
<1>1. Len(queue) \in Nat /\ eventsRead \in Nat
  BY TypeParts, LenProperties DEF IInv, QueueTyped, CountersTyped
<1>2. opc = "push" \/ cpc = "pushSentinel" => sentinels = 0
  BY DEF IInv, EndAnnounced, OwnerAnnounces, CaptureAnnounces
<1>3. eventsRead <= 1 /\ Len(queue) <= eventsRead + sentinels
  BY DEF OneReport
<1> QED
  BY <1>1, <1>2, <1>3 DEF SentinelFits, HasRoom

-----------------------------------------------------------------------------
(* The process thread is told *)

SentinelQueuedIn(q) == \E n \in DOMAIN q : q[n] = "sentinel"

\* A silent end leaves running_ clear, so that no stop() after it gets to its joins.
ToldUnlessSilent ==
    /\ opc = "new" => streamGaps = {}
    /\ "silentEnd" \in streamGaps => ~running /\ opc \notin Stopping
    /\ ~running /\ ppc \in {"pop", "send"} =>
          \/ SentinelQueuedIn(queue)
          \/ OwnerAnnounces \/ CaptureAnnounces
          \/ streamGaps \cap {"silentEnd", "collision"} # {}

LEMMA SentinelAtEnd ==
    ASSUME NEW q \in Seq(Events)
    PROVE  SentinelQueuedIn(Append(q, "sentinel"))
<1> DEFINE n == Len(q) + 1
<1>1. n \in DOMAIN Append(q, "sentinel") /\ Append(q, "sentinel")[n] = "sentinel"
  BY AppendProperties, LenProperties DEF Events
<1> QED
  BY <1>1 DEF SentinelQueuedIn

LEMMA SentinelStaysBehind ==
    ASSUME NEW q \in Seq(Events), NEW e \in Events, SentinelQueuedIn(q)
    PROVE  SentinelQueuedIn(Append(q, e))
<1>1. PICK n \in DOMAIN q : q[n] = "sentinel"
  BY DEF SentinelQueuedIn
<1>2. n \in DOMAIN Append(q, e) /\ Append(q, e)[n] = "sentinel"
  BY <1>1, AppendProperties, LenProperties
<1> QED
  BY <1>2 DEF SentinelQueuedIn

\* Taking another event leaves the sentinel in the queue.
LEMMA SentinelMovesUp ==
    ASSUME NEW q \in Seq(Events), q # << >>, SentinelQueuedIn(q), Head(q) # "sentinel"
    PROVE  SentinelQueuedIn(Tail(q))
<1>1. PICK n \in DOMAIN q : q[n] = "sentinel"
  BY DEF SentinelQueuedIn
<1>2. n \in 2 .. Len(q) /\ Len(q) \in Nat
  BY <1>1, HeadTailProperties, LenProperties, EmptySeq
<1>3. n - 1 \in DOMAIN Tail(q) /\ Tail(q)[n - 1] = "sentinel"
  BY <1>1, <1>2, HeadTailProperties, LenProperties
<1> QED
  BY <1>3 DEF SentinelQueuedIn

LEMMA InitTold == Init => ToldUnlessSilent
  BY DEF Init, ToldUnlessSilent

\* Of the steps that leave the queue alone, only those that clear running_, or push
\* without room, matter.
LEMMA QuietTold ==
    IInv /\ SentinelFits /\ ToldUnlessSilent /\ StreamStep /\ UNCHANGED queue
         /\ ~StopPublishes /\ ~DeviceLostPublishes
        => ToldUnlessSilent'
<1> SUFFICES ASSUME IInv, SentinelFits, ToldUnlessSilent, StreamStep, UNCHANGED queue,
                    ~StopPublishes, ~DeviceLostPublishes
             PROVE  ToldUnlessSilent'
  OBVIOUS
<1> DEFINE queued == SentinelQueuedIn(queue)
<1>1. queued' <=> queued
  BY DEF SentinelQueuedIn
<1>2. /\ opc = "new" => streamGaps = {}
      /\ "silentEnd" \in streamGaps => ~running /\ opc \notin Stopping
      /\ ~running /\ ppc \in {"pop", "send"} =>
            queued \/ OwnerAnnounces \/ CaptureAnnounces
                \/ streamGaps \cap {"silentEnd", "collision"} # {}
  BY DEF ToldUnlessSilent
<1>3. /\ running => opc = "started" /\ ~CaptureAnnounces
      /\ running \in BOOLEAN
      /\ opc = "new" => cpc = "none" /\ ppc = "none" /\ transfer = "null"
      /\ streamGaps \subseteq streamGaps'
  BY TypeParts, GapsGrow DEF IInv, EndAnnounced, ControlTyped, Fresh
<1> HIDE DEF queued
<1>4. SUFFICES /\ opc' = "new" => streamGaps' = {}
               /\ "silentEnd" \in streamGaps' => ~running' /\ opc' \notin Stopping
               /\ ~running' /\ ppc' \in {"pop", "send"} =>
                     \/ queued' \/ OwnerAnnounces' \/ CaptureAnnounces'
                     \/ streamGaps' \cap {"silentEnd", "collision"} # {}
  BY DEF ToldUnlessSilent, queued
<1> USE DEF Stopping, OwnerAnnounces, CaptureAnnounces
<1>5. CASE Start \/ StartFails
  BY <1>1, <1>2, <1>3, <1>5 DEF Start, StartFails
<1>6. CASE Stop
  BY <1>1, <1>2, <1>3, <1>6 DEF Stop, StepAfterExchange
<1>7. CASE StopPushes
  BY <1>1, <1>2, <1>3, <1>7 DEF StopPushes, BeginsPush, SentinelFits
<1>8. CASE Owner /\ ~StopPushes
  BY <1>1, <1>2, <1>3, <1>8
     DEF Owner, StopCancels, StopJoinsCapture, StopJoinsProcess, StopFrees, Destroy
<1>9. CASE NotifyDeviceLost
  BY <1>1, <1>2, <1>3, <1>9 DEF NotifyDeviceLost, FirstToStop, AfterEvents
<1>10. CASE Resubmit
  BY <1>1, <1>2, <1>3, <1>10 DEF Resubmit, EndedSilently, SubmittedLate, AfterEvents
<1>11. CASE CaptureTests \/ EventsTimeOut \/ EnterCallback \/ CallbackGuard \/ CheckRunning
  BY <1>1, <1>2, <1>3, <1>11
     DEF CaptureTests, EventsTimeOut, EnterCallback, CallbackGuard, CheckRunning,
         AfterEvents, Reaction
<1>12. CASE PushReport \/ PublishReport \/ DeviceLostPushes
  <2>1. /\ UNCHANGED <<running, opc, ppc>> /\ opc # "new"
        /\ "silentEnd" \in streamGaps' => "silentEnd" \in streamGaps
        /\ CaptureAnnounces => CaptureAnnounces'
    BY <1>3, <1>12
       DEF PushReport, PublishReport, QueuedLate, DeviceLostPushes, BeginsPush, SentinelFits
  <2> QED
    BY <1>1, <1>2, <1>3, <2>1
<1>13. CASE Send
  BY <1>1, <1>2, <1>3, <1>13 DEF Send, EndedSilently
<1>14. CASE Pop \/ Drain
  <2>1. ppc' \notin {"pop", "send"} /\ UNCHANGED <<running, opc, cpc, streamGaps>>
    <3>1. CASE Drain
      BY <3>1 DEF Drain
    <3>2. CASE Pop
      <4>1. queue \in Seq(Events)
        BY TypeParts DEF IInv, QueueTyped
      <4>2. queue # << >> /\ Tail(queue) = queue
        BY <3>2 DEF Pop
      <4> QED
        BY <4>1, <4>2, HeadTailProperties, LenProperties
    <3> QED
      BY <1>14, <3>1, <3>2
  <2> QED
    BY <1>2, <2>1
<1>15. CASE TransferEnds \/ TransferCancelled
  BY <1>1, <1>2, <1>15 DEF TransferEnds, TransferCancelled
<1>16. CASE RaceEndsProcess
  <2>1. "collision" \in streamGaps
    BY <1>16, PushingIs DEF RaceEndsProcess, IInv, SlotTaken, StreamStep, Producers
  <2> QED
    BY <1>2, <1>16, <2>1 DEF RaceEndsProcess
<1> QED
  BY <1>5, <1>6, <1>7, <1>8, <1>9, <1>10, <1>11, <1>12, <1>13, <1>14, <1>15, <1>16
     DEF StreamStep, Capture, Process

LEMMA StepTold ==
    IInv /\ SentinelFits /\ ToldUnlessSilent /\ StreamStep => ToldUnlessSilent'
<1> SUFFICES ASSUME IInv, SentinelFits, ToldUnlessSilent, StreamStep
             PROVE  ToldUnlessSilent'
  OBVIOUS
<1>0. /\ queue \in Seq(Events) /\ {"report", "sentinel"} \subseteq Events
      /\ streamGaps \subseteq streamGaps'
  BY TypeParts, GapsGrow DEF IInv, QueueTyped, Events
<1>1. CASE StopPublishes \/ DeviceLostPublishes
  <2>1. /\ UNCHANGED <<running, streamGaps>>
        /\ opc' = opc \/ (opc = "pushing" /\ opc' = "cancel")
    BY <1>1 DEF StopPublishes, DeviceLostPublishes
  <2>2. SentinelQueuedIn(queue') \/ "collision" \in streamGaps
    BY <1>0, <1>1, AloneInPush, SentinelAtEnd
  <2> QED
    BY <2>1, <2>2 DEF ToldUnlessSilent, Stopping
<1>2. CASE PublishReport
  <2>1. SentinelQueuedIn(queue) => SentinelQueuedIn(queue') \/ "collision" \in streamGaps
    BY <1>0, <1>2, AloneInPush, SentinelStaysBehind
  <2>2. /\ UNCHANGED <<running, opc, ppc>> /\ ~CaptureAnnounces /\ opc # "new"
        /\ "silentEnd" \in streamGaps' => "silentEnd" \in streamGaps
    BY <1>2 DEF PublishReport, QueuedLate, CaptureAnnounces, IInv, Fresh
  <2> QED
    BY <1>0, <2>1, <2>2 DEF ToldUnlessSilent, OwnerAnnounces
<1>3. CASE Pop
  <2>1. /\ queue # << >> /\ queue' = Tail(queue)
        /\ ppc = "pop" /\ ppc' \in {"drain", "send"}
        /\ UNCHANGED <<running, opc, cpc, streamGaps>>
    BY <1>3 DEF Pop
  <2>2. SentinelQueuedIn(queue) /\ ppc' = "send" =>
            SentinelQueuedIn(queue') \/ "collision" \in streamGaps
    <3>1. ASSUME "collision" \notin streamGaps, ppc' = "send"
          PROVE  Head(queue) # "sentinel"
      BY <1>3, <3>1, AloneInPush DEF Pop
    <3> QED
      BY <1>0, <2>1, <3>1, SentinelMovesUp
  <2> QED
    BY <2>1, <2>2 DEF ToldUnlessSilent, OwnerAnnounces, CaptureAnnounces
<1>4. CASE Drain
  <2>1. ppc' \notin {"pop", "send"} /\ UNCHANGED <<running, opc, cpc, streamGaps>>
    BY <1>4 DEF Drain
  <2> QED
    BY <2>1 DEF ToldUnlessSilent
<1>5. CASE UNCHANGED queue /\ ~StopPublishes /\ ~DeviceLostPublishes
  BY <1>5, QuietTold
<1> QED
  BY <1>1, <1>2, <1>3, <1>4, <1>5
     DEF StreamStep, Owner, Capture, Process, Start, StartFails, Stop, StopPushes,
         BeginsPush, StopCancels, StopJoinsCapture, StopJoinsProcess, StopFrees, Destroy,
         CaptureTests, EventsTimeOut, EnterCallback, CallbackGuard, PushReport,
         NotifyDeviceLost, DeviceLostPushes, CheckRunning, Resubmit, Send, TransferEnds,
         TransferCancelled, RaceEndsProcess

-----------------------------------------------------------------------------
(* The end in bounded steps *)

LEMMA StepsCounted ==
    ASSUME IInv
    PROVE  StepsLeft \in Nat /\ Len(queue) \in Nat
<1>1. OwnerSteps \in Nat /\ CaptureSteps \in Nat /\ ProcessSteps \in Nat
  BY DEF OwnerSteps, CaptureSteps, ProcessSteps
<1>2. Len(queue) \in Nat
  BY TypeParts, LenProperties DEF IInv, QueueTyped
<1> QED
  BY <1>1, <1>2 DEF StepsLeft

LEMMA ClearStays ==
    ASSUME StreamStep, ~running, opc # "new"
    PROVE  ~running'
  BY DEF StreamStep, Owner, Capture, Process, Start, StartFails, Stop, StopPushes,
         StopPublishes, StopCancels, StopJoinsCapture, StopJoinsProcess, StopFrees, Destroy,
         CaptureTests, EventsTimeOut, EnterCallback, CallbackGuard, PushReport,
         PublishReport, NotifyDeviceLost, DeviceLostPushes, DeviceLostPublishes,
         CheckRunning, Resubmit, Pop, Drain, Send, TransferEnds, TransferCancelled,
         RaceEndsProcess

\* An event that is taken changes the length by one.
LEMMA TakenLength ==
    ASSUME NEW q \in Seq(Events), q # << >>
    PROVE  Len(Tail(q)) = Len(q) - 1
  BY HeadTailProperties

LEMMA FewerOwnerSteps ==
    ASSUME NEW before \in Nat, NEW after \in Nat, NEW r \in Int, after < before
    PROVE  4 * after + r < 4 * before + r
  OBVIOUS

LEMMA SettleStep ==
    ASSUME IInv, StreamStep, ~running, opc # "new"
    PROVE  StepsLeft' < StepsLeft
<1> DEFINE len == Len(queue)
           inflight == IF transfer = "inflight" THEN 1 ELSE 0
           asked == IF cancelling THEN 1 ELSE 0
<1>1. StepsLeft = 4 * OwnerSteps + 4 * CaptureSteps + 3 * len + ProcessSteps + inflight + asked
  BY DEF StepsLeft
<1>2. StepsLeft' = 4 * OwnerSteps' + 4 * CaptureSteps' + 3 * len' + ProcessSteps'
                   + inflight' + asked'
  BY DEF StepsLeft
<1>3. /\ OwnerSteps \in Nat /\ CaptureSteps \in Nat /\ ProcessSteps \in Nat
      /\ OwnerSteps' \in Nat /\ CaptureSteps' \in Nat /\ ProcessSteps' \in Nat
      /\ inflight \in Nat /\ inflight <= 1 /\ inflight' \in Nat /\ inflight' <= 1
      /\ asked \in Nat /\ asked <= 1 /\ asked' \in Nat /\ asked' <= 1
  BY DEF OwnerSteps, CaptureSteps, ProcessSteps
<1>4. queue \in Seq(Events) /\ {"report", "sentinel"} \subseteq Events
  BY TypeParts DEF IInv, QueueTyped, Events
<1>5. len \in Nat
  BY StepsCounted
<1>0. /\ QueueTyped /\ SlotTaken /\ opc # "terminated" /\ overtaken \subseteq Pushing
      /\ {"owner", "capture"} \subseteq Producers
  BY TypeParts DEF IInv, ControlTyped, StreamStep, Producers
<1> HIDE DEF len, inflight, asked
<1>6. CASE Stop \/ Owner
  <2>1. UNCHANGED <<cpc, draining, ppc>>
    BY <1>6 DEF Stop, Owner, StopPushes, StopPublishes, StopCancels, StopJoinsCapture, StopJoinsProcess,
                StopFrees, Destroy
  <2>2. CaptureSteps' = CaptureSteps /\ ProcessSteps' = ProcessSteps
    BY <2>1 DEF CaptureSteps, ProcessSteps
  <2>3. OwnerSteps' < OwnerSteps
    BY <1>6 DEF Stop, StepAfterExchange, Owner, StopPushes, StopPublishes, StopCancels, StopJoinsCapture,
                StopJoinsProcess, StopFrees, Destroy, OwnerSteps
  <2>4. inflight' <= inflight
    BY <1>6 DEF Stop, Owner, StopPushes, StopPublishes, StopCancels, StopJoinsCapture, StopJoinsProcess,
                StopFrees, Destroy, inflight
  <2>5. len' = len \/ (len' = len + 1 /\ asked' = asked)
    <3>1. CASE StopPublishes
      BY <1>0, <3>1, Published DEF StopPublishes, SlotTaken, len, asked
    <3>2. CASE ~StopPublishes
      BY <1>6, <3>2 DEF Stop, Owner, StopPushes, BeginsPush, StopCancels, StopJoinsCapture,
                        StopJoinsProcess, StopFrees, Destroy, len
    <3> QED
      BY <3>1, <3>2
  <2> QED
    BY <1>1, <1>2, <1>3, <1>5, <2>2, <2>3, <2>4, <2>5
<1>7. CASE Capture
  <2>1. UNCHANGED <<opc, ppc, cancelling>>
    BY <1>7 DEF Capture, CaptureTests, EventsTimeOut, EnterCallback, CallbackGuard,
                PushReport, PublishReport, NotifyDeviceLost, DeviceLostPushes,
                DeviceLostPublishes, CheckRunning, Resubmit
  <2>2. OwnerSteps' = OwnerSteps /\ ProcessSteps' = ProcessSteps /\ asked' = asked
    BY <2>1 DEF OwnerSteps, ProcessSteps, asked
  <2>3. CaptureSteps' < CaptureSteps
    <3> USE DEF CaptureSteps, AfterEvents
    <3>1. CASE CaptureTests
      <4>1. draining' = TRUE
        BY <3>1, Zenon DEF CaptureTests, LoopEnds
      <4> QED
        BY <3>1, <4>1 DEF CaptureTests
    <3>2. CASE EventsTimeOut
      BY <3>2 DEF EventsTimeOut
    <3>3. CASE EnterCallback
      BY <3>3 DEF EnterCallback
    <3>4. CASE CallbackGuard
      BY <3>4 DEF CallbackGuard
    <3>5. CASE PushReport
      BY <3>5 DEF PushReport
    <3>6. CASE NotifyDeviceLost
      BY <3>6 DEF NotifyDeviceLost, FirstToStop
    <3>7. CASE DeviceLostPushes
      BY <3>7 DEF DeviceLostPushes
    <3>8. CASE CheckRunning
      BY <3>8 DEF CheckRunning
    <3>9. CASE Resubmit
      BY <3>9 DEF Resubmit
    <3>10. CASE PublishReport
      BY <3>10 DEF PublishReport
    <3>11. CASE DeviceLostPublishes
      BY <3>11 DEF DeviceLostPublishes
    <3> QED
      BY <1>7, <3>1, <3>2, <3>3, <3>4, <3>5, <3>6, <3>7, <3>8, <3>9, <3>10, <3>11
         DEF Capture
  <2>4. len' = len \/ (len' = len + 1 /\ inflight' = 0)
    <3>1. CASE PublishReport \/ DeviceLostPublishes
      BY <1>0, <3>1, Published
         DEF PublishReport, DeviceLostPublishes, SlotTaken, CapturePushes, AfterReport,
             len, inflight
    <3>2. CASE ~PublishReport /\ ~DeviceLostPublishes
      BY <1>7, <3>2
         DEF Capture, CaptureTests, EventsTimeOut, EnterCallback, CallbackGuard, PushReport,
             BeginsPush, NotifyDeviceLost, DeviceLostPushes, CheckRunning, Resubmit, len
    <3> QED
      BY <3>1, <3>2
  <2> QED
    BY <1>1, <1>2, <1>3, <1>5, <2>2, <2>3, <2>4
<1>8. CASE Process
  <2>1. UNCHANGED <<opc, cpc, draining, transfer, cancelling>>
    BY <1>8 DEF Process, Pop, Drain, Send
  <2>2. /\ OwnerSteps' = OwnerSteps /\ CaptureSteps' = CaptureSteps
        /\ inflight' = inflight /\ asked' = asked
    BY <2>1 DEF OwnerSteps, CaptureSteps, inflight, asked
  <2>3. \/ len' = len /\ ProcessSteps' < ProcessSteps
        \/ len' = len - 1 /\ ProcessSteps' <= ProcessSteps + 1
    BY <1>4, <1>8, TakenLength DEF Process, Pop, Drain, Send, ProcessSteps, len
  <2> QED
    BY <1>1, <1>2, <1>3, <1>5, <2>2, <2>3
<1>9. CASE TransferEnds \/ TransferCancelled
  <2>1. UNCHANGED <<opc, cpc, draining, ppc, queue>>
    BY <1>9 DEF TransferEnds, TransferCancelled
  <2>2. /\ OwnerSteps' = OwnerSteps /\ CaptureSteps' = CaptureSteps
        /\ ProcessSteps' = ProcessSteps /\ len' = len
    BY <2>1 DEF OwnerSteps, CaptureSteps, ProcessSteps, len
  <2>3. inflight = 1 /\ inflight' = 0
    BY <1>9 DEF TransferEnds, TransferCancelled, Outcomes, inflight
  <2>4. asked' = 0
    BY <1>9 DEF TransferEnds, TransferCancelled, asked
  <2> QED
    BY <1>1, <1>2, <1>3, <1>5, <2>2, <2>3, <2>4
<1>10. CASE RaceEndsProcess
  <2>1. opc \in {"pushing", "cancel", "joinCapture"} /\ opc' = "terminated"
    BY <1>0, <1>10, PushingIs DEF RaceEndsProcess, SlotTaken
  <2>2. OwnerSteps' < OwnerSteps
    BY <2>1 DEF OwnerSteps
  <2>3. UNCHANGED <<cpc, draining, ppc, queue, transfer, cancelling>>
    BY <1>10 DEF RaceEndsProcess
  <2>4. CaptureSteps' = CaptureSteps /\ ProcessSteps' = ProcessSteps
    BY <2>3 DEF CaptureSteps, ProcessSteps
  <2>5. len' = len /\ inflight' = inflight /\ asked' = asked
    BY <2>3 DEF len, inflight, asked
  <2> QED
    <3> DEFINE rest == 4 * CaptureSteps + 3 * len + ProcessSteps + inflight + asked
    <3>1. rest' = rest
      BY <2>4, <2>5
    <3>2. rest \in Int /\ StepsLeft = 4 * OwnerSteps + rest
      BY <1>1, <1>3, <1>5
    <3>3. StepsLeft' = 4 * OwnerSteps' + rest'
      BY <1>2, <1>3, <1>5, <2>4, <2>5
    <3>4. OwnerSteps \in Nat /\ OwnerSteps' \in Nat
      BY <1>3
    <3> HIDE DEF rest
    <3>5. 4 * OwnerSteps' + rest < 4 * OwnerSteps + rest
      BY <2>2, <3>2, <3>4, FewerOwnerSteps
    <3> QED
      BY <3>1, <3>2, <3>3, <3>5
<1> QED
  BY <1>6, <1>7, <1>8, <1>9, <1>10 DEF StreamStep, Start, StartFails

-----------------------------------------------------------------------------
(* The theorems *)

LEMMA NextIsStep == [Next]_vars => StreamStep \/ UNCHANGED vars
  BY DEF Next, StreamStep, Gone, PollsOn

LEMMA StutterIInv == IInv /\ UNCHANGED vars => IInv'
<1> SUFFICES ASSUME IInv, UNCHANGED vars PROVE IInv'
  OBVIOUS
<1> QED
  BY DEF vars, IInv, TypeOK, Fresh, EndAnnounced, OwnerAnnounces, CaptureAnnounces,
         LoopLeft, JoinedEnded, SlotTaken, CapturePushes, HasRoom, Pushing, OneSentinel

LEMMA Invariance == Spec => []IInv
<1>1. IInv /\ [Next]_vars => IInv'
  BY NextIsStep, StepIInv, StutterIInv
<1> QED
  BY <1>1, InitIInv, PTL DEF Spec

\* Whatever the owner, the device and the client do, the variables keep their types and
\* the event loop is left only with running_ clear.
THEOREM StreamTypeCorrect == Spec => []TypeOK
  BY Invariance, PTL DEF IInv

\* The process thread is told to end once at most, for every capacity of the queue.
THEOREM SentinelOnce == Spec => []OneSentinel
  BY Invariance, PTL DEF IInv, EndAnnounced

\* No report is lost or counted twice between the callback and the client, nor left in
\* the queue by the process thread, but for a collision and for reports queued late.
THEOREM AccountsCorrect == Spec => []ReportsAccounted
<1>1. IInv /\ OnlyReports /\ [Next]_vars => OnlyReports'
  <2>1. OnlyReports /\ UNCHANGED vars => OnlyReports'
    BY DEF vars, OnlyReports
  <2> QED
    BY <2>1, NextIsStep, StepOnlyReports
<1>2. IInv /\ OnlyReports /\ ReportsAccounted /\ [Next]_vars => ReportsAccounted'
  <2>1. ReportsAccounted /\ UNCHANGED vars => ReportsAccounted'
    BY DEF vars, ReportsAccounted
  <2> QED
    BY <2>1, NextIsStep, StepAccounts
<1> QED
  BY <1>1, <1>2, InitOnlyReports, InitAccounts, Invariance, PTL DEF Spec

\* The sentinel is queued, not dropped, in a queue with room for two.
THEOREM SentinelRoom == ASSUME Capacity >= 2 PROVE Spec => []SentinelFits
<1>1. IInv /\ OneReport /\ [Next]_vars => OneReport'
  <2>1. OneReport /\ UNCHANGED vars => OneReport'
    BY DEF vars, OneReport
  <2> QED
    BY <2>1, NextIsStep, StepOneReport
<1> QED
  BY <1>1, OneReportFits, InitOneReport, Invariance, PTL DEF Spec

\* If the last wait of the capture thread outlasts a cancellation, stop() frees the
\* transfer in flight only when it was submitted after running_ had been cleared.
THEOREM FreesAwaited ==
    ASSUME PatientWait PROVE Spec => []FreedInFlightOnlyAfterLateSubmit
<1>1. IInv /\ TransferAwaited /\ [Next]_vars => TransferAwaited'
  <2>1. TransferAwaited /\ UNCHANGED vars => TransferAwaited'
    BY DEF vars, TransferAwaited
  <2> QED
    BY <2>1, NextIsStep, StepAwaited
<1>2. TransferAwaited => FreedInFlightOnlyAfterLateSubmit
  BY DEF TransferAwaited, FreedInFlightOnlyAfterLateSubmit
<1> QED
  BY <1>1, <1>2, InitAwaited, Invariance, PTL DEF Spec

\* In a queue with room for two, the process thread never sleeps on in vain: after
\* running_ is cleared the sentinel is queued or about to be, unless the end was silent
\* or the sentinel and a report were pushed at once.
THEOREM ThreadTold == ASSUME Capacity >= 2 PROVE Spec => []ToldToEnd
<1>1. ToldUnlessSilent => ToldToEnd
  BY DEF ToldUnlessSilent, ToldToEnd, SentinelQueuedIn, OwnerAnnounces, CaptureAnnounces
<1>2. IInv /\ SentinelFits /\ ToldUnlessSilent /\ [Next]_vars => ToldUnlessSilent'
  <2>1. ToldUnlessSilent /\ UNCHANGED vars => ToldUnlessSilent'
    BY DEF vars, ToldUnlessSilent, OwnerAnnounces, CaptureAnnounces
  <2> QED
    BY <2>1, NextIsStep, StepTold
<1> QED
  BY <1>1, <1>2, InitTold, SentinelRoom, Invariance, PTL DEF Spec

\* For every capacity of the queue, once running_ is clear every step of the stream
\* leaves it clear and brings the end nearer: the variant of the liveness properties.
THEOREM EndBounded == Spec => EndsInBoundedSteps
<1>1. IInv /\ [Next]_vars => [~running /\ opc # "new" => ~running' /\ StepsLeft' < StepsLeft]_vars
  BY NextIsStep, ClearStays, SettleStep
<1> QED
  BY <1>1, Invariance, PTL DEF Spec, EndsInBoundedSteps
=============================================================================
