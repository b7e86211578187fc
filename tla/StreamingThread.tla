-------------------------- MODULE StreamingThread --------------------------
(***************************************************************************)
(* NoteUSB::HIDStreamingThread: the session's thread (the owner) starts    *)
(* and stops it; the capture thread runs libusb's event loop and, inside   *)
(* it, the transfer callback; the process thread sends reports to the      *)
(* client.  They share running_, the queue and the one libusb transfer.    *)
(*                                                                         *)
(* One action per access to shared state.  SPSCQueue shows that a pop, and *)
(* the push of one producer, may be taken as one step; but stop() and the  *)
(* callback may both be inside try_push.  So a push has two steps, between *)
(* which another may take the same slot.                                   *)
(***************************************************************************)
EXTENDS Naturals, Sequences, FiniteSets

CONSTANTS Capacity,     \* of spsc_queue_
          PatientWait   \* does the capture thread's last wait outlast a cancellation?

ASSUME StreamingAssumption ==
    /\ Capacity \in Nat \ {0}
    /\ PatientWait \in BOOLEAN

VARIABLES
    running,                       \* running_
    transfer,                      \* xfer_: see Transfer
    cancelling,                    \* libusb has been asked to cancel the transfer
    queue,                         \* spsc_queue_
    overtaken,                     \* pushes under way into a slot published since
    opc,                           \* the owner, in start, stop or the destructor
    cpc,                           \* the capture thread
    draining,                      \* it has left its while loop
    ppc,                           \* the process thread
    joined,                        \* the threads that have been joined
    eventsRead, eventsSent, eventsDropped,
    sentinels,                     \* sentinels pushed so far
    streamGaps                     \* history: known gaps that have occurred, see Gaps

vars == <<running, transfer, cancelling, queue, overtaken, opc, cpc, draining, ppc,
          joined, eventsRead, eventsSent, eventsDropped, sentinels, streamGaps>>

Threads == {"capture", "process"}

\* How libusb reports the end of a transfer, as far as the callback tells: a report, the
\* device gone, anything else (no data, error, stall, timeout, overflow), or cancelled.
Outcomes == {"data", "nodevice", "other"}
Completions == Outcomes \cup {"cancelled"}

\* No transfer, one in flight, one that has ended but whose callback has not
\* returned, one whose callback has returned, one whose handle was closed while it was
\* in flight, so that it never ends, or one freed while in flight.
Transfer == {"null", "inflight", "idle", "orphaned", "freedInFlight"} \cup Completions

\* running_ was cleared by a failure that tells nobody; a transfer was submitted, or a
\* report queued, after running_ had been cleared; two threads were inside try_push.
Gaps == {"silentEnd", "lateSubmit", "lateReport", "collision"}

Events == {"report", "sentinel"}

\* Mutant: a default event, whose is_sentinel is false.
PlainEvent == "report"

Sentinel == "sentinel"

OwnerPC == {"new", "started", "push", "pushing", "cancel", "joinCapture", "joinProcess", "free",
            "stopped", "destroyed", "terminated"}
CapturePC == {"none", "test", "wait", "callback", "pushReport", "pushingReport", "lost",
              "pushSentinel", "pushingSentinel", "check", "submit", "exited"}
ProcessPC == {"none", "pop", "send", "drain", "sendDrained", "exited"}

Init ==
    /\ running = FALSE
    /\ transfer = "null"
    /\ cancelling = FALSE
    /\ queue = << >> /\ overtaken = {}
    /\ opc = "new" /\ cpc = "none" /\ ppc = "none"
    /\ draining = FALSE
    /\ joined = {}
    /\ eventsRead = 0 /\ eventsSent = 0 /\ eventsDropped = 0
    /\ sentinels = 0
    /\ streamGaps = {}

-----------------------------------------------------------------------------
(* try_push, from its loads to its store of writeIndex_ *)

Producers == {"owner", "capture"}

Pushing == {p \in Producers : IF p = "owner" THEN opc = "pushing"
                              ELSE cpc \in {"pushingReport", "pushingSentinel"}}

EventOf(p) == IF p = "capture" /\ cpc = "pushingReport" THEN "report" ELSE Sentinel

HasRoom == Len(queue) < Capacity

\* With room, the producer has the next slot, which another may have, too.
BeginsPush ==
    /\ streamGaps' = IF HasRoom /\ Pushing # {} THEN streamGaps \cup {"collision"}
                     ELSE streamGaps
    /\ UNCHANGED <<queue, overtaken>>

\* What a push leaves that stores the index another has stored before: the slot holds
\* what either has written last, unless it has been read by then.
Overwritten(p) ==
    IF queue = << >> THEN {queue} ELSE {queue, [queue EXCEPT ![Len(queue)] = EventOf(p)]}

Publish(p) ==
    IF p \in overtaken
    THEN /\ queue' \in Overwritten(p)
         /\ overtaken' = overtaken \ {p}
    ELSE /\ queue' = Append(queue, EventOf(p))
         /\ overtaken' = Pushing \ {p}

\* What the next slot may be read to hold: a producer may be writing it still.
Readable ==
    {Head(queue)} \cup {EventOf(p) : p \in IF Len(queue) = 1 THEN overtaken ELSE {}}

-----------------------------------------------------------------------------
(* The owner *)

\* start(): the transfer or its buffer cannot be had, or not be submitted.
StartFails ==
    /\ opc = "new"
    /\ opc' = "started"
    /\ UNCHANGED <<running, transfer, cancelling, queue, overtaken, cpc, draining, ppc, joined,
                   eventsRead, eventsSent, eventsDropped, sentinels, streamGaps>>

Start ==
    /\ opc = "new"
    /\ opc' = "started"
    /\ running' = TRUE
    /\ transfer' = "inflight"
    /\ cpc' = "test"
    /\ ppc' = "pop"
    /\ UNCHANGED <<cancelling, queue, overtaken, draining, joined,
                   eventsRead, eventsSent, eventsDropped, sentinels, streamGaps>>

\* stop() returns at once when somebody else has cleared running_.
StepAfterExchange == IF running THEN "push" ELSE "stopped"

Stop ==
    /\ opc = "started"
    /\ running' = FALSE
    /\ opc' = StepAfterExchange
    /\ UNCHANGED <<transfer, cancelling, queue, overtaken, cpc, draining, ppc, joined,
                   eventsRead, eventsSent, eventsDropped, sentinels, streamGaps>>

\* The result of try_push is ignored.
StopPushes ==
    /\ opc = "push"
    /\ BeginsPush
    /\ opc' = IF HasRoom THEN "pushing" ELSE "cancel"
    /\ sentinels' = IF HasRoom THEN sentinels ELSE sentinels + 1
    /\ UNCHANGED <<running, transfer, cancelling, cpc, draining, ppc, joined,
                   eventsRead, eventsSent, eventsDropped>>

StopPublishes ==
    /\ opc = "pushing"
    /\ Publish("owner")
    /\ opc' = "cancel"
    /\ sentinels' = sentinels + 1
    /\ UNCHANGED <<running, transfer, cancelling, cpc, draining, ppc, joined,
                   eventsRead, eventsSent, eventsDropped, streamGaps>>

\* Mutant: the transfer is not cancelled.
CancelsNothing == FALSE

\* Only a transfer in flight can be cancelled.
Cancels == transfer = "inflight"

StopCancels ==
    /\ opc = "cancel"
    /\ cancelling' = Cancels
    /\ opc' = "joinCapture"
    /\ UNCHANGED <<running, transfer, queue, overtaken, cpc, draining, ppc, joined,
                   eventsRead, eventsSent, eventsDropped, sentinels, streamGaps>>

StopJoinsCapture ==
    /\ opc = "joinCapture"
    /\ cpc = "exited"
    /\ joined' = joined \cup {"capture"}
    /\ opc' = "joinProcess"
    /\ UNCHANGED <<running, transfer, cancelling, queue, overtaken, cpc, draining, ppc,
                   eventsRead, eventsSent, eventsDropped, sentinels, streamGaps>>

StopJoinsProcess ==
    /\ opc = "joinProcess"
    /\ ppc = "exited"
    /\ joined' = joined \cup {"process"}
    /\ opc' = "free"
    /\ UNCHANGED <<running, transfer, cancelling, queue, overtaken, cpc, draining, ppc,
                   eventsRead, eventsSent, eventsDropped, sentinels, streamGaps>>

StopFrees ==
    /\ opc = "free"
    /\ transfer' = IF transfer \in {"idle", "orphaned"} THEN "null" ELSE "freedInFlight"
    /\ opc' = "stopped"
    /\ UNCHANGED <<running, cancelling, queue, overtaken, cpc, draining, ppc, joined,
                   eventsRead, eventsSent, eventsDropped, sentinels, streamGaps>>

\* The destructor calls stop() again, which returns at once: running_ is clear by
\* now.  Destroying a std::thread that has not been joined ends the process.
Destroy ==
    /\ opc = "stopped"
    /\ opc' = IF (cpc = "none" \/ "capture" \in joined) /\ (ppc = "none" \/ "process" \in joined)
              THEN "destroyed" ELSE "terminated"
    /\ UNCHANGED <<running, transfer, cancelling, queue, overtaken, cpc, draining, ppc, joined,
                   eventsRead, eventsSent, eventsDropped, sentinels, streamGaps>>

Owner ==
    \/ StopPushes \/ StopPublishes \/ StopCancels \/ StopJoinsCapture
    \/ StopJoinsProcess \/ StopFrees \/ Destroy

-----------------------------------------------------------------------------
(* The capture thread: the event loop *)

\* Mutant: the loop is gone, events are handled once before the last wait.
LoopEndsAtOnce == TRUE

\* Mutant: the loop runs on until the owner asks for a stop.
LoopEndsOnRequest == opc \notin {"new", "started"}

LoopEnds == ~running

CaptureTests ==
    /\ cpc = "test"
    /\ draining' = LoopEnds
    /\ cpc' = "wait"
    /\ UNCHANGED <<running, transfer, cancelling, queue, overtaken, opc, ppc, joined,
                   eventsRead, eventsSent, eventsDropped, sentinels, streamGaps>>

\* Where libusb_handle_events_timeout_completed returns to.
AfterEvents == IF draining THEN "exited" ELSE "test"

\* Nothing happened before the timeout.  A patient last wait does not give up while
\* stop() is on its way to a cancellation or the cancellation is under way.
EventsTimeOut ==
    /\ cpc = "wait"
    /\ transfer \notin Completions
    /\ draining /\ PatientWait =>
          /\ opc \notin {"push", "pushing", "cancel"}
          /\ ~(transfer = "inflight" /\ cancelling)
    /\ cpc' = AfterEvents
    /\ UNCHANGED <<running, transfer, cancelling, queue, overtaken, opc, draining, ppc, joined,
                   eventsRead, eventsSent, eventsDropped, sentinels, streamGaps>>

-----------------------------------------------------------------------------
(* The callback, on the capture thread, and what it calls *)

EnterCallback ==
    /\ cpc = "wait"
    /\ transfer \in Completions
    /\ cpc' = "callback"
    /\ UNCHANGED <<running, transfer, cancelling, queue, overtaken, opc, draining, ppc, joined,
                   eventsRead, eventsSent, eventsDropped, sentinels, streamGaps>>

\* A report is queued and the transfer left idle, the loss of the device is
\* announced, and only what remains may lead to the transfer being resubmitted.
Reaction ==
    CASE transfer = "data"     -> "pushReport"
      [] transfer = "nodevice" -> "lost"
      [] OTHER                 -> "check"

CallbackGuard ==
    /\ cpc = "callback"
    /\ cpc' = IF running THEN Reaction ELSE AfterEvents
    /\ transfer' = IF running THEN transfer ELSE "idle"
    /\ UNCHANGED <<running, cancelling, queue, overtaken, opc, draining, ppc, joined,
                   eventsRead, eventsSent, eventsDropped, sentinels, streamGaps>>

\* Mutant: the transfer is submitted again, as the design has it.
Resubmitted == "inflight"

\* The callback returns without resubmitting a transfer that has brought a report.
AfterReport == "idle"

\* A report that finds no room is dropped.
PushReport ==
    /\ cpc = "pushReport"
    /\ BeginsPush
    /\ cpc' = IF HasRoom THEN "pushingReport" ELSE AfterEvents
    /\ transfer' = IF HasRoom THEN transfer ELSE AfterReport
    /\ eventsDropped' = IF HasRoom THEN eventsDropped ELSE eventsDropped + 1
    /\ UNCHANGED <<running, cancelling, opc, draining, ppc, joined, eventsRead,
                   eventsSent, sentinels>>

QueuedLate == IF running THEN {} ELSE {"lateReport"}

PublishReport ==
    /\ cpc = "pushingReport"
    /\ Publish("capture")
    /\ eventsRead' = eventsRead + 1
    /\ streamGaps' = streamGaps \cup QueuedLate
    /\ transfer' = AfterReport
    /\ cpc' = AfterEvents
    /\ UNCHANGED <<running, cancelling, opc, draining, ppc, joined, eventsSent,
                   eventsDropped, sentinels>>

\* Mutant: the exchange is a plain store.
FirstToStopAlways == TRUE

\* running_.exchange(false) tells whether this call is the one that cleared it.
FirstToStop == running

NotifyDeviceLost ==
    /\ cpc = "lost"
    /\ running' = FALSE
    /\ cpc' = IF FirstToStop THEN "pushSentinel" ELSE AfterEvents
    /\ transfer' = IF FirstToStop THEN transfer ELSE "idle"
    /\ UNCHANGED <<cancelling, queue, overtaken, opc, draining, ppc, joined,
                   eventsRead, eventsSent, eventsDropped, sentinels, streamGaps>>

DeviceLostPushes ==
    /\ cpc = "pushSentinel"
    /\ BeginsPush
    /\ cpc' = IF HasRoom THEN "pushingSentinel" ELSE AfterEvents
    /\ transfer' = IF HasRoom THEN transfer ELSE "idle"
    /\ sentinels' = IF HasRoom THEN sentinels ELSE sentinels + 1
    /\ UNCHANGED <<running, cancelling, opc, draining, ppc, joined,
                   eventsRead, eventsSent, eventsDropped>>

DeviceLostPublishes ==
    /\ cpc = "pushingSentinel"
    /\ Publish("capture")
    /\ sentinels' = sentinels + 1
    /\ transfer' = "idle"
    /\ cpc' = AfterEvents
    /\ UNCHANGED <<running, cancelling, opc, draining, ppc, joined,
                   eventsRead, eventsSent, eventsDropped, streamGaps>>

CheckRunning ==
    /\ cpc = "check"
    /\ cpc' = IF running THEN "submit" ELSE AfterEvents
    /\ transfer' = IF running THEN transfer ELSE "idle"
    /\ UNCHANGED <<running, cancelling, queue, overtaken, opc, draining, ppc, joined,
                   eventsRead, eventsSent, eventsDropped, sentinels, streamGaps>>

\* What clearing running_ without a word to the process thread, or submitting, adds to
\* the history.
EndedSilently == IF running THEN {"silentEnd"} ELSE {}
SubmittedLate == IF running THEN {} ELSE {"lateSubmit"}

Resubmit ==
    /\ cpc = "submit"
    /\ \/ /\ transfer' = "inflight"
          /\ streamGaps' = streamGaps \cup SubmittedLate
          /\ UNCHANGED running
       \/ /\ transfer' = "idle"
          /\ running' = FALSE
          /\ streamGaps' = streamGaps \cup EndedSilently
    /\ cpc' = AfterEvents
    /\ UNCHANGED <<cancelling, queue, overtaken, opc, draining, ppc, joined,
                   eventsRead, eventsSent, eventsDropped, sentinels>>

Capture ==
    \/ CaptureTests \/ EventsTimeOut \/ EnterCallback \/ CallbackGuard
    \/ PushReport \/ PublishReport
    \/ NotifyDeviceLost \/ DeviceLostPushes \/ DeviceLostPublishes
    \/ CheckRunning \/ Resubmit

-----------------------------------------------------------------------------
(* The process thread.  While the queue is empty it sleeps and tries again. *)

Pop ==
    /\ ppc = "pop"
    /\ queue # << >>
    /\ queue' = Tail(queue)
    /\ \E event \in Readable : ppc' = IF event = "sentinel" THEN "drain" ELSE "send"
    /\ UNCHANGED <<running, transfer, cancelling, overtaken, opc, cpc, draining, joined,
                   eventsRead, eventsSent, eventsDropped, sentinels, streamGaps>>

Drain ==
    /\ ppc = "drain"
    /\ \/ /\ queue = << >>
          /\ ppc' = "exited"
          /\ UNCHANGED queue
       \/ /\ queue # << >>
          /\ queue' = Tail(queue)
          /\ \E event \in Readable :
                ppc' = IF event = "sentinel" THEN "drain" ELSE "sendDrained"
    /\ UNCHANGED <<running, transfer, cancelling, overtaken, opc, cpc, draining, joined,
                   eventsRead, eventsSent, eventsDropped, sentinels, streamGaps>>

\* Mutant: what is sent from the drain loop is not counted.
CountedInLoop == IF ppc = "send" THEN 1 ELSE 0

Counted == 1

\* process_hid_report: a write that fails for good clears running_ and pushes no
\* sentinel; the report counts as sent whatever became of it.  The write blocks while
\* the client does not read.
Send ==
    /\ ppc \in {"send", "sendDrained"}
    /\ \/ UNCHANGED <<running, streamGaps>>
       \/ /\ running' = FALSE
          /\ streamGaps' = streamGaps \cup EndedSilently
    /\ eventsSent' = eventsSent + Counted
    /\ ppc' = IF ppc = "send" THEN "pop" ELSE "drain"
    /\ UNCHANGED <<transfer, cancelling, queue, overtaken, opc, cpc, draining, joined,
                   eventsRead, eventsDropped, sentinels>>

Process == Pop \/ Drain \/ Send

-----------------------------------------------------------------------------
(* libusb and the device *)

TransferEnds ==
    /\ transfer = "inflight"
    /\ transfer' \in Outcomes
    /\ cancelling' = FALSE
    /\ UNCHANGED <<running, queue, overtaken, opc, cpc, draining, ppc, joined,
                   eventsRead, eventsSent, eventsDropped, sentinels, streamGaps>>

TransferCancelled ==
    /\ transfer = "inflight" /\ cancelling
    /\ transfer' = "cancelled"
    /\ cancelling' = FALSE
    /\ UNCHANGED <<running, queue, overtaken, opc, cpc, draining, ppc, joined,
                   eventsRead, eventsSent, eventsDropped, sentinels, streamGaps>>

\* Two threads write a slot at once, or one writes it while another reads it: the heap
\* behind the slot's vector may not survive that.
RaceEndsProcess ==
    /\ Pushing = Producers \/ overtaken # {}
    /\ opc' = "terminated"
    /\ overtaken' = {}
    /\ UNCHANGED <<running, transfer, cancelling, queue, cpc, draining, ppc, joined,
                   eventsRead, eventsSent, eventsDropped, sentinels, streamGaps>>

-----------------------------------------------------------------------------
Gone == opc \in {"destroyed", "terminated"} /\ UNCHANGED vars

\* The sentinel was lost to a report: the process thread polls an empty queue for ever.
Stranded == "collision" \in streamGaps /\ ppc = "pop" /\ queue = << >>

PollsOn == Stranded /\ UNCHANGED vars

Next ==
    \/ opc \notin {"destroyed", "terminated"} /\
          (Start \/ StartFails \/ Stop \/ Owner \/ Capture \/ Process
             \/ TransferEnds \/ TransferCancelled \/ RaceEndsProcess)
    \/ Gone
    \/ PollsOn

\* Threads that can run do run, the owner finishes what it has begun, and a
\* cancellation takes effect.  Nobody has to call start or stop, the device has to say
\* nothing, and a write need not end: the client has to read for that.
Fairness ==
    /\ WF_vars(Owner)
    /\ WF_vars(opc \notin {"destroyed", "terminated"} /\ Capture)
    /\ WF_vars(opc \notin {"destroyed", "terminated"} /\ (Pop \/ Drain))
    /\ WF_vars(opc \notin {"destroyed", "terminated"} /\ TransferCancelled)

Spec == Init /\ [][Next]_vars /\ Fairness

-----------------------------------------------------------------------------
(* Properties *)

\* Every variable has its type, and the event loop is left only by running_ clear.
TypeOK ==
    /\ running \in BOOLEAN
    /\ transfer \in Transfer
    /\ cancelling \in BOOLEAN
    /\ queue \in Seq(Events) /\ Len(queue) <= Capacity
    /\ overtaken \subseteq Pushing
    /\ opc \in OwnerPC /\ cpc \in CapturePC /\ ppc \in ProcessPC
    /\ draining \in BOOLEAN /\ (draining => ~running)
    /\ joined \subseteq Threads
    /\ {eventsRead, eventsSent, eventsDropped, sentinels} \subseteq Nat
    /\ streamGaps \subseteq Gaps

\* stop() and the loss of the device race to clear running_, and the process thread
\* is told to end once, by whoever comes first.
OneSentinel == sentinels <= 1

\* Every report counted as read is in the queue, being sent, or counted as sent: none
\* is lost or counted twice between the callback and the client, unless two threads
\* were inside try_push at once.  And the process thread ends with none left in the
\* queue, unless the callback queued it after running_ had been cleared.
ReportsAccounted ==
    "collision" \notin streamGaps =>
        /\ eventsRead = eventsSent
                        + Cardinality({n \in DOMAIN queue : queue[n] = "report"})
                        + (IF ppc \in {"send", "sendDrained"} THEN 1 ELSE 0)
        /\ ppc = "exited" /\ "lateReport" \notin streamGaps =>
              \A n \in DOMAIN queue : queue[n] # "report"

\* The client reads: no write blocks for ever.
ClientReads == []<>(ppc \notin {"send", "sendDrained"})

\* A stop() that finds the thread running ends both threads and returns, wherever
\* the callback and the process thread were when it was called, as long as the client
\* reads and the callback was not inside try_push at the same time.
StopReturns ==
    ClientReads => (opc = "push" ~> opc = "stopped" \/ "collision" \in streamGaps)

\* When the device is lost and the client reads, both threads come to an end without
\* the owner's help, unless the process has been brought down first.
DeviceLossEndsThreads ==
    ClientReads =>
        (cpc = "pushSentinel" ~>
             (cpc = "exited" /\ ppc = "exited") \/ opc = "terminated")

\* Whoever clears running_, the owner, the callback or the process thread, the event
\* loop ends.
CaptureFollowsRunning == ~running /\ cpc # "none" ~> cpc = "exited" \/ opc = "terminated"

\* Whatever clears running_, the process thread is told and comes to an end if the
\* client reads, except when a failed send or a failed resubmission cleared it (these
\* queue no sentinel, and a later stop() returns without queueing one), when stop() and
\* the callback were inside try_push at once, or when the process was brought down.
EndsUnlessSilent ==
    ClientReads =>
        (~running /\ ppc # "none" ~>
             \/ ppc = "exited" \/ opc = "terminated"
             \/ streamGaps \cap {"silentEnd", "collision"} # {})

\* The result of pushing the sentinel is ignored, and need not be looked at: whoever
\* pushes it finds room, however slow the client is, because the queue never holds more
\* than one report.
SentinelFits == opc = "push" \/ cpc = "pushSentinel" => HasRoom

\* stop() frees the transfer in flight in one case only: the callback had found running_
\* set, and submitted the transfer again after stop() had cleared it.  In all others
\* the cancellation has been waited for.
FreedInFlightOnlyAfterLateSubmit ==
    transfer = "freedInFlight" => "lateSubmit" \in streamGaps

\* The owner has found running_ set and is not done with the transfer.
Stopping == {"push", "pushing", "cancel", "joinCapture", "joinProcess", "free"}

\* The process thread never sleeps on in vain: once running_ is clear, the sentinel that
\* will wake it is queued or about to be, by whoever cleared the flag, or has been passed;
\* except after a silent end, and then no stop() is waiting for the thread, and when
\* the sentinel and a report were pushed at once.
ToldToEnd ==
    ~running /\ ppc \in {"pop", "send"} =>
        \/ \E n \in DOMAIN queue : queue[n] = "sentinel"
        \/ opc \in {"push", "pushing"} \/ cpc \in {"pushSentinel", "pushingSentinel"}
        \/ "silentEnd" \in streamGaps /\ opc \notin Stopping
        \/ "collision" \in streamGaps

\* Bounds on the steps that each thread has before it once running_ is clear, but for
\* the events that others queue for the process thread.
OwnerSteps ==
    CASE opc = "started"     -> 8
      [] opc = "push"        -> 7
      [] opc = "pushing"     -> 6
      [] opc = "cancel"      -> 5
      [] opc = "joinCapture" -> 4
      [] opc = "joinProcess" -> 3
      [] opc = "free"        -> 2
      [] opc = "stopped"     -> 1
      [] OTHER               -> 0

CaptureSteps ==
    CASE cpc = "wait"                                         -> IF draining THEN 2 ELSE 8
      [] cpc = "callback"                                     -> IF draining THEN 1 ELSE 7
      [] cpc = "lost"                                         -> 6
      [] cpc \in {"pushReport", "pushSentinel", "check"}       -> 5
      [] cpc \in {"pushingReport", "pushingSentinel", "submit"} -> 4
      [] cpc = "test"                                         -> 3
      [] OTHER                                                -> 0

ProcessSteps ==
    CASE ppc = "send"                   -> 3
      [] ppc \in {"pop", "sendDrained"} -> 2
      [] ppc = "drain"                  -> 1
      [] OTHER                          -> 0

\* An event costs the process thread up to three steps; a step of the owner or of the
\* capture thread queues one event, or submits or begins to cancel the transfer.
StepsLeft ==
    4 * OwnerSteps + 4 * CaptureSteps + 3 * Len(queue) + ProcessSteps
        + (IF transfer = "inflight" THEN 1 ELSE 0) + (IF cancelling THEN 1 ELSE 0)

\* Once running_ is clear it stays clear, and no thread can go round in a circle, alone or
\* with the others: each step of the owner, of the two threads (polling apart) or of
\* libusb brings the stream nearer to a state from which it moves no more.
EndsInBoundedSteps ==
    [][~running /\ opc # "new" => ~running' /\ StepsLeft' < StepsLeft]_vars

\* docs/streaming_thread_design.md: the transfer is resubmitted automatically, so a
\* thread that has taken one report stays ready for the next.
ResubmitsAfterReport == cpc = "pushReport" ~> (transfer = "inflight" \/ ~running)

\* docs/streaming_thread_design.md: when the device is lost the threads exit
\* gracefully and the session cleans up; it never ends the process.
NeverTerminates == opc # "terminated"
=============================================================================
