----------------------- MODULE NoteUSBSession_proofs ------------------------
(***************************************************************************)
(* Proofs about NoteUSBSession, for every capacity of the queue and any    *)
(* number of messages: a promise of encryption is kept except in the cases *)
(* named, a destroyed session leaves no thread of its stream behind, and   *)
(* the stream comes to its end in a session as it does alone.              *)
(***************************************************************************)
EXTENDS NoteUSBSession, StreamingThread_proofs

USE SessionAssumption

-----------------------------------------------------------------------------
(* The inductive invariants *)

\* While reports are promised to be encrypted they can be, and the process thread is
\* not about to send one that is not.
Sealed ==
    /\ promise = "given" => sealing # "clear" /\ enabled /\ hasKey /\ context
    /\ spc = "clear" => promise # "given"
    /\ spc = "ready" => enabled

\* A session is freed without a stream, and none is started for it afterwards.
FreedWithoutStream == dpc = "freed" => opc \in {"new", "destroyed"}

-----------------------------------------------------------------------------
(* The stream, as part of a session *)

\* The session takes the transfer away from under the stream.
TransferTaken ==
    /\ transfer' = Orphaned
    /\ cancelling' = FALSE
    /\ UNCHANGED <<running, queue, overtaken, opc, cpc, draining, ppc, joined, eventsRead,
                   eventsSent, eventsDropped, sentinels, streamGaps>>

LEMMA StreamInSession ==
    [SessionNext]_allVars => StreamStep \/ TransferTaken \/ UNCHANGED vars
<1> SUFFICES ASSUME [SessionNext]_allVars
             PROVE  StreamStep \/ TransferTaken \/ UNCHANGED vars
  OBVIOUS
<1>1. CASE Alive /\ Daemon
  BY <1>1 DEF Daemon, HandleClient, CleanupClient, ClearSessions, StopsStreaming, Stopped,
              Freed, StreamStep, Alive, Terminated
<1>2. CASE Alive /\ SessionThread
  BY <1>2 DEF SessionThread, StartSetsRunning, StartResetsStop, StartClaims,
              StartStreaming, TestsStop, OnlyAnswers, DiscoverOrClaim, Release,
              ShutdownMessage, ReadFails, EnableInits, EnableStoresKey,
              EnableStoresFlag, EnableAnswers, DisableRemoves, DisableClears,
              CryptoStep, StreamStep, TransferTaken, Alive, Terminated
<1>3. CASE Alive /\ (SessionCapture \/ SessionProcess)
  BY <1>3 DEF SessionCapture, SessionProcess, Prepares, ReadsFlag, Encrypts, SendsReport,
              Process, StreamStep, Alive, Terminated
<1>4. CASE Alive /\ (CancellationTakesEffect \/ DeviceActs \/ RaceInQueue
                      \/ OthersDisable \/ Crashes)
  BY <1>4 DEF CancellationTakesEffect, DeviceActs, RaceInQueue, OthersDisable, Crashes,
              StreamStep, Alive, Terminated
<1>5. CASE Over \/ UNCHANGED allVars
  BY <1>5 DEF Over, allVars
<1> QED
  BY <1>1, <1>2, <1>3, <1>4, <1>5 DEF SessionNext

LEMMA TransferTakenKeeps == IInv /\ TransferTaken => IInv'
<1> SUFFICES ASSUME IInv, TransferTaken PROVE IInv'
  OBVIOUS
<1>1. ControlTyped' /\ QueueTyped' /\ CountersTyped'
  BY TypeParts DEF IInv, ControlTyped, QueueTyped, CountersTyped, TransferTaken, Orphaned,
                   Transfer, Pushing
<1>2. TypeOK' <=> ControlTyped' /\ QueueTyped' /\ CountersTyped'
  BY TypeParts, PTL
<1>3. (Fresh /\ EndAnnounced /\ LoopLeft /\ JoinedEnded)'
  BY DEF IInv, TransferTaken, Orphaned, Fresh, EndAnnounced, OwnerAnnounces,
         CaptureAnnounces, LoopLeft, JoinedEnded, OneSentinel
<1>4. SlotTaken'
  BY DEF IInv, TransferTaken, SlotTaken, CapturePushes, HasRoom
<1> QED
  BY <1>1, <1>2, <1>3, <1>4 DEF IInv

LEMMA StreamInvariance == SessionSpec => []IInv
<1>1. SessionInitial => IInv
  BY InitIInv DEF SessionInitial
<1>2. IInv /\ [SessionNext]_allVars => IInv'
  BY StreamInSession, StepIInv, TransferTakenKeeps, StutterIInv
<1> QED
  BY <1>1, <1>2, PTL DEF SessionSpec

-----------------------------------------------------------------------------
(* The end of the stream *)

\* Only the owner, and the start, move the owner on.
LEMMA OwnerStays == Capture \/ Process \/ TransferEnds \/ TransferCancelled => UNCHANGED opc
  BY DEF Capture, CaptureTests, EventsTimeOut, EnterCallback, CallbackGuard, PushReport,
         PublishReport, NotifyDeviceLost, DeviceLostPushes, DeviceLostPublishes,
         CheckRunning, Resubmit, Process, Pop, Drain, Send, TransferEnds, TransferCancelled

LEMMA NextFreed ==
    IInv /\ FreedWithoutStream /\ [SessionNext]_allVars => FreedWithoutStream'
<1> SUFFICES ASSUME IInv, FreedWithoutStream, [SessionNext]_allVars
             PROVE  FreedWithoutStream'
  OBVIOUS
<1> USE DEF FreedWithoutStream
<1>1. CASE Daemon
  <2>1. CASE StopsStreaming
    BY <2>1 DEF StopsStreaming, lifeVars
  <2>2. CASE Freed
    BY <2>2 DEF Freed, NoStream, vars
  <2>3. CASE HandleClient \/ CleanupClient \/ ClearSessions \/ Stopped
    BY <2>3 DEF HandleClient, CleanupClient, ClearSessions, Stopped
  <2> QED
    BY <1>1, <2>1, <2>2, <2>3 DEF Daemon
<1>2. CASE SessionThread
  BY <1>2 DEF SessionThread, StartSetsRunning, StartResetsStop, StartClaims,
              StartStreaming, TestsStop, OnlyAnswers, DiscoverOrClaim, Answered,
              TakesMessage, Release, ShutdownMessage, ReadFails, EnableInits,
              EnableStoresKey, EnableStoresFlag, EnableAnswers, DisableRemoves,
              DisableClears, CryptoStep, At, vars
<1>3. CASE SessionCapture \/ SessionProcess
  BY <1>3, OwnerStays DEF SessionCapture, SessionProcess, Prepares, ReadsFlag, Encrypts,
              SendsReport, SealingOnly, StreamOnly, lifeVars, Process, vars
<1>4. CASE CancellationTakesEffect \/ DeviceActs \/ OthersDisable \/ Crashes
  BY <1>4, OwnerStays DEF CancellationTakesEffect, DeviceActs, OthersDisable, Crashes,
              StreamOnly, lifeVars, vars
<1>5. CASE Over \/ UNCHANGED allVars
  BY <1>5 DEF Over, allVars, lifeVars, vars
<1>6. CASE Alive /\ RaceInQueue
  <2>1. opc \in {"pushing", "cancel", "joinCapture"} /\ UNCHANGED dpc
    BY <1>6, TypeParts, PushingIs
       DEF RaceInQueue, RaceEndsProcess, StreamOnly, lifeVars, Alive, Terminated, IInv,
           SlotTaken, ControlTyped, Producers
  <2> QED
    BY <2>1
<1> QED
  BY <1>1, <1>2, <1>3, <1>4, <1>5, <1>6 DEF SessionNext

-----------------------------------------------------------------------------
(* The stream comes to its end in the session, too *)

LEMMA TransferTakenOneReport == OneReport /\ TransferTaken => OneReport'
  BY DEF OneReport, InCallback, Completions, Outcomes, TransferTaken, Orphaned

LEMMA TransferTakenTold == ToldUnlessSilent /\ TransferTaken => ToldUnlessSilent'
<1> SUFFICES ASSUME ToldUnlessSilent, TransferTaken PROVE ToldUnlessSilent'
  OBVIOUS
<1>1. UNCHANGED <<running, queue, opc, cpc, ppc, streamGaps>>
  BY DEF TransferTaken
<1> QED
  BY <1>1 DEF ToldUnlessSilent, SentinelQueuedIn, OwnerAnnounces, CaptureAnnounces

LEMMA SessionSentinelFits == ASSUME Capacity >= 2 PROVE SessionSpec => []SentinelFits
<1>1. IInv /\ OneReport /\ [SessionNext]_allVars => OneReport'
  <2>1. OneReport /\ UNCHANGED vars => OneReport'
    BY DEF vars, OneReport
  <2> QED
    BY <2>1, StreamInSession, StepOneReport, TransferTakenOneReport
<1>2. SessionInitial => OneReport
  BY InitOneReport DEF SessionInitial
<1> QED
  BY <1>1, <1>2, OneReportFits, StreamInvariance, PTL DEF SessionSpec

LEMMA TransferTakenSettles ==
    ASSUME IInv, TransferTaken, ~running
    PROVE  UNCHANGED vars \/ (~running' /\ StepsLeft' < StepsLeft)
<1> DEFINE len == Len(queue)
           inflight == IF transfer = "inflight" THEN 1 ELSE 0
           asked == IF cancelling THEN 1 ELSE 0
<1>1. StepsLeft = 4 * OwnerSteps + 4 * CaptureSteps + 3 * len + ProcessSteps + inflight + asked
  BY DEF StepsLeft
<1>2. StepsLeft' = 4 * OwnerSteps' + 4 * CaptureSteps' + 3 * len' + ProcessSteps'
                   + inflight' + asked'
  BY DEF StepsLeft
<1>3. /\ OwnerSteps \in Nat /\ CaptureSteps \in Nat /\ ProcessSteps \in Nat
      /\ inflight \in Nat /\ asked \in Nat
  BY DEF OwnerSteps, CaptureSteps, ProcessSteps
<1>4. len \in Nat
  BY StepsCounted
<1>5. UNCHANGED <<running, queue, overtaken, opc, cpc, draining, ppc, joined, eventsRead,
                  eventsSent, eventsDropped, sentinels, streamGaps>>
  BY DEF TransferTaken
<1>6. /\ OwnerSteps' = OwnerSteps /\ CaptureSteps' = CaptureSteps
      /\ ProcessSteps' = ProcessSteps /\ len' = len
  BY <1>5 DEF OwnerSteps, CaptureSteps, ProcessSteps
<1>7. inflight' = 0 /\ asked' = 0
  BY DEF TransferTaken, Orphaned
<1>8. inflight = 0 /\ asked = 0 => UNCHANGED vars
  <2> SUFFICES ASSUME inflight = 0, asked = 0 PROVE UNCHANGED vars
    OBVIOUS
  <2>1. transfer' = transfer
    BY DEF TransferTaken, Orphaned
  <2>2. cancelling' = cancelling
    <3>1. cancelling \in BOOLEAN /\ ~cancelling
      BY TypeParts DEF IInv, ControlTyped
    <3>2. cancelling = FALSE
      BY <3>1, Zenon
    <3>3. cancelling' = FALSE
      BY Zenon DEF TransferTaken
    <3> QED
      BY <3>2, <3>3
  <2> QED
    BY <1>5, <2>1, <2>2 DEF vars
<1>9. inflight + asked > 0 => StepsLeft' < StepsLeft
  <2> HIDE DEF len, inflight, asked
  <2> QED
    BY <1>1, <1>2, <1>3, <1>4, <1>6, <1>7
<1> QED
  BY <1>5, <1>8, <1>9

-----------------------------------------------------------------------------
(* The promise of encryption *)

\* What most steps leave alone, as far as the promise goes.
LEMMA SealedUntouched ==
    ASSUME Sealed, UNCHANGED cryptoVars, spc' \in {spc} \cup (SessionPC \ {"clear", "ready"})
    PROVE  Sealed'
  BY DEF Sealed, cryptoVars

LEMMA NextSealed == Sealed /\ [SessionNext]_allVars => Sealed'
<1> SUFFICES ASSUME Sealed, [SessionNext]_allVars PROVE Sealed'
  OBVIOUS
<1>1. CASE Daemon
  <2>1. UNCHANGED cryptoVars /\ spc' \in {spc, "spawned"}
    BY <1>1 DEF Daemon, HandleClient, CleanupClient, ClearSessions, StopsStreaming,
                Stopped, Freed, lifeVars
  <2> QED
    BY <2>1, SealedUntouched DEF SessionPC
<1>2. CASE SessionThread
  <2>1. CASE EnableInits
    BY <2>1 DEF EnableInits, CryptoStep, Sealed
  <2>2. CASE EnableStoresKey
    BY <2>2 DEF EnableStoresKey, CryptoStep, BrokenIf, Sealed
  <2>3. CASE EnableStoresFlag
    BY <2>3 DEF EnableStoresFlag, CryptoStep, FlagStored, Sealed
  <2>4. CASE EnableAnswers
    BY <2>4 DEF EnableAnswers, CryptoStep, At, BrokenWhenReady, Sealed
  <2>5. CASE DisableRemoves
    BY <2>5 DEF DisableRemoves, CryptoStep, BrokenIf, Sealed
  <2>6. CASE DisableClears
    BY <2>6 DEF DisableClears, CryptoStep, At, Sealed
  <2>7. CASE UNCHANGED cryptoVars
              /\ spc' \in {"running", "claiming", "startStreaming", "testing", "reading", "ended"}
    BY <2>7, SealedUntouched DEF SessionPC
  <2> QED
    BY <1>2, <2>1, <2>2, <2>3, <2>4, <2>5, <2>6, <2>7
       DEF SessionThread, StartSetsRunning, StartResetsStop, StartClaims, StartStreaming,
           TestsStop, OnlyAnswers, DiscoverOrClaim, Answered, Release, ShutdownMessage,
           ReadFails
<1>3. CASE SessionCapture \/ (SessionProcess /\ UNCHANGED cryptoVars)
  BY <1>3, SealedUntouched
     DEF SessionCapture, SessionProcess, Prepares, ReadsFlag, Encrypts, SendsReport,
         SealingOnly, StreamOnly, lifeVars
<1>4. CASE ReadsFlag
  BY <1>4 DEF ReadsFlag, SealingOnly, StreamOnly, lifeVars, Sealed
<1>5. CASE Encrypts
  BY <1>5 DEF Encrypts, CanEncrypt, BrokenIf, SealingOnly, StreamOnly, lifeVars, Sealed
<1>6. CASE SendsReport
  BY <1>6 DEF SendsReport, SealingOnly, StreamOnly, lifeVars, Sealed
<1>7. CASE OthersDisable
  BY <1>7 DEF OthersDisable, BrokenIf, StreamOnly, lifeVars, Sealed
<1>8. CASE CancellationTakesEffect \/ DeviceActs \/ RaceInQueue \/ Crashes
  BY <1>8, SealedUntouched
     DEF CancellationTakesEffect, DeviceActs, RaceInQueue, Crashes, StreamOnly, lifeVars
<1>9. CASE Over \/ UNCHANGED allVars
  BY <1>9, SealedUntouched DEF Over, allVars, lifeVars
<1> QED
  BY <1>1, <1>2, <1>3, <1>4, <1>5, <1>6, <1>7, <1>8, <1>9
     DEF SessionNext, SessionProcess, Prepares

-----------------------------------------------------------------------------
(* The types *)

LifeTyped ==
    /\ dpc \in DaemonPC /\ spc \in SessionPC
    /\ given \in BOOLEAN /\ sessionRunning \in BOOLEAN /\ stopRequested \in BOOLEAN
    /\ crashed \in BOOLEAN
    /\ messages \in 0..MaxMessages

\* A session claims at its start only the device it was given.
HandleTyped ==
    /\ given \in BOOLEAN /\ handleOpen \in BOOLEAN /\ streamsDevice \in BOOLEAN
    /\ spc = "claiming" => given
    /\ handleOpen => given
    /\ streamsDevice => handleOpen

CryptoTyped ==
    /\ enabled \in BOOLEAN /\ hasKey \in BOOLEAN /\ context \in BOOLEAN
    /\ request \in Request
    /\ sealing \in SealingPC
    /\ promise \in Promise

LEMMA SessionTypeParts ==
    SessionTypeOK <=> TypeOK /\ LifeTyped /\ CryptoTyped
                      /\ handleOpen \in BOOLEAN /\ (handleOpen => given)
                      /\ streamsDevice \in BOOLEAN /\ (streamsDevice => handleOpen)
<1>1. {given, sessionRunning, stopRequested, enabled, hasKey, context, crashed}
          \subseteq BOOLEAN
      <=> /\ given \in BOOLEAN /\ sessionRunning \in BOOLEAN /\ stopRequested \in BOOLEAN
          /\ enabled \in BOOLEAN /\ hasKey \in BOOLEAN /\ context \in BOOLEAN
          /\ crashed \in BOOLEAN
  OBVIOUS
<1> QED
  BY <1>1, Zenon DEF SessionTypeOK, LifeTyped, CryptoTyped

LEMMA NextLife == LifeTyped /\ [SessionNext]_allVars => LifeTyped'
<1> SUFFICES ASSUME LifeTyped, [SessionNext]_allVars PROVE LifeTyped'
  OBVIOUS
<1> USE DEF LifeTyped, DaemonPC, SessionPC
<1>1. CASE Daemon
  <2>1. UNCHANGED <<given, messages, crashed>> /\ spc' \in {spc, "spawned"}
        /\ dpc' \in {dpc, "idle", "stopping", "destroying", "freed"}
    BY <1>1 DEF Daemon, HandleClient, CleanupClient, ClearSessions, StopsStreaming,
                Stopped, Freed, lifeVars
  <2>2. sessionRunning' \in BOOLEAN /\ stopRequested' \in BOOLEAN
    BY <1>1 DEF Daemon, HandleClient, CleanupClient, ClearSessions, StopsStreaming,
                Stopped, Freed, lifeVars
  <2> QED
    BY <2>1, <2>2
<1>2. CASE SessionThread
  <2>1. CASE StartSetsRunning \/ StartResetsStop \/ StartClaims \/ StartStreaming
    BY <2>1 DEF StartSetsRunning, StartResetsStop, StartClaims, StartStreaming
  <2>2. CASE TestsStop \/ OnlyAnswers \/ ShutdownMessage \/ ReadFails
    BY <2>2 DEF TestsStop, OnlyAnswers, ShutdownMessage, ReadFails
  <2>3. CASE DiscoverOrClaim \/ Release
    BY <2>3 DEF DiscoverOrClaim, Release, Answered, TakesMessage
  <2>4. CASE EnableInits \/ EnableStoresKey \/ EnableStoresFlag \/ EnableAnswers
             \/ DisableRemoves \/ DisableClears
    <3>1. /\ UNCHANGED <<dpc, given, sessionRunning, stopRequested, crashed>>
          /\ spc' \in {"storeKey", "storeFlag", "ready", "testing", "clear"}
      BY <2>4 DEF EnableInits, EnableStoresKey, EnableStoresFlag, EnableAnswers,
                  DisableRemoves, DisableClears, CryptoStep
    <3>2. TakesMessage \/ UNCHANGED messages
      BY <2>4 DEF EnableInits, EnableStoresKey, EnableStoresFlag, EnableAnswers,
                  DisableRemoves, DisableClears, CryptoStep
    <3>3. messages' \in 0..MaxMessages
      BY <3>2 DEF TakesMessage
    <3> QED
      BY <3>1, <3>3
  <2> QED
    BY <1>2, <2>1, <2>2, <2>3, <2>4 DEF SessionThread
<1>3. CASE Crashes
  BY <1>3 DEF Crashes
<1>4. CASE UNCHANGED lifeVars
  BY <1>4 DEF lifeVars
<1> QED
  BY <1>1, <1>2, <1>3, <1>4
     DEF SessionNext, SessionCapture, SessionProcess, Prepares, ReadsFlag, Encrypts,
         SendsReport, SealingOnly, StreamOnly, CancellationTakesEffect, DeviceActs,
         RaceInQueue, OthersDisable, Over, allVars

LEMMA NextHandle == HandleTyped /\ [SessionNext]_allVars => HandleTyped'
<1> SUFFICES ASSUME HandleTyped, [SessionNext]_allVars PROVE HandleTyped'
  OBVIOUS
<1> USE DEF HandleTyped
<1>1. CASE StartResetsStop
  BY <1>1 DEF StartResetsStop, deviceVars
<1>2. CASE StartClaims
  <2>1. given = TRUE /\ given' = given
    BY <1>2 DEF StartClaims, At
  <2>2. CASE handleOpen' = TRUE /\ streamsDevice' = TRUE
    BY <1>2, <2>1, <2>2 DEF StartClaims
  <2>3. CASE UNCHANGED deviceVars
    BY <1>2, <2>1, <2>3 DEF StartClaims, deviceVars
  <2> QED
    BY <1>2, <2>2, <2>3 DEF StartClaims
<1>3. CASE DiscoverOrClaim
  BY <1>3 DEF DiscoverOrClaim, Answered
<1>4. CASE Release
  BY <1>4 DEF Release, HandleAfterRelease, Answered
<1>5. CASE UNCHANGED <<given, handleOpen, streamsDevice>>
           /\ (spc' = spc \/ spc' # "claiming")
  BY <1>5
<1> QED
  BY <1>1, <1>2, <1>3, <1>4, <1>5
     DEF SessionNext, Daemon, HandleClient, CleanupClient, ClearSessions, StopsStreaming,
         Stopped, Freed, SessionThread, StartSetsRunning, StartStreaming,
         TestsStop, OnlyAnswers, ShutdownMessage, ReadFails, EnableInits, EnableStoresKey,
         EnableStoresFlag, EnableAnswers, DisableRemoves, DisableClears, CryptoStep,
         SessionCapture, SessionProcess, Prepares, ReadsFlag, Encrypts, SendsReport,
         SealingOnly, StreamOnly, CancellationTakesEffect, DeviceActs, RaceInQueue,
         OthersDisable, Crashes, Over, allVars, lifeVars, deviceVars

LEMMA NextCrypto == CryptoTyped /\ [SessionNext]_allVars => CryptoTyped'
<1> SUFFICES ASSUME CryptoTyped, [SessionNext]_allVars PROVE CryptoTyped'
  OBVIOUS
<1> USE DEF CryptoTyped, SealingPC, Promise
<1>1. CASE EnableInits
  BY <1>1 DEF EnableInits, CryptoStep, Request
<1>2. CASE EnableStoresKey
  BY <1>2 DEF EnableStoresKey, CryptoStep, Request, BrokenIf
<1>3. CASE EnableStoresFlag
  BY <1>3 DEF EnableStoresFlag, CryptoStep, FlagStored
<1>4. CASE EnableAnswers
  BY <1>4 DEF EnableAnswers, CryptoStep, NoRequest, Request
<1>5. CASE DisableRemoves
  BY <1>5 DEF DisableRemoves, CryptoStep, BrokenIf
<1>6. CASE DisableClears
  BY <1>6 DEF DisableClears, CryptoStep
<1>7. CASE OthersDisable
  BY <1>7 DEF OthersDisable, BrokenIf
<1>8. CASE ReadsFlag \/ Encrypts \/ SendsReport
  BY <1>8 DEF ReadsFlag, Encrypts, BrokenIf, SendsReport, SealingOnly
<1>9. CASE UNCHANGED cryptoVars
  BY <1>9 DEF cryptoVars
<1> QED
  BY <1>1, <1>2, <1>3, <1>4, <1>5, <1>6, <1>7, <1>8, <1>9
     DEF SessionNext, Daemon, HandleClient, CleanupClient, ClearSessions, StopsStreaming,
         Stopped, Freed, SessionThread, StartSetsRunning, StartResetsStop,
         StartClaims, StartStreaming, TestsStop, OnlyAnswers, DiscoverOrClaim, Answered,
         Release, ShutdownMessage, ReadFails, SessionCapture, SessionProcess, Prepares,
         CancellationTakesEffect, DeviceActs, RaceInQueue, Crashes, Over, allVars

-----------------------------------------------------------------------------
(* The theorems *)

\* After ENCRYPTION_READY no report is about to leave in the clear, unless one of the
\* five cases named with Promise has occurred: whatever the interleaving of the
\* session's handlers with the process thread, and for any number of messages.
THEOREM SessionKeepsPromise == SessionSpec => []PromiseKept
<1>1. SessionInitial => Sealed
  BY DEF SessionInitial, Sealed
<1>2. Sealed => PromiseKept
  BY DEF Sealed, PromiseKept
<1> QED
  BY <1>1, <1>2, NextSealed, PTL DEF SessionSpec

\* No thread of the stream outlives the session it would call back into.
THEOREM SessionEndsStream == SessionSpec => []StreamEndsWithSession
<1>1. SessionInitial => FreedWithoutStream
  BY DEF SessionInitial, FreedWithoutStream
<1>2. IInv /\ FreedWithoutStream => StreamEndsWithSession
  BY DEF IInv, Fresh, JoinedEnded, FreedWithoutStream, StreamEndsWithSession
<1> QED
  BY <1>1, <1>2, NextFreed, StreamInvariance, PTL DEF SessionSpec

\* Although the session may take the transfer away, the process thread is told to end
\* in it as it is in a stream alone.
THEOREM SessionThreadTold == ASSUME Capacity >= 2 PROVE SessionSpec => []ToldToEnd
<1>1. SessionInitial => ToldUnlessSilent
  BY InitTold DEF SessionInitial
<1>2. IInv /\ SentinelFits /\ ToldUnlessSilent /\ [SessionNext]_allVars => ToldUnlessSilent'
  <2>1. ToldUnlessSilent /\ UNCHANGED vars => ToldUnlessSilent'
    BY DEF vars, ToldUnlessSilent, OwnerAnnounces, CaptureAnnounces
  <2> QED
    BY <2>1, StreamInSession, StepTold, TransferTakenTold
<1>3. ToldUnlessSilent => ToldToEnd
  BY DEF ToldUnlessSilent, ToldToEnd, SentinelQueuedIn, OwnerAnnounces, CaptureAnnounces
<1> QED
  BY <1>1, <1>2, <1>3, StreamInvariance, SessionSentinelFits, PTL DEF SessionSpec

\* However the messages of the client, the daemon and the other sessions come in between,
\* each step that moves the stream after running_ was cleared brings its end nearer.
THEOREM SessionEndBounded == SessionSpec => EndsInBoundedSteps
<1>1. IInv /\ [SessionNext]_allVars
        => [~running /\ opc # "new" => ~running' /\ StepsLeft' < StepsLeft]_vars
  BY StreamInSession, ClearStays, SettleStep, TransferTakenSettles
<1> QED
  BY <1>1, StreamInvariance, PTL DEF SessionSpec, EndsInBoundedSteps

\* The variables of the session and of its stream keep their types.
THEOREM SessionTypeCorrect == SessionSpec => []SessionTypeOK
<1>1. SessionInitial => LifeTyped /\ HandleTyped
  <2>1. 0 \in 0..MaxMessages
    OBVIOUS
  <2>2. SessionInitial => LifeTyped
    BY <2>1 DEF SessionInitial, LifeTyped, DaemonPC, SessionPC
  <2>3. SessionInitial => HandleTyped
    BY DEF SessionInitial, HandleTyped
  <2> QED
    BY <2>2, <2>3
<1>2. SessionInitial => CryptoTyped
  <2>1. NoRequest \in Request
    BY DEF NoRequest, Request
  <2> QED
    BY <2>1 DEF SessionInitial, CryptoTyped, SealingPC, Promise
<1>3. TypeOK /\ LifeTyped /\ HandleTyped /\ CryptoTyped => SessionTypeOK
  BY SessionTypeParts, Zenon DEF HandleTyped
<1>4. IInv => TypeOK
  BY DEF IInv
<1> QED
  BY <1>1, <1>2, <1>3, <1>4, NextLife, NextHandle, NextCrypto, StreamInvariance,
     PTL DEF SessionSpec
=============================================================================
