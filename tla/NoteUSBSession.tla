--------------------------- MODULE NoteUSBSession ---------------------------
(***************************************************************************)
(* One NoteUSBSession from its construction to its destruction, with the   *)
(* stream it owns.  The daemon's thread constructs and destroys it; the    *)
(* session's thread starts it and handles its client's messages; the       *)
(* stream's two threads are those of StreamingThread, whose owner is the   *)
(* session's thread for start and the daemon's for stop.  Other sessions   *)
(* appear through what they share with this one: the encryption provider.  *)
(*                                                                         *)
(* The session is the class as its constructor offers it, made with or     *)
(* without a device id.  Undefined behaviour (a step in a session that has *)
(* been freed, a race on streaming_thread_, a transfer used after its      *)
(* handle was closed) may end the model in crashed.                        *)
(***************************************************************************)
EXTENDS StreamingThread

CONSTANTS MaxMessages     \* bound: messages about devices and encryption

ASSUME SessionAssumption == MaxMessages \in Nat

VARIABLES
    dpc,               \* the daemon's thread with respect to this session
    spc,               \* the session's thread
    given,             \* was it constructed with a device id?
    sessionRunning,    \* running_
    stopRequested,     \* stop_requested_
    messages,          \* messages about devices and encryption so far
    streamsDevice,     \* does device_ hold the handle the stream was given?
    handleOpen,        \* is the handle of the stream's transfer open?
    enabled,           \* encryption_enabled_
    hasKey,            \* is encryption_key_ not empty?
    context,           \* has the provider a context for this session's device?
    request,           \* the encryption message being handled
    sealing,           \* the report in process_hid_report
    promise,           \* history: that the client's reports are encrypted, see Promise
    crashed

lifeVars == <<dpc, spc, given, sessionRunning, stopRequested, messages,
              crashed>>

deviceVars == <<streamsDevice, handleOpen>>

cryptoVars == <<enabled, hasKey, context, request, sealing, promise>>

allVars == <<vars, lifeVars, deviceVars, cryptoVars>>

DaemonPC == {"none", "idle", "stopping", "destroying", "freed"}
SessionPC == {"none", "spawned", "running", "claiming", "startStreaming", "testing",
              "reading", "storeKey", "storeFlag", "ready", "clear", "ended"}
SealingPC == {"none", "flagged", "sealed", "clear"}

\* The client has not been told that its reports are encrypted, it has been told, or it
\* has been told and one of five known things has happened: a report was past the test
\* of the flag by then, the key is empty, another session removed the context, the
\* client has disabled encryption for a device that is not this session's, or the
\* provider failed to encrypt a report.
Promise == {"none", "given", "broken"}
BrokenIf(broken) == IF promise = "given" /\ broken THEN "broken" ELSE promise

Request == [own : BOOLEAN, empty : BOOLEAN]
NoRequest == [own |-> FALSE, empty |-> FALSE]

SessionInitial ==
    /\ Init
    /\ dpc = "none" /\ spc = "none"
    /\ given \in BOOLEAN
    /\ sessionRunning = FALSE /\ stopRequested = FALSE
    /\ messages = 0
    /\ streamsDevice = FALSE /\ handleOpen = FALSE
    /\ enabled = FALSE /\ hasKey = FALSE
    /\ context = FALSE
    /\ request = NoRequest
    /\ sealing = "none"
    /\ promise = "none"
    /\ crashed = FALSE

Terminated == opc = "terminated"

-----------------------------------------------------------------------------
(* The daemon's thread *)

\* The constructor, and the thread that will call start().
HandleClient ==
    /\ dpc = "none"
    /\ dpc' = "idle"
    /\ spc' = "spawned"
    /\ UNCHANGED <<vars, given, sessionRunning, stopRequested, messages, crashed>>
    /\ UNCHANGED <<deviceVars, cryptoVars>>

\* stop(): whoever finds running_ cleared returns at once.
CleanupClient ==
    /\ dpc = "idle"
    /\ sessionRunning' = FALSE
    /\ stopRequested' = (stopRequested \/ sessionRunning)
    /\ dpc' = IF sessionRunning THEN "stopping" ELSE "destroying"
    /\ UNCHANGED <<vars, spc, given, messages, crashed, deviceVars, cryptoVars>>

\* sessions_.clear() destroys a session that nobody has stopped.
ClearSessions ==
    /\ dpc = "idle"
    /\ dpc' = "destroying"
    /\ UNCHANGED <<vars, spc, given, sessionRunning, stopRequested, messages, crashed>>
    /\ UNCHANGED <<deviceVars, cryptoVars>>

\* stop_streaming, called by stop() and by the destructor: the stream is stopped, then
\* deleted.
StopsStreaming ==
    /\ dpc \in {"stopping", "destroying"}
    /\ Stop \/ Owner
    /\ UNCHANGED <<lifeVars, deviceVars, cryptoVars>>

\* Mutant: the stream is left to itself.
StreamIgnored == TRUE

NoStream == opc \in {"new", "destroyed"}

Stopped ==
    /\ dpc = "stopping"
    /\ NoStream
    /\ dpc' = "destroying"
    /\ UNCHANGED <<vars, spc, given, sessionRunning, stopRequested, messages, crashed>>
    /\ UNCHANGED <<deviceVars, cryptoVars>>

\* The destructor gives nothing back: a handle that is open stays open.
Freed ==
    /\ dpc = "destroying"
    /\ NoStream
    /\ dpc' = "freed"
    /\ UNCHANGED <<vars, spc, given, sessionRunning, stopRequested, messages, crashed>>
    /\ UNCHANGED <<deviceVars, cryptoVars>>

Daemon ==
    \/ HandleClient \/ CleanupClient \/ ClearSessions
    \/ StopsStreaming \/ Stopped \/ Freed

-----------------------------------------------------------------------------
(* The session's thread: start() *)

At(place) == spc = place /\ dpc # "freed"

StartSetsRunning ==
    /\ At("spawned")
    /\ sessionRunning' = TRUE
    /\ spc' = "running"
    /\ UNCHANGED <<vars, dpc, given, stopRequested, messages, crashed>>
    /\ UNCHANGED <<deviceVars, cryptoVars>>

\* A stop() that came in between is forgotten.
StartResetsStop ==
    /\ At("running")
    /\ stopRequested' = FALSE
    /\ spc' = IF given THEN "claiming" ELSE "testing"
    /\ UNCHANGED <<vars, dpc, given, sessionRunning, messages, crashed>>
    /\ UNCHANGED <<deviceVars, cryptoVars>>

StartClaims ==
    /\ At("claiming")
    /\ \/ /\ streamsDevice' = TRUE
          /\ handleOpen' = TRUE
          /\ spc' = "startStreaming"
          /\ UNCHANGED sessionRunning
       \/ /\ spc' = "ended"
          /\ sessionRunning' = FALSE
          /\ UNCHANGED deviceVars
    /\ UNCHANGED <<vars, dpc, given, stopRequested, messages, crashed, cryptoVars>>

StartStreaming ==
    /\ At("startStreaming")
    /\ Start \/ StartFails
    /\ spc' = "testing"
    /\ UNCHANGED <<dpc, given, sessionRunning, stopRequested, messages, crashed>>
    /\ UNCHANGED <<deviceVars, cryptoVars>>

-----------------------------------------------------------------------------
(* The session's thread: read_socket, and the messages about devices *)

\* Before and after every message.
TestsStop ==
    /\ At("testing")
    /\ spc' = IF stopRequested THEN "ended" ELSE "reading"
    /\ UNCHANGED <<vars, dpc, given, sessionRunning, stopRequested, messages, crashed>>
    /\ UNCHANGED <<deviceVars, cryptoVars>>

TakesMessage ==
    /\ At("reading")
    /\ messages < MaxMessages
    /\ messages' = messages + 1

\* What a message about devices leaves alone.
Answered ==
    /\ TakesMessage
    /\ spc' = "testing"
    /\ UNCHANGED <<dpc, given, sessionRunning, stopRequested, crashed, cryptoVars>>

\* HELLO, RESUME, and whatever is refused.
OnlyAnswers ==
    /\ At("reading")
    /\ spc' = "testing"
    /\ UNCHANGED <<vars, dpc, given, sessionRunning, stopRequested, messages, crashed>>
    /\ UNCHANGED <<deviceVars, cryptoVars>>

\* A device found, or claimed, becomes device_, whatever that was before.
DiscoverOrClaim ==
    /\ Answered
    /\ streamsDevice' = FALSE
    /\ UNCHANGED <<vars, handleOpen>>

\* Closing the stream's handle under a transfer in flight takes the transfer from
\* libusb, which will never end it.
Orphaned == IF transfer = "inflight" THEN "orphaned" ELSE transfer

\* Mutant: the closed handle stays in device_.
HandleKept == TRUE

HandleAfterRelease == FALSE

\* release_device does not ask which device the client means, nor stop the stream.  The
\* release of any other handle concerns nothing here and is among OnlyAnswers.
Release ==
    /\ Answered
    /\ streamsDevice
    /\ streamsDevice' = HandleAfterRelease
    /\ handleOpen' = FALSE
    /\ transfer' = Orphaned
    /\ cancelling' = FALSE
    /\ UNCHANGED <<running, queue, overtaken, opc, cpc, draining, ppc, joined, eventsRead,
                   eventsSent, eventsDropped, sentinels, streamGaps>>

\* The client asks for the end.
ShutdownMessage ==
    /\ At("reading")
    /\ stopRequested' = TRUE
    /\ spc' = "ended"
    /\ UNCHANGED <<vars, dpc, given, sessionRunning, messages, crashed>>
    /\ UNCHANGED <<deviceVars, cryptoVars>>

\* The socket is closed, or what is read from it is no message.
ReadFails ==
    /\ At("reading")
    /\ spc' = "ended"
    /\ UNCHANGED <<vars, dpc, given, sessionRunning, stopRequested, messages, crashed>>
    /\ UNCHANGED <<deviceVars, cryptoVars>>

-----------------------------------------------------------------------------
(* The session's thread: messages about encryption *)

CryptoStep(from, to) ==
    /\ At(from)
    /\ IF from = "reading" THEN TakesMessage ELSE UNCHANGED messages
    /\ spc' = to
    /\ UNCHANGED <<vars, dpc, given, sessionRunning, stopRequested, crashed>>
    /\ UNCHANGED <<deviceVars, sealing>>

\* init_device, for the device the client names: this session's own or another.
EnableInits ==
    /\ CryptoStep("reading", "storeKey")
    /\ request' \in Request
    /\ context' = (context \/ request'.own)
    /\ UNCHANGED <<enabled, hasKey, promise>>

EnableStoresKey ==
    /\ CryptoStep("storeKey", "storeFlag")
    /\ hasKey' = ~request.empty
    /\ promise' = BrokenIf(request.empty)
    /\ UNCHANGED <<enabled, context, request>>

\* Mutant: the flag is forgotten.
FlagAsBefore == enabled

FlagStored == TRUE

EnableStoresFlag ==
    /\ CryptoStep("storeFlag", "ready")
    /\ enabled' = FlagStored
    /\ UNCHANGED <<hasKey, context, request, promise>>

\* Can the promise of ENCRYPTION_READY not be kept when it is made?
BrokenWhenReady == sealing = "clear" \/ ~hasKey \/ ~context

EnableAnswers ==
    /\ CryptoStep("ready", "testing")
    /\ promise' = IF ~request.own THEN promise
                  ELSE IF BrokenWhenReady THEN "broken" ELSE "given"
    /\ request' = NoRequest
    /\ UNCHANGED <<enabled, hasKey, context>>

\* remove_device.  The client's own device ends the promise; with another device the
\* client has not asked for that.
DisableRemoves ==
    /\ CryptoStep("reading", "clear")
    /\ \E own \in BOOLEAN :
          /\ context' = (context /\ ~own)
          /\ promise' = IF own THEN "none" ELSE BrokenIf(TRUE)
    /\ UNCHANGED <<enabled, hasKey, request>>

\* The key, then the flag: encrypt_data fails without either.
DisableClears ==
    /\ CryptoStep("clear", "testing")
    /\ hasKey' = FALSE
    /\ enabled' = FALSE
    /\ UNCHANGED <<context, request, promise>>

SessionThread ==
    \/ StartSetsRunning \/ StartResetsStop \/ StartClaims \/ StartStreaming
    \/ TestsStop \/ OnlyAnswers \/ DiscoverOrClaim \/ Release
    \/ ShutdownMessage \/ ReadFails
    \/ EnableInits \/ EnableStoresKey \/ EnableStoresFlag \/ EnableAnswers
    \/ DisableRemoves \/ DisableClears

-----------------------------------------------------------------------------
(* The stream's threads.  The process thread seals what it sends. *)

StreamOnly == UNCHANGED <<lifeVars, deviceVars>>

SealingOnly ==
    /\ UNCHANGED <<enabled, hasKey, context, request>>
    /\ StreamOnly

ReadsFlag ==
    /\ ppc \in {"send", "sendDrained"} /\ sealing = "none"
    /\ sealing' = IF enabled THEN "flagged" ELSE "clear"
    /\ UNCHANGED <<vars, promise>>
    /\ SealingOnly

\* encrypt_data gets as far as the provider, and the provider knows the device.
CanEncrypt == enabled /\ hasKey /\ context

\* The provider may fail even then.  A report that is not encrypted goes out as it is.
Encrypts ==
    /\ sealing = "flagged"
    /\ \/ CanEncrypt /\ sealing' = "sealed" /\ UNCHANGED promise
       \/ sealing' = "clear" /\ promise' = BrokenIf(CanEncrypt)
    /\ UNCHANGED vars
    /\ SealingOnly

SendsReport ==
    /\ sealing \in {"sealed", "clear"}
    /\ Send
    /\ sealing' = "none"
    /\ UNCHANGED promise
    /\ SealingOnly

Prepares ==
    \/ ReadsFlag \/ Encrypts
    \/ (Pop \/ Drain) /\ UNCHANGED cryptoVars /\ StreamOnly

SessionProcess == Prepares \/ SendsReport

\* A transfer is submitted again through the handle it was filled with.
SessionCapture ==
    /\ Capture
    /\ cpc = "submit" => handleOpen
    /\ UNCHANGED cryptoVars
    /\ StreamOnly

-----------------------------------------------------------------------------
(* Everybody else *)

CancellationTakesEffect == TransferCancelled /\ UNCHANGED cryptoVars /\ StreamOnly

DeviceActs == TransferEnds /\ UNCHANGED cryptoVars /\ StreamOnly

RaceInQueue == RaceEndsProcess /\ UNCHANGED cryptoVars /\ StreamOnly

\* Another session disables encryption of the same device.  (One that enables it gives
\* this session nothing it has been promised.)
OthersDisable ==
    /\ context
    /\ context' = FALSE
    /\ promise' = BrokenIf(TRUE)
    /\ UNCHANGED <<vars, enabled, hasKey, request, sealing>>
    /\ StreamOnly

\* A thread runs on in a freed session; two threads are at streaming_thread_; a handle
\* that is closed is used for a transfer, to submit it again or to cancel it.
TouchesFreed == spc \notin {"none", "ended"} /\ dpc = "freed"
RacesForStream == spc = "startStreaming" /\ dpc \in {"stopping", "destroying"}
UsesClosedHandle ==
    \/ cpc = "submit" /\ ~handleOpen
    \/ opc = "cancel" /\ transfer = "orphaned"

Crashes ==
    /\ TouchesFreed \/ RacesForStream \/ UsesClosedHandle
    /\ crashed' = TRUE
    /\ UNCHANGED <<vars, dpc, spc, given, sessionRunning, stopRequested, messages>>
    /\ UNCHANGED <<deviceVars, cryptoVars>>

-----------------------------------------------------------------------------
Alive == ~crashed /\ ~Terminated

Over ==
    /\ ~Alive \/ (dpc = "freed" /\ spc = "ended") \/ Stranded
    /\ UNCHANGED allVars

SessionNext ==
    \/ Alive /\
          (Daemon \/ SessionThread \/ SessionCapture \/ SessionProcess
             \/ CancellationTakesEffect \/ DeviceActs \/ RaceInQueue \/ OthersDisable
             \/ Crashes)
    \/ Over

\* The daemon finishes a destruction it has begun, the stream's threads run, and a
\* cancellation takes effect.  No client has to send or to read anything, nobody has to
\* end the session, and the session's own thread may be held up for ever.
SessionFairness ==
    /\ WF_allVars(Alive /\ (StopsStreaming \/ Stopped \/ Freed))
    /\ WF_allVars(Alive /\ (SessionCapture \/ Crashes))
    /\ WF_allVars(Alive /\ Prepares)
    /\ WF_allVars(Alive /\ CancellationTakesEffect)

SessionSpec == SessionInitial /\ [][SessionNext]_allVars /\ SessionFairness

-----------------------------------------------------------------------------
(* Properties *)

\* The session's and the stream's variables have their types, and a handle is open for
\* the stream only if the session was given a device.
SessionTypeOK ==
    /\ TypeOK
    /\ dpc \in DaemonPC /\ spc \in SessionPC
    /\ {given, sessionRunning, stopRequested, enabled, hasKey, context, crashed}
          \subseteq BOOLEAN
    /\ handleOpen \in BOOLEAN /\ (handleOpen => given)
    /\ streamsDevice \in BOOLEAN /\ (streamsDevice => handleOpen)
    /\ messages \in 0..MaxMessages
    /\ request \in Request
    /\ sealing \in SealingPC
    /\ promise \in Promise

\* From the answer ENCRYPTION_READY until the client disables encryption, no report of
\* its device is about to be sent in the clear, whatever the interleaving of the
\* handlers with the process thread and however often encryption is enabled again.
\* Promise names the five cases in which the code does send it in the clear.
PromiseKept == promise = "given" => sealing # "clear"

\* A session that has been destroyed leaves no thread of its stream behind, which would
\* call encrypt_data on it, on whichever way the daemon came to destroy it and wherever
\* its own thread was between claiming the device and starting the stream.
StreamEndsWithSession ==
    dpc = "freed" /\ ~crashed =>
        cpc \in {"none", "exited"} /\ ppc \in {"none", "exited"}

\* A destruction that the daemon has begun comes to an end, whatever the session's
\* threads are at and even when the device was released under the stream, if only by
\* bringing the process down; as long as the client reads, and stop() and the callback
\* were not inside try_push at once.
DestructionEnds ==
    ClientReads =>
        (dpc \in {"stopping", "destroying"} ~>
             dpc = "freed" \/ ~Alive \/ "collision" \in streamGaps)
=============================================================================
