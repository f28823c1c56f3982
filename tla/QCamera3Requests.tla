-------------------------- MODULE QCamera3Requests --------------------------
(***************************************************************************)
(* The capture requests of the camera HAL3, QCamera3HWI.cpp: the list of   *)
(* pending requests and the map of pending buffers, the client's thread    *)
(* that blocks while too many are in flight, the callbacks with metadata   *)
(* and image buffers, and flush, which runs on another thread.  Each       *)
(* handler holds mMutex from its first step to its last, but for the wait  *)
(* of the client and the time flush stops the channels.                    *)
(*                                                                         *)
(* A frame's output for one stream is <<frame, stream>>.  A reprocess      *)
(* request has an input buffer and the jpeg stream as its only output.     *)
(*                                                                         *)
(* A definition named Slip_ is no part of the model: it is the one below   *)
(* it with a plausible bug, kept to show that a property would notice.     *)
(***************************************************************************)
EXTENDS Integers, Sequences, FiniteSets

CONSTANTS
    Streams, Blob,           \* configured streams; the one of format BLOB
    OutputSets,              \* the sets of streams a capture may ask for
    MaxFrame,                \* bound: frame numbers given out
    MaxTimeouts,             \* bound: waits that last 5 seconds
    MIN_INFLIGHT_REQUESTS, MAX_INFLIGHT_REQUESTS

ASSUME StreamAssumption ==
    Blob \in Streams /\ OutputSets \subseteq SUBSET Streams /\ {} \notin OutputSets
ASSUME InflightAssumption ==
    /\ MIN_INFLIGHT_REQUESTS \in Nat \ {0} /\ MAX_INFLIGHT_REQUESTS \in Nat
    /\ MIN_INFLIGHT_REQUESTS <= MAX_INFLIGHT_REQUESTS
ASSUME BoundAssumption == MaxFrame \in Nat \ {0} /\ MaxTimeouts \in Nat

Frames == 1 .. MaxFrame
Buffers == Frames \X Streams

VARIABLES
    mPendingRequestsList,          \* in the order of frame numbers
    mPendingBuffersMap,            \* buffers not returned to the framework
    mPendingFrameDropList,         \* buffers the framework was told are dropped
    mPendingReprocessResultList,   \* frames of the reprocess results kept back
    mPendingRequest, mFirstRequest, mFlush, mWokenUpByDaemon,
    client,                        \* the thread in processCaptureRequest
    flusher,                       \* how far flush has stopped the channels
    metaDue, imageDue,             \* what the channels still owe
    next,                          \* the next frame number
    handed, reprocess, refused, timeouts,   \* history: what the framework asked
    results, shutters,             \* history: what it was answered
    told                           \* history: buffers reported dropped

lists == <<mPendingRequestsList, mPendingBuffersMap, mPendingFrameDropList, mPendingReprocessResultList>>
flags == <<mPendingRequest, mFirstRequest, mFlush, mWokenUpByDaemon>>
channels == <<metaDue, imageDue>>
asked == <<next, handed, reprocess, refused, timeouts>>
answers == <<results, shutters, told>>
vars == <<lists, flags, client, flusher, channels, asked, answers>>

Pending == {mPendingRequestsList[k] : k \in DOMAIN mPendingRequestsList}
PendingFrames == {i.frame : i \in Pending}
Index(f) == CHOOSE k \in DOMAIN mPendingRequestsList : mPendingRequestsList[k].frame = f
Requested(f) == mPendingRequestsList[Index(f)]

(* erasePendingRequest: the list without the request of frame f. *)
Erase(f) ==
    IF f \notin PendingFrames THEN mPendingRequestsList
    ELSE [k \in 1 .. Len(mPendingRequestsList) - 1 |->
            mPendingRequestsList[IF k < Index(f) THEN k ELSE k + 1]]

Outputs(f, S) == {<<f, s>> : s \in S}

(* pthread_cond_signal wakes the client only if it waits. *)
Slip_Signal == client' = client

Signal == client' = IF client = "waiting" THEN "signalled" ELSE client

Answer(bufs, Status(_)) ==
    results' = [b \in Buffers |-> IF b \in bufs THEN Append(results[b], Status(b)) ELSE results[b]]

-----------------------------------------------------------------------------
(* processCaptureRequest.  The first request after a configuration starts   *)
(* the channels and the count anew, even if it is refused later on.         *)
Refuse ==
    /\ client = "idle" /\ mFirstRequest
    /\ mPendingRequest' = 0 /\ mWokenUpByDaemon' = FALSE
    /\ UNCHANGED <<lists, mFirstRequest, mFlush, client, flusher, channels, asked, answers>>

RequestInfo(f, S, input) == [frame |-> f, streams |-> S, filled |-> {}, input |-> input]

Enqueued(i) == Append(mPendingRequestsList, i)

Push(f, S, input) ==
    /\ mPendingRequestsList' = Enqueued(RequestInfo(f, S, input))
    /\ mPendingBuffersMap' = mPendingBuffersMap \cup Outputs(f, S)
    /\ next' = f + 1
    /\ handed' = handed \cup Outputs(f, S)
    /\ reprocess' = IF input THEN reprocess \cup {f} ELSE reprocess
    /\ UNCHANGED <<mPendingFrameDropList, mPendingReprocessResultList>>

(* The channels are asked.  A buffer that one of them fails to queue, or    *)
(* that is filled before it bears its frame number, is never returned.      *)
RequestChannels(f, S, input) ==
    /\ \E lost \in SUBSET S : imageDue' = imageDue \cup Outputs(f, S \ lost)
    /\ metaDue' = IF input THEN metaDue ELSE metaDue \cup {f}

InFlight == IF mFirstRequest THEN 0 ELSE mPendingRequest

processCaptureRequest(S, input) ==
    /\ client = "idle" /\ next \in Frames
    /\ Push(next, S, input)
    /\ \/ /\ mFlush   \* neither asked of the channels nor counted
          /\ mPendingRequest' = InFlight
          /\ mWokenUpByDaemon' = (mWokenUpByDaemon /\ ~mFirstRequest)
          /\ UNCHANGED <<mFirstRequest, client, channels, refused>>
       \/ /\ ~mFlush /\ input   \* the picture channel fails: an error, after all this
          /\ mPendingRequest' = InFlight
          /\ mWokenUpByDaemon' = (mWokenUpByDaemon /\ ~mFirstRequest)
          /\ refused' = refused \cup {next}
          /\ UNCHANGED <<mFirstRequest, client, channels>>
       \/ /\ ~mFlush
          /\ RequestChannels(next, S, input)
          /\ mFirstRequest' = FALSE
          /\ mWokenUpByDaemon' = (mWokenUpByDaemon /\ ~mFirstRequest)
          /\ mPendingRequest' = InFlight + 1
          /\ client' = IF InFlight + 1 >= MIN_INFLIGHT_REQUESTS THEN "waiting" ELSE "idle"
          /\ UNCHANGED refused
    /\ UNCHANGED <<mFlush, flusher, timeouts, answers>>

(* When the client that was signalled need not wait any longer. *)
MayReturn ==
    \/ mPendingRequest < MIN_INFLIGHT_REQUESTS
    \/ mWokenUpByDaemon /\ mPendingRequest < MAX_INFLIGHT_REQUESTS

Wake ==
    /\ client = "signalled"
    /\ client' = IF MayReturn THEN "idle" ELSE "waiting"
    /\ mWokenUpByDaemon' = FALSE
    /\ UNCHANGED <<lists, mPendingRequest, mFirstRequest, mFlush, flusher, channels, asked, answers>>

Timeout ==
    /\ client = "waiting" /\ timeouts < MaxTimeouts
    /\ client' = "idle" /\ timeouts' = timeouts + 1
    /\ UNCHANGED <<lists, flags, flusher, channels, next, handed, reprocess, refused, answers>>

camEvtHandle ==   \* CAM_EVENT_TYPE_DAEMON_PULL_REQ
    /\ mWokenUpByDaemon' = TRUE
    /\ Signal
    /\ UNCHANGED <<lists, mPendingRequest, mFirstRequest, mFlush, flusher, channels, asked, answers>>

-----------------------------------------------------------------------------
(* handleMetadataWithLock: the metadata of frame n, which says that the     *)
(* streams of D lost their frame, ends the first k requests of the list,    *)
(* all up to n, those whose own metadata was lost too.  After each of them  *)
(* a kept reprocess result of frame n + 1, if there is one, goes out.  If   *)
(* its request is the next one of the list, the loop looks at it once more  *)
(* after it was erased; its frame number still reads n + 1.                 *)
EndsFirst(k, n) ==
    /\ \A j \in 1 .. k : mPendingRequestsList[j].frame <= n
    /\ k < Len(mPendingRequestsList) => mPendingRequestsList[k + 1].frame > n

First(k) == {mPendingRequestsList[j] : j \in 1 .. k}

DropReported(k, D) == UNION {Outputs(i.frame, (i.streams \cap D) \ {Blob}) : i \in First(k)}

Slip_Filled(k) == {}

Filled(k) == UNION {Outputs(i.frame, i.filled) : i \in First(k)}

Slip_Released(k, n) == {}

Released(k, n) == {f \in mPendingReprocessResultList : k > 0 /\ f = n + 1}

Slip_Shutters(k, n) == [j \in 1 .. k |-> mPendingRequestsList[k + 1 - j].frame]

(* Shutter notifications, the one of a reprocess result after the first.    *)
Shutters(k, n) ==
    LET frames == [j \in 1 .. k |-> mPendingRequestsList[j].frame]
    IN IF Released(k, n) = {} THEN frames
       ELSE <<frames[1], n + 1>> \o Tail(frames)

Slip_StatusAt(b, n, D) == IF b \in mPendingFrameDropList THEN "error" ELSE "ok"

(* A dropped buffer that is filled already is marked under the number of    *)
(* the metadata, not of its own request.                                    *)
StatusAt(b, n, D) == IF b[1] = n /\ b[2] \in D \ {Blob} THEN "error" ELSE "ok"

EndRequests(k, n, D) ==
    LET released == Released(k, n) \cap PendingFrames
        left == IF released = {} THEN mPendingRequestsList ELSE Erase(n + 1) IN
    /\ mPendingRequestsList' = SubSeq(left, k + 1, Len(left))
    /\ mPendingRequest' = mPendingRequest - k - (IF released = {} THEN 0 ELSE 1)
    /\ mPendingReprocessResultList' = mPendingReprocessResultList \ Released(k, n)
    /\ mPendingFrameDropList' =
            (mPendingFrameDropList \cup DropReported(k, D)) \ {b \in Filled(k) : b[1] = n}
    /\ mPendingBuffersMap' = mPendingBuffersMap \ Filled(k)
    /\ Answer(Filled(k) \cup (released \X {Blob}), LAMBDA b : StatusAt(b, n, D))
    /\ shutters' = shutters \o Shutters(k, n)
    /\ told' = told \cup DropReported(k, D)

handleMetadataWithLock(n, D) ==
    /\ n \in metaDue
    /\ metaDue' = {m \in metaDue : m > n}
    /\ \E k \in 0 .. Len(mPendingRequestsList) : EndsFirst(k, n) /\ EndRequests(k, n, D)
    /\ Signal
    /\ UNCHANGED <<mFirstRequest, mFlush, mWokenUpByDaemon, flusher, imageDue, asked>>

(* Metadata without a valid frame number only wakes the client. *)
StartOfFrame ==
    /\ ~mFirstRequest /\ flusher # "stopped"
    /\ Signal
    /\ UNCHANGED <<lists, flags, flusher, channels, asked, answers>>

-----------------------------------------------------------------------------
(* handleBufferWithLock: a buffer whose request has ended goes out at once, *)
(* the result of a reprocess request unless an earlier request is pending,  *)
(* and any other waits for the metadata.                                    *)
BufferOfEndedRequest(b) ==
    /\ b[1] \notin PendingFrames
    /\ Answer({b}, LAMBDA c : IF c \in mPendingFrameDropList THEN "error" ELSE "ok")
    /\ mPendingFrameDropList' = mPendingFrameDropList \ {b}
    /\ mPendingBuffersMap' = mPendingBuffersMap \ {b}
    /\ UNCHANGED <<mPendingRequestsList, mPendingReprocessResultList, mPendingRequest, shutters>>

BufferOfReprocess(b) ==
    /\ b[1] \in PendingFrames /\ Requested(b[1]).input
    /\ mPendingBuffersMap' = mPendingBuffersMap \ {b}
    /\ IF \E f \in PendingFrames : f < b[1]
       THEN /\ mPendingReprocessResultList' = mPendingReprocessResultList \cup {b[1]}
            /\ UNCHANGED <<mPendingRequestsList, mPendingRequest, results, shutters>>
       ELSE /\ mPendingRequestsList' = Erase(b[1])
            /\ mPendingRequest' = mPendingRequest - 1
            /\ Answer({b}, LAMBDA c : "ok")
            /\ shutters' = Append(shutters, b[1])
            /\ UNCHANGED mPendingReprocessResultList
    /\ UNCHANGED mPendingFrameDropList

BufferOfPendingRequest(b) ==
    /\ b[1] \in PendingFrames /\ ~Requested(b[1]).input
    /\ mPendingRequestsList' =
            [k \in DOMAIN mPendingRequestsList |->
                IF mPendingRequestsList[k].frame = b[1]
                THEN [mPendingRequestsList[k] EXCEPT !.filled = @ \cup {b[2]}]
                ELSE mPendingRequestsList[k]]
    /\ UNCHANGED <<mPendingBuffersMap, mPendingFrameDropList, mPendingReprocessResultList,
                   mPendingRequest, results, shutters>>

handleBufferWithLock(b) ==
    /\ b \in imageDue
    /\ imageDue' = imageDue \ {b}
    /\ BufferOfEndedRequest(b) \/ BufferOfReprocess(b) \/ BufferOfPendingRequest(b)
    /\ UNCHANGED <<mFirstRequest, mFlush, mWokenUpByDaemon, client, flusher, metaDue, asked, told>>

-----------------------------------------------------------------------------
(* flush: the channels stop without the lock, the metadata channel last.    *)
FlushBegin ==
    /\ flusher = "idle"
    /\ mFlush' = TRUE /\ flusher' = "stopping"
    /\ UNCHANGED <<lists, mPendingRequest, mFirstRequest, mWokenUpByDaemon, client, channels, asked, answers>>

Slip_StopStreams ==   \* does not wait for the callbacks
    /\ flusher = "stopping"
    /\ flusher' = "streamsStopped"
    /\ UNCHANGED <<lists, flags, client, channels, asked, answers>>

StopStreams ==
    /\ flusher = "stopping"
    /\ imageDue' = {} /\ flusher' = "streamsStopped"
    /\ UNCHANGED <<lists, flags, client, metaDue, asked, answers>>

StopMetadata ==
    /\ flusher = "streamsStopped"
    /\ metaDue' = {} /\ flusher' = "stopped"
    /\ UNCHANGED <<lists, flags, client, imageDue, asked, answers>>

(* The oldest pending frame; of an empty list, whatever its end marker has. *)
OldestFrames == IF mPendingRequestsList = <<>> THEN 0 .. MaxFrame + 1 ELSE {Head(mPendingRequestsList).frame}

Slip_FlushStatus(b, frameNum) == "failed"

(* From the oldest pending frame on, the request is reported as failed; for *)
(* an earlier frame, whose metadata went out, only the buffer.              *)
FlushStatus(b, frameNum) == IF b[1] >= frameNum THEN "failed" ELSE "error"

Slip_FlushCount == mPendingRequest

(* What remains in flight. *)
FlushCount == 0

Flush ==
    /\ flusher = "stopped"
    /\ mPendingRequest' = FlushCount
    /\ Signal
    /\ \E frameNum \in OldestFrames : Answer(mPendingBuffersMap, LAMBDA b : FlushStatus(b, frameNum))
    /\ mPendingRequestsList' = <<>> /\ mPendingReprocessResultList' = {}
    /\ mPendingFrameDropList' = {} /\ mPendingBuffersMap' = {}
    /\ refused' = {}
    /\ mFlush' = FALSE /\ flusher' = "idle"
    /\ UNCHANGED <<mFirstRequest, mWokenUpByDaemon, channels, next, handed, reprocess, timeouts, shutters, told>>

(* configureStreams, which the framework calls when all it has handed over  *)
(* is back.                                                                 *)
configureStreams ==
    /\ client = "idle" /\ flusher = "idle" /\ ~mFirstRequest
    /\ \A b \in handed : results[b] # <<>> \/ b[1] \in refused
    /\ mPendingRequestsList' = <<>> /\ mPendingReprocessResultList' = {}
    /\ mPendingFrameDropList' = {} /\ mPendingBuffersMap' = {}
    /\ metaDue' = {} /\ imageDue' = {}
    /\ refused' = {}
    /\ handed' = {b \in handed : results[b] # <<>>}
    /\ mFirstRequest' = TRUE
    /\ UNCHANGED <<mPendingRequest, mFlush, mWokenUpByDaemon, client, flusher, next, reprocess, timeouts, answers>>

-----------------------------------------------------------------------------
(* After the first configureStreams. *)
Init ==
    /\ mPendingRequestsList = <<>> /\ mPendingReprocessResultList = {}
    /\ mPendingBuffersMap = {} /\ mPendingFrameDropList = {}
    /\ mPendingRequest = 0 /\ mFirstRequest = TRUE
    /\ mFlush = FALSE /\ mWokenUpByDaemon = FALSE
    /\ client = "idle" /\ flusher = "idle"
    /\ metaDue = {} /\ imageDue = {}
    /\ next = 1 /\ handed = {} /\ reprocess = {} /\ refused = {} /\ timeouts = 0
    /\ results = [b \in Buffers |-> <<>>] /\ shutters = <<>> /\ told = {}

Request ==
    \/ \E S \in OutputSets : processCaptureRequest(S, FALSE)
    \/ processCaptureRequest({Blob}, TRUE)

Metadata == \E n \in Frames, D \in SUBSET Streams : handleMetadataWithLock(n, D)

Image(s) == \E f \in Frames : handleBufferWithLock(<<f, s>>)

FlushStep == StopStreams \/ StopMetadata \/ Flush

Next ==
    \/ Refuse \/ Request \/ Wake \/ Timeout \/ camEvtHandle
    \/ Metadata \/ StartOfFrame \/ \E s \in Streams : Image(s)
    \/ FlushBegin \/ FlushStep
    \/ configureStreams

(* The threads run, the sensor streams, and each stream but the jpeg one    *)
(* returns the buffers it has queued.                                       *)
Fairness ==
    /\ WF_vars(Wake) /\ WF_vars(FlushStep)
    /\ WF_vars(Metadata) /\ WF_vars(StartOfFrame)
    /\ \A s \in Streams \ {Blob} : WF_vars(Image(s))

Spec == Init /\ [][Next]_vars /\ Fairness

-----------------------------------------------------------------------------
RequestInfos == [frame : Frames, streams : SUBSET Streams, filled : SUBSET Streams, input : BOOLEAN]

(* Types, with the order of the list.  The count may become negative: a     *)
(* request the picture channel refused is on the list but never counted.    *)
TypeOK ==
    /\ mPendingRequestsList \in Seq(RequestInfos)
    /\ \A k, l \in DOMAIN mPendingRequestsList :
            k < l => mPendingRequestsList[k].frame < mPendingRequestsList[l].frame
    /\ mPendingBuffersMap \subseteq Buffers /\ mPendingFrameDropList \subseteq Buffers
    /\ mPendingReprocessResultList \subseteq Frames
    /\ mPendingRequest \in Int
    /\ mFirstRequest \in BOOLEAN /\ mFlush \in BOOLEAN /\ mWokenUpByDaemon \in BOOLEAN
    /\ client \in {"idle", "waiting", "signalled"}
    /\ flusher \in {"idle", "stopping", "streamsStopped", "stopped"}
    /\ metaDue \subseteq Frames /\ imageDue \subseteq Buffers
    /\ next \in 1 .. MaxFrame + 1 /\ timeouts \in 0 .. MaxTimeouts
    /\ handed \subseteq Buffers /\ reprocess \subseteq Frames /\ refused \subseteq Frames
    /\ results \in [Buffers -> Seq({"ok", "error", "failed"})]
    /\ shutters \in Seq(Frames) /\ told \subseteq Buffers

(* No buffer is returned twice, whatever callback, metadata and flush do;   *)
(* and a capture's buffer is in mPendingBuffersMap, where flush finds it,   *)
(* exactly until it is returned.                                            *)
BuffersAccounted ==
    \A b \in Buffers :
        /\ Len(results[b]) <= 1
        /\ b[1] \notin reprocess => (b \in mPendingBuffersMap <=> b \in handed /\ results[b] = <<>>)

(* mPendingRequest counts the pending requests, less those refused since    *)
(* the count was last reset, through missed metadata, kept reprocess        *)
(* results and flush.                                                       *)
CountMatches ==
    ~mFirstRequest /\ ~mFlush => mPendingRequest = Len(mPendingRequestsList) - Cardinality(refused)

(* The client is never let through with MAX_INFLIGHT_REQUESTS in flight,    *)
(* unless a wait timed out.                                                 *)
InFlightBounded ==
    ~mFlush => Len(mPendingRequestsList) <= MAX_INFLIGHT_REQUESTS + timeouts + Cardinality(refused)

(* Each frame has one shutter notification at most, and those of captures   *)
(* are in the order of frames.                                              *)
ShuttersInOrder ==
    \A k, l \in DOMAIN shutters :
        k < l => /\ shutters[k] # shutters[l]
                 /\ {shutters[k], shutters[l]} \cap reprocess = {} => shutters[k] < shutters[l]

(* A buffer reported as dropped never comes back as good later on, whether  *)
(* it is filled after the report or flushed; and in the step that reports   *)
(* it only if the metadata are those of a later frame: a buffer that was    *)
(* filled before is then looked up under that frame's number.               *)
DroppedIsError ==
    [][\A b \in told' : results[b] = <<>> /\ results'[b] = <<"ok">> =>
            b \notin told /\ \E n \in metaDue \ metaDue' : b[1] < n]_vars

(* "Check whether any stream buffer corresponding to this is dropped or     *)
(* not.  If dropped, then send the ERROR_BUFFER for the corresponding       *)
(* stream" (QCamera3HWI.cpp:1940): what is reported dropped is not returned *)
(* as good as well.                                                         *)
DroppedNeverGood == \A b \in told : results[b] # <<"ok">>

(* A reprocess result kept for the sake of the capture right before it goes *)
(* out with that capture's metadata.                                        *)
KeptAwaitsCapture ==
    \A f \in mPendingReprocessResultList \cap PendingFrames :
        f - 1 \notin reprocess => f - 1 \in PendingFrames

(* While requests are pending, flush reports as a failed request none whose *)
(* shutter was sent: for buffers "for which metadata buffer is already      *)
(* sent" it reports the buffers (QCamera3HWI.cpp:2967).                     *)
ErrorRequestsUnstarted ==
    [][mPendingRequestsList # <<>> =>
        \A b \in Buffers, k \in DOMAIN shutters :
            results[b] = <<>> /\ results'[b] = <<"failed">> => b[1] # shutters[k]]_vars

(* Each buffer of a stream, once queued, is returned, even if the metadata  *)
(* of its frame is missed or a flush comes between.                         *)
CaptureAnswered ==
    \A b \in {c \in Buffers : c[2] # Blob} : b \in imageDue ~> results[b] # <<>>

(* The client that waits is let through, unless a reprocess request that    *)
(* nothing may end is in its way.                                           *)
ClientReturns == client # "idle" ~> client = "idle" \/ \E i \in Pending : i.input

=============================================================================
