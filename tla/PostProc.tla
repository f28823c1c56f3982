------------------------------ MODULE PostProc ------------------------------
(***************************************************************************)
(* From a ZSL frame to the picture in the application's hands:             *)
(* QCameraPostProcessor with its data and save threads, the reprocess      *)
(* channels it feeds, the jpeg library, and the snapshot side of           *)
(* QCameraCbNotifier, built on QCameraQueue and QCameraCmdThread.  The     *)
(* threads that meet here: the state machine's (and the deferred work      *)
(* thread, which starts the post-processor for it), the frame thread of    *)
(* the ZSL channel, one thread per reprocess channel, the data thread, the *)
(* save thread and the notifier.                                           *)
(***************************************************************************)
EXTENDS Integers, FiniteSets, Sequences, SequencesExt

CONSTANTS
    None,          \* nothing in hand
    Frames,        \* the buffers (super buffers) of the ZSL channel, by number
    Modes,         \* the settings under which pictures are taken
    MaxBacklog,    \* bound: commands of the data thread and pictures in the notifier when a long shot takes another frame
    MaxJobs,       \* bound: identifiers of jpeg jobs
    MaxLeftovers   \* bound: events, commands and busy threads left over when the next picture is taken

Passes == 1 .. 2

(* raw: NV16 or NV21 pictures; total: reprocess passes (needReprocess, getReprocCount); outs: output     *)
(* buffers of a reprocess channel; save: a long shot's pictures are written to files; fails: the encoder or the        *)
(* reprocess stream may refuse a job or fail it, once in the capture.                                     *)
ModeSet == [raw : BOOLEAN, total : 0 .. 2, shots : Nat \ {0}, outs : Nat, longshot : BOOLEAN, save : BOOLEAN,
            fails : BOOLEAN]
ASSUME ModesAssumption == Modes # {} /\ Modes \subseteq ModeSet /\ Frames \subseteq Nat

ASSUME BoundsAssumption == MaxBacklog \in Nat /\ MaxJobs \in Nat /\ MaxLeftovers \in Nat

(* A super buffer: the channel it belongs to (0 is ZSL, i the i-th reprocess channel) and the frame       *)
(* whose picture it holds.  None is no buffer and nothing a thread may have in its hands.                 *)
Buffer == [ch : 0 .. 2, of : Frames]
Source(f) == [ch |-> 0, of |-> f]
ASSUME NoneAssumption ==
    None \notin Buffer \cup [frame : Frames, at : {"got", "queued"}]
                  \cup [out : Buffer, job : [src : Buffer, orig : Buffer, count : 1 .. 2]]

VARIABLES
    hal,             \* the capture: stopped, starting, running, stopping
    mode,            \* the settings of the capture
    clean,           \* history: the capture was begun with nothing left over of an earlier one
    told,            \* the application was told of an error in this capture
    mTotalNumReproc,
    wanted,          \* frames the ZSL channel was asked for and has not delivered
    evt_queue,       \* the state machine's events: finished jpeg jobs and SNAPSHOT_DONE
    home,            \* how often each buffer is with the ZSL channel
    queued,          \* output buffers queued to each reprocess channel (getNumQueuedBuf)
    frameTh,         \* the frame in the hands of the ZSL channel's thread
    ppTh,            \* the output and the job in the hands of each reprocess channel's thread
    reproc,          \* frames each reprocess channel works on
    m_inputPPQ, m_ongoingPPQ, m_inputJpegQ, m_ongoingJpegQ, m_inputRawQ, m_inputSaveQ,
    data, dataCmds, dataSync,   \* the data thread, its commands and its sync_sem
    save, saveCmds, saveSync,   \* the save thread (is_active), its commands and its sync_sem
    encoding,                   \* jobs of the jpeg library
    note, noteCmds, mDataQ      \* the notifier, its commands and the pictures to deliver

halVars == <<hal, mode, clean, mTotalNumReproc, wanted>>
frameVars == <<frameTh, ppTh, reproc>>
chVars == <<home, queued>>
inputs == <<m_inputPPQ, m_inputJpegQ, m_inputRawQ>>
ongoing == <<m_ongoingPPQ, m_ongoingJpegQ>>
dataVars == <<data, dataCmds, dataSync>>
saveVars == <<save, saveCmds, saveSync, m_inputSaveQ>>
noteVars == <<note, noteCmds, mDataQ>>
vars == <<halVars, told, evt_queue, frameVars, chVars, inputs, ongoing, dataVars, saveVars, encoding, noteVars>>

-----------------------------------------------------------------------------
(* QCameraQueue gives and takes only while it is active; flush empties and deactivates it.  What the      *)
(* nodes held is released by the caller's releaseSuperBufs below.                                        *)
Empty == [active |-> TRUE, list |-> <<>>]
init(q) == [q EXCEPT !.active = TRUE]
flush(q) == [active |-> FALSE, list |-> <<>>]
enqueue(q, x) == IF q.active THEN [q EXCEPT !.list = Append(@, x)] ELSE q
dequeue(q) == [q EXCEPT !.list = Tail(@)]
dequeueLast(q) == [q EXCEPT !.list = Front(@)]
HasNext(q) == q.active /\ q.list # <<>>
Slip_peek(q) == Last(q.list)
peek(q) == Head(q.list)

(* QCameraCmdThread.sendCmd: to the end, or in front of everything with priority.                        *)
sendCmd(cmds, c) == Append(cmds, c)
sendCmdFirst(cmds, c) == <<c>> \o cmds

-----------------------------------------------------------------------------
(* releaseSuperBuf for a sequence of super buffers: each goes back to its channel, if that exists; where   *)
(* there is None, nothing is released.                                                                   *)
releaseSuperBufs(s) ==
    /\ home' = [f \in Frames |-> home[f] + Cardinality({k \in DOMAIN s : s[k] = Source(f)})]
    /\ queued' = [i \in Passes |-> IF i > mTotalNumReproc THEN queued[i]
                                   ELSE queued[i] + Cardinality({k \in DOMAIN s : s[k] # None /\ s[k].ch = i})]

(* A request and an ongoing job of the reprocess hold the frame to process and the ZSL frame it was made   *)
(* from, the same in the first pass; a jpeg job holds the picture and the ZSL frame if there was a pass.  *)
NewRequest(f) == [src |-> Source(f), orig |-> Source(f), count |-> 0]
NewJpegJob(b, orig) == [src |-> b, orig |-> orig, id |-> 0]
Slip_releasePPInputData(job) == <<job.src, job.orig>>
releasePPInputData(job) == IF job.src = job.orig THEN <<job.src>> ELSE <<job.src, job.orig>>
releaseJpegJobData(job) == <<job.orig, job.src>>
InputsOf(list) == FlattenSeq([i \in DOMAIN list |-> releasePPInputData(list[i])])
JpegsOf(list) == FlattenSeq([i \in DOMAIN list |-> releaseJpegJobData(list[i])])

(* sendDataNotify and notifyCallback: the picture is queued, the notifier woken.  x is the super buffer    *)
(* the callback's release gives back, or None.                                                           *)
Slip_sendDataNotify(x) == mDataQ' = Append(mDataQ, x) /\ noteCmds' = noteCmds
sendDataNotify(x) == mDataQ' = Append(mDataQ, x) /\ noteCmds' = sendCmd(noteCmds, "next")

Init ==
    /\ hal = "stopped" /\ mode \in Modes /\ clean = TRUE /\ told = FALSE /\ mTotalNumReproc = 0
    /\ wanted = 0 /\ evt_queue = <<>>
    /\ home = [f \in Frames |-> 1] /\ queued = [i \in Passes |-> 0]
    /\ frameTh = None /\ ppTh = [i \in Passes |-> None] /\ reproc = [i \in Passes |-> <<>>]
    /\ m_inputPPQ = Empty /\ m_ongoingPPQ = Empty /\ m_inputJpegQ = Empty /\ m_ongoingJpegQ = Empty
    /\ m_inputRawQ = Empty /\ m_inputSaveQ = Empty
    /\ data = [at |-> "wait", active |-> FALSE, id |-> 0] /\ dataCmds = <<>> /\ dataSync = 0
    /\ save = FALSE /\ saveCmds = <<>> /\ saveSync = 0
    /\ encoding = {}
    /\ note = [at |-> "wait", active |-> FALSE, longshot |-> FALSE, expected |-> 0, rcvd |-> 0, hand |-> None]
    /\ noteCmds = <<>> /\ mDataQ = <<>>

-----------------------------------------------------------------------------
(* The state machine's thread.                                                                           *)

(* takePicture in ZSL mode: the deferred work thread adds the reprocess channels, starts the data thread  *)
(* and waits for it; the frames are asked for.                                                           *)
Leftovers == Len(evt_queue) + Len(dataCmds) + Len(saveCmds) + Len(noteCmds)
               + (IF note.at = "wait" THEN 0 ELSE 1) + (IF frameTh = None THEN 0 ELSE 1)
Start(m) ==
    /\ hal = "stopped" /\ Leftovers <= MaxLeftovers
    /\ hal' = "starting" /\ mode' = m /\ clean' = (Leftovers = 0) /\ told' = FALSE
    /\ mTotalNumReproc' = m.total
    /\ queued' = [i \in Passes |-> IF i <= m.total THEN m.outs ELSE 0]
    /\ wanted' = m.shots
    /\ dataCmds' = sendCmd(dataCmds, "start")
    /\ UNCHANGED <<evt_queue, home, frameVars, inputs, ongoing, data, dataSync, saveVars, encoding, noteVars>>

(* The data thread has started, and the notifier is started ahead of everything it has to do.             *)
Started ==
    /\ hal = "starting" /\ dataSync > 0
    /\ hal' = "running" /\ dataSync' = dataSync - 1
    /\ noteCmds' = sendCmdFirst(noteCmds, "start")
    /\ UNCHANGED <<mode, clean, mTotalNumReproc, wanted, told, evt_queue, frameVars, chVars, inputs, ongoing,
                   data, dataCmds, saveVars, encoding, note, mDataQ>>

(* stop, up to the wait for the data thread.                                                             *)
stop ==
    /\ hal' = "stopping"
    /\ noteCmds' = sendCmdFirst(noteCmds, "stop")
    /\ dataCmds' = sendCmdFirst(dataCmds, "stop")

(* cancelPicture, once the start is over (waitDefferedWork): for the application, or for SNAPSHOT_DONE.    *)
CancelPicture ==
    /\ hal = "running" /\ stop
    /\ UNCHANGED <<mode, clean, mTotalNumReproc, wanted, told, evt_queue, frameVars, chVars, inputs, ongoing,
                   data, dataSync, saveVars, encoding, note, mDataQ>>

(* SNAPSHOT_DONE during a capture cancels what is left of it; later it is only answered.                  *)
SnapshotDone ==
    /\ evt_queue # <<>> /\ Head(evt_queue).kind = "done"
    /\ evt_queue' = Tail(evt_queue)
    /\ \/ hal = "running" /\ stop /\ note' = [note EXCEPT !.at = "cancel"]
       \/ hal = "stopped" /\ note' = [note EXCEPT !.at = "answered"] /\ UNCHANGED <<hal, noteCmds, dataCmds>>
    /\ UNCHANGED <<mode, clean, mTotalNumReproc, wanted, told, frameVars, chVars, inputs, ongoing, data, dataSync,
                   saveVars, encoding, mDataQ>>

(* The rest of stop and of cancelPicture: the reprocess channels are stopped, which waits for their        *)
(* threads, and deleted; the ZSL channel forgets the frames it was asked for; a SNAPSHOT_DONE that was the *)
(* reason is answered.                                                                                   *)
Stopped ==
    /\ hal = "stopping" /\ dataSync > 0 /\ \A i \in Passes : ppTh[i] = None
    /\ hal' = "stopped" /\ dataSync' = dataSync - 1
    /\ mTotalNumReproc' = 0 /\ queued' = [i \in Passes |-> 0] /\ reproc' = [i \in Passes |-> <<>>]
    /\ wanted' = 0 /\ told' = FALSE
    /\ note' = IF note.at = "cancel" THEN [note EXCEPT !.at = "answered"] ELSE note
    /\ UNCHANGED <<mode, clean, evt_queue, home, frameTh, ppTh, inputs, ongoing, data, dataCmds, saveVars,
                   encoding, noteCmds, mDataQ>>

(* flushNodes(matchJobId): the job with this identifier leaves the queue and is released, if it is still   *)
(* there.  There is never more than one: the library's identifiers are apart (encodeData).               *)
flushNodes(id) ==
    LET list == m_ongoingJpegQ.list
        Matching == {k \in DOMAIN list : list[k].id = id}
    IN IF Matching = {} THEN UNCHANGED <<m_ongoingJpegQ, chVars>>
       ELSE \E k \in Matching : /\ m_ongoingJpegQ' = [m_ongoingJpegQ EXCEPT !.list = RemoveAt(@, k)]
                                /\ releaseSuperBufs(releaseJpegJobData(list[k]))

(* Requests that wait for an output buffer may have one now.                                             *)
Slip_WakeUps == <<>>
WakeUps == IF m_inputPPQ.list # <<>> THEN <<"next", "next">> ELSE <<"next">>

(* processJpegEvt: the picture goes to the save thread if that is active, or to the notifier.             *)
processJpegEvt(e) ==
    \/ /\ mode.save /\ mode.longshot
       /\ m_inputSaveQ' = enqueue(m_inputSaveQ, e.id)
       /\ saveCmds' = IF m_inputSaveQ.active THEN sendCmd(saveCmds, "next") ELSE saveCmds
       /\ dataCmds' = IF m_inputSaveQ.active THEN sendCmd(dataCmds, "next") ELSE dataCmds
       /\ UNCHANGED <<chVars, m_ongoingJpegQ, noteCmds, mDataQ, told>>
    \/ /\ ~(mode.save /\ mode.longshot)
       /\ flushNodes(e.id)
       /\ dataCmds' = dataCmds \o WakeUps
       /\ \/ e.ok /\ sendDataNotify(None) /\ UNCHANGED told
          \/ ~e.ok /\ told' = TRUE /\ UNCHANGED <<mDataQ, noteCmds>>
       /\ UNCHANGED <<m_inputSaveQ, saveCmds>>

(* A jpeg event counts during a capture only; in PREVIEWING it is dropped.                                *)
JpegEvent ==
    /\ evt_queue # <<>> /\ Head(evt_queue).kind = "jpeg" /\ hal # "stopping"
    /\ evt_queue' = Tail(evt_queue)
    /\ IF hal = "stopped"
       THEN UNCHANGED <<chVars, m_ongoingJpegQ, dataCmds, noteCmds, mDataQ, told, m_inputSaveQ, saveCmds>>
       ELSE processJpegEvt(Head(evt_queue))
    /\ UNCHANGED <<halVars, frameVars, inputs, m_ongoingPPQ, data, dataSync, save, saveSync, encoding, note>>

-----------------------------------------------------------------------------
(* The ZSL channel's thread.                                                                             *)

(* zsl_channel_cb: the channel delivers a frame it was asked for, in a long shot one after the other.  Its  *)
(* buffers are all alike: the first one it has stands for any.                                            *)
FrameArrives(f) ==
    /\ frameTh = None /\ wanted > 0 /\ home[f] > 0
    /\ \A g \in Frames : home[g] > 0 => f <= g
    /\ mode.longshot => Len(dataCmds) + Len(mDataQ) < MaxBacklog
    /\ frameTh' = [frame |-> f, at |-> "got"]
    /\ home' = [home EXCEPT ![f] = @ - 1]
    /\ wanted' = IF mode.longshot THEN wanted ELSE wanted - 1
    /\ UNCHANGED <<hal, mode, clean, mTotalNumReproc, told, evt_queue, queued, ppTh, reproc, inputs, ongoing,
                   dataVars, saveVars, encoding, noteVars>>

(* validatePostProcess: while requests wait, a reprocess channel with no more output buffers than jobs     *)
(* takes no frame of the ZSL channel.  Frames of a reprocess channel have no channel the HAL knows.       *)
validatePostProcess(b) == ~(b.ch = 0 /\ mTotalNumReproc > 0 /\ m_inputPPQ.list # <<>>
                              /\ Len(m_ongoingPPQ.list) >= queued[1])

(* processData, once the start is over (mReprocJob): the frame goes into the queue its settings call for,  *)
(* or back if that is closed, and the data thread is woken, for a raw frame that goes back as well        *)
(* (processRawData reports no refusal).                                                                   *)
processData ==
    /\ frameTh # None /\ frameTh.at = "got" /\ hal # "starting"
    /\ LET f == frameTh.frame
           GoesTo(q, wakes, refused) ==
               /\ dataCmds' = dataCmds \o (IF q.active THEN wakes ELSE refused)
               /\ releaseSuperBufs(IF q.active THEN <<>> ELSE <<Source(f)>>)
       IN \/ /\ mode.total > 0 /\ GoesTo(m_inputPPQ, <<>>, <<>>)
             /\ frameTh' = IF m_inputPPQ.active THEN [frameTh EXCEPT !.at = "queued"] ELSE None
             /\ m_inputPPQ' = enqueue(m_inputPPQ, NewRequest(f))
             /\ UNCHANGED <<m_inputJpegQ, m_inputRawQ>>
          \/ /\ mode.total = 0 /\ mode.raw /\ GoesTo(m_inputRawQ, <<"next", "next">>, <<"next">>)
             /\ frameTh' = None
             /\ m_inputRawQ' = enqueue(m_inputRawQ, Source(f))
             /\ UNCHANGED <<m_inputPPQ, m_inputJpegQ>>
          \/ /\ mode.total = 0 /\ ~mode.raw /\ GoesTo(m_inputJpegQ, <<"next">>, <<>>)
             /\ frameTh' = None
             /\ m_inputJpegQ' = enqueue(m_inputJpegQ, NewJpegJob(Source(f), None))
             /\ UNCHANGED <<m_inputPPQ, m_inputRawQ>>
    /\ UNCHANGED <<halVars, told, evt_queue, ppTh, reproc, ongoing, data, dataSync, saveVars, encoding, noteVars>>

(* With a reprocess it is woken in a step of its own, unless the reprocess channel could not take a frame. *)
processDataDone ==
    /\ frameTh # None /\ frameTh.at = "queued"
    /\ frameTh' = None
    /\ dataCmds' = IF validatePostProcess(Source(frameTh.frame))
                   THEN sendCmd(dataCmds, "next") ELSE dataCmds
    /\ UNCHANGED <<halVars, told, evt_queue, chVars, ppTh, reproc, inputs, ongoing, data, dataSync, saveVars,
                   encoding, noteVars>>

-----------------------------------------------------------------------------
(* The thread of the i-th reprocess channel.                                                             *)

(* The channel finishes the frame it has had longest, in an output buffer of its own, and processPPData     *)
(* takes the oldest ongoing job for it.  Without a job the output is lost.                                *)
ReprocOutput(i) ==
    /\ ppTh[i] = None /\ reproc[i] # <<>> /\ queued[i] > 0
    /\ reproc' = [reproc EXCEPT ![i] = Tail(@)]
    /\ queued' = [queued EXCEPT ![i] = @ - 1]
    /\ IF HasNext(m_ongoingPPQ)
       THEN /\ ppTh' = [ppTh EXCEPT ![i] = [out |-> [ch |-> i, of |-> Head(reproc[i]).of], job |-> peek(m_ongoingPPQ)]]
            /\ m_ongoingPPQ' = dequeue(m_ongoingPPQ)
       ELSE UNCHANGED <<ppTh, m_ongoingPPQ>>
    /\ UNCHANGED <<halVars, told, evt_queue, home, frameTh, inputs, m_ongoingJpegQ, dataVars, saveVars, encoding,
                   noteVars>>

(* Its rest: a raw picture goes on as it is, a frame with another pass ahead back to the input queue,       *)
(* every other to the encoder.  The frame a second pass was made from is released; what finds its queue     *)
(* closed too.                                                                                           *)
SpentInput(job) == IF job.count > 1 THEN <<job.src>> ELSE <<>>
processPPData(i) ==
    /\ ppTh[i] # None
    /\ ppTh' = [ppTh EXCEPT ![i] = None]
    /\ LET out == ppTh[i].out
           job == ppTh[i].job
           again == [src |-> out, orig |-> job.orig, count |-> job.count]
           jpeg == NewJpegJob(out, job.orig)
           GoesTo(q, spent, refused) ==
               /\ dataCmds' = IF q.active THEN sendCmd(dataCmds, "next") ELSE dataCmds
               /\ releaseSuperBufs(spent \o IF q.active THEN <<>> ELSE refused)
       IN \/ /\ mode.raw
             /\ m_inputRawQ' = enqueue(m_inputRawQ, out)
             /\ GoesTo(m_inputRawQ, releasePPInputData(job), <<out>>)
             /\ UNCHANGED <<m_inputPPQ, m_inputJpegQ>>
          \/ /\ ~mode.raw /\ job.count < mTotalNumReproc
             /\ m_inputPPQ' = enqueue(m_inputPPQ, again)
             /\ GoesTo(m_inputPPQ, SpentInput(job), releasePPInputData(again))
             /\ UNCHANGED <<m_inputJpegQ, m_inputRawQ>>
          \/ /\ ~mode.raw /\ job.count >= mTotalNumReproc
             /\ m_inputJpegQ' = enqueue(m_inputJpegQ, jpeg)
             /\ GoesTo(m_inputJpegQ, SpentInput(job), releaseJpegJobData(jpeg))
             /\ UNCHANGED <<m_inputPPQ, m_inputRawQ>>
    /\ UNCHANGED <<halVars, told, evt_queue, frameTh, reproc, ongoing, data, dataSync, saveVars, encoding, noteVars>>

-----------------------------------------------------------------------------
(* dataProcessRoutine.                                                                                   *)
DataTakes(c) == data.at = "wait" /\ dataCmds # <<>> /\ Head(dataCmds) = c /\ dataCmds' = Tail(dataCmds)

DataStart ==
    /\ DataTakes("start")
    /\ data' = [data EXCEPT !.active = TRUE]
    /\ m_ongoingPPQ' = init(m_ongoingPPQ) /\ m_inputJpegQ' = init(m_inputJpegQ)
    /\ m_inputPPQ' = init(m_inputPPQ) /\ m_inputRawQ' = init(m_inputRawQ)
    /\ saveCmds' = sendCmd(saveCmds, "start")
    /\ dataSync' = dataSync + 1
    /\ UNCHANGED <<halVars, told, evt_queue, frameVars, chVars, m_ongoingJpegQ, save, saveSync, m_inputSaveQ,
                   encoding, noteVars>>

(* The stop waits for the save thread's.                                                                  *)
DataStop ==
    /\ DataTakes("stop")
    /\ data' = [data EXCEPT !.active = FALSE, !.at = "saveStop"]
    /\ saveCmds' = sendCmdFirst(saveCmds, "stop")
    /\ UNCHANGED <<halVars, told, evt_queue, frameVars, chVars, inputs, ongoing, dataSync, save, saveSync,
                   m_inputSaveQ, encoding, noteVars>>

(* Then the jpeg jobs are aborted and everything is released.                                             *)
DataStopped ==
    /\ data.at = "saveStop" /\ saveSync > 0
    /\ saveSync' = saveSync - 1
    /\ data' = [data EXCEPT !.at = "wait"] /\ dataSync' = dataSync + 1
    /\ encoding' = encoding \ {m_ongoingJpegQ.list[k].id : k \in DOMAIN m_ongoingJpegQ.list}
    /\ m_ongoingJpegQ' = Empty
    /\ m_ongoingPPQ' = flush(m_ongoingPPQ) /\ m_inputJpegQ' = flush(m_inputJpegQ)
    /\ m_inputPPQ' = flush(m_inputPPQ) /\ m_inputRawQ' = flush(m_inputRawQ)
    /\ releaseSuperBufs(JpegsOf(m_ongoingJpegQ.list) \o InputsOf(m_ongoingPPQ.list)
                         \o JpegsOf(m_inputJpegQ.list) \o InputsOf(m_inputPPQ.list) \o m_inputRawQ.list)
    /\ UNCHANGED <<halVars, told, evt_queue, frameVars, dataCmds, save, saveCmds, m_inputSaveQ, noteVars>>

CanReprocess == HasNext(m_inputPPQ) /\ validatePostProcess(peek(m_inputPPQ).src)

(* The next job: a picture to encode first, then a raw one, then a request to reprocess.  An inactive       *)
(* thread would only empty its queues, which its stop has emptied and closed.                             *)
AfterEncode == IF HasNext(m_inputRawQ) THEN "raw" ELSE "reproc"
DataNext ==
    /\ DataTakes("next")
    /\ IF data.active /\ HasNext(m_inputJpegQ)
       THEN /\ m_ongoingJpegQ' = enqueue(m_ongoingJpegQ, peek(m_inputJpegQ))
            /\ m_inputJpegQ' = dequeue(m_inputJpegQ)
            /\ data' = [data EXCEPT !.at = "encode"]
       ELSE /\ data' = [data EXCEPT !.at = IF data.active /\ (HasNext(m_inputRawQ) \/ CanReprocess)
                                          THEN AfterEncode ELSE "wait"]
            /\ UNCHANGED <<m_ongoingJpegQ, m_inputJpegQ>>
    /\ UNCHANGED <<halVars, told, evt_queue, frameVars, chVars, m_inputPPQ, m_inputRawQ, m_ongoingPPQ, dataSync,
                   saveVars, encoding, noteVars>>

(* encodeData: the library takes the job and gives it an identifier, which is noted in the job afterwards   *)
(* (RecordJob), or refuses it.                                                                           *)
UsedIds == encoding \cup {evt_queue[k].id : k \in DOMAIN evt_queue} \cup Range(m_inputSaveQ.list)
             \cup {m_ongoingJpegQ.list[k].id : k \in DOMAIN m_ongoingJpegQ.list}
encodeData ==
    /\ data.at = "encode"
    /\ \/ \E id \in 1 .. MaxJobs \ UsedIds :
            /\ \A other \in 1 .. id - 1 : other \in UsedIds
            /\ encoding' = encoding \cup {id}
            /\ data' = [data EXCEPT !.at = "record", !.id = id]
            /\ UNCHANGED <<m_ongoingJpegQ, chVars, told>>
       \/ /\ mode.fails /\ ~told
          /\ data' = [data EXCEPT !.at = AfterEncode] /\ told' = TRUE
          /\ m_ongoingJpegQ' = dequeueLast(m_ongoingJpegQ)
          /\ releaseSuperBufs(releaseJpegJobData(Last(m_ongoingJpegQ.list)))
          /\ UNCHANGED encoding
    /\ UNCHANGED <<halVars, evt_queue, frameVars, inputs, m_ongoingPPQ, dataCmds, dataSync, saveVars, noteVars>>

RecordJob ==
    /\ data.at = "record"
    /\ data' = [data EXCEPT !.at = AfterEncode, !.id = 0]
    /\ m_ongoingJpegQ' = [m_ongoingJpegQ EXCEPT !.list[Len(m_ongoingJpegQ.list)].id = data.id]
    /\ UNCHANGED <<halVars, told, evt_queue, frameVars, chVars, inputs, m_ongoingPPQ, dataCmds, dataSync, saveVars,
                   encoding, noteVars>>

(* processRawImageImpl: a ZSL frame is delivered itself and released by the notifier; the output of a      *)
(* reprocess channel is copied, and never released.                                                      *)
ProcessRaw ==
    /\ data.at = "raw"
    /\ data' = [data EXCEPT !.at = "reproc"]
    /\ m_inputRawQ' = dequeue(m_inputRawQ)
    /\ \/ /\ sendDataNotify(IF peek(m_inputRawQ).ch = 0 THEN peek(m_inputRawQ) ELSE None)
          /\ UNCHANGED <<chVars, told>>
       \/ /\ mode.fails /\ ~told
          /\ releaseSuperBufs(<<peek(m_inputRawQ)>>) /\ told' = TRUE
          /\ UNCHANGED <<noteCmds, mDataQ>>
    /\ UNCHANGED <<halVars, evt_queue, frameVars, m_inputPPQ, m_inputJpegQ, ongoing, dataCmds, dataSync, saveVars,
                   encoding, note>>

(* doReprocess: the oldest request goes to the channel of its pass if that has a buffer for it.  One the    *)
(* channel refuses stays among the ongoing jobs.                                                         *)
doReprocess ==
    /\ data.at = "reproc"
    /\ data' = [data EXCEPT !.at = "wait"]
    /\ LET job == peek(m_inputPPQ)
           pass == job.count + 1
       IN \/ ~CanReprocess /\ UNCHANGED <<m_inputPPQ, m_ongoingPPQ, reproc, told>>
          \/ /\ CanReprocess
             /\ m_inputPPQ' = dequeue(m_inputPPQ)
             /\ m_ongoingPPQ' = enqueue(m_ongoingPPQ, [job EXCEPT !.count = pass])
             /\ \/ reproc' = [reproc EXCEPT ![pass] = Append(@, job.src)] /\ UNCHANGED told
                \/ mode.fails /\ ~told /\ told' = TRUE /\ UNCHANGED reproc
    /\ UNCHANGED <<halVars, evt_queue, frameTh, ppTh, chVars, m_inputJpegQ, m_inputRawQ, m_ongoingJpegQ, dataCmds,
                   dataSync, saveVars, encoding, noteVars>>

-----------------------------------------------------------------------------
(* The jpeg library finishes a job, well or with an error (jpegEvtHandle).                                *)
JpegDone(id, ok) ==
    /\ id \in encoding
    /\ encoding' = encoding \ {id}
    /\ evt_queue' = Append(evt_queue, [kind |-> "jpeg", id |-> id, ok |-> ok])
    /\ UNCHANGED <<halVars, told, frameVars, chVars, inputs, ongoing, dataVars, saveVars, noteVars>>

(* dataSaveRoutine.                                                                                      *)
SaveStep ==
    /\ saveCmds # <<>> /\ saveCmds' = Tail(saveCmds)
    /\ \/ /\ Head(saveCmds) = "start"
          /\ save' = TRUE /\ m_inputSaveQ' = init(m_inputSaveQ)
          /\ UNCHANGED <<saveSync, m_ongoingJpegQ, chVars, noteCmds, mDataQ>>
       \/ /\ Head(saveCmds) = "stop"
          /\ save' = FALSE /\ m_inputSaveQ' = flush(m_inputSaveQ) /\ saveSync' = saveSync + 1
          /\ UNCHANGED <<m_ongoingJpegQ, chVars, noteCmds, mDataQ>>
       \/ /\ Head(saveCmds) = "next" /\ ~HasNext(m_inputSaveQ)
          /\ UNCHANGED <<save, saveSync, m_inputSaveQ, m_ongoingJpegQ, chVars, noteCmds, mDataQ>>
       \/ /\ Head(saveCmds) = "next" /\ HasNext(m_inputSaveQ)
          /\ m_inputSaveQ' = dequeue(m_inputSaveQ) /\ flushNodes(peek(m_inputSaveQ))
          /\ IF save THEN sendDataNotify(None) ELSE UNCHANGED <<noteCmds, mDataQ>>
          /\ UNCHANGED <<save, saveSync>>
    /\ UNCHANGED <<halVars, told, evt_queue, frameVars, inputs, m_ongoingPPQ, dataVars, encoding, note>>

-----------------------------------------------------------------------------
(* cbNotifyRoutine, its snapshots.                                                                       *)
NoteTakes(c) == note.at = "wait" /\ noteCmds # <<>> /\ Head(noteCmds) = c /\ noteCmds' = Tail(noteCmds)
Return(x) == releaseSuperBufs(<<x>>)

NoteStart ==
    /\ NoteTakes("start")
    /\ note' = [note EXCEPT !.active = TRUE, !.expected = mode.shots, !.longshot = mode.longshot, !.rcvd = 0]
    /\ UNCHANGED <<halVars, told, evt_queue, frameVars, chVars, inputs, ongoing, dataVars, saveVars, encoding, mDataQ>>

(* The pictures still queued are dropped, with what their callbacks would have released.                  *)
NoteStop ==
    /\ NoteTakes("stop")
    /\ note' = [note EXCEPT !.active = FALSE, !.expected = 0, !.rcvd = 0]
    /\ mDataQ' = <<>>
    /\ releaseSuperBufs(mDataQ)
    /\ UNCHANGED <<halVars, told, evt_queue, frameVars, inputs, ongoing, dataVars, saveVars, encoding>>

(* The next picture is counted and delivered, the last one after the state machine was told and has         *)
(* answered (processSyncEvt).                                                                            *)
Counts == note.active /\ ~note.longshot
Slip_IsLast == note.rcvd + 1 >= note.expected - 1
IsLast == note.expected > 0 /\ note.rcvd + 1 = note.expected
NoteNext ==
    /\ NoteTakes("next")
    /\ \/ mDataQ = <<>> /\ UNCHANGED <<note, mDataQ, evt_queue, chVars>>
       \/ /\ mDataQ # <<>> /\ mDataQ' = Tail(mDataQ)
          /\ IF Counts /\ IsLast
             THEN /\ evt_queue' = Append(evt_queue, [kind |-> "done", id |-> 0, ok |-> TRUE])
                  /\ note' = [note EXCEPT !.at = "sync", !.rcvd = @ + 1, !.hand = Head(mDataQ)]
                  /\ UNCHANGED chVars
             ELSE /\ note' = [note EXCEPT !.rcvd = IF Counts THEN @ + 1 ELSE @]
                  /\ Return(Head(mDataQ)) /\ UNCHANGED evt_queue
    /\ UNCHANGED <<halVars, told, frameVars, inputs, ongoing, dataVars, saveVars, encoding>>

NoteDelivered ==
    /\ note.at = "answered"
    /\ note' = [note EXCEPT !.at = "wait", !.hand = None] /\ Return(note.hand)
    /\ UNCHANGED <<halVars, told, evt_queue, frameVars, inputs, ongoing, dataVars, saveVars, encoding, noteCmds, mDataQ>>

-----------------------------------------------------------------------------
DataStep == DataStart \/ DataStop \/ DataStopped \/ DataNext \/ encodeData \/ RecordJob \/ ProcessRaw \/ doReprocess
NoteStep == NoteStart \/ NoteStop \/ NoteNext \/ NoteDelivered
HalStep == Started \/ Stopped \/ SnapshotDone \/ JpegEvent
FrameStep == processData \/ processDataDone
PassStep(i) == ReprocOutput(i) \/ processPPData(i)

Next ==
    \/ \E m \in Modes : Start(m)
    \/ CancelPicture
    \/ HalStep
    \/ \E f \in Frames : FrameArrives(f)
    \/ FrameStep
    \/ \E i \in Passes : PassStep(i)
    \/ DataStep
    \/ \E id \in encoding, ok \in {TRUE, ~mode.fails \/ told} : JpegDone(id, ok)
    \/ SaveStep
    \/ NoteStep

(* Every thread runs, the sensor delivers what it was asked for, and the encoder finishes its jobs.       *)
Fairness ==
    /\ WF_vars(HalStep) /\ WF_vars(FrameStep) /\ WF_vars(DataStep) /\ WF_vars(SaveStep) /\ WF_vars(NoteStep)
    /\ WF_vars(\E f \in Frames : FrameArrives(f))
    /\ \A i \in Passes : WF_vars(PassStep(i))
    /\ WF_vars(\E id \in encoding, ok \in {TRUE, ~mode.fails \/ told} : JpegDone(id, ok))

Spec == Init /\ [][Next]_vars /\ Fairness

-----------------------------------------------------------------------------
(* The jobs and hands that hold a buffer of the ZSL channel.                                              *)
JobsOf(list, f) == Cardinality({k \in DOMAIN list : Source(f) \in {list[k].src, list[k].orig}})
InPostProc(f) ==
    JobsOf(m_inputPPQ.list, f) + JobsOf(m_ongoingPPQ.list, f) + JobsOf(m_inputJpegQ.list, f)
      + JobsOf(m_ongoingJpegQ.list, f) + Cardinality({k \in DOMAIN m_inputRawQ.list : m_inputRawQ.list[k] = Source(f)})
      + Cardinality({i \in Passes : ppTh[i] # None /\ Source(f) \in {ppTh[i].job.src, ppTh[i].job.orig}})
InNotifier(f) ==
    Cardinality({k \in DOMAIN mDataQ : mDataQ[k] = Source(f)}) + IF note.hand = Source(f) THEN 1 ELSE 0
InFrameTh(f) == IF frameTh # None /\ frameTh.frame = f /\ frameTh.at = "got" THEN 1 ELSE 0

(* A buffer of the ZSL channel has exactly one owner, whatever fails and whenever the capture is            *)
(* cancelled: none is returned twice (releasePPInputData takes care of a frame that is its own source) or  *)
(* lost; and stop leaves none with the postprocessor, also of frames that arrive late.                    *)
BuffersAccounted ==
    /\ \A f \in Frames : home[f] + InFrameTh(f) + InPostProc(f) + InNotifier(f) = 1
    /\ hal = "stopped" => \A f \in Frames : InPostProc(f) = 0

(* A reprocessed picture is paired with the job of its own frame, although the two only meet by their       *)
(* order; until a refused job has left the ongoing queue one ahead, which the application was told of.     *)
OutputMatchesJob ==
    \A i \in Passes :
        ppTh[i] # None /\ ~told => ppTh[i].out.of = ppTh[i].job.orig.of

(* Work the data thread could do is never left without a command that will make it: "wait up data proc      *)
(* thread to do next job, if previous request is blocked due to ongoing jpeg job".  Pictures that are saved *)
(* are exempt: the save thread gives their buffers back after the command was sent.                       *)
Commands == Cardinality({k \in DOMAIN dataCmds : dataCmds[k] = "next"})
             + IF frameTh # None /\ frameTh.at = "queued" THEN 1 ELSE 0
WorkHasWaker ==
    hal = "running" =>
        /\ Len(m_inputJpegQ.list) <= Commands
        /\ Len(m_inputRawQ.list) <= Commands + IF data.at = "raw" THEN 1 ELSE 0
        /\ CanReprocess /\ ~mode.save =>
              Commands > 0 \/ data.at # "wait" \/ \E i \in Passes : ppTh[i] # None

(* SNAPSHOT_DONE of a capture begun on clean ground cuts nothing off: every frame asked for has come and    *)
(* has gone all the way.                                                                                 *)
DoneIsComplete ==
    hal = "running" /\ clean /\ note.at = "sync" =>
        /\ wanted = 0 /\ m_inputPPQ.list = <<>> /\ m_ongoingPPQ.list = <<>> /\ m_inputJpegQ.list = <<>>
        /\ m_inputRawQ.list = <<>> /\ encoding = {} /\ \A i \in Passes : ppTh[i] = None

(* Such a capture, no long shot, ends, or the application hears of an error.                              *)
CaptureEnds == hal = "starting" /\ clean /\ ~mode.longshot ~> hal = "stopped" \/ told
=============================================================================
