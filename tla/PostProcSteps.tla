----------------------------- MODULE PostProcSteps -----------------------------
(***************************************************************************)
(* The steps of PostProc told flat, one predicate for each action: what it *)
(* found, which fields of which variables it leaves different, and how, in *)
(* the terms the proofs count in.  An action implies its predicate; nothing *)
(* is checked or assumed of the predicates themselves.                     *)
(***************************************************************************)
EXTENDS PostProc

(* How many elements of a sequence are in a set.                            *)
Count(s, V) == Cardinality({k \in DOMAIN s : s[k] \in V})

(* What the variables hold.                                                 *)
ZslBuffer == [ch : {0}, of : Frames]
Back == Buffer \cup {None}
Request == [src : Buffer, orig : ZslBuffer, count : 0 .. 1]
Ongoing == [src : Buffer, orig : ZslBuffer, count : 1 .. 2]
FrameHand == [frame : Frames, at : {"got", "queued"}]
PassHand == [out : Buffer, job : Ongoing]
Event == [kind : {"jpeg", "done"}, id : Nat, ok : BOOLEAN]

(* The buffers of a reprocess channel.  releaseSuperBufs counts what it is  *)
(* given, and leaves None alone.                                            *)
OfPass(i) == [ch : {i}, of : Frames]
Returned(s) ==
    /\ home' = [f \in Frames |-> home[f] + Count(s, {Source(f)})]
    /\ queued' = [i \in Passes |-> IF i > mTotalNumReproc THEN queued[i] ELSE queued[i] + Count(s, OfPass(i))]

(* A job that leaves the encoder's queue when its picture is there, or not  *)
(* to be: its buffers go back.                                              *)
Flushed(id) ==
    \/ /\ \A k \in DOMAIN m_ongoingJpegQ.list : m_ongoingJpegQ.list[k].id # id
       /\ UNCHANGED <<m_ongoingJpegQ, home, queued>>
    \/ \E k \in DOMAIN m_ongoingJpegQ.list :
        /\ m_ongoingJpegQ.list[k].id = id
        /\ m_ongoingJpegQ'.active = m_ongoingJpegQ.active
        /\ m_ongoingJpegQ'.list = RemoveAt(m_ongoingJpegQ.list, k)
        /\ Returned(releaseJpegJobData(m_ongoingJpegQ.list[k]))

(* A queue that gets an element, or loses its first.                        *)
Gets(q, r, x) == r.active = q.active /\ r.list = IF q.active THEN Append(q.list, x) ELSE q.list
Loses(q, r) == q.list # <<>> /\ r.active = q.active /\ r.list = Tail(q.list)

-----------------------------------------------------------------------------
(* The application and the HAL.                                             *)
StartDoes(m) ==
    /\ hal = "stopped" /\ hal' = "starting" /\ mode' = m /\ m \in ModeSet /\ clean' = (Leftovers = 0) /\ told' = FALSE
    /\ mTotalNumReproc' = m.total /\ queued' = [i \in Passes |-> IF i <= m.total THEN m.outs ELSE 0]
    /\ wanted' = m.shots /\ dataCmds' = Append(dataCmds, "start")
    /\ UNCHANGED <<evt_queue, home, frameTh, ppTh, reproc, m_inputPPQ, m_ongoingPPQ, m_inputJpegQ,
                   m_ongoingJpegQ, m_inputRawQ, m_inputSaveQ, data, dataSync, save, saveCmds,
                   saveSync, encoding, note, noteCmds, mDataQ>>

StartedDoes ==
    /\ hal = "starting" /\ dataSync > 0 /\ hal' = "running" /\ dataSync' = dataSync - 1
    /\ noteCmds' = <<"start">> \o noteCmds
    /\ UNCHANGED <<mode, clean, told, mTotalNumReproc, wanted, evt_queue, home, queued, frameTh,
                   ppTh, reproc, m_inputPPQ, m_ongoingPPQ, m_inputJpegQ, m_ongoingJpegQ,
                   m_inputRawQ, m_inputSaveQ, data, dataCmds, save, saveCmds, saveSync, encoding,
                   note, mDataQ>>

CancelPictureDoes ==
    /\ hal = "running" /\ hal' = "stopping"
    /\ noteCmds' = <<"stop">> \o noteCmds /\ dataCmds' = <<"stop">> \o dataCmds
    /\ UNCHANGED <<mode, clean, told, mTotalNumReproc, wanted, evt_queue, home, queued, frameTh,
                   ppTh, reproc, m_inputPPQ, m_ongoingPPQ, m_inputJpegQ, m_ongoingJpegQ,
                   m_inputRawQ, m_inputSaveQ, data, dataSync, save, saveCmds, saveSync, encoding,
                   note, mDataQ>>

SnapshotDoneDoes ==
    /\ evt_queue # <<>> /\ evt_queue[1].kind = "done" /\ evt_queue' = Tail(evt_queue)
    /\ note'.active = note.active /\ note'.longshot = note.longshot /\ note'.expected = note.expected
    /\ note'.rcvd = note.rcvd /\ note'.hand = note.hand
    /\ \/ /\ hal = "running" /\ hal' = "stopping" /\ note'.at = "cancel"
          /\ noteCmds' = <<"stop">> \o noteCmds /\ dataCmds' = <<"stop">> \o dataCmds
       \/ hal = "stopped" /\ note'.at = "answered" /\ UNCHANGED <<hal, noteCmds, dataCmds>>
    /\ UNCHANGED <<mode, clean, told, mTotalNumReproc, wanted, home, queued, frameTh, ppTh, reproc,
                   m_inputPPQ, m_ongoingPPQ, m_inputJpegQ, m_ongoingJpegQ, m_inputRawQ,
                   m_inputSaveQ, data, dataSync, save, saveCmds, saveSync, encoding, mDataQ>>

StoppedDoes ==
    /\ hal = "stopping" /\ hal' = "stopped" /\ dataSync > 0 /\ dataSync' = dataSync - 1
    /\ \A i \in Passes : ppTh[i] = None
    /\ mTotalNumReproc' = 0 /\ queued' = [i \in Passes |-> 0] /\ reproc' = [i \in Passes |-> <<>>]
    /\ wanted' = 0 /\ told' = FALSE
    /\ note'.active = note.active /\ note'.longshot = note.longshot /\ note'.expected = note.expected
    /\ note'.rcvd = note.rcvd /\ note'.hand = note.hand
    /\ note'.at = IF note.at = "cancel" THEN "answered" ELSE note.at
    /\ UNCHANGED <<mode, clean, evt_queue, home, frameTh, ppTh, m_inputPPQ, m_ongoingPPQ,
                   m_inputJpegQ, m_ongoingJpegQ, m_inputRawQ, m_inputSaveQ, data, dataCmds, save,
                   saveCmds, saveSync, encoding, noteCmds, mDataQ>>

JpegEventDoes ==
    /\ evt_queue # <<>> /\ evt_queue[1].kind = "jpeg" /\ evt_queue' = Tail(evt_queue) /\ hal # "stopping"
    /\ UNCHANGED <<hal, mode, clean, mTotalNumReproc, wanted, frameTh, ppTh, reproc, m_inputPPQ, m_inputJpegQ,
                   m_inputRawQ, m_ongoingPPQ, data, dataSync, save, saveSync, encoding, note>>
    /\ \/ /\ hal = "stopped"
          /\ UNCHANGED <<home, queued, m_ongoingJpegQ, dataCmds, noteCmds, mDataQ, told, m_inputSaveQ, saveCmds>>
       \/ /\ hal # "stopped" /\ mode.save /\ mode.longshot
          /\ Gets(m_inputSaveQ, m_inputSaveQ', evt_queue[1].id)
          /\ \/ ~m_inputSaveQ.active /\ UNCHANGED <<saveCmds, dataCmds>>
             \/ m_inputSaveQ.active /\ saveCmds' = Append(saveCmds, "next") /\ dataCmds' = Append(dataCmds, "next")
          /\ UNCHANGED <<home, queued, m_ongoingJpegQ, noteCmds, mDataQ, told>>
       \/ /\ hal # "stopped" /\ ~(mode.save /\ mode.longshot) /\ Flushed(evt_queue[1].id)
          /\ \/ m_inputPPQ.list = <<>> /\ dataCmds' = dataCmds \o <<"next">>
             \/ m_inputPPQ.list # <<>> /\ dataCmds' = dataCmds \o <<"next", "next">>
          /\ \/ mDataQ' = Append(mDataQ, None) /\ noteCmds' = Append(noteCmds, "next") /\ told' = told
             \/ told' = TRUE /\ UNCHANGED <<mDataQ, noteCmds>>
          /\ UNCHANGED <<m_inputSaveQ, saveCmds>>

(* The frames and what is reprocessed.                                      *)
FrameArrivesDoes(f) ==
    /\ frameTh = None /\ wanted > 0 /\ home[f] > 0
    /\ frameTh' \in FrameHand /\ frameTh'.frame = f /\ frameTh'.at = "got"
    /\ home' = [home EXCEPT ![f] = home[f] - 1]
    /\ wanted' = IF mode.longshot THEN wanted ELSE wanted - 1
    /\ UNCHANGED <<hal, mode, clean, told, mTotalNumReproc, evt_queue, queued, ppTh, reproc,
                   m_inputPPQ, m_ongoingPPQ, m_inputJpegQ, m_ongoingJpegQ, m_inputRawQ,
                   m_inputSaveQ, data, dataCmds, dataSync, save, saveCmds, saveSync, encoding, note,
                   noteCmds, mDataQ>>

processDataDoes ==
    /\ frameTh \in FrameHand /\ frameTh.at = "got" /\ hal # "starting"
    /\ UNCHANGED <<hal, mode, clean, mTotalNumReproc, wanted, told, evt_queue, ppTh, reproc, m_ongoingPPQ, m_ongoingJpegQ,
                   data, dataSync, save, saveCmds, saveSync, m_inputSaveQ, encoding, note, noteCmds, mDataQ>>
    /\ \/ /\ mode.total > 0 /\ m_inputPPQ.active /\ m_inputPPQ'.active
          /\ m_inputPPQ'.list = Append(m_inputPPQ.list, NewRequest(frameTh.frame))
          /\ frameTh' \in FrameHand /\ frameTh'.at = "queued" /\ frameTh'.frame = frameTh.frame
          /\ UNCHANGED <<m_inputJpegQ, m_inputRawQ, home, queued, dataCmds>>
       \/ /\ mode.total = 0 /\ mode.raw /\ m_inputRawQ.active /\ m_inputRawQ'.active
          /\ m_inputRawQ'.list = Append(m_inputRawQ.list, Source(frameTh.frame))
          /\ frameTh' = None /\ dataCmds' = dataCmds \o <<"next", "next">>
          /\ UNCHANGED <<m_inputPPQ, m_inputJpegQ, home, queued>>
       \/ /\ mode.total = 0 /\ ~mode.raw /\ m_inputJpegQ.active /\ m_inputJpegQ'.active
          /\ m_inputJpegQ'.list = Append(m_inputJpegQ.list, NewJpegJob(Source(frameTh.frame), None))
          /\ frameTh' = None /\ dataCmds' = dataCmds \o <<"next">>
          /\ UNCHANGED <<m_inputPPQ, m_inputRawQ, home, queued>>
       \/ /\ \/ mode.total > 0 /\ ~m_inputPPQ.active
             \/ mode.total = 0 /\ mode.raw /\ ~m_inputRawQ.active
             \/ mode.total = 0 /\ ~mode.raw /\ ~m_inputJpegQ.active
          /\ frameTh' = None /\ Returned(<<Source(frameTh.frame)>>)
          /\ dataCmds' = IF mode.raw /\ mode.total = 0 THEN dataCmds \o <<"next">> ELSE dataCmds
          /\ UNCHANGED <<m_inputPPQ, m_inputJpegQ, m_inputRawQ>>

processDataDoneDoes ==
    /\ frameTh \in FrameHand /\ frameTh.at = "queued" /\ frameTh' = None
    /\ dataCmds' = IF validatePostProcess(Source(frameTh.frame)) THEN Append(dataCmds, "next") ELSE dataCmds
    /\ UNCHANGED <<hal, mode, clean, told, mTotalNumReproc, wanted, evt_queue, home, queued, ppTh,
                   reproc, m_inputPPQ, m_ongoingPPQ, m_inputJpegQ, m_ongoingJpegQ, m_inputRawQ,
                   m_inputSaveQ, data, dataSync, save, saveCmds, saveSync, encoding, note, noteCmds,
                   mDataQ>>

ReprocOutputDoes(i) ==
    /\ ppTh[i] = None /\ reproc[i] # <<>> /\ queued[i] > 0
    /\ reproc' = [reproc EXCEPT ![i] = Tail(reproc[i])]
    /\ queued' = [queued EXCEPT ![i] = queued[i] - 1]
    /\ UNCHANGED <<hal, mode, clean, mTotalNumReproc, wanted, told, evt_queue, home, frameTh, m_inputPPQ, m_inputJpegQ,
                   m_inputRawQ, m_ongoingJpegQ, data, dataCmds, dataSync, save, saveCmds, saveSync, m_inputSaveQ,
                   encoding, note, noteCmds, mDataQ>>
    /\ \/ /\ ~HasNext(m_ongoingPPQ) /\ UNCHANGED <<ppTh, m_ongoingPPQ>>
       \/ /\ m_ongoingPPQ.active /\ Loses(m_ongoingPPQ, m_ongoingPPQ')
          /\ ppTh' = [ppTh EXCEPT ![i] = [out |-> [ch |-> i, of |-> reproc[i][1].of], job |-> m_ongoingPPQ.list[1]]]

Again(i) == [src |-> ppTh[i].out, orig |-> ppTh[i].job.orig, count |-> ppTh[i].job.count]

ToEncode(i) == NewJpegJob(ppTh[i].out, ppTh[i].job.orig)

processPPDataDoes(i) ==
    /\ ppTh[i] \in PassHand /\ ppTh' = [ppTh EXCEPT ![i] = None]
    /\ UNCHANGED <<hal, mode, clean, mTotalNumReproc, wanted, told, evt_queue, frameTh, reproc, m_ongoingPPQ,
                   m_ongoingJpegQ, data, dataSync, save, saveCmds, saveSync, m_inputSaveQ, encoding, note, noteCmds, mDataQ>>
    /\ \/ /\ mode.raw /\ m_inputRawQ.active /\ m_inputRawQ'.active
          /\ m_inputRawQ'.list = Append(m_inputRawQ.list, ppTh[i].out)
          /\ Returned(releasePPInputData(ppTh[i].job)) /\ dataCmds' = Append(dataCmds, "next")
          /\ UNCHANGED <<m_inputPPQ, m_inputJpegQ>>
       \/ /\ ~mode.raw /\ ppTh[i].job.count = 1 /\ mTotalNumReproc = 2 /\ m_inputPPQ.active /\ m_inputPPQ'.active
          /\ m_inputPPQ'.list = Append(m_inputPPQ.list, Again(i))
          /\ dataCmds' = Append(dataCmds, "next")
          /\ UNCHANGED <<m_inputJpegQ, m_inputRawQ, home, queued>>
       \/ /\ ~mode.raw /\ ppTh[i].job.count >= mTotalNumReproc /\ m_inputJpegQ.active /\ m_inputJpegQ'.active
          /\ m_inputJpegQ'.list = Append(m_inputJpegQ.list, ToEncode(i))
          /\ Returned(SpentInput(ppTh[i].job)) /\ dataCmds' = Append(dataCmds, "next")
          /\ UNCHANGED <<m_inputPPQ, m_inputRawQ>>
       \/ /\ UNCHANGED <<m_inputPPQ, m_inputJpegQ, m_inputRawQ, dataCmds>>
          /\ \/ ~m_inputRawQ.active /\ Returned(releasePPInputData(ppTh[i].job) \o <<ppTh[i].out>>)
             \/ ~m_inputPPQ.active /\ Returned(SpentInput(ppTh[i].job) \o releasePPInputData(Again(i)))
                /\ ppTh[i].job.count = 1
             \/ ~m_inputJpegQ.active /\ Returned(SpentInput(ppTh[i].job) \o releaseJpegJobData(ToEncode(i)))

(* The data thread.                                                         *)
DataStartDoes ==
    /\ data.at = "wait" /\ dataCmds # <<>> /\ dataCmds[1] = "start" /\ dataCmds' = Tail(dataCmds)
    /\ data'.at = "wait" /\ data'.active = TRUE /\ data'.id = data.id
    /\ m_inputPPQ'.active /\ m_inputPPQ'.list = m_inputPPQ.list
    /\ m_ongoingPPQ'.active /\ m_ongoingPPQ'.list = m_ongoingPPQ.list
    /\ m_inputJpegQ'.active /\ m_inputJpegQ'.list = m_inputJpegQ.list
    /\ m_inputRawQ'.active /\ m_inputRawQ'.list = m_inputRawQ.list
    /\ saveCmds' = Append(saveCmds, "start") /\ dataSync' = dataSync + 1
    /\ UNCHANGED <<hal, mode, clean, mTotalNumReproc, wanted, told, evt_queue, frameTh, ppTh, reproc, home, queued,
                   m_ongoingJpegQ, save, saveSync, m_inputSaveQ, encoding, note, noteCmds, mDataQ>>

DataStopDoes ==
    /\ data.at = "wait" /\ dataCmds # <<>> /\ dataCmds[1] = "stop" /\ dataCmds' = Tail(dataCmds)
    /\ data'.at = "saveStop" /\ data'.active = FALSE /\ data'.id = data.id
    /\ saveCmds' = <<"stop">> \o saveCmds
    /\ UNCHANGED <<hal, mode, clean, told, mTotalNumReproc, wanted, evt_queue, home, queued,
                   frameTh, ppTh, reproc, m_inputPPQ, m_ongoingPPQ, m_inputJpegQ, m_ongoingJpegQ,
                   m_inputRawQ, m_inputSaveQ, dataSync, save, saveSync, encoding, note, noteCmds,
                   mDataQ>>

Dropped ==
    JpegsOf(m_ongoingJpegQ.list) \o InputsOf(m_ongoingPPQ.list) \o JpegsOf(m_inputJpegQ.list) \o InputsOf(m_inputPPQ.list)
      \o m_inputRawQ.list

DataStoppedDoes ==
    /\ data.at = "saveStop" /\ saveSync > 0 /\ saveSync' = saveSync - 1 /\ dataSync' = dataSync + 1
    /\ data'.at = "wait" /\ data'.active = data.active /\ data'.id = data.id
    /\ encoding' = encoding \ {m_ongoingJpegQ.list[k].id : k \in DOMAIN m_ongoingJpegQ.list}
    /\ m_ongoingJpegQ'.active /\ m_ongoingJpegQ'.list = <<>>
    /\ ~m_inputPPQ'.active /\ m_inputPPQ'.list = <<>> /\ ~m_ongoingPPQ'.active /\ m_ongoingPPQ'.list = <<>>
    /\ ~m_inputJpegQ'.active /\ m_inputJpegQ'.list = <<>> /\ ~m_inputRawQ'.active /\ m_inputRawQ'.list = <<>>
    /\ Dropped \in Seq(Back) /\ Returned(Dropped)
    /\ UNCHANGED <<hal, mode, clean, mTotalNumReproc, wanted, told, evt_queue, frameTh, ppTh, reproc, dataCmds, save,
                   saveCmds, m_inputSaveQ, note, noteCmds, mDataQ>>

DataNextDoes ==
    /\ data.at = "wait" /\ dataCmds # <<>> /\ dataCmds[1] = "next" /\ dataCmds' = Tail(dataCmds)
    /\ data'.active = data.active /\ data'.id = data.id
    /\ \/ /\ data.active /\ HasNext(m_inputJpegQ) /\ data'.at = "encode"
          /\ Gets(m_ongoingJpegQ, m_ongoingJpegQ', m_inputJpegQ.list[1]) /\ Loses(m_inputJpegQ, m_inputJpegQ')
       \/ /\ ~(data.active /\ HasNext(m_inputJpegQ))
          /\ \/ data.active /\ HasNext(m_inputRawQ) /\ data'.at = "raw"
             \/ data.active /\ ~HasNext(m_inputRawQ) /\ CanReprocess /\ data'.at = "reproc"
             \/ ~(data.active /\ (HasNext(m_inputRawQ) \/ CanReprocess)) /\ data'.at = "wait"
          /\ UNCHANGED <<m_ongoingJpegQ, m_inputJpegQ>>
    /\ UNCHANGED <<hal, mode, clean, mTotalNumReproc, wanted, told, evt_queue, frameTh, ppTh, reproc, home, queued,
                   m_inputPPQ, m_inputRawQ, m_ongoingPPQ, dataSync, save, saveCmds, saveSync, m_inputSaveQ, encoding,
                   note, noteCmds, mDataQ>>

encodeDataDoes ==
    /\ data.at = "encode" /\ data'.active = data.active
    /\ \/ \E id \in Nat \ {0} :
            /\ id \notin UsedIds /\ encoding' = encoding \cup {id} /\ data'.at = "record" /\ data'.id = id
            /\ UNCHANGED <<m_ongoingJpegQ, home, queued, told>>
       \/ /\ mode.fails /\ ~told /\ told' = TRUE /\ data'.at = AfterEncode /\ data'.id = data.id
          /\ m_ongoingJpegQ.list # <<>> /\ m_ongoingJpegQ'.active = m_ongoingJpegQ.active
          /\ m_ongoingJpegQ'.list = RemoveAt(m_ongoingJpegQ.list, Len(m_ongoingJpegQ.list))
          /\ Returned(releaseJpegJobData(m_ongoingJpegQ.list[Len(m_ongoingJpegQ.list)]))
          /\ encoding' = encoding
    /\ UNCHANGED <<hal, mode, clean, mTotalNumReproc, wanted, evt_queue, frameTh, ppTh, reproc, m_inputPPQ, m_inputJpegQ,
                   m_inputRawQ, m_ongoingPPQ, dataCmds, dataSync, save, saveCmds, saveSync, m_inputSaveQ, note, noteCmds,
                   mDataQ>>

RecordJobDoes ==
    /\ data.at = "record" /\ data'.at = AfterEncode /\ data'.id = 0 /\ data'.active = data.active
    /\ m_ongoingJpegQ'.active = m_ongoingJpegQ.active
    /\ Len(m_ongoingJpegQ'.list) = Len(m_ongoingJpegQ.list) /\ m_ongoingJpegQ.list # <<>>
    /\ \A k \in DOMAIN m_ongoingJpegQ.list :
        /\ m_ongoingJpegQ'.list[k].src = m_ongoingJpegQ.list[k].src
        /\ m_ongoingJpegQ'.list[k].orig = m_ongoingJpegQ.list[k].orig
        /\ m_ongoingJpegQ'.list[k].id = IF k = Len(m_ongoingJpegQ.list) THEN data.id ELSE m_ongoingJpegQ.list[k].id
    /\ UNCHANGED <<hal, mode, clean, mTotalNumReproc, wanted, told, evt_queue, frameTh, ppTh, reproc, home, queued,
                   m_inputPPQ, m_inputJpegQ, m_inputRawQ, m_ongoingPPQ, dataCmds, dataSync, save, saveCmds, saveSync,
                   m_inputSaveQ, encoding, note, noteCmds, mDataQ>>

ProcessRawDoes ==
    /\ data.at = "raw" /\ data'.at = "reproc" /\ data'.active = data.active /\ data'.id = data.id
    /\ Loses(m_inputRawQ, m_inputRawQ') /\ m_inputRawQ.list[1] \in Buffer
    /\ \/ /\ mDataQ' = Append(mDataQ, IF m_inputRawQ.list[1].ch = 0 THEN m_inputRawQ.list[1] ELSE None)
          /\ noteCmds' = Append(noteCmds, "next") /\ UNCHANGED <<home, queued, told>>
       \/ /\ mode.fails /\ ~told /\ told' = TRUE /\ Returned(<<m_inputRawQ.list[1]>>)
          /\ UNCHANGED <<noteCmds, mDataQ>>
    /\ UNCHANGED <<hal, mode, clean, mTotalNumReproc, wanted, evt_queue, frameTh, ppTh, reproc, m_inputPPQ, m_inputJpegQ,
                   m_ongoingPPQ, m_ongoingJpegQ, dataCmds, dataSync, save, saveCmds, saveSync, m_inputSaveQ, encoding,
                   note>>

Passed(job) == [src |-> job.src, orig |-> job.orig, count |-> job.count + 1]

doReprocessDoes ==
    /\ data.at = "reproc" /\ data'.at = "wait" /\ data'.active = data.active /\ data'.id = data.id
    /\ \/ ~CanReprocess /\ UNCHANGED <<m_inputPPQ, m_ongoingPPQ, reproc, told>>
       \/ /\ CanReprocess /\ m_inputPPQ.active /\ Loses(m_inputPPQ, m_inputPPQ') /\ m_inputPPQ.list[1] \in Request
          /\ Gets(m_ongoingPPQ, m_ongoingPPQ', Passed(m_inputPPQ.list[1]))
          /\ \/ /\ reproc' = [reproc EXCEPT ![m_inputPPQ.list[1].count + 1] = Append(@, m_inputPPQ.list[1].src)]
                /\ told' = told
             \/ mode.fails /\ ~told /\ told' = TRUE /\ reproc' = reproc
    /\ UNCHANGED <<hal, mode, clean, mTotalNumReproc, wanted, evt_queue, frameTh, ppTh, home, queued, m_inputJpegQ,
                   m_inputRawQ, m_ongoingJpegQ, dataCmds, dataSync, save, saveCmds, saveSync, m_inputSaveQ, encoding,
                   note, noteCmds, mDataQ>>

(* The encoder, the save thread and the notifier.                           *)
JpegDoneDoes(id) ==
    /\ id \in encoding /\ encoding' = encoding \ {id}
    /\ \E e \in Event : e.kind = "jpeg" /\ e.id = id /\ evt_queue' = Append(evt_queue, e)
    /\ UNCHANGED <<hal, mode, clean, told, mTotalNumReproc, wanted, home, queued, frameTh, ppTh,
                   reproc, m_inputPPQ, m_ongoingPPQ, m_inputJpegQ, m_ongoingJpegQ, m_inputRawQ,
                   m_inputSaveQ, data, dataCmds, dataSync, save, saveCmds, saveSync, note, noteCmds,
                   mDataQ>>

SaveStepDoes ==
    /\ saveCmds # <<>> /\ saveCmds' = Tail(saveCmds)
    /\ \/ /\ saveCmds[1] = "start" /\ save' = TRUE /\ m_inputSaveQ'.active /\ m_inputSaveQ'.list = m_inputSaveQ.list
          /\ UNCHANGED <<saveSync, m_ongoingJpegQ, home, queued, noteCmds, mDataQ>>
       \/ /\ saveCmds[1] = "stop" /\ save' = FALSE /\ ~m_inputSaveQ'.active /\ m_inputSaveQ'.list = <<>>
          /\ saveSync' = saveSync + 1
          /\ UNCHANGED <<m_ongoingJpegQ, home, queued, noteCmds, mDataQ>>
       \/ /\ saveCmds[1] = "next" /\ ~HasNext(m_inputSaveQ)
          /\ UNCHANGED <<save, saveSync, m_inputSaveQ, m_ongoingJpegQ, home, queued, noteCmds, mDataQ>>
       \/ /\ saveCmds[1] = "next" /\ m_inputSaveQ.active /\ Loses(m_inputSaveQ, m_inputSaveQ')
          /\ Flushed(m_inputSaveQ.list[1])
          /\ \/ mDataQ' = Append(mDataQ, None) /\ noteCmds' = Append(noteCmds, "next")
             \/ UNCHANGED <<noteCmds, mDataQ>>
          /\ UNCHANGED <<save, saveSync>>
    /\ UNCHANGED <<hal, mode, clean, mTotalNumReproc, wanted, told, evt_queue, frameTh, ppTh, reproc, m_inputPPQ,
                   m_inputJpegQ, m_inputRawQ, m_ongoingPPQ, data, dataCmds, dataSync, encoding, note>>

NoteStartDoes ==
    /\ note.at = "wait" /\ noteCmds # <<>> /\ noteCmds[1] = "start" /\ noteCmds' = Tail(noteCmds)
    /\ note'.at = "wait" /\ note'.hand = note.hand /\ note'.active = TRUE /\ note'.longshot = mode.longshot
    /\ note'.expected = mode.shots /\ note'.rcvd = 0
    /\ UNCHANGED <<hal, mode, clean, told, mTotalNumReproc, wanted, evt_queue, home, queued,
                   frameTh, ppTh, reproc, m_inputPPQ, m_ongoingPPQ, m_inputJpegQ, m_ongoingJpegQ,
                   m_inputRawQ, m_inputSaveQ, data, dataCmds, dataSync, save, saveCmds, saveSync,
                   encoding, mDataQ>>

NoteStopDoes ==
    /\ note.at = "wait" /\ noteCmds # <<>> /\ noteCmds[1] = "stop" /\ noteCmds' = Tail(noteCmds)
    /\ note'.at = "wait" /\ note'.hand = note.hand /\ note'.active = FALSE /\ note'.expected = 0 /\ note'.rcvd = 0
    /\ mDataQ' = <<>> /\ mDataQ \in Seq(Back) /\ Returned(mDataQ)
    /\ UNCHANGED <<hal, mode, clean, mTotalNumReproc, wanted, told, evt_queue, frameTh, ppTh, reproc, m_inputPPQ,
                   m_inputJpegQ, m_inputRawQ, m_ongoingPPQ, m_ongoingJpegQ, data, dataCmds, dataSync, save, saveCmds,
                   saveSync, m_inputSaveQ, encoding>>

NoteNextDoes ==
    /\ note.at = "wait" /\ noteCmds # <<>> /\ noteCmds[1] = "next" /\ noteCmds' = Tail(noteCmds)
    /\ \/ mDataQ = <<>> /\ UNCHANGED <<note, mDataQ, evt_queue, home, queued>>
       \/ /\ mDataQ # <<>> /\ mDataQ' = Tail(mDataQ) /\ Counts /\ IsLast
          /\ evt_queue' = Append(evt_queue, [kind |-> "done", id |-> 0, ok |-> TRUE])
          /\ note'.at = "sync" /\ note'.rcvd = note.rcvd + 1 /\ note'.hand = mDataQ[1] /\ note'.active = note.active
          /\ note'.longshot = note.longshot /\ note'.expected = note.expected
          /\ UNCHANGED <<home, queued>>
       \/ /\ mDataQ # <<>> /\ mDataQ' = Tail(mDataQ) /\ ~(Counts /\ IsLast)
          /\ note'.at = "wait" /\ note'.hand = note.hand /\ note'.active = note.active
          /\ note'.longshot = note.longshot /\ note'.expected = note.expected
          /\ note'.rcvd = IF Counts THEN note.rcvd + 1 ELSE note.rcvd
          /\ <<mDataQ[1]>> \in Seq(Back) /\ Returned(<<mDataQ[1]>>) /\ UNCHANGED evt_queue
    /\ UNCHANGED <<hal, mode, clean, mTotalNumReproc, wanted, told, frameTh, ppTh, reproc, m_inputPPQ,
                   m_inputJpegQ, m_inputRawQ, m_ongoingPPQ, m_ongoingJpegQ, data, dataCmds, dataSync, save, saveCmds,
                   saveSync, m_inputSaveQ, encoding>>

NoteDeliveredDoes ==
    /\ note.at = "answered" /\ note'.at = "wait" /\ note'.hand = None /\ note'.active = note.active
    /\ note'.longshot = note.longshot /\ note'.expected = note.expected /\ note'.rcvd = note.rcvd
    /\ <<note.hand>> \in Seq(Back) /\ Returned(<<note.hand>>)
    /\ UNCHANGED <<hal, mode, clean, mTotalNumReproc, wanted, told, evt_queue, frameTh, ppTh, reproc, m_inputPPQ,
                   m_inputJpegQ, m_inputRawQ, m_ongoingPPQ, m_ongoingJpegQ, data, dataCmds, dataSync, save, saveCmds,
                   saveSync, m_inputSaveQ, encoding, noteCmds, mDataQ>>

(* Every step is one of these.                                              *)
Step ==
    \/ \E m \in Modes : StartDoes(m)
    \/ StartedDoes \/ CancelPictureDoes \/ SnapshotDoneDoes \/ StoppedDoes \/ JpegEventDoes
    \/ \E f \in Frames : FrameArrivesDoes(f)
    \/ processDataDoes \/ processDataDoneDoes
    \/ \E i \in Passes : ReprocOutputDoes(i) \/ processPPDataDoes(i)
    \/ DataStartDoes \/ DataStopDoes \/ DataStoppedDoes \/ DataNextDoes \/ encodeDataDoes \/ RecordJobDoes
    \/ ProcessRawDoes \/ doReprocessDoes
    \/ \E id \in encoding : JpegDoneDoes(id)
    \/ SaveStepDoes
    \/ NoteStartDoes \/ NoteStopDoes \/ NoteNextDoes \/ NoteDeliveredDoes
=============================================================================
