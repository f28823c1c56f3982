------------------------- MODULE CameraStateMachine -------------------------
(***************************************************************************)
(* The camera HAL's state machine (QCameraStateMachine.cpp) together with  *)
(* the channel operations of QCamera2HWI.cpp that its handlers call.  The  *)
(* handlers all run on one thread; this module gives them one command at a *)
(* time, any command in any state.  CameraApi puts the queues and the      *)
(* calling threads around it.                                              *)
(*                                                                         *)
(* A hardware operation is an operator from a hardware record to the set   *)
(* of its outcomes [hw, ok]: the daemon may refuse anything it is asked.   *)
(*                                                                         *)
(* The definitions whose names start with Slip_ are no part of the model:  *)
(* each is the definition below it with a plausible bug, kept to show that *)
(* a property would notice.                                                *)
(***************************************************************************)
EXTENDS Naturals, Sequences, FiniteSets

CONSTANTS
    Evts,            \* the events delivered, a subset of AllEvts
    SetStates,       \* the states in which the client changes modes
    Modes,           \* the modes it asks for: <<ZSL, recording hint>>
    HwMayFail,       \* the daemon may refuse an operation
    LiveMayFail,     \* the live snapshot thread may fail
    PreviewRestart   \* persist.camera.feature.restart is 1

(* GET_PARAMS stands for every request that is passed to the parent and     *)
(* answered without touching what is kept here (callbacks, PUT_PARAMS, DUMP, *)
(* auto focus, ...); events that are neither answered nor kept are left out. *)
AllEvts ==
    {"SET_PREVIEW_WINDOW", "CLEAR_PREVIEW_WINDOW", "ENABLE_MSG_TYPE", "DISABLE_MSG_TYPE",
     "SET_PARAMS", "GET_PARAMS", "START_PREVIEW", "START_NODISPLAY_PREVIEW", "STOP_PREVIEW",
     "PREVIEW_ENABLED", "RECORDING_ENABLED", "START_RECORDING", "STOP_RECORDING",
     "RELEASE_RECORDING_FRAME", "PREPARE_SNAPSHOT", "TAKE_PICTURE", "CANCEL_PICTURE",
     "LONGSHOT_ON", "LONGSHOT_OFF", "REG_FACE_IMAGE", "RELEASE", "STOP_CAPTURE_CHANNEL",
     "PREP_SNAPSHOT_DONE", "READY_FOR_SNAPSHOT", "DAEMON_DIED", "SNAPSHOT_DONE"}

ASSUME EvtsAssumption == Evts \subseteq AllEvts
ASSUME ModesAssumption == Modes \subseteq BOOLEAN \X BOOLEAN
ASSUME BuildAssumption == {HwMayFail, LiveMayFail, PreviewRestart} \subseteq BOOLEAN

States == {"PREVIEW_STOPPED", "PREVIEW_READY", "PREVIEWING", "PREPARE_SNAPSHOT",
           "PIC_TAKING", "RECORDING", "VIDEO_PIC_TAKING", "PREVIEW_PIC_TAKING"}

ChTypes == {"ZSL", "CAPTURE", "PREVIEW", "VIDEO", "SNAPSHOT"}
ChStatus == {"null", "added", "started"}

ASSUME SetStatesAssumption == SetStates \subseteq States

VARIABLES
    m_state,        \* the state of the state machine
    hw,             \* channels, committed and pending modes, window, live snapshot thread
    msgs,           \* the PREVIEW_FRAME message: enabled, delayed; wanted is what the client last asked
    bRetroPicture,  \* retro-active capture, chosen by take_picture before it sends TAKE_PICTURE
    out             \* what the last handler signalled: API results, evt result, an event it posted

vars == <<m_state, hw, msgs, bRetroPicture, out>>

Hardware ==
    [ch : [ChTypes -> ChStatus], zsl : BOOLEAN, zslNew : BOOLEAN, hint : BOOLEAN,
     hintNew : BOOLEAN, hintStr : BOOLEAN, hintPend : BOOLEAN, longshot : BOOLEAN,
     window : BOOLEAN, live : {"none", "running", "done"}]

Messages == [frame : BOOLEAN, delayed : BOOLEAN, delay : BOOLEAN, wanted : BOOLEAN]

Values == {"OK", "ERR", "INVALID", "TRUE", "FALSE"}

(* The API a command answers: the two long-shot commands are SEND_COMMAND. *)
RequestOf(e) ==
    CASE e \in {"LONGSHOT_ON", "LONGSHOT_OFF"} -> "SEND_COMMAND"
      [] e = "CLEAR_PREVIEW_WINDOW" -> "SET_PREVIEW_WINDOW"
      [] OTHER -> e

Requests == {RequestOf(e) : e \in AllEvts}

Result(e, v) == [req |-> RequestOf(e), val |-> v]
Results == [req : Requests, val : Values]
Quiet == [api |-> <<>>, done |-> FALSE, post |-> FALSE]
Answer(e, v) == [Quiet EXCEPT !.api = <<Result(e, v)>>]
Outputs == [api : UNION {[1 .. n -> Results] : n \in 0 .. 2}, done : BOOLEAN, post : BOOLEAN]

-----------------------------------------------------------------------------
(* Channel operations of QCamera2HWI.cpp.                                  *)

Done(h) == [hw |-> h, ok |-> TRUE]
Failed(h) == [hw |-> h, ok |-> FALSE]
MayFail(h) == IF HwMayFail THEN {Failed(h)} ELSE {}
Rc(o) == IF o.ok THEN "OK" ELSE "ERR"

Then(S, F(_)) == UNION {IF o.ok THEN F(o.hw) ELSE {o} : o \in S}

SetCh(h, T, s) == [h EXCEPT !.ch = [t \in ChTypes |-> IF t \in T THEN s ELSE h.ch[t]]]

(* The return code is not looked at. *)
Slip_addChannel(h, t) ==
    {Done(SetCh(h, {t}, "added"))} \cup (IF HwMayFail THEN {Done(SetCh(h, {t}, "null"))} ELSE {})

(* A channel that could not be added is gone: the old one was deleted first. *)
addChannel(h, t) == {Done(SetCh(h, {t}, "added"))} \cup MayFail(SetCh(h, {t}, "null"))

(* Deleting a channel stops it first. *)
delChannels(h, T) == SetCh(h, T, "null")

startChannel(h, t) ==
    IF h.ch[t] = "null" THEN {Failed(h)}
    ELSE {Done(SetCh(h, {t}, "started"))} \cup MayFail(h)

(* NO_INIT for a channel that is not running. *)
stopChannel(h, t) ==
    IF h.ch[t] = "started" THEN Done(SetCh(h, {t}, "added")) ELSE Failed(h)

ZslPreview(h) == h.zsl /\ ~h.hint

(* One channel in ZSL mode; the preview channel otherwise, after the        *)
(* snapshot and video channels when the recording hint is set.              *)
preparePreview(h) ==
    IF ZslPreview(h) THEN addChannel(h, "ZSL") \cup MayFail(h)
    ELSE IF ~h.hint THEN addChannel(h, "PREVIEW") \cup MayFail(h)
    ELSE {Done(SetCh(h, {"SNAPSHOT", "VIDEO", "PREVIEW"}, "added"))}
         \cup UNION {MayFail(delChannels(h, T)) :
                       T \in {{}, {"SNAPSHOT"}, {"SNAPSHOT", "VIDEO"},
                              {"SNAPSHOT", "VIDEO", "PREVIEW"}}}

unpreparePreview(h) == delChannels(h, {"ZSL", "PREVIEW", "VIDEO", "SNAPSHOT"})

startPreview(h) == startChannel(h, IF ZslPreview(h) THEN "ZSL" ELSE "PREVIEW")

(* The ZSL channel is forgotten. *)
Slip_stopPreview(h) == delChannels(h, {"PREVIEW", "VIDEO", "SNAPSHOT"})

stopPreview(h) == unpreparePreview(h)

(* The pending modes become the current ones when the batch is accepted.    *)
(* hintStr is the recording hint of the parameter map, hintPend the entry   *)
(* waiting to enter it.                                                     *)
commitParameterChanges(h) ==
    {Done([h EXCEPT !.zsl = h.zslNew, !.hint = h.hintNew, !.hintStr = h.hintPend])}
    \cup MayFail(h)

(* Without the recording hint the preview is rebuilt in recording mode; the *)
(* outcome of setting the hint is not looked at.                            *)
startRecording(h) ==
    LET hinted == {o.hw : o \in commitParameterChanges([stopPreview(h) EXCEPT !.hintNew = TRUE])}
        preview == IF h.hint THEN {Done(h)}
                   ELSE UNION {Then(preparePreview(g), LAMBDA x : startChannel(x, "PREVIEW")) :
                                 g \in hinted}
    IN Then(preview, LAMBDA x : startChannel(x, "VIDEO"))

(* The wrong channel. *)
Slip_stopRecording(h) == stopChannel(h, "SNAPSHOT")

stopRecording(h) == stopChannel(h, "VIDEO")

(* ZSL: a request on the running channel.  Otherwise the preview channel    *)
(* goes and a capture channel is added and started; a capture channel whose *)
(* advanced capture cannot be started is left running.                      *)
takePicture(h) ==
    LET g == delChannels(h, {"PREVIEW"})
    IN IF h.zsl
       THEN IF h.ch["ZSL"] = "null" THEN {Failed(h)} ELSE {Done(h)} \cup MayFail(h)
       ELSE {Done(SetCh(g, {"CAPTURE"}, "started"))}
            \cup MayFail(delChannels(g, {"CAPTURE"}))
            \cup MayFail(SetCh(g, {"CAPTURE"}, "started"))
            \cup (IF h.longshot THEN MayFail(g) ELSE {})

longShot(h) ==
    IF h.ch[IF h.zsl THEN "ZSL" ELSE "CAPTURE"] = "null" THEN {Failed(h)}
    ELSE {Done(h)} \cup MayFail(h)

(* The capture channel stays. *)
Slip_cancelPicture(h) == h

cancelPicture(h) == IF h.zsl THEN h ELSE delChannels(h, {"CAPTURE"})

stopCaptureChannel(h) == stopChannel(h, "CAPTURE")

(* The snapshot is taken by a thread of its own. *)
takeLiveSnapshot(h) == {Done([h EXCEPT !.live = "running"])} \cup MayFail(h)

(* Joins the live snapshot thread, so a handler that calls it waits until   *)
(* CanJoin holds, then stops the snapshot channel.                          *)
CanJoin == hw.live # "running"

(* The thread is not joined. *)
Slip_cancelNoJoin(h) == stopChannel(h, "SNAPSHOT")

cancelLiveSnapshot(h) == stopChannel([h EXCEPT !.live = "none"], "SNAPSHOT")

releaseChannels(h) == delChannels(h, ChTypes)

(* Preview brought up from nothing; prepared tells whether the delayed      *)
(* messages were applied on the way.                                        *)
PrepareAndStart(h) ==
    UNION {IF ~p.ok THEN {[hw |-> p.hw, ok |-> FALSE, prepared |-> FALSE]}
           ELSE {[hw |-> IF s.ok THEN s.hw ELSE unpreparePreview(s.hw),
                  ok |-> s.ok, prepared |-> TRUE] : s \in startPreview(p.hw)} :
             p \in preparePreview(h)}

(* The messages held back are dropped. *)
Slip_applyDelayedMsgs(m) == [m EXCEPT !.delayed = FALSE, !.delay = FALSE]

applyDelayedMsgs(m) ==
    IF m.delay THEN [m EXCEPT !.frame = m.frame \/ m.delayed, !.delayed = FALSE, !.delay = FALSE]
    ELSE m

AppliedIf(b) == IF b THEN applyDelayedMsgs(msgs) ELSE msgs

(* The new modes stay pending until a commit; a hint that equals the one in *)
(* the parameter map is not looked at.                                      *)
updateParameters(z, r) ==
    [hw EXCEPT !.zslNew = z,
               !.hintNew = IF r # hw.hintStr THEN r ELSE @,
               !.hintPend = IF r # hw.hintStr THEN r ELSE @]

NeedRestart(z, r, other) == z # hw.zslNew \/ (r # hw.hintStr /\ r # hw.hint) \/ other

Status == IF HwMayFail THEN {"OK", "ERR"} ELSE {"OK"}

isPreviewRunning == m_state \notin {"PREVIEW_STOPPED", "PIC_TAKING"}
isCaptureRunning == m_state \in {"PIC_TAKING", "VIDEO_PIC_TAKING", "PREVIEW_PIC_TAKING"}
LiveCapture == ~hw.zsl /\ ~hw.longshot

-----------------------------------------------------------------------------
(* How a handler ends.                                                     *)

To(s, h, m, o) ==
    m_state' = s /\ hw' = h /\ msgs' = m /\ out' = o /\ UNCHANGED bRetroPicture

Reply(e, v) == To(m_state, hw, msgs, Answer(e, v))
Ignored == To(m_state, hw, msgs, Quiet)
Passed(e) == \E v \in Status : Reply(e, v)

(* Reply with the outcome of an operation, in the state it leads to. *)
Ends(e, S, ok, bad) == \E o \in S : To(IF o.ok THEN ok ELSE bad, o.hw, msgs, Answer(e, Rc(o)))
EndsApplied(e, S, ok, bad) ==
    \E o \in S : To(IF o.ok THEN ok ELSE bad, o.hw, applyDelayedMsgs(msgs), Answer(e, Rc(o)))
Started(e, S, ok, bad) ==
    \E o \in S : To(IF o.ok THEN ok ELSE bad, o.hw, AppliedIf(o.prepared), Answer(e, Rc(o)))

Commits(e, h) == Ends(e, commitParameterChanges(h), m_state, m_state)

(* Parameters are parsed; Restarts(h) then runs when a restart is needed,   *)
(* and a plain commit otherwise.                                            *)
SetParams(e, Restarts(_)) ==
    /\ e = "SET_PARAMS"
    /\ \E m \in Modes, other \in BOOLEAN :
          LET h == updateParameters(m[1], m[2])
          IN \/ HwMayFail /\ To(m_state, h, msgs, Answer(e, "ERR"))
             \/ IF NeedRestart(m[1], m[2], other) THEN Restarts(h) ELSE Commits(e, h)

EnableMsgs(e) ==
    /\ e = "ENABLE_MSG_TYPE"
    /\ To(m_state, hw, [msgs EXCEPT !.frame = TRUE, !.wanted = TRUE], Answer(e, "OK"))

DisableMsgs(e) ==
    /\ e = "DISABLE_MSG_TYPE"
    /\ To(m_state, hw, [msgs EXCEPT !.frame = FALSE, !.wanted = FALSE], Answer(e, "OK"))

(* sendCommand for the two long-shot commands.  Cancelling a running long   *)
(* shot posts SNAPSHOT_DONE to the event queue.                             *)
LongshotOn(h) == [h EXCEPT !.longshot = TRUE]
LongshotOff == [(IF hw.longshot /\ isCaptureRunning THEN cancelPicture(hw) ELSE hw)
                   EXCEPT !.longshot = FALSE]

SendLongshotOn(e) ==
    /\ e = "LONGSHOT_ON"
    /\ IF isCaptureRunning THEN Reply(e, "ERR")
       ELSE To(m_state, LongshotOn(hw), msgs, Answer(e, "OK"))

SendLongshotOff(e, s) ==
    /\ e = "LONGSHOT_OFF"
    /\ To(s, LongshotOff, msgs,
          [Answer(e, "OK") EXCEPT !.post = hw.longshot /\ isCaptureRunning])

(* The event result is not signalled. *)
SnapshotDone == [Quiet EXCEPT !.done = TRUE]

-----------------------------------------------------------------------------

(* QCAMERA_SM_STATE_PREVIEW_STOPPED *)
StoppedSettings(e) ==
    \/ e = "GET_PARAMS" /\ Passed(e)
    \/ /\ e \in {"SET_PREVIEW_WINDOW", "CLEAR_PREVIEW_WINDOW"}
       /\ To(m_state, [hw EXCEPT !.window = (e = "SET_PREVIEW_WINDOW")], msgs, Answer(e, "OK"))
    \/ EnableMsgs(e)
    \/ DisableMsgs(e)
    \/ SetParams(e, LAMBDA h : Commits(e, h))

StoppedApi(e) ==
    \/ /\ e \in {"RELEASE_RECORDING_FRAME", "START_RECORDING", "STOP_RECORDING",
                 "PREPARE_SNAPSHOT", "TAKE_PICTURE"}
       /\ Reply(e, "INVALID")
    \/ e \in {"STOP_PREVIEW", "CANCEL_PICTURE"} /\ Reply(e, "OK")
    \/ e \in {"PREVIEW_ENABLED", "RECORDING_ENABLED"} /\ Reply(e, "FALSE")
    \/ e = "REG_FACE_IMAGE" /\ Passed(e)
    \/ e = "START_PREVIEW" /\ ~hw.window /\ Ends(e, preparePreview(hw), "PREVIEW_READY", m_state)
    \/ /\ (e = "START_PREVIEW" /\ hw.window) \/ e = "START_NODISPLAY_PREVIEW"
       /\ Started(e, PrepareAndStart(hw), "PREVIEWING", m_state)
    \/ e = "RELEASE" /\ To(m_state, releaseChannels(hw), msgs, Answer(e, "OK"))
    \/ SendLongshotOn(e)
    \/ SendLongshotOff(e, m_state)
    \/ e = "STOP_CAPTURE_CHANNEL" /\ Ignored

StoppedEvt(e) ==
    \/ e \in {"PREP_SNAPSHOT_DONE", "READY_FOR_SNAPSHOT", "DAEMON_DIED"} /\ Ignored
    \/ e = "SNAPSHOT_DONE" /\ To(m_state, hw, msgs, SnapshotDone)

(* QCAMERA_SM_STATE_PREVIEW_READY: the channels are there, the window is not. *)
ReadySettings(e) ==
    \/ e = "GET_PARAMS" /\ Passed(e)
    \/ /\ e = "CLEAR_PREVIEW_WINDOW"
       /\ To(m_state, [hw EXCEPT !.window = FALSE], msgs, Answer(e, "OK"))
    \/ /\ e = "SET_PREVIEW_WINDOW"
       /\ EndsApplied(e,
            {IF o.ok THEN o ELSE Failed(unpreparePreview(o.hw)) :
               o \in startPreview([hw EXCEPT !.window = TRUE])},
            "PREVIEWING", "PREVIEW_STOPPED")
    \/ EnableMsgs(e)
    \/ DisableMsgs(e)
    \/ SetParams(e, LAMBDA h :
            Ends(e, UNION {preparePreview(o.hw) : o \in commitParameterChanges(unpreparePreview(h))},
                 m_state, "PREVIEW_STOPPED"))

ReadyApi(e) ==
    \/ /\ e \in {"RELEASE_RECORDING_FRAME", "START_NODISPLAY_PREVIEW", "START_RECORDING",
                 "STOP_RECORDING", "PREPARE_SNAPSHOT", "TAKE_PICTURE", "CANCEL_PICTURE",
                 "RELEASE"}
       /\ Reply(e, "INVALID")
    \/ e = "START_PREVIEW" /\ Reply(e, "OK")
    \/ e = "PREVIEW_ENABLED" /\ Reply(e, "TRUE")
    \/ e = "RECORDING_ENABLED" /\ Reply(e, "FALSE")
    \/ e = "REG_FACE_IMAGE" /\ Passed(e)
    \/ /\ e = "STOP_PREVIEW"
       /\ To("PREVIEW_STOPPED", unpreparePreview(hw), msgs, Answer(e, "OK"))
    \/ SendLongshotOn(e)
    \/ SendLongshotOff(e, m_state)
    \/ e = "STOP_CAPTURE_CHANNEL" /\ Ignored

ReadyEvt(e) ==
    \/ e \in {"PREP_SNAPSHOT_DONE", "READY_FOR_SNAPSHOT", "DAEMON_DIED"} /\ Ignored
    \/ e = "SNAPSHOT_DONE" /\ To(m_state, hw, msgs, SnapshotDone)

(* QCAMERA_SM_STATE_PREVIEWING.  PREVIEW_FRAME asked for after a ZSL capture *)
(* is held back until the next preview request.                             *)
Rebuilt(h) == PrepareAndStart(stopPreview(h))
RebuiltCommitted(h) == UNION {PrepareAndStart(o.hw) : o \in commitParameterChanges(stopPreview(h))}

PreviewingTakePicture(e) ==
    /\ e = "TAKE_PICTURE"
    /\ \/ /\ ~hw.hint /\ ~LiveCapture
          /\ \E o \in takePicture(hw) :
               To(IF o.ok THEN "PREVIEW_PIC_TAKING" ELSE "PREVIEWING", o.hw,
                  [msgs EXCEPT !.delay = TRUE],
                  IF bRetroPicture /\ o.ok THEN Quiet ELSE Answer(e, Rc(o)))
       \/ /\ ~hw.hint /\ LiveCapture
          /\ Ends(e, takePicture(hw), "PIC_TAKING", "PREVIEW_STOPPED")
       \/ hw.hint /\ Ends(e, takeLiveSnapshot(hw), "PREVIEW_PIC_TAKING", "PREVIEWING")

PreviewingSettings(e) ==
    \/ e = "GET_PARAMS" /\ Passed(e)
    \/ ~msgs.delay /\ EnableMsgs(e)
    \/ /\ e = "ENABLE_MSG_TYPE" /\ msgs.delay
       /\ To(m_state, hw, [msgs EXCEPT !.delayed = TRUE, !.wanted = TRUE], Answer(e, "OK"))
    \/ ~(msgs.delay /\ msgs.delayed) /\ DisableMsgs(e)
    \/ /\ e = "DISABLE_MSG_TYPE" /\ msgs.delay /\ msgs.delayed
       /\ To(m_state, hw, [frame |-> FALSE, delayed |-> FALSE, delay |-> FALSE, wanted |-> FALSE],
             Answer(e, "OK"))
    \/ SetParams(e, LAMBDA h : Started(e, RebuiltCommitted(h), m_state, "PREVIEW_STOPPED"))

PreviewingApi(e) ==
    \/ /\ e \in {"SET_PREVIEW_WINDOW", "CLEAR_PREVIEW_WINDOW", "RELEASE_RECORDING_FRAME",
                 "CANCEL_PICTURE", "STOP_RECORDING", "RELEASE"}
       /\ Reply(e, "INVALID")
    \/ e = "RECORDING_ENABLED" /\ Reply(e, "FALSE")
    \/ e = "REG_FACE_IMAGE" /\ Passed(e)
    \/ /\ e \in {"START_PREVIEW", "START_NODISPLAY_PREVIEW"}
       /\ To(m_state, hw, applyDelayedMsgs(msgs), Answer(e, "OK"))
    \/ e = "PREVIEW_ENABLED" /\ To(m_state, hw, applyDelayedMsgs(msgs), Answer(e, "TRUE"))
    \/ e = "STOP_PREVIEW" /\ EndsApplied(e, {Done(stopPreview(hw))}, "PREVIEW_STOPPED", m_state)
    \/ /\ e = "START_RECORDING"
       /\ \E o \in startRecording(hw) :
            To(IF o.ok THEN "RECORDING" ELSE m_state, o.hw, AppliedIf(o.ok), Answer(e, Rc(o)))
    \/ /\ e = "PREPARE_SNAPSHOT"
       /\ \/ To("PREPARE_SNAPSHOT", hw, applyDelayedMsgs(msgs), Quiet)
          \/ HwMayFail /\ Reply(e, "ERR")
    \/ PreviewingTakePicture(e)
    \/ SendLongshotOn(e)
    \/ /\ e = "LONGSHOT_ON" /\ hw.zsl /\ hw.ch["ZSL"] # "null"
       /\ Started(e, Rebuilt(LongshotOn(hw)), m_state, m_state)
    \/ SendLongshotOff(e, m_state)
    \/ e = "STOP_CAPTURE_CHANNEL" /\ Ignored

PreviewingEvt(e) ==
    \/ e \in {"PREP_SNAPSHOT_DONE", "READY_FOR_SNAPSHOT", "DAEMON_DIED"} /\ Ignored
    \/ e = "SNAPSHOT_DONE" /\ To(m_state, hw, msgs, SnapshotDone)

(* QCAMERA_SM_STATE_PREPARE_SNAPSHOT: nothing but the answer of the daemon   *)
(* is waited for.  Two requests have no case, not even the refusing one.    *)
PrepareSnapshotApi(e) ==
    \/ /\ e \notin {"REG_FACE_IMAGE", "STOP_CAPTURE_CHANNEL", "PREP_SNAPSHOT_DONE",
                    "READY_FOR_SNAPSHOT", "DAEMON_DIED", "SNAPSHOT_DONE"}
       /\ Reply(e, "INVALID")
    \/ e \in {"REG_FACE_IMAGE", "STOP_CAPTURE_CHANNEL"} /\ Ignored

(* The request is not answered. *)
Slip_PrepareSnapshotEvt(e) == e = "PREP_SNAPSHOT_DONE" /\ To("PREVIEWING", hw, msgs, Quiet)

PrepareSnapshotEvt(e) ==
    \/ e = "PREP_SNAPSHOT_DONE" /\ To("PREVIEWING", hw, msgs, Answer("PREPARE_SNAPSHOT", "OK"))
    \/ e \in {"READY_FOR_SNAPSHOT", "DAEMON_DIED"} /\ Ignored
    \/ e = "SNAPSHOT_DONE" /\ To(m_state, hw, msgs, SnapshotDone)

(* QCAMERA_SM_STATE_PIC_TAKING: a normal capture, the preview is gone. *)
PicTakingSettings(e) ==
    \/ e = "GET_PARAMS" /\ Passed(e)
    \/ EnableMsgs(e)
    \/ DisableMsgs(e)
    \/ SetParams(e, LAMBDA h : Commits(e, h))

PicTakingApi(e) ==
    \/ /\ e \in {"SET_PREVIEW_WINDOW", "CLEAR_PREVIEW_WINDOW", "PREPARE_SNAPSHOT",
                 "START_RECORDING", "STOP_RECORDING", "RELEASE_RECORDING_FRAME",
                 "START_PREVIEW", "START_NODISPLAY_PREVIEW", "RELEASE"}
       /\ Reply(e, "INVALID")
    \/ e \in {"PREVIEW_ENABLED", "RECORDING_ENABLED"} /\ Reply(e, "FALSE")
    \/ e = "REG_FACE_IMAGE" /\ Passed(e)
    \/ /\ e \in {"STOP_PREVIEW", "CANCEL_PICTURE"}
       /\ To("PREVIEW_STOPPED", cancelPicture(hw), msgs, Answer(e, "OK"))
    \/ e = "TAKE_PICTURE" /\ ~hw.longshot /\ Reply(e, "INVALID")
    \/ e = "TAKE_PICTURE" /\ hw.longshot /\ Ends(e, longShot(hw), m_state, m_state)
    \/ SendLongshotOn(e)
    \/ SendLongshotOff(e, "PREVIEWING")
    \/ /\ e = "STOP_CAPTURE_CHANNEL"
       /\ LET c == stopCaptureChannel(hw)
          IN IF ~PreviewRestart \/ ~c.ok THEN Ends(e, {c}, m_state, m_state)
             ELSE \E p \in preparePreview(c.hw) :
                    IF ~p.ok THEN Ends(e, {p}, m_state, m_state)
                    ELSE EndsApplied(e, startPreview(p.hw), m_state, m_state)

PicTakingEvt(e) ==
    \/ e \in {"PREP_SNAPSHOT_DONE", "READY_FOR_SNAPSHOT"} /\ Ignored
    \/ /\ e = "DAEMON_DIED"
       /\ To(m_state, hw, msgs,
             [Quiet EXCEPT !.api = <<Result("PREPARE_SNAPSHOT", "OK"), Result("TAKE_PICTURE", "OK")>>])
    \/ /\ e = "SNAPSHOT_DONE"
       /\ To(IF PreviewRestart THEN "PREVIEWING" ELSE "PREVIEW_STOPPED", cancelPicture(hw), msgs,
             SnapshotDone)

(* QCAMERA_SM_STATE_RECORDING *)
RefusedRestart(e, h) == To(m_state, h, msgs, Answer(e, "ERR"))

RecordingSettings(e) ==
    \/ e = "PREVIEW_ENABLED" /\ Reply(e, "FALSE")
    \/ e = "RECORDING_ENABLED" /\ Reply(e, "TRUE")
    \/ e = "GET_PARAMS" /\ Passed(e)
    \/ EnableMsgs(e)
    \/ DisableMsgs(e)
    \/ SetParams(e, LAMBDA h : RefusedRestart(e, h))

RecordingApi(e) ==
    \/ /\ e \in {"CANCEL_PICTURE", "START_NODISPLAY_PREVIEW", "RELEASE"}
       /\ Reply(e, "INVALID")
    \/ /\ e \in {"START_PREVIEW", "SET_PREVIEW_WINDOW", "CLEAR_PREVIEW_WINDOW",
                 "START_RECORDING", "PREPARE_SNAPSHOT"}
       /\ Reply(e, "OK")
    \/ e \in {"REG_FACE_IMAGE", "RELEASE_RECORDING_FRAME"} /\ Passed(e)
    \/ e = "TAKE_PICTURE" /\ Ends(e, takeLiveSnapshot(hw), "VIDEO_PIC_TAKING", "RECORDING")
    \/ e = "STOP_RECORDING" /\ Ends(e, {stopRecording(hw)}, "PREVIEWING", "PREVIEWING")
    \/ /\ e = "STOP_PREVIEW"
       /\ To("PREVIEW_STOPPED", stopPreview(stopRecording(hw).hw), msgs, Answer(e, "OK"))
    \/ SendLongshotOn(e)
    \/ SendLongshotOff(e, m_state)
    \/ e = "STOP_CAPTURE_CHANNEL" /\ Ignored

RecordingEvt(e) ==
    \/ e \in {"PREP_SNAPSHOT_DONE", "READY_FOR_SNAPSHOT", "DAEMON_DIED"} /\ Ignored
    \/ e = "SNAPSHOT_DONE" /\ To(m_state, hw, msgs, SnapshotDone)

(* QCAMERA_SM_STATE_VIDEO_PIC_TAKING: a live snapshot while recording. *)
VideoPicTakingSettings(e) ==
    \/ e \in {"PREVIEW_ENABLED", "RECORDING_ENABLED"} /\ Reply(e, "TRUE")
    \/ e = "GET_PARAMS" /\ Passed(e)
    \/ EnableMsgs(e)
    \/ DisableMsgs(e)
    \/ SetParams(e, LAMBDA h : RefusedRestart(e, h))

VideoPicTakingApi(e) ==
    \/ /\ e \in {"SET_PREVIEW_WINDOW", "CLEAR_PREVIEW_WINDOW", "START_RECORDING",
                 "START_PREVIEW", "START_NODISPLAY_PREVIEW", "PREPARE_SNAPSHOT",
                 "TAKE_PICTURE", "RELEASE"}
       /\ Reply(e, "INVALID")
    \/ e \in {"REG_FACE_IMAGE", "RELEASE_RECORDING_FRAME"} /\ Passed(e)
    \/ /\ e = "STOP_RECORDING" /\ CanJoin
       /\ Ends(e, {stopRecording(cancelLiveSnapshot(hw).hw)}, "PREVIEWING", "PREVIEWING")
    \/ /\ e = "CANCEL_PICTURE" /\ CanJoin
       /\ Ends(e, {cancelLiveSnapshot(hw)}, "RECORDING", "RECORDING")
    \/ /\ e = "STOP_PREVIEW" /\ CanJoin
       /\ To("PREVIEW_STOPPED", stopPreview(stopRecording(cancelLiveSnapshot(hw).hw).hw), msgs,
             Answer(e, "OK"))
    \/ SendLongshotOn(e)
    \/ SendLongshotOff(e, m_state)
    \/ e = "STOP_CAPTURE_CHANNEL" /\ Ignored

VideoPicTakingEvt(e) ==
    \/ e \in {"PREP_SNAPSHOT_DONE", "READY_FOR_SNAPSHOT", "DAEMON_DIED"} /\ Ignored
    \/ /\ e = "SNAPSHOT_DONE" /\ CanJoin
       /\ To("RECORDING", cancelLiveSnapshot(hw).hw, msgs, SnapshotDone)

(* QCAMERA_SM_STATE_PREVIEW_PIC_TAKING: a ZSL, long-shot or live capture     *)
(* over the preview.  Only the live one is cancelled by joining its thread. *)
CanCancelCapture == LiveCapture => CanJoin

CancelCapture == IF LiveCapture THEN cancelLiveSnapshot(hw) ELSE Done(cancelPicture(hw))

PreviewPicTakingSettings(e) ==
    \/ e = "PREVIEW_ENABLED" /\ Reply(e, "TRUE")
    \/ e = "RECORDING_ENABLED" /\ Reply(e, "FALSE")
    \/ e = "GET_PARAMS" /\ Passed(e)
    \/ EnableMsgs(e)
    \/ DisableMsgs(e)
    \/ SetParams(e, LAMBDA h : Started(e, RebuiltCommitted(h), m_state, "PIC_TAKING"))

PreviewPicTakingApi(e) ==
    \/ /\ e \in {"STOP_RECORDING", "START_PREVIEW", "START_NODISPLAY_PREVIEW",
                 "SET_PREVIEW_WINDOW", "CLEAR_PREVIEW_WINDOW", "RELEASE"}
       /\ Reply(e, "INVALID")
    \/ e \in {"REG_FACE_IMAGE", "RELEASE_RECORDING_FRAME"} /\ Passed(e)
    \/ SendLongshotOn(e)
    \/ SendLongshotOff(e, "PREVIEWING")
    \/ /\ e = "CANCEL_PICTURE" /\ CanCancelCapture
       /\ Ends(e, {CancelCapture}, "PREVIEWING", "PREVIEWING")
    \/ /\ e = "STOP_PREVIEW" /\ CanCancelCapture
       /\ To("PREVIEW_STOPPED", unpreparePreview(CancelCapture.hw), msgs, Answer(e, Rc(CancelCapture)))
    \/ e = "START_RECORDING" /\ ~LiveCapture /\ Reply(e, "INVALID")
    \/ /\ e = "START_RECORDING" /\ LiveCapture
       /\ Ends(e, startRecording(hw), "VIDEO_PIC_TAKING", m_state)
    \/ e = "TAKE_PICTURE" /\ ~hw.longshot /\ Reply(e, "INVALID")
    \/ e = "TAKE_PICTURE" /\ hw.longshot /\ Ends(e, longShot(hw), m_state, m_state)
    \/ e = "PREPARE_SNAPSHOT" /\ ~bRetroPicture /\ Reply(e, "INVALID")
    \/ e = "PREPARE_SNAPSHOT" /\ bRetroPicture /\ (Ignored \/ (HwMayFail /\ Reply(e, "ERR")))
    \/ e = "STOP_CAPTURE_CHANNEL" /\ Ignored

PreviewPicTakingEvt(e) ==
    \/ e \in {"PREP_SNAPSHOT_DONE", "READY_FOR_SNAPSHOT"} /\ ~bRetroPicture /\ Ignored
    \/ /\ e \in {"PREP_SNAPSHOT_DONE", "READY_FOR_SNAPSHOT"} /\ bRetroPicture
       /\ To(m_state, hw, msgs,
             Answer(IF e = "PREP_SNAPSHOT_DONE" THEN "PREPARE_SNAPSHOT" ELSE "TAKE_PICTURE", "OK"))
    \/ e = "DAEMON_DIED" /\ Ignored
    \/ /\ e = "SNAPSHOT_DONE" /\ CanCancelCapture
       /\ To("PREVIEWING", CancelCapture.hw, msgs,
             IF bRetroPicture THEN [SnapshotDone EXCEPT !.api = <<Result(e, Rc(CancelCapture))>>]
             ELSE SnapshotDone)

-----------------------------------------------------------------------------
(* stateMachine: the command goes to the function of the current state. *)
stateMachine(e) ==
    \/ m_state = "PREVIEW_STOPPED" /\ (StoppedSettings(e) \/ StoppedApi(e) \/ StoppedEvt(e))
    \/ m_state = "PREVIEW_READY" /\ (ReadySettings(e) \/ ReadyApi(e) \/ ReadyEvt(e))
    \/ m_state = "PREVIEWING" /\ (PreviewingSettings(e) \/ PreviewingApi(e) \/ PreviewingEvt(e))
    \/ m_state = "PREPARE_SNAPSHOT" /\ (PrepareSnapshotApi(e) \/ PrepareSnapshotEvt(e))
    \/ m_state = "PIC_TAKING" /\ (PicTakingSettings(e) \/ PicTakingApi(e) \/ PicTakingEvt(e))
    \/ m_state = "RECORDING" /\ (RecordingSettings(e) \/ RecordingApi(e) \/ RecordingEvt(e))
    \/ m_state = "VIDEO_PIC_TAKING" /\ (VideoPicTakingSettings(e) \/ VideoPicTakingApi(e) \/ VideoPicTakingEvt(e))
    \/ m_state = "PREVIEW_PIC_TAKING" /\ (PreviewPicTakingSettings(e) \/ PreviewPicTakingApi(e) \/ PreviewPicTakingEvt(e))

(* The live snapshot thread, beside the state machine: it starts the        *)
(* snapshot channel, or fails and sends CANCEL_PICTURE as an API, or gives  *)
(* up on the rotation setup without a word.                                 *)
LiveSnapshotStarts ==
    /\ hw.live = "running" /\ hw.ch["SNAPSHOT"] # "null"
    /\ hw' = [SetCh(hw, {"SNAPSHOT"}, "started") EXCEPT !.live = "done"]
    /\ UNCHANGED <<m_state, msgs, bRetroPicture, out>>

LiveSnapshotFails ==
    /\ hw.live = "running" /\ (LiveMayFail \/ hw.ch["SNAPSHOT"] = "null")
    /\ hw' = [hw EXCEPT !.live = "done"]
    /\ UNCHANGED <<m_state, msgs, bRetroPicture, out>>

(* take_picture decides on retro-active frames before it sends TAKE_PICTURE. *)
setRetroPicture(b) ==
    /\ b => hw.zsl /\ ~hw.longshot /\ m_state \notin {"RECORDING", "VIDEO_PIC_TAKING"}
    /\ bRetroPicture' = b
    /\ UNCHANGED <<m_state, hw, msgs, out>>

Init ==
    /\ m_state = "PREVIEW_STOPPED"
    /\ hw = [ch |-> [t \in ChTypes |-> "null"], zsl |-> FALSE, zslNew |-> FALSE, hint |-> FALSE,
             hintNew |-> FALSE, hintStr |-> FALSE, hintPend |-> FALSE, longshot |-> FALSE,
             window |-> FALSE, live |-> "none"]
    /\ msgs = [frame |-> FALSE, delayed |-> FALSE, delay |-> FALSE, wanted |-> FALSE]
    /\ bRetroPicture = FALSE
    /\ out = Quiet

ModeEvts == {"SET_PARAMS", "LONGSHOT_ON", "LONGSHOT_OFF"}

Next ==
    \/ \E e \in Evts : (e \in ModeEvts => m_state \in SetStates) /\ stateMachine(e)
    \/ LiveSnapshotStarts
    \/ LiveSnapshotFails
    \/ \E b \in BOOLEAN : setRetroPicture(b)

Spec == Init /\ [][Next]_vars

-----------------------------------------------------------------------------
TypeOK ==
    /\ m_state \in States
    /\ hw \in Hardware
    /\ msgs \in Messages
    /\ bRetroPicture \in BOOLEAN
    /\ out \in Outputs

Running(t) == hw.ch[t] = "started"
Recording == m_state \in {"RECORDING", "VIDEO_PIC_TAKING"}

(* The state machine believes it records exactly while the video stream      *)
(* runs, whatever the client asks and whatever the daemon refuses: every     *)
(* way in starts the channel last, every way out stops or deletes it.        *)
VideoIffRecording == Running("VIDEO") <=> Recording

(* Waiting for a window, the machine holds a preview channel ready to start, *)
(* and the window has not come yet: no path leaves it there unprepared.      *)
ReadyIsPrepared ==
    m_state = "PREVIEW_READY" => ~hw.window /\ \E t \in {"ZSL", "PREVIEW"} : hw.ch[t] # "null"

(* "preview is stopped": where no preview is believed to run, no preview,    *)
(* capture or video stream runs on, whatever the capture or the recording    *)
(* that was cut short had started.                                           *)
StoppedIsStopped ==
    m_state \in {"PREVIEW_STOPPED", "PREVIEW_READY"} =>
        \A t \in ChTypes \ {"SNAPSHOT"} : ~Running(t)

(* The sensor serves one preview: the ZSL channel, the preview channel and   *)
(* the normal capture exclude each other.                                    *)
OneStreamingChannel ==
    \A t, u \in {"ZSL", "PREVIEW", "CAPTURE"} : Running(t) /\ Running(u) => t = u

(* A recording has a running preview under it and a snapshot channel at      *)
(* hand for live pictures, in recording-hint mode.                           *)
RecordingOverPreview ==
    Recording => Running("PREVIEW") /\ hw.ch["SNAPSHOT"] # "null" /\ hw.hint

(* A client that asked for preview frames has them enabled or held back,     *)
(* through captures, restarts and failures; held back, they are on a path    *)
(* that will apply them.                                                     *)
FrameRequestNotLost ==
    /\ msgs.wanted => msgs.frame \/ msgs.delayed
    /\ msgs.delayed => msgs.delay

(* No request for frames is still held back once a recording runs.           *)
FramesWhileRecording == Recording /\ msgs.wanted => msgs.frame
=============================================================================
