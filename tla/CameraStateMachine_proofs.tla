---------------------- MODULE CameraStateMachine_proofs ----------------------
(***************************************************************************)
(* For all events a client may send, all modes it may ask for and a daemon *)
(* that may refuse anything or nothing: the state machine records exactly  *)
(* while the video stream runs, and waits for a window exactly with a      *)
(* prepared preview.  Both say that a state and the hardware fit each      *)
(* other, so the proof follows what each operation does to the video       *)
(* channel, and then each handler to the state it ends in.                 *)
(***************************************************************************)
EXTENDS CameraStateMachine, TLAPS

VideoRuns(h) == h.ch["VIDEO"] = "started"
Prepared(h) == h.ch["ZSL"] # "null" \/ h.ch["PREVIEW"] # "null"

(* The state s fits the hardware h.                                         *)
Fits(s, h) ==
    /\ s \in States
    /\ h \in Hardware
    /\ VideoRuns(h) <=> s \in {"RECORDING", "VIDEO_PIC_TAKING"}
    /\ s = "PREVIEW_READY" => ~h.window /\ Prepared(h)

(* Hardware that fits every state that does not record and has no promise   *)
(* of a prepared preview.                                                   *)
VideoOff(h) == h \in Hardware /\ ~VideoRuns(h)

Outcomes(S) == \A o \in S : o.hw \in Hardware /\ o.ok \in BOOLEAN
IdleOutcomes(S) == \A o \in S : VideoOff(o.hw) /\ o.ok \in BOOLEAN

(* A request for preview frames is applied, or held back to be applied.      *)
KeptMessages ==
    {m \in Messages : (m.wanted => m.frame \/ m.delayed) /\ (m.delayed => m.delay)}

Signals(m, o) == m \in KeptMessages /\ o \in Outputs

IInv == Fits(m_state, hw) /\ Signals(msgs, out) /\ bRetroPicture \in BOOLEAN

-----------------------------------------------------------------------------
(* Setting some channels changes no other and no mode. *)
LEMMA SetChannels ==
    ASSUME NEW h \in Hardware, NEW T \in SUBSET ChTypes, NEW s \in ChStatus
    PROVE  /\ SetCh(h, T, s) \in Hardware
           /\ \A t \in ChTypes : SetCh(h, T, s).ch[t] = IF t \in T THEN s ELSE h.ch[t]
           /\ SetCh(h, T, s).window = h.window
           /\ SetCh(h, T, s).zsl = h.zsl
           /\ SetCh(h, T, s).hint = h.hint
           /\ SetCh(h, T, s).longshot = h.longshot
  BY DEF SetCh, Hardware

(* What an outcome says. *)
LEMMA OutcomeParts ==
    ASSUME NEW h
    PROVE  /\ Done(h).hw = h /\ Done(h).ok = TRUE
           /\ Failed(h).hw = h /\ Failed(h).ok = FALSE
           /\ \A o \in MayFail(h) : o = Failed(h)
  BY DEF Done, Failed, MayFail

(* Channels other than a running video one keep the hardware idle. *)
LEMMA SetIdle ==
    ASSUME NEW h, VideoOff(h), NEW T \in SUBSET ChTypes, NEW s \in ChStatus,
           s = "started" => "VIDEO" \notin T
    PROVE  VideoOff(SetCh(h, T, s)) /\ SetCh(h, T, s).window = h.window
  BY SetChannels DEF VideoOff, VideoRuns, ChTypes

(* Deleting the video channel among others ends what it did. *)
LEMMA DeleteIdle ==
    ASSUME NEW h \in Hardware, NEW T \in SUBSET ChTypes, "VIDEO" \in T
    PROVE  VideoOff(delChannels(h, T)) /\ delChannels(h, T).window = h.window
  BY SetChannels DEF VideoOff, VideoRuns, delChannels, ChTypes, ChStatus

LEMMA AddIdle ==
    ASSUME NEW h, VideoOff(h), NEW t \in ChTypes
    PROVE  /\ IdleOutcomes(addChannel(h, t))
           /\ \A o \in addChannel(h, t) :
                 o.hw.window = h.window /\ (o.ok => o.hw.ch[t] = "added")
<1> DEFINE added == SetCh(h, {t}, "added")
           gone == SetCh(h, {t}, "null")
<1>1. VideoOff(added) /\ added.window = h.window
  BY SetIdle DEF ChStatus
<1>2. VideoOff(gone) /\ gone.window = h.window
  BY SetIdle DEF ChStatus
<1>3. added.ch[t] = "added"
  BY SetChannels DEF VideoOff, ChStatus
<1>4. \A o \in addChannel(h, t) : o = Done(added) \/ o = Failed(gone)
  BY OutcomeParts DEF addChannel
<1> HIDE DEF added, gone
<1> QED
  BY ZenonT(40), <1>1, <1>2, <1>3, <1>4, OutcomeParts DEF IdleOutcomes

(* Starting a channel that is not the video one. *)
LEMMA StartIdle ==
    ASSUME NEW h, VideoOff(h), NEW t \in ChTypes, t # "VIDEO"
    PROVE  /\ IdleOutcomes(startChannel(h, t))
           /\ \A o \in startChannel(h, t) : o.hw.window = h.window
<1> DEFINE started == SetCh(h, {t}, "started")
<1>1. VideoOff(started) /\ started.window = h.window
  BY SetIdle DEF ChStatus
<1>2. \A o \in startChannel(h, t) : o = Done(started) \/ o = Failed(h)
  BY OutcomeParts DEF startChannel
<1> HIDE DEF started
<1> QED
  BY <1>1, <1>2, OutcomeParts DEF IdleOutcomes

(* Starting the video channel runs it exactly when it succeeds. *)
LEMMA StartVideo ==
    ASSUME NEW h, VideoOff(h)
    PROVE  \A o \in startChannel(h, "VIDEO") :
              o.hw \in Hardware /\ o.ok \in BOOLEAN /\ (VideoRuns(o.hw) <=> o.ok)
<1> DEFINE started == SetCh(h, {"VIDEO"}, "started")
<1>1. started \in Hardware /\ VideoRuns(started)
  BY SetChannels DEF VideoOff, ChTypes, ChStatus, VideoRuns
<1>2. \A o \in startChannel(h, "VIDEO") : o = Done(started) \/ o = Failed(h)
  BY OutcomeParts DEF startChannel
<1> HIDE DEF started
<1> QED
  BY ZenonT(40), <1>1, <1>2, OutcomeParts DEF VideoOff

(* Stopping any channel; the video one does not run afterwards. *)
LEMMA StopChannel ==
    ASSUME NEW h \in Hardware, NEW t \in ChTypes
    PROVE  /\ stopChannel(h, t).hw \in Hardware
           /\ stopChannel(h, t).ok \in BOOLEAN
           /\ t = "VIDEO" => VideoOff(stopChannel(h, t).hw)
           /\ t # "VIDEO" => (VideoRuns(stopChannel(h, t).hw) <=> VideoRuns(h))
<1> DEFINE stopped == SetCh(h, {t}, "added")
<1>1. /\ stopped \in Hardware
      /\ stopped.ch["VIDEO"] = IF t = "VIDEO" THEN "added" ELSE h.ch["VIDEO"]
  BY SetChannels DEF ChTypes, ChStatus
<1>2. stopChannel(h, t) = IF h.ch[t] = "started" THEN Done(stopped) ELSE Failed(h)
  BY DEF stopChannel
<1> HIDE DEF stopped
<1>3. CASE h.ch[t] = "started"
  BY ZenonT(40), <1>1, <1>2, <1>3, OutcomeParts DEF VideoOff, VideoRuns
<1>4. CASE h.ch[t] # "started"
  BY <1>2, <1>4, OutcomeParts DEF VideoOff, VideoRuns
<1> QED
  BY <1>3, <1>4

(* A prepared preview has its channel, and does not touch the window. *)
LEMMA PrepareIdle ==
    ASSUME NEW h, VideoOff(h)
    PROVE  /\ IdleOutcomes(preparePreview(h))
           /\ \A o \in preparePreview(h) :
                 o.hw.window = h.window /\ (o.ok => Prepared(o.hw))
<1>1. CASE ZslPreview(h) \/ ~h.hint
  <2>1. PICK t \in {"ZSL", "PREVIEW"} :
           preparePreview(h) = addChannel(h, t) \cup MayFail(h)
    BY <1>1 DEF preparePreview
  <2>2. \A o \in MayFail(h) : VideoOff(o.hw) /\ o.hw.window = h.window /\ o.ok = FALSE
    BY OutcomeParts
  <2> QED
    BY <2>1, <2>2, AddIdle DEF IdleOutcomes, Prepared, ChTypes
<1>2. CASE ~ZslPreview(h) /\ h.hint
  <2> DEFINE all == SetCh(h, {"SNAPSHOT", "VIDEO", "PREVIEW"}, "added")
             cut == {{}, {"SNAPSHOT"}, {"SNAPSHOT", "VIDEO"}, {"SNAPSHOT", "VIDEO", "PREVIEW"}}
  <2>1. VideoOff(all) /\ all.window = h.window /\ all.ch["PREVIEW"] = "added"
    BY SetIdle, SetChannels DEF VideoOff, ChTypes, ChStatus
  <2>2. \A T \in cut : VideoOff(delChannels(h, T)) /\ delChannels(h, T).window = h.window
    BY SetIdle DEF delChannels, ChStatus, ChTypes
  <2>3. preparePreview(h) = {Done(all)} \cup UNION {MayFail(delChannels(h, T)) : T \in cut}
    BY <1>2 DEF preparePreview
  <2> HIDE DEF all, cut
  <2>4. ASSUME NEW o \in preparePreview(h)
        PROVE  o = Done(all) \/ \E T \in cut : o = Failed(delChannels(h, T))
    BY ZenonT(40), <2>3, OutcomeParts
  <2>5. ASSUME NEW o \in preparePreview(h)
        PROVE  /\ VideoOff(o.hw) /\ o.ok \in BOOLEAN
               /\ o.hw.window = h.window
               /\ o.ok => Prepared(o.hw)
    <3>1. CASE o = Done(all)
      BY <2>1, <3>1, OutcomeParts DEF Prepared
    <3>2. CASE \E T \in cut : o = Failed(delChannels(h, T))
      <4>1. PICK T \in cut : o = Failed(delChannels(h, T))
        BY <3>2
      <4>2. o.hw = delChannels(h, T) /\ o.ok = FALSE
        BY <4>1, OutcomeParts
      <4> QED
        BY <2>2, <4>2
    <3> QED
      BY <2>4, <3>1, <3>2
  <2> QED
    BY <2>5 DEF IdleOutcomes
<1> QED
  BY <1>1, <1>2

LEMMA PreviewIdle ==
    ASSUME NEW h, VideoOff(h)
    PROVE  IdleOutcomes(startPreview(h))
  BY StartIdle DEF startPreview, ChTypes

LEMMA UnprepareIdle ==
    ASSUME NEW h \in Hardware
    PROVE  /\ VideoOff(unpreparePreview(h)) /\ unpreparePreview(h).window = h.window
           /\ VideoOff(stopPreview(h)) /\ stopPreview(h).window = h.window
           /\ VideoOff(releaseChannels(h))
  BY DeleteIdle DEF unpreparePreview, stopPreview, releaseChannels, ChTypes

(* A commit changes modes only. *)
LEMMA CommitIdle ==
    ASSUME NEW h \in Hardware
    PROVE  \A o \in commitParameterChanges(h) :
              /\ o.hw \in Hardware /\ o.ok \in BOOLEAN
              /\ o.hw.ch = h.ch /\ o.hw.window = h.window
<1> DEFINE committed == [h EXCEPT !.zsl = h.zslNew, !.hint = h.hintNew, !.hintStr = h.hintPend]
<1>1. committed \in Hardware /\ committed.ch = h.ch /\ committed.window = h.window
  BY DEF Hardware
<1>2. \A o \in commitParameterChanges(h) : o = Done(committed) \/ o = Failed(h)
  BY OutcomeParts DEF commitParameterChanges
<1> HIDE DEF committed
<1> QED
  BY ZenonT(40), <1>1, <1>2, OutcomeParts

(* Recording runs the video channel exactly when it is reported started. *)
LEMMA RecordingStarts ==
    ASSUME NEW h, VideoOff(h)
    PROVE  \A o \in startRecording(h) :
              o.hw \in Hardware /\ o.ok \in BOOLEAN /\ (VideoRuns(o.hw) <=> o.ok)
<1> DEFINE hinting == [stopPreview(h) EXCEPT !.hintNew = TRUE]
           hinted == {o.hw : o \in commitParameterChanges(hinting)}
           Rebuild(g) == Then(preparePreview(g), LAMBDA x : startChannel(x, "PREVIEW"))
           preview == IF h.hint THEN {Done(h)} ELSE UNION {Rebuild(g) : g \in hinted}
<1>1. VideoOff(hinting)
  BY ZenonT(40), UnprepareIdle DEF VideoOff, Hardware, VideoRuns
<1>2. \A g \in hinted : VideoOff(g)
  BY <1>1, CommitIdle DEF VideoOff, VideoRuns
<1>3. ASSUME NEW g, VideoOff(g)
      PROVE  IdleOutcomes(Rebuild(g))
  <2>1. \A o \in preparePreview(g) : IdleOutcomes(startChannel(o.hw, "PREVIEW"))
    BY <1>3, PrepareIdle, StartIdle DEF IdleOutcomes, ChTypes
  <2> QED
    BY <1>3, <2>1, PrepareIdle DEF Then, IdleOutcomes
<1>4. startRecording(h) = Then(preview, LAMBDA x : startChannel(x, "VIDEO"))
  BY DEF startRecording
<1> HIDE DEF hinted, Rebuild
<1>5. IdleOutcomes(preview)
  <2>1. CASE h.hint
    BY <2>1, OutcomeParts DEF IdleOutcomes
  <2>2. CASE ~h.hint
    BY <2>2, <1>2, <1>3 DEF IdleOutcomes
  <2> QED
    BY <2>1, <2>2
<1> HIDE DEF preview
<1> QED
  BY <1>4, <1>5, StartVideo DEF Then, IdleOutcomes, VideoOff

(* A preview brought up from nothing. *)
LEMMA PreviewComesUp ==
    ASSUME NEW h, VideoOff(h)
    PROVE  \A o \in PrepareAndStart(h) :
              VideoOff(o.hw) /\ o.ok \in BOOLEAN /\ o.prepared \in BOOLEAN
<1> DEFINE NotPrepared(p) == [hw |-> p.hw, ok |-> FALSE, prepared |-> FALSE]
           Ended(s) == [hw |-> IF s.ok THEN s.hw ELSE unpreparePreview(s.hw),
                        ok |-> s.ok, prepared |-> TRUE]
<1>1. ASSUME NEW o \in PrepareAndStart(h)
      PROVE  \E p \in preparePreview(h) :
                o = NotPrepared(p) \/ \E s \in startPreview(p.hw) : o = Ended(s)
  BY <1>1 DEF PrepareAndStart
<1>2. \A p \in preparePreview(h) : VideoOff(p.hw) /\ IdleOutcomes(startPreview(p.hw))
  BY PrepareIdle, PreviewIdle DEF IdleOutcomes
<1>3. ASSUME NEW p \in preparePreview(h)
      PROVE  /\ VideoOff(NotPrepared(p).hw) /\ NotPrepared(p).ok \in BOOLEAN
             /\ NotPrepared(p).prepared \in BOOLEAN
  BY <1>2
<1>4. ASSUME NEW p \in preparePreview(h), NEW s \in startPreview(p.hw)
      PROVE  VideoOff(Ended(s).hw) /\ Ended(s).ok \in BOOLEAN /\ Ended(s).prepared \in BOOLEAN
  BY <1>2, UnprepareIdle DEF IdleOutcomes, VideoOff
<1> HIDE DEF NotPrepared, Ended
<1> QED
  BY <1>1, <1>3, <1>4

LEMMA RebuildIdle ==
    ASSUME NEW h \in Hardware
    PROVE  \A o \in Rebuilt(h) \cup RebuiltCommitted(h) :
              VideoOff(o.hw) /\ o.ok \in BOOLEAN /\ o.prepared \in BOOLEAN
<1>1. VideoOff(stopPreview(h))
  BY UnprepareIdle
<1>2. \A c \in commitParameterChanges(stopPreview(h)) : VideoOff(c.hw)
  BY <1>1, CommitIdle DEF VideoOff, VideoRuns
<1> QED
  BY <1>1, <1>2, PreviewComesUp DEF Rebuilt, RebuiltCommitted

(* A picture touches no video channel.                                      *)
LEMMA PictureIdle ==
    ASSUME NEW h, VideoOff(h)
    PROVE  IdleOutcomes(takePicture(h))
<1> DEFINE g == delChannels(h, {"PREVIEW"})
           captures == SetCh(g, {"CAPTURE"}, "started")
           gone == delChannels(g, {"CAPTURE"})
<1>1. VideoOff(g)
  BY SetIdle DEF delChannels, ChTypes, ChStatus
<1>2. VideoOff(captures) /\ VideoOff(gone)
  BY <1>1, SetIdle DEF delChannels, ChTypes, ChStatus
<1>3. \A o \in takePicture(h) : \E x \in {h, g, captures, gone} : o = Done(x) \/ o = Failed(x)
  BY OutcomeParts DEF takePicture
<1> HIDE DEF g, captures, gone
<1>4. ASSUME NEW o \in takePicture(h)
      PROVE  VideoOff(o.hw) /\ o.ok \in BOOLEAN
  <2>1. PICK x \in {h, g, captures, gone} : o = Done(x) \/ o = Failed(x)
    BY <1>3
  <2>2. o.hw = x /\ o.ok \in BOOLEAN
    BY <2>1, OutcomeParts
  <2> QED
    BY <1>1, <1>2, <2>2
<1> QED
  BY <1>4 DEF IdleOutcomes

(* What leaves the video channel and the prepared preview as they are.      *)
Alike(g, h) ==
    /\ g \in Hardware
    /\ VideoRuns(g) <=> VideoRuns(h)
    /\ g.window = h.window
    /\ Prepared(h) => Prepared(g)

LEMMA AlikeFits ==
    ASSUME NEW s, NEW h, NEW g, Fits(s, h), Alike(g, h)
    PROVE  Fits(s, g)
  BY DEF Fits, Alike

LEMMA PicturesAlike ==
    ASSUME NEW h \in Hardware
    PROVE  /\ \A o \in longShot(h) \cup takeLiveSnapshot(h) :
                 o.ok \in BOOLEAN /\ Alike(o.hw, h)
           /\ Alike(cancelPicture(h), h)
           /\ Alike(cancelLiveSnapshot(h).hw, h) /\ cancelLiveSnapshot(h).ok \in BOOLEAN
<1> DEFINE live == [h EXCEPT !.live = "running"]
           joined == [h EXCEPT !.live = "none"]
<1>1. Alike(h, h) /\ Alike(live, h) /\ Alike(joined, h)
  BY DEF Alike, Hardware, VideoRuns, Prepared
<1>2. \A o \in longShot(h) : o = Done(h) \/ o = Failed(h)
  BY OutcomeParts DEF longShot
<1>3. \A o \in takeLiveSnapshot(h) : o = Done(live) \/ o = Failed(h)
  BY OutcomeParts DEF takeLiveSnapshot
<1>4. Alike(cancelPicture(h), h)
  BY <1>1, SetChannels DEF cancelPicture, delChannels, Alike, VideoRuns, Prepared, ChTypes, ChStatus
<1>5. Alike(SetCh(joined, {"SNAPSHOT"}, "added"), joined)
  <2>1. joined \in Hardware
    BY <1>1 DEF Alike
  <2> HIDE DEF joined
  <2> QED
    BY <2>1, SetChannels DEF Alike, VideoRuns, Prepared, ChTypes, ChStatus
<1>6. \/ cancelLiveSnapshot(h) = Done(SetCh(joined, {"SNAPSHOT"}, "added"))
      \/ cancelLiveSnapshot(h) = Failed(joined)
  BY DEF cancelLiveSnapshot, stopChannel
<1> HIDE DEF live, joined
<1>7. Alike(SetCh(joined, {"SNAPSHOT"}, "added"), h)
  BY <1>1, <1>5 DEF Alike
<1>8. Alike(cancelLiveSnapshot(h).hw, h) /\ cancelLiveSnapshot(h).ok \in BOOLEAN
  BY <1>1, <1>6, <1>7, OutcomeParts
<1> QED
  BY ZenonT(40), <1>1, <1>2, <1>3, <1>4, <1>8, OutcomeParts

-----------------------------------------------------------------------------
(* What is signalled. *)
LEMMA SignalsTyped ==
    /\ Quiet \in Outputs /\ SnapshotDone \in Outputs
    /\ \A e \in AllEvts, v \in Values :
          /\ Answer(e, v) \in Outputs
          /\ \A b \in BOOLEAN : [Answer(e, v) EXCEPT !.post = b] \in Outputs
          /\ [SnapshotDone EXCEPT !.api = <<Result(e, v)>>] \in Outputs
    /\ [Quiet EXCEPT !.api = <<Result("PREPARE_SNAPSHOT", "OK"), Result("TAKE_PICTURE", "OK")>>]
          \in Outputs
<1> DEFINE Lists == UNION {[1 .. n -> Results] : n \in 0 .. 2}
<1>1. \A e \in AllEvts, v \in Values : Result(e, v) \in Results
  BY DEF Result, Results, Requests
<1>2. \A n \in 0 .. 2 : \A l \in [1 .. n -> Results] : l \in Lists
  OBVIOUS
<1>3. Outputs = [api : Lists, done : BOOLEAN, post : BOOLEAN]
  BY DEF Outputs
<1> HIDE DEF Lists
<1>4. <<>> \in Lists
  <2>1. 0 \in 0 .. 2 /\ <<>> \in [1 .. 0 -> Results]
    OBVIOUS
  <2> QED
    BY ONLY <1>2, <2>1, Zenon
<1>5. /\ \A r \in Results : <<r>> \in Lists
      /\ \A r, t \in Results : <<r, t>> \in Lists
  <2>1. \A r \in Results : <<r>> \in [1 .. 1 -> Results]
    OBVIOUS
  <2>2. \A r, t \in Results : <<r, t>> \in [1 .. 2 -> Results]
    OBVIOUS
  <2> QED
    BY <1>2, <2>1, <2>2
<1>6. Quiet \in Outputs /\ SnapshotDone \in Outputs
  BY <1>3, <1>4 DEF Quiet, SnapshotDone
<1>7. ASSUME NEW e \in AllEvts, NEW v \in Values
      PROVE  /\ Answer(e, v) \in Outputs
             /\ \A b \in BOOLEAN : [Answer(e, v) EXCEPT !.post = b] \in Outputs
             /\ [SnapshotDone EXCEPT !.api = <<Result(e, v)>>] \in Outputs
  BY <1>1, <1>3, <1>5, <1>6 DEF Answer, Quiet, SnapshotDone
<1>8. [Quiet EXCEPT !.api = <<Result("PREPARE_SNAPSHOT", "OK"), Result("TAKE_PICTURE", "OK")>>]
         \in Outputs
  <2>1. Result("PREPARE_SNAPSHOT", "OK") \in Results /\ Result("TAKE_PICTURE", "OK") \in Results
    BY <1>1 DEF AllEvts, Values
  <2> QED
    BY <1>3, <1>5, <1>6, <2>1 DEF Quiet
<1> QED
  BY <1>6, <1>7, <1>8

(* Delayed messages are applied or not. *)
LEMMA MessagesTyped ==
    ASSUME msgs \in KeptMessages
    PROVE  /\ applyDelayedMsgs(msgs) \in KeptMessages
           /\ \A b \in BOOLEAN : AppliedIf(b) \in KeptMessages
           /\ [msgs EXCEPT !.delay = TRUE] \in KeptMessages
           /\ \A b \in BOOLEAN : [msgs EXCEPT !.frame = b, !.wanted = b] \in KeptMessages
           /\ msgs.delay => [msgs EXCEPT !.delayed = TRUE, !.wanted = TRUE] \in KeptMessages
           /\ [frame |-> FALSE, delayed |-> FALSE, delay |-> FALSE, wanted |-> FALSE] \in KeptMessages
<1>1. applyDelayedMsgs(msgs) \in KeptMessages
  BY DEF KeptMessages, Messages, applyDelayedMsgs
<1>2. /\ [msgs EXCEPT !.delay = TRUE] \in KeptMessages
      /\ msgs.delay => [msgs EXCEPT !.delayed = TRUE, !.wanted = TRUE] \in KeptMessages
  BY DEF KeptMessages, Messages
<1>3. \A b \in BOOLEAN : [msgs EXCEPT !.frame = b, !.wanted = b] \in KeptMessages
  BY DEF KeptMessages, Messages
<1>4. [frame |-> FALSE, delayed |-> FALSE, delay |-> FALSE, wanted |-> FALSE] \in KeptMessages
  BY DEF KeptMessages, Messages
<1> QED
  BY <1>1, <1>2, <1>3, <1>4 DEF AppliedIf

LEMMA RcTyped == \A o : Rc(o) \in Values
  BY DEF Rc, Values

(* A handler that ends in a fitting state keeps the invariant. *)
LEMMA EndsFit ==
    ASSUME NEW s, NEW h, NEW m, NEW o, IInv,
           Fits(s, h), Signals(m, o), To(s, h, m, o)
    PROVE  IInv'
  BY DEF IInv, To

(* Replies that change nothing, and the settings of every state. *)
LEMMA RepliesFit ==
    ASSUME IInv, NEW e \in AllEvts,
           \/ \E v \in Values : Reply(e, v)
           \/ Passed(e)
           \/ Ignored
           \/ EnableMsgs(e) \/ DisableMsgs(e)
           \/ To(m_state, hw, msgs, SnapshotDone)
           \/ To(m_state, hw, applyDelayedMsgs(msgs), Answer(e, "OK"))
           \/ To(m_state, hw, applyDelayedMsgs(msgs), Answer(e, "TRUE"))
    PROVE  IInv'
<1> USE DEF Signals
<1>0. Fits(m_state, hw) /\ msgs \in KeptMessages /\ out \in Outputs
  BY DEF IInv
<1>1. ASSUME NEW v \in Values, Reply(e, v)
      PROVE  IInv'
  BY <1>0, <1>1, EndsFit, SignalsTyped DEF Reply
<1>2. CASE Passed(e)
  BY <1>1, <1>2 DEF Passed, Status, Values
<1>3. CASE Ignored
  BY <1>0, <1>3, EndsFit, SignalsTyped DEF Ignored
<1>4. CASE EnableMsgs(e) \/ DisableMsgs(e)
  BY <1>0, <1>4, EndsFit, SignalsTyped, MessagesTyped DEF EnableMsgs, DisableMsgs, Values
<1>5. CASE To(m_state, hw, msgs, SnapshotDone)
  BY <1>0, <1>5, EndsFit, SignalsTyped
<1>6. CASE \/ To(m_state, hw, applyDelayedMsgs(msgs), Answer(e, "OK"))
           \/ To(m_state, hw, applyDelayedMsgs(msgs), Answer(e, "TRUE"))
  BY <1>0, <1>6, EndsFit, SignalsTyped, MessagesTyped DEF Values
<1> QED
  BY <1>1, <1>2, <1>3, <1>4, <1>5, <1>6

(* A handler that replies with the outcome of an operation. *)
LEMMA OutcomesFit ==
    ASSUME IInv, NEW e \in AllEvts, NEW S, NEW ok, NEW bad,
           \A o \in S : Fits(IF o.ok THEN ok ELSE bad, o.hw),
           \/ Ends(e, S, ok, bad) \/ EndsApplied(e, S, ok, bad)
           \/ Started(e, S, ok, bad) /\ \A o \in S : o.prepared \in BOOLEAN
    PROVE  IInv'
<1>0. msgs \in KeptMessages
  BY DEF IInv, Signals
<1>1. PICK o \in S, m \in KeptMessages : To(IF o.ok THEN ok ELSE bad, o.hw, m, Answer(e, Rc(o)))
  BY <1>0, MessagesTyped DEF Ends, EndsApplied, Started
<1> QED
  BY <1>1, EndsFit, SignalsTyped, RcTyped DEF Signals

(* Modes that wait for a commit touch no channel, and the commit neither. *)
LEMMA ParametersFit ==
    ASSUME IInv, NEW e \in AllEvts, NEW z \in BOOLEAN, NEW r \in BOOLEAN
    PROVE  /\ updateParameters(z, r) \in Hardware
           /\ updateParameters(z, r).ch = hw.ch
           /\ updateParameters(z, r).window = hw.window
           /\ To(m_state, updateParameters(z, r), msgs, Answer(e, "ERR")) => IInv'
           /\ Commits(e, updateParameters(z, r)) => IInv'
<1> DEFINE h == updateParameters(z, r)
<1>1. h \in Hardware /\ h.ch = hw.ch /\ h.window = hw.window
  BY DEF IInv, Fits, updateParameters, Hardware
<1> HIDE DEF h
<1>2. \A g \in Hardware : g.ch = hw.ch /\ g.window = hw.window => Fits(m_state, g)
  BY DEF IInv, Fits, VideoRuns, Prepared
<1>3. ASSUME To(m_state, h, msgs, Answer(e, "ERR"))
      PROVE  IInv'
  <2>1. Signals(msgs, Answer(e, "ERR"))
    BY SignalsTyped DEF IInv, Signals, Values
  <2> QED
    BY <1>1, <1>2, <1>3, <2>1, EndsFit
<1>4. ASSUME Commits(e, h)
      PROVE  IInv'
  <2>1. \A o \in commitParameterChanges(h) : Fits(m_state, o.hw)
    BY <1>1, <1>2, CommitIdle
  <2> QED
    BY <1>4, <2>1, OutcomesFit DEF Commits
<1> QED
  BY <1>1, <1>3, <1>4 DEF h

(* Long shots. *)
LEMMA LongshotFits ==
    ASSUME IInv, NEW e \in AllEvts, NEW s,
           SendLongshotOn(e) \/ (SendLongshotOff(e, s) /\ Fits(s, LongshotOff))
    PROVE  IInv'
<1>0. Fits(m_state, hw) /\ msgs \in KeptMessages
  BY DEF IInv, Signals
<1>1. CASE SendLongshotOn(e)
  <2>1. CASE isCaptureRunning
    BY <1>1, <2>1, RepliesFit DEF SendLongshotOn, Values
  <2>2. CASE ~isCaptureRunning
    <3>1. Fits(m_state, LongshotOn(hw))
      BY <1>0 DEF Fits, LongshotOn, Hardware, VideoRuns, Prepared
    <3> QED
      BY <1>0, <1>1, <2>2, <3>1, EndsFit, SignalsTyped DEF SendLongshotOn, Signals, Values
  <2> QED
    BY <2>1, <2>2
<1>2. CASE SendLongshotOff(e, s) /\ Fits(s, LongshotOff)
  <2>1. (hw.longshot /\ isCaptureRunning) \in BOOLEAN
    BY DEF isCaptureRunning
  <2>2. [Answer(e, "OK") EXCEPT !.post = hw.longshot /\ isCaptureRunning] \in Outputs
    BY <2>1, SignalsTyped DEF Values
  <2> QED
    BY <1>0, <1>2, <2>2, EndsFit DEF SendLongshotOff, Signals
<1> QED
  BY <1>1, <1>2

LEMMA LongshotEndsAlike ==
    ASSUME IInv
    PROVE  Alike(LongshotOff, hw)
<1>1. hw \in Hardware
  BY DEF IInv, Fits
<1>2. Alike(hw, hw) /\ Alike(cancelPicture(hw), hw)
  BY <1>1, PicturesAlike DEF Alike
<1>3. \A g : Alike(g, hw) => Alike([g EXCEPT !.longshot = FALSE], hw)
  BY DEF Alike, Hardware, VideoRuns, Prepared
<1> QED
  BY <1>2, <1>3 DEF LongshotOff

(* States that promise nothing of the hardware but that it is idle.         *)
IdleStates == {"PREVIEW_STOPPED", "PREVIEWING", "PREPARE_SNAPSHOT", "PIC_TAKING",
               "PREVIEW_PIC_TAKING"}

LEMMA IdleFits ==
    /\ \A s \in IdleStates : \A h : VideoOff(h) <=> Fits(s, h)
    /\ \A s, h : Fits(s, h) /\ s \notin {"RECORDING", "VIDEO_PIC_TAKING"} => VideoOff(h)
  BY DEF IdleStates, VideoOff, Fits, States

(* New parameters leave idle hardware idle. *)
LEMMA ParametersIdle ==
    ASSUME IInv, NEW z \in BOOLEAN, NEW r \in BOOLEAN
    PROVE  VideoOff(hw) => VideoOff(updateParameters(z, r))
  BY ParametersFit DEF VideoOff, VideoRuns, AllEvts

-----------------------------------------------------------------------------
(* The functions of the states, one by one. *)

LEMMA StoppedFits ==
    ASSUME IInv, m_state = "PREVIEW_STOPPED", NEW e \in AllEvts,
           StoppedSettings(e) \/ StoppedApi(e) \/ StoppedEvt(e)
    PROVE  IInv'
<1>0. VideoOff(hw) /\ hw \in Hardware /\ msgs \in KeptMessages
  BY IdleFits DEF IInv, Signals, Fits
<1>1. CASE StoppedSettings(e)
  <2>1. CASE e = "GET_PARAMS" /\ Passed(e)
    BY <2>1, RepliesFit
  <2>2. CASE To(m_state, [hw EXCEPT !.window = (e = "SET_PREVIEW_WINDOW")], msgs, Answer(e, "OK"))
    <3>1. VideoOff([hw EXCEPT !.window = (e = "SET_PREVIEW_WINDOW")])
      BY <1>0 DEF VideoOff, Hardware, VideoRuns
    <3> QED
      BY <1>0, <2>2, <3>1, IdleFits, EndsFit, SignalsTyped DEF Signals, Values, IdleStates
  <2>3. CASE EnableMsgs(e) \/ DisableMsgs(e)
    BY <2>3, RepliesFit
  <2>4. CASE SetParams(e, LAMBDA h : Commits(e, h))
    <3>1. PICK z \in BOOLEAN, r \in BOOLEAN :
             \/ To(m_state, updateParameters(z, r), msgs, Answer(e, "ERR"))
             \/ Commits(e, updateParameters(z, r))
      BY <2>4, ModesAssumption DEF SetParams
    <3> QED
      BY <3>1, ParametersFit
  <2> QED
    BY <1>1, <2>1, <2>2, <2>3, <2>4 DEF StoppedSettings
<1>2. CASE StoppedApi(e)
  <2>1. CASE \/ Reply(e, "INVALID") \/ Reply(e, "OK") \/ Reply(e, "FALSE")
             \/ Passed(e) \/ Ignored
    BY <2>1, RepliesFit DEF Values
  <2>2. CASE ~hw.window /\ Ends(e, preparePreview(hw), "PREVIEW_READY", m_state)
    <3>1. \A o \in preparePreview(hw) : Fits(IF o.ok THEN "PREVIEW_READY" ELSE m_state, o.hw)
      BY <1>0, <2>2, PrepareIdle, IdleFits DEF Fits, IdleOutcomes, VideoOff, States, IdleStates
    <3> QED
      BY <2>2, <3>1, OutcomesFit
  <2>3. CASE Started(e, PrepareAndStart(hw), "PREVIEWING", m_state)
    BY <1>0, <2>3, PreviewComesUp, IdleFits, OutcomesFit DEF IdleStates
  <2>4. CASE To(m_state, releaseChannels(hw), msgs, Answer(e, "OK"))
    BY <1>0, <2>4, UnprepareIdle, IdleFits, EndsFit, SignalsTyped DEF Signals, Values, IdleStates
  <2>5. CASE SendLongshotOn(e) \/ SendLongshotOff(e, m_state)
    BY <2>5, LongshotFits, LongshotEndsAlike, AlikeFits DEF IInv
  <2> QED
    BY <1>2, <2>1, <2>2, <2>3, <2>4, <2>5 DEF StoppedApi
<1>3. CASE StoppedEvt(e)
  BY <1>3, RepliesFit DEF StoppedEvt
<1> QED
  BY <1>1, <1>2, <1>3

LEMMA ReadyFits ==
    ASSUME IInv, m_state = "PREVIEW_READY", NEW e \in AllEvts,
           ReadySettings(e) \/ ReadyApi(e) \/ ReadyEvt(e)
    PROVE  IInv'
<1>0. VideoOff(hw) /\ hw \in Hardware /\ msgs \in KeptMessages /\ Fits(m_state, hw)
  BY IdleFits DEF IInv, Signals, Fits
<1>1. CASE ReadySettings(e)
  <2>1. CASE Passed(e) \/ EnableMsgs(e) \/ DisableMsgs(e)
    BY <2>1, RepliesFit
  <2>2. CASE To(m_state, [hw EXCEPT !.window = FALSE], msgs, Answer(e, "OK"))
    <3>1. Fits(m_state, [hw EXCEPT !.window = FALSE])
      BY <1>0 DEF Fits, Hardware, VideoRuns, Prepared
    <3> QED
      BY <1>0, <2>2, <3>1, EndsFit, SignalsTyped DEF Signals, Values
  <2>3. CASE EndsApplied(e,
               {IF o.ok THEN o ELSE Failed(unpreparePreview(o.hw)) :
                  o \in startPreview([hw EXCEPT !.window = TRUE])},
               "PREVIEWING", "PREVIEW_STOPPED")
    <3> DEFINE S == startPreview([hw EXCEPT !.window = TRUE])
               T == {IF o.ok THEN o ELSE Failed(unpreparePreview(o.hw)) : o \in S}
    <3>1. VideoOff([hw EXCEPT !.window = TRUE])
      BY <1>0 DEF VideoOff, Hardware, VideoRuns
    <3>2. IdleOutcomes(S)
      BY <3>1, PreviewIdle
    <3> HIDE DEF S
    <3>3. IdleOutcomes(T)
      <4>1. ASSUME NEW o \in S
            PROVE  /\ o.ok => VideoOff(o.hw) /\ o.ok \in BOOLEAN
                   /\ ~o.ok => /\ VideoOff(Failed(unpreparePreview(o.hw)).hw)
                               /\ Failed(unpreparePreview(o.hw)).ok \in BOOLEAN
        <5>1. VideoOff(o.hw) /\ o.ok \in BOOLEAN
          BY <3>2 DEF IdleOutcomes
        <5>2. VideoOff(unpreparePreview(o.hw))
          BY <5>1, UnprepareIdle DEF VideoOff
        <5>3. VideoOff(Failed(unpreparePreview(o.hw)).hw) /\ Failed(unpreparePreview(o.hw)).ok = FALSE
          BY <5>2, OutcomeParts
        <5> QED
          BY <5>1, <5>3
      <4> QED
        BY <4>1 DEF IdleOutcomes
    <3>4. \A o \in T : Fits(IF o.ok THEN "PREVIEWING" ELSE "PREVIEW_STOPPED", o.hw)
      BY <3>3, IdleFits DEF IdleOutcomes, IdleStates
    <3>5. EndsApplied(e, T, "PREVIEWING", "PREVIEW_STOPPED")
      BY <2>3 DEF S
    <3> QED
      BY <3>4, <3>5, OutcomesFit
  <2>4. CASE SetParams(e, LAMBDA h :
               Ends(e, UNION {preparePreview(o.hw) :
                                o \in commitParameterChanges(unpreparePreview(h))},
                    m_state, "PREVIEW_STOPPED"))
    <3> DEFINE S(h) == UNION {preparePreview(o.hw) :
                                o \in commitParameterChanges(unpreparePreview(h))}
    <3>1. PICK z \in BOOLEAN, r \in BOOLEAN :
             \/ To(m_state, updateParameters(z, r), msgs, Answer(e, "ERR"))
             \/ Commits(e, updateParameters(z, r))
             \/ Ends(e, S(updateParameters(z, r)), m_state, "PREVIEW_STOPPED")
      BY <2>4, ModesAssumption DEF SetParams
    <3> DEFINE h == updateParameters(z, r)
    <3>2. h \in Hardware /\ h.window = hw.window
      BY ParametersFit
    <3> HIDE DEF h
    <3>3. \A o \in commitParameterChanges(unpreparePreview(h)) :
             VideoOff(o.hw) /\ o.hw.window = hw.window
      BY <3>2, UnprepareIdle, CommitIdle DEF VideoOff, VideoRuns
    <3>4. \A o \in S(h) : /\ VideoOff(o.hw) /\ o.ok \in BOOLEAN
                          /\ o.hw.window = hw.window
                          /\ o.ok => Prepared(o.hw)
      BY <3>3, PrepareIdle DEF IdleOutcomes
    <3> HIDE DEF S
    <3>5. \A o \in S(h) : Fits(IF o.ok THEN m_state ELSE "PREVIEW_STOPPED", o.hw)
      BY <1>0, <3>4 DEF Fits, VideoOff, States
    <3> QED
      BY <3>1, <3>5, ParametersFit, OutcomesFit DEF h
  <2> QED
    BY <1>1, <2>1, <2>2, <2>3, <2>4 DEF ReadySettings
<1>2. CASE ReadyApi(e)
  <2>1. CASE \/ Reply(e, "INVALID") \/ Reply(e, "OK") \/ Reply(e, "TRUE") \/ Reply(e, "FALSE")
             \/ Passed(e) \/ Ignored
    BY <2>1, RepliesFit DEF Values
  <2>2. CASE To("PREVIEW_STOPPED", unpreparePreview(hw), msgs, Answer(e, "OK"))
    BY <1>0, <2>2, UnprepareIdle, IdleFits, EndsFit, SignalsTyped DEF Signals, Values, IdleStates
  <2>3. CASE SendLongshotOn(e) \/ SendLongshotOff(e, m_state)
    BY <1>0, <2>3, LongshotFits, LongshotEndsAlike, AlikeFits
  <2> QED
    BY <1>2, <2>1, <2>2, <2>3 DEF ReadyApi
<1>3. CASE ReadyEvt(e)
  BY <1>3, RepliesFit DEF ReadyEvt
<1> QED
  BY <1>1, <1>2, <1>3

LEMMA PreviewingFits ==
    ASSUME IInv, m_state = "PREVIEWING", NEW e \in AllEvts,
           PreviewingSettings(e) \/ PreviewingApi(e) \/ PreviewingEvt(e)
    PROVE  IInv'
<1>0. VideoOff(hw) /\ hw \in Hardware /\ msgs \in KeptMessages /\ Fits(m_state, hw)
  BY IdleFits DEF IInv, Signals, Fits
<1>1. CASE PreviewingSettings(e)
  <2>1. CASE Passed(e) \/ EnableMsgs(e) \/ DisableMsgs(e)
    BY <2>1, RepliesFit
  <2>2. CASE /\ msgs.delay
             /\ To(m_state, hw, [msgs EXCEPT !.delayed = TRUE, !.wanted = TRUE], Answer(e, "OK"))
    BY <1>0, <2>2, EndsFit, SignalsTyped, MessagesTyped DEF Signals, Values
  <2>3. CASE To(m_state, hw,
                [frame |-> FALSE, delayed |-> FALSE, delay |-> FALSE, wanted |-> FALSE],
                Answer(e, "OK"))
    BY <1>0, <2>3, EndsFit, SignalsTyped, MessagesTyped DEF Signals, Values
  <2>4. CASE SetParams(e, LAMBDA h : Started(e, RebuiltCommitted(h), m_state, "PREVIEW_STOPPED"))
    <3>1. PICK z \in BOOLEAN, r \in BOOLEAN :
             \/ To(m_state, updateParameters(z, r), msgs, Answer(e, "ERR"))
             \/ Commits(e, updateParameters(z, r))
             \/ Started(e, RebuiltCommitted(updateParameters(z, r)), m_state, "PREVIEW_STOPPED")
      BY <2>4, ModesAssumption DEF SetParams
    <3> DEFINE h == updateParameters(z, r)
    <3>2. \A o \in RebuiltCommitted(h) :
             /\ Fits(IF o.ok THEN m_state ELSE "PREVIEW_STOPPED", o.hw)
             /\ o.prepared \in BOOLEAN
      BY ParametersFit, RebuildIdle, IdleFits DEF IdleStates
    <3> QED
      BY <3>1, <3>2, ParametersFit, OutcomesFit
  <2> QED
    BY <1>1, <2>1, <2>2, <2>3, <2>4 DEF PreviewingSettings
<1>2. CASE PreviewingApi(e)
  <2>1. CASE \/ Reply(e, "INVALID") \/ Reply(e, "FALSE") \/ Reply(e, "ERR")
             \/ Passed(e) \/ Ignored
             \/ To(m_state, hw, applyDelayedMsgs(msgs), Answer(e, "OK"))
             \/ To(m_state, hw, applyDelayedMsgs(msgs), Answer(e, "TRUE"))
    BY <2>1, RepliesFit DEF Values
  <2>2. CASE EndsApplied(e, {Done(stopPreview(hw))}, "PREVIEW_STOPPED", m_state)
    <3>1. \A o \in {Done(stopPreview(hw))} :
             Fits(IF o.ok THEN "PREVIEW_STOPPED" ELSE m_state, o.hw)
      <4>1. VideoOff(Done(stopPreview(hw)).hw)
        BY <1>0, UnprepareIdle, OutcomeParts
      <4> QED
        BY <4>1, IdleFits DEF IdleStates
    <3> QED
      BY <2>2, <3>1, OutcomesFit
  <2>3. CASE \E o \in startRecording(hw) :
               To(IF o.ok THEN "RECORDING" ELSE m_state, o.hw, AppliedIf(o.ok), Answer(e, Rc(o)))
    <3>1. PICK o \in startRecording(hw) :
             To(IF o.ok THEN "RECORDING" ELSE m_state, o.hw, AppliedIf(o.ok), Answer(e, Rc(o)))
      BY <2>3
    <3>2. Fits(IF o.ok THEN "RECORDING" ELSE m_state, o.hw) /\ o.ok \in BOOLEAN
      BY <1>0, RecordingStarts DEF Fits, States
    <3> QED
      BY <1>0, <3>1, <3>2, EndsFit, SignalsTyped, MessagesTyped, RcTyped DEF Signals
  <2>4. CASE To("PREPARE_SNAPSHOT", hw, applyDelayedMsgs(msgs), Quiet)
    BY <1>0, <2>4, IdleFits, EndsFit, SignalsTyped, MessagesTyped DEF Signals, IdleStates
  <2>5. CASE PreviewingTakePicture(e)
    <3>1. CASE \E o \in takePicture(hw) :
                 To(IF o.ok THEN "PREVIEW_PIC_TAKING" ELSE "PREVIEWING", o.hw,
                    [msgs EXCEPT !.delay = TRUE],
                    IF bRetroPicture /\ o.ok THEN Quiet ELSE Answer(e, Rc(o)))
      <4>1. PICK o \in takePicture(hw), out1 \in Outputs :
               To(IF o.ok THEN "PREVIEW_PIC_TAKING" ELSE "PREVIEWING", o.hw,
                  [msgs EXCEPT !.delay = TRUE], out1)
        BY <3>1, SignalsTyped, RcTyped
      <4>2. Fits(IF o.ok THEN "PREVIEW_PIC_TAKING" ELSE "PREVIEWING", o.hw)
        BY <1>0, PictureIdle, IdleFits DEF IdleOutcomes, IdleStates
      <4> QED
        BY <1>0, <4>1, <4>2, EndsFit, MessagesTyped DEF Signals
    <3>2. CASE Ends(e, takePicture(hw), "PIC_TAKING", "PREVIEW_STOPPED")
      <4>1. \A o \in takePicture(hw) :
               Fits(IF o.ok THEN "PIC_TAKING" ELSE "PREVIEW_STOPPED", o.hw)
        BY <1>0, PictureIdle, IdleFits DEF IdleOutcomes, IdleStates
      <4> QED
        BY <3>2, <4>1, OutcomesFit
    <3>3. CASE Ends(e, takeLiveSnapshot(hw), "PREVIEW_PIC_TAKING", "PREVIEWING")
      <4>1. \A o \in takeLiveSnapshot(hw) :
               Fits(IF o.ok THEN "PREVIEW_PIC_TAKING" ELSE "PREVIEWING", o.hw)
        BY <1>0, PicturesAlike, IdleFits DEF IdleStates, Alike, VideoOff
      <4> QED
        BY <3>3, <4>1, OutcomesFit
    <3> QED
      BY <2>5, <3>1, <3>2, <3>3 DEF PreviewingTakePicture
  <2>6. CASE SendLongshotOn(e) \/ SendLongshotOff(e, m_state)
    BY <1>0, <2>6, LongshotFits, LongshotEndsAlike, AlikeFits
  <2>7. CASE Started(e, Rebuilt(LongshotOn(hw)), m_state, m_state)
    <3>1. LongshotOn(hw) \in Hardware
      BY <1>0 DEF LongshotOn, Hardware
    <3>2. \A o \in Rebuilt(LongshotOn(hw)) :
             Fits(IF o.ok THEN m_state ELSE m_state, o.hw) /\ o.prepared \in BOOLEAN
      BY <3>1, RebuildIdle, IdleFits DEF IdleStates
    <3> QED
      BY <2>7, <3>2, OutcomesFit
  <2> QED
    BY <1>2, <2>1, <2>2, <2>3, <2>4, <2>5, <2>6, <2>7 DEF PreviewingApi
<1>3. CASE PreviewingEvt(e)
  BY <1>3, RepliesFit DEF PreviewingEvt
<1> QED
  BY <1>1, <1>2, <1>3

LEMMA PrepareSnapshotFits ==
    ASSUME IInv, m_state = "PREPARE_SNAPSHOT", NEW e \in AllEvts,
           PrepareSnapshotApi(e) \/ PrepareSnapshotEvt(e)
    PROVE  IInv'
<1>1. CASE Reply(e, "INVALID") \/ Ignored \/ To(m_state, hw, msgs, SnapshotDone)
  BY <1>1, RepliesFit DEF Values
<1>2. CASE To("PREVIEWING", hw, msgs, Answer("PREPARE_SNAPSHOT", "OK"))
  <2>1. Fits("PREVIEWING", hw) /\ msgs \in KeptMessages
    BY IdleFits DEF IInv, Signals, IdleStates
  <2> QED
    BY <1>2, <2>1, EndsFit, SignalsTyped DEF Signals, Values, AllEvts
<1> QED
  BY <1>1, <1>2 DEF PrepareSnapshotApi, PrepareSnapshotEvt

LEMMA PicTakingFits ==
    ASSUME IInv, m_state = "PIC_TAKING", NEW e \in AllEvts,
           PicTakingSettings(e) \/ PicTakingApi(e) \/ PicTakingEvt(e)
    PROVE  IInv'
<1>0. VideoOff(hw) /\ hw \in Hardware /\ msgs \in KeptMessages /\ Fits(m_state, hw)
  BY IdleFits DEF IInv, Signals, Fits
<1>c. \A s \in IdleStates : Fits(s, cancelPicture(hw))
  BY <1>0, PicturesAlike, IdleFits DEF Alike, VideoOff
<1>1. CASE PicTakingSettings(e)
  <2>1. CASE Passed(e) \/ EnableMsgs(e) \/ DisableMsgs(e)
    BY <2>1, RepliesFit
  <2>2. CASE SetParams(e, LAMBDA h : Commits(e, h))
    <3>1. PICK z \in BOOLEAN, r \in BOOLEAN :
             \/ To(m_state, updateParameters(z, r), msgs, Answer(e, "ERR"))
             \/ Commits(e, updateParameters(z, r))
      BY <2>2, ModesAssumption DEF SetParams
    <3> QED
      BY <3>1, ParametersFit
  <2> QED
    BY <1>1, <2>1, <2>2 DEF PicTakingSettings
<1>2. CASE PicTakingApi(e)
  <2>1. CASE Reply(e, "INVALID") \/ Reply(e, "FALSE") \/ Passed(e)
    BY <2>1, RepliesFit DEF Values
  <2>2. CASE To("PREVIEW_STOPPED", cancelPicture(hw), msgs, Answer(e, "OK"))
    BY <1>0, <1>c, <2>2, EndsFit, SignalsTyped DEF Signals, Values, IdleStates
  <2>3. CASE Ends(e, longShot(hw), m_state, m_state)
    <3>1. \A o \in longShot(hw) : Fits(IF o.ok THEN m_state ELSE m_state, o.hw)
      BY <1>0, PicturesAlike, AlikeFits
    <3> QED
      BY <2>3, <3>1, OutcomesFit
  <2>4. CASE SendLongshotOn(e) \/ SendLongshotOff(e, "PREVIEWING")
    <3>1. Fits("PREVIEWING", LongshotOff)
      BY <1>0, LongshotEndsAlike, IdleFits DEF Alike, VideoOff, IdleStates
    <3> QED
      BY <2>4, <3>1, LongshotFits
  <2>5. CASE LET c == stopCaptureChannel(hw)
             IN IF ~PreviewRestart \/ ~c.ok THEN Ends(e, {c}, m_state, m_state)
                ELSE \E p \in preparePreview(c.hw) :
                       IF ~p.ok THEN Ends(e, {p}, m_state, m_state)
                       ELSE EndsApplied(e, startPreview(p.hw), m_state, m_state)
    <3> DEFINE c == stopCaptureChannel(hw)
    <3>1. VideoOff(c.hw)
      BY <1>0, StopChannel DEF stopCaptureChannel, VideoOff, ChTypes
    <3>2. PICK S : IdleOutcomes(S) /\ (Ends(e, S, m_state, m_state) \/ EndsApplied(e, S, m_state, m_state))
      <4>1. CASE Ends(e, {c}, m_state, m_state)
        <5>1. IdleOutcomes({c})
          BY <1>0, <3>1, StopChannel DEF stopCaptureChannel, IdleOutcomes, ChTypes
        <5> QED
          BY <4>1, <5>1
      <4>2. ASSUME NEW p \in preparePreview(c.hw),
                   IF ~p.ok THEN Ends(e, {p}, m_state, m_state)
                   ELSE EndsApplied(e, startPreview(p.hw), m_state, m_state)
            PROVE  \E S : /\ IdleOutcomes(S)
                          /\ Ends(e, S, m_state, m_state) \/ EndsApplied(e, S, m_state, m_state)
        <5>1. IdleOutcomes({p}) /\ IdleOutcomes(startPreview(p.hw))
          BY <3>1, PrepareIdle, PreviewIdle DEF IdleOutcomes
        <5> QED
          BY <4>2, <5>1
      <4> QED
        BY <2>5, <4>1, <4>2
    <3>3. \A o \in S : Fits(IF o.ok THEN m_state ELSE m_state, o.hw)
      BY <3>2, IdleFits DEF IdleOutcomes, IdleStates
    <3> QED
      BY <3>2, <3>3, OutcomesFit
  <2> QED
    BY <1>2, <2>1, <2>2, <2>3, <2>4, <2>5 DEF PicTakingApi
<1>3. CASE PicTakingEvt(e)
  <2>1. CASE Ignored
    BY <2>1, RepliesFit
  <2>2. CASE To(m_state, hw, msgs,
                [Quiet EXCEPT !.api = <<Result("PREPARE_SNAPSHOT", "OK"), Result("TAKE_PICTURE", "OK")>>])
    BY <1>0, <2>2, EndsFit, SignalsTyped DEF Signals
  <2>3. CASE \E s \in {"PREVIEWING", "PREVIEW_STOPPED"} :
               To(s, cancelPicture(hw), msgs, SnapshotDone)
    BY <1>0, <1>c, <2>3, EndsFit, SignalsTyped DEF Signals, IdleStates
  <2> QED
    BY <1>3, <2>1, <2>2, <2>3 DEF PicTakingEvt
<1> QED
  BY <1>1, <1>2, <1>3

(* In both recording states parameters are parsed, but no restart is made. *)
LEMMA RecordingParametersFit ==
    ASSUME IInv, NEW e \in AllEvts, SetParams(e, LAMBDA h : RefusedRestart(e, h))
    PROVE  IInv'
<1>1. PICK z \in BOOLEAN, r \in BOOLEAN :
         \/ To(m_state, updateParameters(z, r), msgs, Answer(e, "ERR"))
         \/ Commits(e, updateParameters(z, r))
  BY ModesAssumption DEF SetParams, RefusedRestart
<1> QED
  BY <1>1, ParametersFit

LEMMA RecordingFits ==
    ASSUME IInv, m_state = "RECORDING", NEW e \in AllEvts,
           RecordingSettings(e) \/ RecordingApi(e) \/ RecordingEvt(e)
    PROVE  IInv'
<1>0. hw \in Hardware /\ msgs \in KeptMessages /\ Fits(m_state, hw)
  BY DEF IInv, Signals, Fits
<1>r. VideoOff(stopRecording(hw).hw) /\ stopRecording(hw).ok \in BOOLEAN
  BY <1>0, StopChannel DEF stopRecording, ChTypes
<1>1. CASE RecordingSettings(e)
  <2>1. CASE Reply(e, "TRUE") \/ Reply(e, "FALSE") \/ Passed(e) \/ EnableMsgs(e) \/ DisableMsgs(e)
    BY <2>1, RepliesFit DEF Values
  <2> QED
    BY <1>1, <2>1, RecordingParametersFit DEF RecordingSettings
<1>2. CASE RecordingApi(e)
  <2>1. CASE Reply(e, "INVALID") \/ Reply(e, "OK") \/ Passed(e) \/ Ignored
    BY <2>1, RepliesFit DEF Values
  <2>2. CASE Ends(e, takeLiveSnapshot(hw), "VIDEO_PIC_TAKING", "RECORDING")
    <3>1. Fits("VIDEO_PIC_TAKING", hw) /\ Fits("RECORDING", hw)
      BY <1>0 DEF Fits, States
    <3>2. \A o \in takeLiveSnapshot(hw) :
             Fits(IF o.ok THEN "VIDEO_PIC_TAKING" ELSE "RECORDING", o.hw)
      BY <1>0, <3>1, PicturesAlike, AlikeFits
    <3> QED
      BY <2>2, <3>2, OutcomesFit
  <2>3. CASE Ends(e, {stopRecording(hw)}, "PREVIEWING", "PREVIEWING")
    BY <1>r, <2>3, IdleFits, OutcomesFit DEF IdleStates
  <2>4. CASE To("PREVIEW_STOPPED", stopPreview(stopRecording(hw).hw), msgs, Answer(e, "OK"))
    <3>1. Fits("PREVIEW_STOPPED", stopPreview(stopRecording(hw).hw))
      BY <1>r, UnprepareIdle, IdleFits DEF VideoOff, IdleStates
    <3> QED
      BY <1>0, <2>4, <3>1, EndsFit, SignalsTyped DEF Signals, Values
  <2>5. CASE SendLongshotOn(e) \/ SendLongshotOff(e, m_state)
    BY <1>0, <2>5, LongshotFits, LongshotEndsAlike, AlikeFits
  <2> QED
    BY <1>2, <2>1, <2>2, <2>3, <2>4, <2>5 DEF RecordingApi
<1>3. CASE RecordingEvt(e)
  BY <1>3, RepliesFit DEF RecordingEvt
<1> QED
  BY <1>1, <1>2, <1>3

LEMMA VideoPicTakingFits ==
    ASSUME IInv, m_state = "VIDEO_PIC_TAKING", NEW e \in AllEvts,
           VideoPicTakingSettings(e) \/ VideoPicTakingApi(e) \/ VideoPicTakingEvt(e)
    PROVE  IInv'
<1>0. hw \in Hardware /\ msgs \in KeptMessages /\ Fits(m_state, hw)
  BY DEF IInv, Signals, Fits
<1> DEFINE c == cancelLiveSnapshot(hw)
<1>c. Alike(c.hw, hw) /\ c.ok \in BOOLEAN /\ c.hw \in Hardware
  BY <1>0, PicturesAlike DEF Alike
<1>r. VideoOff(stopRecording(c.hw).hw) /\ stopRecording(c.hw).ok \in BOOLEAN
  BY <1>c, StopChannel DEF stopRecording, ChTypes
<1>f. Fits("RECORDING", c.hw)
  <2>1. Fits("RECORDING", hw)
    BY <1>0 DEF Fits, States
  <2> QED
    BY <1>c, <2>1, AlikeFits
<1>1. CASE VideoPicTakingSettings(e)
  <2>1. CASE Reply(e, "TRUE") \/ Passed(e) \/ EnableMsgs(e) \/ DisableMsgs(e)
    BY <2>1, RepliesFit DEF Values
  <2> QED
    BY <1>1, <2>1, RecordingParametersFit DEF VideoPicTakingSettings
<1>2. CASE VideoPicTakingApi(e)
  <2>1. CASE Reply(e, "INVALID") \/ Passed(e) \/ Ignored
    BY <2>1, RepliesFit DEF Values
  <2>2. CASE Ends(e, {stopRecording(c.hw)}, "PREVIEWING", "PREVIEWING")
    BY <1>r, <2>2, IdleFits, OutcomesFit DEF IdleStates
  <2>3. CASE Ends(e, {c}, "RECORDING", "RECORDING")
    <3> HIDE DEF c
    <3> QED
      BY <1>f, <2>3, OutcomesFit
  <2>4. CASE To("PREVIEW_STOPPED", stopPreview(stopRecording(c.hw).hw), msgs, Answer(e, "OK"))
    <3>1. Fits("PREVIEW_STOPPED", stopPreview(stopRecording(c.hw).hw))
      BY <1>r, UnprepareIdle, IdleFits DEF VideoOff, IdleStates
    <3> QED
      BY <1>0, <2>4, <3>1, EndsFit, SignalsTyped DEF Signals, Values
  <2>5. CASE SendLongshotOn(e) \/ SendLongshotOff(e, m_state)
    BY <1>0, <2>5, LongshotFits, LongshotEndsAlike, AlikeFits
  <2> QED
    BY <1>2, <2>1, <2>2, <2>3, <2>4, <2>5 DEF VideoPicTakingApi
<1>3. CASE VideoPicTakingEvt(e)
  <2>1. CASE Ignored
    BY <2>1, RepliesFit
  <2>2. CASE To("RECORDING", c.hw, msgs, SnapshotDone)
    BY <1>0, <1>f, <2>2, EndsFit, SignalsTyped DEF Signals
  <2> QED
    BY <1>3, <2>1, <2>2 DEF VideoPicTakingEvt
<1> QED
  BY <1>1, <1>2, <1>3

LEMMA PreviewPicTakingFits ==
    ASSUME IInv, m_state = "PREVIEW_PIC_TAKING", NEW e \in AllEvts,
           PreviewPicTakingSettings(e) \/ PreviewPicTakingApi(e) \/ PreviewPicTakingEvt(e)
    PROVE  IInv'
<1>0. VideoOff(hw) /\ hw \in Hardware /\ msgs \in KeptMessages /\ Fits(m_state, hw)
  BY IdleFits DEF IInv, Signals, Fits
<1>c. Alike(CancelCapture.hw, hw) /\ CancelCapture.ok \in BOOLEAN
  <2>1. CancelCapture = cancelLiveSnapshot(hw) \/ CancelCapture = Done(cancelPicture(hw))
    BY DEF CancelCapture
  <2> QED
    BY ZenonT(40), <1>0, <2>1, PicturesAlike, OutcomeParts
<1>i. VideoOff(CancelCapture.hw)
  BY <1>0, <1>c DEF VideoOff, Alike
<1>1. CASE PreviewPicTakingSettings(e)
  <2>1. CASE Reply(e, "TRUE") \/ Reply(e, "FALSE") \/ Passed(e) \/ EnableMsgs(e) \/ DisableMsgs(e)
    BY <2>1, RepliesFit DEF Values
  <2>2. CASE SetParams(e, LAMBDA h : Started(e, RebuiltCommitted(h), m_state, "PIC_TAKING"))
    <3>1. PICK z \in BOOLEAN, r \in BOOLEAN :
             \/ To(m_state, updateParameters(z, r), msgs, Answer(e, "ERR"))
             \/ Commits(e, updateParameters(z, r))
             \/ Started(e, RebuiltCommitted(updateParameters(z, r)), m_state, "PIC_TAKING")
      BY <2>2, ModesAssumption DEF SetParams
    <3> DEFINE h == updateParameters(z, r)
    <3>2. \A o \in RebuiltCommitted(h) :
             Fits(IF o.ok THEN m_state ELSE "PIC_TAKING", o.hw) /\ o.prepared \in BOOLEAN
      BY ParametersFit, RebuildIdle, IdleFits DEF IdleStates
    <3> QED
      BY <3>1, <3>2, ParametersFit, OutcomesFit
  <2> QED
    BY <1>1, <2>1, <2>2 DEF PreviewPicTakingSettings
<1>2. CASE PreviewPicTakingApi(e)
  <2>1. CASE Reply(e, "INVALID") \/ Reply(e, "ERR") \/ Passed(e) \/ Ignored
    BY <2>1, RepliesFit DEF Values
  <2>2. CASE SendLongshotOn(e) \/ SendLongshotOff(e, "PREVIEWING")
    <3>1. Fits("PREVIEWING", LongshotOff)
      BY <1>0, LongshotEndsAlike, IdleFits DEF Alike, VideoOff, IdleStates
    <3> QED
      BY <2>2, <3>1, LongshotFits
  <2>3. CASE Ends(e, {CancelCapture}, "PREVIEWING", "PREVIEWING")
    BY <1>i, <2>3, IdleFits, OutcomesFit DEF IdleStates
  <2>4. CASE To("PREVIEW_STOPPED", unpreparePreview(CancelCapture.hw), msgs,
                Answer(e, Rc(CancelCapture)))
    <3>1. Fits("PREVIEW_STOPPED", unpreparePreview(CancelCapture.hw))
      BY <1>i, UnprepareIdle, IdleFits DEF VideoOff, IdleStates
    <3> QED
      BY <1>0, <2>4, <3>1, EndsFit, SignalsTyped, RcTyped DEF Signals
  <2>5. CASE Ends(e, startRecording(hw), "VIDEO_PIC_TAKING", m_state)
    <3>1. \A o \in startRecording(hw) : Fits(IF o.ok THEN "VIDEO_PIC_TAKING" ELSE m_state, o.hw)
      BY <1>0, RecordingStarts DEF Fits, States
    <3> QED
      BY <2>5, <3>1, OutcomesFit
  <2>6. CASE Ends(e, longShot(hw), m_state, m_state)
    <3>1. \A o \in longShot(hw) : Fits(IF o.ok THEN m_state ELSE m_state, o.hw)
      BY <1>0, PicturesAlike, AlikeFits
    <3> QED
      BY <2>6, <3>1, OutcomesFit
  <2> QED
    BY <1>2, <2>1, <2>2, <2>3, <2>4, <2>5, <2>6 DEF PreviewPicTakingApi
<1>3. CASE PreviewPicTakingEvt(e)
  <2>1. CASE Ignored
    BY <2>1, RepliesFit
  <2>2. CASE \E v \in {"PREPARE_SNAPSHOT", "TAKE_PICTURE"} : To(m_state, hw, msgs, Answer(v, "OK"))
    BY <1>0, <2>2, EndsFit, SignalsTyped DEF Signals, Values, AllEvts
  <2>3. CASE \E o \in Outputs : To("PREVIEWING", CancelCapture.hw, msgs, o)
    BY <1>0, <1>i, <2>3, IdleFits, EndsFit DEF Signals, IdleStates
  <2> QED
    BY <1>3, <2>1, <2>2, <2>3, SignalsTyped, RcTyped DEF PreviewPicTakingEvt
<1> QED
  BY <1>1, <1>2, <1>3

-----------------------------------------------------------------------------
(* The live snapshot thread leaves the preview and the video channel alone. *)
LEMMA LiveThreadFits ==
    ASSUME IInv, LiveSnapshotStarts \/ LiveSnapshotFails
    PROVE  IInv'
<1>0. hw \in Hardware /\ Fits(m_state, hw)
  BY DEF IInv, Fits
<1>1. \A g \in Hardware : Alike([g EXCEPT !.live = "done"], g)
  BY DEF Alike, Hardware, VideoRuns, Prepared
<1>2. Alike(SetCh(hw, {"SNAPSHOT"}, "started"), hw)
  BY <1>0, SetChannels DEF Alike, VideoRuns, Prepared, ChTypes, ChStatus
<1>3. \A g : Alike(g, hw) => Alike([g EXCEPT !.live = "done"], hw)
  BY <1>1 DEF Alike
<1>4. Alike(hw', hw) /\ UNCHANGED <<m_state, msgs, bRetroPicture, out>>
  BY <1>0, <1>1, <1>2, <1>3 DEF LiveSnapshotStarts, LiveSnapshotFails
<1> QED
  BY <1>0, <1>4, AlikeFits DEF IInv

LEMMA InitFits == Init => IInv
<1> SUFFICES ASSUME Init PROVE IInv
  OBVIOUS
<1>1. hw \in Hardware /\ hw.ch["VIDEO"] = "null"
  BY DEF Init, Hardware, ChTypes, ChStatus
<1>2. Fits(m_state, hw)
  BY <1>1, IdleFits DEF Init, VideoOff, VideoRuns, IdleStates
<1> QED
  BY <1>2, SignalsTyped DEF Init, IInv, Signals, KeptMessages, Messages

(* Every handler of every state ends in a state that fits the hardware. *)
LEMMA HandlersFit ==
    ASSUME IInv, NEW e \in AllEvts, stateMachine(e)
    PROVE  IInv'
  BY StoppedFits, ReadyFits, PreviewingFits, PrepareSnapshotFits, PicTakingFits,
     RecordingFits, VideoPicTakingFits, PreviewPicTakingFits DEF stateMachine

LEMMA NextFits ==
    ASSUME IInv, [Next]_vars
    PROVE  IInv'
<1>1. ASSUME NEW e \in AllEvts, stateMachine(e)
      PROVE  IInv'
  BY <1>1, HandlersFit
<1>2. ASSUME NEW b \in BOOLEAN, setRetroPicture(b)
      PROVE  IInv'
  BY <1>2 DEF setRetroPicture, IInv
<1>3. CASE UNCHANGED vars
  BY <1>3 DEF vars, IInv
<1> QED
  BY <1>1, <1>2, <1>3, LiveThreadFits, EvtsAssumption DEF Next

(* The invariant holds in every reachable state: the machine's state and    *)
(* the hardware fit each other.                                             *)
THEOREM StateFitsHardware == Spec => []IInv
<1>1. IInv /\ [Next]_vars => IInv'
  BY NextFits
<1> QED
  BY InitFits, <1>1, PTL DEF Spec

(* Every state, channel, mode, message and answer keeps its type. *)
THEOREM TypeCorrect == Spec => []TypeOK
<1>1. IInv => TypeOK
  BY DEF IInv, Fits, Signals, KeptMessages, TypeOK
<1> QED
  BY <1>1, StateFitsHardware, PTL

(* The state machine believes it records exactly while the video stream     *)
(* runs, whatever the client asks and whatever the daemon refuses.          *)
THEOREM RecordsIffVideoRuns == Spec => []VideoIffRecording
<1>1. IInv => VideoIffRecording
  BY DEF IInv, Fits, VideoRuns, VideoIffRecording, Running, Recording
<1> QED
  BY <1>1, StateFitsHardware, PTL

(* Waiting for a window, the machine holds a channel ready to start and has *)
(* no window.                                                               *)
THEOREM WaitsPrepared == Spec => []ReadyIsPrepared
<1>1. IInv => ReadyIsPrepared
  BY DEF IInv, Fits, Prepared, ReadyIsPrepared
<1> QED
  BY <1>1, StateFitsHardware, PTL

(* A client that asked for preview frames has them enabled or held back on  *)
(* a path that will apply them, through captures, restarts and failures.    *)
THEOREM FrameRequestsKept == Spec => []FrameRequestNotLost
<1>1. IInv => FrameRequestNotLost
  BY DEF IInv, Signals, KeptMessages, FrameRequestNotLost
<1> QED
  BY <1>1, StateFitsHardware, PTL
=============================================================================
