--------------------- MODULE MCCameraStateMachine_proofs ---------------------
(***************************************************************************)
(* For the client that changes modes only without a capture or a recording *)
(* and a daemon that refuses nothing: nothing runs on where no preview is  *)
(* believed to run, and the streams that run fit each other.  The proof    *)
(* says for each state what its channels and modes may be, then follows    *)
(* every handler from the state it starts in to the one it ends in.        *)
(***************************************************************************)
EXTENDS MCCameraStateMachine, TLAPS

Off(h, t) == h.ch[t] # "started"
Up(h, t) == h.ch[t] # "null"

SameModes(g, h) ==
    /\ g.zsl = h.zsl /\ g.zslNew = h.zslNew
    /\ g.hint = h.hint /\ g.hintNew = h.hintNew
    /\ g.hintStr = h.hintStr /\ g.hintPend = h.hintPend
    /\ g.longshot = h.longshot

(* No mode waits for a commit. *)
Settled(h) ==
    h \in Hardware /\ h.zslNew = h.zsl /\ h.hintNew = h.hint /\ h.hintPend = h.hintStr

(* No preview is believed to run. *)
Idle(h) == Settled(h) /\ \A t \in ChTypes \ {"SNAPSHOT"} : Off(h, t)

(* The channel a preview of the current modes runs on, and the ones it      *)
(* stands on when a recording is hinted.                                    *)
PreviewCh(h) == IF h.zsl /\ ~h.hint THEN "ZSL" ELSE "PREVIEW"
Hinted(h) == h.hint => Up(h, "VIDEO") /\ Up(h, "SNAPSHOT")

Ready(h) == Idle(h) /\ Up(h, PreviewCh(h)) /\ Hinted(h)

(* Only the preview the modes ask for runs, and under the hint it does run. *)
Streams(h) ==
    /\ Settled(h) /\ Hinted(h)
    /\ \A t \in {"ZSL", "PREVIEW", "CAPTURE"} : t # PreviewCh(h) => Off(h, t)
    /\ h.hint => ~Off(h, "PREVIEW")

Previewing(h) == Streams(h) /\ Off(h, "VIDEO")
Records(h) == Streams(h) /\ h.hint

(* A normal capture, and a capture over the preview: without ZSL and without *)
(* the hint that one is a long shot, which runs in place of the preview.     *)
Captures(h) == Settled(h) /\ ~h.zsl /\ \A t \in {"ZSL", "PREVIEW", "VIDEO"} : Off(h, t)
CapturesOver(h) ==
    \/ Previewing(h) /\ (h.zsl \/ h.hint)
    \/ Captures(h) /\ ~h.hint /\ h.longshot

HardwareFits(s, h) ==
    CASE s = "PREVIEW_STOPPED" -> Idle(h)
      [] s = "PREVIEW_READY" -> Ready(h)
      [] s \in {"PREVIEWING", "PREPARE_SNAPSHOT"} -> Previewing(h)
      [] s = "PIC_TAKING" -> Captures(h)
      [] s \in {"RECORDING", "VIDEO_PIC_TAKING"} -> Records(h)
      [] s = "PREVIEW_PIC_TAKING" -> CapturesOver(h)

(* A request for preview frames is applied or held back; it is not held back *)
(* while a preview runs under the hint.                                      *)
Kept(m) == m \in Messages /\ (m.wanted => m.frame \/ m.delayed) /\ (m.delayed => m.delay)
MessagesFit(s, h, m) ==
    /\ Kept(m)
    /\ h.hint /\ s \notin {"PREVIEW_STOPPED", "PREVIEW_READY", "PIC_TAKING"} => ~m.delay

CarefulFits(s, h, m) == s \in States /\ HardwareFits(s, h) /\ MessagesFit(s, h, m)

IInv == careful => CarefulFits(m_state, hw, msgs)

-----------------------------------------------------------------------------
(* The channel operations, when nothing is refused.                         *)

(* Setting some channels changes no other and no mode. *)
LEMMA SetChannels ==
    ASSUME NEW h \in Hardware, NEW T \in SUBSET ChTypes, NEW s \in ChStatus
    PROVE  /\ Careful!SetCh(h, T, s) \in Hardware
           /\ \A t \in ChTypes : Careful!SetCh(h, T, s).ch[t] = IF t \in T THEN s ELSE h.ch[t]
           /\ SameModes(Careful!SetCh(h, T, s), h)
  BY DEF Careful!SetCh, Careful!ChTypes, ChTypes, ChStatus, Hardware, SameModes

LEMMA OutcomeParts ==
    ASSUME NEW h
    PROVE  /\ Careful!Done(h).hw = h /\ Careful!Done(h).ok = TRUE
           /\ Careful!Failed(h).hw = h /\ Careful!Failed(h).ok = FALSE
           /\ Careful!MayFail(h) = {}
  BY DEF Careful!Done, Careful!Failed, Careful!MayFail

(* Modes that are settled stay settled when they do not change. *)
LEMMA SettledAlike ==
    ASSUME NEW g \in Hardware, NEW h, Settled(h), SameModes(g, h)
    PROVE  Settled(g) /\ PreviewCh(g) = PreviewCh(h)
  BY DEF Settled, SameModes, PreviewCh

LEMMA Added ==
    ASSUME NEW h, NEW t
    PROVE  Careful!addChannel(h, t) = {Careful!Done(Careful!SetCh(h, {t}, "added"))}
  BY OutcomeParts DEF Careful!addChannel

(* An idle camera prepares the channel its modes ask for. *)
LEMMA PreparesReady ==
    ASSUME NEW h, Idle(h)
    PROVE  \A o \in Careful!preparePreview(h) : o.ok = TRUE /\ Ready(o.hw)
<1> DEFINE Needed == IF h.hint THEN {"SNAPSHOT", "VIDEO", "PREVIEW"} ELSE {PreviewCh(h)}
           g == Careful!SetCh(h, Needed, "added")
<1>h. h \in Hardware /\ Settled(h) /\ \A t \in ChTypes \ {"SNAPSHOT"} : Off(h, t)
  BY DEF Idle, Settled
<1>n. Needed \in SUBSET ChTypes /\ PreviewCh(h) \in Needed
  BY DEF PreviewCh, ChTypes
<1>1. Careful!preparePreview(h) = {Careful!Done(g)}
  <2>1. CASE h.hint
    BY ZenonT(40), <2>1, OutcomeParts DEF Careful!preparePreview, Careful!ZslPreview
  <2>2. CASE ~h.hint
    BY <2>2, OutcomeParts, Added DEF Careful!preparePreview, Careful!ZslPreview, PreviewCh
  <2> QED
    BY <2>1, <2>2
<1>2. /\ g \in Hardware /\ SameModes(g, h)
      /\ \A t \in ChTypes : g.ch[t] = IF t \in Needed THEN "added" ELSE h.ch[t]
  BY <1>h, <1>n, SetChannels DEF ChStatus
<1>3. h.hint => {"SNAPSHOT", "VIDEO"} \subseteq Needed
  OBVIOUS
<1> HIDE DEF g, Needed
<1>4. Settled(g) /\ PreviewCh(g) = PreviewCh(h)
  BY <1>h, <1>2, SettledAlike
<1>5. Idle(g)
  BY <1>h, <1>2, <1>4 DEF Idle, Off
<1>6. Up(g, PreviewCh(g)) /\ Hinted(g)
  BY <1>n, <1>2, <1>3, <1>4 DEF Up, Hinted, SameModes, ChTypes
<1> QED
  BY <1>1, <1>5, <1>6, OutcomeParts DEF Ready

(* A prepared preview starts, on the channel its modes ask for. *)
LEMMA PreviewStarts ==
    ASSUME NEW h, Ready(h)
    PROVE  \A o \in Careful!startPreview(h) : o.ok = TRUE /\ Previewing(o.hw)
<1> DEFINE t == PreviewCh(h)
           g == Careful!SetCh(h, {t}, "started")
<1>h. h \in Hardware /\ Settled(h) /\ \A u \in ChTypes \ {"SNAPSHOT"} : Off(h, u)
  BY DEF Ready, Idle, Settled
<1>t. t \in {"ZSL", "PREVIEW"} /\ t \in ChTypes /\ (h.hint => t = "PREVIEW")
  BY DEF PreviewCh, ChTypes
<1>1. Careful!startPreview(h) = {Careful!Done(g)}
  BY OutcomeParts DEF Careful!startPreview, Careful!startChannel, Careful!ZslPreview, PreviewCh, Ready, Up
<1>2. /\ g \in Hardware /\ SameModes(g, h)
      /\ \A u \in ChTypes : g.ch[u] = IF u = t THEN "started" ELSE h.ch[u]
  BY <1>h, <1>t, SetChannels DEF ChStatus
<1> HIDE DEF g
<1>3. Settled(g) /\ PreviewCh(g) = t
  BY <1>h, <1>2, SettledAlike
<1> HIDE DEF t
<1>4. Hinted(g)
  BY <1>2, <1>t DEF Ready, Hinted, Up, SameModes, ChTypes
<1>5. Previewing(g)
  BY <1>h, <1>t, <1>2, <1>3, <1>4 DEF Previewing, Streams, Off, ChTypes, SameModes
<1> QED
  BY <1>1, <1>5, OutcomeParts

LEMMA PreviewComesUp ==
    ASSUME NEW h, Idle(h)
    PROVE  \A o \in Careful!PrepareAndStart(h) : o.ok = TRUE /\ o.prepared = TRUE /\ Previewing(o.hw)
<1>1. ASSUME NEW p \in Careful!preparePreview(h)
      PROVE  p.ok = TRUE /\ \A s \in Careful!startPreview(p.hw) : s.ok = TRUE /\ Previewing(s.hw)
  BY <1>1, PreparesReady, PreviewStarts
<1>2. ASSUME NEW o \in Careful!PrepareAndStart(h)
      PROVE  \E p \in Careful!preparePreview(h) : \E s \in Careful!startPreview(p.hw) :
                o = [hw |-> s.hw, ok |-> s.ok, prepared |-> TRUE]
  BY <1>1, <1>2 DEF Careful!PrepareAndStart
<1>3. ASSUME NEW o \in Careful!PrepareAndStart(h)
      PROVE  o.ok = TRUE /\ o.prepared = TRUE /\ Previewing(o.hw)
  <2>1. PICK p \in Careful!preparePreview(h) : \E s \in Careful!startPreview(p.hw) :
           o = [hw |-> s.hw, ok |-> s.ok, prepared |-> TRUE]
    BY <1>2, <1>3
  <2>2. PICK s \in Careful!startPreview(p.hw) : o = [hw |-> s.hw, ok |-> s.ok, prepared |-> TRUE]
    BY <2>1
  <2>3. s.ok = TRUE /\ Previewing(s.hw)
    BY <1>1
  <2> QED
    BY <2>2, <2>3
<1> QED
  BY <1>3

(* Deleting the preview channels where no normal capture runs. *)
LEMMA Unprepares ==
    ASSUME NEW h \in Hardware, Off(h, "CAPTURE")
    PROVE  /\ Careful!stopPreview(h) = Careful!unpreparePreview(h)
           /\ Careful!unpreparePreview(h) \in Hardware
           /\ SameModes(Careful!unpreparePreview(h), h)
           /\ \A t \in ChTypes \ {"SNAPSHOT"} : Off(Careful!unpreparePreview(h), t)
           /\ Settled(h) => Idle(Careful!unpreparePreview(h))
<1> DEFINE g == Careful!SetCh(h, {"ZSL", "PREVIEW", "VIDEO", "SNAPSHOT"}, "null")
<1>1. Careful!unpreparePreview(h) = g /\ Careful!stopPreview(h) = g
  BY DEF Careful!unpreparePreview, Careful!stopPreview, Careful!delChannels
<1>2. /\ g \in Hardware /\ SameModes(g, h)
      /\ \A t \in ChTypes : g.ch[t] = IF t \in {"ZSL", "PREVIEW", "VIDEO", "SNAPSHOT"}
                                      THEN "null" ELSE h.ch[t]
  BY SetChannels DEF ChTypes, ChStatus
<1> HIDE DEF g
<1>3. \A t \in ChTypes \ {"SNAPSHOT"} : Off(g, t)
  BY <1>2 DEF Off, ChTypes
<1> QED
  BY <1>1, <1>2, <1>3, SettledAlike DEF Idle

(* A commit settles the modes and touches no channel. *)
LEMMA Committed ==
    ASSUME NEW h \in Hardware
    PROVE  \A o \in Careful!commitParameterChanges(h) :
              /\ o.ok = TRUE /\ Settled(o.hw) /\ o.hw.ch = h.ch
              /\ o.hw.zsl = h.zslNew /\ o.hw.hint = h.hintNew /\ o.hw.longshot = h.longshot
<1> DEFINE g == [h EXCEPT !.zsl = h.zslNew, !.hint = h.hintNew, !.hintStr = h.hintPend]
<1>1. Careful!commitParameterChanges(h) = {Careful!Done(g)}
  BY OutcomeParts DEF Careful!commitParameterChanges
<1>2. /\ Settled(g) /\ g.ch = h.ch
      /\ g.zsl = h.zslNew /\ g.hint = h.hintNew /\ g.longshot = h.longshot
  BY DEF Settled, Hardware
<1> HIDE DEF g
<1> QED
  BY <1>1, <1>2, OutcomeParts

(* A preview is rebuilt under new modes, or under the same. *)
LEMMA Rebuilds ==
    ASSUME NEW h \in Hardware, Off(h, "CAPTURE")
    PROVE  /\ \A c \in Careful!commitParameterChanges(Careful!unpreparePreview(h)) : c.ok = TRUE /\ Idle(c.hw)
           /\ \A o \in Careful!RebuiltCommitted(h) : o.ok = TRUE /\ o.prepared = TRUE /\ Previewing(o.hw)
           /\ Settled(h) =>
                 \A o \in Careful!Rebuilt(h) : o.ok = TRUE /\ o.prepared = TRUE /\ Previewing(o.hw)
<1>1. \A c \in Careful!commitParameterChanges(Careful!unpreparePreview(h)) : c.ok = TRUE /\ Idle(c.hw)
  BY Unprepares, Committed DEF Idle, Off
<1>2. \A o \in Careful!RebuiltCommitted(h) : o.ok = TRUE /\ o.prepared = TRUE /\ Previewing(o.hw)
  BY <1>1, Unprepares, PreviewComesUp DEF Careful!RebuiltCommitted
<1>3. Settled(h) => \A o \in Careful!Rebuilt(h) : o.ok = TRUE /\ o.prepared = TRUE /\ Previewing(o.hw)
  BY Unprepares, PreviewComesUp DEF Careful!Rebuilt
<1> QED
  BY <1>1, <1>2, <1>3

(* The channel itself stops; the others and the modes stay. *)
LEMMA Stops ==
    ASSUME NEW h \in Hardware, NEW t \in ChTypes
    PROVE  /\ Careful!stopChannel(h, t).hw \in Hardware
           /\ SameModes(Careful!stopChannel(h, t).hw, h)
           /\ Off(Careful!stopChannel(h, t).hw, t)
           /\ \A u \in ChTypes : /\ u # t => Careful!stopChannel(h, t).hw.ch[u] = h.ch[u]
                                 /\ Up(h, u) => Up(Careful!stopChannel(h, t).hw, u)
                                 /\ Off(h, u) => Off(Careful!stopChannel(h, t).hw, u)
<1> DEFINE g == Careful!SetCh(h, {t}, "added")
<1>1. Careful!stopChannel(h, t) = IF h.ch[t] = "started" THEN Careful!Done(g) ELSE Careful!Failed(h)
  BY DEF Careful!stopChannel
<1>2. /\ g \in Hardware /\ SameModes(g, h)
      /\ \A u \in ChTypes : g.ch[u] = IF u = t THEN "added" ELSE h.ch[u]
  BY SetChannels DEF ChStatus
<1>3. SameModes(h, h)
  BY DEF SameModes
<1> HIDE DEF g
<1>4. CASE h.ch[t] = "started"
  <2>1. Careful!stopChannel(h, t).hw = g
    BY <1>1, <1>4, OutcomeParts
  <2> QED
    BY <1>2, <2>1 DEF Off, Up
<1>5. CASE h.ch[t] # "started"
  <2>1. Careful!stopChannel(h, t).hw = h
    BY <1>1, <1>5, OutcomeParts
  <2> QED
    BY <1>3, <1>5, <2>1 DEF Off
<1> QED
  BY <1>4, <1>5

(* What a step may do to the hardware while every stream runs on and none    *)
(* starts: the snapshot channel is at most stopped, the live thread moves.   *)
SameStreams(g, h) ==
    /\ g \in Hardware /\ SameModes(g, h)
    /\ \A t \in ChTypes \ {"SNAPSHOT"} : g.ch[t] = h.ch[t]
    /\ Up(h, "SNAPSHOT") => Up(g, "SNAPSHOT")

LEMMA SameFits ==
    ASSUME NEW g, NEW h, SameStreams(g, h)
    PROVE  /\ Idle(h) => Idle(g)
           /\ Ready(h) => Ready(g)
           /\ Streams(h) => Streams(g)
           /\ Previewing(h) => Previewing(g)
           /\ Records(h) => Records(g)
           /\ Captures(h) => Captures(g)
           /\ CapturesOver(h) => CapturesOver(g)
           /\ \A s \in States : HardwareFits(s, h) => HardwareFits(s, g)
<1>m. SameModes(g, h) /\ g \in Hardware
  BY DEF SameStreams
<1>s. Settled(h) => Settled(g) /\ PreviewCh(g) = PreviewCh(h)
  BY <1>m, SettledAlike
<1>c. /\ \A t \in ChTypes \ {"SNAPSHOT"} : (Off(h, t) <=> Off(g, t)) /\ (Up(h, t) <=> Up(g, t))
      /\ Up(h, "SNAPSHOT") => Up(g, "SNAPSHOT")
  BY DEF SameStreams, Off, Up
<1>h. Hinted(h) => Hinted(g)
  BY <1>m, <1>c DEF Hinted, SameModes, ChTypes
<1>1. Idle(h) => Idle(g)
  BY <1>s, <1>c DEF Idle
<1>2. Ready(h) => Ready(g)
  BY <1>1, <1>s, <1>c, <1>h DEF Ready, Idle, PreviewCh, ChTypes
<1>3. Streams(h) => Streams(g)
  BY <1>s, <1>c, <1>h, <1>m DEF Streams, SameModes, ChTypes
<1>4. Previewing(h) => Previewing(g)
  BY <1>3, <1>c DEF Previewing, ChTypes
<1>5. Records(h) => Records(g)
  BY <1>3, <1>m DEF Records, SameModes
<1>6. Captures(h) => Captures(g)
  BY <1>s, <1>c, <1>m DEF Captures, SameModes, ChTypes
<1>7. CapturesOver(h) => CapturesOver(g)
  BY <1>4, <1>6, <1>m DEF CapturesOver, SameModes
<1> QED
  BY <1>1, <1>2, <1>3, <1>4, <1>5, <1>6, <1>7 DEF HardwareFits, States

(* The live snapshot thread, and a request on a running channel.            *)
LEMMA SnapshotsKeep ==
    ASSUME NEW h \in Hardware
    PROVE  /\ SameStreams(h, h)
           /\ \A o \in Careful!longShot(h) : SameStreams(o.hw, h)
           /\ \A o \in Careful!takeLiveSnapshot(h) : o.ok = TRUE /\ SameStreams(o.hw, h)
           /\ SameStreams(Careful!cancelLiveSnapshot(h).hw, h)
<1> DEFINE live == [h EXCEPT !.live = "running"]
           joined == [h EXCEPT !.live = "none"]
<1>1. SameStreams(h, h) /\ SameStreams(live, h) /\ SameStreams(joined, h)
  BY DEF SameStreams, SameModes, Hardware, Up, ChTypes
<1>2. Careful!longShot(h) \subseteq {Careful!Done(h), Careful!Failed(h)}
  BY OutcomeParts DEF Careful!longShot
<1>3. Careful!takeLiveSnapshot(h) = {Careful!Done(live)}
  BY OutcomeParts DEF Careful!takeLiveSnapshot
<1>4. Careful!cancelLiveSnapshot(h) = Careful!stopChannel(joined, "SNAPSHOT")
  BY DEF Careful!cancelLiveSnapshot
<1>5. joined \in Hardware
  BY <1>1 DEF SameStreams
<1> HIDE DEF live, joined
<1>6. SameStreams(Careful!stopChannel(joined, "SNAPSHOT").hw, joined)
  BY <1>5, Stops DEF SameStreams, ChTypes
<1>7. SameStreams(Careful!stopChannel(joined, "SNAPSHOT").hw, h)
  BY <1>1, <1>6 DEF SameStreams, SameModes
<1> QED
  BY <1>1, <1>2, <1>3, <1>4, <1>7, OutcomeParts

(* A recording starts over a preview in recording-hint mode.                *)
LEMMA RecordingStarts ==
    ASSUME NEW h, Previewing(h)
    PROVE  \A o \in Careful!startRecording(h) : o.ok = TRUE /\ Records(o.hw)
<1>h. h \in Hardware /\ Settled(h) /\ Off(h, "CAPTURE")
  BY DEF Previewing, Streams, Settled, PreviewCh
<1>v. ASSUME NEW g, Previewing(g), g.hint
      PROVE  \A o \in Careful!startChannel(g, "VIDEO") : o.ok = TRUE /\ Records(o.hw)
  <2> DEFINE r == Careful!SetCh(g, {"VIDEO"}, "started")
  <2>1. Careful!startChannel(g, "VIDEO") = {Careful!Done(r)}
    BY <1>v, OutcomeParts DEF Careful!startChannel, Previewing, Streams, Hinted, Up
  <2>g. g \in Hardware /\ Settled(g)
    BY <1>v DEF Previewing, Streams, Settled
  <2>2. /\ r \in Hardware /\ SameModes(r, g)
        /\ \A u \in ChTypes : r.ch[u] = IF u = "VIDEO" THEN "started" ELSE g.ch[u]
    BY <2>g, SetChannels DEF ChTypes, ChStatus
  <2> HIDE DEF r
  <2>3. Settled(r) /\ PreviewCh(r) = PreviewCh(g)
    BY <2>g, <2>2, SettledAlike
  <2>4. Records(r)
    BY <1>v, <2>2, <2>3 DEF Records, Previewing, Streams, Hinted, Up, Off, SameModes, ChTypes
  <2> QED
    BY <2>1, <2>4, OutcomeParts
<1>1. CASE h.hint
  <2>1. Careful!startRecording(h) = Careful!startChannel(h, "VIDEO")
    BY ZenonT(40), <1>1, OutcomeParts DEF Careful!startRecording, Careful!Then
  <2> QED
    BY <1>1, <1>v, <2>1
<1>2. CASE ~h.hint
  <2> DEFINE hinting == [Careful!stopPreview(h) EXCEPT !.hintNew = TRUE]
             hinted == {o.hw : o \in Careful!commitParameterChanges(hinting)}
             Rebuild(g) == Careful!Then(Careful!preparePreview(g), LAMBDA x : Careful!startChannel(x, "PREVIEW"))
             preview == UNION {Rebuild(g) : g \in hinted}
  <2>1. /\ hinting \in Hardware /\ hinting.hintNew = TRUE
        /\ \A t \in ChTypes \ {"SNAPSHOT"} : Off(hinting, t)
    BY <1>h, Unprepares DEF Hardware, Off
  <2>2. Careful!startRecording(h) = Careful!Then(preview, LAMBDA x : Careful!startChannel(x, "VIDEO"))
    BY <1>2 DEF Careful!startRecording
  <2> HIDE DEF hinting
  <2>3. \A g \in hinted : Idle(g) /\ g.hint
    <3>1. ASSUME NEW o \in Careful!commitParameterChanges(hinting)
          PROVE  Settled(o.hw) /\ o.hw.ch = hinting.ch /\ o.hw.hint = TRUE
      BY <2>1, Committed
    <3>2. ASSUME NEW o \in Careful!commitParameterChanges(hinting)
          PROVE  Idle(o.hw) /\ o.hw.hint
      BY <2>1, <3>1 DEF Idle, Off
    <3> QED
      BY <3>2
  <2>4. ASSUME NEW g, Idle(g), g.hint
        PROVE  \A o \in Rebuild(g) : o.ok = TRUE /\ Previewing(o.hw) /\ o.hw.hint
    <3>1. ASSUME NEW p \in Careful!preparePreview(g)
          PROVE  p.ok = TRUE /\ Ready(p.hw) /\ p.hw.hint
      <4>1. p.ok = TRUE /\ Ready(p.hw)
        BY <2>4, PreparesReady
      <4>2. p = Careful!Done(Careful!SetCh(g, {"SNAPSHOT", "VIDEO", "PREVIEW"}, "added"))
        BY <2>4, OutcomeParts DEF Careful!preparePreview, Careful!ZslPreview
      <4>3. g \in Hardware
        BY <2>4 DEF Idle, Settled
      <4>4. p.hw.hint = g.hint
        <5>1. p.hw = Careful!SetCh(g, {"SNAPSHOT", "VIDEO", "PREVIEW"}, "added")
          BY <4>2, OutcomeParts
        <5>2. {"SNAPSHOT", "VIDEO", "PREVIEW"} \in SUBSET ChTypes /\ "added" \in ChStatus
          BY DEF ChTypes, ChStatus
        <5>3. SameModes(Careful!SetCh(g, {"SNAPSHOT", "VIDEO", "PREVIEW"}, "added"), g)
          BY <4>3, <5>2, SetChannels
        <5> QED
          BY <5>1, <5>3 DEF SameModes
      <4> QED
        BY <2>4, <4>1, <4>4
    <3>2. ASSUME NEW x, Ready(x), x.hint
          PROVE  \A o \in Careful!startChannel(x, "PREVIEW") :
                    o.ok = TRUE /\ Previewing(o.hw) /\ o.hw.hint
      <4>1. Careful!startChannel(x, "PREVIEW") = Careful!startPreview(x)
        BY <3>2 DEF Careful!startPreview, Careful!ZslPreview
      <4>2. x \in Hardware
        BY <3>2 DEF Ready, Idle, Settled
      <4>3. ASSUME NEW o \in Careful!startChannel(x, "PREVIEW")
            PROVE  o.hw.hint
        <5>1. o.hw = x \/ o.hw = Careful!SetCh(x, {"PREVIEW"}, "started")
          BY OutcomeParts DEF Careful!startChannel
        <5> QED
          BY <3>2, <4>2, <5>1, SetChannels DEF SameModes, ChTypes, ChStatus
      <4> QED
        BY <3>2, <4>1, <4>3, PreviewStarts
    <3> QED
      BY <3>1, <3>2 DEF Careful!Then
  <2> HIDE DEF hinted, Rebuild
  <2>5. \A o \in preview : o.ok = TRUE /\ Previewing(o.hw) /\ o.hw.hint
    BY <2>3, <2>4
  <2> HIDE DEF preview
  <2> QED
    BY <2>2, <2>5, <1>v DEF Careful!Then
<1> QED
  BY <1>1, <1>2

(* A picture without the hint: a ZSL request leaves the channels alone, a    *)
(* normal capture replaces the preview.                                     *)
LEMMA PictureStarts ==
    ASSUME NEW h, Previewing(h), ~h.hint
    PROVE  /\ h.zsl => \A o \in Careful!takePicture(h) : o.hw = h
           /\ ~h.zsl => \A o \in Careful!takePicture(h) :
                 /\ o.ok = TRUE /\ Captures(o.hw) /\ ~o.hw.hint
                 /\ o.hw.longshot = h.longshot
<1> DEFINE g == Careful!SetCh(h, {"PREVIEW"}, "null")
           c == Careful!SetCh(g, {"CAPTURE"}, "started")
<1>h. h \in Hardware /\ Settled(h)
  BY DEF Previewing, Streams, Settled
<1>1. h.zsl => \A o \in Careful!takePicture(h) : o.hw = h
  BY OutcomeParts DEF Careful!takePicture
<1>2. ~h.zsl => Careful!takePicture(h) = {Careful!Done(c)}
  BY OutcomeParts DEF Careful!takePicture, Careful!delChannels
<1>3. /\ g \in Hardware /\ SameModes(g, h)
      /\ \A t \in ChTypes : g.ch[t] = IF t = "PREVIEW" THEN "null" ELSE h.ch[t]
  BY <1>h, SetChannels DEF ChTypes, ChStatus
<1> HIDE DEF g
<1>4. /\ c \in Hardware /\ SameModes(c, g)
      /\ \A t \in ChTypes : c.ch[t] = IF t = "CAPTURE" THEN "started" ELSE g.ch[t]
  BY <1>3, SetChannels DEF ChTypes, ChStatus
<1> HIDE DEF c
<1>5. SameModes(c, h)
  BY <1>3, <1>4 DEF SameModes
<1>6. Settled(c)
  BY <1>h, <1>4, <1>5, SettledAlike
<1>7. ~h.zsl => Captures(c)
  BY <1>3, <1>4, <1>5, <1>6 DEF Captures, Previewing, Streams, PreviewCh, Off, SameModes, ChTypes
<1> QED
  BY ZenonT(40), <1>1, <1>2, <1>5, <1>7, OutcomeParts DEF SameModes

(* The end of a normal capture. *)
LEMMA CaptureEnds ==
    ASSUME NEW h, Captures(h)
    PROVE  /\ Idle(Careful!cancelPicture(h)) /\ SameModes(Careful!cancelPicture(h), h)
           /\ Careful!cancelPicture(h) \in Hardware /\ Captures(Careful!stopCaptureChannel(h).hw)
           /\ SameModes(Careful!stopCaptureChannel(h).hw, h)
<1> DEFINE g == Careful!SetCh(h, {"CAPTURE"}, "null")
           c == Careful!stopChannel(h, "CAPTURE").hw
<1>h. h \in Hardware /\ Settled(h)
  BY DEF Captures, Settled
<1>1. Careful!cancelPicture(h) = g
  BY DEF Careful!cancelPicture, Careful!delChannels, Captures
<1>2. /\ g \in Hardware /\ SameModes(g, h)
      /\ \A t \in ChTypes : g.ch[t] = IF t = "CAPTURE" THEN "null" ELSE h.ch[t]
  BY <1>h, SetChannels DEF ChTypes, ChStatus
<1> HIDE DEF g
<1>3. Settled(g)
  BY <1>h, <1>2, SettledAlike
<1>4. Idle(g)
  BY <1>2, <1>3 DEF Idle, Captures, Off, ChTypes
<1>5. Careful!stopCaptureChannel(h).hw = c
  BY DEF Careful!stopCaptureChannel
<1>6. /\ c \in Hardware /\ SameModes(c, h)
      /\ \A u \in ChTypes : Off(h, u) => Off(c, u)
  BY <1>h, Stops DEF ChTypes
<1> HIDE DEF c
<1>7. Settled(c)
  BY <1>h, <1>6, SettledAlike
<1>8. Captures(c)
  BY <1>6, <1>7 DEF Captures, SameModes, ChTypes
<1> QED
  BY <1>1, <1>2, <1>4, <1>5, <1>6, <1>8

(* An idle camera fits the preview that its modes ask for, unless they hint  *)
(* a recording.                                                             *)
LEMMA IdlePreviews ==
    ASSUME NEW h, Idle(h), ~h.hint
    PROVE  Previewing(h)
  BY DEF Idle, Previewing, Streams, Hinted, ChTypes

(* The end of a capture over the preview, the live one's thread joined.      *)
LEMMA CaptureOverEnds ==
    ASSUME CapturesOver(hw)
    PROVE  /\ Previewing(Careful!CancelCapture.hw)
           /\ Careful!CancelCapture.hw.hint = hw.hint
           /\ Careful!LiveCapture => hw.hint
<1>h. hw \in Hardware
  BY DEF CapturesOver, Previewing, Captures, Streams, Settled
<1>l. Careful!LiveCapture => hw.hint
  BY DEF Careful!LiveCapture, CapturesOver
<1>1. CASE Careful!LiveCapture
  <2>1. Careful!CancelCapture = Careful!cancelLiveSnapshot(hw)
    BY <1>1 DEF Careful!CancelCapture
  <2>2. SameStreams(Careful!cancelLiveSnapshot(hw).hw, hw)
    BY <1>h, SnapshotsKeep
  <2>3. Previewing(hw)
    BY <1>1, <1>l DEF CapturesOver
  <2> QED
    BY <1>l, <2>1, <2>2, <2>3, SameFits DEF SameStreams, SameModes
<1>2. CASE ~Careful!LiveCapture
  <2>1. Careful!CancelCapture.hw = Careful!cancelPicture(hw)
    BY <1>2, OutcomeParts DEF Careful!CancelCapture
  <2>2. CASE Captures(hw) /\ ~hw.hint /\ hw.longshot
    <3>1. Idle(Careful!cancelPicture(hw)) /\ Careful!cancelPicture(hw).hint = hw.hint
      BY <2>2, CaptureEnds DEF SameModes
    <3> QED
      BY <1>l, <2>1, <2>2, <3>1, IdlePreviews
  <2>3. CASE Previewing(hw) /\ hw.zsl
    BY <1>l, <2>1, <2>3 DEF Careful!cancelPicture
  <2>4. CASE Previewing(hw) /\ hw.hint /\ ~hw.zsl
    <3> DEFINE g == Careful!SetCh(hw, {"CAPTURE"}, "null")
    <3>1. Careful!cancelPicture(hw) = g
      BY <2>4 DEF Careful!cancelPicture, Careful!delChannels
    <3>2. /\ g \in Hardware /\ SameModes(g, hw)
          /\ \A t \in ChTypes : g.ch[t] = IF t = "CAPTURE" THEN "null" ELSE hw.ch[t]
      BY <1>h, SetChannels DEF ChTypes, ChStatus
    <3> HIDE DEF g
    <3>3. Settled(g) /\ PreviewCh(g) = PreviewCh(hw)
      BY <2>4, <3>2, SettledAlike DEF Previewing, Streams
    <3>4. Previewing(g)
      BY <2>4, <3>2, <3>3 DEF Previewing, Streams, Hinted, Up, Off, SameModes, ChTypes
    <3> QED
      BY <1>l, <2>1, <3>1, <3>2, <3>4 DEF SameModes
  <2> QED
    BY <2>2, <2>3, <2>4 DEF CapturesOver
<1> QED
  BY <1>1, <1>2

(* The video stream stops, alone or with the preview. *)
LEMMA RecordingEnds ==
    ASSUME NEW h, Records(h)
    PROVE  /\ Previewing(Careful!stopRecording(h).hw)
           /\ Careful!stopRecording(h).hw.hint
           /\ Idle(Careful!stopPreview(Careful!stopRecording(h).hw))
<1> DEFINE g == Careful!stopChannel(h, "VIDEO").hw
<1>h. h \in Hardware /\ Settled(h)
  BY DEF Records, Streams, Settled
<1>1. Careful!stopRecording(h).hw = g
  BY DEF Careful!stopRecording
<1>2. /\ g \in Hardware /\ SameModes(g, h) /\ Off(g, "VIDEO")
      /\ \A u \in ChTypes : /\ u # "VIDEO" => g.ch[u] = h.ch[u]
                            /\ Up(h, u) => Up(g, u)
  BY <1>h, Stops DEF ChTypes
<1> HIDE DEF g
<1>3. Settled(g) /\ PreviewCh(g) = PreviewCh(h)
  BY <1>h, <1>2, SettledAlike
<1>4. Hinted(g)
  BY <1>2 DEF Records, Streams, Hinted, SameModes, ChTypes
<1>5. Previewing(g) /\ g.hint
  BY <1>2, <1>3, <1>4 DEF Previewing, Records, Streams, Off, SameModes, ChTypes
<1>6. Idle(Careful!stopPreview(g))
  <2>1. Off(g, "CAPTURE")
    BY <1>5 DEF Previewing, Streams, PreviewCh
  <2> QED
    BY <1>2, <1>3, <2>1, Unprepares
<1> QED
  BY <1>1, <1>5, <1>6

-----------------------------------------------------------------------------
(* How a handler ends.                                                      *)

Fit == CarefulFits(m_state, hw, msgs)

LEMMA FitsIn ==
    /\ \A h : HardwareFits("PREVIEW_STOPPED", h) <=> Idle(h)
    /\ \A h : HardwareFits("PREVIEW_READY", h) <=> Ready(h)
    /\ \A h : HardwareFits("PREVIEWING", h) <=> Previewing(h)
    /\ \A h : HardwareFits("PREPARE_SNAPSHOT", h) <=> Previewing(h)
    /\ \A h : HardwareFits("PIC_TAKING", h) <=> Captures(h)
    /\ \A h : HardwareFits("RECORDING", h) <=> Records(h)
    /\ \A h : HardwareFits("VIDEO_PIC_TAKING", h) <=> Records(h)
    /\ \A h : HardwareFits("PREVIEW_PIC_TAKING", h) <=> CapturesOver(h)
<1>1. ASSUME NEW h
      PROVE  /\ HardwareFits("PREVIEW_STOPPED", h) <=> Idle(h)
             /\ HardwareFits("PREVIEW_READY", h) <=> Ready(h)
             /\ HardwareFits("PREVIEWING", h) <=> Previewing(h)
             /\ HardwareFits("PREPARE_SNAPSHOT", h) <=> Previewing(h)
             /\ HardwareFits("PIC_TAKING", h) <=> Captures(h)
             /\ HardwareFits("RECORDING", h) <=> Records(h)
             /\ HardwareFits("VIDEO_PIC_TAKING", h) <=> Records(h)
             /\ HardwareFits("PREVIEW_PIC_TAKING", h) <=> CapturesOver(h)
  BY DEF HardwareFits
<1> QED
  BY <1>1

(* Whatever fits is hardware with settled modes. *)
LEMMA FitsSettled ==
    ASSUME NEW s \in States, NEW h, HardwareFits(s, h)
    PROVE  Settled(h) /\ h \in Hardware
  BY FitsIn DEF States, Idle, Ready, Previewing, Streams, Captures, Records, CapturesOver, Settled

LEMMA AppliedKept ==
    ASSUME Kept(msgs)
    PROVE  /\ Kept(Careful!applyDelayedMsgs(msgs))
           /\ \A s, h : MessagesFit(s, h, Careful!applyDelayedMsgs(msgs))
           /\ Careful!AppliedIf(TRUE) = Careful!applyDelayedMsgs(msgs)
<1>1. Kept(Careful!applyDelayedMsgs(msgs)) /\ ~Careful!applyDelayedMsgs(msgs).delay
  BY DEF Kept, Messages, Careful!applyDelayedMsgs
<1> QED
  BY <1>1 DEF MessagesFit, Careful!AppliedIf

(* A handler ends in a state that the hardware and the messages fit. *)
LEMMA EndsFit ==
    ASSUME NEW s \in States, NEW h, NEW m, NEW o,
           HardwareFits(s, h), MessagesFit(s, h, m), Careful!To(s, h, m, o)
    PROVE  Fit'
  BY DEF Fit, CarefulFits, Careful!To

(* Replies that change no more than what is held of the frame message. *)
LEMMA RepliesFit ==
    ASSUME Fit, NEW e,
           \/ \E v : Careful!Reply(e, v)
           \/ Careful!Passed(e)
           \/ Careful!Ignored
           \/ Careful!EnableMsgs(e) \/ Careful!DisableMsgs(e)
           \/ \E o : Careful!To(m_state, hw, msgs, o)
           \/ \E o : Careful!To(m_state, hw, Careful!applyDelayedMsgs(msgs), o)
    PROVE  Fit'
<1>0. m_state \in States /\ HardwareFits(m_state, hw) /\ MessagesFit(m_state, hw, msgs) /\ Kept(msgs)
  BY DEF Fit, CarefulFits, MessagesFit
<1>1. ASSUME NEW o, Careful!To(m_state, hw, msgs, o)
      PROVE  Fit'
  BY <1>0, <1>1, EndsFit
<1>2. CASE (\E v : Careful!Reply(e, v)) \/ Careful!Passed(e) \/ Careful!Ignored
  BY <1>1, <1>2 DEF Careful!Passed, Careful!Reply, Careful!Ignored
<1>3. CASE Careful!EnableMsgs(e) \/ Careful!DisableMsgs(e)
  <2>1. \A b \in BOOLEAN : MessagesFit(m_state, hw, [msgs EXCEPT !.frame = b, !.wanted = b])
    BY <1>0 DEF MessagesFit, Kept, Messages
  <2> QED
    BY <1>0, <1>3, <2>1, EndsFit DEF Careful!EnableMsgs, Careful!DisableMsgs
<1>4. CASE \E o : Careful!To(m_state, hw, Careful!applyDelayedMsgs(msgs), o)
  BY <1>0, <1>4, AppliedKept, EndsFit
<1> QED
  BY <1>1, <1>2, <1>3, <1>4

(* A handler that replies with the outcome of an operation, with what is     *)
(* held back as it was or applied.                                          *)
LEMMA OutcomesFit ==
    ASSUME NEW e, NEW S, NEW ok \in States, NEW bad \in States,
           \A o \in S : LET s == IF o.ok THEN ok ELSE bad
                        IN HardwareFits(s, o.hw) /\ MessagesFit(s, o.hw, msgs),
           Careful!Ends(e, S, ok, bad)
    PROVE  Fit'
<1>1. PICK o \in S : Careful!To(IF o.ok THEN ok ELSE bad, o.hw, msgs, Careful!Answer(e, Careful!Rc(o)))
  BY DEF Careful!Ends
<1> QED
  BY <1>1, EndsFit

LEMMA AppliedOutcomesFit ==
    ASSUME Fit, NEW e, NEW S, NEW ok \in States, NEW bad \in States,
           \A o \in S : HardwareFits(IF o.ok THEN ok ELSE bad, o.hw),
           \/ Careful!EndsApplied(e, S, ok, bad)
           \/ Careful!Started(e, S, ok, bad) /\ \A o \in S : o.prepared = TRUE
    PROVE  Fit'
<1>0. Kept(msgs)
  BY DEF Fit, CarefulFits, MessagesFit
<1>1. PICK o \in S : Careful!To(IF o.ok THEN ok ELSE bad, o.hw, Careful!applyDelayedMsgs(msgs), Careful!Answer(e, Careful!Rc(o)))
  BY <1>0, AppliedKept DEF Careful!EndsApplied, Careful!Started
<1> QED
  BY <1>0, <1>1, AppliedKept, EndsFit

(* New parameters wait for a commit; one that needs no restart leaves the    *)
(* modes the preview depends on as they are.                                *)
LEMMA Parameters ==
    ASSUME NEW z \in BOOLEAN, NEW r \in BOOLEAN, Settled(hw)
    PROVE  /\ Careful!updateParameters(z, r) \in Hardware
           /\ Careful!updateParameters(z, r).ch = hw.ch
           /\ \A b \in BOOLEAN : ~Careful!NeedRestart(z, r, b) =>
                 \A o \in Careful!commitParameterChanges(Careful!updateParameters(z, r)) :
                    /\ o.ok = TRUE /\ Settled(o.hw) /\ o.hw.ch = hw.ch
                    /\ o.hw.zsl = hw.zsl /\ o.hw.hint = hw.hint
<1> DEFINE h == Careful!updateParameters(z, r)
<1>1. h \in Hardware /\ h.ch = hw.ch
  BY DEF Careful!updateParameters, Settled, Hardware
<1>2. \A b \in BOOLEAN : ~Careful!NeedRestart(z, r, b) => h.zslNew = hw.zsl /\ h.hintNew = hw.hint
  BY DEF Careful!updateParameters, Careful!NeedRestart, Settled, Hardware
<1> HIDE DEF h
<1>3. \A b \in BOOLEAN : ~Careful!NeedRestart(z, r, b) =>
         \A o \in Careful!commitParameterChanges(h) :
            /\ o.ok = TRUE /\ Settled(o.hw) /\ o.hw.ch = hw.ch
            /\ o.hw.zsl = hw.zsl /\ o.hw.hint = hw.hint
  BY <1>1, <1>2, Committed
<1> QED
  BY <1>1, <1>3 DEF h

(* Long shots are chosen where no capture runs, and change nothing else.    *)
LEMMA LongshotFits ==
    ASSUME Fit, m_state \in {"PREVIEW_STOPPED", "PREVIEW_READY", "PREVIEWING"}, NEW e,
           Careful!SendLongshotOn(e) \/ Careful!SendLongshotOff(e, m_state)
    PROVE  Fit'
<1>0. m_state \in States /\ HardwareFits(m_state, hw) /\ MessagesFit(m_state, hw, msgs)
  BY DEF Fit, CarefulFits
<1>1. ASSUME NEW b \in BOOLEAN
      PROVE  /\ HardwareFits(m_state, [hw EXCEPT !.longshot = b])
             /\ MessagesFit(m_state, [hw EXCEPT !.longshot = b], msgs)
  <2> DEFINE g == [hw EXCEPT !.longshot = b]
  <2>1. hw \in Hardware
    BY <1>0, FitsSettled
  <2>2. /\ g \in Hardware /\ g.ch = hw.ch /\ g.zsl = hw.zsl /\ g.zslNew = hw.zslNew
        /\ g.hint = hw.hint /\ g.hintNew = hw.hintNew
        /\ g.hintStr = hw.hintStr /\ g.hintPend = hw.hintPend
    BY <2>1 DEF Hardware
  <2> HIDE DEF g
  <2>3. /\ Idle(hw) => Idle(g)
        /\ Ready(hw) => Ready(g)
        /\ Previewing(hw) => Previewing(g)
    BY <2>2 DEF Idle, Ready, Previewing, Streams, Settled, Hinted, PreviewCh, Up, Off
  <2>4. HardwareFits(m_state, g)
    BY <1>0, <2>3, FitsIn
  <2>5. MessagesFit(m_state, g, msgs)
    BY <1>0, <2>2 DEF MessagesFit
  <2> QED
    BY <2>4, <2>5 DEF g
<1>2. ~Careful!isCaptureRunning
  BY DEF Careful!isCaptureRunning
<1>3. \E b \in BOOLEAN : \E o : Careful!To(m_state, [hw EXCEPT !.longshot = b], msgs, o)
  <2>1. Careful!SendLongshotOn(e) => \E o : Careful!To(m_state, [hw EXCEPT !.longshot = TRUE], msgs, o)
    BY <1>2 DEF Careful!SendLongshotOn, Careful!LongshotOn
  <2>2. Careful!SendLongshotOff(e, m_state) => \E o : Careful!To(m_state, [hw EXCEPT !.longshot = FALSE], msgs, o)
    BY <1>2 DEF Careful!SendLongshotOff, Careful!LongshotOff
  <2> QED
    BY <2>1, <2>2
<1>4. PICK b \in BOOLEAN : \E o : Careful!To(m_state, [hw EXCEPT !.longshot = b], msgs, o)
  BY <1>3
<1>5. PICK o : Careful!To(m_state, [hw EXCEPT !.longshot = b], msgs, o)
  BY <1>4
<1> QED
  BY <1>0, <1>1, <1>5, EndsFit

-----------------------------------------------------------------------------
(* The functions of the states, one by one. *)

LEMMA StoppedFits ==
    ASSUME Fit, m_state = "PREVIEW_STOPPED", NEW e,
           Careful!StoppedSettings(e) \/ Careful!StoppedApi(e) \/ Careful!StoppedEvt(e)
    PROVE  Fit'
<1>0. Idle(hw) /\ hw \in Hardware /\ Settled(hw) /\ Kept(msgs)
  BY FitsIn DEF Fit, CarefulFits, MessagesFit, Idle, Settled
<1>s. /\ "PREVIEW_STOPPED" \in States /\ "PREVIEW_READY" \in States /\ "PREVIEWING" \in States
      /\ \A h : MessagesFit("PREVIEW_STOPPED", h, msgs) /\ MessagesFit("PREVIEW_READY", h, msgs)
  BY <1>0 DEF MessagesFit, States
<1>1. CASE Careful!StoppedSettings(e)
  <2>1. CASE Careful!Passed(e) \/ Careful!EnableMsgs(e) \/ Careful!DisableMsgs(e)
    BY <2>1, RepliesFit
  <2>2. CASE Careful!To(m_state, [hw EXCEPT !.window = (e = "SET_PREVIEW_WINDOW")], msgs, Careful!Answer(e, "OK"))
    <3>1. Idle([hw EXCEPT !.window = (e = "SET_PREVIEW_WINDOW")])
      BY <1>0 DEF Idle, Settled, Hardware, Off
    <3> QED
      BY <1>s, <2>2, <3>1, FitsIn, EndsFit
  <2>3. CASE Careful!SetParams(e, LAMBDA h : Careful!Commits(e, h))
    <3>1. PICK z \in BOOLEAN, r \in BOOLEAN : Careful!Commits(e, Careful!updateParameters(z, r))
      BY <2>3, ModesAssumption DEF Careful!SetParams
    <3> DEFINE h == Careful!updateParameters(z, r)
    <3>h. h \in Hardware /\ h.ch = hw.ch
      BY <1>0, Parameters
    <3>3. Careful!Ends(e, Careful!commitParameterChanges(h), "PREVIEW_STOPPED", "PREVIEW_STOPPED")
      BY <3>1 DEF Careful!Commits
    <3> HIDE DEF h
    <3>4. \A o \in Careful!commitParameterChanges(h) : o.ok = TRUE /\ Settled(o.hw) /\ o.hw.ch = h.ch
      BY <3>h, Committed
    <3>2. \A o \in Careful!commitParameterChanges(h) : o.ok = TRUE /\ Idle(o.hw)
      BY <1>0, <3>h, <3>4 DEF Idle, Off
    <3> QED
      BY <1>s, <3>2, <3>3, FitsIn, OutcomesFit
  <2> QED
    BY <1>1, <2>1, <2>2, <2>3 DEF Careful!StoppedSettings
<1>2. CASE Careful!StoppedApi(e)
  <2>1. CASE (\E v : Careful!Reply(e, v)) \/ Careful!Passed(e) \/ Careful!Ignored
    BY <2>1, RepliesFit
  <2>2. CASE Careful!Ends(e, Careful!preparePreview(hw), "PREVIEW_READY", m_state)
    <3>1. \A o \in Careful!preparePreview(hw) : o.ok = TRUE /\ HardwareFits("PREVIEW_READY", o.hw)
      BY <1>0, PreparesReady, FitsIn
    <3> QED
      BY <1>s, <2>2, <3>1, OutcomesFit
  <2>3. CASE Careful!Started(e, Careful!PrepareAndStart(hw), "PREVIEWING", m_state)
    <3>1. \A o \in Careful!PrepareAndStart(hw) :
             o.ok = TRUE /\ o.prepared = TRUE /\ HardwareFits("PREVIEWING", o.hw)
      BY <1>0, PreviewComesUp, FitsIn
    <3> QED
      BY <1>s, <2>3, <3>1, AppliedOutcomesFit
  <2>4. CASE Careful!To(m_state, Careful!releaseChannels(hw), msgs, Careful!Answer(e, "OK"))
    <3>1. Careful!releaseChannels(hw) = Careful!SetCh(hw, ChTypes, "null")
      BY DEF Careful!releaseChannels, Careful!delChannels, Careful!ChTypes, ChTypes
    <3>2. /\ Careful!SetCh(hw, ChTypes, "null") \in Hardware /\ SameModes(Careful!SetCh(hw, ChTypes, "null"), hw)
          /\ \A t \in ChTypes : Careful!SetCh(hw, ChTypes, "null").ch[t] = "null"
      BY <1>0, SetChannels DEF ChStatus
    <3>3. Idle(Careful!SetCh(hw, ChTypes, "null"))
      BY <1>0, <3>2, SettledAlike DEF Idle, Off
    <3> QED
      BY <1>s, <2>4, <3>1, <3>3, FitsIn, EndsFit
  <2>5. CASE Careful!SendLongshotOn(e) \/ Careful!SendLongshotOff(e, m_state)
    BY <2>5, LongshotFits
  <2> QED
    BY <1>2, <2>1, <2>2, <2>3, <2>4, <2>5 DEF Careful!StoppedApi
<1>3. CASE Careful!StoppedEvt(e)
  BY <1>3, RepliesFit DEF Careful!StoppedEvt
<1> QED
  BY <1>1, <1>2, <1>3

LEMMA ReadyFits ==
    ASSUME Fit, m_state = "PREVIEW_READY", NEW e,
           Careful!ReadySettings(e) \/ Careful!ReadyApi(e) \/ Careful!ReadyEvt(e)
    PROVE  Fit'
<1>0. Ready(hw) /\ hw \in Hardware /\ Settled(hw) /\ Off(hw, "CAPTURE") /\ Kept(msgs)
  BY FitsIn DEF Fit, CarefulFits, MessagesFit, Ready, Idle, Settled, ChTypes
<1>s. /\ "PREVIEW_STOPPED" \in States /\ "PREVIEW_READY" \in States /\ "PREVIEWING" \in States
      /\ \A h : MessagesFit("PREVIEW_STOPPED", h, msgs) /\ MessagesFit("PREVIEW_READY", h, msgs)
  BY <1>0 DEF MessagesFit, States
<1>w. \A b \in BOOLEAN : Ready([hw EXCEPT !.window = b])
  BY <1>0 DEF Ready, Idle, Settled, Hinted, PreviewCh, Hardware, Off, Up
<1>1. CASE Careful!ReadySettings(e)
  <2>1. CASE Careful!Passed(e) \/ Careful!EnableMsgs(e) \/ Careful!DisableMsgs(e)
    BY <2>1, RepliesFit
  <2>2. CASE Careful!To(m_state, [hw EXCEPT !.window = FALSE], msgs, Careful!Answer(e, "OK"))
    BY <1>s, <1>w, <2>2, FitsIn, EndsFit
  <2>3. CASE Careful!EndsApplied(e,
               {IF o.ok THEN o ELSE Careful!Failed(Careful!unpreparePreview(o.hw)) :
                  o \in Careful!startPreview([hw EXCEPT !.window = TRUE])},
               "PREVIEWING", "PREVIEW_STOPPED")
    <3> DEFINE S == Careful!startPreview([hw EXCEPT !.window = TRUE])
               T == {IF o.ok THEN o ELSE Careful!Failed(Careful!unpreparePreview(o.hw)) : o \in S}
    <3>1. \A o \in S : o.ok = TRUE /\ HardwareFits("PREVIEWING", o.hw)
      BY <1>w, PreviewStarts, FitsIn
    <3> HIDE DEF S
    <3>2. \A o \in T : o.ok = TRUE /\ HardwareFits("PREVIEWING", o.hw)
      BY <3>1
    <3>3. Careful!EndsApplied(e, T, "PREVIEWING", "PREVIEW_STOPPED")
      BY <2>3 DEF S
    <3> QED
      BY <1>s, <3>2, <3>3, AppliedOutcomesFit
  <2>4. CASE Careful!SetParams(e, LAMBDA h :
               Careful!Ends(e, UNION {Careful!preparePreview(o.hw) :
                                  o \in Careful!commitParameterChanges(Careful!unpreparePreview(h))},
                      m_state, "PREVIEW_STOPPED"))
    <3> DEFINE S(h) == UNION {Careful!preparePreview(o.hw) :
                                o \in Careful!commitParameterChanges(Careful!unpreparePreview(h))}
    <3>1. PICK z \in BOOLEAN, r \in BOOLEAN :
             \/ Careful!Ends(e, S(Careful!updateParameters(z, r)), m_state, "PREVIEW_STOPPED")
             \/ /\ \E b \in BOOLEAN : ~Careful!NeedRestart(z, r, b)
                /\ Careful!Commits(e, Careful!updateParameters(z, r))
      BY <2>4, ModesAssumption DEF Careful!SetParams
    <3> DEFINE h == Careful!updateParameters(z, r)
    <3>2. h \in Hardware /\ Off(h, "CAPTURE")
      BY <1>0, Parameters DEF Off
    <3>3. CASE Careful!Ends(e, S(h), m_state, "PREVIEW_STOPPED")
      <4> HIDE DEF h
      <4>1. \A o \in S(h) : o.ok = TRUE /\ HardwareFits("PREVIEW_READY", o.hw)
        BY <3>2, Rebuilds, PreparesReady, FitsIn
      <4>2. Careful!Ends(e, S(h), "PREVIEW_READY", "PREVIEW_STOPPED")
        BY <3>3
      <4> HIDE DEF S
      <4> QED
        BY <1>s, <4>1, <4>2, OutcomesFit
    <3>4. CASE /\ \E b \in BOOLEAN : ~Careful!NeedRestart(z, r, b)
               /\ Careful!Commits(e, h)
      <4>1. \A o \in Careful!commitParameterChanges(h) :
               /\ Settled(o.hw) /\ o.hw.ch = hw.ch /\ o.hw.zsl = hw.zsl /\ o.hw.hint = hw.hint
        BY <1>0, <3>4, Parameters
      <4>2. Careful!Ends(e, Careful!commitParameterChanges(h), "PREVIEW_READY", "PREVIEW_READY")
        BY <3>4 DEF Careful!Commits
      <4> HIDE DEF h
      <4>3. \A o \in Careful!commitParameterChanges(h) : Ready(o.hw)
        BY <1>0, <4>1 DEF Ready, Idle, Hinted, PreviewCh, Up, Off
      <4> QED
        BY <1>s, <4>2, <4>3, FitsIn, OutcomesFit
    <3> QED
      BY <3>1, <3>3, <3>4
  <2> QED
    BY <1>1, <2>1, <2>2, <2>3, <2>4 DEF Careful!ReadySettings
<1>2. CASE Careful!ReadyApi(e)
  <2>1. CASE (\E v : Careful!Reply(e, v)) \/ Careful!Passed(e) \/ Careful!Ignored
    BY <2>1, RepliesFit
  <2>2. CASE Careful!To("PREVIEW_STOPPED", Careful!unpreparePreview(hw), msgs, Careful!Answer(e, "OK"))
    <3>1. Idle(Careful!unpreparePreview(hw))
      BY <1>0, Unprepares
    <3> QED
      BY <1>s, <2>2, <3>1, FitsIn, EndsFit
  <2>3. CASE Careful!SendLongshotOn(e) \/ Careful!SendLongshotOff(e, m_state)
    BY <2>3, LongshotFits
  <2> QED
    BY <1>2, <2>1, <2>2, <2>3 DEF Careful!ReadyApi
<1>3. CASE Careful!ReadyEvt(e)
  BY <1>3, RepliesFit DEF Careful!ReadyEvt
<1> QED
  BY <1>1, <1>2, <1>3

LEMMA PreviewingFits ==
    ASSUME Fit, m_state = "PREVIEWING", NEW e,
           Careful!PreviewingSettings(e) \/ Careful!PreviewingApi(e) \/ Careful!PreviewingEvt(e)
    PROVE  Fit'
<1>0. /\ Previewing(hw) /\ hw \in Hardware /\ Settled(hw) /\ Off(hw, "CAPTURE")
      /\ Kept(msgs) /\ (hw.hint => ~msgs.delay)
  BY FitsIn DEF Fit, CarefulFits, MessagesFit, Previewing, Streams, Settled, PreviewCh
<1>s. /\ "PREVIEW_STOPPED" \in States /\ "PREVIEWING" \in States /\ "PREPARE_SNAPSHOT" \in States
      /\ "PIC_TAKING" \in States /\ "RECORDING" \in States /\ "PREVIEW_PIC_TAKING" \in States
      /\ \A h : MessagesFit("PREVIEW_STOPPED", h, msgs) /\ MessagesFit("PIC_TAKING", h, msgs)
      /\ \A h : \A s : (h.hint => hw.hint) => MessagesFit(s, h, msgs)
  BY <1>0 DEF MessagesFit, States
<1>1. CASE Careful!PreviewingSettings(e)
  <2>1. CASE Careful!Passed(e) \/ Careful!EnableMsgs(e) \/ Careful!DisableMsgs(e)
    BY <2>1, RepliesFit
  <2>2. CASE /\ msgs.delay
             /\ Careful!To(m_state, hw, [msgs EXCEPT !.delayed = TRUE, !.wanted = TRUE], Careful!Answer(e, "OK"))
    <3>1. MessagesFit("PREVIEWING", hw, [msgs EXCEPT !.delayed = TRUE, !.wanted = TRUE])
      BY <1>0, <2>2 DEF MessagesFit, Kept, Messages
    <3> QED
      BY <1>0, <1>s, <2>2, <3>1, FitsIn, EndsFit
  <2>3. CASE Careful!To(m_state, hw,
                  [frame |-> FALSE, delayed |-> FALSE, delay |-> FALSE, wanted |-> FALSE],
                  Careful!Answer(e, "OK"))
    <3>1. MessagesFit("PREVIEWING", hw,
             [frame |-> FALSE, delayed |-> FALSE, delay |-> FALSE, wanted |-> FALSE])
      BY DEF MessagesFit, Kept, Messages
    <3> QED
      BY <1>0, <1>s, <2>3, <3>1, FitsIn, EndsFit
  <2>4. CASE Careful!SetParams(e, LAMBDA h : Careful!Started(e, Careful!RebuiltCommitted(h), m_state, "PREVIEW_STOPPED"))
    <3>1. PICK z \in BOOLEAN, r \in BOOLEAN :
             \/ Careful!Started(e, Careful!RebuiltCommitted(Careful!updateParameters(z, r)), m_state, "PREVIEW_STOPPED")
             \/ /\ \E b \in BOOLEAN : ~Careful!NeedRestart(z, r, b)
                /\ Careful!Commits(e, Careful!updateParameters(z, r))
      BY <2>4, ModesAssumption DEF Careful!SetParams
    <3> DEFINE h == Careful!updateParameters(z, r)
    <3>2. h \in Hardware /\ Off(h, "CAPTURE")
      BY <1>0, Parameters DEF Off
    <3>3. CASE Careful!Started(e, Careful!RebuiltCommitted(h), m_state, "PREVIEW_STOPPED")
      <4> HIDE DEF h
      <4>1. \A o \in Careful!RebuiltCommitted(h) :
               o.ok = TRUE /\ o.prepared = TRUE /\ HardwareFits("PREVIEWING", o.hw)
        BY <3>2, Rebuilds, FitsIn
      <4> QED
        BY <1>s, <3>3, <4>1, AppliedOutcomesFit
    <3>4. CASE /\ \E b \in BOOLEAN : ~Careful!NeedRestart(z, r, b)
               /\ Careful!Commits(e, h)
      <4>1. \A o \in Careful!commitParameterChanges(h) :
               /\ Settled(o.hw) /\ o.hw.ch = hw.ch /\ o.hw.zsl = hw.zsl /\ o.hw.hint = hw.hint
        BY <1>0, <3>4, Parameters
      <4>2. Careful!Ends(e, Careful!commitParameterChanges(h), "PREVIEWING", "PREVIEWING")
        BY <3>4 DEF Careful!Commits
      <4> HIDE DEF h
      <4>3. \A o \in Careful!commitParameterChanges(h) :
               Previewing(o.hw) /\ MessagesFit("PREVIEWING", o.hw, msgs)
        BY <1>0, <1>s, <4>1 DEF Previewing, Streams, Hinted, PreviewCh, Up, Off
      <4> QED
        BY <1>s, <4>2, <4>3, FitsIn, OutcomesFit
    <3> QED
      BY <3>1, <3>3, <3>4
  <2> QED
    BY <1>1, <2>1, <2>2, <2>3, <2>4 DEF Careful!PreviewingSettings
<1>2. CASE Careful!PreviewingApi(e)
  <2>1. CASE \/ (\E v : Careful!Reply(e, v)) \/ Careful!Passed(e) \/ Careful!Ignored
             \/ \E o : Careful!To(m_state, hw, Careful!applyDelayedMsgs(msgs), o)
    BY <2>1, RepliesFit
  <2>2. CASE Careful!EndsApplied(e, {Careful!Done(Careful!stopPreview(hw))}, "PREVIEW_STOPPED", m_state)
    <3>u. hw \in Hardware /\ Off(hw, "CAPTURE") /\ Settled(hw)
      BY <1>0
    <3>i. Careful!stopPreview(hw) = Careful!unpreparePreview(hw) /\ Idle(Careful!unpreparePreview(hw))
      BY <3>u, Unprepares
    <3> DEFINE g == Careful!stopPreview(hw)
    <3>g. Idle(g)
      BY <3>i
    <3> HIDE DEF g
    <3>d. Careful!Done(g).hw = g /\ Careful!Done(g).ok = TRUE
      BY OutcomeParts
    <3>1. Careful!Done(g).ok = TRUE /\ Idle(Careful!Done(g).hw)
      BY <3>g, <3>d
    <3> USE DEF g
    <3> DEFINE S == {Careful!Done(Careful!stopPreview(hw))}
    <3>2. \A o \in S : HardwareFits(IF o.ok THEN "PREVIEW_STOPPED" ELSE "PREVIEWING", o.hw)
      BY <3>1, FitsIn
    <3>3. Careful!EndsApplied(e, S, "PREVIEW_STOPPED", "PREVIEWING")
      BY <2>2
    <3> HIDE DEF S
    <3> QED
      BY <1>s, <3>2, <3>3, AppliedOutcomesFit
  <2>3. CASE \E o \in Careful!startRecording(hw) :
               Careful!To(IF o.ok THEN "RECORDING" ELSE m_state, o.hw, Careful!AppliedIf(o.ok),
                    Careful!Answer(e, Careful!Rc(o)))
    <3>1. PICK o \in Careful!startRecording(hw) :
             Careful!To(IF o.ok THEN "RECORDING" ELSE m_state, o.hw, Careful!AppliedIf(o.ok),
                  Careful!Answer(e, Careful!Rc(o)))
      BY <2>3
    <3>2. o.ok = TRUE /\ Records(o.hw)
      BY <1>0, RecordingStarts
    <3>3. Careful!To("RECORDING", o.hw, Careful!applyDelayedMsgs(msgs), Careful!Answer(e, Careful!Rc(o)))
      BY <1>0, <3>1, <3>2, AppliedKept
    <3> QED
      BY <1>0, <1>s, <3>2, <3>3, AppliedKept, FitsIn, EndsFit
  <2>4. CASE Careful!To("PREPARE_SNAPSHOT", hw, Careful!applyDelayedMsgs(msgs), Careful!Quiet)
    BY <1>0, <1>s, <2>4, AppliedKept, FitsIn, EndsFit
  <2>5. CASE Careful!PreviewingTakePicture(e)
    <3>1. CASE /\ ~hw.hint /\ ~Careful!LiveCapture
               /\ \E o \in Careful!takePicture(hw) : \E a :
                     Careful!To(IF o.ok THEN "PREVIEW_PIC_TAKING" ELSE "PREVIEWING", o.hw,
                          [msgs EXCEPT !.delay = TRUE], a)
      <4>1. PICK o \in Careful!takePicture(hw) : \E a :
               Careful!To(IF o.ok THEN "PREVIEW_PIC_TAKING" ELSE "PREVIEWING", o.hw,
                    [msgs EXCEPT !.delay = TRUE], a)
        BY <3>1
      <4>2. /\ ~o.hw.hint /\ CapturesOver(o.hw)
            /\ Previewing(o.hw) \/ o.ok = TRUE
        <5>1. CASE hw.zsl
          BY <1>0, <3>1, <5>1, PictureStarts DEF CapturesOver
        <5>2. CASE ~hw.zsl
          BY <1>0, <3>1, <5>2, PictureStarts DEF CapturesOver, Careful!LiveCapture
        <5> QED
          BY <5>1, <5>2
      <4>3. \A s : MessagesFit(s, o.hw, [msgs EXCEPT !.delay = TRUE])
        BY <1>0, <4>2 DEF MessagesFit, Kept, Messages
      <4> QED
        BY <1>s, <4>1, <4>2, <4>3, FitsIn, EndsFit
    <3>2. CASE /\ ~hw.hint /\ Careful!LiveCapture
               /\ Careful!Ends(e, Careful!takePicture(hw), "PIC_TAKING", "PREVIEW_STOPPED")
      <4>1. \A o \in Careful!takePicture(hw) : o.ok = TRUE /\ Captures(o.hw)
        BY <1>0, <3>2, PictureStarts DEF Careful!LiveCapture
      <4> QED
        BY <1>s, <3>2, <4>1, FitsIn, OutcomesFit
    <3>3. CASE hw.hint /\ Careful!Ends(e, Careful!takeLiveSnapshot(hw), "PREVIEW_PIC_TAKING", "PREVIEWING")
      <4>1. ASSUME NEW o \in Careful!takeLiveSnapshot(hw)
            PROVE  o.ok = TRUE /\ CapturesOver(o.hw) /\ MessagesFit("PREVIEW_PIC_TAKING", o.hw, msgs)
        <5>1. o.ok = TRUE /\ SameStreams(o.hw, hw)
          BY <1>0, SnapshotsKeep
        <5>2. Previewing(o.hw) /\ o.hw.hint
          BY <1>0, <3>3, <5>1, SameFits DEF SameStreams, SameModes
        <5> QED
          BY <1>s, <3>3, <5>1, <5>2 DEF CapturesOver
      <4>2. \A o \in Careful!takeLiveSnapshot(hw) :
               LET s == IF o.ok THEN "PREVIEW_PIC_TAKING" ELSE "PREVIEWING"
               IN HardwareFits(s, o.hw) /\ MessagesFit(s, o.hw, msgs)
        BY <4>1, FitsIn
      <4> QED
        BY <1>s, <3>3, <4>2, OutcomesFit
    <3> QED
      BY <2>5, <3>1, <3>2, <3>3 DEF Careful!PreviewingTakePicture
  <2>6. CASE Careful!SendLongshotOn(e) \/ Careful!SendLongshotOff(e, m_state)
    BY <2>6, LongshotFits
  <2>7. CASE Careful!Started(e, Careful!Rebuilt(Careful!LongshotOn(hw)), m_state, m_state)
    <3> DEFINE g == Careful!LongshotOn(hw)
    <3>1. g \in Hardware /\ Settled(g) /\ Off(g, "CAPTURE")
      BY <1>0 DEF Careful!LongshotOn, Hardware, Settled, Off
    <3> HIDE DEF g
    <3>2. \A o \in Careful!Rebuilt(g) : o.ok = TRUE /\ o.prepared = TRUE /\ HardwareFits("PREVIEWING", o.hw)
      BY <3>1, Rebuilds, FitsIn
    <3>3. Careful!Started(e, Careful!Rebuilt(g), "PREVIEWING", "PREVIEWING")
      BY <2>7 DEF g
    <3> QED
      BY <1>s, <3>2, <3>3, AppliedOutcomesFit
  <2> QED
    BY <1>2, <2>1, <2>2, <2>3, <2>4, <2>5, <2>6, <2>7 DEF Careful!PreviewingApi
<1>3. CASE Careful!PreviewingEvt(e)
  BY <1>3, RepliesFit DEF Careful!PreviewingEvt
<1> QED
  BY <1>1, <1>2, <1>3

LEMMA PrepareSnapshotFits ==
    ASSUME Fit, m_state = "PREPARE_SNAPSHOT", NEW e,
           Careful!PrepareSnapshotApi(e) \/ Careful!PrepareSnapshotEvt(e)
    PROVE  Fit'
<1>1. CASE \E v : Careful!To("PREVIEWING", hw, msgs, v)
  <2>1. HardwareFits("PREVIEWING", hw) /\ MessagesFit("PREVIEWING", hw, msgs)
    BY FitsIn DEF Fit, CarefulFits, MessagesFit
  <2> QED
    BY <1>1, <2>1, EndsFit DEF States
<1>2. CASE (\E v : Careful!Reply(e, v)) \/ Careful!Ignored \/ \E o : Careful!To(m_state, hw, msgs, o)
  BY <1>2, RepliesFit
<1> QED
  BY <1>1, <1>2 DEF Careful!PrepareSnapshotApi, Careful!PrepareSnapshotEvt

(* The client sends no event that changes modes in the states that follow.  *)
LEMMA PicTakingFits ==
    ASSUME Fit, m_state = "PIC_TAKING", NEW e,
           e \notin {"SET_PARAMS", "LONGSHOT_ON", "LONGSHOT_OFF"},
           Careful!PicTakingSettings(e) \/ Careful!PicTakingApi(e) \/ Careful!PicTakingEvt(e)
    PROVE  Fit'
<1>0. Captures(hw) /\ hw \in Hardware /\ Kept(msgs)
  BY FitsIn DEF Fit, CarefulFits, MessagesFit, Captures, Settled
<1>s. /\ "PREVIEW_STOPPED" \in States /\ "PIC_TAKING" \in States
      /\ \A h : MessagesFit("PREVIEW_STOPPED", h, msgs) /\ MessagesFit("PIC_TAKING", h, msgs)
  BY <1>0 DEF MessagesFit, States
<1>1. CASE \/ (\E v : Careful!Reply(e, v)) \/ Careful!Passed(e) \/ Careful!Ignored
           \/ Careful!EnableMsgs(e) \/ Careful!DisableMsgs(e)
           \/ \E o : Careful!To(m_state, hw, msgs, o)
  BY <1>1, RepliesFit
<1>2. CASE \E o : Careful!To("PREVIEW_STOPPED", Careful!cancelPicture(hw), msgs, o)
  BY <1>0, <1>s, <1>2, CaptureEnds, FitsIn, EndsFit
<1>3. CASE Careful!Ends(e, Careful!longShot(hw), m_state, m_state)
  <2>1. \A o \in Careful!longShot(hw) : HardwareFits("PIC_TAKING", o.hw)
    BY <1>0, SnapshotsKeep, SameFits, FitsIn
  <2> QED
    BY <1>s, <1>3, <2>1, OutcomesFit
<1>4. CASE Careful!Ends(e, {Careful!stopCaptureChannel(hw)}, m_state, m_state)
  <2>1. HardwareFits("PIC_TAKING", Careful!stopCaptureChannel(hw).hw)
    BY <1>0, CaptureEnds, FitsIn
  <2> QED
    BY <1>s, <1>4, <2>1, OutcomesFit
<1>5. CASE Careful!PicTakingSettings(e)
  BY <1>1, <1>5 DEF Careful!PicTakingSettings, Careful!SetParams
<1>6. CASE Careful!PicTakingApi(e)
  BY <1>1, <1>2, <1>3, <1>4, <1>6 DEF Careful!PicTakingApi, Careful!SendLongshotOn, Careful!SendLongshotOff
<1>7. CASE Careful!PicTakingEvt(e)
  BY <1>1, <1>2, <1>7 DEF Careful!PicTakingEvt
<1> QED
  BY <1>5, <1>6, <1>7

LEMMA RecordingFits ==
    ASSUME Fit, m_state = "RECORDING", NEW e,
           e \notin {"SET_PARAMS", "LONGSHOT_ON", "LONGSHOT_OFF"},
           Careful!RecordingSettings(e) \/ Careful!RecordingApi(e) \/ Careful!RecordingEvt(e)
    PROVE  Fit'
<1>0. Records(hw) /\ hw \in Hardware /\ Kept(msgs) /\ ~msgs.delay
  BY FitsIn DEF Fit, CarefulFits, MessagesFit, Records, Streams, Settled
<1>s. /\ "PREVIEW_STOPPED" \in States /\ "PREVIEWING" \in States
      /\ "RECORDING" \in States /\ "VIDEO_PIC_TAKING" \in States
      /\ \A s : \A h : MessagesFit(s, h, msgs)
  BY <1>0 DEF MessagesFit, States
<1>1. CASE \/ (\E v : Careful!Reply(e, v)) \/ Careful!Passed(e) \/ Careful!Ignored
           \/ Careful!EnableMsgs(e) \/ Careful!DisableMsgs(e)
           \/ \E o : Careful!To(m_state, hw, msgs, o)
  BY <1>1, RepliesFit
<1>2. CASE Careful!Ends(e, Careful!takeLiveSnapshot(hw), "VIDEO_PIC_TAKING", "RECORDING")
  <2>1. \A o \in Careful!takeLiveSnapshot(hw) : Records(o.hw)
    BY <1>0, SnapshotsKeep, SameFits
  <2> QED
    BY <1>s, <1>2, <2>1, FitsIn, OutcomesFit
<1>3. CASE Careful!Ends(e, {Careful!stopRecording(hw)}, "PREVIEWING", "PREVIEWING")
  <2>1. HardwareFits("PREVIEWING", Careful!stopRecording(hw).hw)
    BY <1>0, RecordingEnds, FitsIn
  <2> QED
    BY <1>s, <1>3, <2>1, OutcomesFit
<1>4. CASE Careful!To("PREVIEW_STOPPED", Careful!stopPreview(Careful!stopRecording(hw).hw), msgs, Careful!Answer(e, "OK"))
  BY <1>0, <1>s, <1>4, RecordingEnds, FitsIn, EndsFit
<1>5. CASE Careful!RecordingSettings(e)
  BY <1>1, <1>5 DEF Careful!RecordingSettings, Careful!SetParams
<1>6. CASE Careful!RecordingApi(e)
  BY <1>1, <1>2, <1>3, <1>4, <1>6 DEF Careful!RecordingApi, Careful!SendLongshotOn, Careful!SendLongshotOff
<1>7. CASE Careful!RecordingEvt(e)
  BY <1>1, <1>7 DEF Careful!RecordingEvt
<1> QED
  BY <1>5, <1>6, <1>7

LEMMA VideoPicTakingFits ==
    ASSUME Fit, m_state = "VIDEO_PIC_TAKING", NEW e,
           e \notin {"SET_PARAMS", "LONGSHOT_ON", "LONGSHOT_OFF"},
           Careful!VideoPicTakingSettings(e) \/ Careful!VideoPicTakingApi(e) \/ Careful!VideoPicTakingEvt(e)
    PROVE  Fit'
<1> DEFINE c == Careful!cancelLiveSnapshot(hw)
<1>0. Records(hw) /\ hw \in Hardware /\ Kept(msgs) /\ ~msgs.delay
  BY FitsIn DEF Fit, CarefulFits, MessagesFit, Records, Streams, Settled
<1>s. /\ "PREVIEW_STOPPED" \in States /\ "PREVIEWING" \in States
      /\ "RECORDING" \in States /\ "VIDEO_PIC_TAKING" \in States
      /\ \A s : \A h : MessagesFit(s, h, msgs)
  BY <1>0 DEF MessagesFit, States
<1>c. Records(c.hw)
  BY <1>0, SnapshotsKeep, SameFits
<1>1. CASE \/ (\E v : Careful!Reply(e, v)) \/ Careful!Passed(e) \/ Careful!Ignored
           \/ Careful!EnableMsgs(e) \/ Careful!DisableMsgs(e)
  BY <1>1, RepliesFit
<1>2. CASE \E o : Careful!To("RECORDING", c.hw, msgs, o)
  BY <1>c, <1>s, <1>2, FitsIn, EndsFit
<1>3. CASE Careful!Ends(e, {Careful!stopRecording(c.hw)}, "PREVIEWING", "PREVIEWING")
  <2>1. HardwareFits("PREVIEWING", Careful!stopRecording(c.hw).hw)
    BY <1>c, RecordingEnds, FitsIn
  <2> QED
    BY <1>s, <1>3, <2>1, OutcomesFit
<1>4. CASE Careful!Ends(e, {c}, "RECORDING", "RECORDING")
  BY <1>2, <1>4 DEF Careful!Ends
<1>5. CASE Careful!To("PREVIEW_STOPPED", Careful!stopPreview(Careful!stopRecording(c.hw).hw), msgs, Careful!Answer(e, "OK"))
  BY <1>c, <1>s, <1>5, RecordingEnds, FitsIn, EndsFit
<1> HIDE DEF c
<1>6. CASE Careful!VideoPicTakingSettings(e)
  BY <1>1, <1>6 DEF Careful!VideoPicTakingSettings, Careful!SetParams
<1>7. CASE Careful!VideoPicTakingApi(e)
  BY <1>1, <1>3, <1>4, <1>5, <1>7
     DEF Careful!VideoPicTakingApi, Careful!SendLongshotOn, Careful!SendLongshotOff, c
<1>8. CASE Careful!VideoPicTakingEvt(e)
  BY <1>1, <1>2, <1>8 DEF Careful!VideoPicTakingEvt, c
<1> QED
  BY <1>6, <1>7, <1>8

LEMMA PreviewPicTakingFits ==
    ASSUME Fit, m_state = "PREVIEW_PIC_TAKING", NEW e,
           e \notin {"SET_PARAMS", "LONGSHOT_ON", "LONGSHOT_OFF"},
           Careful!PreviewPicTakingSettings(e) \/ Careful!PreviewPicTakingApi(e) \/ Careful!PreviewPicTakingEvt(e)
    PROVE  Fit'
<1> DEFINE c == Careful!CancelCapture
<1>0. CapturesOver(hw) /\ hw \in Hardware /\ Kept(msgs) /\ (hw.hint => ~msgs.delay)
  BY FitsIn, FitsSettled DEF Fit, CarefulFits, MessagesFit
<1>s. /\ "PREVIEW_STOPPED" \in States /\ "PREVIEWING" \in States
      /\ "VIDEO_PIC_TAKING" \in States /\ "PREVIEW_PIC_TAKING" \in States
      /\ \A h : MessagesFit("PREVIEW_STOPPED", h, msgs)
      /\ \A h : \A s : (h.hint => hw.hint) => MessagesFit(s, h, msgs)
  BY <1>0 DEF MessagesFit, States
<1>c. Previewing(c.hw) /\ c.hw.hint = hw.hint /\ (Careful!LiveCapture => hw.hint)
  BY <1>0, CaptureOverEnds
<1> HIDE DEF c
<1>1. CASE \/ (\E v : Careful!Reply(e, v)) \/ Careful!Passed(e) \/ Careful!Ignored
           \/ Careful!EnableMsgs(e) \/ Careful!DisableMsgs(e)
           \/ \E o : Careful!To(m_state, hw, msgs, o)
  BY <1>1, RepliesFit
<1>2. CASE \E o : Careful!To("PREVIEWING", c.hw, msgs, o)
  BY <1>c, <1>s, <1>2, FitsIn, EndsFit
<1>3. CASE Careful!Ends(e, {c}, "PREVIEWING", "PREVIEWING")
  BY <1>2, <1>3 DEF Careful!Ends
<1>4. CASE \E o : Careful!To("PREVIEW_STOPPED", Careful!unpreparePreview(c.hw), msgs, o)
  <2>1. Idle(Careful!unpreparePreview(c.hw))
    BY <1>c, Unprepares DEF Previewing, Streams, Settled, PreviewCh
  <2> QED
    BY <1>s, <1>4, <2>1, FitsIn, EndsFit
<1>5. CASE Careful!LiveCapture /\ Careful!Ends(e, Careful!startRecording(hw), "VIDEO_PIC_TAKING", m_state)
  <2>1. \A o \in Careful!startRecording(hw) : o.ok = TRUE /\ Records(o.hw)
    BY <1>0, <1>c, <1>5, RecordingStarts DEF CapturesOver
  <2>2. \A o \in Careful!startRecording(hw) :
           LET s == IF o.ok THEN "VIDEO_PIC_TAKING" ELSE "PREVIEW_PIC_TAKING"
           IN HardwareFits(s, o.hw) /\ MessagesFit(s, o.hw, msgs)
    BY <1>c, <1>s, <1>5, <2>1, FitsIn
  <2> QED
    BY <1>s, <1>5, <2>2, OutcomesFit
<1>6. CASE Careful!Ends(e, Careful!longShot(hw), m_state, m_state)
  <2>1. \A o \in Careful!longShot(hw) : CapturesOver(o.hw) /\ o.hw.hint = hw.hint
    <3>1. ASSUME NEW o \in Careful!longShot(hw)
          PROVE  SameStreams(o.hw, hw)
      BY <1>0, SnapshotsKeep
    <3>2. ASSUME NEW o \in Careful!longShot(hw)
          PROVE  CapturesOver(o.hw) /\ o.hw.hint = hw.hint
      BY <1>0, <3>1, SameFits DEF SameStreams, SameModes
    <3> QED
      BY <3>2
  <2>2. \A o \in Careful!longShot(hw) :
           HardwareFits("PREVIEW_PIC_TAKING", o.hw) /\ MessagesFit("PREVIEW_PIC_TAKING", o.hw, msgs)
    BY <1>s, <2>1, FitsIn
  <2> QED
    BY <1>s, <1>6, <2>2, OutcomesFit
<1>7. CASE Careful!PreviewPicTakingSettings(e)
  BY <1>1, <1>7 DEF Careful!PreviewPicTakingSettings, Careful!SetParams
<1>8. CASE Careful!PreviewPicTakingApi(e)
  BY <1>1, <1>3, <1>4, <1>5, <1>6, <1>8
     DEF Careful!PreviewPicTakingApi, Careful!SendLongshotOn, Careful!SendLongshotOff, c
<1>9. CASE Careful!PreviewPicTakingEvt(e)
  BY <1>1, <1>2, <1>9 DEF Careful!PreviewPicTakingEvt, c
<1> QED
  BY <1>7, <1>8, <1>9

-----------------------------------------------------------------------------
(* The live snapshot thread leaves every stream but its own alone.          *)
LEMMA LiveThreadFits ==
    ASSUME Fit, Careful!LiveSnapshotStarts \/ Careful!LiveSnapshotFails
    PROVE  Fit'
<1>0. m_state \in States /\ HardwareFits(m_state, hw) /\ MessagesFit(m_state, hw, msgs)
  BY DEF Fit, CarefulFits
<1>h. hw \in Hardware
  BY <1>0, FitsSettled
<1>1. \A g \in Hardware : SameStreams([g EXCEPT !.live = "done"], g)
  BY DEF SameStreams, SameModes, Hardware, Up, ChTypes
<1>2. SameStreams(Careful!SetCh(hw, {"SNAPSHOT"}, "started"), hw)
  BY <1>h, SetChannels DEF SameStreams, Up, ChTypes, ChStatus
<1>3. SameStreams(hw', hw)
  <2>1. CASE Careful!LiveSnapshotFails
    BY <1>h, <1>1, <2>1 DEF Careful!LiveSnapshotFails
  <2>2. CASE Careful!LiveSnapshotStarts
    <3> DEFINE g == Careful!SetCh(hw, {"SNAPSHOT"}, "started")
    <3>1. hw' = [g EXCEPT !.live = "done"]
      BY <2>2 DEF Careful!LiveSnapshotStarts
    <3>2. g \in Hardware
      BY <1>2 DEF SameStreams
    <3> HIDE DEF g
    <3>3. SameStreams(hw', g)
      BY <1>1, <3>1, <3>2
    <3> QED
      BY <1>2, <3>3 DEF SameStreams, SameModes, g
  <2> QED
    BY <2>1, <2>2
<1>4. m_state' = m_state /\ msgs' = msgs
  BY DEF Careful!LiveSnapshotStarts, Careful!LiveSnapshotFails
<1>5. HardwareFits(m_state, hw')
  BY <1>0, <1>3, SameFits
<1>6. MessagesFit(m_state, hw', msgs)
  BY <1>0, <1>3 DEF MessagesFit, SameStreams, SameModes
<1> QED
  BY <1>0, <1>4, <1>5, <1>6 DEF Fit, CarefulFits

(* Every handler of every state, for a client that keeps to the rule. *)
LEMMA HandlersFit ==
    ASSUME Fit, NEW e,
           e \in Careful!ModeEvts => m_state \in {"PREVIEW_STOPPED", "PREVIEW_READY", "PREVIEWING"},
           Careful!stateMachine(e)
    PROVE  Fit'
<1>1. \/ m_state \in {"PREVIEW_STOPPED", "PREVIEW_READY", "PREVIEWING"}
      \/ e \notin {"SET_PARAMS", "LONGSHOT_ON", "LONGSHOT_OFF"}
  BY DEF Careful!ModeEvts
<1> QED
  BY <1>1, StoppedFits, ReadyFits, PreviewingFits, PrepareSnapshotFits, PicTakingFits,
     RecordingFits, VideoPicTakingFits, PreviewPicTakingFits DEF Careful!stateMachine

LEMMA CarefulNextFits ==
    ASSUME Fit, Careful!Next
    PROVE  Fit'
<1>1. ASSUME NEW e, e \in Careful!ModeEvts => m_state \in {"PREVIEW_STOPPED", "PREVIEW_READY", "PREVIEWING"},
             Careful!stateMachine(e)
      PROVE  Fit'
  BY <1>1, HandlersFit
<1>2. ASSUME NEW b \in BOOLEAN, Careful!setRetroPicture(b)
      PROVE  Fit'
  BY <1>2 DEF Careful!setRetroPicture, Fit, CarefulFits
<1> QED
  BY <1>1, <1>2, LiveThreadFits DEF Careful!Next

LEMMA InitFits == Init => Fit
<1> SUFFICES ASSUME Init PROVE Fit
  OBVIOUS
<1>1. Idle(hw)
  BY DEF Init, Idle, Settled, Hardware, ChTypes, ChStatus, Off
<1>2. MessagesFit("PREVIEW_STOPPED", hw, msgs)
  BY DEF Init, MessagesFit, Kept, Messages
<1> QED
  BY <1>1, <1>2, FitsIn DEF Init, Fit, CarefulFits, States

(* The invariant of the careful client; nothing is said of the other one.   *)
LEMMA CarefulInvariant == ClientsSpec => []IInv
<1>1. ClientsInit => IInv
  BY InitFits DEF ClientsInit, IInv, Fit
<1>2. ASSUME IInv, [ClientsNext]_<<vars, careful>>
      PROVE  IInv'
  <2>1. CASE UNCHANGED <<vars, careful>>
    BY <1>2, <2>1 DEF IInv, CarefulFits, vars
  <2>2. CASE ClientsNext
    <3>1. careful' = careful
      BY <2>2 DEF ClientsNext
    <3>2. careful => Careful!Next
      BY <2>2 DEF ClientsNext
    <3>3. careful => Fit'
      BY <1>2, <3>2, CarefulNextFits DEF IInv, Fit
    <3> QED
      BY <3>1, <3>3 DEF IInv, Fit
  <2> QED
    BY <1>2, <2>1, <2>2
<1> QED
  BY <1>1, <1>2, PTL DEF ClientsSpec

(* Where no preview is believed to run, nothing of a capture or a recording  *)
(* that was cut short runs on, whatever the careful client asks and in       *)
(* whatever order.                                                          *)
THEOREM NothingRunsOn == ClientsSpec => []StoppedIsStoppedIfCareful
<1>1. IInv => StoppedIsStoppedIfCareful
  BY FitsIn DEF IInv, CarefulFits, StoppedIsStoppedIfCareful, StoppedIsStopped, Running,
     Ready, Idle, Off
<1> QED
  BY <1>1, CarefulInvariant, PTL

(* One of ZSL, preview and capture streams; a recording has the preview and  *)
(* the snapshot channel it needs, and holds no request for frames back.      *)
THEOREM StreamsFitEachOther == ClientsSpec => []StreamsFit
<1>1. ASSUME IInv, careful
      PROVE  OneStreamingChannel /\ RecordingOverPreview /\ FramesWhileRecording
  <2>1. m_state \in States /\ HardwareFits(m_state, hw) /\ MessagesFit(m_state, hw, msgs)
    BY <1>1 DEF IInv, CarefulFits
  <2>2. \/ Idle(hw) \/ Streams(hw) \/ Captures(hw)
    BY <2>1, FitsIn DEF States, Ready, Previewing, Records, CapturesOver
  <2>3. OneStreamingChannel
    BY <2>2 DEF OneStreamingChannel, Running, Idle, Streams, Captures, Off, ChTypes
  <2>4. Recording => Records(hw)
    BY <2>1, FitsIn DEF Recording
  <2>5. RecordingOverPreview
    BY <2>4 DEF RecordingOverPreview, Running, Records, Streams, Hinted, Off, Up
  <2>6. FramesWhileRecording
    BY <2>1, <2>4 DEF FramesWhileRecording, Recording, Records, MessagesFit, Kept
  <2> QED
    BY <2>3, <2>5, <2>6
<1>2. IInv => StreamsFit
  BY <1>1 DEF StreamsFit
<1> QED
  BY <1>2, CarefulInvariant, PTL
=============================================================================
