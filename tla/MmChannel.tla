------------------------------ MODULE MmChannel ------------------------------
(***************************************************************************)
(* The super buffers of mm-camera-interface: mm_camera_channel.c with the  *)
(* buffer counting of mm_camera_stream.c.  The streams of a channel        *)
(* deliver the frames of one sensor, each stream in its own time and with  *)
(* frames missing.  The channel's command thread puts buffers of one frame *)
(* together, keeps the last super buffers for zero shutter lag, and hands  *)
(* them up when the HAL asks for a picture, by itself deciding when the    *)
(* flash is needed.  The poll thread, the streams' own callback threads    *)
(* and the HAL share the buffers by reference count.                       *)
(***************************************************************************)
EXTENDS Integers, Sequences, FiniteSets, SequencesExt

CONSTANTS
    Streams, Meta,     \* the streams, and the one with metadata
    CbStreams,         \* the streams the HAL has a callback for
    Profiles,          \* the channels the HAL makes: mm_camera_channel_attr_t, and how it uses them
    MetaInfo,          \* what metadata may carry, frames by their distance
    max_future_frame_offset,  \* 100 in the code, small where frames are few
    frame_skip_count,  \* of the good frame range
    MaxFrame,          \* bound: the last frame
    MaxBacklog         \* bound: commands waiting when another is queued

Frames == 0 .. MaxFrame

ASSUME ProfilesAssumption ==
    /\ \A p \in Profiles : /\ p.streams \subseteq Streams /\ p.linked \subseteq p.streams
                          /\ p.notify_mode \in {"BURST", "CONTINUOUS"} /\ p.priority \in {"NORMAL", "LOW"}
                          /\ {p.look_back, p.post_frame_skip, p.water_mark, p.max_unmatched_frames} \subseteq Nat
    /\ Meta \in Streams /\ CbStreams \subseteq Streams
    /\ MaxFrame \in Nat

(* An operation of the HAL is a few commands; a profile names the operations that may come first, second  *)
(* and so on, which bounds their number.  One ends the daemon's snapshot mode itself only where it has    *)
(* just cancelled the picture (CAMERA_CMD_LONGSHOT_OFF).                                                  *)
Operations(p) == UNION {p.operations[k] : k \in DOMAIN p.operations}
Cancels(cmd) == cmd.type = "REQ_DATA_CB" /\ cmd.arg = <<0, 0>>
HalCommands ==
    [type : {"REQ_DATA_CB"}, arg : Nat \X Nat] \cup [type : {"FLUSH_QUEUE"}, arg : Nat]
    \cup [type : {"START_ZSL", "STOP_ZSL", "BRACKETING", "FLASH_BRACKETING", "ZOOM_1X"}, arg : BOOLEAN]

ASSUME OperationsAssumption ==
    \A p \in Profiles : \A op \in Operations(p) :
        /\ op \in Seq(HalCommands)
        /\ \A i \in DOMAIN op : op[i].type = "STOP_ZSL" => i > 1 /\ Cancels(op[i - 1])

VARIABLES
    attr,       \* the profile of the channel
    ch,         \* mm_channel_t, the super buffer queue in it
    cmd_queue,  \* commands for the channel's thread
    last,       \* the last frame each stream delivered
    poll,       \* the buffer the poll thread has yet to queue to the stream's own thread
    app,        \* buffers queued to the streams' own threads, in their callback, and lent to the HAL by it
    commands    \* commands of the HAL so far

vars == <<attr, ch, cmd_queue, last, poll, app, commands>>

Buffer(s, f) == [stream |-> s, frame |-> f]
NoInfo == [prep |-> "absent", good |-> <<>>, crop1x |-> FALSE, divert |-> <<>>]

-----------------------------------------------------------------------------
(* mm_stream_buf_done: a buffer whose count reaches zero goes back to the kernel; one that is there       *)
(* already is refused.                                                                                   *)
buf_done(refcnt, B) ==
    [s \in Streams |-> [f \in Frames |->
        LET n == refcnt[s][f] IN IF Buffer(s, f) \in B /\ n > 0 THEN n - 1 ELSE n]]

qbuf(c, B) == [c EXCEPT !.buf_refcnt = buf_done(@, B)]

(* The buffers of a node of the queue: frame 0 is no buffer. *)
BufsOf(n) == {Buffer(s, n.super_buf[s]) : s \in {t \in attr.streams : n.super_buf[t] # 0}}

(* The nodes from i to j are taken out of the queue, their buffers given back; match_cnt is left to the   *)
(* callers.                                                                                              *)
Discard(c, i, j) ==
    qbuf([c EXCEPT !.queue = SubSeq(@, 1, i - 1) \o SubSeq(@, j + 1, Len(@))],
         UNION {BufsOf(c.queue[k]) : k \in i .. j})

Matched(q) == {i \in DOMAIN q : q[i].matched}
Unmatched(q) == DOMAIN q \ Matched(q)

(* dequeue_internal with matched_only takes the head, and only when it is matched: this is how far it     *)
(* gets.                                                                                                 *)
MatchedFront(q) == {i \in DOMAIN q : \A j \in 1 .. i : q[j].matched}

(* superbuf_bufdone_overflow and superbuf_skip go on until no more than n matched nodes are counted;      *)
(* with an unmatched head they never end, and hold the lock of the queue.                                *)
KeepMatched(c, n) ==
    LET surplus == IF c.match_cnt > n THEN c.match_cnt - n ELSE 0
        taken == Min({surplus, Cardinality(MatchedFront(c.queue))})
    IN [Discard(c, 1, taken) EXCEPT !.match_cnt = @ - taken, !.hangs = @ \/ taken < surplus]

superbuf_bufdone_overflow(c) == IF attr.notify_mode = "CONTINUOUS" THEN c ELSE KeepMatched(c, attr.water_mark)
superbuf_skip(c) == IF attr.notify_mode = "CONTINUOUS" THEN c ELSE KeepMatched(c, attr.look_back)

superbuf_flush(c) ==
    [Discard(c, 1, Len(c.queue)) EXCEPT !.match_cnt = @ - Cardinality(Matched(c.queue))]
superbuf_flush_matched(c) ==
    [Discard(c, 1, Cardinality(MatchedFront(c.queue))) EXCEPT !.match_cnt = @ - Cardinality(MatchedFront(c.queue))]

-----------------------------------------------------------------------------
(* handle_metadata: m is what the metadata of frame f carry.                                             *)
Later(c) == [c EXCEPT !.expected_frame_id = @ + max_future_frame_offset]

Divert(c, f, m) ==
    IF m.divert = <<>> THEN c
    ELSE [c EXCEPT !.diverted_frame_id = IF m.divert[1] >= 0 THEN f + m.divert[1] ELSE 0]

Zoom1x(c, f, m) ==
    IF m.crop1x THEN [c EXCEPT !.isZoom1xFrameRequested = FALSE, !.expected_frame_id = f + 1]
    ELSE superbuf_flush_matched(Later(c))

PrepSnapshotDone(c, m) ==
    CASE m.prep = "absent" -> c
      [] m.prep = "NEED_FUTURE_FRAME" ->
            [superbuf_flush(Later(c)) EXCEPT !.bWaitForPrepSnapshotDone = FALSE, !.needLEDFlash = TRUE]
      [] OTHER -> [c EXCEPT !.bWaitForPrepSnapshotDone = FALSE, !.needLEDFlash = FALSE]

(* The frames with the flash on: the range the metadata announce. *)
GoodFrameRange(c, f, m) ==
    CASE m.good # <<>> /\ c.needLEDFlash /\ c.burstSnapNum > 1 ->
            [c EXCEPT !.led_off_start_frame_id = f + m.good[2], !.once = FALSE]
      [] m.good = <<>> /\ c.bracketingState = "WAIT_GOOD_FRAME_IDX" /\ m.prep = "absent" ->
            Later(superbuf_flush_matched(c))
      [] OTHER -> c

ExpectRange(c, f, m) ==
    CASE m.good = <<>> -> c
      [] m.good # <<>> /\ c.isFlashBracketingEnabled ->
            [c EXCEPT !.expected_frame_id = f + m.good[1], !.expected_frame_id_without_led = f + m.good[2]]
      [] OTHER -> [c EXCEPT !.expected_frame_id = f + m.good[1], !.bracketingState = "ACTIVE"]

(* A burst with flash: from the frame with the flash off the rest is taken without. *)
LedOff(c, f) ==
    IF /\ c.burstSnapNum > 1 /\ c.needLEDFlash /\ ~c.isFlashBracketingEnabled /\ c.bracketingState = "OFF"
       /\ f >= c.led_off_start_frame_id /\ ~c.once
    THEN [c EXCEPT !.expected_frame_id = c.led_off_start_frame_id + frame_skip_count, !.once = TRUE,
                   !.stopZslSnapshot = TRUE, !.needLEDFlash = FALSE]
    ELSE c

handle_metadata(c, f, m) ==
    LET d == Divert(c, f, m)
    IN IF d.isZoom1xFrameRequested THEN Zoom1x(d, f, m)
       ELSE LedOff(ExpectRange(GoodFrameRange(PrepSnapshotDone(d, m), f, m), f, m), f)

-----------------------------------------------------------------------------
(* comp_and_enqueue: the buffer of stream s with frame f meets the queue.                                 *)

(* An unmatched node takes the buffer: the frames agree, or, with low priority, the metadata stand in for  *)
(* the frame next to them.                                                                                *)
Takes(c, n, s, f) ==
    /\ ~n.matched
    /\ \/ n.frame_idx = f
       \/ s = Meta /\ c.nomatch_frame_id # 0 /\ c.nomatch_frame_id <= f /\ n.super_buf[s] = 0
       \/ s # Meta /\ attr.priority = "LOW" /\ n.super_buf[s] = 0 /\ n.frame_idx > f

FirstOf(I) == IF I = {} THEN <<>> ELSE <<Min(I)>>

Older(c, f) == {i \in Unmatched(c.queue) : c.queue[i].frame_idx < f}
Newer(c, f) == {i \in Unmatched(c.queue) : c.queue[i].frame_idx > f}

(* The diverted frame is waited for: the node is spared when too many are unmatched.                      *)
Spare(c, i, f) ==
    IF c.diverted_frame_id = f
    THEN [c EXCEPT !.queue[i].expected = TRUE, !.diverted_frame_id = 0] ELSE c

(* The next frame wanted after one that is complete. *)
ExpectNext(c, f) ==
    IF c.isFlashBracketingEnabled
    THEN [c EXCEPT !.expected_frame_id = c.expected_frame_id_without_led,
                   !.isFlashBracketingEnabled = f < c.expected_frame_id_without_led]
    ELSE [c EXCEPT !.expected_frame_id = f + attr.post_frame_skip]

(* The slip leaves the unmatched nodes that are too old where they are. *)
Slip_Complete(c, i, f, older) ==
    [ExpectNext(c, f) EXCEPT !.queue[i].matched = TRUE, !.queue[i].expected = FALSE, !.match_cnt = @ + 1]

(* The node is complete; everything from the oldest unmatched node up to it is given back. *)
Complete(c, i, f, older) ==
    LET d == [ExpectNext(c, f) EXCEPT !.queue[i].matched = TRUE, !.queue[i].expected = FALSE,
                                      !.match_cnt = @ + 1]
    IN IF older = <<>> THEN d ELSE Discard(d, older[1], i - 1)

AddTo(c0, i, s, f) ==
    LET c == [c0 EXCEPT !.nomatch_frame_id = 0]
        d == [c EXCEPT !.queue[i].super_buf[s] = f]
        older == FirstOf({j \in Older(c, f) : j < i})
    IN IF c.queue[i].super_buf[s] # 0 THEN qbuf(c, {Buffer(s, f)})
       ELSE IF \A t \in attr.streams : d.queue[i].super_buf[t] # 0 THEN Complete(d, i, f, older)
       ELSE Spare(d, i, f)

(* The slip lets unmatched nodes pile up. *)
Slip_MakeRoom(c, older, newer) == c

(* One node makes room: the first from the oldest on that is not spared, whatever it is, or the oldest.   *)
(* A second turn of the loop would go on from a freed node.                                              *)
MakeRoom(c, older, newer) ==
    LET surplus == Cardinality(Unmatched(c.queue)) > attr.max_unmatched_frames
        free == {i \in DOMAIN c.queue : i >= older[1] /\ ~c.queue[i].expected /\ (newer = <<>> \/ i # newer[1])}
        victim == IF free = {} THEN older[1] ELSE Min(free)
    IN IF ~surplus THEN c
       ELSE [Discard(c, victim, victim) EXCEPT
                !.hangs = @ \/ Cardinality(Unmatched(c.queue)) > attr.max_unmatched_frames + 1]

EmptyNode == [frame_idx |-> 0, super_buf |-> [s \in Streams |-> 0], matched |-> FALSE, expected |-> FALSE]

(* A node of its own, before the first newer one; complete when there is but one stream. *)
NewNode(c, s, f) ==
    LET alone == attr.streams = {s}
        node == [EmptyNode EXCEPT !.frame_idx = f, !.super_buf[s] = f]
        newer == FirstOf(Newer(c, f))
        at == IF newer = <<>> THEN Len(c.queue) + 1 ELSE newer[1]
        d == Spare([c EXCEPT !.queue = InsertAt(@, at, node)], at, f)
        e == IF alone THEN [d EXCEPT !.queue[at].matched = TRUE, !.queue[at].expected = FALSE,
                                     !.match_cnt = @ + 1, !.expected_frame_id = f + attr.post_frame_skip]
             ELSE d
    IN IF attr.priority = "LOW" /\ s # Meta THEN [e EXCEPT !.nomatch_frame_id = f] ELSE e

Enqueue(c, s, f) ==
    LET taker == FirstOf({i \in DOMAIN c.queue : Takes(c, c.queue[i], s, f)})
        older == FirstOf(Older(c, f))
    IN IF taker # <<>> THEN AddTo(c, taker[1], s, f)
       ELSE IF older = <<>> /\ Cardinality(Unmatched(c.queue)) > attr.max_unmatched_frames
       THEN qbuf(c, {Buffer(s, f)})
       ELSE NewNode(MakeRoom(c, older, FirstOf(Newer(c, f))), s, f)

(* A stream's frame 0, given back at once, is left out. *)
superbuf_comp_and_enqueue(c0, s, f, m) ==
    LET c == IF s = Meta /\ s \notin attr.linked THEN handle_metadata(c0, f, m) ELSE c0
        late == s = Meta /\ c.nomatch_frame_id > f
    IN IF f < c.expected_frame_id \/ late THEN qbuf(c, {Buffer(s, f)})
       ELSE Enqueue(c, s, f)

-----------------------------------------------------------------------------
(* mm_channel_process_stream_buf, on the channel's command thread.                                       *)
StartZsl(c) == [c EXCEPT !.zsl = TRUE]
StopZsl(c) == [c EXCEPT !.zsl = FALSE]

Request(c, num, retro) ==
    LET r == IF num = 0 \/ retro > num THEN num ELSE retro
    IN superbuf_skip([c EXCEPT !.pending_cnt = num, !.pending_retro_cnt = r, !.stopZslSnapshot = FALSE,
                               !.bWaitForPrepSnapshotDone = FALSE, !.needLEDFlash = @ /\ r = 0])

Bracketing(c, start) ==
    [superbuf_flush(c) EXCEPT !.bracketingState = IF start THEN "WAIT_GOOD_FRAME_IDX" ELSE "OFF"]
FlashBracketing(c, start) == [superbuf_flush(c) EXCEPT !.isFlashBracketingEnabled = start]
ZoomOneX(c, start) == [superbuf_flush(c) EXCEPT !.isZoom1xFrameRequested = start]

Execute(c, cmd, m) ==
    CASE cmd.type = "DATA_CB" -> superbuf_comp_and_enqueue(c, cmd.arg.stream, cmd.arg.frame, m)
      [] cmd.type = "REQ_DATA_CB" -> Request(c, cmd.arg[1], cmd.arg[2])
      [] cmd.type = "START_ZSL" -> [StartZsl(c) EXCEPT !.manualZSLSnapshot = TRUE]
      [] cmd.type = "STOP_ZSL" -> [StopZsl(c) EXCEPT !.manualZSLSnapshot = FALSE]
      [] cmd.type = "FLUSH_QUEUE" -> superbuf_flush([c EXCEPT !.expected_frame_id = cmd.arg])
      [] cmd.type = "BRACKETING" -> Bracketing(c, cmd.arg)
      [] cmd.type = "FLASH_BRACKETING" -> FlashBracketing(c, cmd.arg)
      [] cmd.type = "ZOOM_1X" -> ZoomOneX(c, cmd.arg)

(* The daemon's snapshot mode ends with the request, or with the frames that have the flash on. *)
Ended(c) ==
    (c.pending_cnt = 0 \/ c.stopZslSnapshot) /\ ~c.manualZSLSnapshot /\ c.startZSlSnapshotCalled
EndZsl(c) ==
    [StopZsl(c) EXCEPT !.startZSlSnapshotCalled = FALSE, !.needLEDFlash = FALSE, !.burstSnapNum = 0,
                       !.stopZslSnapshot = FALSE, !.bracketingState = "OFF"]

FlashControl(c) ==
    CASE /\ c.pending_cnt > 0 /\ (c.needLEDFlash \/ c.bracketingState # "OFF")
         /\ ~c.manualZSLSnapshot /\ ~c.startZSlSnapshotCalled ->
            [StartZsl(c) EXCEPT !.startZSlSnapshotCalled = TRUE, !.burstSnapNum = c.pending_cnt,
                                !.bWaitForPrepSnapshotDone = FALSE]
      [] Ended(c) -> [EndZsl(c) EXCEPT !.bWaitForPrepSnapshotDone = FALSE]
      [] OTHER -> c

(* The slip leaves the snapshot mode on after the last frame. *)
Slip_CountDown(c) ==
    [c EXCEPT !.pending_cnt = @ - 1, !.pending_retro_cnt = IF @ > 0 THEN @ - 1 ELSE 0,
              !.bWaitForPrepSnapshotDone = @ \/ c.pending_retro_cnt = 1]

(* One super buffer of a burst: after the last retro-active one the channel waits for the hardware.       *)
CountDown(c) ==
    LET d == [c EXCEPT !.pending_cnt = @ - 1, !.pending_retro_cnt = IF @ > 0 THEN @ - 1 ELSE 0,
                       !.bWaitForPrepSnapshotDone = @ \/ c.pending_retro_cnt = 1]
    IN IF Ended(d) THEN EndZsl(d) ELSE d

(* superbuf_dequeue, and the super buffer goes to the callback thread. *)
HandUp(c) ==
    LET d == IF attr.notify_mode = "BURST" THEN CountDown(c) ELSE c
    IN IF /\ c.pending_cnt > 0 \/ attr.notify_mode = "CONTINUOUS"
          /\ ~c.bWaitForPrepSnapshotDone /\ c.queue # <<>> /\ Head(c.queue).matched
       THEN [d EXCEPT !.queue = Tail(@), !.match_cnt = @ - 1, !.up = Append(@, Head(c.queue).super_buf)]
       ELSE c

Dispatch(c) ==
    LET turn[k \in 0 .. Len(c.queue)] == IF k = 0 THEN c ELSE HandUp(turn[k - 1])
    IN turn[Len(c.queue)]

mm_channel_process_stream_buf(c, cmd, m) ==
    LET d == Execute(c, cmd, m)
    IN IF cmd.type = "FLUSH_QUEUE" THEN d ELSE Dispatch(superbuf_bufdone_overflow(FlashControl(d)))

ProcessCommand ==
    /\ cmd_queue # <<>> /\ ~ch.hangs
    /\ \E m \in IF Head(cmd_queue).type = "DATA_CB" /\ Head(cmd_queue).arg.stream = Meta
                THEN MetaInfo ELSE {NoInfo} :
           ch' = mm_channel_process_stream_buf(ch, Head(cmd_queue), m)
    /\ cmd_queue' = Tail(cmd_queue)
    /\ UNCHANGED <<attr, last, poll, app, commands>>

-----------------------------------------------------------------------------
(* Buffers a stream is given: getBufNumRequired with one snapshot. *)
CAMERA_MIN_STREAMING_BUFFERS == 3
CAMERA_MIN_JPEG_ENCODING_BUFFERS == 2
EXTRA_ZSL_PREVIEW_STREAM_BUF == 2
CAMERA_PPROC_OUT_BUFFER_MULTIPLIER == 2

getBufNumRequired(s) ==
    CASE attr.notify_mode = "BURST" /\ s = Meta ->
            attr.water_mark + attr.max_unmatched_frames + CAMERA_MIN_JPEG_ENCODING_BUFFERS
            + EXTRA_ZSL_PREVIEW_STREAM_BUF
      [] attr.notify_mode = "BURST" /\ s # Meta -> attr.water_mark + CAMERA_MIN_STREAMING_BUFFERS
      [] attr.notify_mode # "BURST" /\ s = Meta ->
            1 + attr.max_unmatched_frames + CAMERA_MIN_STREAMING_BUFFERS
      [] OTHER -> CAMERA_PPROC_OUT_BUFFER_MULTIPLIER

Away(s) == {f \in Frames : ch.buf_refcnt[s][f] > 0}
HasKernelBuffer(s) == Cardinality(Away(s)) < getBufNumRequired(s)

(* mm_stream_data_notify, and handle_rcvd_buf as far as the channel's queue: a frame of stream s, maybe   *)
(* with others lost before it.                                                                           *)
mm_stream_data_notify(s) ==
    /\ poll = <<>> /\ s \in attr.streams /\ HasKernelBuffer(s) /\ Len(cmd_queue) < MaxBacklog
    /\ \E f \in Frames :
        /\ f > last[s]
        /\ last' = [last EXCEPT ![s] = f]
        /\ ch' = [ch EXCEPT !.buf_refcnt[s][f] = 1 + IF s \in CbStreams THEN 1 ELSE 0]
        /\ cmd_queue' = Append(cmd_queue, [type |-> "DATA_CB", arg |-> Buffer(s, f)])
        /\ poll' = IF s \in CbStreams THEN <<Buffer(s, f)>> ELSE <<>>
    /\ UNCHANGED <<attr, app, commands>>

(* The rest of handle_rcvd_buf: the buffer for the stream's own thread. *)
NotifyStream ==
    /\ poll # <<>>
    /\ app' = app \cup {[buf |-> poll[1], at |-> "queue"]}
    /\ poll' = <<>>
    /\ UNCHANGED <<attr, ch, cmd_queue, last, commands>>

(* The slip counts no reference for the callback: the thread's own is the HAL's. *)
Slip_Callback(x) ==
    /\ x.at = "queue" /\ \A y \in app : y.buf.stream = x.buf.stream => y.at # "callback"
    /\ app' = (app \ {x}) \cup {[x EXCEPT !.at = "callback"], [x EXCEPT !.at = "HAL"]}
    /\ UNCHANGED <<attr, ch, cmd_queue, last, poll, commands>>

(* mm_stream_dispatch_app_data: a reference for the callback, the callback, and the thread's own          *)
(* reference given back.                                                                                 *)
Callback(x) ==
    /\ x.at = "queue" /\ \A y \in app : y.buf.stream = x.buf.stream => y.at # "callback"
    /\ \A y \in app : y.buf.stream = x.buf.stream /\ y.at = "queue" => y.buf.frame >= x.buf.frame
    /\ ch' = [ch EXCEPT !.buf_refcnt[x.buf.stream][x.buf.frame] = @ + 1]
    /\ app' = (app \ {x}) \cup {[x EXCEPT !.at = "callback"], [x EXCEPT !.at = "HAL"]}
    /\ UNCHANGED <<attr, cmd_queue, last, poll, commands>>

(* The buffer leaves its holder: the stream's thread after the callback, or the HAL. *)
LetGo(x) ==
    /\ x.at # "queue"
    /\ ch' = qbuf(ch, {x.buf})
    /\ app' = app \ {x}
    /\ UNCHANGED <<attr, cmd_queue, last, poll, commands>>

BuffersIn(sb) == {Buffer(s, sb[s]) : s \in {t \in attr.streams : sb[t] # 0}}

(* The HAL is done with a super buffer. *)
ReturnSuperBuf(i) ==
    /\ ch' = [qbuf(ch, BuffersIn(ch.up[i])) EXCEPT !.up = RemoveAt(@, i)]
    /\ UNCHANGED <<attr, cmd_queue, last, poll, app, commands>>

(* takePicture, cancelPicture and the rest, each a few commands in a row. *)
Operate ==
    /\ commands + 1 \in DOMAIN attr.operations
    /\ \E op \in attr.operations[commands + 1] : cmd_queue' = cmd_queue \o op
    /\ commands' = commands + 1
    /\ UNCHANGED <<attr, ch, last, poll, app>>

Init ==
    /\ attr \in Profiles
    /\ ch = [queue |-> <<>>, match_cnt |-> 0, expected_frame_id |-> 0, expected_frame_id_without_led |-> 0,
             nomatch_frame_id |-> 0, diverted_frame_id |-> 0, led_off_start_frame_id |-> 0, once |-> FALSE,
             pending_cnt |-> 0, pending_retro_cnt |-> 0, bWaitForPrepSnapshotDone |-> FALSE,
             needLEDFlash |-> FALSE, bracketingState |-> "OFF", isFlashBracketingEnabled |-> FALSE,
             isZoom1xFrameRequested |-> FALSE, manualZSLSnapshot |-> FALSE, startZSlSnapshotCalled |-> FALSE,
             burstSnapNum |-> 0, stopZslSnapshot |-> FALSE, zsl |-> FALSE,
             buf_refcnt |-> [s \in Streams |-> [f \in Frames |-> 0]], up |-> <<>>, hangs |-> FALSE]
    /\ cmd_queue = <<>> /\ last = [s \in Streams |-> 0] /\ poll = <<>> /\ app = {} /\ commands = 0

Next ==
    \/ ProcessCommand
    \/ \E s \in Streams : mm_stream_data_notify(s)
    \/ NotifyStream
    \/ \E x \in app : Callback(x) \/ LetGo(x)
    \/ \E i \in DOMAIN ch.up : ReturnSuperBuf(i)
    \/ Operate

Spec == Init /\ [][Next]_vars

-----------------------------------------------------------------------------
Carries(cmd, b) == cmd.type = "DATA_CB" /\ cmd.arg = b

(* How often the buffer is somewhere: waiting for the channel's thread, in its queue, handed up, or with  *)
(* the stream's own thread and the HAL.                                                                  *)
Holders(b) ==
    Cardinality({i \in DOMAIN cmd_queue : Carries(cmd_queue[i], b)})
    + Cardinality({i \in DOMAIN ch.queue : b \in BufsOf(ch.queue[i])})
    + Cardinality({i \in DOMAIN ch.up : b \in BuffersIn(ch.up[i])})
    + Cardinality({x \in app : x.buf = b}) + Cardinality({i \in DOMAIN poll : poll[i] = b})

(* A buffer is back with the kernel when the last of its holders gave it back, and not before: whatever   *)
(* the order in which the channel, the stream's thread and the HAL are done with it, its count is the     *)
(* number of those who still read it.                                                                    *)
BuffersAccounted ==
    \A s \in Streams : \A f \in Frames \ {0} : ch.buf_refcnt[s][f] = Holders(Buffer(s, f))

(* A super buffer handed up is of one frame, and of a later one than those before it, those still in the  *)
(* queue included, however late a stream delivers; complete ones stand first in the queue and are         *)
(* counted, so that the loops that take them end.                                                        *)
SuperBufsInOrder ==
    /\ ~ch.hangs /\ ch.match_cnt = Cardinality(Matched(ch.queue))
    /\ attr.priority = "NORMAL" =>
        /\ Matched(ch.queue) = 1 .. ch.match_cnt
        /\ LET all == ch.up \o [i \in 1 .. ch.match_cnt |-> ch.queue[i].super_buf]
           IN /\ \A i \in DOMAIN all : \A s, t \in attr.streams : all[i][s] = all[i][t] /\ all[i][s] # 0
              /\ \A i, j \in DOMAIN all : \A s \in attr.streams : i < j => all[i][s] < all[j][s]

(* What waits in the queue, for a frame that is lost or for a picture, stays within the water mark and the *)
(* unmatched frames allowed, one more at most, and so never holds every metadata buffer: the sensor can   *)
(* go on, whichever frames each stream loses.                                                            *)
StreamsKeepRunning ==
    /\ Cardinality(Unmatched(ch.queue)) <= attr.max_unmatched_frames + 1
    /\ Cardinality(Matched(ch.queue)) <= IF attr.notify_mode = "BURST" THEN attr.water_mark ELSE 0
    /\ Len(ch.queue) < getBufNumRequired(Meta)

(* The daemon is in snapshot mode, flash and all, exactly while the channel believes so, and only for a   *)
(* picture that is still to come or by the HAL's own order: no cancel, no end of the flash range and no    *)
(* bracketing leaves it there.                                                                           *)
ZslHasOwner ==
    ~ch.manualZSLSnapshot =>
        /\ ch.zsl = ch.startZSlSnapshotCalled
        /\ ch.zsl => ch.pending_cnt > 0 /\ ~ch.stopZslSnapshot
=============================================================================
