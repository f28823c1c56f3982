# Verification of the OnePlus 2 device tree: camera HALs, GPS data connections, IP accelerator

The repository builds the device-specific part of Android for the OnePlus 2. Most of it is
configuration, vendored headers and thin wrappers over ioctls and sockets. Four parts carry concurrent
or stateful logic of their own, and are what this directory is about:

* the **camera HAL** (`src/camera/QCamera2/HAL`): application and service threads call a state machine
  that runs on a thread of its own, drives the channels of the camera daemon, and is called back by
  the daemon, a notifier thread, a live snapshot thread and a post-processor with its own threads; the
  interface library under it (`stack/mm-camera-interface`) makes its super buffers on threads of its own;
* the **camera HAL3** (`src/camera/QCamera2/HAL3`): a list of capture requests answered piecemeal by
  metadata and image callbacks, with a client that is held back by a count of what is in flight;
* the **AGPS machine** (`src/gps/loc_api/libloc_api_50001/loc_eng_agps.cpp`): shares one network
  interface among subscribers of the modem, through the Android framework, which answers in its own
  time;
* the **IP accelerator manager** (`src/data-ipa-cfg-mgr`): keeps tables of the hardware (NAT rules,
  routes, filters) in step with connections and clients that come, sleep and go.

This file says what the parts are, what is modelled, what TLC checks, what TLAPS proves, and what is
left.

## 1. Inventory

### Modelled in part or whole

| Component | State | Operations | What makes it correct |
|---|---|---|---|
| Camera state machine (`QCameraStateMachine.cpp`) | `m_state` (8 states), `m_bDelayPreviewMsgs`, delayed message | one function per state, a `switch` over some 60 requests and events | what it believes (recording, previewing, stopped) is what the channels do; every request is answered once; a message request survives captures |
| Camera channels and modes (`QCamera2HWI.cpp`) | `m_channels[]`, ZSL mode, recording hint, long shot, window, live snapshot thread | prepare/start/stop preview, recording, take/cancel picture, live snapshot, parameter commit | the ZSL, preview and capture channels exclude each other; a failed step leaves no stream behind; the live thread is joined |
| API rendezvous (`lockAPI`, `processAPI`, `waitAPIResult`, `signalAPIResult`, `processEvt`, `processSyncEvt`, `smEvtProcRoutine`) | `m_lock`, `m_cond`, `m_apiResultList`, the two queues, `cmd_sem` | a call; a daemon event; the dequeue, the handler, the signal | every call gets its own answer and returns; payloads on a caller's stack live until they are used; the semaphore counts the commands |
| Post-processor (`QCameraPostProc.cpp`), its queues and threads (`QCameraQueue`, `QCameraCmdThread`), the snapshot side of the notifier (`QCameraCbNotifier`) | six job queues, four command queues, the reprocess channels' buffers, the jpeg library's jobs | start, stop, a frame, a reprocessed frame, the next job, a finished jpeg, a saved picture, a delivered picture | each buffer has one owner and comes home; a reprocessed picture meets its own job; work is never left without a command that makes it; a capture ends |
| Super buffers (`mm_camera_channel.c`, buffer counts of `mm_camera_stream.c`) | the queue of half and fully matched nodes, the frame expected next, what is requested, flash and bracket flags, a reference count per buffer | a frame of a stream; request, cancel, bracket, zoom, flush, snapshot mode; a callback, a buffer given back | every reader of a buffer is counted; super buffers are of one frame and in order; lost frames do not stop the sensor; the daemon's snapshot mode ends |
| HAL3 requests (`QCamera3HWI.cpp`) | pending requests, pending buffers, dropped frames, kept reprocess results, the in-flight count | processCaptureRequest, the metadata and buffer callbacks, flush, configureStreams | each buffer is returned once, each shutter in order; the count is right and the client is let through |
| AGPS machine (`AgpsStateMachine` and its states) | state, subscriber list with the active flag, message queue | subscribe, unsubscribe, granted, released, denied | state and list agree; every subscriber is told what holds; every request is answered |
| NAT cache and NAT table (`IPACM_Conntrack_NATApp.cpp`, `IPACM_ConntrackListener.cpp`, `ipa_nat_drvi.c`) | the cache and its temporary entries, the power save list; two chained hash tables shared with hardware | uplink up and down, connection seen and closed, client added, gone, asleep, awake; add and delete a rule | a handle names its own rule; nothing leaks; the hardware finds every rule at every moment |

How they interact. *Camera*: an application thread takes `m_lock`, queues a command, posts the semaphore
and sleeps on `m_cond` (which gives `m_lock` back). The state machine thread takes one post, one
command, API queue first, and runs the handler of the current state, which calls the channel
operations synchronously and signals results by name of request. `PREPARE_SNAPSHOT`, and
`TAKE_PICTURE` with retro-active frames, are not answered by their own handler but by a later event.
The daemon's events come through the event queue. A poll thread takes the streams' frames from the
kernel; the channel's thread puts those of one frame together, and a third thread hands what was asked
for to the HAL. Frames of the ZSL channel come so into the post-processor's queues; its data thread sends them to the jpeg library or to a reprocess channel,
whose thread brings them back; finished jpegs come back as events of the state machine and go to the
notifier (or the save thread, then the notifier), which reports the last one with `SNAPSHOT_DONE` and
waits until that is handled. *HAL3*: one mutex over everything but the wait of the client and the time
flush stops the channels. *AGPS*: one handler thread fed by a message queue; modem, framework and engine
put messages in. *NAT*: a thread for events and one for conntrack messages, serialised by a mutex,
over tables the accelerator walks on its own.

Hard behaviours: several clients on one condition variable with results matched only by name; enqueue
and post in two steps; API commands overtaking events; the daemon dying under a waiting client; a
capture cancelled while its frames are on five threads; wake-ups that only happen at certain places;
pairing by order; metadata lost or out of step with images; commands refused in the middle of a
multi-step operation; modes that are pending while a capture or recording runs; stale answers from
the framework; a table changed write by write under a reader that takes no lock. Each has a line in
`PROJECT.json` (`hazards`), those that no property covers with the reason.

### Not modelled

| Component | Why |
|---|---|
| Raw, metadata and preview callbacks of the notifier; HDR, UbiFocus and bracketing in the post-processor | variants over the same queues; section 6 |
| `DSStateMachine` of the AGPS code | retries on a timer thread: needs the timer model below it |
| `msg_q`, `LocTimer`, `linked_list` | a condition queue and a list; the destroy-while-reading protocol of the queue is left to a later module |
| `loc_eng_ni`, GPS engine and adapters | one response timer per session; message dispatchers |
| Start and stop of channels and streams in mm-camera-interface; mm-jpeg-interface | ioctl and socket I/O in a fixed order: `CameraStateMachine` takes a start or stop whole, `PostProc` the jpeg library's answers as events |
| IPACM beyond NAT | interface, route and filter bookkeeping in three large classes of one pattern; `IPACM_LanToLan.cpp` is not even in this build (`ipacm/src/Android.mk` leaves it out) |
| Lights, fingerprint, doze, key handling, recovery, build files | no concurrency or protocol of their own |

## 2. Modules

| Module | Models |
|---|---|
| `CameraStateMachine` | the state machine's eight `procEvt...` functions and the channel operations they call; one command at a time, any command in any state |
| `CameraApi` (extends it) | the clients, the lock, the queues, the semaphore, the condition, the daemon, the notifier, the live snapshot thread |
| `PostProc` | the post-processor with its data and save threads, the reprocess channels, the jpeg library, the notifier's snapshots, and the capture that starts, cancels and ends them |
| `MmChannel` | the super buffer queue of a channel and the counts of its buffers: streams, poll thread, the channel's and the streams' threads, the HAL |
| `QCamera3Requests` | HAL3's requests, buffers, metadata, flush and configuration |
| `AgpsStateMachine` | the AGPS machine for the SUPL, WWAN_ANY and WIFI interfaces, its message queue, the framework as an external |
| `NatTable` | abstract: what a NAT table promises: both directions at once, gone in order, nobody else disturbed |
| `IpaNat` | the rule and index tables, write by write, and what the hardware finds in between |
| `NatApp` (extends it) | the cache of connections, power saving, the uplink; shown to implement `NatTable` |
| `CameraStateMachine_proofs`, `CameraApi_proofs`, `AgpsStateMachine_proofs`, `QCamera3Requests_proofs`, `NatApp_proofs`, `MCCameraStateMachine_proofs`, `MmChannel_proofs`, `PostProc_proofs` | the TLAPS proofs |
| `PostProcSteps` | the steps of `PostProc` told flat, for its proofs; `PostProc_proofs` shows that each action implies its predicate |
| `MC...` | values for the constants; `MCCameraStateMachine` chooses between two clients in the initial state |

A definition whose name starts with `Slip_` is no part of a model. It is the definition that follows
it with a plausible bug in it, kept so that each property can be seen to notice one
(`PROJECT.json`, `mutants`).

### CameraStateMachine

* `m_state` is the member of the same name.
* `hw.ch[t]` says whether `m_channels[t]` is null, added or started (`addChannel`, `startChannel`,
  `stopChannel`, `delChannel`). `hw.zsl`, `hw.hint` are the modes in force; `zslNew`, `hintNew`,
  `hintPend` what `updateParameters` parsed into the pending batch, `hintStr` the recording hint in
  the parameter map; `commitParameterChanges` moves them. They are read from
  `QCameraParameters.cpp` (`setZslMode`, `setRecordingHint`, `updateParameters`, `commitParameters`,
  `updateRecordingHintValue`). `hw.live` is the live snapshot thread: none, running, or done and not
  yet joined.
* A channel operation is an operator from a hardware record to the set of its outcomes, each with
  its return code; `Then` is the `if (rc == NO_ERROR)` between two of them. With `HwMayFail` every
  step the daemon is asked for may be refused, and what was done before stays done, or is undone
  where the code undoes it. `LiveMayFail` is the same for the live snapshot thread, whose start of
  the post-processor, rotation setup and start of the channel can each fail.
* `msgs` holds the PREVIEW_FRAME message: enabled, delayed (`m_delayedMsgs`), the flag that says
  whether it is delayed, and what the client last asked (a ghost).
* `out` is what the handler signals: the API results in order, whether an event result is signalled,
  and whether it queued `SNAPSHOT_DONE` itself.
* `XxxSettings(e)`, `XxxApi(e)`, `XxxEvt(e)` are the cases of the function of state Xxx, one disjunct
  per group of cases; `stateMachine(e)` is the dispatch.

Requests that only pass through to the parent (callbacks, `PUT_PARAMS`, `DUMP`, auto focus...) and are
answered without touching this state are all `GET_PARAMS`. Events that are only logged or passed on
are left out. Of the message types only PREVIEW_FRAME matters to the machine.

### CameraApi

Program counters stand for the places where a thread can be overtaken. A client is `idle`, `enqueued`
(in the queue, semaphore not posted, `m_lock` held), `posted`, `waiting` (asleep, lock given back) or
`woken`. The state machine thread is at `wait`, `dequeue`, `handle`, `signal`; the handler's signals
are delivered one at a time under `m_lock`. `unposted` counts the other HAL threads between enqueue and
post. `take_picture` is the call of that name: two requests under one hold of the lock, in an order
that depends on retro-active frames. `owed` is external: the reports the daemon and the capture
pipeline still owe, with the order `mm_camera_channel.c` (218-232, 335-394) imposes on the frames.
A `SNAPSHOT_DONE` result, which no call waits for, is left out of `m_apiResultList`; in the code it
stays there until the HAL is closed (part of a hazard's note).

### PostProc

One picture, or one long shot, after the other: `Start` is `takePicture` in ZSL mode (the deferred work
thread adds the reprocess channels and starts the data thread), `CancelPicture` and `SnapshotDone` lead
through `stop` to `Stopped`. A super buffer is a record of its channel (0 is ZSL, i the i-th reprocess
channel) and the frame whose picture it holds; `home`, `queued` say how many buffers each channel has.
The six `m_...Q` variables are the queues of the same names with their `active` flag; `dataCmds`,
`saveCmds`, `noteCmds` are the command queues of `QCameraCmdThread`, `stop` and the notifier's `start`
in front of everything, as `priority` asks for; `dataSync`, `saveSync` their `sync_sem`.
`releaseSuperBufs` is `releaseSuperBuf` for what a step gives back.

What is one step: everything a thread does between two places where another thread could tell. So
taking an output and its job is one step (the ongoing queue has one reader per channel), the next
thing done with them another; waking the data thread after a frame for reprocessing is a step of its
own (the code looks at the queues again before it); encoding is three (taken, in the library,
identifier noted), because a finished job may come between. `processJpegEvt` and the steps of `stop` up
to the wait run on the state machine's thread and touch queues with their own locks, but nothing
reads two of these together, so each is one step. Commands that find nothing to do are steps of the
thread all the same. Failures (the encoder, the raw path, the reprocess stream) happen once per
capture, `told` says the application heard; the ZSL channel's free buffers are all alike, so the first
stands for any.

### MmChannel

`attr` is the channel's profile: its streams, notification mode, look-back, water mark, allowed
unmatched frames, priority, and the metadata stream that may be linked from another channel. `ch` is
`mm_channel_t` with its super buffer queue, under the names of the code; `ch.queue` is the list, a node
a record of one frame number per stream (0: none yet). `ch.zsl` is what the daemon was last told
(`mm_camera_start_zsl_snapshot`, `stop`), `ch.up` the super buffers handed up and not yet given back,
`ch.hangs` a loop that never ends because it waits for a matched head. `buf_refcnt` is the count per
stream and frame; `app` the buffers with a stream's own thread (`queue`, `callback`) and with the HAL.

`ProcessCommand` is `mm_channel_process_stream_buf`, whole: one command, the decision about the flash
(`FlashControl`), the overflow, the loop that hands up. A frame is `superbuf_comp_and_enqueue`, with the
metadata first when the stream is the channel's own. What metadata carry (`MetaInfo`) is chosen freely.
`mm_stream_data_notify`, `NotifyStream`, `Callback`, `LetGo` are the poll thread and the stream's thread,
`ReturnSuperBuf` the HAL; `Operate` queues the commands of one HAL operation.

* Streams lose frames and deliver each in its own time; a frame needs a free buffer of the number
  `getBufNumRequired` gives the stream. Frame 0, given back at once, is left out, and frame numbers do
  not wrap.
* `max_future_frame_offset` is 100 in the code and 2 here, where there are three frames: what matters is
  that no frame in the way reaches it.
* `superbuf_flush` can be asked for one stream type only; only a start that failed does so.
* Left out: CONFIG_NOTIFY (nothing in the HAL sends it); capture settings, whose pointer into the
  command outlives the command; `unLockAEC`, which only rides on a super buffer; start and stop.

### QCamera3Requests

The variables are the members of the same names. `processCaptureRequest`, `handleMetadataWithLock`,
`handleBufferWithLock`, `flush`, `configureStreams` are the actions of those names, under `mMutex`; the
client's wait (`Wake`, `Timeout`, 5 s) and flush's channel stops (`StopStreams`, `StopMetadata`) are apart
because the mutex is released there. `metaDue` and `imageDue` are external: what the channels still
owe; metadata may be lost, a buffer may never be returned by the picture channel. `handed`, `results`,
`shutters`, `told`, `reprocess`, `refused` are history. Kept as the code has it:

* a second reprocess result is kept back (`mPendingReprocessResultList`) for a capture before it, and
  only the one of the very next frame goes out with that capture's metadata; others never do;
* that loop erases a request and looks at the erased node once more; its frame number still reads the same;
* a buffer filled before the metadata is looked up in the drop list under the metadata's frame number, not its own
  (finding 4; `told` is every buffer a drop was reported of, this one too);
* flush reads the first request of a list that may be empty (`OldestFrames`: any number then);
* a request the picture channel refuses stays on the list and is not counted (`refused`).

Partial results and the pipeline depth are left out: they change what a result carries, not when it goes.

### AgpsStateMachine

`subscribeRsrc` and `unsubscribeRsrc` are the messages of the modem, `onGranted`, `onReleased`,
`onDenied` those of the framework, taken from the queue `toSm` in order; each is the handler of the
message over all four states (`mStatePtr`), with `addSubscriber`, `notifySubscribers` and
`sendRsrcRequest`. `toAfw` is what the framework has been asked. `client[i]` is what subscriber i was
last told (idle, asking, granted, closing). `AfwHears`, `AfwDecides` and `AfwDrops` are external: the
framework opens in its own time, answers a release only if there is something to close, and may close
a connection by itself. `linked_list_search` deletes the subscriber object it matched, and later
comparisons in the same traversal read it; the model identifies subscribers by value, which is what
the freed memory usually still holds.

### NatTable, IpaNat, NatApp

`IpaNat` numbers entries as the driver does, those of the expansion tables after the base table. An
operation of the driver computes a list of writes (`cmd`): its own writes to free entries, then the DMA
commands in the order `ipa_nati_post_ipv4_dma_cmd` and `ReorderCmds` give them; `Write` makes one, and
`AddReturns`, `DelReturns` are what is left to do afterwards. `UplinkHits` and `DownlinkHits` are the
hardware: it walks a chain between any two writes.

`NatApp` is the cache over it. Event and conntrack handlers are actions, one `job` at a time (a mutex
serialises them); a method that walks the cache is `Visit`, `Returned`, `Uncache`, `EndJob` per slot. The
uninitialised start of a search (`CacheEntry`) and of `pub_ip_addr_pre` are choices. Public addresses
keep the low 16 bits, as the field does. `Table` maps the two sets of connections the hardware finds to
`NatTable`, which allows only: a connection that appears in both directions at once, one that
disappears for what it sends and then for what it receives, and the loss of all with the table.

## 3. Runs

| Run | Instance | Shows |
|---|---|---|
| `camera_clients` | two clients in one run, chosen at the start. One sends every request (message requests aside) in every state and mode, to a daemon that refuses anything, with preview restart; the other changes modes only in the two stopped states and PREVIEWING, and only its live snapshot thread may fail | for both: `VideoIffRecording`, `ReadyIsPrepared`, `FrameRequestNotLost`; for the second: `StoppedIsStoppedIfCareful`, `StreamsFit` (one of ZSL, preview and capture; a recording over the preview, no frame request held back under it) |
| `api_rendezvous` | a client that previews, records and takes pictures beside one that gives recording frames back, a live snapshot thread that may fail and then cancels, a daemon that may die | `SemCountsCommands`, `LiveThreadJoined`, and while the daemon is up `PayloadAlive`, `NoneSleepsOnItsResult`, `NoneForgottenWhileUp` in every interleaving |
| `api_liveness` | one application, all modes outside recording, patient; the post-processor stops the capture channel at any moment | `EveryCallReturns`, the notifier's included |
| `api_daemon_death` | one recorder, a daemon that dies | **violation** of `NoneForgotten` |
| `postproc` | pictures with 0, 1 and 2 reprocess passes, raw and jpeg, two side by side; long shots, saved or not | `BuffersAccounted`, `OutputMatchesJob`, `WorkHasWaker`, `DoneIsComplete`, `CaptureEnds` |
| `mm_channel` | a ZSL, a capture and a live snapshot channel of two streams, three frames; one operation of twelve, or a picture cancelled at any moment | `BuffersAccounted`, `SuperBufsInOrder`, `StreamsKeepRunning`, `ZslHasOwner` |
| `hal3_requests` | two frames over a preview and a jpeg stream, reprocess requests, flush at any time, a lost frame or metadata | `BuffersAccounted`, `CountMatches`, `ShuttersInOrder`, `DroppedIsError`, `KeptAwaitsCapture`, `ErrorRequestsUnstarted`, `CaptureAnswered`, `ClientReturns` |
| `hal3_dropped` | the same | **violation** of `DroppedNeverGood` |
| `agps_machine` | three subscribers, SUPL and WIFI, a framework that drops connections | `StateMatchesSubscribers`, `PendingIsAnswered`, `EveryRequestAnswered` (a close as well as an open) |
| `agps_stale_grant` | the framework never drops by itself | **violation** of `GrantedMeansOpen` |
| `nat` | three connections that all collide, one public address that comes and goes, power saving | `HandlesAreOwn`, `NoLeakedRule`, `RuleInHandReachable`, `ListsMatch`, `AsleepNotAdded`, `RefinesTable` |
| `nat_stale_handle` | two public addresses in turn | **violation** of `HandlesAreOwn` |

`camera_clients` uses a VIEW without `out`, at which none of its properties looks: states are told apart by
what a later step can see.

Sizes (distinct states): `camera_clients` 369,608; `mm_channel` 2,626,834;
`api_rendezvous` 2,333,761; `api_liveness` 12,456 (one patient
application: the interleavings are those of its one call with the pipeline); `postproc` 482,221;
`hal3_requests` 75,798; `agps_machine` 6,972.

### Bounds, and why they are enough

* `CameraStateMachine` is finite as it stands: no bound. `SetStates` limits where the *client* changes
  modes (`SET_PARAMS`, long shot), not what the machine does: the properties of the careful client do not
  hold of one that changes them under a capture, and section 6 says which hazards that leaves open.
* `Clients`: two clients are enough for the wrong one to be woken, for one to overtake the other
  between enqueue and post, and for one to take the lock while the other sleeps. They make different
  requests: the camera service serialises its own calls, and with equal requests each may take the
  other's result (a hazard with a note). In `api_rendezvous` the application never cancels a picture for that
  reason: a live snapshot that fails queues the same request. A daemon that also refuses is in `camera_clients`; with
  it the rendezvous has 13 million states, which were searched once without an error (140 s), and the theorems about the
  rendezvous hold whatever is refused. `SemCountsCommands` is proved for any number.
* `MaxBacklog = 1` (CameraApi) bounds queued events and unclaimed results at the moment a client enters;
  both may still grow past it while calls are under way. `MaxLoose` bounds commands of HAL threads
  that wait for nothing: one in `api_liveness`; in `api_rendezvous` they come from live snapshots that fail, one each, and
  with two clients that is every order of three queued commands.
* PostProc: two buffers of the ZSL channel, so that two frames are in the pipeline at once and a third
  waits for a buffer; `Modes` names the pictures worth taking: fewer output buffers than frames, a frame
  that passes twice, raw with and without a reprocess. `MaxBacklog = 2` holds a long shot's frames
  back when that many commands or pictures wait; `MaxJobs = 3` is one identifier more than there are
  buffers, so that it never refuses a job. `MaxLeftovers = 0` starts a picture when the last one's
  late events and commands are gone; `DoneIsComplete` and `CaptureEnds` speak only of captures begun so (`clean`).
* MmChannel: two streams are one that is late or loses a frame and one that does not; three frames, with
  one unmatched frame allowed and a water mark of 2, fill the queue past both limits and leave a frame
  behind a matched one. `MaxBacklog = 2` lets both streams' buffers wait before an operation's commands
  and after. One operation meets every state of the queue, and a second one, the cancel of a picture in every
  state of its burst, is a profile of its own (`ZslCancelled`); five frames, four operations and a backlog of four were
  simulated besides (36 million states). The live snapshot's operations (a request among continuous
  super buffers) change nothing and are none.
* HAL3: `MIN` and `MAX_INFLIGHT_REQUESTS` are 1 and 2 (3 and 6 in `cam_types.h`), so that both limits are
  met with two frames: a frame and the one before it are what every property relates. The safety
  properties are proved for every number of frames, streams and requests in flight. `MaxTimeouts = 1`.
* `MaxInFlight = 5` bounds messages under way when the modem sends another: a release, a new request,
  the answers to both and a forced close fit, so that every stale answer meets every state.
  Three subscribers are one that holds, one that leaves, one that comes.
* NAT: three connections hash alike in both directions, so that a chain has a head, a middle and a
  last; one slot of the base table and two of the expansion table (entry 0 of each is unused) are full with them. One
  power save slot for two clients is a full list. `MaxTemp = 1`.
* `HwMayFail`, `LiveMayFail`, `PreviewRestart`, `DaemonMayDie`, `RetroOnly`, `Patient`, `ForcedRelease` are switches: which
  environment the run is about.

Deadlock is checked everywhere except in `hal3_requests`, `hal3_dropped` and `mm_channel` (the frames run out) and in
the two runs in which the daemon may die: there `take_picture` really is left waiting with nothing left to happen, which
is the finding of `api_daemon_death`.

### Fairness

`FairApiSpec`: weak fairness of each client's own steps, of the state machine thread, of the threads
between enqueue and post and of the live snapshot thread: each is a running pthread, blocked only by
the lock or the semaphore its guard names. Weak fairness of `Pipeline` says that a living daemon
reports what it owes; calls themselves (`Call`, `TakePictureCall`), failures and the daemon's death are
never fair. `Patient` is an assumption about the application: it makes no call while a picture is being
taken. It is needed because the API queue has priority (a client that keeps calling keeps
`SNAPSHOT_DONE` waiting) and because an abandoned capture's `SNAPSHOT_DONE` may end a later one;
both are hazards with notes. `RetroOnly` is off, for the reason its hazard gives.

PostProc: weak fairness of each thread, of the jpeg library and of the sensor's frames; starting and
cancelling a capture are never fair. HAL3: the sensor streams (metadata and start-of-frame events come),
every stream but the picture channel's returns what it has queued, the woken client and flush go on;
requests, timeouts and the start of a flush are not fair. `ClientReturns` excepts the case the code does
not provide for, a reprocess request in the way whose result nothing may send out. AGPS `FairSpec`: the
message queue is read, and the framework hears requests and decides on them; it need not drop
anything.

## 4. Findings

1. **take_picture waits for a dead daemon** (`api_daemon_death`). The daemon's death in PREPARE_SNAPSHOT
   signals no result; the code that does signal sits in PIC_TAKING, where no client waits.
2. **A stale GRANTED** (`agps_stale_grant`) of a released request is taken for the answer to the next.
3. **A handle outlives its table** (`nat_stale_handle`). `Reset` compares the enabled bits with false where
   it means to assign: after a change of the public address the handle of an old rule names another's.
4. **A dropped buffer comes back as good** (`hal3_dropped`). The metadata of frame 1 are lost, its preview buffer is
   filled, and the metadata of frame 2 report a drop: frame 1 is ended with them, the framework is sent ERROR_BUFFER for its
   buffer and in the same call the buffer, with status ok, because the drop list is searched for frame 2. What does hold,
   `DroppedIsError`, is that this is the only way: a buffer that is filled or flushed after the report is an error, and
   so is one reported by the metadata of its own frame.

Each is quoted with its source lines in `PROJECT.json`. Observations no run is kept for:

* *Refused modes come into force later.* A `SET_PARAMS` that would change modes during a recording is
  answered BAD_VALUE after `updateParameters` put them into the pending batch; the next accepted
  commit applies them under the recording (`CameraStateMachine` has this behaviour; it is why modes
  change only outside captures for the careful client).
* *Preview runs on after a cancelled capture* when `persist.camera.feature.restart` is set:
  STOP_CAPTURE_CHANNEL restarts the preview inside PIC_TAKING, and a cancel or a STOP_PREVIEW there stops only the
  capture. The careful client of `camera_clients` is one without the restart; with it `StoppedIsStoppedIfCareful` fails.
* *A daemon that dies in a capture leaves answers to no call.* PIC_TAKING answers the death with results of
  PREPARE_SNAPSHOT and TAKE_PICTURE; the next call of that name leaves with the stale one, before its command is handled. The
  properties of the rendezvous are of the time before.
* *The first burst with flash may stop its flash frames at once.* `once` and `led_off_start_frame_id` are zero
  when the channel starts, so the first metadata after the daemon asked for the flash, without a frame range
  yet, already satisfy the test for the first frame with the flash off (`mm_camera_channel.c:2265`).
* *The eviction loop reads a freed node* (`mm_camera_channel.c:2501`) after it removed one. After
  the first removal the loop's other condition ends it whatever was read; only a second turn would go on from there
  (`ch.hangs`). The list never has more than one node too many (`StreamsKeepRunning`), so the loop ends there.
* *A low-priority queue counts what it does not order*: metadata stand in for a neighbouring frame, so
  `SuperBufsInOrder` asks for one frame and increasing order of normal priority only.
* *With two passes the outputs of both meet one queue.* `processPPData` takes the head of the single
  `m_ongoingPPQ` (`QCameraPostProc.cpp:1075`) whichever reprocess channel delivered. With `persist.camera.multi_pass`,
  zoom and two pictures at once (`setReprocCount`, `QCameraParameters.cpp:11883`) an output of the second pass
  may come while the other picture's first pass heads the queue: it is paired with the wrong original, and the work
  left may have no command that makes it. The run has one picture at a time with two passes, where both properties hold.
* *PREVIEW_ENABLED in RECORDING* is answered with 0 while the preview runs.

## 5. Proofs

`tlapm` checks eight proof modules, about the very modules TLC runs.

**CameraStateMachine_proofs**, for every set of events, every set of modes and of states in which modes
change, a daemon that may refuse anything or nothing, preview restart or not: `TypeCorrect`
(`Spec => []TypeOK`), `RecordsIffVideoRuns` (`[]VideoIffRecording`), `WaitsPrepared`
(`[]ReadyIsPrepared`) and `FrameRequestsKept` (`[]FrameRequestNotLost`), all from `StateFitsHardware`, the
inductive invariant: `Fits(m_state, hw)` says of a state what it promises of the hardware, and the types of
the rest are kept. The first group of lemmas follows the outcomes of each channel operation: which ones leave
the video channel not running (`Idle`), which change neither it nor a prepared preview (`Alike`), and
that only `startRecording` runs it, exactly when it reports success. The second group has one lemma per
state, with a case for each way its handlers end; the last adds the live snapshot thread. Assumed:
`EvtsAssumption`, `ModesAssumption`. In `camera_clients` only the
careful client asks for preview frames; `FrameRequestsKept` shows the same of any client.

**MCCameraStateMachine_proofs**, of the second client of `camera_clients`, the careful one, for every set of
modes it may ask for: `NothingRunsOn` (`[]StoppedIsStoppedIfCareful`) and `StreamsFitEachOther`
(`[]StreamsFit`). Here a state promises much more than to any client, and the invariant is a description of the
hardware per state, `HardwareFits`: no mode waits for a commit (`Settled`), and nothing but the live
snapshot's channel runs (`Idle`), or the preview's channels are there besides (`Ready`), or only the preview the modes ask for
runs (`Previewing`), with a recording over it (`Records`), with a capture over it (`CapturesOver`) or in its place
(`Captures`). `MessagesFit` adds that a request for preview frames is applied or held back, and under the
recording hint never held back while a preview runs. Each handler is followed from the description of its state to
that of the state it ends in, through the channel operations it calls.

**AgpsStateMachine_proofs**, for every set of subscribers, every machine type, every `MaxInFlight`,
forced release or not: `TypeCorrect` (`Spec => []TypeOK`), `ListsMatchState`
(`[]StateMatchesSubscribers`), `NobodyForgotten` (`[]EachKnowsItsPlace`) and `PendingAnswered`
(`[]PendingIsAnswered`). The first three are not inductive
one by one. The inductive invariant is their conjunction with `OnlyWifiWaits`: only a machine that
waits for the close has inactive subscribers. Without it a SUPL machine could be imagined in which
removing the last active subscriber leaves inactive ones behind, and the machine in a state that waits
for nobody. One lemma per handler (subscribe, unsubscribe, the three answers, the framework's steps)
shows it is kept. `PendingAnswered` is a second invariant over that one. It is strengthened with
`LastIsRequest`: while the machine is Pending, the last request under way to the framework is one to
open. The machine enters Pending only by asking, and asks nothing while there, so that request is under
way, being decided on, or answered by a GRANTED or DENIED in the queue, however many stale answers come
first. Assumed: `TypesAssumption`, `BoundAssumption`.

**CameraApi_proofs**, for every *finite* set of clients. Each result states the hypotheses it needs.

*The semaphore* (`SemaphoreCounts`, no hypothesis): the semaphore, the posts on their way and
the post just taken together count the commands of both queues, although threads overtake each other
between enqueue and post. The invariant adds the types of what is counted
(`QueueTypes`) and nothing of the state machine: the proof never opens a handler. Clients between enqueue
and post are counted by `Cardinality(Enqueuers)`, hence the finiteness (`ClientsAssumption`).

*Types* (`ApiTypeCorrect`, `ApiRecordsIffVideoRuns`, no hypothesis): `TypeInv` joins the types of the
rendezvous to `StateFitsHardware`'s invariant. That one was proved of a machine that takes any event of `Evts`
in any state; here its commands come out of the queues, so it has to be shown that nothing gets
there that is no event (`Never`, of any set of events that nobody sends; also used below).

*The live thread* (`LiveThreadIsJoined`), if nobody sends what changes modes (`NobodyChangesModes`, as in
`api_rendezvous`): with long shot and ZSL off the handlers keep `Joined(m_state, hw)`, each of the eight shown
in turn (`...Calm`), under every refusal and with the daemon's death at any moment. Without the
hypothesis it is false: that is the hazard of `LONGSHOT_OFF` under a capture.

*The rendezvous* (`PayloadsAlive`, `NobodySleepsOnItsResult`, `NobodyForgotten`), of callers that share no
request (`CallersApart`). `m_apiResultList` holds only the name of the request a result
answers, so the property is false if two callers wait for the same one, or the HAL's own threads
queue a command of that name: the first takes the other's result. The camera service serialises its calls, and
the deferred threads' commands are none of its. The other hypotheses leave out requests the machine never answers
(`Unanswered`) and `SET_PARAMS` (which turns ZSL on; what a capture then is would need another invariant). The
properties are of the time in which the daemon is up (`UpMeetInv`; `api_daemon_death` shows `NoneForgotten` violated by its
death), whether it may die or not. `api_rendezvous` is an instance of all of them.
None of the three is inductive, nor is their conjunction. `MeetInv` says *where a request is*: nowhere, in the queue, with the handler, among the signals, with the daemon (a preparation, ended by a
report that is still to come, `PrepEnds`), or on the result list, `Places`; exactly one of these at a time (`At`),
once, with the name its caller is in (`Placed`). Every step moves one request from one place to the next
(`MovesAlong`) or leaves it (`LeftAlone`). That the caller is asleep when its result is put on the list is
the lock's doing: it holds `m_lock` from before it queues the command until it sleeps
(`ClientFits`), and the signal needs that lock. What the handlers contribute is one lemma per state
(`...Conduct`): each answers its own request, at most once, or enters PREPARE_SNAPSHOT, or leaves it.

**QCamera3Requests_proofs**, for every number of frames and streams, every set of outputs, all in-flight
limits, flush and lost metadata at any time: `IInvHolds` and from it `TypesHold`, `EveryBufferAccounted`,
`CountIsRight`, `ClientHeldBack` (`InFlightBounded`: with MAX_INFLIGHT_REQUESTS requests in flight the
client is not let through), `ShuttersComeInOrder`, `KeptAwaits`, and the action
properties `DroppedAreErrors` and `FailedAreUnstarted`. None of the properties is inductive. `IInv` adds what relates the
lists: a pending request's buffers were handed over, a capture's are all in the map, and what it has
filled will not come again (`PendingHanded`); what is in the map or due has no result yet (`BuffersOut`);
a kept reprocess result is in no map (`KeptOnce`); captures end in the order of frames, and so do
requests whose buffers are out (`EndInOrder`); the count, a shutter and a reported drop say what they
should of the list (`CountInv`, `ShuttersInv`, `DroppedInv`). One lemma per action; the case of the metadata
of a frame, which ends a prefix of the list and may take one reprocess result with it, carries most of
the work. Fairness plays no part (`Spec` includes it, the proofs use only the safety part).

**NatApp_proofs**, first the driver, for tables of every size from two entries up, every set of connections and every pair
of hashes. `DriverInv` is the inductive invariant of the driver; each of its operations and each single
`Write` keeps it. A table of chains is whole (`Chained`) when the links backwards and forwards match, unused entries
link nowhere, and every used entry is in the chain of the slot it hashes to (`Chain` is the least set that
holds the slot and what follows, so a proof about it needs no induction). When no operation
runs, the rule table and the index table are whole and name each other (`NamesFit`). Inside an operation they are not,
and the invariant says by which write: five stages of an addition (`AddStage`), told apart by what is linked, and
four of a deletion (`NothingDeleted`, `HeadOverwritten`, `IndexDeleted`, `RuleDeleted`). Of a deletion it
says that the tables are whole *as they will be* once the bookkeeping after the last command is done (`IndexAfter`,
`NamesAfter`, `RulesAfter`, ...): the hardware already goes by the new links while `prev_index`, `meta_prev` and
`indx_tbl_entry` are still the old ones. That a free handle exists when an addition ends
is the pigeonhole principle, over `HandlesFit`: handles in use name different enabled entries.
From `DriverInv` follow `RuleInHandReachable` and `ListsMatch`, and `HitsAreHeld`: what the hardware finds
is what the enabled entries hold, except the entry of a deletion under way.

Then `NatApp`, for every number of slots, clients and addresses besides: `AppInv`, inductive over
`DriverInv`, says for which slot and why the driver is at work (`JobFits`), what its result means
(`ResultFits`: a handle that was returned names the rule the slot wanted, one that was deleted or
refused is not in use), that rules are in one slot at most (`CacheFits`), that there is no handle without
a table (`TableFits`), and that each handle in use is held by an enabled slot the restoring walk has passed, or is on its way
there (`HandlesHeld`). From it: `NatAppTypes`, `HeldRulesStayReachable`, `ListsAlwaysMatch`,
`SleepersAreNotAdded`, `NoRuleLeaks`, and the refinement, `CacheIsTable` (`Spec => RefinesTable`): each write
of the driver is one step of `NatTable` or none. `HandlesStayOwn` (`[]HandlesAreOwn`) has the hypothesis
`OneAddress`: the uplink is always given the same address. With two it is false, which is finding 3. Its
invariant is `OwnInv`: while there is a table, each enabled slot the walk has passed names its own rule; while there
is none, an enabled slot means that the next table will be restored. Assumed: the assumptions on sizes,
hashes and addresses of `IpaNat` and `NatApp`.

**MmChannel_proofs**, for every set of streams, every profile (water mark, look-back, priority, linked
metadata...), any number of frames, whatever the metadata carry: `CountsAreHolders` (`[]BuffersAccounted`) and
`SnapshotModeOwned` (`[]ZslHasOwner`), from `Invariance`. A command of the channel's thread runs through
a dozen functions, so the invariant is about what they hand to each other. `Store(c, E, N)` says
of a channel record that its queue and the super buffers handed up hold each buffer at most once (`OneHolder`), that
its count is that plus `E`, the references of those outside (`Balanced`), and that no buffer of `N` is
inside (`Apart`: frames still to come, and those whose command waits). One lemma per function
of the queue shows it kept; taking the command of a frame lowers `E` by one and makes room for the node. Between
steps `E` is `Outside`: the waiting command, the poll thread, the stream's thread and the HAL, each once.
The snapshot flags go the same way: a command leaves `Mid`, where a request may have ended under the
daemon's snapshot mode; `FlashControl` makes that `Owned` again, and `CountDown` keeps it to the last frame.
The loop that hands up is a recursive function over the length of the queue; its values are followed by a
least counterexample, since induction is out of reach. Assumed: `ProfilesAssumption` and
`OperationsAssumption`, of the operations the HAL has: that it orders the end of the snapshot mode itself only right after
a cancel (`CAMERA_CMD_LONGSHOT_OFF`, `QCamera2HWI.cpp:4073`, the only place that calls
`stop_zsl_snapshot`). Without it `ZslHasOwner` is false: a stop in the middle of a flash burst.

The order is a second invariant on top, `OrderInv`, for the channels of normal priority: `OrderOfSuperBufs` and
`StreamsRun` say of them what `SuperBufsInOrder` and `StreamsKeepRunning` say. Neither is inductive: that
a super buffer is later than those before it depends on where each buffer that comes *next* may go. `Row(c, N)` puts
all of a stream's frames in one row, along three borders: what was handed up is older than the
queue (`UpOK`); the queue is sorted by frame, its complete nodes in front, and a node holds one frame's buffers only
(`QueueOK`); what is still outside, `N`, is later for its stream than anything inside (`Behind`). With that, a buffer
that completes a node finds only incomplete, older nodes before it, which is why
giving these back leaves the complete ones together; a node that makes room is incomplete; and a new node goes
behind every complete one. `InTurn` says that the commands bring each stream's buffers in order. Then again one lemma per
function. The bound of the queue is `Len(queue) - match_cnt <= max_unmatched_frames + 1`, and after the
command's last turn no more than `MostMatched` complete nodes are left.

**PostProc_proofs**, for every number of buffers, jobs and pictures, every setting of `Modes`, every bound, and
whatever a capture leaves to the next: `PostProcTyped` (`[]TypeOK`), `BuffersAlwaysAccounted` (`[]BuffersAccounted`),
`SnapshotDoneIsComplete` (`[]DoneIsComplete`), `OnePassOutputsMatch` (`[](OnePass => OutputMatchesJob)`) and
`OnePassHasWaker` (`[](OnePass => WorkHasWaker)`). Each action is first described by what it does to the single
variables (`...Does`, in `PostProcSteps`), with its types (`...Effect`);
everything after that argues from these descriptions. `Custody` is the inductive invariant of the buffers. That each frame is
held once (`Owned`) is not inductive: whether a step releases a frame, drops it or queues it depends on which queues
are open, and these are opened and closed by the data thread's commands. So `DataProtocol` says which commands
can be waiting, and in which order, while a capture starts, runs and stops, and `QueuesOpen` which queues are open then
and which are empty; `JobsFit` says which of a job's two buffers is the frame (a frame that is its own source is
released once), `Named` and `Working` that the job whose identifier is still to be noted is the last one. `Journey` is a second
invariant over that, about pictures: the jobs of the library are the ones waited for (`Library`), each picture of the
notifier has its command (`Notified`, `Announced`), and the pictures in flight and the pictures delivered are never more than
the capture asked for (`Conserved`): so when the last one is delivered, nothing can be in flight. `Paired` is a third: of the
first pass, the frames in the reprocess channel and the jobs in `m_ongoingPPQ` match one by one. `Wakeful` is a fourth,
about commands. `WorkHasWaker` itself is not inductive: it asks for one command where work can be done now, and
several such works would share it. So `Wakeful` counts: no more pictures are to be encoded than there are commands, and
the requests that wait, the pictures to encode and the one in the encoder's hands are no more than the commands, the
one about to be sent and the turn the data thread has, or no more than these and the jobs under way beyond the
buffers that the reprocess channel holds, which is when there is no room. A turn takes one command,
encodes at most one picture and reprocesses at most one request. Assumed: `ModesAssumption`,
`BoundsAssumption`, `NoneAssumption`.

Only model-checked: all liveness, which is out of this prover's reach; of `PostProc` `WorkHasWaker` and `OutputMatchesJob` for
a picture with two passes; and of `MmChannel` the low-priority channel, for `SuperBufsInOrder` (there: its count and that nothing hangs) and `StreamsKeepRunning`.

## 6. What is left out of the modelled parts

* Camera: HDR, UbiFocus, AE bracketing, memory pools, stream configuration, face registration beyond its
  effect on the state; metadata events; preview, video and metadata callbacks.
* Post-processing outside ZSL: the same queues fed by the capture channel. The offline bracketing that
  splits one frame into several requests, and dumps to files.
* An allocation that fails in `signalAPIResult` or `enqueue`; a thread that cannot be started.
* Clients that issue the same request at the same time; mode changes under a running capture, which
  is where LONGSHOT_OFF leaves the capture channel running and where a retro-active picture is cancelled
  by another way than it was started (hazards with notes).
* HAL3: the channels below the two callbacks; metadata contents; partial results.
* AGPS: `DSStateMachine`; the identity of a subscriber beyond equality; the ATL open/close calls to the
  modem, which are `Tell`.
* mm-camera-interface: see MmChannel above.
* NAT: `UpdateUDPTimeStamp`, which changes no state kept here but walks the cache without the lock; a DMA command that fails; more than one
  NAT table (the driver allows one); a deletion of the table that is refused, for another public address than the
  table's (`IPACM_Conntrack_NATApp.cpp:208`; the uplink's down event is taken to name the address its up event
  named) or by the driver (215).
