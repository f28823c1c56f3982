------------------------------ MODULE CameraApi ------------------------------
(***************************************************************************)
(* How the camera HAL's callers meet its state machine.  A client takes    *)
(* m_lock, queues a command, and waits on m_cond, which gives m_lock back, *)
(* until a result of its own request is in m_apiResultList; so several     *)
(* clients may be waiting at once.  The daemon and the notifier thread     *)
(* queue events.  One thread takes the commands, API queue first, and      *)
(* hands them to the state machine of CameraStateMachine.                  *)
(***************************************************************************)
EXTENDS CameraStateMachine, SequencesExt

CONSTANTS
    Clients,     \* threads calling into the HAL
    CallsOf,     \* the calls each client makes
    LooseApis,   \* API events queued by HAL threads that wait for no result
    MaxLoose,    \* bound on those, per behaviour
    MaxBacklog,  \* bound on queued events and unclaimed results when a call is made
    DaemonMayDie,
    RetroOnly,   \* the retro-active frames may make up the whole picture
    Patient      \* applications make no call while a picture is being taken

None == "none"
take_picture == "take_picture"

ASSUME ClientsAssumption == IsFiniteSet(Clients) /\ None \notin Clients
(* The API commands; the others are events of the daemon and the pipeline.  *)
ApiEvts == AllEvts \ {"PREP_SNAPSHOT_DONE", "READY_FOR_SNAPSHOT", "DAEMON_DIED", "SNAPSHOT_DONE"}

ASSUME CallsAssumption == CallsOf \in [Clients -> SUBSET (ApiEvts \cup {take_picture})]
ASSUME LooseAssumption == LooseApis \subseteq ApiEvts /\ MaxLoose \in Nat
                           /\ {DaemonMayDie, RetroOnly, Patient} \subseteq BOOLEAN

VARIABLES
    api_queue, evt_queue,   \* commands [evt, owner], and events
    cmd_sem,                \* the semaphore the state machine thread sleeps on
    unposted,               \* HAL threads between enqueue and sem_post
    sm,                     \* state machine thread: [pc, cmd]
    m_lock,                 \* who holds the API lock
    m_apiResultList,
    client,                 \* per client [pc, evt, rest]: the request it is in, those to follow
    notifier,               \* the notifier thread in processSyncEvt: waiting or not
    owed,                   \* events the daemon and the capture pipeline will still send
    daemon,                 \* "up" or "dead"
    loose                   \* loose API events so far

core == vars
rendezvous == <<api_queue, evt_queue, cmd_sem, unposted, sm, m_lock, m_apiResultList, client,
                notifier, owed, daemon, loose>>
allvars == <<core, rendezvous>>

Nobody == [evt |-> None, owner |-> None]
Idle == [pc |-> "idle", evt |-> None, rest |-> <<>>]
Command(e, c) == [evt |-> e, owner |-> c]

-----------------------------------------------------------------------------
(* m_lock can be taken, and is: the slip takes no lock. *)
Slip_CanLock == TRUE
CanLock == m_lock = None

(* No picture is being taken, as far as an application can tell. *)
NoPicture == ~isCaptureRunning /\ "SNAPSHOT_DONE" \notin owed /\ ~notifier

(* lockAPI and procAPI up to the enqueue: the lock stays with the client.  *)
Enter(c, e, rest) ==
    /\ client[c] = Idle /\ CanLock
    /\ Patient => NoPicture
    /\ Len(evt_queue) + Len(m_apiResultList) <= MaxBacklog
    /\ m_lock' = c
    /\ api_queue' = Append(api_queue, Command(e, c))
    /\ client' = [client EXCEPT ![c] = [pc |-> "enqueued", evt |-> e, rest |-> rest]]
    /\ UNCHANGED <<evt_queue, cmd_sem, unposted, sm, m_apiResultList, notifier, owed, daemon, loose>>

Call(c) ==
    \E e \in CallsOf[c] \ {take_picture} : Enter(c, e, <<>>) /\ UNCHANGED core

(* With retro-active frames the picture is taken before the hardware is     *)
(* prepared, otherwise it is prepared first, when a flash is needed.        *)
TakePictureCall(c) ==
    /\ take_picture \in CallsOf[c]
    /\ \/ setRetroPicture(TRUE) /\ Enter(c, "TAKE_PICTURE", <<"PREPARE_SNAPSHOT">>)
       \/ setRetroPicture(FALSE) /\ Enter(c, "PREPARE_SNAPSHOT", <<"TAKE_PICTURE">>)
       \/ setRetroPicture(FALSE) /\ Enter(c, "TAKE_PICTURE", <<>>)

SemPost(c) ==
    /\ client[c].pc = "enqueued"
    /\ cmd_sem' = cmd_sem + 1
    /\ client' = [client EXCEPT ![c].pc = "posted"]
    /\ UNCHANGED <<core, api_queue, evt_queue, unposted, sm, m_lock, m_apiResultList, notifier,
                   owed, daemon, loose>>

(* waitAPIResult sleeps before it looks at the list. *)
CondWait(c) ==
    /\ client[c].pc = "posted"
    /\ m_lock' = None
    /\ client' = [client EXCEPT ![c].pc = "waiting"]
    /\ UNCHANGED <<core, api_queue, evt_queue, cmd_sem, unposted, sm, m_apiResultList, notifier,
                   owed, daemon, loose>>

(* Any result will do. *)
Slip_Answers(c) == DOMAIN m_apiResultList
Answers(c) == {i \in DOMAIN m_apiResultList : m_apiResultList[i].req = RequestOf(client[c].evt)}
First(S) == CHOOSE i \in S : \A j \in S : i <= j

(* Woken with the lock back, a client whose result is not there sleeps on. *)
SleepOn(c) ==
    /\ client[c].pc = "woken" /\ CanLock /\ Answers(c) = {}
    /\ client' = [client EXCEPT ![c].pc = "waiting"]
    /\ UNCHANGED <<core, api_queue, evt_queue, cmd_sem, unposted, sm, m_lock, m_apiResultList,
                   notifier, owed, daemon, loose>>

(* The first result of its request is taken off the list, and the client    *)
(* leaves, or goes on to its next request without giving the lock back.     *)
TakeResult(c) ==
    /\ client[c].pc = "woken" /\ CanLock /\ Answers(c) # {}
    /\ m_apiResultList' = RemoveAt(m_apiResultList, First(Answers(c)))
    /\ IF client[c].rest = <<>>
       THEN /\ client' = [client EXCEPT ![c] = Idle]
            /\ UNCHANGED <<m_lock, api_queue>>
       ELSE /\ client' = [client EXCEPT ![c] = [pc |-> "enqueued", evt |-> Head(client[c].rest),
                                                rest |-> Tail(client[c].rest)]]
            /\ m_lock' = c
            /\ api_queue' = Append(api_queue, Command(Head(client[c].rest), c))
    /\ UNCHANGED <<core, evt_queue, cmd_sem, unposted, sm, notifier, owed, daemon, loose>>

-----------------------------------------------------------------------------
(* smEvtProcRoutine.  The slip takes an interrupted sem_wait for a post. *)
Slip_SmWait ==
    /\ sm.pc = "wait"
    /\ cmd_sem' = cmd_sem - 1
    /\ sm' = [sm EXCEPT !.pc = "dequeue"]
    /\ UNCHANGED <<core, api_queue, evt_queue, unposted, m_lock, m_apiResultList, client, notifier,
                   owed, daemon, loose>>

SmWait ==
    /\ sm.pc = "wait" /\ cmd_sem > 0
    /\ cmd_sem' = cmd_sem - 1
    /\ sm' = [sm EXCEPT !.pc = "dequeue"]
    /\ UNCHANGED <<core, api_queue, evt_queue, unposted, m_lock, m_apiResultList, client, notifier,
                   owed, daemon, loose>>

DequeueApi ==
    /\ sm.pc = "dequeue" /\ api_queue # <<>>
    /\ sm' = [pc |-> "handle", cmd |-> Head(api_queue)]
    /\ api_queue' = Tail(api_queue)
    /\ UNCHANGED <<core, evt_queue, cmd_sem, unposted, m_lock, m_apiResultList, client, notifier,
                   owed, daemon, loose>>

DequeueEvt ==
    /\ sm.pc = "dequeue" /\ api_queue = <<>> /\ evt_queue # <<>>
    /\ sm' = [pc |-> "handle", cmd |-> Command(Head(evt_queue), None)]
    /\ evt_queue' = Tail(evt_queue)
    /\ UNCHANGED <<core, api_queue, cmd_sem, unposted, m_lock, m_apiResultList, client, notifier,
                   owed, daemon, loose>>

(* What the hardware will report after a command: the end of a preparation, *)
(* of the retro-active frames, of a capture.  The frames that follow the    *)
(* retro-active ones come only when the preparation is done.                *)
AwaitsReport == out' = Quiet
StartsCapture == m_state' # m_state /\ isCaptureRunning'

Owes ==
    LET takes == sm.cmd.evt = "TAKE_PICTURE"
        prepares == sm.cmd.evt = "PREPARE_SNAPSHOT" /\ AwaitsReport
    IN (IF prepares THEN {"PREP_SNAPSHOT_DONE"} ELSE {})
       \cup (IF takes /\ AwaitsReport THEN {"READY_FOR_SNAPSHOT"} ELSE {})
       \cup (IF takes /\ StartsCapture /\ ~hw.longshot /\ (AwaitsReport => RetroOnly) THEN {"SNAPSHOT_DONE"} ELSE {})
       \cup (IF prepares /\ m_state' = "PREVIEW_PIC_TAKING" THEN {"SNAPSHOT_DONE"} ELSE {})

PictureComplete ==
    /\ "SNAPSHOT_DONE" \in owed /\ "READY_FOR_SNAPSHOT" \notin owed
    /\ RetroOnly \/ "PREP_SNAPSHOT_DONE" \notin owed

(* A capture that is left early may still report. *)
Handle ==
    /\ sm.pc = "handle"
    /\ stateMachine(sm.cmd.evt)
    /\ sm' = [sm EXCEPT !.pc = "signal"]
    /\ IF out'.post
       THEN evt_queue' = Append(evt_queue, "SNAPSHOT_DONE") /\ cmd_sem' = cmd_sem + 1
       ELSE UNCHANGED <<evt_queue, cmd_sem>>
    /\ \/ owed' = IF daemon = "up" THEN owed \cup Owes ELSE owed
       \/ isCaptureRunning /\ ~isCaptureRunning' /\ owed' = owed \ {"SNAPSHOT_DONE"}
    /\ UNCHANGED <<api_queue, unposted, m_lock, m_apiResultList, client, notifier, daemon, loose>>

(* Every waiting client is woken: pthread_cond_broadcast.  The slip is      *)
(* pthread_cond_signal.                                                     *)
Slip_Woken ==
    LET waits(c) == client[c].pc = "waiting"
        one == CHOOSE c \in Clients : waits(c)
    IN IF \E c \in Clients : waits(c) THEN [client EXCEPT ![one].pc = "woken"] ELSE client
Woken == [c \in Clients |-> IF client[c].pc = "waiting"
                            THEN [client[c] EXCEPT !.pc = "woken"] ELSE client[c]]

(* signalAPIResult: under the lock the result goes to the end of the list   *)
(* and every waiting client is woken.  No call waits for the result of      *)
(* SNAPSHOT_DONE, which stays in the list for good and is left out.         *)
signalAPIResult ==
    /\ sm.pc = "signal" /\ out.api # <<>> /\ CanLock
    /\ m_apiResultList' = IF Head(out.api).req = "SNAPSHOT_DONE" THEN m_apiResultList
                          ELSE Append(m_apiResultList, Head(out.api))
    /\ client' = Woken
    /\ out' = [out EXCEPT !.api = Tail(out.api)]
    /\ UNCHANGED <<m_state, hw, msgs, bRetroPicture, api_queue, evt_queue, cmd_sem, unposted, sm,
                   m_lock, notifier, owed, daemon, loose>>

(* signalEvtResult when there is an event result, then back to the queues. *)
Finish ==
    /\ sm.pc = "signal" /\ out.api = <<>>
    /\ notifier' = IF out.done THEN FALSE ELSE notifier
    /\ out' = Quiet
    /\ sm' = [pc |-> "wait", cmd |-> Nobody]
    /\ UNCHANGED <<m_state, hw, msgs, bRetroPicture, api_queue, evt_queue, cmd_sem, unposted,
                   m_lock, m_apiResultList, client, owed, daemon, loose>>

-----------------------------------------------------------------------------
(* Threads that queue a command and wait for no result. *)
Queued(e) == evt_queue' = Append(evt_queue, e) /\ unposted' = unposted + 1

(* The end of a preparation, or of the retro-active frames. *)
DaemonReports(e) ==
    /\ daemon = "up" /\ e \in owed \ {"SNAPSHOT_DONE"}
    /\ Queued(e)
    /\ owed' = owed \ {e}
    /\ UNCHANGED <<core, api_queue, cmd_sem, sm, m_lock, m_apiResultList, client, notifier, daemon,
                   loose>>

(* processSyncEvt: the notifier thread has delivered the last picture and   *)
(* sleeps until the state machine has dealt with it.                        *)
processSyncEvt ==
    /\ daemon = "up" /\ PictureComplete /\ ~notifier
    /\ Queued("SNAPSHOT_DONE")
    /\ notifier' = TRUE
    /\ owed' = owed \ {"SNAPSHOT_DONE"}
    /\ UNCHANGED <<core, api_queue, cmd_sem, sm, m_lock, m_apiResultList, client, daemon, loose>>

DaemonDies ==
    /\ DaemonMayDie /\ daemon = "up"
    /\ Queued("DAEMON_DIED")
    /\ daemon' = "dead" /\ owed' = {}
    /\ UNCHANGED <<core, api_queue, cmd_sem, sm, m_lock, m_apiResultList, client, notifier, loose>>

(* The command is enqueued and the semaphore never posted. *)
Slip_QueueLoose(e) ==
    /\ api_queue' = Append(api_queue, Command(e, None))
    /\ UNCHANGED <<evt_queue, cmd_sem, unposted, sm, m_lock, m_apiResultList, client, notifier,
                   owed, daemon>>

QueueLoose(e) ==
    /\ api_queue' = Append(api_queue, Command(e, None))
    /\ unposted' = unposted + 1
    /\ UNCHANGED <<evt_queue, cmd_sem, sm, m_lock, m_apiResultList, client, notifier, owed, daemon>>

LooseApi(e) ==
    /\ loose < MaxLoose
    /\ loose' = loose + 1
    /\ QueueLoose(e) /\ UNCHANGED core

LiveThreadStarts == LiveSnapshotStarts /\ UNCHANGED rendezvous

(* takeLiveSnapshot_internal: a failure is reported as CANCEL_PICTURE, one  *)
(* in the rotation setup not at all.                                        *)
LiveThreadFails ==
    /\ LiveSnapshotFails
    /\ \/ QueueLoose("CANCEL_PICTURE") /\ UNCHANGED loose
       \/ hw.ch["SNAPSHOT"] # "null" /\ UNCHANGED rendezvous

PostOther ==
    /\ unposted > 0
    /\ unposted' = unposted - 1 /\ cmd_sem' = cmd_sem + 1
    /\ UNCHANGED <<core, api_queue, evt_queue, sm, m_lock, m_apiResultList, client, notifier, owed,
                   daemon, loose>>

-----------------------------------------------------------------------------
ApiInit ==
    /\ Init
    /\ api_queue = <<>> /\ evt_queue = <<>> /\ cmd_sem = 0 /\ unposted = 0
    /\ sm = [pc |-> "wait", cmd |-> Nobody]
    /\ m_lock = None /\ m_apiResultList = <<>>
    /\ client = [c \in Clients |-> Idle]
    /\ notifier = FALSE /\ owed = {} /\ daemon = "up" /\ loose = 0

ClientStep(c) == SemPost(c) \/ CondWait(c) \/ SleepOn(c) \/ TakeResult(c)
SmStep == SmWait \/ DequeueApi \/ DequeueEvt \/ Handle \/ signalAPIResult \/ Finish
Pipeline == processSyncEvt \/ \E e \in AllEvts : DaemonReports(e)
LiveThread == LiveThreadStarts \/ LiveThreadFails

ApiNext ==
    \/ \E c \in Clients : Call(c) \/ TakePictureCall(c) \/ ClientStep(c)
    \/ SmStep
    \/ Pipeline
    \/ LiveThread
    \/ DaemonDies
    \/ \E e \in LooseApis : LooseApi(e)
    \/ PostOther

ApiSpec == ApiInit /\ [][ApiNext]_allvars

(* Every thread that can run runs in the end, and a living daemon reports. *)
FairApiSpec ==
    /\ ApiSpec
    /\ \A c \in Clients : WF_allvars(ClientStep(c))
    /\ WF_allvars(SmStep)
    /\ WF_allvars(Pipeline)
    /\ WF_allvars(LiveThread)
    /\ WF_allvars(PostOther)

-----------------------------------------------------------------------------
Commands == [evt : AllEvts \cup {None}, owner : Clients \cup {None}]

ApiTypeOK ==
    /\ TypeOK
    /\ api_queue \in Seq(Commands) /\ evt_queue \in Seq(AllEvts)
    /\ cmd_sem \in Nat /\ unposted \in Nat /\ loose \in 0 .. MaxLoose
    /\ sm \in [pc : {"wait", "dequeue", "handle", "signal"}, cmd : Commands]
    /\ m_lock \in Clients \cup {None}
    /\ m_apiResultList \in Seq(Results)
    /\ client \in [Clients -> [pc : {"idle", "enqueued", "posted", "waiting", "woken"},
                               evt : AllEvts \cup {None}, rest : Seq(AllEvts)]]
    /\ notifier \in BOOLEAN /\ owed \subseteq AllEvts /\ daemon \in {"up", "dead"}

Enqueuers == {c \in Clients : client[c].pc = "enqueued"}

(* smEvtProcRoutine dequeues once per sem_wait, from either queue: every     *)
(* queued command has a post, done or on its way, and no post is wasted on   *)
(* empty queues, although a thread may be overtaken between enqueue and post *)
(* and its command taken on the post of another.                             *)
SemCountsCommands ==
    cmd_sem + unposted + Cardinality(Enqueuers) + (IF sm.pc = "dequeue" THEN 1 ELSE 0)
      = Len(api_queue) + Len(evt_queue)

(* "API is in a way sync call, so evt_payload is managed by HWI": a command  *)
(* not yet handled still has its caller, whose stack holds the payload,      *)
(* waiting in that very request.  A daemon that dies in a capture makes the  *)
(* state machine answer calls that nobody is in, and those answers stay in   *)
(* the list for the next call to leave early with: so this, and the          *)
(* rendezvous below, is of the time before.                                  *)
CallerAwaits(cmd) == cmd.owner # None => client[cmd.owner].evt = cmd.evt
PayloadAlive ==
    daemon = "up" =>
        /\ \A i \in DOMAIN api_queue : CallerAwaits(api_queue[i])
        /\ sm.pc = "handle" => CallerAwaits(sm.cmd)

(* cancelLiveSnapshot joins the live snapshot thread: one that was started   *)
(* is left unjoined only in a state whose every way out joins it, so that no *)
(* second thread takes its place.                                            *)
LiveThreadJoined ==
    hw.live # "none" => m_state \in {"VIDEO_PIC_TAKING", "PREVIEW_PIC_TAKING"}

(* waitAPIResult sleeps first and looks after: a client never sleeps beside  *)
(* its own result, because it holds m_lock from before the command is queued *)
(* until it sleeps.                                                          *)
NoneSleepsOnItsResult ==
    daemon = "up" => \A c \in Clients : client[c].pc = "waiting" => Answers(c) = {}

(* A sleeping client is owed its result: its command is on its way, or the   *)
(* event that answers it is.                                                 *)
OnItsWay(c) ==
    \/ \E i \in DOMAIN api_queue : api_queue[i] = Command(client[c].evt, c)
    \/ sm.cmd = Command(client[c].evt, c) /\ sm.pc = "handle"
    \/ sm.pc = "signal" /\ \E i \in DOMAIN out.api : out.api[i].req = RequestOf(client[c].evt)
    \/ \E e \in owed \cup Range(evt_queue) \cup {sm.cmd.evt} :
          \/ client[c].evt = "PREPARE_SNAPSHOT" /\ e = "PREP_SNAPSHOT_DONE"
          \/ client[c].evt = "TAKE_PICTURE" /\ e = "READY_FOR_SNAPSHOT"
NoneForgotten == \A c \in Clients : client[c].pc = "waiting" => OnItsWay(c)

(* So it is at least while there is a daemon to report.                      *)
NoneForgottenWhileUp == daemon = "up" => NoneForgotten

(* Every call into the HAL returns, also the notifier's own, processSyncEvt, *)
(* so that the next picture can be delivered.                               *)
EveryCallReturns ==
    /\ \A c \in Clients : client[c].pc = "waiting" ~> client[c].pc = "idle"
    /\ notifier ~> ~notifier
=============================================================================
