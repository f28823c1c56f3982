--------------------------- MODULE CameraApi_proofs ---------------------------
(***************************************************************************)
(* The camera's API rendezvous, for every finite set of clients: the       *)
(* semaphore of the state machine thread counts the commands in its two    *)
(* queues; types; the live snapshot thread is joined; and the request of   *)
(* a caller is in one place at a time, so that its payload is alive where  *)
(* it is used and its result finds it.                                     *)
(***************************************************************************)
EXTENDS CameraApi, CameraStateMachine_proofs, FiniteSetTheorems, SequenceTheorems

ClientRecords == [pc : {"idle", "enqueued", "posted", "waiting", "woken"},
                  evt : AllEvts \cup {None}, rest : Seq(AllEvts)]

(* The part of the type invariant that the count needs. *)
QueueTypes ==
    /\ api_queue \in Seq(Commands) /\ evt_queue \in Seq(AllEvts)
    /\ cmd_sem \in Nat /\ unposted \in Nat
    /\ sm \in [pc : {"wait", "dequeue", "handle", "signal"}, cmd : Commands]
    /\ client \in [Clients -> ClientRecords]
    /\ owed \subseteq AllEvts

SemInv == QueueTypes /\ SemCountsCommands

(* There are finitely many clients between enqueue and post. *)
LEMMA EnqueuersFinite == IsFiniteSet(Enqueuers) /\ Cardinality(Enqueuers) \in Nat
<1>1. IsFiniteSet(Enqueuers)
  BY ClientsAssumption, FS_Subset DEF Enqueuers
<1> QED BY <1>1, FS_CardinalityType

(* A client that enqueues is one more of them. *)
LEMMA OneMoreEnqueuer ==
  ASSUME NEW c \in Clients, client[c].pc # "enqueued", Enqueuers' = Enqueuers \cup {c}
  PROVE  Cardinality(Enqueuers') = Cardinality(Enqueuers) + 1
<1>1. c \notin Enqueuers
  BY DEF Enqueuers
<1> QED BY <1>1, EnqueuersFinite, FS_AddElement

(* One that has posted is one fewer. *)
LEMMA OneFewerEnqueuer ==
  ASSUME NEW c \in Clients, client[c].pc = "enqueued", Enqueuers' = Enqueuers \ {c}
  PROVE  Cardinality(Enqueuers') = Cardinality(Enqueuers) - 1
<1>1. c \in Enqueuers
  BY DEF Enqueuers
<1> QED BY <1>1, EnqueuersFinite, FS_RemoveElement

(* The terms of the count are numbers. *)
LEMMA Numbers ==
  ASSUME QueueTypes
  PROVE  /\ Len(api_queue) \in Nat /\ Len(evt_queue) \in Nat
         /\ cmd_sem \in Nat /\ unposted \in Nat /\ Cardinality(Enqueuers) \in Nat
  BY EnqueuersFinite DEF QueueTypes

LEMMA OneMoreOnBothSides ==
  ASSUME NEW i \in Int, NEW j \in Int, NEW k \in Int, NEW l \in Int, NEW m \in Int, NEW n \in Int,
         i + j + k + l = m + n
  PROVE  i + j + (k + 1) + l = (m + 1) + n
  OBVIOUS

(* One more command, one more client about to post. *)
LEMMA BothGrow ==
  ASSUME QueueTypes, SemCountsCommands,
         Len(api_queue') = Len(api_queue) + 1, UNCHANGED <<evt_queue, cmd_sem, unposted, sm>>,
         Cardinality(Enqueuers') = Cardinality(Enqueuers) + 1
  PROVE  SemCountsCommands'
<1> DEFINE took == IF sm.pc = "dequeue" THEN 1 ELSE 0
<1>1. /\ Len(api_queue) \in Nat /\ Len(evt_queue) \in Nat
      /\ cmd_sem \in Nat /\ unposted \in Nat /\ Cardinality(Enqueuers) \in Nat
  BY Numbers
<1>2. took \in Nat /\ took' = took
  OBVIOUS
<1>3. cmd_sem + unposted + Cardinality(Enqueuers) + took = Len(api_queue) + Len(evt_queue)
  BY DEF SemCountsCommands
<1> HIDE DEF took
<1>4. cmd_sem + unposted + (Cardinality(Enqueuers) + 1) + took = (Len(api_queue) + 1) + Len(evt_queue)
  BY ONLY <1>1, <1>2, <1>3, OneMoreOnBothSides
<1>5. cmd_sem' + unposted' + Cardinality(Enqueuers') + took' = Len(api_queue') + Len(evt_queue')
  BY <1>2, <1>4, Zenon
<1> QED BY <1>5 DEF SemCountsCommands, took

(* The queues are empty, nobody is about to post. *)
LEMMA InitSemInv == ApiInit => SemInv
<1> SUFFICES ASSUME ApiInit PROVE SemInv OBVIOUS
<1> USE DEF ApiInit
<1>1. QueueTypes
  BY DEF QueueTypes, ClientRecords, Idle, Nobody, Commands
<1>2. Enqueuers = {}
  BY DEF Enqueuers, Idle
<1>3. SemCountsCommands
  BY <1>2, FS_EmptySet DEF SemCountsCommands
<1> QED BY <1>1, <1>3 DEF SemInv

(* lockAPI and procAPI: one more command, one more client about to post. *)
LEMMA EnterStep ==
  ASSUME SemInv, NEW c \in Clients, NEW e \in AllEvts, NEW rest \in Seq(AllEvts),
         Enter(c, e, rest)
  PROVE  SemInv'
<1>1. QueueTypes /\ SemCountsCommands
  BY DEF SemInv
<1>2. Command(e, c) \in Commands
  BY DEF Command, Commands
<1>3. /\ api_queue' \in Seq(Commands)
      /\ Len(api_queue') = Len(api_queue) + 1
      /\ UNCHANGED <<evt_queue, cmd_sem, unposted, sm, owed>>
  BY <1>1, <1>2 DEF Enter, QueueTypes
<1>4. client' = [client EXCEPT ![c] = [pc |-> "enqueued", evt |-> e, rest |-> rest]]
  BY DEF Enter
<1>5. client \in [Clients -> ClientRecords] /\ client' \in [Clients -> ClientRecords]
  BY <1>1, <1>4 DEF QueueTypes, ClientRecords
<1>6. Enqueuers' = Enqueuers \cup {c}
  BY <1>4, <1>5 DEF Enqueuers
<1>7. client[c].pc # "enqueued"
  BY DEF Enter, Idle
<1>8. Cardinality(Enqueuers') = Cardinality(Enqueuers) + 1
  BY <1>6, <1>7, OneMoreEnqueuer
<1>9. QueueTypes'
  BY <1>1, <1>3, <1>5 DEF QueueTypes
<1>10. SemCountsCommands'
  BY <1>1, <1>3, <1>8, BothGrow
<1> QED BY <1>9, <1>10 DEF SemInv

(* sem_post after the enqueue. *)
LEMMA SemPostStep ==
  ASSUME SemInv, NEW c \in Clients, SemPost(c)
  PROVE  SemInv'
<1>1. QueueTypes /\ SemCountsCommands
  BY DEF SemInv
<1>2. cmd_sem' = cmd_sem + 1 /\ UNCHANGED <<api_queue, evt_queue, unposted, sm, owed>>
  BY DEF SemPost
<1>3. client[c].pc = "enqueued" /\ client' = [client EXCEPT ![c].pc = "posted"]
  BY DEF SemPost
<1>4. client \in [Clients -> ClientRecords] /\ client' \in [Clients -> ClientRecords]
  BY <1>1, <1>3 DEF QueueTypes, ClientRecords
<1>5. Enqueuers' = Enqueuers \ {c}
  BY <1>3, <1>4 DEF Enqueuers, ClientRecords
<1>6. Cardinality(Enqueuers') = Cardinality(Enqueuers) - 1
  BY <1>3, <1>5, OneFewerEnqueuer
<1>7. QueueTypes'
  BY <1>1, <1>2, <1>4 DEF QueueTypes
<1>8. SemCountsCommands'
  BY <1>1, <1>2, <1>6, Numbers DEF SemCountsCommands
<1> QED BY <1>7, <1>8 DEF SemInv

(* Waiting and sleeping on move no command. *)
LEMMA WaitStep ==
  ASSUME SemInv, NEW c \in Clients, CondWait(c) \/ SleepOn(c)
  PROVE  SemInv'
<1>1. QueueTypes /\ SemCountsCommands
  BY DEF SemInv
<1>2. UNCHANGED <<api_queue, evt_queue, cmd_sem, unposted, sm, owed>>
  BY DEF CondWait, SleepOn
<1>3. client[c].pc # "enqueued" /\ client' = [client EXCEPT ![c].pc = "waiting"]
  BY DEF CondWait, SleepOn
<1>4. client \in [Clients -> ClientRecords] /\ client' \in [Clients -> ClientRecords]
  BY <1>1, <1>3 DEF QueueTypes, ClientRecords
<1>5. Enqueuers' = Enqueuers
  BY <1>3, <1>4 DEF Enqueuers, ClientRecords
<1> QED BY <1>1, <1>2, <1>4, <1>5 DEF SemInv, QueueTypes, SemCountsCommands

(* A client that takes its result leaves ... *)
LEMMA LeaveStep ==
  ASSUME SemInv, NEW c \in Clients, TakeResult(c), client[c].rest = <<>>
  PROVE  SemInv'
<1>1. QueueTypes /\ SemCountsCommands
  BY DEF SemInv
<1>2. UNCHANGED <<api_queue, evt_queue, cmd_sem, unposted, sm, owed>>
  BY DEF TakeResult
<1>3. client[c].pc # "enqueued" /\ client' = [client EXCEPT ![c] = Idle]
  BY DEF TakeResult
<1>4. client \in [Clients -> ClientRecords] /\ client' \in [Clients -> ClientRecords]
  BY <1>1, <1>3 DEF QueueTypes, ClientRecords, Idle
<1>5. Enqueuers' = Enqueuers
  BY <1>3, <1>4 DEF Enqueuers, Idle
<1> QED BY <1>1, <1>2, <1>4, <1>5 DEF SemInv, QueueTypes, SemCountsCommands

(* ... or enqueues its next request. *)
LEMMA NextRequestStep ==
  ASSUME SemInv, NEW c \in Clients, TakeResult(c), client[c].rest # <<>>
  PROVE  SemInv'
<1> DEFINE e == Head(client[c].rest)
           rest == Tail(client[c].rest)
<1>1. QueueTypes /\ SemCountsCommands
  BY DEF SemInv
<1>2. client[c].rest \in Seq(AllEvts)
  BY <1>1 DEF QueueTypes, ClientRecords
<1>3. e \in AllEvts /\ rest \in Seq(AllEvts)
  BY <1>2
<1>4. Command(e, c) \in Commands
  BY <1>3 DEF Command, Commands
<1>5. /\ api_queue' \in Seq(Commands)
      /\ Len(api_queue') = Len(api_queue) + 1
      /\ UNCHANGED <<evt_queue, cmd_sem, unposted, sm, owed>>
  <2>1. api_queue' = Append(api_queue, Command(e, c))
    BY DEF TakeResult
  <2>2. UNCHANGED <<evt_queue, cmd_sem, unposted, sm, owed>>
    BY DEF TakeResult
  <2>3. api_queue \in Seq(Commands)
    BY <1>1 DEF QueueTypes
  <2> HIDE DEF e, rest
  <2> QED BY <1>4, <2>1, <2>2, <2>3
<1>6. client' = [client EXCEPT ![c] = [pc |-> "enqueued", evt |-> e, rest |-> rest]]
  BY DEF TakeResult
<1>7. client \in [Clients -> ClientRecords] /\ client' \in [Clients -> ClientRecords]
  BY <1>1, <1>3, <1>6 DEF QueueTypes, ClientRecords
<1>8. Enqueuers' = Enqueuers \cup {c}
  BY <1>6, <1>7 DEF Enqueuers
<1>9. client[c].pc # "enqueued"
  BY DEF TakeResult
<1>10. Cardinality(Enqueuers') = Cardinality(Enqueuers) + 1
  BY <1>8, <1>9, OneMoreEnqueuer
<1>11. QueueTypes'
  BY <1>1, <1>5, <1>7 DEF QueueTypes
<1>12. SemCountsCommands'
  BY <1>1, <1>5, <1>10, BothGrow
<1> QED BY <1>11, <1>12 DEF SemInv

(* Where the posts to take are put aside. *)
LEMMA LastSwapped ==
  ASSUME NEW i \in Int, NEW j \in Int, NEW k \in Int, NEW n \in Int
  PROVE  i + j + k + n = (i + j + n) + k
  OBVIOUS

(* The two sides of the count, the clients between enqueue and post aside. *)
CommandsQueued == Len(api_queue) + Len(evt_queue)
PostsToTake == cmd_sem + unposted + (IF sm.pc = "dequeue" THEN 1 ELSE 0)

(* A step that leaves the clients alone has only its queues and posts to    *)
(* account for.                                                             *)
LEMMA ClientsUnmoved ==
  ASSUME SemInv, client' = client, owed' \subseteq AllEvts,
         api_queue' \in Seq(Commands), evt_queue' \in Seq(AllEvts),
         cmd_sem' \in Nat, unposted' \in Nat,
         sm' \in [pc : {"wait", "dequeue", "handle", "signal"}, cmd : Commands],
         CommandsQueued' - CommandsQueued = PostsToTake' - PostsToTake
  PROVE  SemInv'
<1>1. Enqueuers' = Enqueuers
  BY DEF Enqueuers
<1>2. QueueTypes'
  BY DEF SemInv, QueueTypes
<1>3. CommandsQueued \in Int /\ PostsToTake \in Int /\ Cardinality(Enqueuers) \in Int
  <2>1. /\ Len(api_queue) \in Nat /\ Len(evt_queue) \in Nat
        /\ cmd_sem \in Nat /\ unposted \in Nat /\ Cardinality(Enqueuers) \in Nat
    BY Numbers DEF SemInv
  <2> QED BY <2>1 DEF CommandsQueued, PostsToTake
<1>4. CommandsQueued' \in Int /\ PostsToTake' \in Int
  BY DEF CommandsQueued, PostsToTake
<1>5. PostsToTake + Cardinality(Enqueuers) = CommandsQueued
  <2> DEFINE took == IF sm.pc = "dequeue" THEN 1 ELSE 0
  <2>1. took \in Int
    OBVIOUS
  <2>2. cmd_sem + unposted + Cardinality(Enqueuers) + took = CommandsQueued
    BY DEF SemInv, SemCountsCommands, CommandsQueued
  <2>3. PostsToTake = cmd_sem + unposted + took
    BY DEF PostsToTake
  <2>4. cmd_sem \in Int /\ unposted \in Int /\ Cardinality(Enqueuers) \in Int
    BY Numbers DEF SemInv
  <2> HIDE DEF took
  <2>5. cmd_sem + unposted + Cardinality(Enqueuers) + took
          = (cmd_sem + unposted + took) + Cardinality(Enqueuers)
    BY <2>1, <2>4, LastSwapped
  <2> QED BY <2>2, <2>3, <2>5
<1>6. PostsToTake' + Cardinality(Enqueuers) = CommandsQueued'
  <2>1. CommandsQueued' - CommandsQueued = PostsToTake' - PostsToTake
    OBVIOUS
  <2> QED BY ONLY <1>3, <1>4, <1>5, <2>1
<1>7. Cardinality(Enqueuers') \in Nat
  BY <1>1, Numbers DEF SemInv
<1>8. SemCountsCommands'
  BY <1>1, <1>6, <1>7 DEF SemCountsCommands, CommandsQueued, PostsToTake
<1> QED BY <1>2, <1>8 DEF SemInv

(* smEvtProcRoutine takes a post, then a command from one of the queues. *)
LEMMA SmWaitStep == SemInv /\ SmWait => SemInv'
<1> SUFFICES ASSUME SemInv, SmWait PROVE SemInv'
  OBVIOUS
<1>1. QueueTypes
  BY DEF SemInv
<1>2. UNCHANGED <<api_queue, evt_queue, unposted, client, owed>>
  BY DEF SmWait
<1>3. cmd_sem > 0 /\ cmd_sem' = cmd_sem - 1
  BY DEF SmWait
<1>4. sm.pc = "wait" /\ sm' = [sm EXCEPT !.pc = "dequeue"]
  BY DEF SmWait
<1>5. /\ sm' \in [pc : {"wait", "dequeue", "handle", "signal"}, cmd : Commands]
      /\ sm'.pc = "dequeue"
  BY <1>1, <1>4 DEF QueueTypes
<1>6. cmd_sem' \in Nat
  BY <1>1, <1>3 DEF QueueTypes
<1> QED BY <1>1, <1>2, <1>3, <1>4, <1>5, <1>6, Numbers, ClientsUnmoved
      DEF QueueTypes, CommandsQueued, PostsToTake

(* The API queue first. *)
LEMMA DequeueApiStep == SemInv /\ DequeueApi => SemInv'
<1> SUFFICES ASSUME SemInv, DequeueApi PROVE SemInv'
  OBVIOUS
<1>1. QueueTypes
  BY DEF SemInv
<1>2. UNCHANGED <<evt_queue, cmd_sem, unposted, client, owed>>
  BY DEF DequeueApi
<1>3. sm.pc = "dequeue" /\ sm' = [pc |-> "handle", cmd |-> Head(api_queue)]
  BY DEF DequeueApi
<1>4. /\ Head(api_queue) \in Commands
      /\ api_queue' \in Seq(Commands) /\ Len(api_queue') = Len(api_queue) - 1
  BY <1>1 DEF DequeueApi, QueueTypes
<1>5. /\ sm' \in [pc : {"wait", "dequeue", "handle", "signal"}, cmd : Commands]
      /\ sm'.pc # "dequeue"
  BY <1>3, <1>4
<1> QED BY <1>1, <1>2, <1>3, <1>4, <1>5, Numbers, ClientsUnmoved
      DEF QueueTypes, CommandsQueued, PostsToTake

(* Then the event queue. *)
LEMMA DequeueEvtStep == SemInv /\ DequeueEvt => SemInv'
<1> SUFFICES ASSUME SemInv, DequeueEvt PROVE SemInv'
  OBVIOUS
<1>1. QueueTypes
  BY DEF SemInv
<1>2. UNCHANGED <<api_queue, cmd_sem, unposted, client, owed>>
  BY DEF DequeueEvt
<1>3. sm.pc = "dequeue" /\ sm' = [pc |-> "handle", cmd |-> Command(Head(evt_queue), None)]
  BY DEF DequeueEvt
<1>4. /\ Head(evt_queue) \in AllEvts
      /\ evt_queue' \in Seq(AllEvts) /\ Len(evt_queue') = Len(evt_queue) - 1
  BY <1>1 DEF DequeueEvt, QueueTypes
<1>5. Command(Head(evt_queue), None) \in Commands
  BY <1>4 DEF Command, Commands
<1>6. /\ sm' \in [pc : {"wait", "dequeue", "handle", "signal"}, cmd : Commands]
      /\ sm'.pc # "dequeue"
  BY <1>3, <1>5
<1> QED BY <1>1, <1>2, <1>3, <1>4, <1>6, Numbers, ClientsUnmoved
      DEF QueueTypes, CommandsQueued, PostsToTake

(* A handler queues at most one event, and posts it. *)
LEMMA HandleStep == SemInv /\ Handle => SemInv'
<1> SUFFICES ASSUME SemInv, Handle PROVE SemInv'
  OBVIOUS
<1>1. QueueTypes
  BY DEF SemInv
<1>2. UNCHANGED <<api_queue, unposted, client>>
  BY DEF Handle
<1>3. sm.pc = "handle" /\ sm' = [sm EXCEPT !.pc = "signal"]
  BY DEF Handle
<1>4. /\ sm' \in [pc : {"wait", "dequeue", "handle", "signal"}, cmd : Commands]
      /\ sm'.pc # "dequeue"
  BY <1>1, <1>3 DEF QueueTypes
<1>5. owed' \subseteq AllEvts
  BY <1>1 DEF Handle, Owes, QueueTypes, AllEvts
<1>6. \/ evt_queue' = Append(evt_queue, "SNAPSHOT_DONE") /\ cmd_sem' = cmd_sem + 1
      \/ UNCHANGED <<evt_queue, cmd_sem>>
  BY DEF Handle
<1>7. /\ evt_queue' \in Seq(AllEvts) /\ cmd_sem' \in Nat
      /\ Len(evt_queue') - Len(evt_queue) = cmd_sem' - cmd_sem
  <2>1. "SNAPSHOT_DONE" \in AllEvts
    BY DEF AllEvts
  <2>2. evt_queue \in Seq(AllEvts) /\ cmd_sem \in Nat
    BY <1>1 DEF QueueTypes
  <2>3. CASE evt_queue' = Append(evt_queue, "SNAPSHOT_DONE") /\ cmd_sem' = cmd_sem + 1
    BY <2>1, <2>2, <2>3
  <2>4. CASE UNCHANGED <<evt_queue, cmd_sem>>
    BY <2>2, <2>4
  <2> QED BY <1>6, <2>3, <2>4
<1> QED BY <1>1, <1>2, <1>3, <1>4, <1>5, <1>7, Numbers, ClientsUnmoved
      DEF QueueTypes, CommandsQueued, PostsToTake

(* Results and the waking of clients move no command. *)
LEMMA SignalStep == SemInv /\ signalAPIResult => SemInv'
<1> SUFFICES ASSUME SemInv, signalAPIResult PROVE SemInv'
  OBVIOUS
<1>1. QueueTypes /\ SemCountsCommands
  BY DEF SemInv
<1>2. UNCHANGED <<api_queue, evt_queue, cmd_sem, unposted, sm, owed>>
  BY DEF signalAPIResult
<1>3. client' = Woken
  BY DEF signalAPIResult
<1>4. client \in [Clients -> ClientRecords] /\ client' \in [Clients -> ClientRecords]
  BY <1>1, <1>3 DEF QueueTypes, Woken, ClientRecords
<1>5. Enqueuers' = Enqueuers
  BY <1>3, <1>4 DEF Enqueuers, Woken, ClientRecords
<1> QED BY <1>1, <1>2, <1>4, <1>5 DEF SemInv, QueueTypes, SemCountsCommands

(* The thread goes back to the queues. *)
LEMMA FinishStep == SemInv /\ Finish => SemInv'
<1> SUFFICES ASSUME SemInv, Finish PROVE SemInv'
  OBVIOUS
<1>1. QueueTypes
  BY DEF SemInv
<1>2. UNCHANGED <<api_queue, evt_queue, cmd_sem, unposted, client, owed>>
  BY DEF Finish
<1>3. sm.pc = "signal" /\ sm' = [pc |-> "wait", cmd |-> Nobody]
  BY DEF Finish
<1>4. Nobody \in Commands
  BY DEF Nobody, Commands
<1>5. /\ sm' \in [pc : {"wait", "dequeue", "handle", "signal"}, cmd : Commands]
      /\ sm'.pc # "dequeue"
  BY <1>3, <1>4
<1> QED BY <1>1, <1>2, <1>3, <1>5, Numbers, ClientsUnmoved
      DEF QueueTypes, CommandsQueued, PostsToTake

(* Every event queued from outside has a post to come. *)
LEMMA QueuedStep ==
  ASSUME SemInv, NEW e \in AllEvts, Queued(e), owed' \subseteq AllEvts,
         UNCHANGED <<api_queue, cmd_sem, sm, client>>
  PROVE  SemInv'
<1>1. QueueTypes
  BY DEF SemInv
<1>2. /\ evt_queue' \in Seq(AllEvts) /\ Len(evt_queue') = Len(evt_queue) + 1
      /\ unposted' \in Nat /\ unposted' = unposted + 1
  BY <1>1 DEF Queued, QueueTypes
<1> QED BY <1>1, <1>2, Numbers, ClientsUnmoved
      DEF QueueTypes, CommandsQueued, PostsToTake

(* So has every request that nobody waits for. *)
LEMMA LooseStep ==
  ASSUME SemInv, NEW e \in AllEvts, QueueLoose(e)
  PROVE  SemInv'
<1>1. QueueTypes
  BY DEF SemInv
<1>2. UNCHANGED <<evt_queue, cmd_sem, sm, client, owed>>
  BY DEF QueueLoose
<1>3. Command(e, None) \in Commands
  BY DEF Command, Commands
<1>4. /\ api_queue' \in Seq(Commands) /\ Len(api_queue') = Len(api_queue) + 1
      /\ unposted' \in Nat /\ unposted' = unposted + 1
  BY <1>1, <1>3 DEF QueueLoose, QueueTypes
<1> QED BY <1>1, <1>2, <1>4, Numbers, ClientsUnmoved
      DEF QueueTypes, CommandsQueued, PostsToTake

(* The post comes. *)
LEMMA PostOtherStep == SemInv /\ PostOther => SemInv'
<1> SUFFICES ASSUME SemInv, PostOther PROVE SemInv'
  OBVIOUS
<1>1. QueueTypes
  BY DEF SemInv
<1>2. UNCHANGED <<api_queue, evt_queue, sm, client, owed>>
  BY DEF PostOther
<1>3. /\ cmd_sem' = cmd_sem + 1 /\ unposted' = unposted - 1
      /\ cmd_sem' \in Nat /\ unposted' \in Nat
  BY <1>1 DEF PostOther, QueueTypes
<1> QED BY <1>1, <1>2, <1>3, Numbers, ClientsUnmoved
      DEF QueueTypes, CommandsQueued, PostsToTake

(* What touches neither queues nor clients leaves the count alone. *)
LEMMA RestStep ==
  ASSUME SemInv, UNCHANGED <<api_queue, evt_queue, cmd_sem, unposted, sm, client, owed>>
  PROVE  SemInv'
  BY DEF SemInv, QueueTypes, SemCountsCommands, Enqueuers

(* Every step of every thread keeps the count. *)
LEMMA NextSemInv == SemInv /\ [ApiNext]_allvars => SemInv'
<1> SUFFICES ASSUME SemInv, [ApiNext]_allvars PROVE SemInv'
  OBVIOUS
<1>1. ASSUME NEW c \in Clients, Call(c) \/ TakePictureCall(c) PROVE SemInv'
  <2>1. CASE Call(c)
    <3>1. PICK e \in CallsOf[c] \ {take_picture} : Enter(c, e, <<>>)
      BY <2>1 DEF Call
    <3>2. CallsOf[c] \subseteq AllEvts \cup {take_picture}
      BY CallsAssumption DEF ApiEvts
    <3>3. e \in AllEvts /\ <<>> \in Seq(AllEvts)
      BY <3>2
    <3> QED BY <3>1, <3>3, EnterStep
  <2>2. CASE TakePictureCall(c)
    <3>1. "TAKE_PICTURE" \in AllEvts /\ "PREPARE_SNAPSHOT" \in AllEvts
      BY DEF AllEvts
    <3>2. /\ <<>> \in Seq(AllEvts) /\ <<"TAKE_PICTURE">> \in Seq(AllEvts)
          /\ <<"PREPARE_SNAPSHOT">> \in Seq(AllEvts)
      BY <3>1
    <3>3. \/ Enter(c, "TAKE_PICTURE", <<"PREPARE_SNAPSHOT">>)
          \/ Enter(c, "PREPARE_SNAPSHOT", <<"TAKE_PICTURE">>)
          \/ Enter(c, "TAKE_PICTURE", <<>>)
      BY <2>2 DEF TakePictureCall
    <3> QED BY <3>1, <3>2, <3>3, EnterStep
  <2> QED BY <1>1, <2>1, <2>2
<1>2. ASSUME NEW c \in Clients, ClientStep(c) PROVE SemInv'
  BY <1>2, SemPostStep, WaitStep, LeaveStep, NextRequestStep DEF ClientStep
<1>3. ASSUME SmStep PROVE SemInv'
  BY <1>3, SmWaitStep, DequeueApiStep, DequeueEvtStep, HandleStep, SignalStep, FinishStep DEF SmStep
<1>4. ASSUME Pipeline PROVE SemInv'
  <2>1. "SNAPSHOT_DONE" \in AllEvts /\ owed \subseteq AllEvts
    BY DEF AllEvts, SemInv, QueueTypes
  <2>2. CASE processSyncEvt
    BY <2>1, <2>2, QueuedStep DEF processSyncEvt
  <2>3. ASSUME NEW e \in AllEvts, DaemonReports(e) PROVE SemInv'
    BY <2>1, <2>3, QueuedStep DEF DaemonReports
  <2> QED BY <1>4, <2>2, <2>3 DEF Pipeline
<1>5. ASSUME LiveThread PROVE SemInv'
  <2>1. CASE LiveThreadStarts
    BY <2>1, RestStep DEF LiveThreadStarts, rendezvous
  <2>2. CASE LiveThreadFails /\ QueueLoose("CANCEL_PICTURE")
    <3>1. "CANCEL_PICTURE" \in AllEvts
      BY DEF AllEvts
    <3> QED BY <2>2, <3>1, LooseStep
  <2>3. CASE LiveThreadFails /\ UNCHANGED rendezvous
    BY <2>3, RestStep DEF rendezvous
  <2> QED BY <1>5, <2>1, <2>2, <2>3 DEF LiveThread, LiveThreadFails
<1>6. ASSUME DaemonDies PROVE SemInv'
  <2>1. "DAEMON_DIED" \in AllEvts
    BY DEF AllEvts
  <2> QED BY <1>6, <2>1, QueuedStep DEF DaemonDies
<1>7. ASSUME NEW e \in LooseApis, LooseApi(e) PROVE SemInv'
  BY <1>7, LooseAssumption, LooseStep DEF LooseApi, ApiEvts
<1>8. ASSUME PostOther PROVE SemInv'
  BY <1>8, PostOtherStep
<1>9. CASE UNCHANGED allvars
  BY <1>9, RestStep DEF allvars, rendezvous
<1> QED BY <1>1, <1>2, <1>3, <1>4, <1>5, <1>6, <1>7, <1>8, <1>9 DEF ApiNext

(* smEvtProcRoutine never waits while a posted command is queued, and never  *)
(* wakes for nothing, however enqueues and posts of all threads interleave.  *)
THEOREM SemaphoreCounts == ApiSpec => []SemCountsCommands
<1>1. SemInv => SemCountsCommands
  BY DEF SemInv
<1> QED BY InitSemInv, NextSemInv, <1>1, PTL DEF ApiSpec

-----------------------------------------------------------------------------
(***************************************************************************)
(* The state machine behind the queues.  Every command handed to it is one *)
(* it has handlers for, so its invariant holds under every interleaving,   *)
(* and what is signalled from it is a result.                              *)
(***************************************************************************)
RealCommands == [evt : AllEvts, owner : Clients \cup {None}]

CommandsReal ==
    /\ api_queue \in Seq(RealCommands)
    /\ sm.pc = "handle" => sm.cmd \in RealCommands

RestTyped ==
    /\ m_lock \in Clients \cup {None}
    /\ m_apiResultList \in Seq(Results)
    /\ notifier \in BOOLEAN /\ daemon \in {"up", "dead"} /\ loose \in 0 .. MaxLoose

TypeInv == IInv /\ SemInv /\ CommandsReal /\ RestTyped

LEMMA RealCommand ==
  ASSUME NEW e \in AllEvts, NEW o \in Clients \cup {None}
  PROVE  Command(e, o) \in RealCommands
  BY DEF Command, RealCommands

(* A list of results less its first is one too. *)
LEMMA TailTyped ==
  ASSUME NEW o \in Outputs, o.api # <<>>
  PROVE  [o EXCEPT !.api = Tail(o.api)] \in Outputs /\ Head(o.api) \in Results
<1> DEFINE Lists == UNION {[1 .. n -> Results] : n \in 0 .. 2}
<1>1. PICK n \in 0 .. 2 : o.api \in [1 .. n -> Results]
  BY DEF Outputs
<1>2. \A k \in 0 .. 2 : \A l \in [1 .. k -> Results] : l \in Lists
  OBVIOUS
<1>3. o.api \in Seq(Results) /\ Len(o.api) = n /\ n # 0
  BY <1>1
<1>4. Head(o.api) \in Results
  BY <1>3
<1>5. /\ n - 1 \in 0 .. 2
      /\ Tail(o.api) \in Seq(Results) /\ Len(Tail(o.api)) = n - 1
  BY <1>3
<1>6. Tail(o.api) \in Lists
  <2> DEFINE t == Tail(o.api)
  <2>1. t \in Seq(Results) /\ Len(t) \in 0 .. 2
    BY <1>5
  <2> HIDE DEF t, Lists
  <2>2. t \in [1 .. Len(t) -> Results]
    BY <2>1
  <2>3. t \in Lists
    BY ONLY <1>2, <2>1, <2>2, Zenon
  <2> QED BY <2>3 DEF t
<1>7. Outputs = [api : Lists, done : BOOLEAN, post : BOOLEAN]
  BY DEF Outputs
<1> HIDE DEF Lists
<1> QED BY <1>4, <1>6, <1>7

(* A result taken off the list leaves the others in their order. *)
LEMMA RemoveAtTyped ==
  ASSUME NEW S, NEW s \in Seq(S), NEW i \in 1 .. Len(s)
  PROVE  /\ RemoveAt(s, i) \in Seq(S)
         /\ Len(RemoveAt(s, i)) = Len(s) - 1
         /\ \A j \in 1 .. Len(s) - 1 : RemoveAt(s, i)[j] = s[IF j < i THEN j ELSE j + 1]
<1> DEFINE a == SubSeq(s, 1, i - 1)
           b == SubSeq(s, i + 1, Len(s))
<1>1. a \in Seq(S) /\ Len(a) = i - 1 /\ \A j \in 1 .. i - 1 : a[j] = s[j]
  OBVIOUS
<1>2. b \in Seq(S) /\ Len(b) = Len(s) - i /\ \A j \in 1 .. Len(s) - i : b[j] = s[i + j]
  OBVIOUS
<1>3. RemoveAt(s, i) = a \o b
  BY DEF RemoveAt
<1> HIDE DEF a, b
<1>4. /\ a \o b \in Seq(S) /\ Len(a \o b) = Len(a) + Len(b)
      /\ \A j \in 1 .. Len(a) + Len(b) : (a \o b)[j] = IF j <= Len(a) THEN a[j] ELSE b[j - Len(a)]
  BY <1>1, <1>2, ConcatProperties
<1>5. Len(a) + Len(b) = Len(s) - 1
  BY <1>1, <1>2
<1>6. ASSUME NEW j \in 1 .. Len(s) - 1
      PROVE  (a \o b)[j] = s[IF j < i THEN j ELSE j + 1]
  <2>1. CASE j < i
    BY <1>1, <1>4, <1>5, <2>1
  <2>2. CASE ~(j < i)
    <3>1. (a \o b)[j] = b[j - i + 1] /\ j - i + 1 \in 1 .. Len(s) - i
      BY <1>1, <1>4, <1>5, <2>2
    <3>2. b[j - i + 1] = s[i + (j - i + 1)]
      BY <1>2, <3>1
    <3> QED BY <2>2, <3>1, <3>2
  <2> QED BY <2>1, <2>2
<1> QED BY <1>3, <1>4, <1>5, <1>6

(* The first of a non-empty set of positions is one of them. *)
LEMMA FirstIsMember ==
  ASSUME NEW S \in SUBSET Nat, S # {}
  PROVE  First(S) \in S
<1>1. PICK i \in S : \A j \in S : <<j, i>> \notin OpToRel(<, Nat)
  BY NatLessThanWellFounded, WFMin
<1>2. \A j \in S : ~(j < i)
  BY <1>1, Zenon DEF OpToRel
<1>3. i \in S /\ \A j \in S : i <= j
  BY <1>2
<1> QED BY <1>3, Zenon DEF First

LEMMA InitTypeInv == ApiInit => TypeInv
<1> SUFFICES ASSUME ApiInit PROVE TypeInv OBVIOUS
<1>1. IInv
  BY InitFits DEF ApiInit
<1>2. SemInv
  BY InitSemInv
<1>3. CommandsReal
  BY DEF ApiInit, CommandsReal
<1>4. RestTyped
  <2>1. 0 \in 0 .. MaxLoose /\ <<>> \in Seq(Results)
    BY LooseAssumption
  <2> QED BY <2>1 DEF ApiInit, RestTyped
<1> QED BY <1>1, <1>2, <1>3, <1>4 DEF TypeInv

(* An invariant of the state machine looks at its variables only. *)
LEMMA CoreUnmoved == IInv /\ UNCHANGED core => IInv'
  BY DEF IInv, core, vars

(* A client that enqueues a command enqueues a real one. *)
LEMMA EnterTyped ==
  ASSUME TypeInv, NEW c \in Clients, NEW e \in AllEvts, NEW rest, Enter(c, e, rest)
  PROVE  CommandsReal' /\ RestTyped'
<1>1. api_queue' = Append(api_queue, Command(e, c)) /\ sm' = sm /\ m_lock' = c
  BY DEF Enter
<1>2. Command(e, c) \in RealCommands
  BY RealCommand
<1>3. api_queue' \in Seq(RealCommands)
  BY <1>1, <1>2, AppendProperties DEF TypeInv, CommandsReal
<1>4. UNCHANGED <<m_apiResultList, notifier, daemon, loose>>
  BY DEF Enter
<1> QED BY <1>1, <1>3, <1>4 DEF TypeInv, CommandsReal, RestTyped

LEMMA ClientStepTyped ==
  ASSUME TypeInv, NEW c \in Clients, ClientStep(c)
  PROVE  CommandsReal' /\ RestTyped'
<1> USE DEF TypeInv, SemInv
<1>1. CASE SemPost(c) \/ CondWait(c) \/ SleepOn(c)
  BY <1>1 DEF SemPost, CondWait, SleepOn, CommandsReal, RestTyped
<1>2. CASE TakeResult(c)
  <2>1. UNCHANGED <<sm, notifier, daemon, loose>>
    BY <1>2 DEF TakeResult
  <2>2. m_apiResultList' \in Seq(Results)
    <3>1. m_apiResultList \in Seq(Results)
      BY DEF RestTyped
    <3>2. Answers(c) \in SUBSET Nat /\ Answers(c) # {}
      BY <1>2, <3>1 DEF TakeResult, Answers
    <3>3. First(Answers(c)) \in Answers(c)
      BY <3>2, FirstIsMember
    <3>4. First(Answers(c)) \in 1 .. Len(m_apiResultList)
      BY <3>1, <3>3 DEF Answers
    <3> QED BY <1>2, <3>1, <3>4, RemoveAtTyped DEF TakeResult
  <2>3. CASE client[c].rest = <<>>
    BY <1>2, <2>1, <2>2, <2>3 DEF TakeResult, CommandsReal, RestTyped
  <2>4. CASE client[c].rest # <<>>
    <3>1. client[c].rest \in Seq(AllEvts)
      BY DEF QueueTypes, ClientRecords
    <3>2. Head(client[c].rest) \in AllEvts
      BY <2>4, <3>1
    <3>3. /\ api_queue' = Append(api_queue, Command(Head(client[c].rest), c))
          /\ m_lock' = c
      BY <1>2, <2>4 DEF TakeResult
    <3>4. api_queue' \in Seq(RealCommands)
      BY <3>2, <3>3, RealCommand, AppendProperties DEF CommandsReal
    <3> QED BY <2>1, <2>2, <3>3, <3>4 DEF CommandsReal, RestTyped
  <2> QED BY <2>3, <2>4
<1> QED BY <1>1, <1>2 DEF ClientStep

LEMMA SmStepTyped ==
  ASSUME TypeInv, SmStep
  PROVE  IInv' /\ CommandsReal' /\ RestTyped'
<1> USE DEF TypeInv, SemInv
<1>1. CASE SmWait
  BY <1>1, CoreUnmoved DEF SmWait, CommandsReal, RestTyped, QueueTypes
<1>2. CASE DequeueApi
  <2>1. Head(api_queue) \in RealCommands /\ Tail(api_queue) \in Seq(RealCommands)
    BY <1>2, HeadTailProperties DEF DequeueApi, CommandsReal
  <2> QED BY <1>2, <2>1, CoreUnmoved DEF DequeueApi, CommandsReal, RestTyped
<1>3. CASE DequeueEvt
  <2>1. Head(evt_queue) \in AllEvts
    BY <1>3, HeadTailProperties DEF DequeueEvt, QueueTypes
  <2>2. Command(Head(evt_queue), None) \in RealCommands
    BY <2>1, RealCommand
  <2> QED BY <1>3, <2>2, CoreUnmoved DEF DequeueEvt, CommandsReal, RestTyped
<1>4. CASE Handle
  <2>1. sm.cmd.evt \in AllEvts
    BY <1>4 DEF Handle, CommandsReal, RealCommands
  <2>2. IInv'
    BY <1>4, <2>1, HandlersFit DEF Handle
  <2>3. sm'.pc = "signal"
    BY <1>4 DEF Handle, QueueTypes
  <2> QED BY <1>4, <2>2, <2>3 DEF Handle, CommandsReal, RestTyped
<1>5. CASE signalAPIResult
  <2>1. out \in Outputs /\ out.api # <<>>
    BY <1>5 DEF signalAPIResult, IInv, Signals
  <2>2. out' \in Outputs /\ Head(out.api) \in Results
    BY <1>5, <2>1, TailTyped DEF signalAPIResult
  <2>3. IInv'
    BY <1>5, <2>2 DEF signalAPIResult, IInv, Signals
  <2>4. m_apiResultList' \in Seq(Results)
    BY <1>5, <2>2, AppendProperties DEF signalAPIResult, RestTyped
  <2> QED BY <1>5, <2>3, <2>4 DEF signalAPIResult, CommandsReal, RestTyped
<1>6. CASE Finish
  <2>1. IInv'
    BY <1>6, SignalsTyped DEF Finish, IInv, Signals
  <2>2. CommandsReal'
    BY <1>6 DEF Finish, CommandsReal
  <2>3. RestTyped'
    BY <1>6 DEF Finish, RestTyped
  <2> QED BY <2>1, <2>2, <2>3
<1> QED BY <1>1, <1>2, <1>3, <1>4, <1>5, <1>6 DEF SmStep

(* Threads that queue a command queue a real one. *)
LEMMA LooseTyped ==
  ASSUME TypeInv, NEW e \in AllEvts, QueueLoose(e)
  PROVE  /\ CommandsReal'
         /\ UNCHANGED <<m_lock, m_apiResultList, notifier, daemon>>
<1>1. Command(e, None) \in RealCommands
  BY RealCommand
<1>2. api_queue' \in Seq(RealCommands)
  BY <1>1, AppendProperties DEF QueueLoose, TypeInv, CommandsReal
<1> QED BY <1>2 DEF QueueLoose, TypeInv, CommandsReal

LEMMA NextTypeInv == TypeInv /\ [ApiNext]_allvars => TypeInv'
<1> SUFFICES ASSUME TypeInv, [ApiNext]_allvars PROVE TypeInv'
  OBVIOUS
<1> USE DEF TypeInv
<1>0. SemInv'
  BY NextSemInv
<1>1. ASSUME NEW c \in Clients, Call(c) \/ TakePictureCall(c)
      PROVE  IInv' /\ CommandsReal' /\ RestTyped'
  <2>1. CASE Call(c)
    <3>1. PICK e \in CallsOf[c] \ {take_picture} : Enter(c, e, <<>>) /\ UNCHANGED core
      BY <2>1 DEF Call
    <3>2. CallsOf[c] \subseteq AllEvts \cup {take_picture}
      BY CallsAssumption DEF ApiEvts
    <3>3. e \in AllEvts
      BY <3>2
    <3> QED BY <3>1, <3>3, CoreUnmoved, EnterTyped
  <2>2. CASE TakePictureCall(c)
    <3>1. "TAKE_PICTURE" \in AllEvts /\ "PREPARE_SNAPSHOT" \in AllEvts
      BY DEF AllEvts
    <3>2. PICK e \in {"TAKE_PICTURE", "PREPARE_SNAPSHOT"}, b \in BOOLEAN :
             setRetroPicture(b) /\ \E rest : Enter(c, e, rest)
      BY <2>2 DEF TakePictureCall
    <3>3. IInv'
      BY <3>2 DEF setRetroPicture, IInv
    <3> QED BY <3>1, <3>2, <3>3, EnterTyped
  <2> QED BY <1>1, <2>1, <2>2
<1>2. ASSUME NEW c \in Clients, ClientStep(c)
      PROVE  IInv' /\ CommandsReal' /\ RestTyped'
  <2>1. UNCHANGED core
    BY <1>2 DEF ClientStep, SemPost, CondWait, SleepOn, TakeResult
  <2> QED BY <1>2, <2>1, CoreUnmoved, ClientStepTyped
<1>3. CASE SmStep
  BY <1>0, <1>3, SmStepTyped
<1>4. CASE Pipeline
  BY <1>0, <1>4, CoreUnmoved DEF Pipeline, processSyncEvt, DaemonReports, CommandsReal, RestTyped
<1>5. CASE LiveThread
  <2>1. IInv'
    BY <1>5, LiveThreadFits DEF LiveThread, LiveThreadStarts, LiveThreadFails
  <2>2. CASE UNCHANGED rendezvous
    BY <2>1, <2>2, <1>0 DEF rendezvous, CommandsReal, RestTyped
  <2>3. CASE QueueLoose("CANCEL_PICTURE") /\ UNCHANGED loose
    <3>1. "CANCEL_PICTURE" \in AllEvts
      BY DEF AllEvts
    <3> QED BY <1>0, <2>1, <2>3, <3>1, LooseTyped DEF RestTyped
  <2> QED BY <1>5, <2>2, <2>3 DEF LiveThread, LiveThreadStarts, LiveThreadFails
<1>6. CASE DaemonDies
  BY <1>0, <1>6, CoreUnmoved DEF DaemonDies, CommandsReal, RestTyped
<1>7. ASSUME NEW e \in LooseApis, LooseApi(e)
      PROVE  IInv' /\ CommandsReal' /\ RestTyped'
  <2>1. e \in AllEvts
    BY LooseAssumption DEF ApiEvts
  <2>2. loose' \in 0 .. MaxLoose
    BY <1>7, LooseAssumption DEF LooseApi, RestTyped
  <2> QED BY <1>7, <2>1, <2>2, CoreUnmoved, LooseTyped DEF LooseApi, RestTyped
<1>8. CASE PostOther
  BY <1>0, <1>8, CoreUnmoved DEF PostOther, CommandsReal, RestTyped
<1>9. CASE UNCHANGED allvars
  BY <1>0, <1>9, CoreUnmoved DEF allvars, rendezvous, CommandsReal, RestTyped
<1> QED
  BY <1>0, <1>1, <1>2, <1>3, <1>4, <1>5, <1>6, <1>7, <1>8, <1>9 DEF ApiNext

(* Under every interleaving of the callers, the daemon and the state machine *)
(* thread, every queue, record and list keeps its type, and the state machine *)
(* is only ever handed commands it has handlers for.                         *)
THEOREM ApiTypeCorrect == ApiSpec => []ApiTypeOK
<1>1. TypeInv => ApiTypeOK
  BY DEF TypeInv, IInv, Fits, Signals, KeptMessages, TypeOK, SemInv, QueueTypes, RestTyped,
         ClientRecords, ApiTypeOK
<1> QED
  BY InitTypeInv, NextTypeInv, <1>1, PTL DEF ApiSpec

(* The state machine's own invariants hold behind the queues as they do for *)
(* commands handed to it directly: it records exactly while video streams.  *)
THEOREM ApiRecordsIffVideoRuns == ApiSpec => []VideoIffRecording
<1>1. TypeInv => VideoIffRecording
  BY DEF TypeInv, IInv, Fits, VideoRuns, VideoIffRecording, Running, Recording
<1> QED
  BY InitTypeInv, NextTypeInv, <1>1, PTL DEF ApiSpec

-----------------------------------------------------------------------------
(***************************************************************************)
(* What the handlers leave to the threads around them, as long as nobody   *)
(* asks for ZSL: which commands are answered, and at once or by an event.  *)
(***************************************************************************)
Plain(h) == h.zsl = FALSE /\ h.zslNew = FALSE

(* g is h with other channels, or with pending modes committed.             *)
KeepsModes(g, h) ==
    /\ g \in Hardware
    /\ Plain(h) => Plain(g)
    /\ g.longshot = h.longshot /\ g.live = h.live

KeepOutcomes(S, h) == \A o \in S : KeepsModes(o.hw, h)

LEMMA KeepsTransitive ==
  ASSUME NEW h, NEW g, NEW k, KeepsModes(g, h), KeepsModes(k, g)
  PROVE  KeepsModes(k, h)
  BY DEF KeepsModes

LEMMA ChannelsKeep ==
  ASSUME NEW h \in Hardware, NEW T \in SUBSET ChTypes
  PROVE  /\ KeepsModes(h, h)
         /\ \A s \in ChStatus : KeepsModes(SetCh(h, T, s), h)
         /\ KeepsModes(delChannels(h, T), h)
<1>1. \A s \in ChStatus : SetCh(h, T, s) \in Hardware
  BY SetChannels
<1>2. \A s \in ChStatus : KeepsModes(SetCh(h, T, s), h)
  BY <1>1 DEF KeepsModes, Plain, SetCh, Hardware
<1>3. "null" \in ChStatus
  BY DEF ChStatus
<1> QED BY <1>2, <1>3 DEF KeepsModes, delChannels

LEMMA OneChannelKeeps ==
  ASSUME NEW h \in Hardware, NEW t \in ChTypes
  PROVE  /\ KeepOutcomes(addChannel(h, t), h)
         /\ KeepOutcomes(startChannel(h, t), h)
         /\ KeepsModes(stopChannel(h, t).hw, h)
<1>1. /\ KeepsModes(h, h)
      /\ \A s \in ChStatus : KeepsModes(SetCh(h, {t}, s), h)
  BY ChannelsKeep
<1>2. {"null", "added", "started"} = ChStatus
  BY DEF ChStatus
<1>3. \A o \in addChannel(h, t) : o.hw \in {SetCh(h, {t}, "added"), SetCh(h, {t}, "null")}
  BY OutcomeParts DEF addChannel
<1>4. \A o \in startChannel(h, t) : o.hw \in {h, SetCh(h, {t}, "started")}
  BY OutcomeParts DEF startChannel
<1>5. stopChannel(h, t).hw \in {h, SetCh(h, {t}, "added")}
  BY OutcomeParts DEF stopChannel
<1> QED BY <1>1, <1>2, <1>3, <1>4, <1>5 DEF KeepOutcomes

LEMMA PreviewKeeps ==
  ASSUME NEW h \in Hardware
  PROVE  /\ KeepOutcomes(preparePreview(h), h)
         /\ KeepOutcomes(startPreview(h), h)
         /\ KeepsModes(unpreparePreview(h), h) /\ KeepsModes(stopPreview(h), h)
         /\ KeepsModes(releaseChannels(h), h)
         /\ KeepOutcomes(commitParameterChanges(h), h)
<1> DEFINE all == {"SNAPSHOT", "VIDEO", "PREVIEW"}
           cut == {{}, {"SNAPSHOT"}, {"SNAPSHOT", "VIDEO"}, all}
<1>0. KeepsModes(h, h)
  BY ChannelsKeep
<1>1. \A T \in SUBSET ChTypes :
         KeepsModes(SetCh(h, T, "added"), h) /\ KeepsModes(delChannels(h, T), h)
  BY ChannelsKeep DEF ChStatus
<1>2. all \in SUBSET ChTypes /\ cut \subseteq SUBSET ChTypes
  BY DEF ChTypes
<1>3. "ZSL" \in ChTypes /\ "PREVIEW" \in ChTypes
  BY DEF ChTypes
<1>4. ASSUME NEW o \in preparePreview(h)
      PROVE  \/ o \in addChannel(h, "ZSL") \cup addChannel(h, "PREVIEW")
             \/ o.hw \in {h, SetCh(h, all, "added")}
             \/ \E T \in cut : o.hw = delChannels(h, T)
  <2>1. CASE ZslPreview(h) \/ ~h.hint
    BY <2>1, OutcomeParts DEF preparePreview
  <2>2. CASE ~ZslPreview(h) /\ h.hint
    <3>1. preparePreview(h) = {Done(SetCh(h, all, "added"))}
                                \cup UNION {MayFail(delChannels(h, T)) : T \in cut}
      BY <2>2 DEF preparePreview
    <3> HIDE DEF all, cut
    <3>2. o = Done(SetCh(h, all, "added")) \/ \E T \in cut : o = Failed(delChannels(h, T))
      BY ZenonT(40), <3>1, OutcomeParts
    <3> QED BY <3>2, OutcomeParts
  <2> QED BY <2>1, <2>2
<1> HIDE DEF all, cut
<1>5. KeepOutcomes(preparePreview(h), h)
  BY <1>0, <1>1, <1>2, <1>3, <1>4, OneChannelKeeps DEF KeepOutcomes
<1>6. KeepOutcomes(startPreview(h), h)
  BY <1>3, OneChannelKeeps DEF startPreview
<1>7. /\ KeepsModes(unpreparePreview(h), h) /\ KeepsModes(stopPreview(h), h)
      /\ KeepsModes(releaseChannels(h), h)
  BY <1>1 DEF unpreparePreview, stopPreview, releaseChannels, ChTypes
<1>8. KeepOutcomes(commitParameterChanges(h), h)
  <2> DEFINE committed == [h EXCEPT !.zsl = h.zslNew, !.hint = h.hintNew, !.hintStr = h.hintPend]
  <2>1. KeepsModes(committed, h)
    BY DEF KeepsModes, Plain, Hardware
  <2>2. \A o \in commitParameterChanges(h) : o.hw \in {h, committed}
    BY OutcomeParts DEF commitParameterChanges
  <2> HIDE DEF committed
  <2> QED BY <1>0, <2>1, <2>2 DEF KeepOutcomes
<1> QED BY <1>5, <1>6, <1>7, <1>8

LEMMA RecordingKeeps ==
  ASSUME NEW h \in Hardware
  PROVE  KeepOutcomes(startRecording(h), h)
<1> DEFINE hinting == [stopPreview(h) EXCEPT !.hintNew = TRUE]
           hinted == {o.hw : o \in commitParameterChanges(hinting)}
           Rebuild(g) == Then(preparePreview(g), LAMBDA x : startChannel(x, "PREVIEW"))
           preview == IF h.hint THEN {Done(h)} ELSE UNION {Rebuild(g) : g \in hinted}
<1>0. "PREVIEW" \in ChTypes /\ "VIDEO" \in ChTypes /\ KeepsModes(h, h)
  BY ChannelsKeep DEF ChTypes
<1>1. KeepsModes(hinting, h)
  BY ZenonT(40), PreviewKeeps DEF KeepsModes, Plain, Hardware
<1>2. \A g \in hinted : KeepsModes(g, h)
  <2>1. KeepOutcomes(commitParameterChanges(hinting), hinting)
    BY <1>1, PreviewKeeps DEF KeepsModes
  <2> HIDE DEF hinting
  <2> QED BY <1>1, <2>1, KeepsTransitive DEF KeepOutcomes
<1>3. ASSUME NEW g, KeepsModes(g, h)
      PROVE  KeepOutcomes(Rebuild(g), h)
  <2>1. g \in Hardware
    BY <1>3 DEF KeepsModes
  <2>2. \A o \in preparePreview(g) : KeepsModes(o.hw, h) /\ o.hw \in Hardware
    BY <1>3, <2>1, PreviewKeeps, KeepsTransitive DEF KeepOutcomes, KeepsModes
  <2>3. \A o \in preparePreview(g) : \A s \in startChannel(o.hw, "PREVIEW") : KeepsModes(s.hw, h)
    BY <1>0, <2>2, OneChannelKeeps, KeepsTransitive DEF KeepOutcomes
  <2> QED BY <2>2, <2>3 DEF Then, KeepOutcomes
<1>4. startRecording(h) = Then(preview, LAMBDA x : startChannel(x, "VIDEO"))
  BY DEF startRecording
<1> HIDE DEF hinted, Rebuild
<1>5. KeepOutcomes(preview, h)
  <2>1. CASE h.hint
    BY <1>0, <2>1, OutcomeParts DEF KeepOutcomes
  <2>2. CASE ~h.hint
    BY <1>2, <1>3, <2>2 DEF KeepOutcomes
  <2> QED BY <2>1, <2>2
<1> HIDE DEF preview
<1>6. \A o \in preview : \A s \in startChannel(o.hw, "VIDEO") : KeepsModes(s.hw, h)
  BY <1>0, <1>5, OneChannelKeeps, KeepsTransitive DEF KeepOutcomes, KeepsModes
<1> QED BY <1>4, <1>5, <1>6 DEF Then, KeepOutcomes

LEMMA RebuildKeeps ==
  ASSUME NEW h \in Hardware
  PROVE  KeepOutcomes(PrepareAndStart(h), h) /\ KeepOutcomes(Rebuilt(h), h)
<1>1. ASSUME NEW g \in Hardware
      PROVE  KeepOutcomes(PrepareAndStart(g), g)
  <2>1. \A o \in PrepareAndStart(g) : \E p \in preparePreview(g) :
           o.hw = p.hw \/ \E s \in startPreview(p.hw) : o.hw \in {s.hw, unpreparePreview(s.hw)}
    BY DEF PrepareAndStart
  <2>2. \A p \in preparePreview(g) : KeepsModes(p.hw, g) /\ p.hw \in Hardware
    BY PreviewKeeps DEF KeepOutcomes, KeepsModes
  <2>3. \A p \in preparePreview(g) : \A s \in startPreview(p.hw) :
           KeepsModes(s.hw, g) /\ s.hw \in Hardware
    BY <2>2, PreviewKeeps, KeepsTransitive DEF KeepOutcomes, KeepsModes
  <2>4. \A p \in preparePreview(g) : \A s \in startPreview(p.hw) : KeepsModes(unpreparePreview(s.hw), g)
    BY <2>3, PreviewKeeps, KeepsTransitive
  <2> QED BY <2>1, <2>2, <2>3, <2>4 DEF KeepOutcomes
<1>2. KeepsModes(stopPreview(h), h) /\ stopPreview(h) \in Hardware
  BY PreviewKeeps DEF KeepsModes
<1> QED BY <1>1, <1>2, KeepsTransitive DEF Rebuilt, KeepOutcomes

(* Pictures, but for the thread of a live one. *)
LEMMA PicturesKeep ==
  ASSUME NEW h \in Hardware
  PROVE  /\ KeepOutcomes(takePicture(h), h) /\ KeepOutcomes(longShot(h), h)
         /\ KeepsModes(cancelPicture(h), h) /\ KeepsModes(stopCaptureChannel(h).hw, h)
         /\ KeepsModes(stopRecording(h).hw, h)
<1> DEFINE g == delChannels(h, {"PREVIEW"})
           captures == SetCh(g, {"CAPTURE"}, "started")
           gone == delChannels(g, {"CAPTURE"})
<1>0. {"PREVIEW"} \in SUBSET ChTypes /\ {"CAPTURE"} \in SUBSET ChTypes /\ "started" \in ChStatus
      /\ "CAPTURE" \in ChTypes /\ "VIDEO" \in ChTypes
  BY DEF ChTypes, ChStatus
<1>1. KeepsModes(h, h) /\ KeepsModes(g, h) /\ g \in Hardware
  BY <1>0, ChannelsKeep DEF KeepsModes
<1>2. KeepsModes(captures, h) /\ KeepsModes(gone, h)
  <2> HIDE DEF g
  <2> QED BY <1>0, <1>1, ChannelsKeep, KeepsTransitive
<1>3. \A o \in takePicture(h) : o.hw \in {h, g, captures, gone}
  BY OutcomeParts DEF takePicture
<1>4. \A o \in longShot(h) : o.hw = h
  BY OutcomeParts DEF longShot
<1>5. KeepsModes(cancelPicture(h), h)
  BY <1>0, <1>1, ChannelsKeep DEF cancelPicture
<1>6. KeepsModes(stopCaptureChannel(h).hw, h) /\ KeepsModes(stopRecording(h).hw, h)
  BY <1>0, OneChannelKeeps DEF stopCaptureChannel, stopRecording
<1> HIDE DEF g, captures, gone
<1> QED BY <1>1, <1>2, <1>3, <1>4, <1>5, <1>6 DEF KeepOutcomes

(* The thread of a live picture is started, or joined. *)
LEMMA LiveThreadModes ==
  ASSUME NEW h \in Hardware
  PROVE  /\ \A o \in takeLiveSnapshot(h) :
               /\ Plain(h) => Plain(o.hw)
               /\ o.hw.longshot = h.longshot
               /\ o.ok = FALSE => o.hw = h
         /\ Plain(h) => Plain(cancelLiveSnapshot(h).hw)
         /\ cancelLiveSnapshot(h).hw.longshot = h.longshot
         /\ cancelLiveSnapshot(h).hw.live = "none"
         /\ cancelLiveSnapshot(h).hw \in Hardware
<1> DEFINE live == [h EXCEPT !.live = "running"]
           joined == [h EXCEPT !.live = "none"]
<1>1. \A o \in takeLiveSnapshot(h) : o = Done(live) \/ o = Failed(h)
  BY OutcomeParts DEF takeLiveSnapshot
<1>2. (Plain(h) => Plain(live)) /\ live.longshot = h.longshot
  BY DEF Plain, Hardware
<1>3. /\ joined \in Hardware /\ (Plain(h) => Plain(joined))
      /\ joined.longshot = h.longshot /\ joined.live = "none"
  BY DEF Plain, Hardware
<1>4. cancelLiveSnapshot(h) = stopChannel(joined, "SNAPSHOT")
  BY DEF cancelLiveSnapshot
<1> HIDE DEF live, joined
<1>5. KeepsModes(cancelLiveSnapshot(h).hw, joined)
  BY <1>3, <1>4, OneChannelKeeps DEF ChTypes
<1>6. \A o \in takeLiveSnapshot(h) :
         (Plain(h) => Plain(o.hw)) /\ o.hw.longshot = h.longshot /\ (o.ok = FALSE => o.hw = h)
  BY <1>1, <1>2, OutcomeParts
<1> QED BY <1>3, <1>5, <1>6 DEF KeepsModes

LiveStates == {"VIDEO_PIC_TAKING", "PREVIEW_PIC_TAKING"}
Joined(s, h) == h.live # "none" => s \in LiveStates

(* No handler turns ZSL on; none but those of the mode commands starts a    *)
(* long shot, and without one none leaves the live thread unjoined.         *)
Calm(e) ==
    /\ Plain(hw')
    /\ e \notin ModeEvts /\ hw.longshot = FALSE /\ Joined(m_state, hw) =>
          hw'.longshot = FALSE /\ Joined(m_state', hw')

LEMMA KeptIsCalm ==
  ASSUME NEW e, Plain(hw), KeepsModes(hw', hw),
         m_state \in LiveStates => m_state' \in LiveStates
  PROVE  Calm(e)
  BY DEF Calm, KeepsModes, Joined

LEMMA JoinedIsCalm ==
  ASSUME NEW e, Plain(hw), hw \in Hardware, NEW h, KeepsModes(h, cancelLiveSnapshot(hw).hw), hw' = h
  PROVE  Calm(e)
  BY LiveThreadModes DEF Calm, KeepsModes, Joined

(* What changes the modes is outside the second promise. *)
LEMMA LongshotIsCalm ==
  ASSUME NEW e, NEW s, Plain(hw), hw \in Hardware, SendLongshotOn(e) \/ SendLongshotOff(e, s)
  PROVE  Calm(e)
<1>1. e \in ModeEvts
  BY DEF SendLongshotOn, SendLongshotOff, ModeEvts
<1>2. \A h \in Hardware, b \in BOOLEAN : Plain(h) => Plain([h EXCEPT !.longshot = b])
  BY DEF Plain, Hardware
<1>3. Plain(cancelPicture(hw)) /\ cancelPicture(hw) \in Hardware
  BY PicturesKeep DEF KeepsModes
<1>4. Plain(LongshotOff) /\ Plain(LongshotOn(hw))
  BY <1>2, <1>3 DEF LongshotOff, LongshotOn
<1> QED BY <1>1, <1>4 DEF Calm, SendLongshotOn, SendLongshotOff, To, Reply

(* A live thread is started on the way into a state that will join it. *)
LEMMA LiveIsCalm ==
  ASSUME NEW e, NEW s \in LiveStates, Plain(hw), hw \in Hardware,
         Ends(e, takeLiveSnapshot(hw), s, m_state)
  PROVE  Calm(e)
<1>1. PICK o \in takeLiveSnapshot(hw) :
         hw' = o.hw /\ m_state' = IF o.ok THEN s ELSE m_state
  BY DEF Ends, To
<1>2. o.ok \in BOOLEAN
  BY PicturesAlike
<1> QED BY <1>1, <1>2, LiveThreadModes DEF Calm, Joined

(* A reply or a change of messages leaves the hardware alone. *)
LEMMA RepliesAreCalm ==
  ASSUME NEW e, Plain(hw), hw \in Hardware, hw' = hw, m_state' = m_state
  PROVE  Calm(e)
  BY DEF Calm

(* Outcomes of operations that keep the modes. *)
LEMMA OutcomesAreCalm ==
  ASSUME NEW e, NEW S, NEW ok, NEW bad, Plain(hw), KeepOutcomes(S, hw), m_state \notin LiveStates,
         Ends(e, S, ok, bad) \/ EndsApplied(e, S, ok, bad) \/ Started(e, S, ok, bad)
  PROVE  Calm(e)
<1>1. PICK o \in S : hw' = o.hw
  BY DEF Ends, EndsApplied, Started, To
<1> QED BY <1>1, KeptIsCalm DEF KeepOutcomes

LEMMA StoppedCalm ==
  ASSUME Plain(hw), hw \in Hardware, m_state = "PREVIEW_STOPPED", NEW e \in AllEvts \ {"SET_PARAMS"},
         StoppedSettings(e) \/ StoppedApi(e) \/ StoppedEvt(e)
  PROVE  Calm(e)
<1>0. m_state \notin LiveStates
  BY DEF LiveStates
<1>1. CASE StoppedSettings(e)
  <2>1. CASE hw' = [hw EXCEPT !.window = (e = "SET_PREVIEW_WINDOW")]
    <3>1. KeepsModes(hw', hw)
      BY <2>1 DEF KeepsModes, Plain, Hardware
    <3> QED BY <1>0, <3>1, KeptIsCalm
  <2> QED BY <1>1, <2>1, RepliesAreCalm
       DEF StoppedSettings, Passed, Reply, To, EnableMsgs, DisableMsgs, SetParams
<1>2. CASE StoppedApi(e)
  <2>1. CASE Ends(e, preparePreview(hw), "PREVIEW_READY", m_state)
    BY <1>0, <2>1, PreviewKeeps, OutcomesAreCalm
  <2>2. CASE Started(e, PrepareAndStart(hw), "PREVIEWING", m_state)
    BY <1>0, <2>2, RebuildKeeps, OutcomesAreCalm
  <2>3. CASE hw' = releaseChannels(hw)
    BY <1>0, <2>3, PreviewKeeps, KeptIsCalm
  <2>4. CASE SendLongshotOn(e) \/ SendLongshotOff(e, m_state)
    BY <2>4, LongshotIsCalm
  <2> QED BY <1>2, <2>1, <2>2, <2>3, <2>4, RepliesAreCalm DEF StoppedApi, Passed, Reply, Ignored, To
<1>3. CASE StoppedEvt(e)
  BY <1>3, RepliesAreCalm DEF StoppedEvt, Ignored, To
<1> QED BY <1>1, <1>2, <1>3

LEMMA ReadyCalm ==
  ASSUME Plain(hw), hw \in Hardware, m_state = "PREVIEW_READY", NEW e \in AllEvts \ {"SET_PARAMS"},
         ReadySettings(e) \/ ReadyApi(e) \/ ReadyEvt(e)
  PROVE  Calm(e)
<1>0. m_state \notin LiveStates
  BY DEF LiveStates
<1>1. CASE ReadySettings(e)
  <2> DEFINE windowed == [hw EXCEPT !.window = TRUE]
             S == {IF o.ok THEN o ELSE Failed(unpreparePreview(o.hw)) : o \in startPreview(windowed)}
  <2>1. CASE hw' = [hw EXCEPT !.window = FALSE]
    <3>1. KeepsModes(hw', hw)
      BY <2>1 DEF KeepsModes, Plain, Hardware
    <3> QED BY <1>0, <3>1, KeptIsCalm
  <2>2. CASE EndsApplied(e, S, "PREVIEWING", "PREVIEW_STOPPED")
    <3>1. KeepsModes(windowed, hw) /\ windowed \in Hardware
      BY DEF KeepsModes, Plain, Hardware
    <3> HIDE DEF windowed
    <3>2. \A o \in startPreview(windowed) : KeepsModes(o.hw, hw) /\ KeepsModes(unpreparePreview(o.hw), hw)
      BY <3>1, PreviewKeeps, KeepsTransitive DEF KeepOutcomes, KeepsModes
    <3>3. ASSUME NEW o \in startPreview(windowed)
          PROVE  KeepsModes((IF o.ok THEN o ELSE Failed(unpreparePreview(o.hw))).hw, hw)
      BY <3>2, OutcomeParts
    <3>4. KeepOutcomes(S, hw)
      BY <3>3 DEF KeepOutcomes
    <3> HIDE DEF S
    <3> QED BY <1>0, <2>2, <3>4, OutcomesAreCalm
  <2> QED BY <1>1, <2>1, <2>2, RepliesAreCalm
       DEF ReadySettings, Passed, Reply, To, EnableMsgs, DisableMsgs, SetParams
<1>2. CASE ReadyApi(e)
  <2>1. CASE hw' = unpreparePreview(hw)
    BY <1>0, <2>1, PreviewKeeps, KeptIsCalm
  <2>2. CASE SendLongshotOn(e) \/ SendLongshotOff(e, m_state)
    BY <2>2, LongshotIsCalm
  <2> QED BY <1>2, <2>1, <2>2, RepliesAreCalm DEF ReadyApi, Passed, Reply, Ignored, To
<1>3. CASE ReadyEvt(e)
  BY <1>3, RepliesAreCalm DEF ReadyEvt, Ignored, To
<1> QED BY <1>1, <1>2, <1>3

LEMMA PreviewingCalm ==
  ASSUME Plain(hw), hw \in Hardware, m_state = "PREVIEWING", NEW e \in AllEvts \ {"SET_PARAMS"},
         PreviewingSettings(e) \/ PreviewingApi(e) \/ PreviewingEvt(e)
  PROVE  Calm(e)
<1>0. m_state \notin LiveStates
  BY DEF LiveStates
<1>1. CASE PreviewingSettings(e)
  BY <1>1, RepliesAreCalm DEF PreviewingSettings, Passed, Reply, To, EnableMsgs, DisableMsgs, SetParams
<1>2. CASE PreviewingApi(e)
  <2>1. CASE EndsApplied(e, {Done(stopPreview(hw))}, "PREVIEW_STOPPED", m_state)
    <3>1. KeepOutcomes({Done(stopPreview(hw))}, hw)
      BY ZenonT(40), PreviewKeeps, OutcomeParts DEF KeepOutcomes
    <3> QED BY <1>0, <2>1, <3>1, OutcomesAreCalm
  <2>2. CASE \E o \in startRecording(hw) : hw' = o.hw
    BY <1>0, <2>2, RecordingKeeps, KeptIsCalm DEF KeepOutcomes
  <2>3. CASE PreviewingTakePicture(e)
    <3>1. CASE \E o \in takePicture(hw) : hw' = o.hw
      BY <1>0, <3>1, PicturesKeep, KeptIsCalm DEF KeepOutcomes
    <3>2. CASE Ends(e, takeLiveSnapshot(hw), "PREVIEW_PIC_TAKING", "PREVIEWING")
      BY <3>2, LiveIsCalm DEF LiveStates
    <3> QED BY <2>3, <3>1, <3>2 DEF PreviewingTakePicture, Ends, To
  <2>4. CASE SendLongshotOn(e) \/ SendLongshotOff(e, m_state)
    BY <2>4, LongshotIsCalm
  <2>5. CASE e = "LONGSHOT_ON" /\ hw.zsl
    BY <2>5 DEF Plain
  <2>6. CASE hw' = hw
    BY <1>0, <2>6, ChannelsKeep, KeptIsCalm
  <2> QED BY <1>2, <2>1, <2>2, <2>3, <2>4, <2>5, <2>6
       DEF PreviewingApi, Passed, Reply, Ignored, To
<1>3. CASE PreviewingEvt(e)
  BY <1>3, RepliesAreCalm DEF PreviewingEvt, Ignored, To
<1> QED BY <1>1, <1>2, <1>3

LEMMA PrepareSnapshotCalm ==
  ASSUME Plain(hw), hw \in Hardware, m_state = "PREPARE_SNAPSHOT", NEW e \in AllEvts \ {"SET_PARAMS"},
         PrepareSnapshotApi(e) \/ PrepareSnapshotEvt(e)
  PROVE  Calm(e)
<1>1. hw' = hw
  BY DEF PrepareSnapshotApi, PrepareSnapshotEvt, Reply, Ignored, To
<1>2. KeepsModes(hw', hw)
  BY <1>1, ChannelsKeep
<1>3. m_state \notin LiveStates
  BY DEF LiveStates
<1> QED BY <1>2, <1>3, KeptIsCalm

LEMMA PicTakingCalm ==
  ASSUME Plain(hw), hw \in Hardware, m_state = "PIC_TAKING", NEW e \in AllEvts \ {"SET_PARAMS"},
         PicTakingSettings(e) \/ PicTakingApi(e) \/ PicTakingEvt(e)
  PROVE  Calm(e)
<1>0. m_state \notin LiveStates
  BY DEF LiveStates
<1>c. KeepsModes(cancelPicture(hw), hw)
  BY PicturesKeep
<1>1. CASE PicTakingSettings(e)
  BY <1>1, RepliesAreCalm DEF PicTakingSettings, Passed, Reply, To, EnableMsgs, DisableMsgs, SetParams
<1>2. CASE PicTakingApi(e)
  <2>1. CASE hw' = cancelPicture(hw)
    BY <1>0, <1>c, <2>1, KeptIsCalm
  <2>2. CASE Ends(e, longShot(hw), m_state, m_state)
    BY <1>0, <2>2, PicturesKeep, OutcomesAreCalm
  <2>3. CASE SendLongshotOn(e) \/ SendLongshotOff(e, "PREVIEWING")
    BY <2>3, LongshotIsCalm
  <2>4. CASE e = "STOP_CAPTURE_CHANNEL"
    <3> DEFINE c == stopCaptureChannel(hw)
    <3>1. KeepsModes(c.hw, hw) /\ c.hw \in Hardware
      BY PicturesKeep DEF KeepsModes
    <3>2. hw' = c.hw \/ \E p \in preparePreview(c.hw) : hw' = p.hw \/ \E s \in startPreview(p.hw) : hw' = s.hw
      BY <1>2, <2>4 DEF PicTakingApi, Ends, EndsApplied, To, SendLongshotOn, SendLongshotOff
    <3> HIDE DEF c
    <3>3. \A p \in preparePreview(c.hw) : KeepsModes(p.hw, hw) /\ p.hw \in Hardware
      BY <3>1, PreviewKeeps, KeepsTransitive DEF KeepOutcomes, KeepsModes
    <3>4. \A p \in preparePreview(c.hw) : \A s \in startPreview(p.hw) : KeepsModes(s.hw, hw)
      BY <3>3, PreviewKeeps, KeepsTransitive DEF KeepOutcomes
    <3>5. KeepsModes(hw', hw)
      BY <3>1, <3>2, <3>3, <3>4
    <3> QED BY <1>0, <3>5, KeptIsCalm
  <2> QED BY <1>2, <2>1, <2>2, <2>3, <2>4, RepliesAreCalm DEF PicTakingApi, Passed, Reply, To
<1>3. CASE PicTakingEvt(e)
  <2>1. CASE hw' = cancelPicture(hw)
    BY <1>0, <1>c, <2>1, KeptIsCalm
  <2> QED BY <1>3, <2>1, RepliesAreCalm DEF PicTakingEvt, Ignored, To
<1> QED BY <1>1, <1>2, <1>3

LEMMA RecordingCalm ==
  ASSUME Plain(hw), hw \in Hardware, m_state = "RECORDING", NEW e \in AllEvts \ {"SET_PARAMS"},
         RecordingSettings(e) \/ RecordingApi(e) \/ RecordingEvt(e)
  PROVE  Calm(e)
<1>0. m_state \notin LiveStates
  BY DEF LiveStates
<1>r. KeepsModes(stopRecording(hw).hw, hw) /\ stopRecording(hw).hw \in Hardware
  BY PicturesKeep DEF KeepsModes
<1>1. CASE RecordingSettings(e)
  BY <1>1, RepliesAreCalm DEF RecordingSettings, Passed, Reply, To, EnableMsgs, DisableMsgs, SetParams
<1>2. CASE RecordingApi(e)
  <2>1. CASE Ends(e, takeLiveSnapshot(hw), "VIDEO_PIC_TAKING", "RECORDING")
    BY <2>1, LiveIsCalm DEF LiveStates
  <2>2. CASE hw' = stopRecording(hw).hw
    BY <1>0, <1>r, <2>2, KeptIsCalm
  <2>3. CASE hw' = stopPreview(stopRecording(hw).hw)
    <3>1. KeepsModes(hw', hw)
      BY <1>r, <2>3, PreviewKeeps, KeepsTransitive
    <3> QED BY <1>0, <3>1, KeptIsCalm
  <2>4. CASE SendLongshotOn(e) \/ SendLongshotOff(e, m_state)
    BY <2>4, LongshotIsCalm
  <2>5. CASE Ends(e, {stopRecording(hw)}, "PREVIEWING", "PREVIEWING")
    BY <2>2, <2>5 DEF Ends, To
  <2> QED BY <1>2, <2>1, <2>3, <2>4, <2>5, RepliesAreCalm DEF RecordingApi, Passed, Reply, Ignored, To
<1>3. CASE RecordingEvt(e)
  BY <1>3, RepliesAreCalm DEF RecordingEvt, Ignored, To
<1> QED BY <1>1, <1>2, <1>3

LEMMA VideoPicTakingCalm ==
  ASSUME Plain(hw), hw \in Hardware, m_state = "VIDEO_PIC_TAKING", NEW e \in AllEvts \ {"SET_PARAMS"},
         VideoPicTakingSettings(e) \/ VideoPicTakingApi(e) \/ VideoPicTakingEvt(e)
  PROVE  Calm(e)
<1> DEFINE c == cancelLiveSnapshot(hw)
<1>c. c.hw \in Hardware /\ KeepsModes(c.hw, c.hw)
  BY LiveThreadModes, ChannelsKeep
<1>r. KeepsModes(stopRecording(c.hw).hw, c.hw) /\ stopRecording(c.hw).hw \in Hardware
  BY <1>c, PicturesKeep DEF KeepsModes
<1>j. \A h : KeepsModes(h, c.hw) /\ hw' = h => Calm(e)
  BY JoinedIsCalm
<1> HIDE DEF c
<1>1. CASE VideoPicTakingSettings(e)
  BY <1>1, RepliesAreCalm DEF VideoPicTakingSettings, Passed, Reply, To, EnableMsgs, DisableMsgs, SetParams
<1>2. CASE VideoPicTakingApi(e)
  <2>1. CASE hw' \in {stopRecording(c.hw).hw, c.hw}
    BY <1>c, <1>r, <1>j, <2>1
  <2>2. CASE hw' = stopPreview(stopRecording(c.hw).hw)
    <3>1. KeepsModes(hw', c.hw)
      BY <1>r, <2>2, PreviewKeeps, KeepsTransitive
    <3> QED BY <3>1, <1>j
  <2>3. CASE SendLongshotOn(e) \/ SendLongshotOff(e, m_state)
    BY <2>3, LongshotIsCalm
  <2> QED BY <1>2, <2>1, <2>2, <2>3, RepliesAreCalm DEF VideoPicTakingApi, Passed, Reply, Ignored, Ends, To, c
<1>3. CASE VideoPicTakingEvt(e)
  <2>1. CASE hw' = c.hw
    BY <1>c, <1>j, <2>1
  <2> QED BY <1>3, <2>1, RepliesAreCalm DEF VideoPicTakingEvt, Ignored, To, c
<1> QED BY <1>1, <1>2, <1>3

(* A long shot is cancelled without the thread; it was started without one. *)
LEMMA CancelCaptureCalm ==
  ASSUME Plain(hw), hw \in Hardware, m_state = "PREVIEW_PIC_TAKING", NEW e, NEW h,
         KeepsModes(h, CancelCapture.hw), hw' = h
  PROVE  Calm(e)
<1>1. CASE hw.longshot = FALSE
  <2>1. CancelCapture = cancelLiveSnapshot(hw)
    BY <1>1 DEF CancelCapture, LiveCapture, Plain
  <2> QED BY <2>1, JoinedIsCalm
<1>2. CASE hw.longshot # FALSE
  <2>1. Plain(CancelCapture.hw)
    BY ZenonT(40), PicturesKeep, LiveThreadModes, OutcomeParts DEF CancelCapture, KeepsModes
  <2> QED BY <1>2, <2>1 DEF Calm, KeepsModes
<1> QED BY <1>1, <1>2

LEMMA PreviewPicTakingCalm ==
  ASSUME Plain(hw), hw \in Hardware, m_state = "PREVIEW_PIC_TAKING", NEW e \in AllEvts \ {"SET_PARAMS"},
         PreviewPicTakingSettings(e) \/ PreviewPicTakingApi(e) \/ PreviewPicTakingEvt(e)
  PROVE  Calm(e)
<1>c. CancelCapture.hw \in Hardware /\ KeepsModes(CancelCapture.hw, CancelCapture.hw)
  <2>1. CancelCapture.hw \in Hardware
    BY ZenonT(40), PicturesKeep, LiveThreadModes, OutcomeParts DEF CancelCapture, KeepsModes
  <2> QED BY <2>1, ChannelsKeep
<1>1. CASE PreviewPicTakingSettings(e)
  BY <1>1, RepliesAreCalm DEF PreviewPicTakingSettings, Passed, Reply, To, EnableMsgs, DisableMsgs, SetParams
<1>2. CASE PreviewPicTakingApi(e)
  <2>1. CASE SendLongshotOn(e) \/ SendLongshotOff(e, "PREVIEWING")
    BY <2>1, LongshotIsCalm
  <2>2. CASE hw' = CancelCapture.hw
    BY <1>c, <2>2, CancelCaptureCalm
  <2>3. CASE hw' = unpreparePreview(CancelCapture.hw)
    BY <1>c, <2>3, PreviewKeeps, CancelCaptureCalm
  <2>4. CASE Ends(e, startRecording(hw), "VIDEO_PIC_TAKING", m_state)
    <3>1. PICK o \in startRecording(hw) : hw' = o.hw /\ m_state' \in {"VIDEO_PIC_TAKING", m_state}
      BY <2>4 DEF Ends, To
    <3> QED BY <3>1, RecordingKeeps, KeptIsCalm DEF KeepOutcomes, LiveStates
  <2>5. CASE Ends(e, longShot(hw), m_state, m_state)
    <3>1. PICK o \in longShot(hw) : hw' = o.hw /\ m_state' = m_state
      BY <2>5 DEF Ends, To
    <3> QED BY <3>1, PicturesKeep, KeptIsCalm DEF KeepOutcomes
  <2>6. CASE Ends(e, {CancelCapture}, "PREVIEWING", "PREVIEWING")
    BY <2>2, <2>6 DEF Ends, To
  <2> QED BY <1>2, <2>1, <2>3, <2>4, <2>5, <2>6, RepliesAreCalm
       DEF PreviewPicTakingApi, Passed, Reply, Ignored, To
<1>3. CASE PreviewPicTakingEvt(e)
  <2>1. CASE hw' = CancelCapture.hw
    BY <1>c, <2>1, CancelCaptureCalm
  <2> QED BY <1>3, <2>1, RepliesAreCalm DEF PreviewPicTakingEvt, Ignored, To
<1> QED BY <1>1, <1>2, <1>3

LEMMA HandlersCalm ==
  ASSUME Plain(hw), hw \in Hardware, NEW e \in AllEvts \ {"SET_PARAMS"}, stateMachine(e)
  PROVE  Calm(e)
  BY StoppedCalm, ReadyCalm, PreviewingCalm, PrepareSnapshotCalm, PicTakingCalm, RecordingCalm,
     VideoPicTakingCalm, PreviewPicTakingCalm DEF stateMachine

-----------------------------------------------------------------------------
(***************************************************************************)
(* A command that no caller and no HAL thread sends never turns up.        *)
(***************************************************************************)
NobodySends(E) ==
    /\ \A c \in Clients : CallsOf[c] \cap E = {}
    /\ LooseApis \cap E = {}

(* What the HAL and a living daemon send whoever calls. *)
SentAnyway ==
    {"TAKE_PICTURE", "PREPARE_SNAPSHOT", "CANCEL_PICTURE",
     "PREP_SNAPSHOT_DONE", "READY_FOR_SNAPSHOT", "SNAPSHOT_DONE"}

CommandsOf(A) == [evt : A, owner : Clients \cup {None}]

Never(E) ==
    /\ api_queue \in Seq(CommandsOf(AllEvts \ E))
    /\ evt_queue \in Seq(AllEvts \ E) /\ owed \subseteq AllEvts \ E
    /\ sm.pc = "handle" => sm.cmd \in CommandsOf(AllEvts \ E)
    /\ \A c \in Clients : client[c].rest \in Seq(AllEvts \ E)

LEMMA InitNever == ASSUME NEW E, ApiInit PROVE Never(E)
<1>1. <<>> \in Seq(CommandsOf(AllEvts \ E)) /\ <<>> \in Seq(AllEvts \ E)
  OBVIOUS
<1>2. \A c \in Clients : client[c].rest = <<>>
  BY DEF ApiInit, Idle
<1> QED BY <1>1, <1>2 DEF ApiInit, Never

LEMMA NeverQueued ==
  ASSUME NEW E, Never(E), NEW e \in AllEvts \ E, NEW o \in Clients \cup {None}
  PROVE  /\ Append(api_queue, Command(e, o)) \in Seq(CommandsOf(AllEvts \ E))
         /\ Append(evt_queue, e) \in Seq(AllEvts \ E)
<1>1. Command(e, o) \in CommandsOf(AllEvts \ E)
  BY DEF Command, CommandsOf
<1>2. api_queue \in Seq(CommandsOf(AllEvts \ E)) /\ evt_queue \in Seq(AllEvts \ E)
  BY DEF Never
<1> QED BY <1>1, <1>2, AppendProperties

LEMMA EnterNever ==
  ASSUME SemInv, NEW E, Never(E), NEW c \in Clients, NEW e \in AllEvts \ E,
         NEW rest \in Seq(AllEvts \ E), Enter(c, e, rest)
  PROVE  Never(E)'
<1>1. client' = [client EXCEPT ![c] = [pc |-> "enqueued", evt |-> e, rest |-> rest]]
  BY DEF Enter
<1>2. \A d \in Clients : client'[d].rest \in Seq(AllEvts \ E)
  BY <1>1 DEF Never, SemInv, QueueTypes
<1>3. api_queue' \in Seq(CommandsOf(AllEvts \ E)) /\ UNCHANGED <<evt_queue, sm, owed>>
  BY NeverQueued DEF Enter
<1> QED BY <1>2, <1>3 DEF Never

LEMMA ClientStepNever ==
  ASSUME SemInv, NEW E, Never(E), NEW c \in Clients, ClientStep(c)
  PROVE  Never(E)'
<1>t. client \in [Clients -> ClientRecords]
  BY DEF SemInv, QueueTypes
<1>1. CASE SemPost(c) \/ CondWait(c) \/ SleepOn(c)
  <2>1. PICK p \in {"posted", "waiting"} : client' = [client EXCEPT ![c].pc = p]
    BY <1>1 DEF SemPost, CondWait, SleepOn
  <2>2. \A d \in Clients : client'[d].rest = client[d].rest
    BY <1>t, <2>1 DEF ClientRecords
  <2> QED BY <1>1, <2>2 DEF SemPost, CondWait, SleepOn, Never
<1>2. CASE TakeResult(c)
  <2>0. client[c].rest \in Seq(AllEvts \ E)
    BY DEF Never
  <2>1. CASE client[c].rest = <<>>
    <3>1. client' = [client EXCEPT ![c] = Idle] /\ UNCHANGED <<api_queue, evt_queue, sm, owed>>
      BY <1>2, <2>1 DEF TakeResult
    <3>2. \A d \in Clients : client'[d].rest \in Seq(AllEvts \ E)
      BY <1>t, <3>1 DEF Never, Idle
    <3> QED BY <3>1, <3>2 DEF Never
  <2>2. CASE client[c].rest # <<>>
    <3> DEFINE e == Head(client[c].rest)
               rest == Tail(client[c].rest)
    <3>1. e \in AllEvts \ E /\ rest \in Seq(AllEvts \ E)
      BY <2>0, <2>2, HeadTailProperties
    <3>2. /\ client' = [client EXCEPT ![c] = [pc |-> "enqueued", evt |-> e, rest |-> rest]]
          /\ api_queue' = Append(api_queue, Command(e, c))
          /\ UNCHANGED <<evt_queue, sm, owed>>
      BY <1>2, <2>2 DEF TakeResult
    <3> HIDE DEF e, rest
    <3>3. \A d \in Clients : client'[d].rest \in Seq(AllEvts \ E)
      BY <1>t, <3>1, <3>2 DEF Never
    <3>4. api_queue' \in Seq(CommandsOf(AllEvts \ E))
      BY <3>1, <3>2, NeverQueued
    <3> QED BY <3>2, <3>3, <3>4 DEF Never
  <2> QED BY <2>1, <2>2
<1> QED BY <1>1, <1>2 DEF ClientStep

LEMMA SmStepNever ==
  ASSUME SemInv, NEW E, Never(E), E \cap SentAnyway = {}, SmStep
  PROVE  Never(E)'
<1>t. /\ sm \in [pc : {"wait", "dequeue", "handle", "signal"}, cmd : Commands]
      /\ client \in [Clients -> ClientRecords]
  BY DEF SemInv, QueueTypes
<1>1. CASE SmWait
  BY <1>t, <1>1 DEF SmWait, Never
<1>2. CASE DequeueApi
  <2>1. /\ Head(api_queue) \in CommandsOf(AllEvts \ E)
        /\ Tail(api_queue) \in Seq(CommandsOf(AllEvts \ E))
    BY <1>2, HeadTailProperties DEF DequeueApi, Never
  <2> QED BY <1>2, <2>1 DEF DequeueApi, Never
<1>3. CASE DequeueEvt
  <2>1. Head(evt_queue) \in AllEvts \ E /\ Tail(evt_queue) \in Seq(AllEvts \ E)
    BY <1>3, HeadTailProperties DEF DequeueEvt, Never
  <2>2. Command(Head(evt_queue), None) \in CommandsOf(AllEvts \ E)
    BY <2>1 DEF Command, CommandsOf
  <2> QED BY <1>3, <2>1, <2>2 DEF DequeueEvt, Never
<1>4. CASE Handle
  <2>1. {"SNAPSHOT_DONE", "PREP_SNAPSHOT_DONE", "READY_FOR_SNAPSHOT"} \subseteq AllEvts \ E
    BY DEF AllEvts, SentAnyway
  <2>2. evt_queue' \in Seq(AllEvts \ E)
    BY SMTT(30), <1>4, <2>1, AppendProperties DEF Handle, Never
  <2>3. owed' \subseteq AllEvts \ E
    BY <1>4, <2>1 DEF Handle, Owes, Never
  <2>4. sm'.pc = "signal" /\ UNCHANGED <<api_queue, client>>
    BY <1>t, <1>4 DEF Handle
  <2> QED BY <2>2, <2>3, <2>4 DEF Never
<1>5. CASE signalAPIResult
  <2>1. \A d \in Clients : client'[d].rest = client[d].rest
    BY <1>t, <1>5 DEF signalAPIResult, Woken, ClientRecords
  <2> QED BY <1>5, <2>1 DEF signalAPIResult, Never
<1>6. CASE Finish
  BY <1>6 DEF Finish, Never
<1> QED BY <1>1, <1>2, <1>3, <1>4, <1>5, <1>6 DEF SmStep

LEMMA NextNever ==
  ASSUME SemInv, NEW E, Never(E), NobodySends(E), E \cap SentAnyway = {}, [ApiNext]_allvars,
         DaemonDies => "DAEMON_DIED" \notin E
  PROVE  Never(E)'
<1>0. SentAnyway \subseteq AllEvts \ E
  BY DEF AllEvts, SentAnyway
<1>1. ASSUME NEW c \in Clients, Call(c) \/ TakePictureCall(c)
      PROVE  Never(E)'
  <2>1. CASE Call(c)
    <3>1. PICK e \in CallsOf[c] \ {take_picture} : Enter(c, e, <<>>)
      BY <2>1 DEF Call
    <3>2. CallsOf[c] \subseteq AllEvts \cup {take_picture}
      BY CallsAssumption DEF ApiEvts
    <3>3. e \in AllEvts \ E /\ <<>> \in Seq(AllEvts \ E)
      BY <3>2 DEF NobodySends
    <3> QED BY <3>1, <3>3, EnterNever
  <2>2. CASE TakePictureCall(c)
    <3>1. "TAKE_PICTURE" \in AllEvts \ E /\ "PREPARE_SNAPSHOT" \in AllEvts \ E
      BY DEF AllEvts, SentAnyway
    <3>2. /\ <<>> \in Seq(AllEvts \ E) /\ <<"TAKE_PICTURE">> \in Seq(AllEvts \ E)
          /\ <<"PREPARE_SNAPSHOT">> \in Seq(AllEvts \ E)
      BY <3>1
    <3>3. \/ Enter(c, "TAKE_PICTURE", <<"PREPARE_SNAPSHOT">>)
          \/ Enter(c, "PREPARE_SNAPSHOT", <<"TAKE_PICTURE">>)
          \/ Enter(c, "TAKE_PICTURE", <<>>)
      BY <2>2 DEF TakePictureCall
    <3> QED BY <3>1, <3>2, <3>3, EnterNever
  <2> QED BY <1>1, <2>1, <2>2
<1>2. ASSUME NEW c \in Clients, ClientStep(c) PROVE Never(E)'
  BY <1>2, ClientStepNever
<1>3. CASE SmStep
  BY <1>3, SmStepNever
<1>4. CASE Pipeline
  <2>1. ASSUME NEW e \in AllEvts \ E, Queued(e), owed' \subseteq owed, UNCHANGED <<api_queue, sm, client>>
        PROVE  Never(E)'
    <3>1. evt_queue' \in Seq(AllEvts \ E)
      BY <2>1, AppendProperties DEF Queued, Never
    <3> QED BY <2>1, <3>1 DEF Never
  <2>2. CASE processSyncEvt
    <3>1. "SNAPSHOT_DONE" \in AllEvts \ E
      BY <1>0 DEF SentAnyway
    <3> QED BY <2>1, <2>2, <3>1 DEF processSyncEvt
  <2>3. ASSUME NEW e \in AllEvts, DaemonReports(e) PROVE Never(E)'
    BY <2>1, <2>3 DEF DaemonReports, Never
  <2> QED BY <1>4, <2>2, <2>3 DEF Pipeline
<1>5. ASSUME NEW e \in AllEvts \ E, QueueLoose(e)
      PROVE  Never(E)'
  BY <1>5, NeverQueued DEF QueueLoose, Never
<1>6. CASE LiveThread
  <2>1. "CANCEL_PICTURE" \in AllEvts \ E
    BY <1>0 DEF SentAnyway
  <2>2. CASE UNCHANGED rendezvous
    BY <2>2 DEF rendezvous, Never
  <2> QED BY <1>5, <1>6, <2>1, <2>2 DEF LiveThread, LiveThreadStarts, LiveThreadFails
<1>7. CASE DaemonDies
  <2>1. "DAEMON_DIED" \in AllEvts \ E
    BY <1>7 DEF AllEvts
  <2>2. evt_queue' \in Seq(AllEvts \ E)
    BY <1>7, <2>1, AppendProperties DEF DaemonDies, Queued, Never
  <2> QED BY <1>7, <2>2 DEF DaemonDies, Never
<1>8. ASSUME NEW e \in LooseApis, LooseApi(e) PROVE Never(E)'
  <2>1. e \in AllEvts \ E
    BY LooseAssumption DEF ApiEvts, NobodySends
  <2> QED BY <1>5, <1>8, <2>1 DEF LooseApi
<1>9. CASE PostOther
  BY <1>9 DEF PostOther, Never
<1>10. CASE UNCHANGED allvars
  BY <1>10 DEF allvars, rendezvous, Never
<1> QED BY <1>1, <1>2, <1>3, <1>4, <1>6, <1>7, <1>8, <1>9, <1>10 DEF ApiNext

-----------------------------------------------------------------------------
(* Nobody turns ZSL or long shots on or off: pictures over a recording are  *)
(* live ones.                                                               *)
NobodyChangesModes == NobodySends(ModeEvts)

JoinInv ==
    /\ TypeInv /\ Never(ModeEvts)
    /\ Plain(hw) /\ hw.longshot = FALSE /\ Joined(m_state, hw)

LEMMA InitJoinInv == ApiInit => JoinInv
<1> SUFFICES ASSUME ApiInit PROVE JoinInv OBVIOUS
<1>1. Plain(hw) /\ hw.longshot = FALSE /\ hw.live = "none"
  BY DEF ApiInit, Init, Plain
<1> QED BY <1>1, InitTypeInv, InitNever DEF JoinInv, Joined

LEMMA NextJoinInv ==
  ASSUME NobodyChangesModes, JoinInv, [ApiNext]_allvars
  PROVE  JoinInv'
<1>0. TypeInv /\ SemInv /\ hw \in Hardware
  BY DEF JoinInv, TypeInv, IInv, Fits
<1>1. ModeEvts \cap SentAnyway = {} /\ "DAEMON_DIED" \notin ModeEvts
  BY DEF ModeEvts, SentAnyway
<1>2. TypeInv' /\ Never(ModeEvts)'
  BY <1>0, <1>1, NextTypeInv, NextNever DEF JoinInv, NobodyChangesModes
<1>3. CASE UNCHANGED <<m_state, hw>>
  BY <1>2, <1>3 DEF JoinInv
<1>4. CASE Handle
  <2>1. sm.cmd.evt \in AllEvts \ ModeEvts
    BY <1>4 DEF Handle, JoinInv, Never, CommandsOf
  <2>2. Calm(sm.cmd.evt)
    BY <1>0, <1>4, <2>1, HandlersCalm DEF Handle, JoinInv, ModeEvts
  <2> QED BY <1>2, <2>1, <2>2 DEF Calm, JoinInv
<1>5. CASE LiveThread
  <2>1. \A h \in Hardware : Plain(h) => Plain([h EXCEPT !.live = "done"])
                             /\ [h EXCEPT !.live = "done"].longshot = h.longshot
    BY DEF Plain, Hardware
  <2>2. KeepsModes(SetCh(hw, {"SNAPSHOT"}, "started"), hw)
    BY <1>0, ChannelsKeep DEF ChTypes, ChStatus
  <2>3. PICK g : KeepsModes(g, hw) /\ hw' = [g EXCEPT !.live = "done"]
    BY <1>0, <1>5, <2>2, ChannelsKeep
       DEF LiveThread, LiveThreadStarts, LiveThreadFails, LiveSnapshotStarts, LiveSnapshotFails
  <2>4. hw.live = "running" /\ m_state' = m_state
    BY <1>5 DEF LiveThread, LiveThreadStarts, LiveThreadFails, LiveSnapshotStarts, LiveSnapshotFails
  <2>5. g.live = "running" /\ Plain(g) /\ g \in Hardware /\ g.longshot = FALSE
    BY <2>3, <2>4 DEF JoinInv, KeepsModes
  <2>6. Joined(m_state, hw)'
    BY <2>4 DEF JoinInv, Joined
  <2> QED BY <1>2, <2>1, <2>3, <2>5, <2>6 DEF JoinInv
<1>6. UNCHANGED <<m_state, hw>> \/ Handle \/ LiveThread
  <2>1. ASSUME NEW c \in Clients, Call(c) \/ TakePictureCall(c)
        PROVE  UNCHANGED <<m_state, hw>>
    BY <2>1 DEF Call, TakePictureCall, setRetroPicture, core, vars
  <2>2. ASSUME NEW c \in Clients, ClientStep(c)
        PROVE  UNCHANGED <<m_state, hw>>
    BY <2>2 DEF ClientStep, SemPost, CondWait, SleepOn, TakeResult, core, vars
  <2>3. ASSUME SmStep, ~Handle
        PROVE  UNCHANGED <<m_state, hw>>
    BY <2>3 DEF SmStep, SmWait, DequeueApi, DequeueEvt, signalAPIResult, Finish, core, vars
  <2>4. ASSUME Pipeline \/ DaemonDies \/ PostOther
        PROVE  UNCHANGED <<m_state, hw>>
    BY <2>4 DEF Pipeline, processSyncEvt, DaemonReports, DaemonDies, PostOther, core, vars
  <2>5. ASSUME NEW e \in LooseApis, LooseApi(e)
        PROVE  UNCHANGED <<m_state, hw>>
    BY <2>5 DEF LooseApi, core, vars
  <2>6. CASE UNCHANGED allvars
    BY <2>6 DEF allvars, core, vars
  <2> QED BY <2>1, <2>2, <2>3, <2>4, <2>5, <2>6 DEF ApiNext
<1> QED BY <1>3, <1>4, <1>5, <1>6

(* A live snapshot thread that was started is left unjoined only in a state  *)
(* whose every way out joins it (cancelLiveSnapshot), whatever the daemon    *)
(* refuses and wherever it dies, as long as nobody changes the modes.        *)
THEOREM LiveThreadIsJoined == ASSUME NobodyChangesModes PROVE ApiSpec => []LiveThreadJoined
<1>1. JoinInv => LiveThreadJoined
  BY DEF JoinInv, Joined, LiveStates, LiveThreadJoined
<1>2. JoinInv /\ [ApiNext]_allvars => JoinInv'
  BY NextJoinInv
<1> QED
  BY InitJoinInv, <1>1, <1>2, PTL DEF ApiSpec

-----------------------------------------------------------------------------
(***************************************************************************)
(* What a handler signals.  Without retro-active frames every API command  *)
(* is answered by its handler, but for a preparation, which the daemon's   *)
(* report answers, and for two commands with no answer in some states.     *)
(***************************************************************************)
Answered(e) == (\E v \in Values : out'.api = <<Result(e, v)>>) /\ UNCHANGED bRetroPicture
Silent == out'.api = <<>> /\ UNCHANGED bRetroPicture
StaysPut == m_state' = "PREPARE_SNAPSHOT" <=> m_state = "PREPARE_SNAPSHOT"
Reports == {"PREP_SNAPSHOT_DONE", "READY_FOR_SNAPSHOT", "SNAPSHOT_DONE"}
Unanswered == {"REG_FACE_IMAGE", "STOP_CAPTURE_CHANNEL"}

BeginsPreparing(e) ==
    /\ e = "PREPARE_SNAPSHOT" /\ out' = Quiet /\ UNCHANGED bRetroPicture
    /\ m_state = "PREVIEWING" /\ m_state' = "PREPARE_SNAPSHOT"

EndsPreparing(e) ==
    /\ e = "PREP_SNAPSHOT_DONE" /\ out'.api = <<Result("PREPARE_SNAPSHOT", "OK")>>
    /\ UNCHANGED bRetroPicture
    /\ m_state = "PREPARE_SNAPSHOT" /\ m_state' = "PREVIEWING"

Conduct(e) ==
    \/ e \notin Reports /\ Answered(e) /\ StaysPut
    \/ /\ e \in Reports \cup Unanswered /\ Silent /\ StaysPut
       /\ e = "PREP_SNAPSHOT_DONE" => m_state # "PREPARE_SNAPSHOT"
    \/ BeginsPreparing(e)
    \/ EndsPreparing(e)

LEMMA SignalledLists ==
  /\ Quiet.api = <<>> /\ SnapshotDone.api = <<>>
  /\ \A e, v : Answer(e, v).api = <<Result(e, v)>>
  /\ \A e, v, b : [Answer(e, v) EXCEPT !.post = b].api = <<Result(e, v)>>
  BY DEF Quiet, SnapshotDone, Answer

(* Every way a handler can end, by what it signals and where it goes. *)
LEMMA Ending ==
  ASSUME NEW e
  PROVE  /\ \A v \in Values : Reply(e, v) => Answered(e) /\ m_state' = m_state
         /\ Passed(e) => Answered(e) /\ m_state' = m_state
         /\ EnableMsgs(e) \/ DisableMsgs(e) => Answered(e) /\ m_state' = m_state
         /\ Ignored => Silent /\ m_state' = m_state
         /\ \A S, ok, bad : Ends(e, S, ok, bad) \/ EndsApplied(e, S, ok, bad) \/ Started(e, S, ok, bad) =>
               Answered(e) /\ m_state' \in {ok, bad}
         /\ \A s, h, m : \A v \in Values : To(s, h, m, Answer(e, v)) => Answered(e) /\ m_state' = s
         /\ SendLongshotOn(e) => Answered(e) /\ m_state' = m_state
         /\ \A s : SendLongshotOff(e, s) => Answered(e) /\ m_state' = s
         /\ \A s, h : To(s, h, msgs, SnapshotDone) => Silent /\ m_state' = s
<1> USE SignalledLists DEF To, Answered, Silent
<1>1. {"OK", "ERR"} \subseteq Values
  BY DEF Values
<1>2. \A v \in Values : Reply(e, v) => Answered(e) /\ m_state' = m_state
  BY DEF Reply
<1>3. Passed(e) => Answered(e) /\ m_state' = m_state
  BY <1>1, <1>2 DEF Passed, Status
<1>4. EnableMsgs(e) \/ DisableMsgs(e) => Answered(e) /\ m_state' = m_state
  BY <1>1 DEF EnableMsgs, DisableMsgs
<1>5. Ignored => Silent /\ m_state' = m_state
  BY DEF Ignored
<1>6. \A S, ok, bad : Ends(e, S, ok, bad) \/ EndsApplied(e, S, ok, bad) \/ Started(e, S, ok, bad) =>
               Answered(e) /\ m_state' \in {ok, bad}
  <2>1. ASSUME NEW S, NEW ok, NEW bad,
               Ends(e, S, ok, bad) \/ EndsApplied(e, S, ok, bad) \/ Started(e, S, ok, bad)
        PROVE  Answered(e) /\ m_state' \in {ok, bad}
    <3>1. PICK o \in S : /\ out' = Answer(e, Rc(o)) /\ UNCHANGED bRetroPicture
                         /\ m_state' = IF o.ok THEN ok ELSE bad
      BY <2>1 DEF Ends, EndsApplied, Started
    <3> QED BY <3>1, RcTyped
  <2> QED BY <2>1
<1>7. \A s, h, m : \A v \in Values : To(s, h, m, Answer(e, v)) => Answered(e) /\ m_state' = s
  OBVIOUS
<1>8. SendLongshotOn(e) => Answered(e) /\ m_state' = m_state
  BY <1>1, <1>2 DEF SendLongshotOn
<1>9. \A s : SendLongshotOff(e, s) => Answered(e) /\ m_state' = s
  BY <1>1 DEF SendLongshotOff
<1>10. \A s, h : To(s, h, msgs, SnapshotDone) => Silent /\ m_state' = s
  OBVIOUS
<1> QED BY <1>2, <1>3, <1>4, <1>5, <1>6, <1>7, <1>8, <1>9, <1>10

(* An answer given without entering or leaving the preparation, or silence. *)
LEMMA PlainConduct ==
  ASSUME NEW e, m_state # "PREPARE_SNAPSHOT", m_state' # "PREPARE_SNAPSHOT"
  PROVE  /\ e \notin Reports /\ Answered(e) => Conduct(e)
         /\ e \in Reports \cup Unanswered /\ Silent => Conduct(e)
  BY DEF Conduct, StaysPut

LEMMA LongshotConduct ==
  ASSUME NEW e, NEW s, m_state # "PREPARE_SNAPSHOT", s # "PREPARE_SNAPSHOT",
         SendLongshotOn(e) \/ SendLongshotOff(e, s)
  PROVE  Conduct(e)
<1>1. e \notin Reports
  BY DEF SendLongshotOn, SendLongshotOff, Reports
<1>2. Answered(e) /\ m_state' \in {m_state, s}
  BY Ending
<1> QED BY <1>1, <1>2, PlainConduct

LEMMA StoppedConduct ==
  ASSUME m_state = "PREVIEW_STOPPED", NEW e \in AllEvts \ {"SET_PARAMS", "DAEMON_DIED"},
         StoppedSettings(e) \/ StoppedApi(e) \/ StoppedEvt(e)
  PROVE  Conduct(e)
<1>1. CASE StoppedSettings(e)
  BY <1>1, Ending DEF StoppedSettings, SetParams, Conduct, StaysPut, Reports, Values, EnableMsgs, DisableMsgs
<1>2. CASE StoppedApi(e)
  <2>1. CASE SendLongshotOn(e) \/ SendLongshotOff(e, m_state)
    BY <2>1, LongshotConduct
  <2>2. CASE e = "STOP_CAPTURE_CHANNEL" /\ Ignored
    BY <2>2, Ending, PlainConduct DEF Unanswered
  <2>3. CASE \/ Ends(e, preparePreview(hw), "PREVIEW_READY", m_state)
             \/ Started(e, PrepareAndStart(hw), "PREVIEWING", m_state)
    <3>1. Answered(e) /\ m_state' \in {"PREVIEW_READY", "PREVIEWING", m_state}
      BY <2>3, Ending
    <3>2. e \notin Reports
      BY <1>2 DEF StoppedApi, SendLongshotOn, SendLongshotOff, Reports
    <3> QED BY <3>1, <3>2, PlainConduct
  <2>4. ASSUME ~(SendLongshotOn(e) \/ SendLongshotOff(e, m_state)),
               ~(e = "STOP_CAPTURE_CHANNEL" /\ Ignored),
               ~Ends(e, preparePreview(hw), "PREVIEW_READY", m_state),
               ~Started(e, PrepareAndStart(hw), "PREVIEWING", m_state)
        PROVE  Conduct(e)
    <3>1. Answered(e) /\ m_state' = m_state /\ e \notin Reports
      BY <1>2, <2>4, Ending DEF StoppedApi, Values, Reports
    <3> QED BY <3>1, PlainConduct
  <2> QED BY <2>1, <2>2, <2>3, <2>4
<1>3. CASE StoppedEvt(e)
  BY <1>3, Ending DEF StoppedEvt, Conduct, StaysPut, Reports
<1> QED BY <1>1, <1>2, <1>3

LEMMA ReadyConduct ==
  ASSUME m_state = "PREVIEW_READY", NEW e \in AllEvts \ {"SET_PARAMS", "DAEMON_DIED"},
         ReadySettings(e) \/ ReadyApi(e) \/ ReadyEvt(e)
  PROVE  Conduct(e)
<1>1. CASE ReadySettings(e)
  BY <1>1, Ending DEF ReadySettings, SetParams, Conduct, StaysPut, Reports, Values, EnableMsgs, DisableMsgs
<1>2. CASE ReadyApi(e)
  <2>1. CASE SendLongshotOn(e) \/ SendLongshotOff(e, m_state)
    BY <2>1, LongshotConduct
  <2>2. CASE e = "STOP_CAPTURE_CHANNEL" /\ Ignored
    BY <2>2, Ending, PlainConduct DEF Unanswered
  <2>3. ASSUME ~(SendLongshotOn(e) \/ SendLongshotOff(e, m_state)),
               ~(e = "STOP_CAPTURE_CHANNEL" /\ Ignored)
        PROVE  Conduct(e)
    <3>1. Answered(e) /\ m_state' \in {m_state, "PREVIEW_STOPPED"} /\ e \notin Reports
      BY <1>2, <2>3, Ending DEF ReadyApi, Values, Reports
    <3> QED BY <3>1, PlainConduct
  <2> QED BY <2>1, <2>2, <2>3
<1>3. CASE ReadyEvt(e)
  BY <1>3, Ending DEF ReadyEvt, Conduct, StaysPut, Reports
<1> QED BY <1>1, <1>2, <1>3

LEMMA PreviewingConduct ==
  ASSUME m_state = "PREVIEWING", bRetroPicture = FALSE,
         NEW e \in AllEvts \ {"SET_PARAMS", "DAEMON_DIED"},
         PreviewingSettings(e) \/ PreviewingApi(e) \/ PreviewingEvt(e)
  PROVE  Conduct(e)
<1>1. CASE PreviewingSettings(e)
  BY <1>1, Ending DEF PreviewingSettings, SetParams, Conduct, StaysPut, Reports, Values, EnableMsgs, DisableMsgs
<1>2. CASE PreviewingApi(e)
  <2>1. CASE PreviewingTakePicture(e)
    <3>1. Answered(e) /\ m_state' \in {"PREVIEWING", "PREVIEW_PIC_TAKING", "PIC_TAKING", "PREVIEW_STOPPED"}
      <4>1. CASE \E o \in takePicture(hw) :
                    /\ m_state' = IF o.ok THEN "PREVIEW_PIC_TAKING" ELSE "PREVIEWING"
                    /\ out' = Answer(e, Rc(o)) /\ UNCHANGED bRetroPicture
        BY <4>1, RcTyped, SignalledLists DEF Answered
      <4> QED BY <2>1, <4>1, Ending DEF PreviewingTakePicture, To
    <3> QED BY <2>1, <3>1 DEF PreviewingTakePicture, Conduct, StaysPut, Reports
  <2>2. CASE e = "START_RECORDING"
    <3>1. PICK o \in startRecording(hw) : /\ m_state' = IF o.ok THEN "RECORDING" ELSE m_state
                                          /\ out' = Answer(e, Rc(o)) /\ UNCHANGED bRetroPicture
      BY <1>2, <2>2 DEF PreviewingApi, PreviewingTakePicture, SendLongshotOn, SendLongshotOff, To
    <3>2. Answered(e)
      BY <3>1, RcTyped, SignalledLists DEF Answered
    <3> QED BY <2>2, <3>1, <3>2 DEF Conduct, StaysPut, Reports
  <2>3. CASE e = "PREPARE_SNAPSHOT"
    <3>1. \/ To("PREPARE_SNAPSHOT", hw, applyDelayedMsgs(msgs), Quiet)
          \/ Reply(e, "ERR")
      BY <1>2, <2>3 DEF PreviewingApi, PreviewingTakePicture, SendLongshotOn, SendLongshotOff
    <3> QED BY <2>3, <3>1, Ending DEF Conduct, BeginsPreparing, StaysPut, Reports, Values, To
  <2> QED BY <1>2, <2>1, <2>2, <2>3, Ending
       DEF PreviewingApi, Conduct, StaysPut, Reports, Unanswered, Values, SendLongshotOn, SendLongshotOff
<1>3. CASE PreviewingEvt(e)
  BY <1>3, Ending DEF PreviewingEvt, Conduct, StaysPut, Reports
<1> QED BY <1>1, <1>2, <1>3

LEMMA PrepareSnapshotConduct ==
  ASSUME m_state = "PREPARE_SNAPSHOT", NEW e \in AllEvts \ {"SET_PARAMS", "DAEMON_DIED"},
         PrepareSnapshotApi(e) \/ PrepareSnapshotEvt(e)
  PROVE  Conduct(e)
<1>1. CASE PrepareSnapshotApi(e)
  BY <1>1, Ending DEF PrepareSnapshotApi, Conduct, StaysPut, Reports, Unanswered, Values
<1>2. CASE PrepareSnapshotEvt(e)
  <2>1. CASE e = "PREP_SNAPSHOT_DONE"
    <3>1. To("PREVIEWING", hw, msgs, Answer("PREPARE_SNAPSHOT", "OK"))
      BY <1>2, <2>1 DEF PrepareSnapshotEvt
    <3> QED BY <2>1, <3>1, SignalledLists DEF Conduct, EndsPreparing, To
  <2> QED BY <1>2, <2>1, Ending DEF PrepareSnapshotEvt, Conduct, StaysPut, Reports
<1> QED BY <1>1, <1>2

LEMMA PicTakingConduct ==
  ASSUME m_state = "PIC_TAKING", NEW e \in AllEvts \ {"SET_PARAMS", "DAEMON_DIED"},
         PicTakingSettings(e) \/ PicTakingApi(e) \/ PicTakingEvt(e)
  PROVE  Conduct(e)
<1>1. CASE PicTakingSettings(e)
  BY <1>1, Ending DEF PicTakingSettings, SetParams, Conduct, StaysPut, Reports, Values, EnableMsgs, DisableMsgs
<1>2. CASE PicTakingApi(e)
  <2>1. CASE e = "STOP_CAPTURE_CHANNEL"
    <3>1. Answered(e) /\ m_state' = m_state
      BY <1>2, <2>1, Ending DEF PicTakingApi, SendLongshotOn, SendLongshotOff
    <3> QED BY <2>1, <3>1 DEF Conduct, StaysPut, Reports
  <2>2. CASE e \in {"LONGSHOT_ON", "LONGSHOT_OFF"}
    <3>1. SendLongshotOn(e) \/ SendLongshotOff(e, "PREVIEWING")
      BY <1>2, <2>2 DEF PicTakingApi
    <3> QED BY <2>2, <3>1, Ending DEF Conduct, StaysPut, Reports
  <2>3. CASE e \notin {"STOP_CAPTURE_CHANNEL", "LONGSHOT_ON", "LONGSHOT_OFF"}
    <3>1. Answered(e) /\ m_state' \in States \ {"PREPARE_SNAPSHOT"} /\ e \notin Reports
      BY <1>2, <2>3, Ending DEF PicTakingApi, SendLongshotOn, SendLongshotOff, Values, Reports, States
    <3> QED BY <3>1 DEF Conduct, StaysPut
  <2> QED BY <2>1, <2>2, <2>3
<1>3. CASE PicTakingEvt(e)
  BY <1>3, Ending DEF PicTakingEvt, Conduct, StaysPut, Reports
<1> QED BY <1>1, <1>2, <1>3

LEMMA RecordingConduct ==
  ASSUME m_state = "RECORDING", NEW e \in AllEvts \ {"SET_PARAMS", "DAEMON_DIED"},
         RecordingSettings(e) \/ RecordingApi(e) \/ RecordingEvt(e)
  PROVE  Conduct(e)
<1>1. CASE RecordingSettings(e)
  BY <1>1, Ending DEF RecordingSettings, SetParams, Conduct, StaysPut, Reports, Values, EnableMsgs, DisableMsgs
<1>2. CASE RecordingApi(e)
  <2>1. CASE SendLongshotOn(e) \/ SendLongshotOff(e, m_state)
    BY <2>1, LongshotConduct
  <2>2. CASE e = "STOP_CAPTURE_CHANNEL" /\ Ignored
    BY <2>2, Ending, PlainConduct DEF Unanswered
  <2>3. ASSUME ~(SendLongshotOn(e) \/ SendLongshotOff(e, m_state)),
               ~(e = "STOP_CAPTURE_CHANNEL" /\ Ignored)
        PROVE  Conduct(e)
    <3>1. Answered(e) /\ m_state' \in {m_state, "PREVIEWING", "PREVIEW_STOPPED", "VIDEO_PIC_TAKING"} /\ e \notin Reports
      BY <1>2, <2>3, Ending DEF RecordingApi, Values, Reports
    <3> QED BY <3>1, PlainConduct
  <2> QED BY <2>1, <2>2, <2>3
<1>3. CASE RecordingEvt(e)
  BY <1>3, Ending DEF RecordingEvt, Conduct, StaysPut, Reports
<1> QED BY <1>1, <1>2, <1>3

LEMMA VideoPicTakingConduct ==
  ASSUME m_state = "VIDEO_PIC_TAKING", NEW e \in AllEvts \ {"SET_PARAMS", "DAEMON_DIED"},
         VideoPicTakingSettings(e) \/ VideoPicTakingApi(e) \/ VideoPicTakingEvt(e)
  PROVE  Conduct(e)
<1>1. CASE VideoPicTakingSettings(e)
  BY <1>1, Ending DEF VideoPicTakingSettings, SetParams, Conduct, StaysPut, Reports, Values, EnableMsgs, DisableMsgs
<1>2. CASE VideoPicTakingApi(e)
  <2>1. CASE SendLongshotOn(e) \/ SendLongshotOff(e, m_state)
    BY <2>1, LongshotConduct
  <2>2. CASE e = "STOP_CAPTURE_CHANNEL" /\ Ignored
    BY <2>2, Ending, PlainConduct DEF Unanswered
  <2>3. ASSUME ~(SendLongshotOn(e) \/ SendLongshotOff(e, m_state)),
               ~(e = "STOP_CAPTURE_CHANNEL" /\ Ignored)
        PROVE  Conduct(e)
    <3>1. Answered(e) /\ m_state' \in {m_state, "PREVIEWING", "PREVIEW_STOPPED", "RECORDING"} /\ e \notin Reports
      BY <1>2, <2>3, Ending DEF VideoPicTakingApi, Values, Reports
    <3> QED BY <3>1, PlainConduct
  <2> QED BY <2>1, <2>2, <2>3
<1>3. CASE VideoPicTakingEvt(e)
  BY <1>3, Ending DEF VideoPicTakingEvt, Conduct, StaysPut, Reports
<1> QED BY <1>1, <1>2, <1>3

LEMMA PreviewPicTakingConduct ==
  ASSUME m_state = "PREVIEW_PIC_TAKING", bRetroPicture = FALSE,
         NEW e \in AllEvts \ {"SET_PARAMS", "DAEMON_DIED"},
         PreviewPicTakingSettings(e) \/ PreviewPicTakingApi(e) \/ PreviewPicTakingEvt(e)
  PROVE  Conduct(e)
<1>1. CASE PreviewPicTakingSettings(e)
  BY <1>1, Ending DEF PreviewPicTakingSettings, SetParams, Conduct, StaysPut, Reports, Values, EnableMsgs, DisableMsgs
<1>2. CASE PreviewPicTakingApi(e)
  <2>1. Rc(CancelCapture) \in Values
    BY RcTyped
  <2> QED BY <1>2, <2>1, Ending
       DEF PreviewPicTakingApi, Conduct, StaysPut, Reports, Unanswered, Values, SendLongshotOn, SendLongshotOff
<1>3. CASE PreviewPicTakingEvt(e)
  BY <1>3, Ending DEF PreviewPicTakingEvt, Conduct, StaysPut, Reports
<1> QED BY <1>1, <1>2, <1>3

LEMMA HandlersConduct ==
  ASSUME bRetroPicture = FALSE, NEW e \in AllEvts \ {"SET_PARAMS", "DAEMON_DIED"}, stateMachine(e)
  PROVE  Conduct(e)
  BY StoppedConduct, ReadyConduct, PreviewingConduct, PrepareSnapshotConduct, PicTakingConduct,
     RecordingConduct, VideoPicTakingConduct, PreviewPicTakingConduct DEF stateMachine

-----------------------------------------------------------------------------
(***************************************************************************)
(* The rendezvous.  A result carries the name of its request and nothing   *)
(* of its caller, so it reaches the right one only if no two callers are   *)
(* ever in the same request, and no HAL thread queues one on its own.      *)
(***************************************************************************)
Asks(c) ==
    (CallsOf[c] \ {take_picture})
    \cup (IF take_picture \in CallsOf[c] THEN {"TAKE_PICTURE", "PREPARE_SNAPSHOT"} ELSE {})
Wanted(c) == {RequestOf(e) : e \in Asks(c)}
SpareEvts == LooseApis \cup {"CANCEL_PICTURE"}

CallersApart ==
    /\ \A c, d \in Clients : c # d => Wanted(c) \cap Wanted(d) = {}
    /\ \A c \in Clients : Wanted(c) \cap {RequestOf(e) : e \in SpareEvts} = {}
    /\ \A c \in Clients : CallsOf[c] \cap Unanswered = {}
    /\ NobodySends({"SET_PARAMS"})

Barred == {"SET_PARAMS", "DAEMON_DIED"}

(* Where the request of a client can be. *)
InQueue(c) == \E i \in DOMAIN api_queue : api_queue[i].owner = c
Handled(c) == sm.pc = "handle" /\ sm.cmd.owner = c
Signalled(c) == sm.pc = "signal" /\ out.api # <<>> /\ Head(out.api).req \in Wanted(c)
Preparing(c) == m_state = "PREPARE_SNAPSHOT" /\ "PREPARE_SNAPSHOT" \in Wanted(c)
Listed(c) == \E i \in DOMAIN m_apiResultList : m_apiResultList[i].req \in Wanted(c)

Places == {"nowhere", "queue", "handler", "signal", "daemon", "list"}

(* It is in one place at a time, in none only when there is none. *)
At(c, p) ==
    /\ client[c].pc = "idle" <=> p = "nowhere"
    /\ InQueue(c) <=> p = "queue"
    /\ Handled(c) <=> p = "handler"
    /\ Signalled(c) <=> p = "signal"
    /\ Preparing(c) <=> p = "daemon"
    /\ Listed(c) <=> p = "list"

(* It is there once, and it is the one the client is in. *)
QueueMatches(c) ==
    \A i \in DOMAIN api_queue : api_queue[i].owner = c =>
        /\ api_queue[i].evt = client[c].evt
        /\ \A j \in DOMAIN api_queue : api_queue[j].owner = c => j = i

HandlerMatches(c) ==
    /\ Handled(c) => sm.cmd.evt = client[c].evt
    /\ Signalled(c) => Head(out.api).req = RequestOf(client[c].evt)
    /\ Preparing(c) => client[c].evt = "PREPARE_SNAPSHOT"

ListMatches(c) ==
    \A i \in DOMAIN m_apiResultList : m_apiResultList[i].req \in Wanted(c) =>
        /\ m_apiResultList[i].req = RequestOf(client[c].evt)
        /\ \A j \in DOMAIN m_apiResultList : m_apiResultList[j].req \in Wanted(c) => j = i

(* The client's own side: it holds the lock from before it queues a command *)
(* until it sleeps, so its result finds it asleep.                          *)
ClientFits(c) ==
    /\ Listed(c) => client[c].pc = "woken"
    /\ client[c].pc # "idle" => client[c].evt \in Asks(c)
    /\ client[c].rest \in Seq(Asks(c))
    /\ client[c].pc \in {"enqueued", "posted"} => m_lock = c

Placed(c) ==
    /\ QueueMatches(c) /\ HandlerMatches(c) /\ ListMatches(c) /\ ClientFits(c)
    /\ \E p \in Places : At(c, p)

(* The other commands are those of the HAL's own threads and the daemon's.  *)
OthersSpare ==
    /\ \A i \in DOMAIN api_queue : api_queue[i].owner = None => api_queue[i].evt \in SpareEvts
    /\ sm.pc = "handle" /\ sm.cmd.owner = None => sm.cmd.evt \in SpareEvts \cup Reports
    /\ evt_queue \in Seq(Reports) /\ owed \subseteq Reports

(* A preparation is ended by a report that is still to come. *)
PrepEnds ==
    m_state = "PREPARE_SNAPSHOT" =>
        \/ "PREP_SNAPSHOT_DONE" \in owed
        \/ \E i \in DOMAIN evt_queue : evt_queue[i] = "PREP_SNAPSHOT_DONE"
        \/ sm.pc = "handle" /\ sm.cmd.evt = "PREP_SNAPSHOT_DONE"

HandlerSide ==
    /\ Plain(hw) /\ bRetroPicture = FALSE /\ daemon = "up"
    /\ out.api # <<>> => Tail(out.api) = <<>>

MeetInv ==
    /\ TypeInv /\ Never(Barred)
    /\ HandlerSide /\ OthersSpare /\ PrepEnds
    /\ \A c \in Clients : Placed(c)

(* What a client asks for is an API command that is answered. *)
LEMMA AsksAnswered ==
  ASSUME CallersApart, NEW c \in Clients
  PROVE  /\ Asks(c) \subseteq AllEvts
         /\ \A e \in Asks(c) : /\ e \notin Reports \cup Unanswered /\ RequestOf(e) \in Wanted(c)
         /\ "SNAPSHOT_DONE" \notin Wanted(c)
<1>1. CallsOf[c] \subseteq ApiEvts \cup {take_picture}
  BY CallsAssumption
<1>2. Asks(c) \subseteq ApiEvts /\ Asks(c) \cap Unanswered = {}
  BY <1>1 DEF Asks, CallersApart, ApiEvts, AllEvts, Unanswered
<1>3. \A e \in ApiEvts : RequestOf(e) # "SNAPSHOT_DONE"
  BY DEF RequestOf, ApiEvts
<1> QED BY <1>2, <1>3 DEF Wanted, ApiEvts, Reports

(* Two clients want different results, and none wants a spare one. *)
LEMMA WantedApart ==
  ASSUME CallersApart, NEW c \in Clients
  PROVE  /\ \A d \in Clients \ {c} : \A e \in Asks(d) : RequestOf(e) \notin Wanted(c)
         /\ \A e \in SpareEvts : RequestOf(e) \notin Wanted(c)
  BY DEF CallersApart, Wanted

LEMMA BarredNever == ASSUME CallersApart PROVE NobodySends(Barred) /\ Barred \cap SentAnyway = {}
<1>1. ApiEvts \cap {"DAEMON_DIED"} = {} /\ take_picture # "DAEMON_DIED"
  BY DEF ApiEvts, take_picture
<1> QED BY <1>1, CallsAssumption, LooseAssumption DEF CallersApart, NobodySends, Barred, SentAnyway

(* The end of a queue grows, its head goes. *)
LEMMA AppendParts ==
  ASSUME NEW S, NEW s \in Seq(S), NEW x \in S
  PROVE  /\ DOMAIN Append(s, x) = DOMAIN s \cup {Len(s) + 1} /\ Len(s) + 1 \notin DOMAIN s
         /\ \A i \in DOMAIN s : Append(s, x)[i] = s[i]
         /\ Append(s, x)[Len(s) + 1] = x
  BY AppendProperties

LEMMA TailParts ==
  ASSUME NEW S, NEW s \in Seq(S), s # <<>>
  PROVE  /\ Head(s) = s[1] /\ 1 \in DOMAIN s
         /\ \A i \in DOMAIN Tail(s) : i + 1 \in DOMAIN s /\ i + 1 # 1 /\ Tail(s)[i] = s[i + 1] /\ i \in Int
         /\ \A i \in DOMAIN s \ {1} : i - 1 \in DOMAIN Tail(s) /\ Tail(s)[i - 1] = s[i]
<1>1. /\ Head(s) = s[1] /\ Tail(s) \in Seq(S) /\ Len(Tail(s)) = Len(s) - 1
      /\ \A i \in 1 .. Len(s) - 1 : Tail(s)[i] = s[i + 1]
      /\ Len(s) \in Nat \ {0}
  BY HeadTailProperties
<1>2. DOMAIN s = 1 .. Len(s) /\ DOMAIN Tail(s) = 1 .. Len(s) - 1
  BY <1>1
<1> QED BY <1>1, <1>2

LEMMA TypesThere ==
  ASSUME TypeInv
  PROVE  /\ client \in [Clients -> ClientRecords]
         /\ sm \in [pc : {"wait", "dequeue", "handle", "signal"}, cmd : Commands]
         /\ api_queue \in Seq(RealCommands) /\ evt_queue \in Seq(AllEvts)
         /\ m_apiResultList \in Seq(Results) /\ out \in Outputs /\ hw \in Hardware
         /\ m_lock \in Clients \cup {None}
         /\ \A c \in Clients : c # None
  BY ClientsAssumption DEF TypeInv, SemInv, QueueTypes, CommandsReal, RestTyped, IInv, Fits, Signals

LEMMA InitMeetInv == ApiInit => MeetInv
<1> SUFFICES ASSUME ApiInit PROVE MeetInv OBVIOUS
<1>1. /\ api_queue = <<>> /\ evt_queue = <<>> /\ m_apiResultList = <<>> /\ owed = {} /\ daemon = "up"
      /\ sm = [pc |-> "wait", cmd |-> Nobody] /\ client = [c \in Clients |-> Idle]
      /\ m_state = "PREVIEW_STOPPED" /\ bRetroPicture = FALSE /\ out.api = <<>> /\ Plain(hw)
  BY SignalledLists DEF ApiInit, Init, Plain
<1>2. ASSUME NEW c \in Clients PROVE Placed(c)
  <2>1. <<>> \in Seq(Asks(c))
    OBVIOUS
  <2>2. client[c] = Idle
    BY <1>1
  <2>3. ~InQueue(c) /\ ~Handled(c) /\ ~Signalled(c) /\ ~Preparing(c) /\ ~Listed(c)
    BY <1>1 DEF InQueue, Handled, Signalled, Preparing, Listed
  <2>4. At(c, "nowhere") /\ "nowhere" \in Places
    BY <2>2, <2>3 DEF At, Idle, Places
  <2>5. QueueMatches(c) /\ ListMatches(c)
    BY <1>1 DEF QueueMatches, ListMatches
  <2> QED BY <2>1, <2>2, <2>3, <2>4, <2>5 DEF Placed, HandlerMatches, ClientFits, Idle
<1>3. <<>> \in Seq(Reports)
  OBVIOUS
<1> QED BY <1>1, <1>2, <1>3, InitTypeInv, InitNever DEF MeetInv, HandlerSide, OthersSpare, PrepEnds

(* A client of which nothing but the point it is at may have changed. *)
LEMMA MovesAlong ==
  ASSUME NEW c \in Clients, Placed(c),
         UNCHANGED <<api_queue, sm, out, m_state, m_apiResultList>>,
         client'[c].evt = client[c].evt, client'[c].rest = client[c].rest,
         client'[c].pc = "idle" <=> client[c].pc = "idle",
         Listed(c) => client'[c].pc = "woken",
         client'[c].pc \in {"enqueued", "posted"} => m_lock' = c
  PROVE  Placed(c)'
<1>1. /\ InQueue(c)' = InQueue(c) /\ Handled(c)' = Handled(c) /\ Signalled(c)' = Signalled(c)
      /\ Preparing(c)' = Preparing(c) /\ Listed(c)' = Listed(c)
  BY DEF InQueue, Handled, Signalled, Preparing, Listed
<1>2. QueueMatches(c)' /\ HandlerMatches(c)' /\ ListMatches(c)'
  BY <1>1 DEF Placed, QueueMatches, HandlerMatches, ListMatches
<1>3. ClientFits(c)'
  BY <1>1 DEF Placed, ClientFits
<1>4. ASSUME NEW p \in Places, At(c, p) PROVE At(c, p)'
  BY <1>1, <1>4 DEF At
<1> QED BY <1>2, <1>3, <1>4 DEF Placed

(* One that is not concerned at all. *)
LEMMA LeftAlone ==
  ASSUME NEW c \in Clients, Placed(c), client'[c] = client[c], m_lock = c => m_lock' = c,
         UNCHANGED <<api_queue, sm, out, m_state, m_apiResultList>>
  PROVE  Placed(c)'
<1>1. client[c].pc \in {"enqueued", "posted"} => m_lock = c
  BY DEF Placed, ClientFits
<1>2. Listed(c) => client[c].pc = "woken"
  BY DEF Placed, ClientFits
<1> QED BY <1>1, <1>2, MovesAlong

(* A command is queued: those of other owners stay where they are. *)
LEMMA QueueGrows ==
  ASSUME TypeInv, NEW c \in Clients, NEW cmd \in RealCommands,
         api_queue' = Append(api_queue, cmd), cmd.owner # c
  PROVE  /\ InQueue(c)' = InQueue(c)
         /\ QueueMatches(c) /\ client'[c].evt = client[c].evt => QueueMatches(c)'
<1>1. /\ DOMAIN api_queue' = DOMAIN api_queue \cup {Len(api_queue) + 1}
      /\ \A i \in DOMAIN api_queue : api_queue'[i] = api_queue[i]
      /\ api_queue'[Len(api_queue) + 1] = cmd
  BY AppendParts, TypesThere
<1> QED BY <1>1 DEF InQueue, QueueMatches

LEMMA NewRequest ==
  ASSUME TypeInv, CallersApart, NEW c \in Clients, NEW e \in Asks(c), NEW rest \in Seq(Asks(c)),
         api_queue' = Append(api_queue, Command(e, c)),
         client' = [client EXCEPT ![c] = [pc |-> "enqueued", evt |-> e, rest |-> rest]],
         m_lock = None, m_lock' = c, UNCHANGED <<sm, out, m_state>>,
         ~InQueue(c), ~Handled(c), ~Signalled(c), ~Preparing(c), ~Listed(c)',
         \A d \in Clients : Placed(d),
         \A d \in Clients \ {c} : ListMatches(d)' /\ Listed(d)' = Listed(d)
  PROVE  \A d \in Clients : Placed(d)'
<1>1. Command(e, c) \in RealCommands /\ e \in AllEvts
  BY AsksAnswered, RealCommand
<1>2. /\ DOMAIN api_queue' = DOMAIN api_queue \cup {Len(api_queue) + 1}
      /\ \A i \in DOMAIN api_queue : api_queue'[i] = api_queue[i]
      /\ api_queue'[Len(api_queue) + 1] = Command(e, c)
  BY <1>1, AppendParts, TypesThere
<1>3. client'[c] = [pc |-> "enqueued", evt |-> e, rest |-> rest]
  BY TypesThere
<1>4. Placed(c)'
  <2>1. InQueue(c)' /\ QueueMatches(c)'
    BY <1>2, <1>3 DEF InQueue, QueueMatches, Command
  <2>2. ~Handled(c)' /\ ~Signalled(c)' /\ ~Preparing(c)'
    BY DEF Handled, Signalled, Preparing
  <2>3. HandlerMatches(c)' /\ ListMatches(c)'
    BY <2>2 DEF HandlerMatches, ListMatches, Listed
  <2>4. ClientFits(c)'
    BY <1>3 DEF ClientFits
  <2>5. At(c, "queue")' /\ "queue" \in Places
    BY <1>3, <2>1, <2>2 DEF At, Places
  <2> QED BY <2>1, <2>3, <2>4, <2>5 DEF Placed
<1>5. ASSUME NEW d \in Clients \ {c} PROVE Placed(d)'
  <2>1. client'[d] = client[d] /\ Placed(d)
    BY TypesThere
  <2>2. Command(e, c).owner # d
    BY DEF Command
  <2>3. InQueue(d)' = InQueue(d) /\ QueueMatches(d)'
    BY <1>1, <2>1, <2>2, QueueGrows DEF Placed
  <2>4. /\ Handled(d)' = Handled(d) /\ Signalled(d)' = Signalled(d) /\ Preparing(d)' = Preparing(d)
        /\ Listed(d)' = Listed(d)
    BY DEF Handled, Signalled, Preparing
  <2>5. HandlerMatches(d)'
    BY <2>1, <2>4 DEF Placed, HandlerMatches
  <2>6. client[d].pc \notin {"enqueued", "posted"}
    BY <2>1, TypesThere DEF Placed, ClientFits
  <2>7. ClientFits(d)'
    BY <2>1, <2>4, <2>6 DEF Placed, ClientFits
  <2>8. ASSUME NEW p \in Places, At(d, p) PROVE At(d, p)'
    BY <2>1, <2>3, <2>4, <2>8 DEF At
  <2> QED BY <2>1, <2>3, <2>5, <2>7, <2>8 DEF Placed
<1> QED BY <1>4, <1>5

(* lockAPI and procAPI by a client that was in no request. *)
LEMMA EnterMeets ==
  ASSUME MeetInv, CallersApart, NEW c \in Clients, NEW e \in Asks(c), NEW rest \in Seq(Asks(c)),
         Enter(c, e, rest), UNCHANGED <<m_state, out>>
  PROVE  /\ \A d \in Clients : Placed(d)'
         /\ (\A i \in DOMAIN api_queue : api_queue[i].owner = None => api_queue[i].evt \in SpareEvts)'
<1>0. TypeInv /\ \A d \in Clients : Placed(d)
  BY DEF MeetInv
<1>1. client[c].pc = "idle" /\ m_lock = None /\ m_lock' = c
  BY DEF Enter, Idle, CanLock
<1>2. ~InQueue(c) /\ ~Handled(c) /\ ~Signalled(c) /\ ~Preparing(c) /\ ~Listed(c)
  <2>1. PICK p \in Places : At(c, p)
    BY <1>0 DEF Placed
  <2> QED BY <1>1, <2>1 DEF At
<1>3. /\ api_queue' = Append(api_queue, Command(e, c))
      /\ client' = [client EXCEPT ![c] = [pc |-> "enqueued", evt |-> e, rest |-> rest]]
      /\ UNCHANGED <<sm, m_apiResultList>>
  BY DEF Enter
<1>4. ASSUME NEW d \in Clients PROVE Listed(d)' = Listed(d)
  BY <1>3 DEF Listed
<1>5. ASSUME NEW d \in Clients \ {c} PROVE ListMatches(d)'
  <2>1. client'[d] = client[d]
    BY <1>0, <1>3, TypesThere
  <2> QED BY <1>0, <1>3, <2>1 DEF Placed, ListMatches
<1>6. \A d \in Clients : Placed(d)'
  BY <1>0, <1>1, <1>2, <1>3, <1>4, <1>5, NewRequest
<1>7. Command(e, c) \in RealCommands
  BY AsksAnswered, RealCommand
<1>8. (\A i \in DOMAIN api_queue : api_queue[i].owner = None => api_queue[i].evt \in SpareEvts)'
  <2>1. /\ DOMAIN api_queue' = DOMAIN api_queue \cup {Len(api_queue) + 1}
        /\ \A i \in DOMAIN api_queue : api_queue'[i] = api_queue[i]
        /\ api_queue'[Len(api_queue) + 1] = Command(e, c)
    BY <1>0, <1>3, <1>7, AppendParts, TypesThere
  <2>2. Command(e, c).owner # None
    BY <1>0, TypesThere DEF Command
  <2> QED BY <2>1, <2>2 DEF MeetInv, OthersSpare
<1> QED BY <1>6, <1>8

(* A result taken off the list is gone, every other stays, once. *)
LEMMA RemovedParts ==
  ASSUME NEW S, NEW s \in Seq(S), NEW i \in DOMAIN s
  PROVE  /\ \A j \in DOMAIN RemoveAt(s, i) : \E k \in DOMAIN s \ {i} :
               RemoveAt(s, i)[j] = s[k] /\ j = IF k < i THEN k ELSE k - 1
         /\ \A k \in DOMAIN s \ {i} : \E j \in DOMAIN RemoveAt(s, i) : RemoveAt(s, i)[j] = s[k]
<1>0. i \in 1 .. Len(s)
  OBVIOUS
<1>1. /\ RemoveAt(s, i) \in Seq(S) /\ Len(RemoveAt(s, i)) = Len(s) - 1 /\ i \in 1 .. Len(s)
      /\ \A j \in 1 .. Len(s) - 1 : RemoveAt(s, i)[j] = s[IF j < i THEN j ELSE j + 1]
  BY <1>0, RemoveAtTyped
<1>2. DOMAIN RemoveAt(s, i) = 1 .. Len(s) - 1 /\ DOMAIN s = 1 .. Len(s) /\ Len(s) \in Nat
  BY <1>1
<1>3. ASSUME NEW j \in DOMAIN RemoveAt(s, i)
      PROVE  \E k \in DOMAIN s \ {i} : RemoveAt(s, i)[j] = s[k] /\ j = IF k < i THEN k ELSE k - 1
  <2> DEFINE k == IF j < i THEN j ELSE j + 1
  <2>1. k \in DOMAIN s \ {i} /\ j = IF k < i THEN k ELSE k - 1
    BY <1>1, <1>2
  <2>2. RemoveAt(s, i)[j] = s[k]
    BY <1>1, <1>2
  <2> QED BY <2>1, <2>2
<1>4. ASSUME NEW k \in DOMAIN s \ {i}
      PROVE  \E j \in DOMAIN RemoveAt(s, i) : RemoveAt(s, i)[j] = s[k]
  <2> DEFINE j == IF k < i THEN k ELSE k - 1
  <2>1. j \in DOMAIN RemoveAt(s, i) /\ k = IF j < i THEN j ELSE j + 1
    BY <1>1, <1>2
  <2>2. RemoveAt(s, i)[j] = s[k]
    BY <1>1, <1>2, <2>1
  <2> QED BY <2>1, <2>2
<1> QED BY <1>3, <1>4

(* waitAPIResult takes the result off the list. *)
LEMMA TakeMeets ==
  ASSUME MeetInv, CallersApart, NEW c \in Clients, TakeResult(c)
  PROVE  /\ \A d \in Clients : Placed(d)'
         /\ (\A i \in DOMAIN api_queue : api_queue[i].owner = None => api_queue[i].evt \in SpareEvts)'
<1> DEFINE k == First(Answers(c))
<1>0. TypeInv /\ \A d \in Clients : Placed(d)
  BY DEF MeetInv
<1>1. client[c].pc = "woken" /\ m_lock = None /\ Answers(c) # {}
  BY DEF TakeResult, CanLock
<1>2. /\ client[c].evt \in Asks(c) /\ RequestOf(client[c].evt) \in Wanted(c)
      /\ client[c].rest \in Seq(Asks(c))
  BY <1>0, <1>1, AsksAnswered DEF Placed, ClientFits
<1>3. k \in DOMAIN m_apiResultList /\ m_apiResultList[k].req \in Wanted(c)
  <2>1. m_apiResultList \in Seq(Results)
    BY <1>0, TypesThere
  <2>2. Answers(c) \in SUBSET Nat /\ Answers(c) # {}
    BY <1>1, <2>1 DEF Answers
  <2>3. First(Answers(c)) \in Answers(c)
    BY <2>2, FirstIsMember
  <2> QED BY <1>2, <2>3 DEF Answers
<1>4. m_apiResultList' = RemoveAt(m_apiResultList, k)
  BY DEF TakeResult
<1> HIDE DEF k
<1>5. ~InQueue(c) /\ ~Handled(c) /\ ~Signalled(c) /\ ~Preparing(c)
  <2>1. PICK p \in Places : At(c, p)
    BY <1>0 DEF Placed
  <2> QED BY <1>3, <2>1 DEF At, Listed
<1>6. /\ \A j \in DOMAIN m_apiResultList' : \E i \in DOMAIN m_apiResultList \ {k} :
             m_apiResultList'[j] = m_apiResultList[i] /\ j = IF i < k THEN i ELSE i - 1
      /\ \A i \in DOMAIN m_apiResultList \ {k} : \E j \in DOMAIN m_apiResultList' :
             m_apiResultList'[j] = m_apiResultList[i]
  BY <1>0, <1>3, <1>4, RemovedParts, TypesThere
<1>7. ~Listed(c)'
  <2>1. \A i \in DOMAIN m_apiResultList : m_apiResultList[i].req \in Wanted(c) => i = k
    BY <1>0, <1>3 DEF Placed, ListMatches
  <2> QED BY <1>6, <2>1 DEF Listed
<1>8. ASSUME NEW d \in Clients \ {c}, client'[d] = client[d]
      PROVE  ListMatches(d)' /\ Listed(d)' = Listed(d)
  <2>1. m_apiResultList[k].req \notin Wanted(d)
    <3>1. m_apiResultList[k].req = RequestOf(client[c].evt)
      BY <1>0, <1>3 DEF Placed, ListMatches
    <3> QED BY <1>2, <3>1, WantedApart
  <2>2. Listed(d)' = Listed(d)
    BY <1>6, <2>1 DEF Listed
  <2>3. ListMatches(d)'
    BY <1>0, <1>6, <1>8 DEF Placed, ListMatches
  <2> QED BY <2>2, <2>3
<1>9. UNCHANGED <<sm, out, m_state>>
  BY DEF TakeResult, core, vars
<1>10. CASE client[c].rest = <<>>
  <2>1. client' = [client EXCEPT ![c] = Idle] /\ UNCHANGED <<m_lock, api_queue>>
    BY <1>10 DEF TakeResult
  <2>2. client'[c] = Idle /\ \A d \in Clients \ {c} : client'[d] = client[d]
    BY <1>0, <2>1, TypesThere
  <2>3. ASSUME NEW d \in Clients
        PROVE  /\ InQueue(d)' = InQueue(d) /\ Handled(d)' = Handled(d)
               /\ Signalled(d)' = Signalled(d) /\ Preparing(d)' = Preparing(d)
    BY <1>9, <2>1 DEF InQueue, Handled, Signalled, Preparing
  <2>4. Placed(c)'
    <3>1. QueueMatches(c)'
      BY <1>5, <2>1 DEF QueueMatches, InQueue
    <3>2. HandlerMatches(c)' /\ ListMatches(c)'
      BY <1>5, <1>7, <2>3 DEF HandlerMatches, ListMatches, Listed
    <3>3. <<>> \in Seq(Asks(c))
      OBVIOUS
    <3>4. ClientFits(c)'
      BY <1>7, <2>2, <3>3 DEF ClientFits, Idle
    <3>5. At(c, "nowhere")' /\ "nowhere" \in Places
      BY <1>5, <1>7, <2>2, <2>3 DEF At, Idle, Places
    <3> QED BY <3>1, <3>2, <3>4, <3>5 DEF Placed
  <2>5. ASSUME NEW d \in Clients \ {c} PROVE Placed(d)'
    <3>1. client'[d] = client[d] /\ Placed(d) /\ ListMatches(d)' /\ Listed(d)' = Listed(d)
      BY <1>0, <1>8, <2>2
    <3>2. QueueMatches(d)' /\ HandlerMatches(d)'
      BY <1>9, <2>1, <2>3, <3>1 DEF Placed, QueueMatches, HandlerMatches
    <3>3. ClientFits(d)'
      BY <2>1, <3>1 DEF Placed, ClientFits
    <3>4. ASSUME NEW p \in Places, At(d, p) PROVE At(d, p)'
      BY <2>3, <3>1, <3>4 DEF At
    <3> QED BY <3>1, <3>2, <3>3, <3>4 DEF Placed
  <2> QED BY <2>1, <2>4, <2>5 DEF MeetInv, OthersSpare
<1>11. CASE client[c].rest # <<>>
  <2> DEFINE e == Head(client[c].rest)
             rest == Tail(client[c].rest)
  <2>1. e \in Asks(c) /\ rest \in Seq(Asks(c))
    BY <1>2, <1>11, HeadTailProperties
  <2>2. /\ client' = [client EXCEPT ![c] = [pc |-> "enqueued", evt |-> e, rest |-> rest]]
        /\ api_queue' = Append(api_queue, Command(e, c)) /\ m_lock' = c
    BY <1>11 DEF TakeResult
  <2> HIDE DEF e, rest
  <2>3. \A d \in Clients \ {c} : client'[d] = client[d]
    BY <1>0, <2>2, TypesThere
  <2>4. \A d \in Clients : Placed(d)'
    BY <1>0, <1>1, <1>5, <1>7, <1>8, <1>9, <2>1, <2>2, <2>3, NewRequest
  <2>5. (\A i \in DOMAIN api_queue : api_queue[i].owner = None => api_queue[i].evt \in SpareEvts)'
    <3>1. Command(e, c) \in RealCommands
      BY <2>1, AsksAnswered, RealCommand
    <3>2. /\ DOMAIN api_queue' = DOMAIN api_queue \cup {Len(api_queue) + 1}
          /\ \A i \in DOMAIN api_queue : api_queue'[i] = api_queue[i]
          /\ api_queue'[Len(api_queue) + 1] = Command(e, c)
      BY <1>0, <2>2, <3>1, AppendParts, TypesThere
    <3>3. Command(e, c).owner # None
      BY <1>0, TypesThere DEF Command
    <3> QED BY <3>2, <3>3 DEF MeetInv, OthersSpare
  <2> QED BY <2>4, <2>5
<1> QED BY <1>10, <1>11

(* sem_post, the wait, and a wake-up for somebody else's result. *)
LEMMA WaitMeets ==
  ASSUME MeetInv, CallersApart, NEW c \in Clients, SemPost(c) \/ CondWait(c) \/ SleepOn(c)
  PROVE  \A d \in Clients : Placed(d)'
<1>0. TypeInv /\ \A d \in Clients : Placed(d)
  BY DEF MeetInv
<1>1. UNCHANGED <<api_queue, sm, out, m_state, m_apiResultList>>
  BY DEF SemPost, CondWait, SleepOn, core, vars
<1>2. PICK p \in {"posted", "waiting"} : client' = [client EXCEPT ![c].pc = p]
  BY DEF SemPost, CondWait, SleepOn
<1>3. /\ client'[c].pc = p /\ client'[c].evt = client[c].evt /\ client'[c].rest = client[c].rest
      /\ \A d \in Clients \ {c} : client'[d] = client[d]
  BY <1>0, <1>2, TypesThere DEF ClientRecords
<1>4. client[c].pc \in {"enqueued", "posted", "woken"} /\ p # "idle"
  BY DEF SemPost, CondWait, SleepOn
<1>5. ~Listed(c)
  <2>1. CASE client[c].pc # "woken"
    BY <1>0, <2>1 DEF Placed, ClientFits
  <2>2. CASE client[c].pc = "woken"
    <3>1. Answers(c) = {}
      BY <2>2 DEF SemPost, CondWait, SleepOn
    <3>2. \A i \in DOMAIN m_apiResultList :
             m_apiResultList[i].req \in Wanted(c) => m_apiResultList[i].req = RequestOf(client[c].evt)
      BY <1>0 DEF Placed, ListMatches
    <3> QED BY <3>1, <3>2 DEF Answers, Listed
  <2> QED BY <2>1, <2>2
<1>6. p = "posted" => m_lock' = c
  <2>1. CASE SemPost(c)
    BY <1>0, <2>1 DEF SemPost, Placed, ClientFits
  <2>2. CASE CondWait(c) \/ SleepOn(c)
    BY <1>0, <1>2, <2>2, TypesThere DEF CondWait, SleepOn, ClientRecords
  <2> QED BY <2>1, <2>2
<1>7. \A d \in Clients \ {c} : m_lock = d => m_lock' = d
  BY <1>0 DEF SemPost, CondWait, SleepOn, Placed, ClientFits
<1>8. Placed(c)'
  BY <1>0, <1>1, <1>3, <1>4, <1>5, <1>6, MovesAlong
<1>9. ASSUME NEW d \in Clients \ {c} PROVE Placed(d)'
  BY <1>0, <1>1, <1>3, <1>7, LeftAlone
<1> QED BY <1>8, <1>9

(* The state machine thread takes a command. *)
LEMMA DequeueMeets ==
  ASSUME MeetInv, CallersApart, DequeueApi
  PROVE  (\A d \in Clients : Placed(d)') /\ OthersSpare'
<1>0. TypeInv /\ OthersSpare /\ \A d \in Clients : Placed(d)
  BY DEF MeetInv
<1>1. /\ sm.pc = "dequeue" /\ api_queue # <<>> /\ api_queue' = Tail(api_queue)
      /\ sm' = [pc |-> "handle", cmd |-> api_queue[1]]
  BY <1>0, TailParts, TypesThere DEF DequeueApi
<1>2. /\ 1 \in DOMAIN api_queue
      /\ \A i \in DOMAIN api_queue' : i + 1 \in DOMAIN api_queue /\ i + 1 # 1 /\ i \in Int
                                        /\ api_queue'[i] = api_queue[i + 1]
      /\ \A i \in DOMAIN api_queue \ {1} : i - 1 \in DOMAIN api_queue' /\ api_queue'[i - 1] = api_queue[i]
  BY <1>0, <1>1, TailParts, TypesThere
<1>3. UNCHANGED <<out, m_state, m_apiResultList, client, m_lock, evt_queue, owed>>
  BY DEF DequeueApi, core, vars
<1>4. ASSUME NEW d \in Clients PROVE Placed(d)'
  <2>1. /\ ~Handled(d) /\ ~Signalled(d) /\ ~Signalled(d)'
        /\ Preparing(d)' = Preparing(d) /\ Listed(d)' = Listed(d)
    BY <1>1, <1>3 DEF Handled, Signalled, Preparing, Listed
  <2>2. ListMatches(d)' /\ ClientFits(d)'
    BY <1>0, <1>3, <2>1 DEF Placed, ListMatches, ClientFits
  <2>3. QueueMatches(d)'
    BY <1>0, <1>2, <1>3 DEF Placed, QueueMatches
  <2>4. CASE api_queue[1].owner = d
    <3>1. InQueue(d) /\ ~InQueue(d)'
      BY <1>0, <1>2, <2>4 DEF InQueue, Placed, QueueMatches
    <3>2. Handled(d)' /\ (sm.cmd.evt = client[d].evt)'
      BY <1>0, <1>1, <1>2, <1>3, <2>4 DEF Handled, Placed, QueueMatches
    <3>3. HandlerMatches(d)'
      BY <1>0, <1>3, <2>1, <3>2 DEF Placed, HandlerMatches
    <3>4. At(d, "handler")' /\ "handler" \in Places
      BY <1>0, <1>3, <2>1, <3>1, <3>2 DEF Placed, At, Places
    <3> QED BY <2>2, <2>3, <3>3, <3>4 DEF Placed
  <2>5. CASE api_queue[1].owner # d
    <3>1. InQueue(d)' = InQueue(d)
      BY <1>2, <2>5 DEF InQueue
    <3>2. ~Handled(d)'
      BY <1>1, <2>5 DEF Handled
    <3>3. HandlerMatches(d)'
      BY <1>0, <1>3, <2>1, <3>2 DEF Placed, HandlerMatches
    <3>4. ASSUME NEW p \in Places, At(d, p) PROVE At(d, p)'
      BY <1>3, <2>1, <3>1, <3>2, <3>4 DEF At
    <3> QED BY <1>0, <2>2, <2>3, <3>3, <3>4 DEF Placed
  <2> QED BY <2>4, <2>5
<1>5. OthersSpare'
  BY <1>0, <1>1, <1>2, <1>3 DEF OthersSpare
<1> QED BY <1>4, <1>5

LEMMA DequeueEvtMeets ==
  ASSUME MeetInv, CallersApart, DequeueEvt
  PROVE  (\A d \in Clients : Placed(d)') /\ OthersSpare' /\ PrepEnds'
<1>0. TypeInv /\ OthersSpare /\ PrepEnds /\ \A d \in Clients : Placed(d)
  BY DEF MeetInv
<1>1. /\ sm.pc = "dequeue" /\ evt_queue # <<>> /\ evt_queue' = Tail(evt_queue)
      /\ sm' = [pc |-> "handle", cmd |-> Command(Head(evt_queue), None)]
  BY DEF DequeueEvt
<1>2. /\ Head(evt_queue) = evt_queue[1] /\ Head(evt_queue) \in Reports /\ evt_queue' \in Seq(Reports)
      /\ \A i \in DOMAIN evt_queue \ {1} : i - 1 \in DOMAIN evt_queue' /\ evt_queue'[i - 1] = evt_queue[i]
  BY <1>0, <1>1, TailParts, HeadTailProperties DEF OthersSpare
<1>3. UNCHANGED <<out, m_state, m_apiResultList, client, m_lock, api_queue, owed>>
  BY DEF DequeueEvt, core, vars
<1>4. ASSUME NEW d \in Clients PROVE Placed(d)'
  <2>1. /\ ~Handled(d) /\ ~Handled(d)' /\ ~Signalled(d) /\ ~Signalled(d)'
        /\ Preparing(d)' = Preparing(d) /\ Listed(d)' = Listed(d) /\ InQueue(d)' = InQueue(d)
    BY <1>0, <1>1, <1>3, TypesThere DEF Handled, Signalled, Preparing, Listed, InQueue, Command
  <2>2. QueueMatches(d)' /\ HandlerMatches(d)' /\ ListMatches(d)' /\ ClientFits(d)'
    BY <1>0, <1>3, <2>1 DEF Placed, QueueMatches, HandlerMatches, ListMatches, ClientFits
  <2>3. ASSUME NEW p \in Places, At(d, p) PROVE At(d, p)'
    BY <1>3, <2>1, <2>3 DEF At
  <2> QED BY <1>0, <2>2, <2>3 DEF Placed
<1>5. OthersSpare'
  BY <1>0, <1>1, <1>2, <1>3 DEF OthersSpare, Command
<1>6. PrepEnds'
  BY <1>0, <1>1, <1>2, <1>3 DEF PrepEnds, Command
<1> QED BY <1>4, <1>5, <1>6

(* A handler ends the command it was given, or leaves it to a report. *)
LEMMA HandleMeets ==
  ASSUME MeetInv, CallersApart, Handle
  PROVE  (\A d \in Clients : Placed(d)') /\ OthersSpare' /\ PrepEnds' /\ HandlerSide'
<1> DEFINE e == sm.cmd.evt
<1>0. /\ TypeInv /\ OthersSpare /\ PrepEnds /\ HandlerSide /\ Never(Barred)
      /\ \A d \in Clients : Placed(d)
  BY DEF MeetInv
<1>1. sm.pc = "handle" /\ sm' = [sm EXCEPT !.pc = "signal"] /\ sm'.pc = "signal"
  BY <1>0, TypesThere DEF Handle
<1>2. /\ UNCHANGED <<api_queue, m_lock, m_apiResultList, client, daemon>>
      /\ evt_queue' \in {evt_queue, Append(evt_queue, "SNAPSHOT_DONE")}
      /\ owed \ {"SNAPSHOT_DONE"} \subseteq owed'
  BY DEF Handle
<1>3. e \in AllEvts \ Barred /\ sm.cmd \in RealCommands
  BY <1>0, <1>1 DEF Never, CommandsOf, TypeInv, CommandsReal
<1>4. Conduct(e)
  BY <1>0, <1>3, HandlersConduct DEF Handle, HandlerSide, Barred
<1>5. Calm(e)
  BY <1>0, <1>3, HandlersCalm, TypesThere DEF Handle, HandlerSide, Barred
<1> HIDE DEF e
<1>6. \/ sm.cmd.owner = None /\ e \in SpareEvts \cup Reports
      \/ \E c \in Clients : sm.cmd.owner = c /\ e = client[c].evt /\ e \in Asks(c)
  <2>1. CASE sm.cmd.owner = None
    BY <1>0, <1>1, <2>1 DEF OthersSpare, e
  <2>2. ASSUME NEW c \in Clients, sm.cmd.owner = c
        PROVE  e = client[c].evt /\ e \in Asks(c)
    <3>1. Handled(c)
      BY <1>1, <2>2 DEF Handled
    <3>2. client[c].pc # "idle" /\ e = client[c].evt
      BY <1>0, <3>1 DEF Placed, At, HandlerMatches, e
    <3> QED BY <1>0, <3>2 DEF Placed, ClientFits
  <2> QED BY <1>3, <2>1, <2>2 DEF RealCommands
<1>7. ASSUME NEW d \in Clients
      PROVE  /\ ~Handled(d)' /\ ~Signalled(d)
             /\ InQueue(d)' = InQueue(d) /\ Listed(d)' = Listed(d)
             /\ QueueMatches(d)' /\ ListMatches(d)' /\ ClientFits(d)'
    BY <1>0, <1>1, <1>2
       DEF Handled, Signalled, InQueue, Listed, Placed, QueueMatches, ListMatches, ClientFits
(* The result of a request reaches nobody but the one who asked for it.     *)
<1>8. ASSUME NEW d \in Clients, sm.cmd.owner # d, e \notin Reports
      PROVE  RequestOf(e) \notin Wanted(d)
  BY <1>6, <1>8, WantedApart
<1>9. ASSUME NEW c \in Clients, sm.cmd.owner = c
      PROVE  /\ e = client[c].evt /\ e \in Asks(c) /\ e \notin Reports \cup Unanswered
             /\ RequestOf(e) \in Wanted(c) /\ Handled(c)
  BY <1>0, <1>1, <1>6, <1>9, AsksAnswered, TypesThere DEF Handled
<1>10. out.api # <<>> => Tail(out.api) = <<>>
  BY <1>0 DEF HandlerSide
<1>11. \A f : \A v \in Values : Head(<<Result(f, v)>>).req = RequestOf(f) /\ Tail(<<Result(f, v)>>) = <<>>
  BY DEF Result
<1>12. \A d \in Clients : Placed(d)'
  <2>1. ASSUME NEW d \in Clients,
               ~Signalled(d)', Preparing(d)' <=> Preparing(d), sm.cmd.owner # d
        PROVE  Placed(d)'
    <3>1. ~Handled(d)
      BY <2>1 DEF Handled
    <3>2. HandlerMatches(d)'
      BY <1>0, <1>2, <1>7, <2>1 DEF Placed, HandlerMatches
    <3>3. ASSUME NEW p \in Places, At(d, p) PROVE At(d, p)'
      BY <1>2, <1>7, <2>1, <3>1, <3>3 DEF At
    <3> QED BY <1>0, <1>7, <3>2, <3>3 DEF Placed
  <2>2. CASE e \notin Reports /\ Answered(e) /\ StaysPut
    <3>1. out'.api # <<>> /\ Head(out'.api).req = RequestOf(e)
      BY <1>11, <2>2 DEF Answered
    <3>2. \A d \in Clients : Preparing(d)' = Preparing(d)
      BY <2>2 DEF Preparing, StaysPut
    <3>3. ASSUME NEW d \in Clients, sm.cmd.owner # d PROVE Placed(d)'
      <4>1. ~Signalled(d)'
        BY <1>8, <2>2, <3>1, <3>3 DEF Signalled
      <4> QED BY <2>1, <3>2, <3>3, <4>1
    <3>4. ASSUME NEW c \in Clients, sm.cmd.owner = c PROVE Placed(c)'
      <4>1. Signalled(c)' /\ e = client[c].evt /\ Handled(c)
        BY <1>1, <1>9, <3>1, <3>4 DEF Signalled
      <4>2. At(c, "handler") /\ ~Preparing(c)
        BY <1>0, <4>1 DEF Placed, At
      <4>3. HandlerMatches(c)'
        BY <1>2, <1>7, <3>1, <3>2, <4>1, <4>2 DEF HandlerMatches
      <4>4. At(c, "signal")' /\ "signal" \in Places
        BY <1>2, <1>7, <3>2, <4>1, <4>2 DEF At, Places
      <4> QED BY <1>7, <3>4, <4>3, <4>4 DEF Placed
    <3> QED BY <3>3, <3>4
  <2>3. CASE e \in Reports \cup Unanswered /\ Silent /\ StaysPut
    <3>1. ASSUME NEW d \in Clients PROVE Placed(d)'
      <4>1. sm.cmd.owner # d
        BY <1>9, <2>3
      <4>2. ~Signalled(d)' /\ Preparing(d)' = Preparing(d)
        BY <2>3 DEF Signalled, Silent, Preparing, StaysPut
      <4> QED BY <2>1, <4>1, <4>2
    <3> QED BY <3>1
  <2>4. CASE BeginsPreparing(e)
    <3>1. /\ e = "PREPARE_SNAPSHOT" /\ e \notin Reports /\ RequestOf(e) = "PREPARE_SNAPSHOT"
          /\ out'.api = <<>> /\ m_state = "PREVIEWING" /\ m_state' = "PREPARE_SNAPSHOT"
      BY <2>4, SignalledLists DEF BeginsPreparing, Reports, RequestOf
    <3>2. \A d \in Clients : ~Signalled(d)' /\ ~Preparing(d)
      BY <3>1 DEF Signalled, Preparing
    <3>3. ASSUME NEW d \in Clients, sm.cmd.owner # d PROVE Placed(d)'
      <4>1. ~Preparing(d)'
        BY <1>8, <3>1, <3>3 DEF Preparing
      <4> QED BY <2>1, <3>2, <3>3, <4>1
    <3>4. ASSUME NEW c \in Clients, sm.cmd.owner = c PROVE Placed(c)'
      <4>1. Preparing(c)' /\ e = client[c].evt /\ Handled(c)
        BY <1>9, <3>1, <3>4 DEF Preparing
      <4>2. At(c, "handler")
        BY <1>0, <4>1 DEF Placed, At
      <4>3. HandlerMatches(c)'
        BY <1>2, <1>7, <3>1, <3>2, <4>1 DEF HandlerMatches
      <4>4. At(c, "daemon")' /\ "daemon" \in Places
        BY <1>2, <1>7, <3>2, <4>1, <4>2 DEF At, Places
      <4> QED BY <1>7, <3>4, <4>3, <4>4 DEF Placed
    <3> QED BY <3>3, <3>4
  <2>5. CASE EndsPreparing(e)
    <3>1. /\ e \in Reports /\ m_state = "PREPARE_SNAPSHOT" /\ m_state' = "PREVIEWING"
          /\ out'.api # <<>> /\ Head(out'.api).req = "PREPARE_SNAPSHOT"
      BY <2>5 DEF EndsPreparing, Reports, Result, RequestOf
    <3>2. ASSUME NEW d \in Clients PROVE Placed(d)'
      <4>1. sm.cmd.owner # d /\ ~Preparing(d)'
        BY <1>9, <3>1 DEF Preparing
      <4>2. CASE ~Preparing(d)
        <5>1. ~Signalled(d)'
          BY <3>1, <4>2 DEF Signalled, Preparing
        <5> QED BY <2>1, <4>1, <4>2, <5>1
      <4>3. CASE Preparing(d)
        <5>1. Signalled(d)' /\ client[d].evt = "PREPARE_SNAPSHOT" /\ At(d, "daemon")
          BY <1>0, <1>1, <3>1, <4>3 DEF Signalled, Preparing, Placed, HandlerMatches, At
        <5>2. HandlerMatches(d)'
          BY <1>2, <1>7, <3>1, <4>1, <5>1 DEF HandlerMatches, RequestOf
        <5>3. At(d, "signal")' /\ "signal" \in Places
          BY <1>2, <1>7, <4>1, <5>1 DEF At, Places
        <5> QED BY <1>7, <5>2, <5>3 DEF Placed
      <4> QED BY <4>2, <4>3
    <3> QED BY <3>2
  <2> QED BY <1>4, <2>2, <2>3, <2>4, <2>5 DEF Conduct
<1>13. \A i \in DOMAIN evt_queue : i \in DOMAIN evt_queue' /\ evt_queue'[i] = evt_queue[i]
  <2>1. evt_queue \in Seq(AllEvts) /\ "SNAPSHOT_DONE" \in AllEvts
    BY <1>0, TypesThere DEF AllEvts
  <2> QED BY <1>2, <2>1, AppendParts
<1>14. OthersSpare'
  <2>1. "SNAPSHOT_DONE" \in Reports /\ evt_queue \in Seq(Reports)
    BY <1>0 DEF OthersSpare, Reports
  <2>2. evt_queue' \in Seq(Reports)
    BY <1>2, <2>1, AppendProperties
  <2>3. owed' \subseteq Reports
    BY <1>0 DEF Handle, Owes, OthersSpare, Reports
  <2> QED BY <1>0, <1>1, <1>2, <2>2, <2>3 DEF OthersSpare
<1>15. PrepEnds'
  <2>1. CASE StaysPut /\ (e = "PREP_SNAPSHOT_DONE" => m_state # "PREPARE_SNAPSHOT")
    <3>1. /\ m_state' = "PREPARE_SNAPSHOT" =>
               \/ "PREP_SNAPSHOT_DONE" \in owed
               \/ \E i \in DOMAIN evt_queue : evt_queue[i] = "PREP_SNAPSHOT_DONE"
      BY <1>0, <2>1 DEF PrepEnds, StaysPut, e
    <3> QED BY <1>2, <1>13, <3>1 DEF PrepEnds
  <2>2. CASE BeginsPreparing(e)
    <3>1. ~isCaptureRunning /\ daemon = "up" /\ sm.cmd.evt = "PREPARE_SNAPSHOT" /\ AwaitsReport
      BY <1>0, <2>2 DEF BeginsPreparing, isCaptureRunning, HandlerSide, AwaitsReport, e
    <3>2. "PREP_SNAPSHOT_DONE" \in Owes
      BY <3>1 DEF Owes
    <3>3. "PREP_SNAPSHOT_DONE" \in owed'
      BY <3>1, <3>2 DEF Handle
    <3> QED BY <3>3 DEF PrepEnds
  <2>3. CASE EndsPreparing(e)
    BY <2>3 DEF EndsPreparing, PrepEnds
  <2> QED BY <1>4, <2>1, <2>2, <2>3 DEF Conduct, Reports
<1>16. HandlerSide'
  <2>1. Plain(hw)'
    BY <1>5 DEF Calm
  <2>2. bRetroPicture' = bRetroPicture /\ (out'.api # <<>> => Tail(out'.api) = <<>>)
    <3>1. {"OK"} \subseteq Values
      BY DEF Values
    <3>2. CASE Answered(e)
      <4>1. PICK v \in Values : out'.api = <<Result(e, v)>>
        BY <3>2 DEF Answered
      <4>2. Tail(out'.api) = <<>>
        BY <4>1, <1>11
      <4> QED BY <3>2, <4>2 DEF Answered
    <3>3. CASE Silent
      BY <3>3 DEF Silent
    <3>4. CASE BeginsPreparing(e)
      BY <3>4, SignalledLists DEF BeginsPreparing
    <3>5. CASE EndsPreparing(e)
      <4>1. Tail(out'.api) = <<>>
        BY <3>1, <3>5, <1>11 DEF EndsPreparing
      <4> QED BY <3>5, <4>1 DEF EndsPreparing
    <3>6. Answered(e) \/ Silent \/ BeginsPreparing(e) \/ EndsPreparing(e)
      BY <1>4 DEF Conduct
    <3> HIDE DEF e
    <3> QED BY <3>2, <3>3, <3>4, <3>5, <3>6
  <2> QED BY <1>0, <1>2, <2>1, <2>2 DEF HandlerSide
<1> QED BY <1>12, <1>14, <1>15, <1>16

(* signalAPIResult: the client whose result it is is asleep or about to look. *)
LEMMA SignalMeets ==
  ASSUME MeetInv, CallersApart, signalAPIResult
  PROVE  (\A d \in Clients : Placed(d)') /\ HandlerSide'
<1> DEFINE r == Head(out.api)
<1>0. TypeInv /\ HandlerSide /\ \A d \in Clients : Placed(d)
  BY DEF MeetInv
<1>1. /\ sm.pc = "signal" /\ out.api # <<>> /\ m_lock = None /\ out'.api = <<>>
      /\ client' = Woken
      /\ UNCHANGED <<m_state, hw, bRetroPicture, api_queue, sm, m_lock, daemon>>
  <2>1. out' = [out EXCEPT !.api = Tail(out.api)]
    BY DEF signalAPIResult
  <2>2. out \in Outputs /\ Tail(out.api) = <<>>
    BY <1>0, TypesThere DEF signalAPIResult, HandlerSide
  <2>3. out'.api = <<>>
    BY <2>1, <2>2 DEF Outputs
  <2> QED BY <2>3 DEF signalAPIResult, CanLock
<1>2. r \in Results /\ m_apiResultList \in Seq(Results)
  BY <1>0, <1>1, TailTyped, TypesThere
<1>3. m_apiResultList' = IF r.req = "SNAPSHOT_DONE" THEN m_apiResultList
                         ELSE Append(m_apiResultList, r)
  BY DEF signalAPIResult
<1>4. \A d \in Clients : Signalled(d) <=> r.req \in Wanted(d)
  BY <1>1 DEF Signalled
<1> HIDE DEF r
<1>5. /\ DOMAIN Append(m_apiResultList, r) = DOMAIN m_apiResultList \cup {Len(m_apiResultList) + 1}
      /\ \A i \in DOMAIN m_apiResultList : Append(m_apiResultList, r)[i] = m_apiResultList[i]
      /\ Append(m_apiResultList, r)[Len(m_apiResultList) + 1] = r
  BY <1>2, AppendParts
<1>6. ASSUME NEW d \in Clients
      PROVE  /\ client'[d].evt = client[d].evt /\ client'[d].rest = client[d].rest
             /\ client[d].pc \notin {"enqueued", "posted"}
             /\ client[d].pc = "idle" => client'[d].pc = "idle"
             /\ client[d].pc # "idle" => client'[d].pc = "woken"
  <2>1. client[d].pc \in {"idle", "enqueued", "posted", "waiting", "woken"}
    BY <1>0, TypesThere DEF ClientRecords
  <2>2. client[d].pc \notin {"enqueued", "posted"}
    BY <1>0, <1>1, TypesThere DEF Placed, ClientFits
  <2>3. client'[d] = IF client[d].pc = "waiting" THEN [client[d] EXCEPT !.pc = "woken"] ELSE client[d]
    BY <1>1 DEF Woken
  <2> QED BY <1>0, <2>1, <2>2, <2>3, TypesThere DEF ClientRecords
<1>7. ASSUME NEW d \in Clients
      PROVE  /\ InQueue(d)' = InQueue(d) /\ Handled(d)' = Handled(d) /\ ~Signalled(d)'
             /\ Preparing(d)' = Preparing(d) /\ QueueMatches(d)' /\ HandlerMatches(d)'
  <2>1. /\ InQueue(d)' = InQueue(d) /\ Handled(d)' = Handled(d) /\ ~Signalled(d)'
        /\ Preparing(d)' = Preparing(d)
    BY <1>1 DEF InQueue, Handled, Signalled, Preparing
  <2> QED BY <1>0, <1>1, <1>6, <2>1 DEF Placed, QueueMatches, HandlerMatches
<1>8. ASSUME NEW d \in Clients, ~Signalled(d) PROVE Placed(d)'
  <2>1. r.req \notin Wanted(d)
    BY <1>4, <1>8
  <2>2. (Listed(d)' <=> Listed(d)) /\ ListMatches(d)'
    <3>1. ListMatches(d)
      BY <1>0 DEF Placed
    <3>2. Listed(d)' <=> Listed(d)
      BY <1>3, <1>5, <2>1 DEF Listed
    <3>3. ListMatches(d)'
      BY <1>3, <1>5, <1>6, <2>1, <3>1 DEF ListMatches
    <3> QED BY <3>2, <3>3
  <2>3. ClientFits(d)'
    <3>1. Listed(d) => client[d].pc # "idle"
      BY <1>0 DEF Placed, ClientFits
    <3> QED BY <1>0, <1>6, <2>2, <3>1 DEF Placed, ClientFits
  <2>4. ASSUME NEW p \in Places, At(d, p) PROVE At(d, p)'
    BY <1>6, <1>7, <1>8, <2>2, <2>4 DEF At
  <2> QED BY <1>0, <1>7, <2>2, <2>3, <2>4 DEF Placed
<1>9. ASSUME NEW d \in Clients, Signalled(d) PROVE Placed(d)'
  <2>1. At(d, "signal") /\ r.req = RequestOf(client[d].evt) /\ r.req \in Wanted(d)
    BY <1>0, <1>4, <1>9 DEF Placed, At, HandlerMatches, r
  <2>2. client[d].pc # "idle" /\ ~Listed(d) /\ ~InQueue(d) /\ ~Handled(d) /\ ~Preparing(d)
    BY <2>1 DEF At
  <2>3. m_apiResultList' = Append(m_apiResultList, r)
    BY <1>3, <2>1, AsksAnswered
  <2>4. Listed(d)' /\ ListMatches(d)'
    BY <1>5, <1>6, <2>1, <2>2, <2>3 DEF Listed, ListMatches
  <2>5. ClientFits(d)'
    BY <1>0, <1>6, <2>2 DEF Placed, ClientFits
  <2>6. At(d, "list")' /\ "list" \in Places
    BY <1>6, <1>7, <2>2, <2>4 DEF At, Places
  <2> QED BY <1>7, <2>4, <2>5, <2>6 DEF Placed
<1>10. HandlerSide'
  BY <1>0, <1>1 DEF HandlerSide
<1> QED BY <1>8, <1>9, <1>10

(* The state machine thread at its queues and back. *)
LEMMA ThreadMeets ==
  ASSUME MeetInv, CallersApart, SmWait \/ Finish
  PROVE  (\A d \in Clients : Placed(d)') /\ OthersSpare' /\ PrepEnds' /\ HandlerSide'
<1>0. /\ TypeInv /\ OthersSpare /\ PrepEnds /\ HandlerSide
      /\ \A d \in Clients : Placed(d)
  BY DEF MeetInv
<1>1. /\ UNCHANGED <<api_queue, evt_queue, m_state, hw, bRetroPicture, m_apiResultList, client, m_lock,
                     owed, daemon>>
      /\ sm.pc \in {"wait", "signal"} /\ sm'.pc \in {"wait", "dequeue"}
  <2>1. sm \in [pc : {"wait", "dequeue", "handle", "signal"}, cmd : Commands]
    BY <1>0, TypesThere
  <2>2. CASE SmWait
    BY <2>1, <2>2 DEF SmWait, core, vars
  <2>3. CASE Finish
    BY <2>3 DEF Finish
  <2> QED BY <2>2, <2>3
<1>2. (sm.pc = "signal" => out.api = <<>>) /\ (out' = out \/ out'.api = <<>>)
  BY SignalledLists DEF SmWait, Finish, core, vars
<1>3. ASSUME NEW d \in Clients PROVE Placed(d)'
  <2>1. /\ ~Handled(d) /\ ~Handled(d)' /\ ~Signalled(d) /\ ~Signalled(d)'
        /\ Preparing(d)' = Preparing(d) /\ Listed(d)' = Listed(d) /\ InQueue(d)' = InQueue(d)
    BY <1>1, <1>2 DEF Handled, Signalled, Preparing, Listed, InQueue
  <2>2. QueueMatches(d)' /\ HandlerMatches(d)' /\ ListMatches(d)' /\ ClientFits(d)'
    BY <1>0, <1>1, <2>1 DEF Placed, QueueMatches, HandlerMatches, ListMatches, ClientFits
  <2>3. ASSUME NEW p \in Places, At(d, p) PROVE At(d, p)'
    BY <1>1, <2>1, <2>3 DEF At
  <2> QED BY <1>0, <2>2, <2>3 DEF Placed
<1>4. OthersSpare' /\ PrepEnds'
  BY <1>0, <1>1 DEF OthersSpare, PrepEnds
<1>5. HandlerSide'
  BY <1>0, <1>1, <1>2 DEF HandlerSide
<1> QED BY <1>3, <1>4, <1>5

(* Reports and spare commands are queued beside the clients. *)
LEMMA ReportMeets ==
  ASSUME MeetInv, CallersApart, NEW e \in Reports, Queued(e), owed' \subseteq owed,
         \A f \in owed \ owed' : f = e \/ f = "SNAPSHOT_DONE",
         UNCHANGED <<core, api_queue, sm, m_lock, m_apiResultList, client, daemon>>
  PROVE  (\A d \in Clients : Placed(d)') /\ OthersSpare' /\ PrepEnds' /\ HandlerSide'
<1>0. /\ OthersSpare /\ PrepEnds /\ HandlerSide /\ \A d \in Clients : Placed(d)
      /\ UNCHANGED <<m_state, hw, bRetroPicture, out>>
  BY DEF MeetInv, core, vars
<1>1. /\ evt_queue' = Append(evt_queue, e) /\ evt_queue \in Seq(Reports)
      /\ evt_queue' \in Seq(Reports)
  BY <1>0, AppendProperties DEF Queued, OthersSpare
<1>2. /\ \A i \in DOMAIN evt_queue : i \in DOMAIN evt_queue' /\ evt_queue'[i] = evt_queue[i]
      /\ \E i \in DOMAIN evt_queue' : evt_queue'[i] = e
  BY <1>1, AppendParts
<1>3. \A d \in Clients : Placed(d)'
  BY <1>0, LeftAlone
<1>4. OthersSpare'
  BY <1>0, <1>1 DEF OthersSpare
<1>5. PrepEnds'
  BY <1>0, <1>2 DEF PrepEnds
<1> QED BY <1>0, <1>3, <1>4, <1>5 DEF HandlerSide

LEMMA SpareMeets ==
  ASSUME MeetInv, CallersApart, NEW e \in SpareEvts, QueueLoose(e), UNCHANGED <<m_state, bRetroPicture, out>>
  PROVE  (\A d \in Clients : Placed(d)') /\ OthersSpare' /\ PrepEnds'
<1>0. /\ TypeInv /\ OthersSpare /\ PrepEnds /\ \A d \in Clients : Placed(d)
      /\ UNCHANGED <<evt_queue, sm, m_lock, m_apiResultList, client, owed, daemon>>
  BY DEF MeetInv, QueueLoose
<1>1. Command(e, None) \in RealCommands /\ Command(e, None).owner = None /\ Command(e, None).evt = e
  <2>1. e \in AllEvts
    BY LooseAssumption DEF SpareEvts, ApiEvts, AllEvts
  <2> QED BY <2>1, RealCommand DEF Command
<1>2. api_queue' = Append(api_queue, Command(e, None))
  BY DEF QueueLoose
<1>3. ASSUME NEW d \in Clients PROVE Placed(d)'
  <2>1. Command(e, None).owner # d /\ client'[d] = client[d]
    BY <1>0, <1>1, TypesThere
  <2>2. InQueue(d)' = InQueue(d) /\ QueueMatches(d)'
    BY <1>0, <1>1, <1>2, <2>1, QueueGrows DEF Placed
  <2>3. /\ Handled(d)' = Handled(d) /\ Signalled(d)' = Signalled(d)
        /\ Preparing(d)' = Preparing(d) /\ Listed(d)' = Listed(d)
    BY <1>0 DEF Handled, Signalled, Preparing, Listed
  <2>4. HandlerMatches(d)' /\ ListMatches(d)' /\ ClientFits(d)'
    BY <1>0, <2>1, <2>3 DEF Placed, HandlerMatches, ListMatches, ClientFits
  <2>5. ASSUME NEW p \in Places, At(d, p) PROVE At(d, p)'
    BY <2>1, <2>2, <2>3, <2>5 DEF At
  <2> QED BY <1>0, <2>2, <2>4, <2>5 DEF Placed
<1>4. OthersSpare'
  <2>1. /\ DOMAIN api_queue' = DOMAIN api_queue \cup {Len(api_queue) + 1}
        /\ \A i \in DOMAIN api_queue : api_queue'[i] = api_queue[i]
        /\ api_queue'[Len(api_queue) + 1] = Command(e, None)
    BY <1>0, <1>1, <1>2, AppendParts, TypesThere
  <2> QED BY <1>0, <1>1, <2>1 DEF OthersSpare
<1>5. PrepEnds'
  BY <1>0 DEF PrepEnds
<1> QED BY <1>3, <1>4, <1>5

LEMMA NextMeets ==
  ASSUME MeetInv, CallersApart, [ApiNext]_allvars, ~DaemonDies
  PROVE  (\A d \in Clients : Placed(d)') /\ OthersSpare' /\ PrepEnds' /\ HandlerSide'
<1>0. /\ TypeInv /\ OthersSpare /\ PrepEnds /\ HandlerSide /\ \A d \in Clients : Placed(d)
  BY DEF MeetInv
<1>1. ASSUME NEW c \in Clients, Call(c) \/ TakePictureCall(c)
      PROVE  (\A d \in Clients : Placed(d)') /\ OthersSpare' /\ PrepEnds' /\ HandlerSide'
  <2>1. PICK e \in Asks(c), rest \in Seq(Asks(c)) :
           Enter(c, e, rest) /\ UNCHANGED <<m_state, hw, bRetroPicture, out>>
    <3>1. CASE Call(c)
      <4>1. PICK e \in CallsOf[c] \ {take_picture} : Enter(c, e, <<>>) /\ UNCHANGED core
        BY <3>1 DEF Call
      <4>2. e \in Asks(c) /\ <<>> \in Seq(Asks(c))
        BY DEF Asks
      <4> QED BY <4>1, <4>2 DEF core, vars
    <3>2. CASE TakePictureCall(c)
      <4>1. {"TAKE_PICTURE", "PREPARE_SNAPSHOT"} \subseteq Asks(c)
        BY <3>2 DEF TakePictureCall, Asks
      <4>2. /\ <<>> \in Seq(Asks(c)) /\ <<"TAKE_PICTURE">> \in Seq(Asks(c))
            /\ <<"PREPARE_SNAPSHOT">> \in Seq(Asks(c))
        BY <4>1
      <4>3. hw.zsl = FALSE /\ bRetroPicture = FALSE
        BY <1>0 DEF HandlerSide, Plain
      <4>4. /\ setRetroPicture(FALSE)
            /\ \/ Enter(c, "PREPARE_SNAPSHOT", <<"TAKE_PICTURE">>)
               \/ Enter(c, "TAKE_PICTURE", <<>>)
        BY <3>2, <4>3 DEF TakePictureCall, setRetroPicture
      <4>5. UNCHANGED <<m_state, hw, bRetroPicture, out>>
        BY <4>3, <4>4 DEF setRetroPicture
      <4> QED BY <4>1, <4>2, <4>4, <4>5
    <3> QED BY <1>1, <3>1, <3>2
  <2>2. UNCHANGED <<evt_queue, owed, sm, daemon>>
    BY <2>1 DEF Enter
  <2> QED BY <1>0, <2>1, <2>2, EnterMeets DEF OthersSpare, PrepEnds, HandlerSide
<1>2. ASSUME NEW c \in Clients, ClientStep(c)
      PROVE  (\A d \in Clients : Placed(d)') /\ OthersSpare' /\ PrepEnds' /\ HandlerSide'
  <2>1. UNCHANGED <<m_state, hw, bRetroPicture, out, evt_queue, owed, sm, daemon>>
    BY <1>2 DEF ClientStep, SemPost, CondWait, SleepOn, TakeResult, core, vars
  <2>2. PrepEnds' /\ HandlerSide'
    BY <1>0, <2>1 DEF PrepEnds, HandlerSide
  <2>3. CASE SemPost(c) \/ CondWait(c) \/ SleepOn(c)
    <3>1. api_queue' = api_queue
      BY <2>3 DEF SemPost, CondWait, SleepOn
    <3> QED BY <1>0, <2>1, <2>2, <2>3, <3>1, WaitMeets DEF OthersSpare
  <2>4. CASE TakeResult(c)
    BY <1>0, <2>1, <2>2, <2>4, TakeMeets DEF OthersSpare
  <2> QED BY <1>2, <2>3, <2>4 DEF ClientStep
<1>3. CASE SmStep
  <2>1. CASE DequeueApi
    <3>1. UNCHANGED <<m_state, hw, bRetroPicture, out, evt_queue, owed, daemon>> /\ sm.pc = "dequeue"
      BY <2>1 DEF DequeueApi, core, vars
    <3> QED BY <1>0, <2>1, <3>1, DequeueMeets DEF PrepEnds, HandlerSide
  <2>2. CASE DequeueEvt
    <3>1. UNCHANGED <<hw, bRetroPicture, out, daemon>>
      BY <2>2 DEF DequeueEvt, core, vars
    <3> QED BY <1>0, <2>2, <3>1, DequeueEvtMeets DEF HandlerSide
  <2>3. CASE Handle
    BY <2>3, HandleMeets
  <2>4. CASE signalAPIResult
    <3>1. UNCHANGED <<m_state, api_queue, evt_queue, owed, sm>>
      BY <2>4 DEF signalAPIResult
    <3> QED BY <1>0, <2>4, <3>1, SignalMeets DEF OthersSpare, PrepEnds
  <2>5. CASE SmWait \/ Finish
    BY <2>5, ThreadMeets
  <2> QED BY <1>3, <2>1, <2>2, <2>3, <2>4, <2>5 DEF SmStep
<1>4. CASE Pipeline
  <2>1. "SNAPSHOT_DONE" \in Reports /\ owed \subseteq Reports
    BY <1>0 DEF Reports, OthersSpare
  <2>2. CASE processSyncEvt
    BY <2>1, <2>2, ReportMeets DEF processSyncEvt
  <2>3. ASSUME NEW e \in AllEvts, DaemonReports(e)
        PROVE  (\A d \in Clients : Placed(d)') /\ OthersSpare' /\ PrepEnds' /\ HandlerSide'
    BY <2>1, <2>3, ReportMeets DEF DaemonReports
  <2> QED BY <1>4, <2>2, <2>3 DEF Pipeline
<1>5. CASE LiveThread
  <2>1. HandlerSide'
    <3>1. "started" \in ChStatus /\ {"SNAPSHOT"} \subseteq ChTypes /\ hw \in Hardware
      BY <1>0, TypesThere DEF ChStatus, ChTypes
    <3>2. Plain(SetCh(hw, {"SNAPSHOT"}, "started")) /\ SetCh(hw, {"SNAPSHOT"}, "started") \in Hardware
      BY <1>0, <3>1, ChannelsKeep DEF KeepsModes, HandlerSide
    <3>3. \A h \in Hardware : Plain(h) => Plain([h EXCEPT !.live = "done"])
      BY DEF Plain, Hardware
    <3>4. Plain(hw)'
      BY <1>0, <1>5, <3>1, <3>2, <3>3
         DEF LiveThread, LiveThreadStarts, LiveThreadFails, LiveSnapshotStarts, LiveSnapshotFails,
             HandlerSide
    <3>5. UNCHANGED <<bRetroPicture, out, daemon>>
      BY <1>5 DEF LiveThread, LiveThreadStarts, LiveThreadFails, LiveSnapshotStarts,
                  LiveSnapshotFails, QueueLoose, rendezvous
    <3> QED BY <1>0, <3>4, <3>5 DEF HandlerSide
  <2>2. UNCHANGED <<m_state, bRetroPicture, out>>
    BY <1>5 DEF LiveThread, LiveThreadStarts, LiveThreadFails, LiveSnapshotStarts, LiveSnapshotFails
  <2>3. CASE QueueLoose("CANCEL_PICTURE")
    <3>1. "CANCEL_PICTURE" \in SpareEvts
      BY DEF SpareEvts
    <3> QED BY <2>1, <2>2, <2>3, <3>1, SpareMeets
  <2>4. CASE UNCHANGED rendezvous
    <3>1. UNCHANGED <<api_queue, evt_queue, sm, m_apiResultList, client, m_lock, owed>>
      BY <2>4 DEF rendezvous
    <3>2. \A d \in Clients : Placed(d)'
      BY <1>0, <2>2, <3>1, LeftAlone
    <3> QED BY <1>0, <2>1, <2>2, <3>1, <3>2 DEF OthersSpare, PrepEnds
  <2> QED BY <1>5, <2>3, <2>4 DEF LiveThread, LiveThreadStarts, LiveThreadFails
<1>7. ASSUME NEW e \in LooseApis, LooseApi(e)
      PROVE  (\A d \in Clients : Placed(d)') /\ OthersSpare' /\ PrepEnds' /\ HandlerSide'
  <2>1. e \in SpareEvts /\ QueueLoose(e) /\ UNCHANGED <<m_state, hw, bRetroPicture, out, daemon>>
    BY <1>7 DEF SpareEvts, LooseApi, QueueLoose, core, vars
  <2> QED BY <1>0, <2>1, SpareMeets DEF HandlerSide
<1>8. CASE PostOther \/ UNCHANGED allvars
  <2>1. UNCHANGED <<m_state, hw, bRetroPicture, out, api_queue, evt_queue, sm, m_lock, m_apiResultList,
                    client, owed, daemon>>
    BY <1>8 DEF PostOther, allvars, rendezvous, core, vars
  <2>2. \A d \in Clients : Placed(d)'
    BY <1>0, <2>1, LeftAlone
  <2> QED BY <1>0, <2>1, <2>2 DEF OthersSpare, PrepEnds, HandlerSide
<1> QED BY <1>1, <1>2, <1>3, <1>4, <1>5, <1>7, <1>8 DEF ApiNext

LEMMA NextMeetInv ==
  ASSUME MeetInv, CallersApart, [ApiNext]_allvars, ~DaemonDies
  PROVE  MeetInv'
<1>1. TypeInv' /\ Never(Barred)'
  BY NextTypeInv, NextNever, BarredNever DEF MeetInv, TypeInv
<1> QED BY <1>1, NextMeets DEF MeetInv

(* A daemon that is up was up before. *)
LEMMA StillUp == ASSUME [ApiNext]_allvars, daemon' = "up" PROVE daemon = "up" /\ ~DaemonDies
<1>1. ~DaemonDies
  BY DEF DaemonDies
<1>2. ASSUME NEW c \in Clients, Call(c) \/ TakePictureCall(c) \/ ClientStep(c)
      PROVE  daemon' = daemon
  BY <1>2 DEF Call, TakePictureCall, Enter, ClientStep, SemPost, CondWait, SleepOn, TakeResult
<1>3. CASE SmStep
  BY <1>1, <1>3 DEF SmStep, SmWait, DequeueApi, DequeueEvt, Handle, signalAPIResult, Finish
<1>4. CASE Pipeline
  BY <1>1, <1>4 DEF Pipeline, processSyncEvt, DaemonReports
<1>5. CASE LiveThread
  BY <1>1, <1>5 DEF LiveThread, LiveThreadStarts, LiveThreadFails, QueueLoose, rendezvous
<1>6. ASSUME NEW e \in LooseApis, LooseApi(e) PROVE daemon' = daemon
  BY <1>6 DEF LooseApi, QueueLoose
<1>7. CASE PostOther \/ UNCHANGED allvars
  BY <1>1, <1>7 DEF PostOther, allvars, rendezvous
<1> QED BY <1>1, <1>2, <1>3, <1>4, <1>5, <1>6, <1>7 DEF ApiNext

(* As long as the daemon is up all meet. *)
UpMeetInv == daemon = "up" => MeetInv

LEMMA MeetsWhileUp == ASSUME CallersApart PROVE ApiSpec => []UpMeetInv
<1>1. UpMeetInv /\ [ApiNext]_allvars => UpMeetInv'
  BY StillUp, NextMeetInv DEF UpMeetInv
<1> QED
  BY InitMeetInv, <1>1, PTL DEF ApiSpec, UpMeetInv

(* "API is in a way sync call, so evt_payload is managed by HWI": the caller *)
(* of a queued or handled command, whose stack holds the payload, is still   *)
(* waiting in that very request while the daemon is up.  Callers that share  *)
(* no request never take one another's results and so never leave early.     *)
THEOREM PayloadsAlive == ASSUME CallersApart PROVE ApiSpec => []PayloadAlive
<1>1. UpMeetInv => PayloadAlive
  <2> SUFFICES ASSUME MeetInv PROVE PayloadAlive
    BY DEF UpMeetInv, PayloadAlive
  <2>0. TypeInv /\ \A d \in Clients : Placed(d)
    BY DEF MeetInv
  <2>1. ASSUME NEW i \in DOMAIN api_queue, api_queue[i].owner # None
        PROVE  client[api_queue[i].owner].evt = api_queue[i].evt
    <3>1. api_queue[i] \in RealCommands
      BY <2>0, TypesThere
    <3>2. api_queue[i].owner \in Clients
      BY <2>1, <3>1 DEF RealCommands
    <3> QED BY <2>0, <3>2 DEF Placed, QueueMatches
  <2>2. ASSUME sm.pc = "handle", sm.cmd.owner # None
        PROVE  client[sm.cmd.owner].evt = sm.cmd.evt
    <3>1. sm.cmd.owner \in Clients
      BY <2>0, <2>2 DEF TypeInv, CommandsReal, RealCommands
    <3> QED BY <2>0, <2>2, <3>1 DEF Placed, HandlerMatches, Handled
  <2> QED BY <2>1, <2>2 DEF PayloadAlive, CallerAwaits
<1> QED
  BY MeetsWhileUp, <1>1, PTL

(* waitAPIResult sleeps first and looks after; no client sleeps beside its   *)
(* own result all the same, because it holds m_lock from before its command  *)
(* is queued until it sleeps, and the result is listed under that lock.  A   *)
(* daemon that died may have left it an answer to no call.                   *)
THEOREM NobodySleepsOnItsResult == ASSUME CallersApart PROVE ApiSpec => []NoneSleepsOnItsResult
<1>1. UpMeetInv => NoneSleepsOnItsResult
  <2> SUFFICES ASSUME MeetInv, NEW c \in Clients, client[c].pc = "waiting", NEW i \in Answers(c)
               PROVE  FALSE
    BY DEF NoneSleepsOnItsResult, UpMeetInv
  <2>1. Placed(c)
    BY DEF MeetInv
  <2>2. client[c].evt \in Asks(c)
    BY <2>1 DEF Placed, ClientFits
  <2>3. Listed(c)
    BY <2>2 DEF Answers, Listed, Wanted
  <2> QED BY <2>1, <2>3 DEF Placed, ClientFits
<1> QED
  BY MeetsWhileUp, <1>1, PTL

(* A sleeping client is owed its result: its command is queued, handled or   *)
(* being signalled, or the report that ends its preparation is to come, for  *)
(* as long as the daemon is up.                                              *)
THEOREM NobodyForgotten == ASSUME CallersApart PROVE ApiSpec => []NoneForgottenWhileUp
<1>1. MeetInv => NoneForgotten
  <2> SUFFICES ASSUME MeetInv, NEW c \in Clients, client[c].pc = "waiting"
               PROVE  OnItsWay(c)
    BY DEF NoneForgotten
  <2>0. Placed(c) /\ TypeInv /\ PrepEnds
    BY DEF MeetInv
  <2>1. PICK p \in Places : At(c, p)
    BY <2>0 DEF Placed
  <2>2. p # "nowhere" /\ p # "list"
    BY <2>0, <2>1 DEF At, Placed, ClientFits
  <2>3. CASE p = "queue"
    <3>1. PICK i \in DOMAIN api_queue : api_queue[i].owner = c
      BY <2>1, <2>3 DEF At, InQueue
    <3>2. api_queue[i] \in RealCommands /\ api_queue[i].evt = client[c].evt
      BY <2>0, <3>1, TypesThere DEF Placed, QueueMatches
    <3>3. api_queue[i] = Command(client[c].evt, c)
      BY <3>1, <3>2 DEF RealCommands, Command
    <3> QED BY <3>3 DEF OnItsWay
  <2>4. CASE p = "handler"
    <3>1. Handled(c) /\ sm.cmd.evt = client[c].evt
      BY <2>0, <2>1, <2>4 DEF At, Placed, HandlerMatches
    <3>2. sm.pc = "handle" /\ sm.cmd \in RealCommands /\ sm.cmd.owner = c
      BY <2>0, <3>1 DEF Handled, TypeInv, CommandsReal
    <3>3. sm.cmd = Command(client[c].evt, c)
      BY <3>1, <3>2 DEF RealCommands, Command
    <3> QED BY <3>2, <3>3 DEF OnItsWay
  <2>5. CASE p = "signal"
    <3>1. /\ sm.pc = "signal" /\ out.api # <<>>
          /\ Head(out.api).req = RequestOf(client[c].evt)
      BY <2>0, <2>1, <2>5 DEF At, Placed, HandlerMatches, Signalled
    <3>2. out.api \in Seq(Results)
      <4>1. PICK n \in 0 .. 2 : out.api \in [1 .. n -> Results]
        BY <2>0, TypesThere DEF Outputs
      <4> QED BY <4>1
    <3>3. 1 \in DOMAIN out.api /\ Head(out.api) = out.api[1]
      BY <3>1, <3>2, TailParts
    <3> QED BY <3>1, <3>3 DEF OnItsWay
  <2>6. CASE p = "daemon"
    <3>1. m_state = "PREPARE_SNAPSHOT" /\ client[c].evt = "PREPARE_SNAPSHOT"
      BY <2>0, <2>1, <2>6 DEF At, Placed, HandlerMatches, Preparing
    <3>2. "PREP_SNAPSHOT_DONE" \in owed \cup Range(evt_queue) \cup {sm.cmd.evt}
      BY <2>0, <3>1 DEF PrepEnds, Range
    <3> QED BY <3>1, <3>2 DEF OnItsWay
  <2> QED BY <2>2, <2>3, <2>4, <2>5, <2>6 DEF Places
<1>2. UpMeetInv => NoneForgottenWhileUp
  BY <1>1 DEF UpMeetInv, NoneForgottenWhileUp
<1> QED
  BY MeetsWhileUp, <1>2, PTL
=============================================================================
