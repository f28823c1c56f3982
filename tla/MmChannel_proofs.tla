-------------------------- MODULE MmChannel_proofs --------------------------
(***************************************************************************)
(* Proofs about the super buffers of mm-camera-interface, for all streams, *)
(* profiles, operations and metadata: the daemon's snapshot mode always    *)
(* has an owner (ZslHasOwner), each buffer has as many references as       *)
(* holders (BuffersAccounted), and in a channel of normal priority the     *)
(* super buffers are handed up in order (SuperBufsInOrder) while what      *)
(* waits leaves the sensor a buffer (StreamsKeepRunning).                  *)
(*                                                                         *)
(* The functions of the channel's command thread compose.  Each of them is *)
(* shown to keep what the next one needs: Store, that the queue and the    *)
(* super buffers handed up hold each buffer at most once and with one      *)
(* reference beyond those of other holders, and Mid or Owned, what the     *)
(* flags of the snapshot mode say of each other.                           *)
(*                                                                         *)
(* For the order the same functions are shown to keep Row: the queue is    *)
(* sorted with its complete nodes in front, and lies between what was      *)
(* handed up and what is still to come.                                    *)
(***************************************************************************)
EXTENDS MmChannel, FiniteSetTheorems, SequenceTheorems, WellFoundedInduction, TLAPS

Node == [frame_idx : Int, super_buf : [Streams -> Frames], matched : BOOLEAN, expected : BOOLEAN]

Fields ==
    {"queue", "match_cnt", "expected_frame_id", "expected_frame_id_without_led", "nomatch_frame_id",
     "diverted_frame_id", "led_off_start_frame_id", "once", "pending_cnt", "pending_retro_cnt",
     "bWaitForPrepSnapshotDone", "needLEDFlash", "bracketingState", "isFlashBracketingEnabled",
     "isZoom1xFrameRequested", "manualZSLSnapshot", "startZSlSnapshotCalled", "burstSnapNum",
     "stopZslSnapshot", "zsl", "buf_refcnt", "up", "hangs"}

(* The channel is a record; most of its fields may be anything here. *)
Chan(c) == c = [x \in Fields |-> c[x]]

StoreTypes(c) ==
    /\ Chan(c) /\ c.match_cnt \in Int
    /\ c.queue \in Seq(Node) /\ c.up \in Seq([Streams -> Frames])
    /\ c.buf_refcnt \in [Streams -> [Frames -> Nat]]

InQueue(c, i, s, f) == s \in attr.streams /\ c.queue[i].super_buf[s] = f
InUp(c, i, s, f) == s \in attr.streams /\ c.up[i][s] = f

Inside(c, s, f) == (\E i \in DOMAIN c.queue : InQueue(c, i, s, f)) \/ (\E i \in DOMAIN c.up : InUp(c, i, s, f))

OneHolder(c) ==
    \A s \in Streams : \A f \in Frames \ {0} :
        /\ \A i, j \in DOMAIN c.queue : InQueue(c, i, s, f) /\ InQueue(c, j, s, f) => i = j
        /\ \A i, j \in DOMAIN c.up : InUp(c, i, s, f) /\ InUp(c, j, s, f) => i = j
        /\ \A i \in DOMAIN c.queue : \A j \in DOMAIN c.up : ~(InQueue(c, i, s, f) /\ InUp(c, j, s, f))

(* E counts the references of the holders outside, and the buffers of N are not inside. *)
Balanced(c, E) ==
    \A s \in Streams : \A f \in Frames \ {0} : c.buf_refcnt[s][f] = E[s][f] + IF Inside(c, s, f) THEN 1 ELSE 0
Apart(c, N) == \A s \in Streams : \A f \in Frames \ {0} : Buffer(s, f) \in N => ~Inside(c, s, f)

Store(c, E, N) == StoreTypes(c) /\ OneHolder(c) /\ Balanced(c, E) /\ Apart(c, N)

Counts == [Streams -> [Frames -> Nat]]

(* The flags of the snapshot mode. *)
SameFlags(c, d) ==
    /\ d.pending_cnt = c.pending_cnt /\ d.manualZSLSnapshot = c.manualZSLSnapshot
    /\ d.startZSlSnapshotCalled = c.startZSlSnapshotCalled /\ d.burstSnapNum = c.burstSnapNum
    /\ d.stopZslSnapshot = c.stopZslSnapshot /\ d.zsl = c.zsl

Flags(c) ==
    /\ c.pending_cnt \in Nat /\ c.burstSnapNum \in Nat
    /\ c.manualZSLSnapshot \in BOOLEAN /\ c.startZSlSnapshotCalled \in BOOLEAN
    /\ c.stopZslSnapshot \in BOOLEAN /\ c.zsl \in BOOLEAN
    /\ c.burstSnapNum # 0 => c.startZSlSnapshotCalled
    /\ c.stopZslSnapshot => c.startZSlSnapshotCalled

(* A command may leave the snapshot mode to FlashControl to end. *)
Mid(c) ==
    /\ Flags(c)
    /\ ~c.manualZSLSnapshot =>
          c.zsl = c.startZSlSnapshotCalled \/ (c.startZSlSnapshotCalled /\ c.pending_cnt = 0)

Owned(c) ==
    /\ Flags(c)
    /\ ~c.manualZSLSnapshot => /\ c.zsl = c.startZSlSnapshotCalled
                               /\ c.zsl => c.pending_cnt > 0 /\ ~c.stopZslSnapshot

-----------------------------------------------------------------------------
(* The invariant of the whole. *)
DataCommands == [type : {"DATA_CB"}, arg : [stream : Streams, frame : Frames]]

Waiting(b) == \E i \in DOMAIN cmd_queue : Carries(cmd_queue[i], b)
AppRec(b, at) == [buf |-> b, at |-> at]
One(p) == IF p THEN 1 ELSE 0

(* References outside: of the command that waits, of the stream's thread in three places, and of the poll *)
(* thread.                                                                                                *)
Refs(s, f) ==
    One(Waiting(Buffer(s, f))) + One(AppRec(Buffer(s, f), "queue") \in app)
    + One(AppRec(Buffer(s, f), "callback") \in app) + One(AppRec(Buffer(s, f), "HAL") \in app)
    + One(poll = <<Buffer(s, f)>>)
Outside == [s \in Streams |-> [f \in Frames |-> Refs(s, f)]]

NotInside == {b \in [stream : Streams, frame : Frames] : b.frame > last[b.stream] \/ Waiting(b)}

CommandsOK ==
    /\ cmd_queue \in Seq(HalCommands \cup DataCommands)
    /\ \A i \in DOMAIN cmd_queue : cmd_queue[i].type = "DATA_CB" =>
          /\ cmd_queue[i].arg.stream \in attr.streams /\ cmd_queue[i].arg.frame # 0
          /\ cmd_queue[i].arg.frame <= last[cmd_queue[i].arg.stream]
    /\ \A i, j \in DOMAIN cmd_queue :
          cmd_queue[i].type = "DATA_CB" /\ cmd_queue[j].type = "DATA_CB" /\ cmd_queue[i].arg = cmd_queue[j].arg
          => i = j

(* The HAL's own stop follows its cancel, and finds no picture pending. *)
StopFollowsCancel ==
    \A i \in DOMAIN cmd_queue : cmd_queue[i].type = "STOP_ZSL" =>
        IF i = 1 THEN ch.pending_cnt = 0 ELSE Cancels(cmd_queue[i - 1])

AppOK ==
    /\ app \subseteq [buf : [stream : Streams, frame : Frames], at : {"queue", "callback", "HAL"}]
    /\ poll = <<>> \/ \E b \in [stream : Streams, frame : Frames] : poll = <<b>>
    /\ \A x \in app : x.buf.frame # 0 /\ x.buf.frame <= last[x.buf.stream]
    /\ \A x, y \in app : x.buf = y.buf /\ x.at = "queue" => y = x
    /\ \A i \in DOMAIN poll : /\ poll[i].frame # 0 /\ poll[i].frame <= last[poll[i].stream]
                              /\ \A x \in app : x.buf # poll[i]

Stored == Store(ch, Outside, NotInside)

IInv ==
    /\ attr \in Profiles /\ last \in [Streams -> Frames]
    /\ CommandsOK /\ StopFollowsCancel /\ AppOK
    /\ Stored /\ Owned(ch)

-----------------------------------------------------------------------------
(* Two buffers are equal when stream and frame are. *)
LEMMA BufferEq ==
    ASSUME NEW s, NEW f, NEW t, NEW g
    PROVE  Buffer(s, f) = Buffer(t, g) <=> s = t /\ f = g
BY DEF Buffer

(* A nonempty set of numbers has a least one. *)
LEMMA MinNat ==
    ASSUME NEW S \in SUBSET Nat, S # {}
    PROVE  Min(S) \in S /\ \A y \in S : Min(S) <= y
<1>1. PICK x \in S : \A y \in S : <<y, x>> \notin OpToRel(<, Nat)
  BY NatLessThanWellFounded, WFMin
<1>2. \A y \in S : ~(y < x)
  BY <1>1, Zenon DEF OpToRel
<1>3. \A y \in S : x <= y
  BY <1>2
<1> QED
  BY <1>3 DEF Min

(* A sequence joined to another. *)
LEMMA Joined ==
    ASSUME NEW S, NEW a \in Seq(S), NEW b \in Seq(S)
    PROVE  /\ a \o b \in Seq(S) /\ Len(a \o b) = Len(a) + Len(b)
           /\ \A k \in 1 .. Len(a) : (a \o b)[k] = a[k]
           /\ \A k \in Len(a) + 1 .. Len(a) + Len(b) : (a \o b)[k] = b[k - Len(a)]
<1>1. a \o b \in Seq(S) /\ Len(a \o b) = Len(a) + Len(b)
  BY ConcatProperties
<1>2. \A i \in 1 .. Len(a) + Len(b) : (a \o b)[i] = IF i <= Len(a) THEN a[i] ELSE b[i - Len(a)]
  BY ConcatProperties
<1>3. Len(a) \in Nat /\ Len(b) \in Nat
  OBVIOUS
<1>4. \A k \in 1 .. Len(a) : k \in 1 .. Len(a) + Len(b) /\ k <= Len(a)
  BY <1>3
<1>5. \A k \in Len(a) + 1 .. Len(a) + Len(b) : k \in 1 .. Len(a) + Len(b) /\ ~(k <= Len(a))
  BY <1>3
<1> QED
  BY <1>1, <1>2, <1>4, <1>5, Zenon

(* The elements i to j are cut out of a sequence. *)
LEMMA CutOut ==
    ASSUME NEW S, NEW q \in Seq(S), NEW i \in Nat \ {0}, NEW j \in Nat, i <= j + 1, j <= Len(q)
    PROVE  LET r == SubSeq(q, 1, i - 1) \o SubSeq(q, j + 1, Len(q))
           IN /\ r \in Seq(S) /\ Len(r) = Len(q) - (j - i + 1)
              /\ \A k \in 1 .. i - 1 : r[k] = q[k]
              /\ \A k \in i .. Len(r) : r[k] = q[k + (j - i + 1)]
<1> DEFINE a == SubSeq(q, 1, i - 1)
           b == SubSeq(q, j + 1, Len(q))
<1>1. a \in Seq(S) /\ Len(a) = i - 1 /\ \A k \in 1 .. i - 1 : a[k] = q[k]
  OBVIOUS
<1>2. b \in Seq(S) /\ Len(b) = Len(q) - j /\ \A k \in 1 .. Len(q) - j : b[k] = q[j + k]
  OBVIOUS
<1> HIDE DEF a, b
<1>3. /\ a \o b \in Seq(S) /\ Len(a \o b) = Len(a) + Len(b)
      /\ \A k \in 1 .. Len(a) : (a \o b)[k] = a[k]
      /\ \A k \in Len(a) + 1 .. Len(a) + Len(b) : (a \o b)[k] = b[k - Len(a)]
  BY ZenonT(40), <1>1, <1>2, Joined
<1>4. \A k \in i .. Len(a \o b) : k - Len(a) \in 1 .. Len(q) - j /\ j + (k - Len(a)) = k + (j - i + 1)
  BY <1>1, <1>2, <1>3
<1>5. \A k \in i .. Len(a \o b) : (a \o b)[k] = q[k + (j - i + 1)]
  <2> TAKE k \in i .. Len(a \o b)
  <2>1. k - Len(a) \in 1 .. Len(q) - j /\ j + (k - Len(a)) = k + (j - i + 1)
    BY <1>4
  <2>2. (a \o b)[k] = b[k - Len(a)]
    BY <1>1, <1>2, <1>3
  <2>3. b[k - Len(a)] = q[j + (k - Len(a))]
    BY <1>2, <2>1
  <2> QED
    BY <2>1, <2>2, <2>3
<1>6. \A k \in 1 .. i - 1 : (a \o b)[k] = q[k]
  BY <1>1, <1>3
<1>7. Len(a \o b) = Len(q) - (j - i + 1)
  BY <1>1, <1>2, <1>3
<1>8. a \o b \in Seq(S)
  BY <1>3
<1> QED
  BY <1>5, <1>6, <1>7, <1>8 DEF a, b

LEMMA Removed ==
    ASSUME NEW S, NEW q \in Seq(S), NEW i \in 1 .. Len(q)
    PROVE  LET r == RemoveAt(q, i)
           IN /\ r \in Seq(S) /\ Len(r) = Len(q) - 1
              /\ \A k \in 1 .. i - 1 : r[k] = q[k]
              /\ \A k \in i .. Len(r) : r[k] = q[k + 1]
<1>1. i \in Nat \ {0} /\ i \in Nat /\ i <= i + 1 /\ i <= Len(q)
  OBVIOUS
<1>2. ASSUME NEW j, j = i
      PROVE  LET r == SubSeq(q, 1, i - 1) \o SubSeq(q, j + 1, Len(q))
             IN /\ r \in Seq(S) /\ Len(r) = Len(q) - (j - i + 1)
                /\ \A k \in 1 .. i - 1 : r[k] = q[k]
                /\ \A k \in i .. Len(r) : r[k] = q[k + (j - i + 1)]
  <2>1. j \in Nat /\ i <= j + 1 /\ j <= Len(q)
    BY <1>1, <1>2
  <2> QED
    BY ZenonT(40), <1>1, <2>1, CutOut
<1>3. ASSUME NEW r, NEW j, j = i, r = SubSeq(q, 1, i - 1) \o SubSeq(q, j + 1, Len(q))
      PROVE  /\ r \in Seq(S) /\ Len(r) = Len(q) - 1
             /\ \A k \in 1 .. i - 1 : r[k] = q[k]
             /\ \A k \in i .. Len(r) : r[k] = q[k + 1]
  <2>1. j - i + 1 = 1
    BY <1>1, <1>3
  <2> QED
    BY <1>2, <1>3, <2>1
<1>4. RemoveAt(q, i) = SubSeq(q, 1, i - 1) \o SubSeq(q, i + 1, Len(q))
  BY DEF RemoveAt
<1> QED
  BY <1>3, <1>4

(* An element is inserted before the position i. *)
LEMMA Inserted ==
    ASSUME NEW S, NEW q \in Seq(S), NEW e \in S, NEW i \in 1 .. Len(q) + 1
    PROVE  LET r == InsertAt(q, i, e)
           IN /\ r \in Seq(S) /\ Len(r) = Len(q) + 1 /\ r[i] = e
              /\ \A k \in 1 .. i - 1 : r[k] = q[k]
              /\ \A k \in i + 1 .. Len(r) : r[k] = q[k - 1]
<1> DEFINE a == SubSeq(q, 1, i - 1) \o <<e>>
           b == SubSeq(q, i, Len(q))
<1>1. SubSeq(q, 1, i - 1) \in Seq(S) /\ Len(SubSeq(q, 1, i - 1)) = i - 1
      /\ \A k \in 1 .. i - 1 : SubSeq(q, 1, i - 1)[k] = q[k]
  OBVIOUS
<1>2. a \in Seq(S) /\ Len(a) = i /\ a[i] = e /\ \A k \in 1 .. i - 1 : a[k] = q[k]
  BY <1>1
<1>3. b \in Seq(S) /\ Len(b) = Len(q) - i + 1 /\ \A k \in 1 .. Len(q) - i + 1 : b[k] = q[k + (i - 1)]
  OBVIOUS
<1> HIDE DEF a, b
<1>4. /\ a \o b \in Seq(S) /\ Len(a \o b) = Len(q) + 1
      /\ \A k \in 1 .. i : (a \o b)[k] = a[k]
      /\ \A k \in i + 1 .. Len(q) + 1 : (a \o b)[k] = b[k - i]
  <2>1. /\ a \o b \in Seq(S) /\ Len(a \o b) = Len(a) + Len(b)
        /\ \A k \in 1 .. Len(a) : (a \o b)[k] = a[k]
        /\ \A k \in Len(a) + 1 .. Len(a) + Len(b) : (a \o b)[k] = b[k - Len(a)]
    BY <1>2, <1>3, Joined
  <2> QED
    BY SMTT(30), <2>1, <1>2, <1>3
<1>5. \A k \in i + 1 .. Len(q) + 1 : k - i \in 1 .. Len(q) - i + 1 /\ (k - i) + (i - 1) = k - 1
  OBVIOUS
<1>6. \A k \in i + 1 .. Len(q) + 1 : b[k - i] = q[k - 1]
  BY <1>3, <1>5
<1>7. InsertAt(q, i, e) = a \o b
  BY DEF InsertAt, a, b
<1> QED
  BY <1>2, <1>4, <1>6, <1>7

(* A node of the queue is changed, its buffers are not. *)
LEMMA Replaced ==
    ASSUME NEW q \in Seq(Node), NEW i \in DOMAIN q, NEW e \in Node
    PROVE  LET r == [q EXCEPT ![i] = e]
           IN /\ r \in Seq(Node) /\ Len(r) = Len(q) /\ DOMAIN r = DOMAIN q /\ r[i] = e
              /\ \A k \in DOMAIN q : k # i => r[k] = q[k]
<1> DEFINE r == [q EXCEPT ![i] = e]
<1>1. Len(q) \in Nat /\ DOMAIN q = 1 .. Len(q) /\ \A k \in 1 .. Len(q) : q[k] \in Node
  OBVIOUS
<1>2. r = [k \in 1 .. Len(q) |-> IF k = i THEN e ELSE q[k]]
  BY <1>1
<1>3. \A k \in 1 .. Len(q) : r[k] \in Node
  BY <1>1, <1>2
<1>4. r \in [1 .. Len(q) -> Node]
  BY <1>2, <1>3
<1>5. r \in Seq(Node)
  BY <1>1, <1>4
<1>6. Len(r) = Len(q)
  BY <1>1, <1>4, <1>5
<1> QED
  BY <1>1, <1>2, <1>5, <1>6

(* The matched nodes at the front are not more than the nodes. *)
LEMMA FrontSize ==
    ASSUME NEW q \in Seq(Node)
    PROVE  Cardinality(MatchedFront(q)) \in 0 .. Len(q)
<1>1. 1 .. Len(q) = DOMAIN q /\ MatchedFront(q) \subseteq 1 .. Len(q)
  BY DEF MatchedFront
<1>2. IsFiniteSet(1 .. Len(q)) /\ Cardinality(1 .. Len(q)) = Len(q)
  <2>1. Len(q) \in Nat
    OBVIOUS
  <2>2. 1 \in Int /\ Len(q) \in Int /\ (IF 1 > Len(q) THEN 0 ELSE Len(q) - 1 + 1) = Len(q)
    BY <2>1
  <2>3. /\ IsFiniteSet(1 .. Len(q))
        /\ Cardinality(1 .. Len(q)) = IF 1 > Len(q) THEN 0 ELSE Len(q) - 1 + 1
    BY <2>2, FS_Interval, Zenon
  <2> QED
    BY <2>2, <2>3
<1>3. IsFiniteSet(MatchedFront(q)) /\ Cardinality(MatchedFront(q)) <= Len(q)
  BY <1>1, <1>2, FS_Subset
<1>4. Cardinality(MatchedFront(q)) \in Nat
  BY <1>3, FS_CardinalityType
<1> QED
  BY <1>3, <1>4

(* How many nodes are matched is a number. *)
LEMMA MatchedSize ==
    ASSUME NEW q \in Seq(Node)
    PROVE  Cardinality(Matched(q)) \in Nat
<1>1. 1 .. Len(q) = DOMAIN q /\ Matched(q) \subseteq 1 .. Len(q)
  BY DEF Matched
<1>2. IsFiniteSet(1 .. Len(q))
  BY FS_Interval
<1> QED
  BY <1>1, <1>2, FS_Subset, FS_CardinalityType

-----------------------------------------------------------------------------
(* The store: each function of the queue keeps it. *)

(* A node has a buffer of a stream of the channel for each frame it names. *)
LEMMA BufsOfNode ==
    ASSUME NEW n, NEW s, NEW f \in Frames \ {0}
    PROVE  Buffer(s, f) \in BufsOf(n) <=> s \in attr.streams /\ n.super_buf[s] = f
BY BufferEq DEF BufsOf

LEMMA BuffersInSuperBuf ==
    ASSUME NEW sb, NEW s, NEW f \in Frames \ {0}
    PROVE  Buffer(s, f) \in BuffersIn(sb) <=> s \in attr.streams /\ sb[s] = f
BY BufferEq DEF BuffersIn

(* The counts after buffers were given back. *)
LEMMA DoneCounts ==
    ASSUME NEW r \in Counts, NEW B
    PROVE  /\ buf_done(r, B) \in Counts
           /\ \A s \in Streams : \A f \in Frames : Buffer(s, f) \notin B => buf_done(r, B)[s][f] = r[s][f]
           /\ \A s \in Streams : \A f \in Frames :
                 Buffer(s, f) \in B /\ r[s][f] > 0 => buf_done(r, B)[s][f] = r[s][f] - 1
<1>1. \A s \in Streams : \A f \in Frames :
          buf_done(r, B)[s][f] = IF Buffer(s, f) \in B /\ r[s][f] > 0 THEN r[s][f] - 1 ELSE r[s][f]
  BY DEF buf_done
<1>2. \A s \in Streams : \A f \in Frames : r[s][f] \in Nat
  BY DEF Counts
<1>3. \A s \in Streams : \A f \in Frames :
          (IF Buffer(s, f) \in B /\ r[s][f] > 0 THEN r[s][f] - 1 ELSE r[s][f]) \in Nat
  BY <1>2
<1>4. buf_done(r, B) \in Counts
  BY <1>3 DEF buf_done, Counts
<1> QED
  BY <1>1, <1>2, <1>4

(* Only the queue, what is handed up and the counts matter, and of a node only its buffers. *)
LEMMA StoreSame ==
    ASSUME NEW c, NEW d, NEW E, NEW N, Store(c, E, N), StoreTypes(d),
           d.buf_refcnt = c.buf_refcnt, d.up = c.up, Len(d.queue) = Len(c.queue),
           \A i \in DOMAIN c.queue : d.queue[i].super_buf = c.queue[i].super_buf
    PROVE  Store(d, E, N)
<1>1. DOMAIN d.queue = DOMAIN c.queue
  BY DEF Store, StoreTypes
<1>2. \A i \in DOMAIN c.queue : \A s, f : InQueue(d, i, s, f) <=> InQueue(c, i, s, f)
  BY DEF InQueue
<1>3. \A i, s, f : InUp(d, i, s, f) <=> InUp(c, i, s, f)
  BY DEF InUp
<1>4. \A s, f : Inside(d, s, f) <=> Inside(c, s, f)
  BY <1>1, <1>2, <1>3 DEF Inside
<1>5. OneHolder(d)
  BY <1>1, <1>2, <1>3 DEF Store, OneHolder
<1>6. Balanced(d, E) /\ Apart(d, N)
  BY <1>4 DEF Store, Balanced, Apart
<1> QED
  BY <1>5, <1>6 DEF Store

(* Fewer buffers are kept apart. *)
LEMMA StoreApart ==
    ASSUME NEW c, NEW E, NEW N, NEW M, Store(c, E, N),
           \A s \in Streams : \A f \in Frames \ {0} : Buffer(s, f) \in M => Buffer(s, f) \in N
    PROVE  Store(c, E, M)
BY DEF Store, Apart

LEMMA DiscardStore ==
    ASSUME NEW c, NEW E \in Counts, NEW N, Store(c, E, N),
           NEW i \in Nat \ {0}, NEW j \in Nat, i <= j + 1, j <= Len(c.queue)
    PROVE  /\ Store(Discard(c, i, j), E, N)
           /\ SameFlags(c, Discard(c, i, j)) /\ Discard(c, i, j).match_cnt = c.match_cnt
           /\ Discard(c, i, j).queue = SubSeq(c.queue, 1, i - 1) \o SubSeq(c.queue, j + 1, Len(c.queue))
<1> DEFINE d == Discard(c, i, j)
           q == SubSeq(c.queue, 1, i - 1) \o SubSeq(c.queue, j + 1, Len(c.queue))
           B == UNION {BufsOf(c.queue[k]) : k \in i .. j}
           Gone(s, f) == \E k \in i .. j : InQueue(c, k, s, f)
           old(k) == IF k < i THEN k ELSE k + (j - i + 1)
<1>1. /\ Chan(d) /\ d.queue = q /\ d.up = c.up /\ d.buf_refcnt = buf_done(c.buf_refcnt, B)
      /\ d.match_cnt = c.match_cnt /\ SameFlags(c, d)
  BY DEF Store, StoreTypes, Discard, qbuf, Chan, Fields, SameFlags
<1> HIDE DEF d
<1>2. /\ q \in Seq(Node) /\ Len(q) = Len(c.queue) - (j - i + 1)
      /\ \A k \in 1 .. i - 1 : q[k] = c.queue[k]
      /\ \A k \in i .. Len(q) : q[k] = c.queue[k + (j - i + 1)]
  <2>1. c.queue \in Seq(Node)
    BY DEF Store, StoreTypes
  <2> QED
    BY ZenonT(40), <2>1, CutOut
<1> HIDE DEF q
<1>3. DOMAIN q = 1 .. Len(q) /\ DOMAIN c.queue = 1 .. Len(c.queue) /\ Len(q) \in Nat /\ Len(c.queue) \in Nat
  BY <1>2 DEF Store, StoreTypes
<1>4. \A k \in DOMAIN q : q[k] = c.queue[old(k)] /\ old(k) \in DOMAIN c.queue /\ old(k) \notin i .. j
  BY SMTT(30), <1>2, <1>3
<1>5. \A k, l \in DOMAIN q : old(k) = old(l) => k = l
  BY <1>3
<1>6. \A m \in DOMAIN c.queue : m \notin i .. j => \E k \in DOMAIN q : old(k) = m
  <2> SUFFICES ASSUME NEW m \in DOMAIN c.queue, m \notin i .. j PROVE \E k \in DOMAIN q : old(k) = m
    OBVIOUS
  <2>1. CASE m < i
    BY <2>1, <1>2, <1>3
  <2>2. CASE m > j
    <3>1. m - (j - i + 1) \in DOMAIN q /\ old(m - (j - i + 1)) = m
      BY <2>2, <1>2, <1>3
    <3> QED
      BY <3>1
  <2> QED
    BY <2>1, <2>2, <1>3
<1>7. \A s, f : \A k \in DOMAIN q : InQueue(d, k, s, f) <=> InQueue(c, old(k), s, f)
  BY <1>1, <1>4 DEF InQueue
<1>8. \A s, f : \A k : InUp(d, k, s, f) <=> InUp(c, k, s, f)
  BY <1>1 DEF InUp
<1> HIDE DEF old
<1>9. OneHolder(d)
  BY <1>1, <1>4, <1>5, <1>7, <1>8 DEF Store, OneHolder
<1>10. i .. j \subseteq DOMAIN c.queue
  BY <1>3
<1>11. \A s \in Streams : \A f \in Frames \ {0} : Inside(d, s, f) <=> Inside(c, s, f) /\ ~Gone(s, f)
  <2> TAKE s \in Streams
  <2> TAKE f \in Frames \ {0}
  <2>1. ASSUME Inside(d, s, f) PROVE Inside(c, s, f) /\ ~Gone(s, f)
    <3>1. CASE \E k \in DOMAIN q : InQueue(d, k, s, f)
      <4>1. PICK k \in DOMAIN q : InQueue(d, k, s, f)
        BY <3>1
      <4>2. InQueue(c, old(k), s, f) /\ old(k) \in DOMAIN c.queue /\ old(k) \notin i .. j
        BY <4>1, <1>4, <1>7
      <4>3. \A l \in i .. j : ~InQueue(c, l, s, f)
        BY <4>2, <1>10 DEF Store, OneHolder
      <4> QED
        BY <4>2, <4>3 DEF Inside
    <3>2. CASE \E k \in DOMAIN c.up : InUp(c, k, s, f)
      <4>1. PICK k \in DOMAIN c.up : InUp(c, k, s, f)
        BY <3>2
      <4>2. \A l \in i .. j : ~InQueue(c, l, s, f)
        BY <4>1, <1>10 DEF Store, OneHolder
      <4> QED
        BY <4>1, <4>2 DEF Inside
    <3> QED
      BY <2>1, <3>1, <3>2, <1>1, <1>8 DEF Inside
  <2>2. ASSUME Inside(c, s, f), ~Gone(s, f) PROVE Inside(d, s, f)
    <3>1. CASE \E k \in DOMAIN c.queue : InQueue(c, k, s, f)
      <4>1. PICK m \in DOMAIN c.queue : InQueue(c, m, s, f)
        BY <3>1
      <4>2. m \notin i .. j
        BY <4>1, <2>2
      <4>3. PICK k \in DOMAIN q : old(k) = m
        BY <4>2, <1>6
      <4> QED
        BY <4>1, <4>3, <1>1, <1>7 DEF Inside
    <3>2. CASE \E k \in DOMAIN c.up : InUp(c, k, s, f)
      BY <3>2, <1>1, <1>8 DEF Inside
    <3> QED
      BY <2>2, <3>1, <3>2 DEF Inside
  <2> QED
    BY <2>1, <2>2
<1>12. \A s \in Streams : \A f \in Frames \ {0} : Buffer(s, f) \in B <=> Gone(s, f)
  <2> TAKE s \in Streams
  <2> TAKE f \in Frames \ {0}
  <2>1. \A k \in i .. j : Buffer(s, f) \in BufsOf(c.queue[k]) <=> InQueue(c, k, s, f)
    BY BufsOfNode DEF InQueue
  <2> QED
    BY <2>1
<1>13. \A s \in Streams : \A f \in Frames \ {0} : Gone(s, f) => Inside(c, s, f)
  BY <1>10 DEF Inside
<1> HIDE DEF B, Gone
<1>14. /\ buf_done(c.buf_refcnt, B) \in Counts
       /\ \A s \in Streams : \A f \in Frames : Buffer(s, f) \notin B => buf_done(c.buf_refcnt, B)[s][f] = c.buf_refcnt[s][f]
       /\ \A s \in Streams : \A f \in Frames :
             Buffer(s, f) \in B /\ c.buf_refcnt[s][f] > 0 => buf_done(c.buf_refcnt, B)[s][f] = c.buf_refcnt[s][f] - 1
  <2>1. c.buf_refcnt \in Counts
    BY DEF Store, StoreTypes, Counts
  <2> QED
    BY <2>1, DoneCounts
<1>15. \A s \in Streams : \A f \in Frames : E[s][f] \in Nat
  BY DEF Counts
<1>16. \A s \in Streams : \A f \in Frames \ {0} : c.buf_refcnt[s][f] = E[s][f] + IF Inside(c, s, f) THEN 1 ELSE 0
  BY DEF Store, Balanced
<1>17. Balanced(d, E)
  <2> SUFFICES ASSUME NEW s \in Streams, NEW f \in Frames \ {0}
               PROVE  d.buf_refcnt[s][f] = E[s][f] + IF Inside(d, s, f) THEN 1 ELSE 0
    BY DEF Balanced
  <2>1. CASE Gone(s, f)
    <3>1. Inside(c, s, f) /\ Buffer(s, f) \in B /\ ~Inside(d, s, f)
      BY <2>1, <1>11, <1>12, <1>13
    <3>2. c.buf_refcnt[s][f] = E[s][f] + 1 /\ E[s][f] \in Nat
      BY <3>1, <1>15, <1>16
    <3>3. d.buf_refcnt[s][f] = c.buf_refcnt[s][f] - 1
      BY <3>1, <3>2, <1>1, <1>14
    <3> QED
      BY <3>1, <3>2, <3>3
  <2>2. CASE ~Gone(s, f)
    BY <2>2, <1>1, <1>11, <1>12, <1>14, <1>16
  <2> QED
    BY <2>1, <2>2
<1>18. Apart(d, N)
  BY <1>11 DEF Store, Apart
<1>19. StoreTypes(d)
  BY <1>1, <1>2, <1>14 DEF Store, StoreTypes, Counts
<1> QED
  BY <1>1, <1>9, <1>17, <1>18, <1>19 DEF Store, d, q

(* A holder outside gives its buffer back. *)
LEMMA GiveBackStore ==
    ASSUME NEW c, NEW E \in Counts, NEW N, Store(c, E, N),
           NEW s \in Streams, NEW f \in Frames \ {0}, E[s][f] > 0
    PROVE  /\ Store(qbuf(c, {Buffer(s, f)}), [E EXCEPT ![s][f] = @ - 1], N)
           /\ SameFlags(c, qbuf(c, {Buffer(s, f)}))
<1> DEFINE d == qbuf(c, {Buffer(s, f)})
           L == [E EXCEPT ![s][f] = @ - 1]
<1>1. /\ Chan(d) /\ d.queue = c.queue /\ d.up = c.up /\ d.buf_refcnt = buf_done(c.buf_refcnt, {Buffer(s, f)})
      /\ d.match_cnt = c.match_cnt /\ SameFlags(c, d)
  BY DEF Store, StoreTypes, qbuf, Chan, Fields, SameFlags
<1> HIDE DEF d
<1>2. /\ buf_done(c.buf_refcnt, {Buffer(s, f)}) \in Counts
      /\ \A t \in Streams : \A g \in Frames :
            Buffer(t, g) \notin {Buffer(s, f)} => buf_done(c.buf_refcnt, {Buffer(s, f)})[t][g] = c.buf_refcnt[t][g]
      /\ \A t \in Streams : \A g \in Frames :
            Buffer(t, g) \in {Buffer(s, f)} /\ c.buf_refcnt[t][g] > 0
            => buf_done(c.buf_refcnt, {Buffer(s, f)})[t][g] = c.buf_refcnt[t][g] - 1
  <2>1. c.buf_refcnt \in Counts
    BY DEF Store, StoreTypes, Counts
  <2> QED
    BY <2>1, DoneCounts
<1>3. \A t, g : Inside(d, t, g) <=> Inside(c, t, g)
  BY <1>1 DEF Inside, InQueue, InUp
<1>4. \A t \in Streams : \A g \in Frames : E[t][g] \in Nat
  BY DEF Counts
<1>5. \A t \in Streams : \A g \in Frames : L[t][g] = IF t = s /\ g = f THEN E[t][g] - 1 ELSE E[t][g]
  BY DEF Counts
<1> HIDE DEF L
<1>6. \A t \in Streams : \A g \in Frames \ {0} : c.buf_refcnt[t][g] = E[t][g] + IF Inside(c, t, g) THEN 1 ELSE 0
  BY DEF Store, Balanced
<1>7. Balanced(d, L)
  <2> SUFFICES ASSUME NEW t \in Streams, NEW g \in Frames \ {0}
               PROVE  d.buf_refcnt[t][g] = L[t][g] + IF Inside(d, t, g) THEN 1 ELSE 0
    BY DEF Balanced
  <2>1. Buffer(t, g) \in {Buffer(s, f)} <=> t = s /\ g = f
    BY BufferEq
  <2>2. CASE t = s /\ g = f
    <3>1. c.buf_refcnt[t][g] > 0
      BY <2>2, <1>4, <1>6
    <3>2. d.buf_refcnt[t][g] = c.buf_refcnt[t][g] - 1
      BY <2>1, <2>2, <3>1, <1>1, <1>2
    <3> QED
      BY <2>2, <3>2, <1>3, <1>4, <1>5, <1>6
  <2>3. CASE ~(t = s /\ g = f)
    BY SMTT(30), <2>1, <2>3, <1>1, <1>2, <1>3, <1>5, <1>6
  <2> QED
    BY <2>2, <2>3
<1>8. OneHolder(d)
  BY <1>1 DEF Store, OneHolder, InQueue, InUp
<1>9. Apart(d, N)
  BY <1>3 DEF Store, Apart
<1>10. StoreTypes(d)
  BY <1>1, <1>2 DEF Store, StoreTypes, Counts
<1> QED
  BY <1>1, <1>7, <1>8, <1>9, <1>10 DEF Store, d, L

(* The least of two numbers. *)
LEMMA MinOfTwo ==
    ASSUME NEW a \in Nat, NEW b \in Nat
    PROVE  Min({a, b}) \in Nat /\ Min({a, b}) <= a /\ Min({a, b}) <= b
<1>1. Min({a, b}) \in {a, b} /\ \A y \in {a, b} : Min({a, b}) <= y
  BY MinNat
<1> QED
  BY <1>1

(* What the attributes of the channel are. *)
LEMMA AttrTypes ==
    ASSUME attr \in Profiles
    PROVE  /\ attr.streams \subseteq Streams
           /\ attr.water_mark \in Nat /\ attr.look_back \in Nat
           /\ attr.notify_mode \in {"BURST", "CONTINUOUS"} /\ attr.priority \in {"NORMAL", "LOW"}
           /\ \A op \in Operations(attr) : op \in Seq(HalCommands)
BY ProfilesAssumption, OperationsAssumption

LEMMA KeepMatchedStore ==
    ASSUME NEW c, NEW E \in Counts, NEW N, Store(c, E, N), NEW n \in Nat
    PROVE  Store(KeepMatched(c, n), E, N) /\ SameFlags(c, KeepMatched(c, n))
<1> DEFINE surplus == IF c.match_cnt > n THEN c.match_cnt - n ELSE 0
           taken == Min({surplus, Cardinality(MatchedFront(c.queue))})
           e == Discard(c, 1, taken)
<1>1. c.queue \in Seq(Node) /\ c.match_cnt \in Int
  BY DEF Store, StoreTypes
<1>2. surplus \in Nat /\ Cardinality(MatchedFront(c.queue)) \in 0 .. Len(c.queue)
  BY <1>1, FrontSize
<1>3. taken \in Nat /\ taken <= Len(c.queue)
  <2>1. Cardinality(MatchedFront(c.queue)) \in Nat /\ Cardinality(MatchedFront(c.queue)) <= Len(c.queue) /\ Len(c.queue) \in Nat
    BY <1>1, <1>2
  <2> HIDE DEF surplus
  <2>2. taken \in Nat /\ taken <= Cardinality(MatchedFront(c.queue))
    BY <1>2, <2>1, MinOfTwo
  <2> QED
    BY <2>1, <2>2
<1>4. KeepMatched(c, n) = [e EXCEPT !.match_cnt = @ - taken, !.hangs = @ \/ taken < surplus]
  BY DEF KeepMatched
<1> HIDE DEF taken, surplus
<1>5. Store(e, E, N) /\ SameFlags(c, e) /\ e.match_cnt = c.match_cnt
  <2>1. 1 \in Nat \ {0} /\ 1 <= taken + 1
    BY <1>3
  <2> QED
    BY <1>3, <2>1, DiscardStore
<1> HIDE DEF e
<1> DEFINE d == [e EXCEPT !.match_cnt = @ - taken, !.hangs = @ \/ taken < surplus]
<1>6. Chan(d) /\ d.queue = e.queue /\ d.up = e.up /\ d.buf_refcnt = e.buf_refcnt
      /\ d.match_cnt = e.match_cnt - taken /\ SameFlags(e, d)
  BY <1>5 DEF Store, StoreTypes, Chan, Fields, SameFlags
<1> HIDE DEF d
<1>7. StoreTypes(d)
  BY <1>1, <1>3, <1>5, <1>6 DEF Store, StoreTypes
<1>8. Store(d, E, N)
  BY <1>5, <1>6, <1>7, StoreSame
<1>9. SameFlags(c, d)
  BY <1>5, <1>6 DEF SameFlags
<1> QED
  BY <1>4, <1>8, <1>9 DEF d

LEMMA OverflowStore ==
    ASSUME NEW c, NEW E \in Counts, NEW N, Store(c, E, N), attr \in Profiles
    PROVE  /\ Store(superbuf_bufdone_overflow(c), E, N) /\ SameFlags(c, superbuf_bufdone_overflow(c))
           /\ Store(superbuf_skip(c), E, N) /\ SameFlags(c, superbuf_skip(c))
<1>1. attr.water_mark \in Nat /\ attr.look_back \in Nat
  BY AttrTypes
<1>2. SameFlags(c, c)
  BY DEF SameFlags
<1>3. Store(KeepMatched(c, attr.water_mark), E, N) /\ SameFlags(c, KeepMatched(c, attr.water_mark))
  BY <1>1, KeepMatchedStore
<1>4. Store(KeepMatched(c, attr.look_back), E, N) /\ SameFlags(c, KeepMatched(c, attr.look_back))
  BY <1>1, KeepMatchedStore
<1> QED
  BY <1>2, <1>3, <1>4 DEF superbuf_bufdone_overflow, superbuf_skip

(* The first nodes are given back, and those counted that were matched. *)
LEMMA FlushStore ==
    ASSUME NEW c, NEW E \in Counts, NEW N, Store(c, E, N)
    PROVE  /\ Store(superbuf_flush(c), E, N) /\ SameFlags(c, superbuf_flush(c))
           /\ Store(superbuf_flush_matched(c), E, N) /\ SameFlags(c, superbuf_flush_matched(c))
<1>1. c.queue \in Seq(Node) /\ c.match_cnt \in Int /\ Len(c.queue) \in Nat
  BY DEF Store, StoreTypes
<1>2. ASSUME NEW n \in Nat, n <= Len(c.queue), NEW k \in Nat
      PROVE  /\ Store([Discard(c, 1, n) EXCEPT !.match_cnt = @ - k], E, N)
             /\ SameFlags(c, [Discard(c, 1, n) EXCEPT !.match_cnt = @ - k])
  <2> DEFINE e == Discard(c, 1, n)
             d == [e EXCEPT !.match_cnt = @ - k]
  <2>1. Store(e, E, N) /\ SameFlags(c, e) /\ e.match_cnt = c.match_cnt
    <3>1. 1 \in Nat \ {0} /\ 1 <= n + 1
      BY <1>2
    <3> QED
      BY <1>2, <3>1, DiscardStore
  <2> HIDE DEF e
  <2>2. Chan(d) /\ d.queue = e.queue /\ d.up = e.up /\ d.buf_refcnt = e.buf_refcnt
        /\ d.match_cnt = e.match_cnt - k /\ SameFlags(e, d)
    BY <2>1 DEF Store, StoreTypes, Chan, Fields, SameFlags
  <2> HIDE DEF d
  <2>3. StoreTypes(d)
    BY <1>1, <1>2, <2>1, <2>2 DEF Store, StoreTypes
  <2>4. Store(d, E, N)
    BY <2>1, <2>2, <2>3, StoreSame
  <2>5. SameFlags(c, d)
    BY <2>1, <2>2 DEF SameFlags
  <2> QED
    BY <2>4, <2>5 DEF d, e
<1>3. Cardinality(Matched(c.queue)) \in Nat
  BY <1>1, MatchedSize
<1>4. Cardinality(MatchedFront(c.queue)) \in Nat /\ Cardinality(MatchedFront(c.queue)) <= Len(c.queue)
  BY <1>1, FrontSize
<1>5. Store(superbuf_flush(c), E, N) /\ SameFlags(c, superbuf_flush(c))
  <2>1. Len(c.queue) <= Len(c.queue)
    BY <1>1
  <2> QED
    BY <1>1, <1>2, <1>3, <2>1 DEF superbuf_flush
<1>6. Store(superbuf_flush_matched(c), E, N) /\ SameFlags(c, superbuf_flush_matched(c))
  BY <1>2, <1>4 DEF superbuf_flush_matched
<1> QED
  BY <1>5, <1>6

-----------------------------------------------------------------------------
(* Metadata. *)
SameStore(c, d) ==
    /\ Chan(d) /\ d.queue = c.queue /\ d.up = c.up /\ d.buf_refcnt = c.buf_refcnt /\ d.match_cnt = c.match_cnt

(* The store and the flags are kept. *)
Keeps(c, d, E, N) == Store(d, E, N) /\ SameFlags(c, d)

LEMMA KeepsFields ==
    ASSUME NEW c, NEW d, NEW E, NEW N, Store(c, E, N), SameStore(c, d)
    PROVE  Store(d, E, N)
<1>1. StoreTypes(d) /\ Len(d.queue) = Len(c.queue)
  BY DEF Store, StoreTypes, SameStore
<1>2. d.buf_refcnt = c.buf_refcnt /\ d.up = c.up /\ \A i \in DOMAIN c.queue : d.queue[i].super_buf = c.queue[i].super_buf
  BY DEF SameStore
<1> QED
  BY <1>1, <1>2, StoreSame

LEMMA KeepsTwice ==
    ASSUME NEW c, NEW d, NEW e, NEW E, NEW N, Keeps(c, d, E, N), Keeps(d, e, E, N)
    PROVE  Keeps(c, e, E, N)
BY DEF Keeps, SameFlags

LEMMA KeepsSelf ==
    ASSUME NEW c, NEW E, NEW N, Store(c, E, N)
    PROVE  Keeps(c, c, E, N)
BY DEF Keeps, SameFlags

LEMMA MidKept ==
    ASSUME NEW c, NEW d, SameFlags(c, d)
    PROVE  /\ Mid(c) => Mid(d)
           /\ Owned(c) => Owned(d)
BY DEF SameFlags, Mid, Owned, Flags

LEMMA DivertKeeps ==
    ASSUME NEW c, NEW f, NEW m, NEW E, NEW N, Store(c, E, N)
    PROVE  Keeps(c, Divert(c, f, m), E, N)
<1>1. SameStore(c, Divert(c, f, m)) /\ SameFlags(c, Divert(c, f, m))
  BY DEF Store, StoreTypes, Divert, SameStore, SameFlags, Chan, Fields
<1> QED
  BY <1>1, KeepsFields DEF Keeps

LEMMA LaterKeeps ==
    ASSUME NEW c, NEW E, NEW N, Store(c, E, N)
    PROVE  Keeps(c, Later(c), E, N)
<1>1. SameStore(c, Later(c)) /\ SameFlags(c, Later(c))
  BY DEF Store, StoreTypes, Later, SameStore, SameFlags, Chan, Fields
<1> QED
  BY <1>1, KeepsFields DEF Keeps

LEMMA Zoom1xKeeps ==
    ASSUME NEW c, NEW f, NEW m, NEW E \in Counts, NEW N, Store(c, E, N)
    PROVE  Keeps(c, Zoom1x(c, f, m), E, N)
<1>1. CASE m.crop1x
  <2>1. SameStore(c, Zoom1x(c, f, m)) /\ SameFlags(c, Zoom1x(c, f, m))
    BY <1>1 DEF Store, StoreTypes, Zoom1x, SameStore, SameFlags, Chan, Fields
  <2> QED
    BY <2>1, KeepsFields DEF Keeps
<1>2. CASE ~m.crop1x
  <2>1. Keeps(c, Later(c), E, N)
    BY LaterKeeps
  <2>2. Keeps(Later(c), superbuf_flush_matched(Later(c)), E, N)
    BY <2>1, FlushStore DEF Keeps
  <2>3. Zoom1x(c, f, m) = superbuf_flush_matched(Later(c))
    BY <1>2 DEF Zoom1x
  <2> QED
    BY <2>1, <2>2, <2>3, KeepsTwice
<1> QED
  BY <1>1, <1>2

LEMMA PrepKeeps ==
    ASSUME NEW c, NEW m, NEW E \in Counts, NEW N, Store(c, E, N)
    PROVE  Keeps(c, PrepSnapshotDone(c, m), E, N)
<1>1. CASE m.prep = "absent"
  BY <1>1, KeepsSelf DEF PrepSnapshotDone
<1>2. CASE m.prep = "NEED_FUTURE_FRAME"
  <2> DEFINE e == superbuf_flush(Later(c))
             d == [e EXCEPT !.bWaitForPrepSnapshotDone = FALSE, !.needLEDFlash = TRUE]
  <2>1. Keeps(c, Later(c), E, N)
    BY LaterKeeps
  <2>2. Keeps(Later(c), e, E, N)
    BY <2>1, FlushStore DEF Keeps
  <2>3. PrepSnapshotDone(c, m) = d
    BY <1>2 DEF PrepSnapshotDone
  <2> HIDE DEF e
  <2>4. SameStore(e, d) /\ SameFlags(e, d)
    BY <2>2 DEF Keeps, Store, StoreTypes, SameStore, SameFlags, Chan, Fields
  <2> HIDE DEF d
  <2>5. Keeps(e, d, E, N)
    BY <2>2, <2>4, KeepsFields DEF Keeps
  <2> QED
    BY <2>1, <2>2, <2>3, <2>5, KeepsTwice
<1>3. CASE m.prep # "absent" /\ m.prep # "NEED_FUTURE_FRAME"
  <2> DEFINE d == [c EXCEPT !.bWaitForPrepSnapshotDone = FALSE, !.needLEDFlash = FALSE]
  <2>1. PrepSnapshotDone(c, m) = d
    BY <1>3 DEF PrepSnapshotDone
  <2>2. SameStore(c, d) /\ SameFlags(c, d)
    BY DEF Store, StoreTypes, SameStore, SameFlags, Chan, Fields
  <2> QED
    BY <2>1, <2>2, KeepsFields DEF Keeps
<1> QED
  BY <1>1, <1>2, <1>3

LEMMA GoodFrameRangeKeeps ==
    ASSUME NEW c, NEW f, NEW m, NEW E \in Counts, NEW N, Store(c, E, N)
    PROVE  Keeps(c, GoodFrameRange(c, f, m), E, N)
<1> DEFINE announced == m.good # <<>> /\ c.needLEDFlash /\ c.burstSnapNum > 1
           waits == m.good = <<>> /\ c.bracketingState = "WAIT_GOOD_FRAME_IDX" /\ m.prep = "absent"
<1>1. CASE announced
  <2> DEFINE d == [c EXCEPT !.led_off_start_frame_id = f + m.good[2], !.once = FALSE]
  <2>1. GoodFrameRange(c, f, m) = d
    BY <1>1 DEF GoodFrameRange
  <2>2. SameStore(c, d) /\ SameFlags(c, d)
    BY DEF Store, StoreTypes, SameStore, SameFlags, Chan, Fields
  <2> QED
    BY <2>1, <2>2, KeepsFields DEF Keeps
<1>2. CASE waits
  <2>1. Keeps(c, superbuf_flush_matched(c), E, N)
    BY FlushStore DEF Keeps
  <2>2. Keeps(superbuf_flush_matched(c), Later(superbuf_flush_matched(c)), E, N)
    BY <2>1, LaterKeeps DEF Keeps
  <2>3. GoodFrameRange(c, f, m) = Later(superbuf_flush_matched(c))
    BY <1>2 DEF GoodFrameRange
  <2> QED
    BY <2>1, <2>2, <2>3, KeepsTwice
<1>3. CASE ~announced /\ ~waits
  <2>1. GoodFrameRange(c, f, m) = c
    BY <1>3 DEF GoodFrameRange
  <2> QED
    BY <2>1, KeepsSelf
<1> QED
  BY <1>1, <1>2, <1>3

LEMMA ExpectRangeKeeps ==
    ASSUME NEW c, NEW f, NEW m, NEW E, NEW N, Store(c, E, N)
    PROVE  Keeps(c, ExpectRange(c, f, m), E, N)
<1> DEFINE d == [c EXCEPT !.expected_frame_id = f + m.good[1], !.expected_frame_id_without_led = f + m.good[2]]
           e == [c EXCEPT !.expected_frame_id = f + m.good[1], !.bracketingState = "ACTIVE"]
<1>1. SameStore(c, c) /\ SameFlags(c, c)
  BY DEF Store, StoreTypes, SameStore, SameFlags
<1>2. SameStore(c, d) /\ SameFlags(c, d)
  BY DEF Store, StoreTypes, SameStore, SameFlags, Chan, Fields
<1>3. SameStore(c, e) /\ SameFlags(c, e)
  BY DEF Store, StoreTypes, SameStore, SameFlags, Chan, Fields
<1>4. ExpectRange(c, f, m) = c \/ ExpectRange(c, f, m) = d \/ ExpectRange(c, f, m) = e
  BY DEF ExpectRange
<1> QED
  BY <1>1, <1>2, <1>3, <1>4, KeepsFields DEF Keeps

(* The flash range ends only in a burst that turned the snapshot mode on. *)
LEMMA LedOffKeeps ==
    ASSUME NEW c, NEW f, NEW E, NEW N, Store(c, E, N)
    PROVE  /\ Store(LedOff(c, f), E, N) /\ LedOff(c, f).pending_cnt = c.pending_cnt
           /\ Mid(c) => Mid(LedOff(c, f))
<1> DEFINE d == [c EXCEPT !.expected_frame_id = c.led_off_start_frame_id + frame_skip_count, !.once = TRUE,
                          !.stopZslSnapshot = TRUE, !.needLEDFlash = FALSE]
<1>1. LedOff(c, f) = c \/ (c.burstSnapNum > 1 /\ LedOff(c, f) = d)
  BY DEF LedOff
<1>2. /\ SameStore(c, d) /\ d.pending_cnt = c.pending_cnt /\ d.manualZSLSnapshot = c.manualZSLSnapshot
      /\ d.startZSlSnapshotCalled = c.startZSlSnapshotCalled /\ d.burstSnapNum = c.burstSnapNum
      /\ d.stopZslSnapshot = TRUE /\ d.zsl = c.zsl
  BY DEF Store, StoreTypes, SameStore, Chan, Fields
<1> HIDE DEF d
<1>3. Store(d, E, N)
  BY <1>2, KeepsFields
<1>4. c.burstSnapNum > 1 /\ Mid(c) => Mid(d)
  <2> SUFFICES ASSUME c.burstSnapNum > 1, Mid(c) PROVE Mid(d)
    OBVIOUS
  <2>1. c.startZSlSnapshotCalled
    BY DEF Mid, Flags
  <2>2. Flags(d)
    BY <2>1, <1>2 DEF Mid, Flags
  <2> QED
    BY <2>2, <1>2 DEF Mid
<1> QED
  BY <1>1, <1>2, <1>3, <1>4

LEMMA MetadataKeeps ==
    ASSUME NEW c, NEW f, NEW m, NEW E \in Counts, NEW N, Store(c, E, N), Mid(c)
    PROVE  /\ Store(handle_metadata(c, f, m), E, N) /\ Mid(handle_metadata(c, f, m))
           /\ handle_metadata(c, f, m).pending_cnt = c.pending_cnt
<1> DEFINE d == Divert(c, f, m)
           p == PrepSnapshotDone(d, m)
           g == GoodFrameRange(p, f, m)
           x == ExpectRange(g, f, m)
<1>1. Keeps(c, d, E, N)
  BY DivertKeeps
<1>2. handle_metadata(c, f, m) = IF d.isZoom1xFrameRequested THEN Zoom1x(d, f, m) ELSE LedOff(x, f)
  BY DEF handle_metadata
<1>3. Keeps(d, p, E, N)
  BY <1>1, PrepKeeps DEF Keeps
<1>4. Keeps(p, g, E, N)
  BY <1>3, GoodFrameRangeKeeps DEF Keeps
<1>5. Keeps(g, x, E, N)
  BY <1>4, ExpectRangeKeeps DEF Keeps
<1>6. Keeps(d, Zoom1x(d, f, m), E, N)
  BY <1>1, Zoom1xKeeps DEF Keeps
<1> HIDE DEF d, p, g, x
<1>7. Keeps(c, x, E, N) /\ Keeps(c, Zoom1x(d, f, m), E, N)
  BY <1>1, <1>3, <1>4, <1>5, <1>6, KeepsTwice
<1>8. Mid(x) /\ x.pending_cnt = c.pending_cnt /\ Store(x, E, N)
  BY <1>7, MidKept DEF Keeps, SameFlags
<1>9. Mid(Zoom1x(d, f, m)) /\ Zoom1x(d, f, m).pending_cnt = c.pending_cnt /\ Store(Zoom1x(d, f, m), E, N)
  BY <1>7, MidKept DEF Keeps, SameFlags
<1>10. Store(LedOff(x, f), E, N) /\ LedOff(x, f).pending_cnt = x.pending_cnt /\ Mid(LedOff(x, f))
  BY <1>8, LedOffKeeps
<1> QED
  BY <1>2, <1>8, <1>9, <1>10

-----------------------------------------------------------------------------
(* A buffer meets the queue. *)
Less(E, s, f) == [E EXCEPT ![s][f] = @ - 1]

LEMMA LessCounts ==
    ASSUME NEW E \in Counts, NEW s \in Streams, NEW f \in Frames, E[s][f] > 0
    PROVE  /\ Less(E, s, f) \in Counts
           /\ \A t \in Streams : \A g \in Frames :
                 Less(E, s, f)[t][g] = IF t = s /\ g = f THEN E[t][g] - 1 ELSE E[t][g]
BY DEF Less, Counts

(* Where nothing has the buffer, a node of the new queue takes it; the others are nodes of the old queue,  *)
(* and all of them.                                                                                       *)
Placed(c, d, i, old, s, f) ==
    /\ d.buf_refcnt = c.buf_refcnt /\ d.up = c.up /\ i \in DOMAIN d.queue
    /\ \A k \in DOMAIN d.queue : \A t \in Streams : \A g \in Frames \ {0} :
          InQueue(d, k, t, g) <=>
              (k = i /\ t = s /\ g = f) \/ (old[k] \in DOMAIN c.queue /\ InQueue(c, old[k], t, g))
    /\ \A k, l \in DOMAIN d.queue : old[k] \in DOMAIN c.queue /\ old[k] = old[l] => k = l
    /\ \A m \in DOMAIN c.queue : \E k \in DOMAIN d.queue : old[k] = m

LEMMA PlaceStore ==
    ASSUME NEW c, NEW d, NEW E \in Counts, NEW N, Store(c, E, N), StoreTypes(d),
           NEW s \in Streams, NEW f \in Frames \ {0}, E[s][f] > 0, s \in attr.streams, Buffer(s, f) \in N,
           NEW i, NEW old, Placed(c, d, i, old, s, f)
    PROVE  Store(d, Less(E, s, f), N \ {Buffer(s, f)})
<1> USE DEF Placed
<1>1. ~Inside(c, s, f)
  BY DEF Store, Apart
<1>2. /\ \A k \in DOMAIN c.queue : ~InQueue(c, k, s, f)
      /\ \A k \in DOMAIN c.up : ~InUp(c, k, s, f)
  BY <1>1 DEF Inside
<1>3. \A k, t, g : InUp(d, k, t, g) <=> InUp(c, k, t, g)
  BY DEF InUp
<1>4. OneHolder(d)
  <2> SUFFICES ASSUME NEW t \in Streams, NEW g \in Frames \ {0}
               PROVE  /\ \A k, l \in DOMAIN d.queue : InQueue(d, k, t, g) /\ InQueue(d, l, t, g) => k = l
                      /\ \A k, l \in DOMAIN d.up : InUp(d, k, t, g) /\ InUp(d, l, t, g) => k = l
                      /\ \A k \in DOMAIN d.queue : \A l \in DOMAIN d.up : ~(InQueue(d, k, t, g) /\ InUp(d, l, t, g))
    BY DEF OneHolder
  <2>1. /\ \A k, l \in DOMAIN c.queue : InQueue(c, k, t, g) /\ InQueue(c, l, t, g) => k = l
        /\ \A k, l \in DOMAIN c.up : InUp(c, k, t, g) /\ InUp(c, l, t, g) => k = l
        /\ \A k \in DOMAIN c.queue : \A l \in DOMAIN c.up : ~(InQueue(c, k, t, g) /\ InUp(c, l, t, g))
    BY DEF Store, OneHolder
  <2>2. ASSUME NEW k \in DOMAIN d.queue, NEW l \in DOMAIN d.queue, InQueue(d, k, t, g), InQueue(d, l, t, g)
        PROVE  k = l
    <3>1. (k = i /\ t = s /\ g = f) \/ (old[k] \in DOMAIN c.queue /\ InQueue(c, old[k], t, g))
      BY <2>2
    <3>2. (l = i /\ t = s /\ g = f) \/ (old[l] \in DOMAIN c.queue /\ InQueue(c, old[l], t, g))
      BY <2>2
    <3>3. CASE t = s /\ g = f
      BY <3>1, <3>2, <3>3, <1>2
    <3>4. CASE ~(t = s /\ g = f)
      BY <3>1, <3>2, <3>4, <2>1
    <3> QED
      BY <3>3, <3>4
  <2>3. \A k, l \in DOMAIN d.up : InUp(d, k, t, g) /\ InUp(d, l, t, g) => k = l
    BY <2>1, <1>3
  <2>4. ASSUME NEW k \in DOMAIN d.queue, NEW l \in DOMAIN d.up, InQueue(d, k, t, g), InUp(d, l, t, g)
        PROVE  FALSE
    BY <2>1, <2>4, <1>2, <1>3
  <2> QED
    BY <2>2, <2>3, <2>4
<1>5. \A t \in Streams : \A g \in Frames \ {0} : Inside(d, t, g) <=> Inside(c, t, g) \/ (t = s /\ g = f)
  <2> TAKE t \in Streams
  <2> TAKE g \in Frames \ {0}
  <2>1. (\E k \in DOMAIN d.queue : InQueue(d, k, t, g))
        <=> (\E k \in DOMAIN c.queue : InQueue(c, k, t, g)) \/ (t = s /\ g = f)
    <3>1. ASSUME NEW k \in DOMAIN d.queue, InQueue(d, k, t, g)
          PROVE  (\E l \in DOMAIN c.queue : InQueue(c, l, t, g)) \/ (t = s /\ g = f)
      BY <3>1
    <3>2. ASSUME NEW m \in DOMAIN c.queue, InQueue(c, m, t, g)
          PROVE  \E k \in DOMAIN d.queue : InQueue(d, k, t, g)
      <4>1. PICK k \in DOMAIN d.queue : old[k] = m
        OBVIOUS
      <4> QED
        BY <3>2, <4>1
    <3>3. InQueue(d, i, s, f)
      OBVIOUS
    <3> QED
      BY <3>1, <3>2, <3>3
  <2> QED
    BY <2>1, <1>3 DEF Inside
<1>6. \A t \in Streams : \A g \in Frames : E[t][g] \in Nat
  BY DEF Counts
<1>7. \A t \in Streams : \A g \in Frames \ {0} : c.buf_refcnt[t][g] = E[t][g] + IF Inside(c, t, g) THEN 1 ELSE 0
  BY DEF Store, Balanced
<1>8. Balanced(d, Less(E, s, f))
  <2> SUFFICES ASSUME NEW t \in Streams, NEW g \in Frames \ {0}
               PROVE  d.buf_refcnt[t][g] = Less(E, s, f)[t][g] + IF Inside(d, t, g) THEN 1 ELSE 0
    BY DEF Balanced
  <2>1. Less(E, s, f)[t][g] = IF t = s /\ g = f THEN E[t][g] - 1 ELSE E[t][g]
    BY LessCounts
  <2>2. CASE t = s /\ g = f
    BY <2>1, <2>2, <1>1, <1>5, <1>6, <1>7
  <2>3. CASE ~(t = s /\ g = f)
    BY <2>1, <2>3, <1>5, <1>7
  <2> QED
    BY <2>2, <2>3
<1>9. Apart(d, N \ {Buffer(s, f)})
  BY <1>5 DEF Store, Apart
<1> QED
  BY <1>4, <1>8, <1>9 DEF Store

(* The first of a set of positions. *)
LEMMA FirstIn ==
    ASSUME NEW S \in SUBSET Nat
    PROVE  FirstOf(S) # <<>> => FirstOf(S)[1] \in S
<1>1. S # {} => Min(S) \in S
  BY MinNat
<1> QED
  BY <1>1 DEF FirstOf

LEMMA SpareKeeps ==
    ASSUME NEW c, NEW f, NEW E, NEW N, Store(c, E, N), NEW i \in DOMAIN c.queue
    PROVE  Keeps(c, Spare(c, i, f), E, N) /\ Len(Spare(c, i, f).queue) = Len(c.queue)
<1> DEFINE d == [c EXCEPT !.queue[i].expected = TRUE, !.diverted_frame_id = 0]
           node == [c.queue[i] EXCEPT !.expected = TRUE]
           q == [c.queue EXCEPT ![i] = node]
<1>1. Chan(d) /\ d.queue = q /\ d.up = c.up /\ d.buf_refcnt = c.buf_refcnt
      /\ d.match_cnt = c.match_cnt /\ SameFlags(c, d)
  BY DEF Store, StoreTypes, Chan, Fields, SameFlags
<1>2. c.queue \in Seq(Node)
  BY DEF Store, StoreTypes
<1>3. q \in Seq(Node) /\ Len(q) = Len(c.queue) /\ \A k \in DOMAIN c.queue : q[k].super_buf = c.queue[k].super_buf
  <2>1. c.queue[i] \in Node
    BY <1>2
  <2>2. node \in Node /\ node.super_buf = c.queue[i].super_buf
    BY <2>1 DEF Node
  <2> HIDE DEF node
  <2> QED
    BY <1>2, <2>2, Replaced
<1> HIDE DEF d, q
<1>4. StoreTypes(d)
  BY <1>1, <1>3 DEF Store, StoreTypes
<1>5. Store(d, E, N)
  <2>1. Len(d.queue) = Len(c.queue) /\ \A k \in DOMAIN c.queue : d.queue[k].super_buf = c.queue[k].super_buf
    BY <1>1, <1>3
  <2>2. d.buf_refcnt = c.buf_refcnt /\ d.up = c.up
    BY <1>1
  <2> QED
    BY <1>4, <2>1, <2>2, StoreSame
<1>6. Spare(c, i, f) = c \/ Spare(c, i, f) = d
  BY DEF Spare, d
<1> QED
  BY <1>1, <1>3, <1>5, <1>6, KeepsSelf DEF Keeps

(* A node is marked complete. *)
LEMMA MarkKeeps ==
    ASSUME NEW c, NEW E, NEW N, Store(c, E, N), NEW i \in DOMAIN c.queue
    PROVE  LET d == [c EXCEPT !.queue[i].matched = TRUE, !.queue[i].expected = FALSE, !.match_cnt = @ + 1]
           IN Keeps(c, d, E, N) /\ Len(d.queue) = Len(c.queue)
<1> DEFINE d == [c EXCEPT !.queue[i].matched = TRUE, !.queue[i].expected = FALSE, !.match_cnt = @ + 1]
           node == [c.queue[i] EXCEPT !.matched = TRUE, !.expected = FALSE]
           q == [c.queue EXCEPT ![i] = node]
<1>1. Chan(d) /\ d.queue = q /\ d.up = c.up /\ d.buf_refcnt = c.buf_refcnt
      /\ d.match_cnt = c.match_cnt + 1 /\ SameFlags(c, d)
  BY DEF Store, StoreTypes, Chan, Fields, SameFlags
<1>2. c.queue \in Seq(Node) /\ c.match_cnt \in Int
  BY DEF Store, StoreTypes
<1>3. q \in Seq(Node) /\ Len(q) = Len(c.queue) /\ \A k \in DOMAIN c.queue : q[k].super_buf = c.queue[k].super_buf
  <2>1. c.queue[i] \in Node
    BY <1>2
  <2>2. node \in Node /\ node.super_buf = c.queue[i].super_buf
    BY <2>1 DEF Node
  <2> HIDE DEF node
  <2> QED
    BY <1>2, <2>2, Replaced
<1> HIDE DEF d, q
<1>4. StoreTypes(d)
  BY <1>1, <1>2, <1>3 DEF Store, StoreTypes
<1>5. Store(d, E, N)
  <2>1. Len(d.queue) = Len(c.queue) /\ \A k \in DOMAIN c.queue : d.queue[k].super_buf = c.queue[k].super_buf
    BY <1>1, <1>3
  <2>2. d.buf_refcnt = c.buf_refcnt /\ d.up = c.up
    BY <1>1
  <2> QED
    BY <1>4, <2>1, <2>2, StoreSame
<1> QED
  BY <1>1, <1>3, <1>5 DEF Keeps, d

LEMMA CompleteKeeps ==
    ASSUME NEW c, NEW f, NEW E \in Counts, NEW N, Store(c, E, N), NEW i \in DOMAIN c.queue, NEW older,
           older # <<>> => older[1] \in DOMAIN c.queue /\ older[1] < i
    PROVE  Keeps(c, Complete(c, i, f, older), E, N)
<1> DEFINE e == ExpectNext(c, f)
           d == [e EXCEPT !.queue[i].matched = TRUE, !.queue[i].expected = FALSE, !.match_cnt = @ + 1]
<1>1. SameStore(c, e) /\ SameFlags(c, e)
  BY DEF ExpectNext, Store, StoreTypes, SameStore, SameFlags, Chan, Fields
<1>2. Complete(c, i, f, older) = IF older = <<>> THEN d ELSE Discard(d, older[1], i - 1)
  BY DEF Complete
<1> HIDE DEF e
<1>3. Keeps(c, e, E, N) /\ e.queue = c.queue
  BY <1>1, KeepsFields DEF Keeps, SameStore
<1>4. Keeps(e, d, E, N) /\ Len(d.queue) = Len(c.queue)
  <2>1. Store(e, E, N) /\ i \in DOMAIN e.queue
    BY <1>3 DEF Keeps
  <2> QED
    BY <1>3, <2>1, MarkKeeps
<1> HIDE DEF d
<1>5. ASSUME older # <<>> PROVE Keeps(d, Discard(d, older[1], i - 1), E, N)
  <2>1. DOMAIN c.queue = 1 .. Len(c.queue) /\ Len(c.queue) \in Nat
    BY DEF Store, StoreTypes
  <2>2. /\ older[1] \in Nat \ {0} /\ i - 1 \in Nat /\ older[1] <= (i - 1) + 1 /\ i - 1 <= Len(d.queue)
    BY <1>4, <1>5, <2>1
  <2>3. Store(d, E, N)
    BY <1>4 DEF Keeps
  <2> QED
    BY <2>2, <2>3, DiscardStore DEF Keeps
<1> QED
  BY <1>2, <1>3, <1>4, <1>5, KeepsTwice

(* The buffer in hand is put into the store, or given back. *)
Takes1(c, d, E, N, s, f) == Store(d, Less(E, s, f), N \ {Buffer(s, f)}) /\ SameFlags(c, d)

LEMMA TakesBack ==
    ASSUME NEW c, NEW E \in Counts, NEW N, Store(c, E, N),
           NEW s \in Streams, NEW f \in Frames \ {0}, E[s][f] > 0
    PROVE  Takes1(c, qbuf(c, {Buffer(s, f)}), E, N, s, f)
<1>1. Store(qbuf(c, {Buffer(s, f)}), Less(E, s, f), N) /\ SameFlags(c, qbuf(c, {Buffer(s, f)}))
  BY GiveBackStore DEF Less
<1>2. Store(qbuf(c, {Buffer(s, f)}), Less(E, s, f), N \ {Buffer(s, f)})
  BY <1>1, StoreApart
<1> QED
  BY <1>1, <1>2 DEF Takes1

LEMMA TakesKeeps ==
    ASSUME NEW c, NEW d, NEW e, NEW E, NEW N, NEW s, NEW f, Keeps(c, d, E, N), Takes1(d, e, E, N, s, f)
    PROVE  Takes1(c, e, E, N, s, f)
BY DEF Keeps, Takes1, SameFlags

LEMMA KeepsTakes ==
    ASSUME NEW c, NEW d, NEW e, NEW E, NEW N, NEW s, NEW f, Takes1(c, d, E, N, s, f),
           Keeps(d, e, Less(E, s, f), N \ {Buffer(s, f)})
    PROVE  Takes1(c, e, E, N, s, f)
BY DEF Keeps, Takes1, SameFlags

LEMMA AddToStore ==
    ASSUME NEW c0, NEW E \in Counts, NEW N, Store(c0, E, N), NEW i \in DOMAIN c0.queue,
           NEW s \in Streams, NEW f \in Frames \ {0}, E[s][f] > 0, s \in attr.streams, Buffer(s, f) \in N
    PROVE  Takes1(c0, AddTo(c0, i, s, f), E, N, s, f)
<1> DEFINE c == [c0 EXCEPT !.nomatch_frame_id = 0]
           node == [c.queue[i] EXCEPT !.super_buf[s] = f]
           q == [c.queue EXCEPT ![i] = node]
           d == [c EXCEPT !.queue[i].super_buf[s] = f]
           before == {j \in Older(c, f) : j < i}
           older == FirstOf(before)
<1>1. SameStore(c0, c) /\ SameFlags(c0, c)
  BY DEF Store, StoreTypes, SameStore, SameFlags, Chan, Fields
<1>2. AddTo(c0, i, s, f) =
          IF c.queue[i].super_buf[s] # 0 THEN qbuf(c, {Buffer(s, f)})
          ELSE IF \A t \in attr.streams : d.queue[i].super_buf[t] # 0 THEN Complete(d, i, f, older)
          ELSE Spare(d, i, f)
  BY DEF AddTo
<1>3. Keeps(c0, c, E, N) /\ c.queue = c0.queue
  BY <1>1, KeepsFields DEF Keeps, SameStore
<1> HIDE DEF c
<1>4. Store(c, E, N) /\ i \in DOMAIN c.queue
  BY <1>3 DEF Keeps
<1>5. c.queue \in Seq(Node) /\ DOMAIN c.queue = 1 .. Len(c.queue) /\ c.queue[i] \in Node
  BY <1>4 DEF Store, StoreTypes
<1>6. /\ Chan(d) /\ d.queue = q /\ d.up = c.up /\ d.buf_refcnt = c.buf_refcnt
      /\ d.match_cnt = c.match_cnt /\ SameFlags(c, d)
  BY <1>4 DEF Store, StoreTypes, Chan, Fields, SameFlags
<1>7. /\ node \in Node /\ node.super_buf[s] = f
      /\ \A t \in Streams : t # s => node.super_buf[t] = c.queue[i].super_buf[t]
  BY <1>5 DEF Node
<1> HIDE DEF node
<1>8. /\ q \in Seq(Node) /\ Len(q) = Len(c.queue) /\ DOMAIN q = DOMAIN c.queue
      /\ q[i] = node /\ \A k \in DOMAIN c.queue : k # i => q[k] = c.queue[k]
  BY <1>4, <1>5, <1>7, Replaced
<1> HIDE DEF q, d
<1>9. StoreTypes(d)
  BY <1>4, <1>6, <1>8 DEF Store, StoreTypes
<1>10. ASSUME c.queue[i].super_buf[s] = 0 PROVE Takes1(c, d, E, N, s, f)
  <2> DEFINE old == [k \in DOMAIN d.queue |-> k]
  <2>1. \A k \in DOMAIN d.queue : \A t \in Streams : \A g \in Frames \ {0} :
            InQueue(d, k, t, g) <=>
                (k = i /\ t = s /\ g = f) \/ (old[k] \in DOMAIN c.queue /\ InQueue(c, old[k], t, g))
    <3> TAKE k \in DOMAIN d.queue
    <3> TAKE t \in Streams
    <3> TAKE g \in Frames \ {0}
    <3>1. old[k] = k /\ k \in DOMAIN c.queue
      BY <1>6, <1>8
    <3>2. CASE k = i /\ t = s
      BY <3>1, <3>2, <1>6, <1>7, <1>8, <1>10 DEF InQueue
    <3>3. CASE k = i /\ t # s
      BY <3>1, <3>3, <1>6, <1>7, <1>8 DEF InQueue
    <3>4. CASE k # i
      BY <3>1, <3>4, <1>6, <1>8 DEF InQueue
    <3> QED
      BY <3>2, <3>3, <3>4
  <2>2. \A k, l \in DOMAIN d.queue : old[k] \in DOMAIN c.queue /\ old[k] = old[l] => k = l
    OBVIOUS
  <2>3. \A m \in DOMAIN c.queue : \E k \in DOMAIN d.queue : old[k] = m
    BY <1>6, <1>8
  <2>4. i \in DOMAIN d.queue /\ d.buf_refcnt = c.buf_refcnt /\ d.up = c.up
    BY <1>4, <1>6, <1>8
  <2> HIDE DEF old
  <2>5. Placed(c, d, i, old, s, f)
    BY <2>1, <2>2, <2>3, <2>4 DEF Placed
  <2>6. Store(d, Less(E, s, f), N \ {Buffer(s, f)})
    BY <1>4, <1>9, <2>5, PlaceStore
  <2> QED
    BY <1>6, <2>6 DEF Takes1
<1>11. Less(E, s, f) \in Counts
  BY LessCounts
<1>12. older # <<>> => older[1] \in DOMAIN d.queue /\ older[1] < i
  <2>1. before \in SUBSET Nat /\ before \subseteq {j \in DOMAIN c.queue : j < i}
    BY <1>5 DEF Older, Unmatched
  <2> HIDE DEF before
  <2>2. older # <<>> => older[1] \in before
    BY <2>1, FirstIn
  <2> QED
    BY <2>1, <2>2, <1>6, <1>8
<1> HIDE DEF older, before
<1>13. CASE c.queue[i].super_buf[s] # 0
  <2>1. Takes1(c, qbuf(c, {Buffer(s, f)}), E, N, s, f)
    BY <1>4, TakesBack
  <2> QED
    BY <1>2, <1>3, <1>13, <2>1, TakesKeeps
<1>14. CASE c.queue[i].super_buf[s] = 0
  <2>1. Takes1(c, d, E, N, s, f)
    BY <1>10, <1>14
  <2>2. Store(d, Less(E, s, f), N \ {Buffer(s, f)}) /\ i \in DOMAIN d.queue
    BY <2>1, <1>4, <1>6, <1>8 DEF Takes1
  <2>3. Keeps(d, Complete(d, i, f, older), Less(E, s, f), N \ {Buffer(s, f)})
    BY <2>2, <1>11, <1>12, CompleteKeeps
  <2>4. Keeps(d, Spare(d, i, f), Less(E, s, f), N \ {Buffer(s, f)})
    BY <2>2, SpareKeeps
  <2>5. Takes1(c0, d, E, N, s, f)
    BY <2>1, <1>3, TakesKeeps
  <2>6. AddTo(c0, i, s, f) = Complete(d, i, f, older) \/ AddTo(c0, i, s, f) = Spare(d, i, f)
    BY <1>2, <1>14
  <2> QED
    BY <2>3, <2>4, <2>5, <2>6, KeepsTakes
<1> QED
  BY <1>13, <1>14

LEMMA MakeRoomKeeps ==
    ASSUME NEW c, NEW E \in Counts, NEW N, Store(c, E, N), NEW older, NEW newer,
           older = <<>> \/ older[1] \in DOMAIN c.queue,
           older = <<>> => ~(Cardinality(Unmatched(c.queue)) > attr.max_unmatched_frames)
    PROVE  Keeps(c, MakeRoom(c, older, newer), E, N)
<1> DEFINE surplus == Cardinality(Unmatched(c.queue)) > attr.max_unmatched_frames
           free == {i \in DOMAIN c.queue : i >= older[1] /\ ~c.queue[i].expected /\ (newer = <<>> \/ i # newer[1])}
           victim == IF free = {} THEN older[1] ELSE Min(free)
           e == Discard(c, victim, victim)
           d == [e EXCEPT !.hangs = @ \/ Cardinality(Unmatched(c.queue)) > attr.max_unmatched_frames + 1]
<1>1. MakeRoom(c, older, newer) = IF ~surplus THEN c ELSE d
  BY DEF MakeRoom
<1>2. CASE ~surplus
  BY <1>1, <1>2, KeepsSelf
<1>3. CASE surplus
  <2>1. older[1] \in DOMAIN c.queue
    BY <1>3
  <2>2. DOMAIN c.queue = 1 .. Len(c.queue) /\ Len(c.queue) \in Nat
    BY DEF Store, StoreTypes
  <2>3. free \in SUBSET Nat /\ free \subseteq DOMAIN c.queue
    BY <2>2
  <2> HIDE DEF free
  <2>4. victim \in DOMAIN c.queue
    BY <2>1, <2>3, MinNat
  <2> HIDE DEF victim
  <2>5. victim \in Nat \ {0} /\ victim \in Nat /\ victim <= victim + 1 /\ victim <= Len(c.queue)
    BY <2>2, <2>4
  <2>6. Keeps(c, e, E, N)
    BY <2>5, DiscardStore DEF Keeps
  <2> HIDE DEF e
  <2>7. SameStore(e, d) /\ SameFlags(e, d)
    BY <2>6 DEF Keeps, Store, StoreTypes, SameStore, SameFlags, Chan, Fields
  <2> HIDE DEF d
  <2>8. Keeps(e, d, E, N)
    BY <2>6, <2>7, KeepsFields DEF Keeps
  <2> QED
    BY <1>1, <1>3, <2>6, <2>8, KeepsTwice
<1> QED
  BY <1>2, <1>3

LEMMA NewNodeStore ==
    ASSUME NEW c, NEW E \in Counts, NEW N, Store(c, E, N),
           NEW s \in Streams, NEW f \in Frames \ {0}, E[s][f] > 0, s \in attr.streams, Buffer(s, f) \in N
    PROVE  Takes1(c, NewNode(c, s, f), E, N, s, f)
<1> DEFINE node == [EmptyNode EXCEPT !.frame_idx = f, !.super_buf[s] = f]
           newer == FirstOf(Newer(c, f))
           at == IF newer = <<>> THEN Len(c.queue) + 1 ELSE newer[1]
           p == [c EXCEPT !.queue = InsertAt(@, at, node)]
           q == InsertAt(c.queue, at, node)
           d == Spare(p, at, f)
           full == [d EXCEPT !.queue[at].matched = TRUE, !.queue[at].expected = FALSE, !.match_cnt = @ + 1]
           last1 == [d EXCEPT !.queue[at].matched = TRUE, !.queue[at].expected = FALSE,
                              !.match_cnt = @ + 1, !.expected_frame_id = f + attr.post_frame_skip]
           e == IF attr.streams = {s} THEN last1 ELSE d
           g == [e EXCEPT !.nomatch_frame_id = f]
<1>1. NewNode(c, s, f) = IF attr.priority = "LOW" /\ s # Meta THEN g ELSE e
  BY DEF NewNode
<1>2. c.queue \in Seq(Node) /\ DOMAIN c.queue = 1 .. Len(c.queue) /\ Len(c.queue) \in Nat
  BY DEF Store, StoreTypes
<1>3. node \in Node /\ node.super_buf[s] = f /\ \A t \in Streams : t # s => node.super_buf[t] = 0
  <2>1. 0 \in Frames /\ f \in Frames /\ f \in Int
    BY ProfilesAssumption DEF Frames
  <2> QED
    BY <2>1 DEF EmptyNode, Node
<1>4. at \in 1 .. Len(c.queue) + 1
  <2>1. Newer(c, f) \in SUBSET Nat /\ Newer(c, f) \subseteq DOMAIN c.queue
    BY <1>2 DEF Newer, Unmatched
  <2>2. newer # <<>> => newer[1] \in DOMAIN c.queue
    BY <2>1, FirstIn
  <2> HIDE DEF newer
  <2> QED
    BY <1>2, <2>2
<1> HIDE DEF node, at, newer
<1>5. /\ Chan(p) /\ p.queue = q /\ p.up = c.up /\ p.buf_refcnt = c.buf_refcnt
      /\ p.match_cnt = c.match_cnt /\ SameFlags(c, p)
  BY DEF Store, StoreTypes, Chan, Fields, SameFlags
<1>6. /\ q \in Seq(Node) /\ Len(q) = Len(c.queue) + 1 /\ q[at] = node
      /\ \A k \in 1 .. at - 1 : q[k] = c.queue[k]
      /\ \A k \in at + 1 .. Len(q) : q[k] = c.queue[k - 1]
  BY <1>2, <1>3, <1>4, Inserted
<1> HIDE DEF p, q
<1>7. StoreTypes(p)
  BY <1>5, <1>6 DEF Store, StoreTypes
<1>8. DOMAIN p.queue = 1 .. Len(c.queue) + 1 /\ at \in DOMAIN p.queue
  BY <1>2, <1>4, <1>5, <1>6
<1>9. Takes1(c, p, E, N, s, f)
  <2> DEFINE old == [k \in DOMAIN p.queue |-> IF k < at THEN k ELSE IF k = at THEN -1 ELSE k - 1]
  <2>1. \A k \in DOMAIN p.queue : old[k] = IF k < at THEN k ELSE IF k = at THEN -1 ELSE k - 1
    BY <1>4, <1>8
  <2> HIDE DEF old
  <2>2. \A k \in DOMAIN p.queue : \A t \in Streams : \A h \in Frames \ {0} :
            InQueue(p, k, t, h) <=>
                (k = at /\ t = s /\ h = f) \/ (old[k] \in DOMAIN c.queue /\ InQueue(c, old[k], t, h))
    <3> TAKE k \in DOMAIN p.queue
    <3> TAKE t \in Streams
    <3> TAKE h \in Frames \ {0}
    <3>1. CASE k = at
      <4>1. old[k] \notin DOMAIN c.queue /\ p.queue[k] = node
        BY <3>1, <2>1, <1>2, <1>5, <1>6
      <4> QED
        BY <3>1, <4>1, <1>3 DEF InQueue
    <3>2. CASE k < at
      <4>1. old[k] = k /\ k \in DOMAIN c.queue /\ p.queue[k] = c.queue[k] /\ k # at
        BY <3>2, <2>1, <1>2, <1>4, <1>5, <1>6, <1>8
      <4> QED
        BY <4>1 DEF InQueue
    <3>3. CASE k > at
      <4>1. old[k] = k - 1 /\ k - 1 \in DOMAIN c.queue /\ p.queue[k] = c.queue[k - 1] /\ k # at
        BY <3>3, <2>1, <1>2, <1>4, <1>5, <1>6, <1>8
      <4> QED
        BY <4>1 DEF InQueue
    <3> QED
      BY <3>1, <3>2, <3>3, <1>4, <1>8
  <2>3. \A k, l \in DOMAIN p.queue : old[k] \in DOMAIN c.queue /\ old[k] = old[l] => k = l
    BY <2>1, <1>2, <1>4, <1>8
  <2>4. ASSUME NEW m \in DOMAIN c.queue PROVE \E k \in DOMAIN p.queue : old[k] = m
    <3>1. CASE m < at
      <4>1. m \in DOMAIN p.queue /\ old[m] = m
        BY <3>1, <2>1, <1>2, <1>8
      <4> QED
        BY <4>1
    <3>2. CASE m >= at
      <4>1. m + 1 \in DOMAIN p.queue /\ old[m + 1] = m
        BY <3>2, <2>1, <1>2, <1>4, <1>8
      <4> QED
        BY <4>1
    <3> QED
      BY <3>1, <3>2, <1>2, <1>4
  <2>5. \A m \in DOMAIN c.queue : \E k \in DOMAIN p.queue : old[k] = m
    BY <2>4
  <2>6. p.buf_refcnt = c.buf_refcnt /\ p.up = c.up
    BY <1>5
  <2>7. at \in DOMAIN p.queue
    BY <1>8
  <2>8. Placed(c, p, at, old, s, f)
    BY <2>2, <2>3, <2>5, <2>6, <2>7 DEF Placed
  <2>9. Store(p, Less(E, s, f), N \ {Buffer(s, f)})
    BY <1>7, <2>8, PlaceStore
  <2> QED
    BY <1>5, <2>9 DEF Takes1
<1> DEFINE L == Less(E, s, f)
           M == N \ {Buffer(s, f)}
<1>10. L \in Counts
  BY LessCounts
<1>11. Store(p, L, M)
  BY <1>9 DEF Takes1
<1> HIDE DEF L, M
<1>12. Keeps(p, d, L, M) /\ Len(d.queue) = Len(p.queue)
  BY <1>8, <1>11, SpareKeeps
<1>13. at \in DOMAIN d.queue /\ Store(d, L, M)
  BY <1>8, <1>12 DEF Keeps, Store, StoreTypes
<1> HIDE DEF d
<1>14. Keeps(d, full, L, M)
  BY <1>13, MarkKeeps
<1>15. SameStore(full, last1) /\ SameFlags(full, last1)
  BY <1>13 DEF Store, StoreTypes, SameStore, SameFlags, Chan, Fields
<1>16. Keeps(d, last1, L, M)
  <2> HIDE DEF full, last1
  <2>1. Keeps(full, last1, L, M)
    BY <1>14, <1>15, KeepsFields DEF Keeps
  <2> QED
    BY <1>14, <2>1, KeepsTwice
<1> HIDE DEF last1
<1>17. Keeps(d, e, L, M)
  BY <1>13, <1>16, KeepsSelf
<1> HIDE DEF e
<1>18. SameStore(e, g) /\ SameFlags(e, g)
  BY <1>17 DEF Keeps, Store, StoreTypes, SameStore, SameFlags, Chan, Fields
<1> HIDE DEF g
<1>19. Keeps(e, g, L, M)
  BY <1>17, <1>18, KeepsFields DEF Keeps
<1>20. Keeps(p, e, L, M) /\ Keeps(p, g, L, M)
  BY <1>12, <1>17, <1>19, KeepsTwice
<1>21. Takes1(c, e, E, N, s, f) /\ Takes1(c, g, E, N, s, f)
  BY <1>9, <1>20, KeepsTakes DEF L, M
<1> QED
  BY <1>1, <1>21

LEMMA EnqueueStore ==
    ASSUME NEW c, NEW E \in Counts, NEW N, Store(c, E, N),
           NEW s \in Streams, NEW f \in Frames \ {0}, E[s][f] > 0, s \in attr.streams, Buffer(s, f) \in N
    PROVE  Takes1(c, Enqueue(c, s, f), E, N, s, f)
<1> DEFINE takers == {i \in DOMAIN c.queue : Takes(c, c.queue[i], s, f)}
           taker == FirstOf(takers)
           older == FirstOf(Older(c, f))
           room == MakeRoom(c, older, FirstOf(Newer(c, f)))
<1>1. Enqueue(c, s, f) =
          IF taker # <<>> THEN AddTo(c, taker[1], s, f)
          ELSE IF older = <<>> /\ Cardinality(Unmatched(c.queue)) > attr.max_unmatched_frames
          THEN qbuf(c, {Buffer(s, f)})
          ELSE NewNode(room, s, f)
  BY DEF Enqueue
<1>2. DOMAIN c.queue = 1 .. Len(c.queue) /\ Len(c.queue) \in Nat
  BY DEF Store, StoreTypes
<1>3. taker # <<>> => taker[1] \in DOMAIN c.queue
  <2>1. takers \in SUBSET Nat /\ takers \subseteq DOMAIN c.queue
    BY <1>2
  <2> HIDE DEF takers
  <2> QED
    BY <2>1, FirstIn
<1>4. older # <<>> => older[1] \in DOMAIN c.queue
  <2>1. Older(c, f) \in SUBSET Nat /\ Older(c, f) \subseteq DOMAIN c.queue
    BY <1>2 DEF Older, Unmatched
  <2> QED
    BY <2>1, FirstIn
<1> HIDE DEF taker, older
<1>5. CASE taker # <<>>
  <2>1. taker[1] \in DOMAIN c.queue
    BY <1>3, <1>5
  <2>2. Takes1(c, AddTo(c, taker[1], s, f), E, N, s, f)
    BY <2>1, AddToStore
  <2> QED
    BY <1>1, <1>5, <2>2
<1>6. CASE taker = <<>> /\ older = <<>> /\ Cardinality(Unmatched(c.queue)) > attr.max_unmatched_frames
  <2>1. Takes1(c, qbuf(c, {Buffer(s, f)}), E, N, s, f)
    BY TakesBack
  <2> QED
    BY <1>1, <1>6, <2>1
<1>7. CASE taker = <<>> /\ ~(older = <<>> /\ Cardinality(Unmatched(c.queue)) > attr.max_unmatched_frames)
  <2>1. older = <<>> \/ older[1] \in DOMAIN c.queue
    BY <1>4
  <2>2. older = <<>> => ~(Cardinality(Unmatched(c.queue)) > attr.max_unmatched_frames)
    BY <1>7
  <2>3. Keeps(c, room, E, N)
    BY <2>1, <2>2, MakeRoomKeeps
  <2> HIDE DEF room
  <2>4. Takes1(room, NewNode(room, s, f), E, N, s, f)
    BY <2>3, NewNodeStore DEF Keeps
  <2>5. Takes1(c, NewNode(room, s, f), E, N, s, f)
    BY <2>3, <2>4, TakesKeeps
  <2> QED
    BY <1>1, <1>7, <2>5
<1> QED
  BY <1>5, <1>6, <1>7

LEMMA EnqueueData ==
    ASSUME NEW c, NEW m, NEW E \in Counts, NEW N, Store(c, E, N), Mid(c),
           NEW s \in Streams, NEW f \in Frames \ {0}, E[s][f] > 0, s \in attr.streams, Buffer(s, f) \in N
    PROVE  LET d == superbuf_comp_and_enqueue(c, s, f, m)
           IN Store(d, Less(E, s, f), N \ {Buffer(s, f)}) /\ Mid(d) /\ d.pending_cnt = c.pending_cnt
<1> DEFINE h == IF s = Meta /\ s \notin attr.linked THEN handle_metadata(c, f, m) ELSE c
           d == superbuf_comp_and_enqueue(c, s, f, m)
<1>1. Store(h, E, N) /\ Mid(h) /\ h.pending_cnt = c.pending_cnt
  BY MetadataKeeps
<1>2. d = qbuf(h, {Buffer(s, f)}) \/ d = Enqueue(h, s, f)
  BY DEF superbuf_comp_and_enqueue
<1> HIDE DEF h, d
<1>3. Takes1(h, qbuf(h, {Buffer(s, f)}), E, N, s, f)
  BY <1>1, TakesBack
<1>4. Takes1(h, Enqueue(h, s, f), E, N, s, f)
  BY <1>1, EnqueueStore
<1>5. Takes1(h, d, E, N, s, f)
  BY <1>2, <1>3, <1>4
<1>6. SameFlags(h, d) /\ Store(d, Less(E, s, f), N \ {Buffer(s, f)})
  BY <1>5 DEF Takes1
<1>7. Mid(d) /\ d.pending_cnt = c.pending_cnt
  BY <1>1, <1>6, MidKept DEF SameFlags
<1> QED
  BY <1>6, <1>7 DEF d

-----------------------------------------------------------------------------
(* The commands of the HAL. *)
LEMMA RequestKeeps ==
    ASSUME NEW c, NEW num \in Nat, NEW retro \in Nat, NEW E \in Counts, NEW N, Store(c, E, N), Owned(c),
           attr \in Profiles
    PROVE  LET d == Request(c, num, retro) IN Store(d, E, N) /\ Mid(d) /\ d.pending_cnt = num
<1> DEFINE r == IF num = 0 \/ retro > num THEN num ELSE retro
           e == [c EXCEPT !.pending_cnt = num, !.pending_retro_cnt = r, !.stopZslSnapshot = FALSE,
                          !.bWaitForPrepSnapshotDone = FALSE, !.needLEDFlash = @ /\ r = 0]
<1>1. Request(c, num, retro) = superbuf_skip(e)
  BY DEF Request
<1> HIDE DEF r
<1>2. /\ SameStore(c, e) /\ e.pending_cnt = num /\ e.manualZSLSnapshot = c.manualZSLSnapshot
      /\ e.startZSlSnapshotCalled = c.startZSlSnapshotCalled /\ e.burstSnapNum = c.burstSnapNum
      /\ e.stopZslSnapshot = FALSE /\ e.zsl = c.zsl
  BY DEF Store, StoreTypes, SameStore, Chan, Fields
<1> HIDE DEF e
<1>3. Store(e, E, N)
  BY <1>2, KeepsFields
<1>4. Mid(e)
  BY <1>2 DEF Owned, Mid, Flags
<1>5. Store(superbuf_skip(e), E, N) /\ SameFlags(e, superbuf_skip(e))
  BY <1>3, OverflowStore
<1>6. Mid(superbuf_skip(e)) /\ superbuf_skip(e).pending_cnt = num
  BY <1>2, <1>4, <1>5, MidKept DEF SameFlags
<1> QED
  BY <1>1, <1>5, <1>6

LEMMA ManualKeeps ==
    ASSUME NEW c, NEW E \in Counts, NEW N, Store(c, E, N), Owned(c)
    PROVE  /\ LET d == [StartZsl(c) EXCEPT !.manualZSLSnapshot = TRUE]
              IN Store(d, E, N) /\ Mid(d) /\ d.pending_cnt = c.pending_cnt
           /\ c.pending_cnt = 0 =>
              LET d == [StopZsl(c) EXCEPT !.manualZSLSnapshot = FALSE]
              IN Store(d, E, N) /\ Mid(d) /\ d.pending_cnt = c.pending_cnt
<1> DEFINE d == [StartZsl(c) EXCEPT !.manualZSLSnapshot = TRUE]
           e == [StopZsl(c) EXCEPT !.manualZSLSnapshot = FALSE]
<1>1. /\ SameStore(c, d) /\ d.pending_cnt = c.pending_cnt /\ d.manualZSLSnapshot = TRUE
      /\ d.startZSlSnapshotCalled = c.startZSlSnapshotCalled /\ d.burstSnapNum = c.burstSnapNum
      /\ d.stopZslSnapshot = c.stopZslSnapshot /\ d.zsl = TRUE
  BY DEF Store, StoreTypes, SameStore, Chan, Fields, StartZsl
<1>2. /\ SameStore(c, e) /\ e.pending_cnt = c.pending_cnt /\ e.manualZSLSnapshot = FALSE
      /\ e.startZSlSnapshotCalled = c.startZSlSnapshotCalled /\ e.burstSnapNum = c.burstSnapNum
      /\ e.stopZslSnapshot = c.stopZslSnapshot /\ e.zsl = FALSE
  BY DEF Store, StoreTypes, SameStore, Chan, Fields, StopZsl
<1> HIDE DEF d, e
<1>3. Store(d, E, N) /\ Store(e, E, N)
  BY <1>1, <1>2, KeepsFields
<1>4. Mid(d)
  BY <1>1 DEF Owned, Mid, Flags
<1>5. c.pending_cnt = 0 => Mid(e)
  BY <1>2 DEF Owned, Mid, Flags
<1> QED
  BY <1>1, <1>2, <1>3, <1>4, <1>5 DEF d, e

(* The bracketings flush the queue. *)
LEMMA FlushesKeep ==
    ASSUME NEW c, NEW a, NEW E \in Counts, NEW N, Store(c, E, N)
    PROVE  /\ Keeps(c, Bracketing(c, a), E, N) /\ Keeps(c, FlashBracketing(c, a), E, N)
           /\ Keeps(c, ZoomOneX(c, a), E, N)
           /\ Keeps(c, superbuf_flush([c EXCEPT !.expected_frame_id = a]), E, N)
<1> DEFINE e == superbuf_flush(c)
           d1 == [e EXCEPT !.bracketingState = IF a THEN "WAIT_GOOD_FRAME_IDX" ELSE "OFF"]
           d2 == [e EXCEPT !.isFlashBracketingEnabled = a]
           d3 == [e EXCEPT !.isZoom1xFrameRequested = a]
           g == [c EXCEPT !.expected_frame_id = a]
<1>1. Keeps(c, e, E, N)
  BY FlushStore DEF Keeps
<1>2. Bracketing(c, a) = d1 /\ FlashBracketing(c, a) = d2 /\ ZoomOneX(c, a) = d3
  BY DEF Bracketing, FlashBracketing, ZoomOneX
<1> HIDE DEF e
<1>3. SameStore(e, d1) /\ SameFlags(e, d1)
  BY <1>1 DEF Keeps, Store, StoreTypes, SameStore, SameFlags, Chan, Fields
<1>4. SameStore(e, d2) /\ SameFlags(e, d2)
  BY <1>1 DEF Keeps, Store, StoreTypes, SameStore, SameFlags, Chan, Fields
<1>5. SameStore(e, d3) /\ SameFlags(e, d3)
  BY <1>1 DEF Keeps, Store, StoreTypes, SameStore, SameFlags, Chan, Fields
<1>6. SameStore(c, g) /\ SameFlags(c, g)
  BY DEF Store, StoreTypes, SameStore, SameFlags, Chan, Fields
<1> HIDE DEF d1, d2, d3, g
<1>7. Keeps(e, d1, E, N) /\ Keeps(e, d2, E, N) /\ Keeps(e, d3, E, N)
  BY <1>1, <1>3, <1>4, <1>5, KeepsFields DEF Keeps
<1>8. Keeps(c, d1, E, N) /\ Keeps(c, d2, E, N) /\ Keeps(c, d3, E, N)
  BY <1>1, <1>7, KeepsTwice
<1>9. Keeps(c, g, E, N)
  BY <1>6, KeepsFields DEF Keeps
<1>10. Keeps(g, superbuf_flush(g), E, N)
  BY <1>9, FlushStore DEF Keeps
<1>11. Keeps(c, superbuf_flush(g), E, N)
  BY <1>9, <1>10, KeepsTwice
<1> QED
  BY <1>2, <1>8, <1>11 DEF g

(* A command of the HAL is carried out. *)
LEMMA ExecuteKeeps ==
    ASSUME NEW c, NEW cmd \in HalCommands, NEW m, NEW E \in Counts, NEW N, Store(c, E, N), Owned(c),
           attr \in Profiles, cmd.type = "STOP_ZSL" => c.pending_cnt = 0
    PROVE  LET d == Execute(c, cmd, m)
           IN /\ Store(d, E, N) /\ Mid(d)
              /\ cmd.type = "FLUSH_QUEUE" => SameFlags(c, d)
              /\ cmd.type = "STOP_ZSL" \/ Cancels(cmd) => d.pending_cnt = 0
<1> DEFINE d == Execute(c, cmd, m)
<1>1. Mid(c)
  BY DEF Owned, Mid
<1>2. CASE cmd.type = "REQ_DATA_CB"
  <2>1. d = Request(c, cmd.arg[1], cmd.arg[2])
    BY <1>2 DEF Execute
  <2>2. cmd.arg[1] \in Nat /\ cmd.arg[2] \in Nat
    BY <1>2 DEF HalCommands
  <2> HIDE DEF d
  <2>3. Store(d, E, N) /\ Mid(d) /\ d.pending_cnt = cmd.arg[1]
    BY <2>1, <2>2, RequestKeeps
  <2>4. Cancels(cmd) => cmd.arg[1] = 0
    BY DEF Cancels
  <2> QED
    BY <1>2, <2>3, <2>4 DEF d
<1>3. CASE cmd.type = "START_ZSL"
  <2>1. d = [StartZsl(c) EXCEPT !.manualZSLSnapshot = TRUE]
    BY <1>3 DEF Execute
  <2> HIDE DEF d
  <2>2. Store(d, E, N) /\ Mid(d)
    BY <2>1, ManualKeeps
  <2> QED
    BY <1>3, <2>2 DEF d, Cancels
<1>4. CASE cmd.type = "STOP_ZSL"
  <2>1. d = [StopZsl(c) EXCEPT !.manualZSLSnapshot = FALSE]
    BY <1>4 DEF Execute
  <2> HIDE DEF d
  <2>2. Store(d, E, N) /\ Mid(d) /\ d.pending_cnt = 0
    BY <1>4, <2>1, ManualKeeps
  <2> QED
    BY <1>4, <2>2 DEF d
<1>5. CASE cmd.type = "FLUSH_QUEUE"
  <2>1. d = superbuf_flush([c EXCEPT !.expected_frame_id = cmd.arg])
    BY <1>5 DEF Execute
  <2> HIDE DEF d
  <2>2. Keeps(c, d, E, N)
    BY <2>1, FlushesKeep
  <2> QED
    BY <1>1, <1>5, <2>2, MidKept DEF d, Keeps, Cancels
<1>6. CASE cmd.type \in {"BRACKETING", "FLASH_BRACKETING", "ZOOM_1X"}
  <2>1. d = Bracketing(c, cmd.arg) \/ d = FlashBracketing(c, cmd.arg) \/ d = ZoomOneX(c, cmd.arg)
    <3>1. CASE cmd.type = "BRACKETING"
      BY <3>1 DEF Execute
    <3>2. CASE cmd.type = "FLASH_BRACKETING"
      BY <3>2 DEF Execute
    <3>3. CASE cmd.type = "ZOOM_1X"
      BY <3>3 DEF Execute
    <3> QED
      BY <1>6, <3>1, <3>2, <3>3
  <2> HIDE DEF d
  <2>2. Keeps(c, d, E, N)
    BY <2>1, FlushesKeep
  <2> QED
    BY <1>1, <1>6, <2>2, MidKept DEF d, Keeps, Cancels
<1>7. cmd.type \in {"REQ_DATA_CB", "START_ZSL", "STOP_ZSL", "FLUSH_QUEUE", "BRACKETING", "FLASH_BRACKETING", "ZOOM_1X"}
  BY DEF HalCommands
<1> QED
  BY <1>2, <1>3, <1>4, <1>5, <1>6, <1>7

-----------------------------------------------------------------------------
(* The end of a command: the flash, and what is handed up. *)

(* The end of the snapshot mode leaves it without owner. *)
LEMMA EndZslOwned ==
    ASSUME NEW c, NEW d, Chan(c), Mid(c), Ended(c), SameStore(c, d), d.pending_cnt = c.pending_cnt,
           d.manualZSLSnapshot = c.manualZSLSnapshot, d.startZSlSnapshotCalled = FALSE,
           d.burstSnapNum = 0, d.stopZslSnapshot = FALSE, d.zsl = FALSE
    PROVE  Owned(d)
<1>1. c.pending_cnt \in Nat /\ c.manualZSLSnapshot \in BOOLEAN
  BY DEF Mid, Flags
<1>2. Flags(d)
  <2>1. d.pending_cnt \in Nat /\ d.burstSnapNum \in Nat
    BY <1>1
  <2>2. d.manualZSLSnapshot \in BOOLEAN
    BY <1>1, Zenon
  <2>3. d.startZSlSnapshotCalled \in BOOLEAN /\ d.stopZslSnapshot \in BOOLEAN /\ d.zsl \in BOOLEAN
    OBVIOUS
  <2>4. (d.burstSnapNum # 0 => d.startZSlSnapshotCalled) /\ (d.stopZslSnapshot => d.startZSlSnapshotCalled)
    OBVIOUS
  <2> QED
    BY <2>1, <2>2, <2>3, <2>4 DEF Flags
<1>3. d.zsl = d.startZSlSnapshotCalled /\ ~d.zsl
  OBVIOUS
<1> QED
  BY <1>2, <1>3 DEF Owned

LEMMA EndZslFields ==
    ASSUME NEW c, Chan(c)
    PROVE  LET d == EndZsl(c)
           IN /\ SameStore(c, d) /\ d.pending_cnt = c.pending_cnt
              /\ d.manualZSLSnapshot = c.manualZSLSnapshot /\ d.startZSlSnapshotCalled = FALSE
              /\ d.burstSnapNum = 0 /\ d.stopZslSnapshot = FALSE /\ d.zsl = FALSE
BY DEF EndZsl, StopZsl, SameStore, Chan, Fields

LEMMA FlashOwned ==
    ASSUME NEW c, NEW E, NEW N, Store(c, E, N), Mid(c)
    PROVE  LET d == FlashControl(c) IN Store(d, E, N) /\ Owned(d) /\ d.pending_cnt = c.pending_cnt
<1> DEFINE starts == /\ c.pending_cnt > 0 /\ (c.needLEDFlash \/ c.bracketingState # "OFF")
                     /\ ~c.manualZSLSnapshot /\ ~c.startZSlSnapshotCalled
           on == [StartZsl(c) EXCEPT !.startZSlSnapshotCalled = TRUE, !.burstSnapNum = c.pending_cnt,
                                     !.bWaitForPrepSnapshotDone = FALSE]
           z == EndZsl(c)
           off == [z EXCEPT !.bWaitForPrepSnapshotDone = FALSE]
<1>1. Chan(c)
  BY DEF Store, StoreTypes
<1>2. CASE starts
  <2>1. /\ SameStore(c, on) /\ on.pending_cnt = c.pending_cnt /\ on.manualZSLSnapshot = c.manualZSLSnapshot
        /\ on.startZSlSnapshotCalled = TRUE /\ on.burstSnapNum = c.pending_cnt
        /\ on.stopZslSnapshot = c.stopZslSnapshot /\ on.zsl = TRUE
    BY <1>1 DEF StartZsl, SameStore, Chan, Fields
  <2>2. ~Ended(c)
    BY <1>2 DEF Ended
  <2>3. FlashControl(c) = on
    BY <1>2, <2>2 DEF FlashControl
  <2> HIDE DEF on
  <2>4. Store(on, E, N)
    BY <2>1, KeepsFields
  <2>5. Owned(on)
    BY <1>2, <2>1 DEF Mid, Owned, Flags
  <2> QED
    BY <2>1, <2>3, <2>4, <2>5
<1>3. CASE ~starts /\ Ended(c)
  <2>1. FlashControl(c) = off
    BY <1>3 DEF FlashControl
  <2>2. /\ SameStore(c, z) /\ z.pending_cnt = c.pending_cnt
        /\ z.manualZSLSnapshot = c.manualZSLSnapshot /\ z.startZSlSnapshotCalled = FALSE
        /\ z.burstSnapNum = 0 /\ z.stopZslSnapshot = FALSE /\ z.zsl = FALSE
    BY <1>1, EndZslFields
  <2> HIDE DEF z
  <2>3. /\ SameStore(c, off) /\ off.pending_cnt = c.pending_cnt
        /\ off.manualZSLSnapshot = c.manualZSLSnapshot /\ off.startZSlSnapshotCalled = FALSE
        /\ off.burstSnapNum = 0 /\ off.stopZslSnapshot = FALSE /\ off.zsl = FALSE
    BY <2>2 DEF SameStore, Chan, Fields
  <2> HIDE DEF off
  <2>4. Owned(off)
    BY <1>1, <1>3, <2>3, EndZslOwned
  <2>5. Store(off, E, N)
    BY <2>3, KeepsFields
  <2> QED
    BY <2>1, <2>3, <2>4, <2>5
<1>4. CASE ~starts /\ ~Ended(c)
  <2>1. FlashControl(c) = c
    BY <1>4 DEF FlashControl
  <2>2. Owned(c)
    BY <1>4 DEF Ended, Mid, Owned, Flags
  <2> QED
    BY <2>1, <2>2
<1> QED
  BY <1>2, <1>3, <1>4

(* One super buffer less to come. *)
LEMMA CountDownOwned ==
    ASSUME NEW c, Chan(c), Owned(c), c.pending_cnt > 0
    PROVE  SameStore(c, CountDown(c)) /\ Owned(CountDown(c))
<1> DEFINE d == [c EXCEPT !.pending_cnt = @ - 1, !.pending_retro_cnt = IF @ > 0 THEN @ - 1 ELSE 0,
                          !.bWaitForPrepSnapshotDone = @ \/ c.pending_retro_cnt = 1]
<1>1. /\ SameStore(c, d) /\ d.pending_cnt = c.pending_cnt - 1 /\ d.manualZSLSnapshot = c.manualZSLSnapshot
      /\ d.startZSlSnapshotCalled = c.startZSlSnapshotCalled /\ d.burstSnapNum = c.burstSnapNum
      /\ d.stopZslSnapshot = c.stopZslSnapshot /\ d.zsl = c.zsl
  BY DEF SameStore, Chan, Fields
<1>2. CountDown(c) = IF Ended(d) THEN EndZsl(d) ELSE d
  BY DEF CountDown
<1> HIDE DEF d
<1>3. Mid(d)
  BY <1>1 DEF Owned, Mid, Flags
<1>4. CASE Ended(d)
  <2> DEFINE e == EndZsl(d)
  <2>1. /\ SameStore(d, e) /\ e.pending_cnt = d.pending_cnt
        /\ e.manualZSLSnapshot = d.manualZSLSnapshot /\ e.startZSlSnapshotCalled = FALSE
        /\ e.burstSnapNum = 0 /\ e.stopZslSnapshot = FALSE /\ e.zsl = FALSE
    BY <1>1, EndZslFields DEF SameStore
  <2> HIDE DEF e
  <2>2. Owned(e)
    BY <1>1, <1>3, <1>4, <2>1, EndZslOwned DEF SameStore
  <2>3. SameStore(c, e)
    BY <1>1, <2>1 DEF SameStore
  <2> QED
    BY <1>2, <1>4, <2>2, <2>3 DEF e
<1>5. CASE ~Ended(d)
  <2>1. Owned(d)
    BY <1>1, <1>3, <1>5 DEF Ended, Mid, Owned, Flags
  <2> QED
    BY <1>1, <1>2, <1>5, <2>1
<1> QED
  BY <1>4, <1>5

(* A super buffer goes from the head of the queue to those handed up. *)
LEMMA MoveStore ==
    ASSUME NEW c, NEW d, NEW E, NEW N, Store(c, E, N), c.queue # <<>>, Chan(d), d.match_cnt \in Int,
           d.queue = Tail(c.queue), d.up = Append(c.up, Head(c.queue).super_buf), d.buf_refcnt = c.buf_refcnt
    PROVE  Store(d, E, N)
<1> DEFINE n == Len(c.up) + 1
<1>1. c.queue \in Seq(Node) /\ c.up \in Seq([Streams -> Frames])
  BY DEF Store, StoreTypes
<1>2. /\ DOMAIN c.queue = 1 .. Len(c.queue) /\ Len(c.queue) \in Nat \ {0} /\ DOMAIN c.up = 1 .. Len(c.up)
      /\ Len(c.up) \in Nat /\ Head(c.queue) = c.queue[1] /\ c.queue[1] \in Node
  BY <1>1
<1>3. c.queue[1].super_buf \in [Streams -> Frames]
  BY <1>2 DEF Node
<1>4. /\ d.queue \in Seq(Node) /\ DOMAIN d.queue = 1 .. Len(c.queue) - 1
      /\ \A k \in DOMAIN d.queue : d.queue[k] = c.queue[k + 1]
  BY <1>1, <1>2
<1>5. /\ d.up \in Seq([Streams -> Frames]) /\ DOMAIN d.up = 1 .. n
      /\ \A k \in DOMAIN c.up : d.up[k] = c.up[k] /\ d.up[n] = c.queue[1].super_buf
  BY <1>1, <1>2, <1>3
<1>6. d.up[n] = c.queue[1].super_buf
  BY <1>1, <1>2, <1>3
<1>7. StoreTypes(d)
  BY <1>4, <1>5 DEF Store, StoreTypes
<1>8. \A k \in DOMAIN d.queue : k + 1 \in DOMAIN c.queue /\ k + 1 # 1 /\ \A s, f : InQueue(d, k, s, f) <=> InQueue(c, k + 1, s, f)
  BY <1>2, <1>4 DEF InQueue
<1>9. \A k \in DOMAIN c.up : \A s, f : InUp(d, k, s, f) <=> InUp(c, k, s, f)
  BY <1>5 DEF InUp
<1>10. \A s, f : InUp(d, n, s, f) <=> InQueue(c, 1, s, f)
  BY <1>6 DEF InUp, InQueue
<1>11. /\ \A k \in DOMAIN d.up : k \in DOMAIN c.up \/ k = n
       /\ \A k \in DOMAIN c.up : k \in DOMAIN d.up
       /\ n \in DOMAIN d.up /\ n \notin DOMAIN c.up /\ 1 \in DOMAIN c.queue
       /\ \A k \in DOMAIN c.queue : k = 1 \/ (k - 1 \in DOMAIN d.queue /\ (k - 1) + 1 = k)
  BY <1>2, <1>4, <1>5
<1>12. \A k, l \in DOMAIN d.queue : k + 1 = l + 1 => k = l
  BY <1>2, <1>4
<1> HIDE DEF n
<1>13. OneHolder(d)
  <2> SUFFICES ASSUME NEW t \in Streams, NEW g \in Frames \ {0}
               PROVE  /\ \A k, l \in DOMAIN d.queue : InQueue(d, k, t, g) /\ InQueue(d, l, t, g) => k = l
                      /\ \A k, l \in DOMAIN d.up : InUp(d, k, t, g) /\ InUp(d, l, t, g) => k = l
                      /\ \A k \in DOMAIN d.queue : \A l \in DOMAIN d.up : ~(InQueue(d, k, t, g) /\ InUp(d, l, t, g))
    BY DEF OneHolder
  <2>1. /\ \A k, l \in DOMAIN c.queue : InQueue(c, k, t, g) /\ InQueue(c, l, t, g) => k = l
        /\ \A k, l \in DOMAIN c.up : InUp(c, k, t, g) /\ InUp(c, l, t, g) => k = l
        /\ \A k \in DOMAIN c.queue : \A l \in DOMAIN c.up : ~(InQueue(c, k, t, g) /\ InUp(c, l, t, g))
    BY DEF Store, OneHolder
  <2>2. \A k, l \in DOMAIN d.queue : InQueue(d, k, t, g) /\ InQueue(d, l, t, g) => k = l
    BY <2>1, <1>8, <1>12
  <2>3. ASSUME NEW k \in DOMAIN d.up, NEW l \in DOMAIN d.up, InUp(d, k, t, g), InUp(d, l, t, g)
        PROVE  k = l
    BY <2>1, <2>3, <1>9, <1>10, <1>11
  <2>4. ASSUME NEW k \in DOMAIN d.queue, NEW l \in DOMAIN d.up, InQueue(d, k, t, g), InUp(d, l, t, g)
        PROVE  FALSE
    <3>1. InQueue(c, k + 1, t, g) /\ k + 1 \in DOMAIN c.queue /\ k + 1 # 1
      BY <2>4, <1>8
    <3> QED
      BY <3>1, <2>1, <2>4, <1>9, <1>10, <1>11
  <2> QED
    BY <2>2, <2>3, <2>4
<1>14. \A s \in Streams : \A f \in Frames \ {0} : Inside(d, s, f) <=> Inside(c, s, f)
  <2> TAKE s \in Streams
  <2> TAKE f \in Frames \ {0}
  <2>1. ASSUME Inside(d, s, f) PROVE Inside(c, s, f)
    <3>1. CASE \E k \in DOMAIN d.queue : InQueue(d, k, s, f)
      BY <3>1, <1>8 DEF Inside
    <3>2. CASE \E k \in DOMAIN d.up : InUp(d, k, s, f)
      BY <3>2, <1>9, <1>10, <1>11 DEF Inside
    <3> QED
      BY <2>1, <3>1, <3>2 DEF Inside
  <2>2. ASSUME Inside(c, s, f) PROVE Inside(d, s, f)
    <3>1. CASE \E k \in DOMAIN c.queue : InQueue(c, k, s, f)
      <4>1. PICK k \in DOMAIN c.queue : InQueue(c, k, s, f)
        BY <3>1
      <4>2. CASE k = 1
        BY <4>1, <4>2, <1>10, <1>11 DEF Inside
      <4>3. CASE k # 1
        <5>1. k - 1 \in DOMAIN d.queue /\ (k - 1) + 1 = k
          BY <4>3, <1>11
        <5>2. InQueue(d, k - 1, s, f)
          BY <4>1, <5>1, <1>8
        <5> QED
          BY <5>1, <5>2 DEF Inside
      <4> QED
        BY <4>2, <4>3
    <3>2. CASE \E k \in DOMAIN c.up : InUp(c, k, s, f)
      BY <3>2, <1>9, <1>11 DEF Inside
    <3> QED
      BY <2>2, <3>1, <3>2 DEF Inside
  <2> QED
    BY <2>1, <2>2
<1>15. Balanced(d, E) /\ Apart(d, N)
  BY <1>14 DEF Store, Balanced, Apart
<1> QED
  BY <1>7, <1>13, <1>15 DEF Store

(* What a turn of superbuf dispatch keeps. *)
Turned(c, E, N, z) == Store(c, E, N) /\ Owned(c) /\ (z => c.pending_cnt = 0)

LEMMA HandUpKeeps ==
    ASSUME NEW c, NEW E, NEW N, NEW z \in BOOLEAN, Turned(c, E, N, z), attr \in Profiles
    PROVE  Turned(HandUp(c), E, N, z)
<1> DEFINE d == IF attr.notify_mode = "BURST" THEN CountDown(c) ELSE c
           goes == /\ c.pending_cnt > 0 \/ attr.notify_mode = "CONTINUOUS"
                   /\ ~c.bWaitForPrepSnapshotDone /\ c.queue # <<>> /\ Head(c.queue).matched
           e == [d EXCEPT !.queue = Tail(@), !.match_cnt = @ - 1, !.up = Append(@, Head(c.queue).super_buf)]
<1>1. HandUp(c) = IF goes THEN e ELSE c
  BY DEF HandUp
<1>2. CASE ~goes
  BY <1>1, <1>2
<1>3. CASE goes
  <2>1. Chan(c) /\ c.match_cnt \in Int /\ Store(c, E, N) /\ Owned(c)
    BY DEF Turned, Store, StoreTypes
  <2>2. attr.notify_mode \in {"BURST", "CONTINUOUS"}
    BY AttrTypes
  <2>3. attr.notify_mode = "BURST" => c.pending_cnt > 0
    BY <1>3, <2>2
  <2>4. SameStore(c, d) /\ Owned(d)
    <3>1. CASE attr.notify_mode = "BURST"
      BY <2>1, <2>3, <3>1, CountDownOwned
    <3>2. CASE attr.notify_mode # "BURST"
      BY <2>1, <3>2 DEF SameStore
    <3> QED
      BY <3>1, <3>2
  <2>5. z => d.pending_cnt = 0
    <3>1. z => c.pending_cnt = 0
      BY DEF Turned
    <3>2. z => attr.notify_mode # "BURST"
      BY <2>3, <3>1
    <3> QED
      BY <3>1, <3>2
  <2> HIDE DEF d
  <2>6. /\ Chan(e) /\ e.queue = Tail(d.queue) /\ e.up = Append(d.up, Head(c.queue).super_buf)
        /\ e.buf_refcnt = d.buf_refcnt /\ e.match_cnt = d.match_cnt - 1 /\ SameFlags(d, e)
    BY <2>4 DEF SameStore, SameFlags, Chan, Fields
  <2> HIDE DEF e
  <2>7. Store(e, E, N)
    <3>1. c.queue # <<>>
      BY <1>3
    <3>2. e.queue = Tail(c.queue) /\ e.up = Append(c.up, Head(c.queue).super_buf)
          /\ e.buf_refcnt = c.buf_refcnt /\ e.match_cnt \in Int
      BY <2>1, <2>4, <2>6 DEF SameStore
    <3> QED
      BY <2>1, <2>6, <3>1, <3>2, MoveStore
  <2>8. Owned(e) /\ (z => e.pending_cnt = 0)
    BY <2>4, <2>5, <2>6, MidKept DEF SameFlags
  <2> QED
    BY <1>1, <1>3, <2>7, <2>8 DEF Turned
<1> QED
  BY <1>2, <1>3

(* The function of the turns exists, whatever a turn does. *)
Turns(c, g, n) == g = [k \in 0 .. n |-> IF k = 0 THEN c ELSE HandUp(g[k - 1])]

LEMMA TurnsExist ==
    ASSUME NEW c, NEW n \in Nat
    PROVE  \E g : Turns(c, g, n)
<1> DEFINE Bad == {k \in Nat : ~\E g : Turns(c, g, k)}
<1>1. Bad \in SUBSET Nat
  OBVIOUS
<1>2. \A k \in Nat : k \in Bad <=> ~\E g : Turns(c, g, k)
  OBVIOUS
<1> HIDE DEF Bad
<1>3. ASSUME Bad # {} PROVE FALSE
  <2>1. PICK k \in Bad : \A y \in Bad : k <= y
    BY <1>1, <1>3, MinNat
  <2>2. k \in Nat
    BY <1>1
  <2>3. CASE k = 0
    <3>1. Turns(c, [l \in 0 .. 0 |-> c], 0)
      BY DEF Turns
    <3> QED
      BY <3>1, <2>3, <1>2
  <2>4. CASE k # 0
    <3>1. k - 1 \in Nat /\ ~(k <= k - 1)
      BY <2>2, <2>4
    <3>2. k - 1 \notin Bad
      BY <2>1, <3>1
    <3>3. PICK g : Turns(c, g, k - 1)
      BY <3>1, <3>2, <1>2
    <3> DEFINE h == [l \in 0 .. k |-> IF l = k THEN HandUp(g[k - 1]) ELSE g[l]]
    <3>4. \A l \in 0 .. k - 1 : g[l] = IF l = 0 THEN c ELSE HandUp(g[l - 1])
      BY <3>3 DEF Turns
    <3>5. \A l \in 0 .. k : h[l] = IF l = k THEN HandUp(g[k - 1]) ELSE g[l]
      OBVIOUS
    <3>6. \A l \in 0 .. k : h[l] = IF l = 0 THEN c ELSE HandUp(h[l - 1])
      <4> TAKE l \in 0 .. k
      <4>1. CASE l = k
        <5>1. k - 1 \in 0 .. k /\ k - 1 # k
          BY <2>2, <3>1
        <5>2. h[k - 1] = g[k - 1]
          BY <3>5, <5>1
        <5> QED
          BY <4>1, <5>2, <3>5, <2>4
      <4>2. CASE l # k /\ l # 0
        <5>1. l - 1 \in 0 .. k /\ l - 1 # k /\ l \in 0 .. k - 1
          BY <4>2, <2>2
        <5>2. h[l - 1] = g[l - 1] /\ h[l] = g[l]
          BY <3>5, <4>2, <5>1
        <5> QED
          BY <4>2, <5>1, <5>2, <3>4
      <4>3. CASE l # k /\ l = 0
        <5>1. l \in 0 .. k - 1
          BY <4>3, <3>1
        <5> QED
          BY <4>3, <5>1, <3>4, <3>5
      <4> QED
        BY <4>1, <4>2, <4>3
    <3>7. h = [l \in 0 .. k |-> h[l]]
      OBVIOUS
    <3> HIDE DEF h
    <3>8. Turns(c, h, k)
      BY <3>6, <3>7 DEF Turns
    <3> QED
      BY <2>1, <2>2, <3>8, <1>2
  <2> QED
    BY <2>3, <2>4
<1> QED
  BY <1>2, <1>3

(* Each turn keeps it, hence all of them. *)
LEMMA DispatchKeeps ==
    ASSUME NEW c, NEW E, NEW N, NEW z \in BOOLEAN, Turned(c, E, N, z), attr \in Profiles
    PROVE  Turned(Dispatch(c), E, N, z)
<1> DEFINE n == Len(c.queue)
           g == CHOOSE g : Turns(c, g, n)
           Bad == {k \in 0 .. n : ~Turned(g[k], E, N, z)}
<1>1. n \in Nat
  BY DEF Turned, Store, StoreTypes
<1>2. Dispatch(c) = g[n]
  BY DEF Dispatch, Turns
<1> HIDE DEF n
<1>3. Turns(c, g, n)
  BY <1>1, TurnsExist
<1> HIDE DEF g
<1>4. \A k \in 0 .. n : g[k] = IF k = 0 THEN c ELSE HandUp(g[k - 1])
  BY <1>3 DEF Turns
<1>5. Bad \in SUBSET Nat /\ \A k \in 0 .. n : k \in Bad <=> ~Turned(g[k], E, N, z)
  OBVIOUS
<1>6. Bad \subseteq 0 .. n
  OBVIOUS
<1> HIDE DEF Bad
<1>7. ASSUME Bad # {} PROVE FALSE
  <2>1. PICK k \in Bad : \A y \in Bad : k <= y
    BY <1>5, <1>7, MinNat
  <2>2. k \in 0 .. n /\ ~Turned(g[k], E, N, z)
    BY <1>5, <1>6
  <2>3. k # 0
    BY <2>2, <1>4
  <2>4. k - 1 \in 0 .. n /\ ~(k <= k - 1)
    BY <2>2, <2>3, <1>1
  <2>5. Turned(g[k - 1], E, N, z)
    BY <2>1, <2>4, <1>5
  <2>6. Turned(HandUp(g[k - 1]), E, N, z)
    BY <2>5, HandUpKeeps
  <2> QED
    BY <2>2, <2>3, <2>6, <1>4
<1>8. n \in 0 .. n
  BY <1>1
<1> QED
  BY <1>2, <1>5, <1>7, <1>8

(* A command of the HAL, and a buffer of a stream, to the end. *)
LEMMA FinishKeeps ==
    ASSUME NEW c, NEW E \in Counts, NEW N, NEW z \in BOOLEAN, Store(c, E, N), Mid(c), z => c.pending_cnt = 0,
           attr \in Profiles
    PROVE  Turned(Dispatch(superbuf_bufdone_overflow(FlashControl(c))), E, N, z)
<1> DEFINE d == FlashControl(c)
           e == superbuf_bufdone_overflow(d)
<1>1. Store(d, E, N) /\ Owned(d) /\ d.pending_cnt = c.pending_cnt
  BY FlashOwned
<1> HIDE DEF d
<1>2. Store(e, E, N) /\ SameFlags(d, e)
  BY <1>1, OverflowStore
<1> HIDE DEF e
<1>3. Turned(e, E, N, z)
  BY <1>1, <1>2, MidKept DEF Turned, SameFlags
<1>4. Turned(Dispatch(e), E, N, z)
  BY <1>3, DispatchKeeps
<1> QED
  BY <1>4 DEF d, e

LEMMA ProcessHalCommand ==
    ASSUME NEW c, NEW cmd \in HalCommands, NEW m, NEW E \in Counts, NEW N, Store(c, E, N), Owned(c),
           attr \in Profiles, cmd.type = "STOP_ZSL" => c.pending_cnt = 0
    PROVE  LET d == mm_channel_process_stream_buf(c, cmd, m)
           IN Store(d, E, N) /\ Owned(d) /\ (Cancels(cmd) => d.pending_cnt = 0)
<1> DEFINE x == Execute(c, cmd, m)
           d == mm_channel_process_stream_buf(c, cmd, m)
           z == Cancels(cmd)
<1>1. /\ Store(x, E, N) /\ Mid(x)
      /\ cmd.type = "FLUSH_QUEUE" => SameFlags(c, x)
      /\ cmd.type = "STOP_ZSL" \/ Cancels(cmd) => x.pending_cnt = 0
  BY ExecuteKeeps
<1>2. d = IF cmd.type = "FLUSH_QUEUE" THEN x ELSE Dispatch(superbuf_bufdone_overflow(FlashControl(x)))
  BY DEF mm_channel_process_stream_buf
<1> HIDE DEF x, d
<1>3. CASE cmd.type = "FLUSH_QUEUE"
  BY <1>1, <1>2, <1>3, MidKept DEF d, Cancels
<1>4. CASE cmd.type # "FLUSH_QUEUE"
  <2>1. z \in BOOLEAN /\ (z => x.pending_cnt = 0)
    BY <1>1 DEF Cancels
  <2> HIDE DEF z
  <2>2. Turned(Dispatch(superbuf_bufdone_overflow(FlashControl(x))), E, N, z)
    BY <1>1, <2>1, FinishKeeps
  <2> QED
    BY <1>2, <1>4, <2>2 DEF Turned, z, d
<1> QED
  BY <1>3, <1>4

LEMMA ProcessData ==
    ASSUME NEW c, NEW cmd, NEW m, NEW E \in Counts, NEW N, Store(c, E, N), Owned(c), attr \in Profiles,
           cmd.type = "DATA_CB", NEW s \in Streams, NEW f \in Frames \ {0}, cmd.arg = Buffer(s, f),
           E[s][f] > 0, s \in attr.streams, Buffer(s, f) \in N
    PROVE  LET d == mm_channel_process_stream_buf(c, cmd, m)
           IN /\ Store(d, Less(E, s, f), N \ {Buffer(s, f)}) /\ Owned(d)
              /\ c.pending_cnt = 0 => d.pending_cnt = 0
<1> DEFINE x == superbuf_comp_and_enqueue(c, s, f, m)
           d == mm_channel_process_stream_buf(c, cmd, m)
           z == c.pending_cnt = 0
<1>1. Mid(c)
  BY DEF Owned, Mid
<1>2. Store(x, Less(E, s, f), N \ {Buffer(s, f)}) /\ Mid(x) /\ x.pending_cnt = c.pending_cnt
  BY <1>1, EnqueueData
<1>3. Execute(c, cmd, m) = x
  BY DEF Execute, Buffer
<1>4. d = Dispatch(superbuf_bufdone_overflow(FlashControl(x)))
  BY <1>3 DEF mm_channel_process_stream_buf
<1> HIDE DEF x, d
<1>5. Less(E, s, f) \in Counts
  BY LessCounts
<1>6. z \in BOOLEAN /\ (z => x.pending_cnt = 0)
  BY <1>2
<1> HIDE DEF z
<1>7. Turned(Dispatch(superbuf_bufdone_overflow(FlashControl(x))), Less(E, s, f), N \ {Buffer(s, f)}, z)
  BY <1>2, <1>5, <1>6, FinishKeeps
<1> QED
  BY <1>4, <1>7 DEF Turned, z, d

-----------------------------------------------------------------------------
(* The other holders. *)

(* A count changes with a holder outside. *)
Recounts(c, d, E, F, s, f, v) ==
    /\ v \in Nat /\ d = [c EXCEPT !.buf_refcnt[s][f] = v]
    /\ \A t \in Streams : \A g \in Frames : t # s \/ g # f => F[t][g] = E[t][g]
    /\ v = F[s][f] + IF Inside(c, s, f) THEN 1 ELSE 0

LEMMA CountStore ==
    ASSUME NEW c, NEW d, NEW E \in Counts, NEW F \in Counts, NEW N, Store(c, E, N),
           NEW s \in Streams, NEW f \in Frames \ {0}, NEW v, Recounts(c, d, E, F, s, f, v)
    PROVE  Store(d, F, N) /\ SameFlags(c, d)
<1> USE DEF Recounts
<1> DEFINE r == [c.buf_refcnt EXCEPT ![s][f] = v]
<1>1. /\ Chan(d) /\ d.queue = c.queue /\ d.up = c.up /\ d.buf_refcnt = r /\ d.match_cnt = c.match_cnt
      /\ SameFlags(c, d)
  BY DEF Store, StoreTypes, Chan, Fields, SameFlags
<1>2. c.buf_refcnt \in Counts
  BY DEF Store, StoreTypes, Counts
<1>3. r \in Counts /\ \A t \in Streams : \A g \in Frames : r[t][g] = IF t = s /\ g = f THEN v ELSE c.buf_refcnt[t][g]
  BY <1>2 DEF Counts
<1> HIDE DEF r
<1>4. \A t, g : Inside(d, t, g) <=> Inside(c, t, g)
  BY <1>1 DEF Inside, InQueue, InUp
<1>5. \A t \in Streams : \A g \in Frames \ {0} : c.buf_refcnt[t][g] = E[t][g] + IF Inside(c, t, g) THEN 1 ELSE 0
  BY DEF Store, Balanced
<1>6. Balanced(d, F)
  <2> SUFFICES ASSUME NEW t \in Streams, NEW g \in Frames \ {0}
               PROVE  d.buf_refcnt[t][g] = F[t][g] + IF Inside(d, t, g) THEN 1 ELSE 0
    BY DEF Balanced
  <2>1. d.buf_refcnt[t][g] = IF t = s /\ g = f THEN v ELSE c.buf_refcnt[t][g]
    BY <1>1, <1>3
  <2>2. CASE t = s /\ g = f
    BY <2>1, <2>2, <1>4
  <2>3. CASE ~(t = s /\ g = f)
    <3>1. F[t][g] = E[t][g]
      BY <2>3
    <3> QED
      BY <2>1, <2>3, <3>1, <1>4, <1>5
  <2> QED
    BY <2>2, <2>3
<1>7. OneHolder(d)
  BY <1>1 DEF Store, OneHolder, InQueue, InUp
<1>8. Apart(d, N)
  BY <1>4 DEF Store, Apart
<1>9. StoreTypes(d)
  BY <1>1, <1>3 DEF Store, StoreTypes, Counts
<1> QED
  BY <1>1, <1>6, <1>7, <1>8, <1>9 DEF Store

(* The HAL gives a super buffer back. *)
LEMMA ReturnStore ==
    ASSUME NEW c, NEW E \in Counts, NEW N, Store(c, E, N), NEW i \in DOMAIN c.up
    PROVE  LET d == [qbuf(c, BuffersIn(c.up[i])) EXCEPT !.up = RemoveAt(@, i)]
           IN Store(d, E, N) /\ SameFlags(c, d)
<1> DEFINE B == BuffersIn(c.up[i])
           d == [qbuf(c, B) EXCEPT !.up = RemoveAt(@, i)]
           u == RemoveAt(c.up, i)
           old(k) == IF k < i THEN k ELSE k + 1
<1>1. /\ Chan(d) /\ d.queue = c.queue /\ d.up = u /\ d.buf_refcnt = buf_done(c.buf_refcnt, B)
      /\ d.match_cnt = c.match_cnt /\ SameFlags(c, d)
  BY DEF Store, StoreTypes, qbuf, Chan, Fields, SameFlags
<1> HIDE DEF d
<1>2. c.up \in Seq([Streams -> Frames]) /\ DOMAIN c.up = 1 .. Len(c.up) /\ Len(c.up) \in Nat
  BY DEF Store, StoreTypes
<1>3. /\ u \in Seq([Streams -> Frames]) /\ Len(u) = Len(c.up) - 1
      /\ \A k \in 1 .. i - 1 : u[k] = c.up[k]
      /\ \A k \in i .. Len(u) : u[k] = c.up[k + 1]
  <2> DEFINE S == [Streams -> Frames]
  <2>1. c.up \in Seq(S) /\ i \in 1 .. Len(c.up)
    BY <1>2
  <2> HIDE DEF S
  <2>2. /\ u \in Seq(S) /\ Len(u) = Len(c.up) - 1
        /\ \A k \in 1 .. i - 1 : u[k] = c.up[k]
        /\ \A k \in i .. Len(u) : u[k] = c.up[k + 1]
    BY <2>1, Removed
  <2> QED
    BY <2>2 DEF S
<1> HIDE DEF u
<1>4. DOMAIN u = 1 .. Len(u) /\ Len(u) \in Nat
  BY <1>3
<1>5. \A k \in DOMAIN u : u[k] = c.up[old(k)] /\ old(k) \in DOMAIN c.up /\ old(k) # i
  BY <1>2, <1>3, <1>4
<1>6. \A k, l \in DOMAIN u : old(k) = old(l) => k = l
  BY <1>2, <1>4
<1>7. ASSUME NEW m \in DOMAIN c.up, m # i PROVE \E k \in DOMAIN u : old(k) = m
  <2>1. CASE m < i
    BY <2>1, <1>2, <1>3, <1>4
  <2>2. CASE m > i
    <3>1. m - 1 \in DOMAIN u /\ old(m - 1) = m
      BY <2>2, <1>2, <1>3, <1>4
    <3> QED
      BY <3>1
  <2> QED
    BY <1>7, <2>1, <2>2, <1>2
<1>8. \A s, f : \A k \in DOMAIN u : InUp(d, k, s, f) <=> InUp(c, old(k), s, f)
  BY <1>1, <1>5 DEF InUp
<1>9. \A s, f : \A k : InQueue(d, k, s, f) <=> InQueue(c, k, s, f)
  BY <1>1 DEF InQueue
<1> HIDE DEF old
<1>10. OneHolder(d)
  BY <1>1, <1>5, <1>6, <1>8, <1>9 DEF Store, OneHolder
<1>11. \A s \in Streams : \A f \in Frames \ {0} : Inside(d, s, f) <=> Inside(c, s, f) /\ ~InUp(c, i, s, f)
  <2> TAKE s \in Streams
  <2> TAKE f \in Frames \ {0}
  <2>1. ASSUME Inside(d, s, f) PROVE Inside(c, s, f) /\ ~InUp(c, i, s, f)
    <3>1. CASE \E k \in DOMAIN u : InUp(d, k, s, f)
      <4>1. PICK k \in DOMAIN u : InUp(d, k, s, f)
        BY <3>1
      <4>2. InUp(c, old(k), s, f) /\ old(k) \in DOMAIN c.up /\ old(k) # i
        BY <4>1, <1>5, <1>8
      <4>3. ~InUp(c, i, s, f)
        BY <4>2 DEF Store, OneHolder
      <4> QED
        BY <4>2, <4>3 DEF Inside
    <3>2. CASE \E k \in DOMAIN c.queue : InQueue(c, k, s, f)
      <4>1. PICK k \in DOMAIN c.queue : InQueue(c, k, s, f)
        BY <3>2
      <4>2. ~InUp(c, i, s, f)
        BY <4>1 DEF Store, OneHolder
      <4> QED
        BY <4>1, <4>2 DEF Inside
    <3> QED
      BY <2>1, <3>1, <3>2, <1>1, <1>9 DEF Inside
  <2>2. ASSUME Inside(c, s, f), ~InUp(c, i, s, f) PROVE Inside(d, s, f)
    <3>1. CASE \E k \in DOMAIN c.up : InUp(c, k, s, f)
      <4>1. PICK m \in DOMAIN c.up : InUp(c, m, s, f)
        BY <3>1
      <4>2. m # i
        BY <4>1, <2>2
      <4>3. PICK k \in DOMAIN u : old(k) = m
        BY <4>2, <1>7
      <4> QED
        BY <4>1, <4>3, <1>1, <1>8 DEF Inside
    <3>2. CASE \E k \in DOMAIN c.queue : InQueue(c, k, s, f)
      BY <3>2, <1>1, <1>9 DEF Inside
    <3> QED
      BY <2>2, <3>1, <3>2 DEF Inside
  <2> QED
    BY <2>1, <2>2
<1>12. \A s \in Streams : \A f \in Frames \ {0} : Buffer(s, f) \in B <=> InUp(c, i, s, f)
  BY BuffersInSuperBuf DEF InUp
<1> HIDE DEF B
<1>13. /\ buf_done(c.buf_refcnt, B) \in Counts
       /\ \A s \in Streams : \A f \in Frames : Buffer(s, f) \notin B => buf_done(c.buf_refcnt, B)[s][f] = c.buf_refcnt[s][f]
       /\ \A s \in Streams : \A f \in Frames :
             Buffer(s, f) \in B /\ c.buf_refcnt[s][f] > 0 => buf_done(c.buf_refcnt, B)[s][f] = c.buf_refcnt[s][f] - 1
  <2>1. c.buf_refcnt \in Counts
    BY DEF Store, StoreTypes, Counts
  <2> QED
    BY <2>1, DoneCounts
<1>14. \A s \in Streams : \A f \in Frames : E[s][f] \in Nat
  BY DEF Counts
<1>15. \A s \in Streams : \A f \in Frames \ {0} : c.buf_refcnt[s][f] = E[s][f] + IF Inside(c, s, f) THEN 1 ELSE 0
  BY DEF Store, Balanced
<1>16. Balanced(d, E)
  <2> SUFFICES ASSUME NEW s \in Streams, NEW f \in Frames \ {0}
               PROVE  d.buf_refcnt[s][f] = E[s][f] + IF Inside(d, s, f) THEN 1 ELSE 0
    BY DEF Balanced
  <2>1. CASE InUp(c, i, s, f)
    <3>1. Inside(c, s, f) /\ Buffer(s, f) \in B /\ ~Inside(d, s, f)
      BY <2>1, <1>11, <1>12 DEF Inside
    <3>2. c.buf_refcnt[s][f] = E[s][f] + 1 /\ E[s][f] \in Nat
      BY <3>1, <1>14, <1>15
    <3>3. d.buf_refcnt[s][f] = c.buf_refcnt[s][f] - 1
      BY <3>1, <3>2, <1>1, <1>13
    <3> QED
      BY <3>1, <3>2, <3>3
  <2>2. CASE ~InUp(c, i, s, f)
    BY <2>2, <1>1, <1>11, <1>12, <1>13, <1>15
  <2> QED
    BY <2>1, <2>2
<1>17. Apart(d, N)
  BY <1>11 DEF Store, Apart
<1>18. StoreTypes(d)
  BY <1>1, <1>3, <1>13 DEF Store, StoreTypes, Counts
<1>19. Store(d, E, N)
  BY <1>10, <1>16, <1>17, <1>18 DEF Store
<1> QED
  BY <1>1, <1>19 DEF d, B

-----------------------------------------------------------------------------
(* The invariant. *)
LEMMA OutsideIs ==
    Outside \in Counts /\ \A s \in Streams : \A f \in Frames : Outside[s][f] = Refs(s, f)
<1>1. \A s \in Streams : \A f \in Frames : Refs(s, f) \in Nat
  BY DEF Refs, One
<1> QED
  BY <1>1 DEF Outside, Counts

(* The store of the next state. *)
LEMMA StoredNext ==
    ASSUME attr' = attr, NEW E \in Counts, NEW N, Store(ch', E, N),
           \A s \in Streams : \A f \in Frames \ {0} : Refs(s, f)' = E[s][f],
           \A s \in Streams : \A f \in Frames \ {0} : Buffer(s, f) \in NotInside' => Buffer(s, f) \in N
    PROVE  Stored'
<1>1. (\A s \in Streams : \A f \in Frames : Outside[s][f] = Refs(s, f))'
  BY OutsideIs, PTL
<1>2. \A s \in Streams : \A f \in Frames : Outside'[s][f] = Refs(s, f)'
  BY <1>1
<1>3. \A s \in Streams : \A f \in Frames \ {0} : Outside'[s][f] = E[s][f]
  BY <1>2
<1>4. \A s, f : Inside(ch, s, f)' <=> Inside(ch', s, f)
  BY DEF Inside, InQueue, InUp
<1>5. StoreTypes(ch)'
  BY DEF Store, StoreTypes, Chan
<1>6. OneHolder(ch)'
  BY DEF Store, OneHolder, InQueue, InUp
<1>7. Balanced(ch, Outside)'
  BY <1>3, <1>4 DEF Store, Balanced
<1>8. Apart(ch, NotInside)'
  BY <1>4 DEF Store, Apart, Buffer
<1> QED
  BY <1>5, <1>6, <1>7, <1>8 DEF Stored, Store

LEMMA OwnedNext ==
    ASSUME NEW c, Owned(c), ch' = c
    PROVE  Owned(ch)'
BY DEF Owned, Flags

(* What waits is known by where it goes. *)
LEMMA WaitingIs ==
    ASSUME NEW s, NEW f
    PROVE  Waiting(Buffer(s, f)) <=>
               \E i \in DOMAIN cmd_queue : cmd_queue[i].type = "DATA_CB" /\ cmd_queue[i].arg = Buffer(s, f)
BY DEF Waiting, Carries

LEMMA NotInsideIs ==
    \A s \in Streams : \A f \in Frames : Buffer(s, f) \in NotInside <=> f > last[s] \/ Waiting(Buffer(s, f))
<1> SUFFICES ASSUME NEW s \in Streams, NEW f \in Frames
             PROVE  Buffer(s, f) \in NotInside <=> f > last[s] \/ Waiting(Buffer(s, f))
  OBVIOUS
<1>1. Buffer(s, f) \in [stream : Streams, frame : Frames]
  BY DEF Buffer
<1>2. Buffer(s, f).stream = s /\ Buffer(s, f).frame = f
  BY DEF Buffer
<1> QED
  BY <1>1, <1>2 DEF NotInside

LEMMA NotInsideNext ==
    \A s \in Streams : \A f \in Frames : Buffer(s, f) \in NotInside' <=> f > last'[s] \/ Waiting(Buffer(s, f))'
<1>1. (\A s \in Streams : \A f \in Frames :
          Buffer(s, f) \in NotInside <=> f > last[s] \/ Waiting(Buffer(s, f)))'
  BY NotInsideIs, PTL
<1>2. \A s, f : Buffer(s, f)' = Buffer(s, f)
  BY DEF Buffer
<1> QED
  BY <1>1, <1>2

(* Commands are of the one kind or the other. *)
LEMMA CommandKinds ==
    ASSUME NEW cmd \in HalCommands \cup DataCommands
    PROVE  /\ cmd.type = "DATA_CB" => cmd \in DataCommands
           /\ cmd.type # "DATA_CB" => cmd \in HalCommands
           /\ cmd \in HalCommands => cmd.type # "DATA_CB"
BY DEF HalCommands, DataCommands

LEMMA InitIInv == Init => IInv
<1> SUFFICES ASSUME Init PROVE IInv
  OBVIOUS
<1> USE DEF Init
<1>1. attr \in Profiles /\ cmd_queue = <<>> /\ poll = <<>> /\ app = {} /\ ch.queue = <<>> /\ ch.up = <<>>
  OBVIOUS
<1>2. 0 \in Frames
  BY ProfilesAssumption DEF Frames
<1>3. last \in [Streams -> Frames]
  BY <1>2
<1>4. CommandsOK /\ StopFollowsCancel /\ AppOK
  BY <1>1 DEF CommandsOK, StopFollowsCancel, AppOK
<1>5. Owned(ch)
  BY DEF Owned, Flags
<1>6. Chan(ch)
  BY DEF Chan, Fields
<1>7. ch.match_cnt \in Int /\ ch.buf_refcnt = [s \in Streams |-> [f \in Frames |-> 0]]
  OBVIOUS
<1>8. StoreTypes(ch)
  <2>1. ch.buf_refcnt \in [Streams -> [Frames -> Nat]]
    BY <1>7
  <2>2. ch.queue \in Seq(Node) /\ ch.up \in Seq([Streams -> Frames])
    BY <1>1
  <2> QED
    BY <1>6, <1>7, <2>1, <2>2 DEF StoreTypes
<1>9. \A s, f : ~Inside(ch, s, f)
  BY <1>1 DEF Inside
<1>10. OneHolder(ch)
  BY <1>1 DEF OneHolder
<1>11. \A s \in Streams : \A f \in Frames : Outside[s][f] = 0
  <2>1. \A s, f : ~Waiting(Buffer(s, f))
    BY <1>1 DEF Waiting
  <2>2. \A s, f : Refs(s, f) = 0
    BY <1>1, <2>1 DEF Refs, One
  <2> QED
    BY <2>2, OutsideIs
<1>12. Balanced(ch, Outside) /\ Apart(ch, NotInside)
  <2>1. \A s \in Streams : \A f \in Frames : ch.buf_refcnt[s][f] = 0
    BY <1>7
  <2>2. \A s \in Streams : \A f \in Frames \ {0} :
            ch.buf_refcnt[s][f] = Outside[s][f] + IF Inside(ch, s, f) THEN 1 ELSE 0
    <3> HIDE DEF Init
    <3> QED
      BY <2>1, <1>9, <1>11
  <2> HIDE DEF Init
  <2>3. Balanced(ch, Outside)
    BY <2>2 DEF Balanced
  <2>4. Apart(ch, NotInside)
    BY <1>9 DEF Apart
  <2> QED
    BY <2>3, <2>4
<1>13. Stored
  BY <1>8, <1>10, <1>12 DEF Stored, Store
<1> QED
  BY <1>1, <1>3, <1>4, <1>5, <1>13 DEF IInv

(* The first command is taken. *)
LEMMA TakenCommand ==
    ASSUME CommandsOK, cmd_queue # <<>>, cmd_queue' = Tail(cmd_queue), attr' = attr, last' = last
    PROVE  /\ CommandsOK'
           /\ Head(cmd_queue) = cmd_queue[1] /\ 1 \in DOMAIN cmd_queue
           /\ cmd_queue[1] \in HalCommands \cup DataCommands
           /\ \A i \in DOMAIN cmd_queue' : i + 1 \in DOMAIN cmd_queue /\ cmd_queue'[i] = cmd_queue[i + 1]
           /\ \A i \in DOMAIN cmd_queue' : i = 1 \/ i - 1 \in DOMAIN cmd_queue'
           /\ \A i \in DOMAIN cmd_queue : i = 1 \/ (i - 1 \in DOMAIN cmd_queue' /\ (i - 1) + 1 = i)
<1> DEFINE S == HalCommands \cup DataCommands
<1>1. cmd_queue \in Seq(S)
  BY DEF CommandsOK
<1> HIDE DEF S
<1>2. /\ Head(cmd_queue) = cmd_queue[1] /\ Len(cmd_queue) \in Nat \ {0} /\ DOMAIN cmd_queue = 1 .. Len(cmd_queue)
      /\ \A i \in DOMAIN cmd_queue : cmd_queue[i] \in S
  BY <1>1
<1>3. /\ cmd_queue' \in Seq(S) /\ DOMAIN cmd_queue' = 1 .. Len(cmd_queue) - 1
      /\ \A i \in 1 .. Len(cmd_queue) - 1 : cmd_queue'[i] = cmd_queue[i + 1]
  BY <1>1, <1>2
<1>4. \A i \in DOMAIN cmd_queue' : i + 1 \in DOMAIN cmd_queue /\ cmd_queue'[i] = cmd_queue[i + 1]
  BY <1>2, <1>3
<1>5. \A i, j \in DOMAIN cmd_queue' : i + 1 = j + 1 => i = j
  BY <1>3
<1>6. CommandsOK'
  <2>1. (cmd_queue \in Seq(HalCommands \cup DataCommands))'
    BY <1>3 DEF S
  <2>2. \A i \in DOMAIN cmd_queue' : cmd_queue'[i].type = "DATA_CB" =>
            /\ cmd_queue'[i].arg.stream \in attr'.streams /\ cmd_queue'[i].arg.frame # 0
            /\ cmd_queue'[i].arg.frame <= last'[cmd_queue'[i].arg.stream]
    BY <1>4 DEF CommandsOK
  <2>3. \A i, j \in DOMAIN cmd_queue' :
            cmd_queue'[i].type = "DATA_CB" /\ cmd_queue'[j].type = "DATA_CB" /\ cmd_queue'[i].arg = cmd_queue'[j].arg
            => i = j
    BY <1>4, <1>5 DEF CommandsOK
  <2> QED
    BY <2>1, <2>2, <2>3 DEF CommandsOK
<1>7. /\ \A i \in DOMAIN cmd_queue' : i = 1 \/ i - 1 \in DOMAIN cmd_queue'
      /\ \A i \in DOMAIN cmd_queue : i = 1 \/ (i - 1 \in DOMAIN cmd_queue' /\ (i - 1) + 1 = i)
  BY <1>2, <1>3
<1> QED
  BY <1>2, <1>4, <1>6, <1>7 DEF S

(* Other holders than the channel's thread stay as they are. *)
LEMMA AppStays ==
    ASSUME AppOK, app' = app, poll' = poll, last' = last
    PROVE  AppOK'
BY DEF AppOK

LEMMA ProcessNext ==
    ASSUME IInv, ProcessCommand
    PROVE  IInv'
<1> DEFINE cmd == cmd_queue[1]
<1>1. PICK m : ch' = mm_channel_process_stream_buf(ch, Head(cmd_queue), m)
  BY DEF ProcessCommand
<1>2. /\ cmd_queue # <<>> /\ cmd_queue' = Tail(cmd_queue) /\ attr' = attr /\ last' = last
      /\ poll' = poll /\ app' = app
  BY DEF ProcessCommand
<1>3. /\ attr \in Profiles /\ last \in [Streams -> Frames] /\ CommandsOK /\ StopFollowsCancel /\ AppOK
      /\ Store(ch, Outside, NotInside) /\ Owned(ch)
  BY DEF IInv, Stored
<1>4. /\ CommandsOK'
      /\ Head(cmd_queue) = cmd /\ 1 \in DOMAIN cmd_queue
      /\ cmd \in HalCommands \cup DataCommands
      /\ \A i \in DOMAIN cmd_queue' : i + 1 \in DOMAIN cmd_queue /\ cmd_queue'[i] = cmd_queue[i + 1]
      /\ \A i \in DOMAIN cmd_queue' : i = 1 \/ i - 1 \in DOMAIN cmd_queue'
      /\ \A i \in DOMAIN cmd_queue : i = 1 \/ (i - 1 \in DOMAIN cmd_queue' /\ (i - 1) + 1 = i)
  BY <1>2, <1>3, TakenCommand
<1>5. AppOK'
  BY <1>2, <1>3, AppStays
<1>6. Outside \in Counts /\ \A s \in Streams : \A f \in Frames : Outside[s][f] = Refs(s, f)
  BY OutsideIs
<1>7. ASSUME cmd.type = "DATA_CB" \/ Cancels(cmd) \/ cmd_queue'[1].type # "STOP_ZSL",
             cmd.type = "DATA_CB" => (ch.pending_cnt = 0 => ch'.pending_cnt = 0),
             Cancels(cmd) => ch'.pending_cnt = 0
      PROVE  StopFollowsCancel'
  <2> SUFFICES ASSUME NEW i \in DOMAIN cmd_queue', cmd_queue'[i].type = "STOP_ZSL"
               PROVE  IF i = 1 THEN ch'.pending_cnt = 0 ELSE Cancels(cmd_queue'[i - 1])
    BY DEF StopFollowsCancel, Cancels
  <2>1. i + 1 \in DOMAIN cmd_queue /\ cmd_queue'[i] = cmd_queue[i + 1] /\ cmd_queue[i + 1].type = "STOP_ZSL"
    BY <1>4
  <2>2. i \in Nat \ {0} /\ (i + 1) - 1 = i /\ i + 1 # 1
    BY <1>3, <1>4, <2>1 DEF CommandsOK
  <2>3. Cancels(cmd_queue[i])
    BY <1>3, <2>1, <2>2 DEF StopFollowsCancel
  <2>4. CASE i = 1
    BY <1>7, <2>3, <2>4
  <2>5. CASE i # 1
    <3>1. cmd_queue'[i - 1] = cmd_queue[(i - 1) + 1] /\ (i - 1) + 1 = i
      BY <1>4, <2>2, <2>5
    <3> QED
      BY <3>1, <2>3, <2>5
  <2> QED
    BY <2>4, <2>5
<1>8. CASE cmd.type = "DATA_CB"
  <2> DEFINE s == cmd.arg.stream
             f == cmd.arg.frame
  <2>1. cmd \in DataCommands
    BY <1>4, <1>8, CommandKinds
  <2>2. cmd.arg = Buffer(s, f) /\ s \in Streams /\ f \in Frames
    BY <2>1 DEF DataCommands, Buffer
  <2>3. s \in attr.streams /\ f # 0
    BY <1>3, <1>4, <1>8 DEF CommandsOK
  <2> HIDE DEF s, f
  <2>4. Waiting(Buffer(s, f))
    BY <1>4, <1>8, <2>2, WaitingIs
  <2>5. Outside[s][f] > 0
    <3>1. Refs(s, f) > 0
      BY <2>4 DEF Refs, One
    <3> QED
      BY <3>1, <1>6, <2>2
  <2>6. Buffer(s, f) \in NotInside
    BY <2>2, <2>4, NotInsideIs
  <2>7. /\ Store(ch', Less(Outside, s, f), NotInside \ {Buffer(s, f)}) /\ Owned(ch')
        /\ ch.pending_cnt = 0 => ch'.pending_cnt = 0
    <3> HIDE DEF cmd
    <3>1. f \in Frames \ {0} /\ ch' = mm_channel_process_stream_buf(ch, cmd, m)
      BY <1>1, <1>4, <2>2, <2>3
    <3> QED
      BY <1>3, <1>6, <1>8, <2>2, <2>3, <2>5, <2>6, <3>1, ProcessData
  <2>8. \A t \in Streams : \A g \in Frames :
            Waiting(Buffer(t, g))' <=> Waiting(Buffer(t, g)) /\ ~(t = s /\ g = f)
    <3> TAKE t \in Streams
    <3> TAKE g \in Frames
    <3>1. Waiting(Buffer(t, g))' <=>
              \E i \in DOMAIN cmd_queue' : cmd_queue'[i].type = "DATA_CB" /\ cmd_queue'[i].arg = Buffer(t, g)
      BY DEF Waiting, Carries, Buffer
    <3>2. ASSUME Waiting(Buffer(t, g))' PROVE Waiting(Buffer(t, g)) /\ ~(t = s /\ g = f)
      <4>1. PICK i \in DOMAIN cmd_queue' : cmd_queue'[i].type = "DATA_CB" /\ cmd_queue'[i].arg = Buffer(t, g)
        BY <3>1, <3>2
      <4>2. i + 1 \in DOMAIN cmd_queue /\ cmd_queue[i + 1].type = "DATA_CB" /\ cmd_queue[i + 1].arg = Buffer(t, g)
        BY <4>1, <1>4
      <4>3. i + 1 # 1
        BY <4>1, <1>4 DEF CommandsOK
      <4>4. Buffer(t, g) # Buffer(s, f)
        BY <4>2, <4>3, <1>3, <1>4, <1>8, <2>2 DEF CommandsOK
      <4> QED
        BY <4>2, <4>4, WaitingIs
    <3>3. ASSUME Waiting(Buffer(t, g)), ~(t = s /\ g = f) PROVE Waiting(Buffer(t, g))'
      <4>1. PICK i \in DOMAIN cmd_queue : cmd_queue[i].type = "DATA_CB" /\ cmd_queue[i].arg = Buffer(t, g)
        BY <3>3, WaitingIs
      <4>2. i # 1
        BY <4>1, <3>3, <2>2, BufferEq
      <4>3. i - 1 \in DOMAIN cmd_queue' /\ cmd_queue'[i - 1] = cmd_queue[i]
        BY <4>2, <1>4
      <4> QED
        BY <4>1, <4>3, <3>1
    <3> QED
      BY <3>2, <3>3
  <2>9. \A t \in Streams : \A g \in Frames \ {0} : Refs(t, g)' = Less(Outside, s, f)[t][g]
    <3> TAKE t \in Streams
    <3> TAKE g \in Frames \ {0}
    <3>1. Less(Outside, s, f)[t][g] = IF t = s /\ g = f THEN Outside[t][g] - 1 ELSE Outside[t][g]
      BY <1>6, <2>2, <2>5, LessCounts
    <3>2. Refs(t, g)' = One(Waiting(Buffer(t, g))') + One(AppRec(Buffer(t, g), "queue") \in app)
              + One(AppRec(Buffer(t, g), "callback") \in app) + One(AppRec(Buffer(t, g), "HAL") \in app)
              + One(poll = <<Buffer(t, g)>>)
      BY <1>2 DEF Refs, One, AppRec, Buffer
    <3>3. Refs(t, g)' = IF t = s /\ g = f THEN Refs(t, g) - 1 ELSE Refs(t, g)
      BY <3>2, <2>4, <2>8 DEF Refs, One
    <3> QED
      BY <3>1, <3>3, <1>6
  <2>10. \A t \in Streams : \A g \in Frames \ {0} :
             Buffer(t, g) \in NotInside' => Buffer(t, g) \in NotInside \ {Buffer(s, f)}
    <3> TAKE t \in Streams
    <3> TAKE g \in Frames \ {0}
    <3>1. Buffer(t, g) \in NotInside' <=> g > last[t] \/ Waiting(Buffer(t, g))'
      BY <1>2, NotInsideNext
    <3>2. f <= last[s]
      BY <1>3, <1>4, <1>8, <2>2 DEF CommandsOK, Buffer
    <3>3. ~(f > last[s])
      BY <3>2, <1>3, <2>2 DEF Frames
    <3> QED
      BY <3>1, <3>3, <2>8, NotInsideIs, BufferEq
  <2>11. Less(Outside, s, f) \in Counts
    BY <1>6, <2>2, <2>5, LessCounts
  <2>12. Stored'
    BY <1>2, <2>7, <2>9, <2>10, <2>11, StoredNext
  <2>13. Owned(ch)'
    BY <2>7, OwnedNext
  <2>14. StopFollowsCancel'
    BY <1>7, <1>8, <2>7 DEF Cancels
  <2> QED
    BY <1>2, <1>3, <1>4, <1>5, <2>12, <2>13, <2>14 DEF IInv
<1>9. CASE cmd.type # "DATA_CB"
  <2>1. cmd \in HalCommands
    BY <1>4, <1>9, CommandKinds
  <2>2. cmd.type = "STOP_ZSL" => ch.pending_cnt = 0
    BY <1>3, <1>4 DEF StopFollowsCancel
  <2>3. Store(ch', Outside, NotInside) /\ Owned(ch') /\ (Cancels(cmd) => ch'.pending_cnt = 0)
    <3> HIDE DEF cmd
    <3>1. ch' = mm_channel_process_stream_buf(ch, cmd, m)
      BY <1>1, <1>4
    <3> QED
      BY <1>3, <1>6, <2>1, <2>2, <3>1, ProcessHalCommand
  <2>4. \A t \in Streams : \A g \in Frames : Waiting(Buffer(t, g))' <=> Waiting(Buffer(t, g))
    <3> TAKE t \in Streams
    <3> TAKE g \in Frames
    <3>1. Waiting(Buffer(t, g))' <=>
              \E i \in DOMAIN cmd_queue' : cmd_queue'[i].type = "DATA_CB" /\ cmd_queue'[i].arg = Buffer(t, g)
      BY DEF Waiting, Carries, Buffer
    <3>2. ASSUME Waiting(Buffer(t, g)) PROVE Waiting(Buffer(t, g))'
      <4>1. PICK i \in DOMAIN cmd_queue : cmd_queue[i].type = "DATA_CB" /\ cmd_queue[i].arg = Buffer(t, g)
        BY <3>2, WaitingIs
      <4>2. i # 1
        BY <4>1, <1>9
      <4>3. i - 1 \in DOMAIN cmd_queue' /\ cmd_queue'[i - 1] = cmd_queue[i]
        BY <4>2, <1>4
      <4> QED
        BY <4>1, <4>3, <3>1
    <3>3. ASSUME Waiting(Buffer(t, g))' PROVE Waiting(Buffer(t, g))
      BY <3>1, <3>3, <1>4, WaitingIs
    <3> QED
      BY <3>2, <3>3
  <2>5. \A t \in Streams : \A g \in Frames \ {0} : Refs(t, g)' = Outside[t][g]
    <3> TAKE t \in Streams
    <3> TAKE g \in Frames \ {0}
    <3>1. Refs(t, g)' = One(Waiting(Buffer(t, g))') + One(AppRec(Buffer(t, g), "queue") \in app)
              + One(AppRec(Buffer(t, g), "callback") \in app) + One(AppRec(Buffer(t, g), "HAL") \in app)
              + One(poll = <<Buffer(t, g)>>)
      BY <1>2 DEF Refs, One, AppRec, Buffer
    <3>2. Refs(t, g)' = Refs(t, g)
      BY <3>1, <2>4 DEF Refs, One
    <3> QED
      BY <3>2, <1>6
  <2>6. \A t \in Streams : \A g \in Frames \ {0} : Buffer(t, g) \in NotInside' => Buffer(t, g) \in NotInside
    <3> TAKE t \in Streams
    <3> TAKE g \in Frames \ {0}
    <3>1. Buffer(t, g) \in NotInside' <=> g > last[t] \/ Waiting(Buffer(t, g))'
      BY <1>2, NotInsideNext
    <3> QED
      BY <3>1, <2>4, NotInsideIs
  <2>7. Stored'
    BY <1>2, <1>6, <2>3, <2>5, <2>6, StoredNext
  <2>8. Owned(ch)'
    BY <2>3, OwnedNext
  <2>9. StopFollowsCancel'
    <3>1. Cancels(cmd) \/ cmd_queue'[1].type # "STOP_ZSL" \/ 1 \notin DOMAIN cmd_queue'
      BY <1>3, <1>4 DEF StopFollowsCancel
    <3>2. CASE 1 \notin DOMAIN cmd_queue'
      <4>1. DOMAIN cmd_queue' = {}
        BY <3>2, <1>4 DEF CommandsOK
      <4> QED
        BY <4>1 DEF StopFollowsCancel
    <3>3. CASE 1 \in DOMAIN cmd_queue'
      BY <3>1, <3>3, <1>7, <1>9, <2>3
    <3> QED
      BY <3>2, <3>3
  <2> QED
    BY <1>2, <1>3, <1>4, <1>5, <2>7, <2>8, <2>9 DEF IInv
<1> QED
  BY <1>8, <1>9

(* The commands, those that wait, and what the HAL's stop finds do not depend on the other holders. *)
LEMMA CommandsStay ==
    ASSUME CommandsOK, StopFollowsCancel, cmd_queue' = cmd_queue, attr' = attr, last' = last,
           ch'.pending_cnt = ch.pending_cnt
    PROVE  CommandsOK' /\ StopFollowsCancel' /\ \A s, f : Waiting(Buffer(s, f))' <=> Waiting(Buffer(s, f))
BY DEF CommandsOK, StopFollowsCancel, Waiting, Carries, Buffer, Cancels

(* A buffer in hand is not known elsewhere. *)
LEMMA NotInsideStays ==
    ASSUME last' = last, \A s, f : Waiting(Buffer(s, f))' <=> Waiting(Buffer(s, f))
    PROVE  \A s \in Streams : \A f \in Frames \ {0} : Buffer(s, f) \in NotInside' => Buffer(s, f) \in NotInside
BY NotInsideNext, NotInsideIs

(* The references of the next state, one term at a time. *)
LEMMA RefsNext ==
    ASSUME NEW s, NEW f
    PROVE  Refs(s, f)' = One(Waiting(Buffer(s, f))') + One(AppRec(Buffer(s, f), "queue") \in app')
               + One(AppRec(Buffer(s, f), "callback") \in app') + One(AppRec(Buffer(s, f), "HAL") \in app')
               + One(poll' = <<Buffer(s, f)>>)
BY DEF Refs, One, AppRec, Buffer

LEMMA AppRecEq ==
    ASSUME NEW s, NEW f, NEW t, NEW g, NEW a, NEW b
    PROVE  /\ AppRec(Buffer(s, f), a) = AppRec(Buffer(t, g), b) <=> s = t /\ f = g /\ a = b
           /\ AppRec(Buffer(s, f), a).buf = Buffer(s, f) /\ AppRec(Buffer(s, f), a).at = a
BY BufferEq DEF AppRec

(* A record of a stream's thread is of a buffer. *)
LEMMA AppMember ==
    ASSUME AppOK, NEW x \in app
    PROVE  \E s \in Streams : \E f \in Frames \ {0} :
               /\ x.buf = Buffer(s, f) /\ x = AppRec(Buffer(s, f), x.at) /\ x.at \in {"queue", "callback", "HAL"}
               /\ x.buf.stream = s /\ x.buf.frame = f /\ f <= last[s]
<1>1. x \in [buf : [stream : Streams, frame : Frames], at : {"queue", "callback", "HAL"}]
  BY DEF AppOK
<1>2. /\ x.buf \in [stream : Streams, frame : Frames] /\ x.at \in {"queue", "callback", "HAL"}
      /\ x = AppRec(x.buf, x.at)
  BY <1>1 DEF AppRec
<1>3. /\ x.buf.stream \in Streams /\ x.buf.frame \in Frames
      /\ x.buf = Buffer(x.buf.stream, x.buf.frame)
  BY <1>2 DEF Buffer
<1>4. x.buf.frame # 0 /\ x.buf.frame <= last[x.buf.stream]
  BY DEF AppOK
<1> QED
  BY <1>2, <1>3, <1>4

LEMMA LetGoNext ==
    ASSUME IInv, NEW x \in app, LetGo(x)
    PROVE  IInv'
<1>1. /\ attr \in Profiles /\ last \in [Streams -> Frames] /\ CommandsOK /\ StopFollowsCancel /\ AppOK
      /\ Store(ch, Outside, NotInside) /\ Owned(ch)
  BY DEF IInv, Stored
<1>2. /\ x.at # "queue" /\ ch' = qbuf(ch, {x.buf}) /\ app' = app \ {x}
      /\ attr' = attr /\ cmd_queue' = cmd_queue /\ last' = last /\ poll' = poll
  BY DEF LetGo
<1>3. Outside \in Counts /\ \A s \in Streams : \A f \in Frames : Outside[s][f] = Refs(s, f)
  BY OutsideIs
<1>4. PICK s \in Streams : \E f \in Frames \ {0} :
          /\ x.buf = Buffer(s, f) /\ x = AppRec(Buffer(s, f), x.at) /\ x.at \in {"queue", "callback", "HAL"}
          /\ x.buf.stream = s /\ x.buf.frame = f /\ f <= last[s]
  BY <1>1, AppMember
<1>5. PICK f \in Frames \ {0} :
          /\ x.buf = Buffer(s, f) /\ x = AppRec(Buffer(s, f), x.at) /\ x.at \in {"queue", "callback", "HAL"}
          /\ x.buf.stream = s /\ x.buf.frame = f /\ f <= last[s]
  BY <1>4
<1>6. Refs(s, f) > 0
  BY <1>2, <1>5 DEF Refs, One
<1>7. Outside[s][f] > 0
  BY <1>3, <1>5, <1>6
<1>8. Store(ch', Less(Outside, s, f), NotInside) /\ SameFlags(ch, ch')
  <2>1. /\ Store(qbuf(ch, {Buffer(s, f)}), Less(Outside, s, f), NotInside)
        /\ SameFlags(ch, qbuf(ch, {Buffer(s, f)}))
    BY <1>1, <1>3, <1>7, GiveBackStore DEF Less
  <2>2. ch' = qbuf(ch, {Buffer(s, f)})
    BY <1>2, <1>5
  <2> QED
    BY <2>1, <2>2
<1>9. CommandsOK' /\ StopFollowsCancel' /\ \A t, g : Waiting(Buffer(t, g))' <=> Waiting(Buffer(t, g))
  <2>1. ch'.pending_cnt = ch.pending_cnt
    BY <1>8 DEF SameFlags
  <2> QED
    BY <2>1, <1>1, <1>2, CommandsStay
<1>10. AppOK'
  <2>1. app' \subseteq app
    BY <1>2
  <2> QED
    BY <2>1, <1>1, <1>2 DEF AppOK
<1>11. \A t \in Streams : \A g \in Frames \ {0} : Refs(t, g)' = Less(Outside, s, f)[t][g]
  <2> TAKE t \in Streams
  <2> TAKE g \in Frames \ {0}
  <2>1. \A a : AppRec(Buffer(t, g), a) = x <=> t = s /\ g = f /\ a = x.at
    BY <1>5, AppRecEq
  <2>2. \A a : AppRec(Buffer(t, g), a) \in app' <=> AppRec(Buffer(t, g), a) \in app /\ ~(t = s /\ g = f /\ a = x.at)
    BY <2>1, <1>2
  <2>3. Less(Outside, s, f)[t][g] = IF t = s /\ g = f THEN Outside[t][g] - 1 ELSE Outside[t][g]
    BY <1>3, <1>7, LessCounts
  <2>4. Refs(t, g)' = One(Waiting(Buffer(t, g))') + One(AppRec(Buffer(t, g), "queue") \in app')
               + One(AppRec(Buffer(t, g), "callback") \in app') + One(AppRec(Buffer(t, g), "HAL") \in app')
               + One(poll' = <<Buffer(t, g)>>)
    BY RefsNext
  <2>5. Refs(t, g) = One(Waiting(Buffer(t, g))) + One(AppRec(Buffer(t, g), "queue") \in app)
               + One(AppRec(Buffer(t, g), "callback") \in app) + One(AppRec(Buffer(t, g), "HAL") \in app)
               + One(poll = <<Buffer(t, g)>>)
    BY DEF Refs
  <2>6. Waiting(Buffer(t, g))' <=> Waiting(Buffer(t, g))
    BY <1>9
  <2>7. Outside[t][g] = Refs(t, g)
    BY <1>3
  <2>8. CASE ~(t = s /\ g = f)
    <3>1. Refs(t, g)' = Refs(t, g)
      BY <2>2, <2>4, <2>5, <2>6, <2>8, <1>2 DEF One
    <3> QED
      BY <3>1, <2>3, <2>7, <2>8
  <2>9. CASE t = s /\ g = f
    <3>1. AppRec(Buffer(t, g), x.at) \in app /\ (x.at = "callback" \/ x.at = "HAL")
      BY <2>9, <1>2, <1>5
    <3>2. Refs(t, g)' = Refs(t, g) - 1
      BY <3>1, <2>2, <2>4, <2>5, <2>6, <2>9, <1>2 DEF One
    <3> QED
      BY <3>2, <2>3, <2>7, <2>9
  <2> QED
    BY <2>8, <2>9
<1>12. Stored'
  <2>1. Less(Outside, s, f) \in Counts
    BY <1>3, <1>7, LessCounts
  <2>2. \A t \in Streams : \A g \in Frames \ {0} : Buffer(t, g) \in NotInside' => Buffer(t, g) \in NotInside
    BY <1>2, <1>9, NotInsideStays
  <2> QED
    BY <2>1, <2>2, <1>2, <1>8, <1>11, StoredNext
<1>13. Owned(ch)'
  BY <1>1, <1>8, MidKept, OwnedNext
<1> QED
  BY <1>1, <1>2, <1>9, <1>10, <1>12, <1>13 DEF IInv

LEMMA CallbackNext ==
    ASSUME IInv, NEW x \in app, Callback(x)
    PROVE  IInv'
<1>1. /\ attr \in Profiles /\ last \in [Streams -> Frames] /\ CommandsOK /\ StopFollowsCancel /\ AppOK
      /\ Store(ch, Outside, NotInside) /\ Owned(ch)
  BY DEF IInv, Stored
<1> DEFINE y == [x EXCEPT !.at = "callback"]
           z == [x EXCEPT !.at = "HAL"]
<1>2. /\ x.at = "queue" /\ ch' = [ch EXCEPT !.buf_refcnt[x.buf.stream][x.buf.frame] = @ + 1]
      /\ app' = (app \ {x}) \cup {y, z}
      /\ attr' = attr /\ cmd_queue' = cmd_queue /\ last' = last /\ poll' = poll
  BY DEF Callback
<1>3. Outside \in Counts /\ \A s \in Streams : \A f \in Frames : Outside[s][f] = Refs(s, f)
  BY OutsideIs
<1>4. PICK s \in Streams : \E f \in Frames \ {0} :
          /\ x.buf = Buffer(s, f) /\ x = AppRec(Buffer(s, f), x.at) /\ x.at \in {"queue", "callback", "HAL"}
          /\ x.buf.stream = s /\ x.buf.frame = f /\ f <= last[s]
  BY <1>1, AppMember
<1>5. PICK f \in Frames \ {0} :
          /\ x.buf = Buffer(s, f) /\ x = AppRec(Buffer(s, f), x.at) /\ x.at \in {"queue", "callback", "HAL"}
          /\ x.buf.stream = s /\ x.buf.frame = f /\ f <= last[s]
  BY <1>4
<1>6. y = AppRec(Buffer(s, f), "callback") /\ z = AppRec(Buffer(s, f), "HAL")
  BY <1>5 DEF AppRec
<1> HIDE DEF y, z
<1>7. \A w \in app : w.buf = x.buf => w = x
  BY <1>1, <1>2 DEF AppOK
<1>8. AppRec(Buffer(s, f), "callback") \notin app /\ AppRec(Buffer(s, f), "HAL") \notin app
  <2>1. \A a : AppRec(Buffer(s, f), a) \in app => AppRec(Buffer(s, f), a).at = "queue"
    BY <1>2, <1>5, <1>7, AppRecEq
  <2> QED
    BY <2>1, AppRecEq
<1> DEFINE v == ch.buf_refcnt[s][f] + 1
           F == [Outside EXCEPT ![s][f] = @ + 1]
<1>9. F \in Counts /\ \A t \in Streams : \A g \in Frames : F[t][g] = IF t = s /\ g = f THEN Outside[t][g] + 1 ELSE Outside[t][g]
  BY <1>3 DEF Counts
<1>10. v \in Nat /\ v = F[s][f] + IF Inside(ch, s, f) THEN 1 ELSE 0
  <2>1. ch.buf_refcnt[s][f] = Outside[s][f] + IF Inside(ch, s, f) THEN 1 ELSE 0
    BY <1>1, <1>5 DEF Store, Balanced
  <2>2. Outside[s][f] \in Nat
    BY <1>3, <1>5 DEF Counts
  <2> QED
    BY <2>1, <2>2, <1>5, <1>9
<1>11. ch' = [ch EXCEPT !.buf_refcnt[s][f] = v]
  BY <1>2, <1>5
<1> HIDE DEF v, F
<1>12. Store(ch', F, NotInside) /\ SameFlags(ch, ch')
  <2>1. \A t \in Streams : \A g \in Frames : t # s \/ g # f => F[t][g] = Outside[t][g]
    BY <1>9
  <2>2. Recounts(ch, ch', Outside, F, s, f, v)
    BY <2>1, <1>10, <1>11 DEF Recounts
  <2> QED
    BY <2>2, <1>1, <1>3, <1>9, CountStore
<1>13. CommandsOK' /\ StopFollowsCancel' /\ \A t, g : Waiting(Buffer(t, g))' <=> Waiting(Buffer(t, g))
  <2>1. ch'.pending_cnt = ch.pending_cnt
    BY <1>12 DEF SameFlags
  <2> QED
    BY <2>1, <1>1, <1>2, CommandsStay
<1>14. AppOK'
  <2>1. y.buf = x.buf /\ z.buf = x.buf /\ y.at = "callback" /\ z.at = "HAL"
    BY <1>5, <1>6, AppRecEq
  <2>2. \A w \in app' : w = y \/ w = z \/ (w \in app /\ w.buf # x.buf)
    BY <1>2, <1>7
  <2>3. {y, z} \subseteq [buf : [stream : Streams, frame : Frames], at : {"queue", "callback", "HAL"}]
    BY <1>5, <1>6 DEF AppRec, Buffer
  <2>4. app' \subseteq [buf : [stream : Streams, frame : Frames], at : {"queue", "callback", "HAL"}]
    BY <2>3, <1>1, <1>2 DEF AppOK
  <2>5. \A w \in app' : w.buf.frame # 0 /\ w.buf.frame <= last'[w.buf.stream]
    BY <2>1, <2>2, <1>1, <1>2 DEF AppOK
  <2>6. \A w1, w2 \in app' : w1.buf = w2.buf /\ w1.at = "queue" => w2 = w1
    BY <2>1, <2>2, <1>1 DEF AppOK
  <2>7. \A i \in DOMAIN poll' : /\ poll'[i].frame # 0 /\ poll'[i].frame <= last'[poll'[i].stream]
                                /\ \A w \in app' : w.buf # poll'[i]
    BY <2>1, <2>2, <1>1, <1>2 DEF AppOK
  <2>8. poll' = <<>> \/ \E b \in [stream : Streams, frame : Frames] : poll' = <<b>>
    BY <1>1, <1>2 DEF AppOK
  <2> QED
    BY <2>4, <2>5, <2>6, <2>7, <2>8 DEF AppOK
<1>15. \A t \in Streams : \A g \in Frames \ {0} : Refs(t, g)' = F[t][g]
  <2> TAKE t \in Streams
  <2> TAKE g \in Frames \ {0}
  <2>1. \A a : AppRec(Buffer(t, g), a) \in {x, y, z} <=> t = s /\ g = f /\ a \in {"queue", "callback", "HAL"}
    BY <1>2, <1>5, <1>6, AppRecEq
  <2>2. Refs(t, g)' = One(Waiting(Buffer(t, g))') + One(AppRec(Buffer(t, g), "queue") \in app')
               + One(AppRec(Buffer(t, g), "callback") \in app') + One(AppRec(Buffer(t, g), "HAL") \in app')
               + One(poll' = <<Buffer(t, g)>>)
    BY RefsNext
  <2>5. Refs(t, g) = One(Waiting(Buffer(t, g))) + One(AppRec(Buffer(t, g), "queue") \in app)
               + One(AppRec(Buffer(t, g), "callback") \in app) + One(AppRec(Buffer(t, g), "HAL") \in app)
               + One(poll = <<Buffer(t, g)>>)
    BY DEF Refs
  <2>6. Waiting(Buffer(t, g))' <=> Waiting(Buffer(t, g))
    BY <1>13
  <2>3. CASE ~(t = s /\ g = f)
    <3>1. \A a : AppRec(Buffer(t, g), a) \in app' <=> AppRec(Buffer(t, g), a) \in app
      BY <2>1, <2>3, <1>2
    <3>2. Refs(t, g)' = Refs(t, g)
      BY <3>1, <2>2, <2>5, <2>6, <1>2 DEF One
    <3> QED
      BY <3>2, <2>3, <1>3, <1>9
  <2>4. CASE t = s /\ g = f
    <3>1. /\ AppRec(Buffer(t, g), "queue") \in app /\ AppRec(Buffer(t, g), "callback") \notin app
          /\ AppRec(Buffer(t, g), "HAL") \notin app
      BY <2>4, <1>2, <1>5, <1>8
    <3>2. /\ AppRec(Buffer(t, g), "queue") \notin app' /\ AppRec(Buffer(t, g), "callback") \in app'
          /\ AppRec(Buffer(t, g), "HAL") \in app'
      BY <2>4, <1>2, <1>5, <1>6, AppRecEq
    <3>3. Refs(t, g)' = Refs(t, g) + 1
      BY <3>1, <3>2, <2>2, <2>5, <2>6, <1>2 DEF One
    <3> QED
      BY <3>3, <2>4, <1>3, <1>9
  <2> QED
    BY <2>3, <2>4
<1>16. Stored'
  <2>1. \A t \in Streams : \A g \in Frames \ {0} : Buffer(t, g) \in NotInside' => Buffer(t, g) \in NotInside
    BY <1>2, <1>13, NotInsideStays
  <2> QED
    BY <2>1, <1>2, <1>9, <1>12, <1>15, StoredNext
<1>17. Owned(ch)'
  BY <1>1, <1>12, MidKept, OwnedNext
<1> QED
  BY <1>1, <1>2, <1>13, <1>14, <1>16, <1>17 DEF IInv

LEMMA NotifyStreamNext ==
    ASSUME IInv, NotifyStream
    PROVE  IInv'
<1>1. /\ attr \in Profiles /\ last \in [Streams -> Frames] /\ CommandsOK /\ StopFollowsCancel /\ AppOK
      /\ Store(ch, Outside, NotInside) /\ Owned(ch)
  BY DEF IInv, Stored
<1>2. /\ poll # <<>> /\ app' = app \cup {[buf |-> poll[1], at |-> "queue"]} /\ poll' = <<>>
      /\ attr' = attr /\ ch' = ch /\ cmd_queue' = cmd_queue /\ last' = last
  BY DEF NotifyStream
<1>3. Outside \in Counts /\ \A s \in Streams : \A f \in Frames : Outside[s][f] = Refs(s, f)
  BY OutsideIs
<1>4. PICK b \in [stream : Streams, frame : Frames] : poll = <<b>>
  BY <1>1, <1>2 DEF AppOK
<1>5. poll[1] = b /\ DOMAIN poll = {1}
  BY <1>4
<1>6. b.frame # 0 /\ b.frame <= last[b.stream] /\ \A x \in app : x.buf # b
  BY <1>1, <1>5 DEF AppOK
<1> DEFINE y == AppRec(b, "queue")
<1>7. app' = app \cup {y} /\ y.buf = b /\ y.at = "queue"
  BY <1>2, <1>5 DEF AppRec
<1> HIDE DEF y
<1>8. CommandsOK' /\ StopFollowsCancel' /\ \A t, g : Waiting(Buffer(t, g))' <=> Waiting(Buffer(t, g))
  BY <1>1, <1>2, CommandsStay
<1>9. AppOK'
  <2>1. y \in [buf : [stream : Streams, frame : Frames], at : {"queue", "callback", "HAL"}]
    BY DEF AppRec, y
  <2>2. app' \subseteq [buf : [stream : Streams, frame : Frames], at : {"queue", "callback", "HAL"}]
    BY <2>1, <1>1, <1>7 DEF AppOK
  <2>3. \A w \in app' : w = y \/ (w \in app /\ w.buf # b)
    BY <1>6, <1>7
  <2>4. \A w \in app' : w.buf.frame # 0 /\ w.buf.frame <= last'[w.buf.stream]
    BY <2>3, <1>1, <1>2, <1>6, <1>7 DEF AppOK
  <2>5. \A w1, w2 \in app' : w1.buf = w2.buf /\ w1.at = "queue" => w2 = w1
    BY <2>3, <1>1, <1>7 DEF AppOK
  <2> QED
    BY <2>2, <2>4, <2>5, <1>2 DEF AppOK
<1>10. \A t \in Streams : \A g \in Frames \ {0} : Refs(t, g)' = Outside[t][g]
  <2> TAKE t \in Streams
  <2> TAKE g \in Frames \ {0}
  <2>1. Refs(t, g)' = One(Waiting(Buffer(t, g))') + One(AppRec(Buffer(t, g), "queue") \in app')
               + One(AppRec(Buffer(t, g), "callback") \in app') + One(AppRec(Buffer(t, g), "HAL") \in app')
               + One(poll' = <<Buffer(t, g)>>)
    BY RefsNext
  <2>2. Refs(t, g) = One(Waiting(Buffer(t, g))) + One(AppRec(Buffer(t, g), "queue") \in app)
               + One(AppRec(Buffer(t, g), "callback") \in app) + One(AppRec(Buffer(t, g), "HAL") \in app)
               + One(poll = <<Buffer(t, g)>>)
    BY DEF Refs
  <2>3. Waiting(Buffer(t, g))' <=> Waiting(Buffer(t, g))
    BY <1>8
  <2>4. poll' # <<Buffer(t, g)>> /\ (poll = <<Buffer(t, g)>> <=> b = Buffer(t, g))
    BY <1>2, <1>4
  <2>5. /\ AppRec(Buffer(t, g), "callback") # y /\ AppRec(Buffer(t, g), "HAL") # y
        /\ AppRec(Buffer(t, g), "queue") = y <=> b = Buffer(t, g)
    BY AppRecEq, <1>7 DEF y
  <2>6. b = Buffer(t, g) => AppRec(Buffer(t, g), "queue") \notin app
    BY <1>6, AppRecEq
  <2>7. Refs(t, g)' = Refs(t, g)
    BY <2>1, <2>2, <2>3, <2>4, <2>5, <2>6, <1>7 DEF One
  <2> QED
    BY <2>7, <1>3
<1>11. Stored'
  <2>1. \A t \in Streams : \A g \in Frames \ {0} : Buffer(t, g) \in NotInside' => Buffer(t, g) \in NotInside
    BY <1>2, <1>8, NotInsideStays
  <2>2. Store(ch', Outside, NotInside)
    BY <1>1, <1>2
  <2> QED
    BY <2>1, <2>2, <1>2, <1>3, <1>10, StoredNext
<1>12. Owned(ch)'
  BY <1>1, <1>2, OwnedNext
<1> QED
  BY <1>1, <1>2, <1>8, <1>9, <1>11, <1>12 DEF IInv

LEMMA ReturnNext ==
    ASSUME IInv, NEW i \in DOMAIN ch.up, ReturnSuperBuf(i)
    PROVE  IInv'
<1>1. /\ attr \in Profiles /\ last \in [Streams -> Frames] /\ CommandsOK /\ StopFollowsCancel /\ AppOK
      /\ Store(ch, Outside, NotInside) /\ Owned(ch)
  BY DEF IInv, Stored
<1>2. /\ ch' = [qbuf(ch, BuffersIn(ch.up[i])) EXCEPT !.up = RemoveAt(@, i)]
      /\ attr' = attr /\ cmd_queue' = cmd_queue /\ last' = last /\ poll' = poll /\ app' = app
  BY DEF ReturnSuperBuf
<1>3. Outside \in Counts /\ \A s \in Streams : \A f \in Frames : Outside[s][f] = Refs(s, f)
  BY OutsideIs
<1>4. Store(ch', Outside, NotInside) /\ SameFlags(ch, ch')
  BY <1>1, <1>2, <1>3, ReturnStore
<1>5. CommandsOK' /\ StopFollowsCancel' /\ \A t, g : Waiting(Buffer(t, g))' <=> Waiting(Buffer(t, g))
  <2>1. ch'.pending_cnt = ch.pending_cnt
    BY <1>4 DEF SameFlags
  <2> QED
    BY <2>1, <1>1, <1>2, CommandsStay
<1>6. AppOK'
  BY <1>1, <1>2, AppStays
<1>7. \A t \in Streams : \A g \in Frames \ {0} : Refs(t, g)' = Outside[t][g]
  <2> TAKE t \in Streams
  <2> TAKE g \in Frames \ {0}
  <2>1. Refs(t, g)' = One(Waiting(Buffer(t, g))') + One(AppRec(Buffer(t, g), "queue") \in app')
               + One(AppRec(Buffer(t, g), "callback") \in app') + One(AppRec(Buffer(t, g), "HAL") \in app')
               + One(poll' = <<Buffer(t, g)>>)
    BY RefsNext
  <2>2. Refs(t, g) = One(Waiting(Buffer(t, g))) + One(AppRec(Buffer(t, g), "queue") \in app)
               + One(AppRec(Buffer(t, g), "callback") \in app) + One(AppRec(Buffer(t, g), "HAL") \in app)
               + One(poll = <<Buffer(t, g)>>)
    BY DEF Refs
  <2>3. Waiting(Buffer(t, g))' <=> Waiting(Buffer(t, g))
    BY <1>5
  <2>4. Refs(t, g)' = Refs(t, g)
    BY <2>1, <2>2, <2>3, <1>2 DEF One
  <2> QED
    BY <2>4, <1>3
<1>8. Stored'
  <2>1. \A t \in Streams : \A g \in Frames \ {0} : Buffer(t, g) \in NotInside' => Buffer(t, g) \in NotInside
    BY <1>2, <1>5, NotInsideStays
  <2> QED
    BY <2>1, <1>2, <1>3, <1>4, <1>7, StoredNext
<1>9. Owned(ch)'
  BY <1>1, <1>4, MidKept, OwnedNext
<1> QED
  BY <1>1, <1>2, <1>5, <1>6, <1>8, <1>9 DEF IInv

(* A command waits behind the others. *)
LEMMA Queued ==
    ASSUME NEW S, NEW q \in Seq(S), NEW e \in S
    PROVE  LET r == Append(q, e)
           IN /\ r \in Seq(S) /\ DOMAIN r = DOMAIN q \cup {Len(q) + 1} /\ Len(q) + 1 \notin DOMAIN q
              /\ r[Len(q) + 1] = e /\ \A k \in DOMAIN q : r[k] = q[k] /\ (k = 1 \/ k - 1 \in DOMAIN q)
OBVIOUS

LEMMA DataNotifyNext ==
    ASSUME IInv, NEW s \in Streams, mm_stream_data_notify(s)
    PROVE  IInv'
<1>1. /\ attr \in Profiles /\ last \in [Streams -> Frames] /\ CommandsOK /\ StopFollowsCancel /\ AppOK
      /\ Store(ch, Outside, NotInside) /\ Owned(ch)
  BY DEF IInv, Stored
<1>2. /\ poll = <<>> /\ s \in attr.streams /\ attr' = attr /\ app' = app
  BY DEF mm_stream_data_notify
<1>3. PICK f \in Frames :
        /\ f > last[s]
        /\ last' = [last EXCEPT ![s] = f]
        /\ ch' = [ch EXCEPT !.buf_refcnt[s][f] = 1 + IF s \in CbStreams THEN 1 ELSE 0]
        /\ cmd_queue' = Append(cmd_queue, [type |-> "DATA_CB", arg |-> Buffer(s, f)])
        /\ poll' = IF s \in CbStreams THEN <<Buffer(s, f)>> ELSE <<>>
  BY DEF mm_stream_data_notify
<1>4. Outside \in Counts /\ \A t \in Streams : \A g \in Frames : Outside[t][g] = Refs(t, g)
  BY OutsideIs
<1>5. f \in Frames \ {0} /\ last[s] \in Frames /\ \A g \in Frames : g \in Nat
  BY <1>1, <1>3 DEF Frames
<1>6. /\ last' \in [Streams -> Frames] /\ last'[s] = f
      /\ \A t \in Streams : t # s => last'[t] = last[t]
  BY <1>1, <1>3, <1>5
<1>7. \A t \in Streams : last[t] <= last'[t] /\ last[t] \in Nat /\ last'[t] \in Nat
  BY <1>1, <1>3, <1>5, <1>6
<1> DEFINE e == [type |-> "DATA_CB", arg |-> Buffer(s, f)]
           n == Len(cmd_queue) + 1
<1>8. /\ e.type = "DATA_CB" /\ e.arg = Buffer(s, f) /\ e \in DataCommands
      /\ e.arg.stream = s /\ e.arg.frame = f
  BY <1>5 DEF DataCommands, Buffer
<1>9. cmd_queue' = Append(cmd_queue, e)
  BY <1>3
<1> HIDE DEF e
<1>10. /\ (cmd_queue \in Seq(HalCommands \cup DataCommands))'
       /\ DOMAIN cmd_queue' = DOMAIN cmd_queue \cup {n} /\ n \notin DOMAIN cmd_queue /\ cmd_queue'[n] = e
       /\ \A k \in DOMAIN cmd_queue : cmd_queue'[k] = cmd_queue[k] /\ (k = 1 \/ k - 1 \in DOMAIN cmd_queue)
  <2> DEFINE S == HalCommands \cup DataCommands
  <2>1. cmd_queue \in Seq(S) /\ e \in S
    BY <1>1, <1>8 DEF CommandsOK
  <2> HIDE DEF S
  <2>2. /\ cmd_queue' \in Seq(S)
        /\ DOMAIN cmd_queue' = DOMAIN cmd_queue \cup {n} /\ n \notin DOMAIN cmd_queue /\ cmd_queue'[n] = e
        /\ \A k \in DOMAIN cmd_queue : cmd_queue'[k] = cmd_queue[k] /\ (k = 1 \/ k - 1 \in DOMAIN cmd_queue)
    BY <2>1, <1>9, Queued
  <2>3. (cmd_queue \in Seq(HalCommands \cup DataCommands))'
    BY <2>2 DEF S
  <2> QED
    BY <2>2, <2>3
<1> HIDE DEF n
<1>11. \A k \in DOMAIN cmd_queue : cmd_queue[k].type = "DATA_CB" =>
          /\ cmd_queue[k].arg.stream \in attr.streams /\ cmd_queue[k].arg.frame # 0
          /\ cmd_queue[k].arg.frame <= last[cmd_queue[k].arg.stream]
          /\ cmd_queue[k].arg.stream \in Streams /\ cmd_queue[k].arg.frame \in Frames
          /\ cmd_queue[k].arg # Buffer(s, f)
  <2> SUFFICES ASSUME NEW k \in DOMAIN cmd_queue, cmd_queue[k].type = "DATA_CB"
               PROVE  /\ cmd_queue[k].arg.stream \in attr.streams /\ cmd_queue[k].arg.frame # 0
                      /\ cmd_queue[k].arg.frame <= last[cmd_queue[k].arg.stream]
                      /\ cmd_queue[k].arg.stream \in Streams /\ cmd_queue[k].arg.frame \in Frames
                      /\ cmd_queue[k].arg # Buffer(s, f)
    OBVIOUS
  <2>1. cmd_queue[k] \in DataCommands
    <3>1. cmd_queue[k] \in HalCommands \cup DataCommands
      BY <1>1 DEF CommandsOK
    <3> QED
      BY <3>1, CommandKinds
  <2>2. cmd_queue[k].arg.stream \in Streams /\ cmd_queue[k].arg.frame \in Frames
    BY <2>1 DEF DataCommands
  <2>3. /\ cmd_queue[k].arg.stream \in attr.streams /\ cmd_queue[k].arg.frame # 0
        /\ cmd_queue[k].arg.frame <= last[cmd_queue[k].arg.stream]
    BY <1>1 DEF CommandsOK
  <2>4. cmd_queue[k].arg # Buffer(s, f)
    <3>1. Buffer(s, f).stream = s /\ Buffer(s, f).frame = f
      BY DEF Buffer
    <3>2. ~(f <= last[s])
      BY <1>3, <1>5
    <3> QED
      BY <2>3, <3>1, <3>2
  <2> QED
    BY <2>2, <2>3, <2>4
<1>12. CommandsOK'
  <2>1. \A k \in DOMAIN cmd_queue' : cmd_queue'[k].type = "DATA_CB" =>
            /\ cmd_queue'[k].arg.stream \in attr'.streams /\ cmd_queue'[k].arg.frame # 0
            /\ cmd_queue'[k].arg.frame <= last'[cmd_queue'[k].arg.stream]
    <3> SUFFICES ASSUME NEW k \in DOMAIN cmd_queue', cmd_queue'[k].type = "DATA_CB"
                 PROVE  /\ cmd_queue'[k].arg.stream \in attr'.streams /\ cmd_queue'[k].arg.frame # 0
                        /\ cmd_queue'[k].arg.frame <= last'[cmd_queue'[k].arg.stream]
      OBVIOUS
    <3>1. CASE k = n
      BY <3>1, <1>2, <1>5, <1>6, <1>8, <1>10
    <3>2. CASE k # n
      <4>1. k \in DOMAIN cmd_queue /\ cmd_queue'[k] = cmd_queue[k]
        BY <3>2, <1>10
      <4> QED
        BY <4>1, <1>2, <1>5, <1>7, <1>11
    <3> QED
      BY <3>1, <3>2
  <2>2. \A k, l \in DOMAIN cmd_queue' :
            cmd_queue'[k].type = "DATA_CB" /\ cmd_queue'[l].type = "DATA_CB" /\ cmd_queue'[k].arg = cmd_queue'[l].arg
            => k = l
    <3>1. \A k, l \in DOMAIN cmd_queue :
            cmd_queue[k].type = "DATA_CB" /\ cmd_queue[l].type = "DATA_CB" /\ cmd_queue[k].arg = cmd_queue[l].arg
            => k = l
      BY <1>1 DEF CommandsOK
    <3> QED
      BY <3>1, <1>8, <1>10, <1>11
  <2> QED
    BY <1>10, <2>1, <2>2 DEF CommandsOK
<1>13. StopFollowsCancel'
  <2>1. ch'.pending_cnt = ch.pending_cnt
    BY <1>1, <1>3 DEF Store, StoreTypes, Chan, Fields
  <2> SUFFICES ASSUME NEW k \in DOMAIN cmd_queue', cmd_queue'[k].type = "STOP_ZSL"
               PROVE  IF k = 1 THEN ch'.pending_cnt = 0 ELSE Cancels(cmd_queue'[k - 1])
    BY DEF StopFollowsCancel, Cancels
  <2>2. k \in DOMAIN cmd_queue /\ cmd_queue'[k] = cmd_queue[k]
    BY <1>8, <1>10
  <2>3. IF k = 1 THEN ch.pending_cnt = 0 ELSE Cancels(cmd_queue[k - 1])
    BY <2>2, <1>1 DEF StopFollowsCancel
  <2>4. k # 1 => cmd_queue'[k - 1] = cmd_queue[k - 1]
    BY <2>2, <1>10
  <2> QED
    BY <2>1, <2>3, <2>4
<1>14. \A t, g : Waiting(Buffer(t, g))' <=> Waiting(Buffer(t, g)) \/ (t = s /\ g = f)
  <2> TAKE t, g
  <2>1. Waiting(Buffer(t, g))' <=>
            \E k \in DOMAIN cmd_queue' : cmd_queue'[k].type = "DATA_CB" /\ cmd_queue'[k].arg = Buffer(t, g)
    BY DEF Waiting, Carries, Buffer
  <2>2. Waiting(Buffer(t, g)) <=>
            \E k \in DOMAIN cmd_queue : cmd_queue[k].type = "DATA_CB" /\ cmd_queue[k].arg = Buffer(t, g)
    BY WaitingIs
  <2>3. e.arg = Buffer(t, g) <=> t = s /\ g = f
    BY <1>8, BufferEq
  <2> QED
    BY <2>1, <2>2, <2>3, <1>8, <1>10
<1>15. ~Waiting(Buffer(s, f))
  BY <1>11, WaitingIs
<1>16. \A x \in app : x.buf # Buffer(s, f)
  <2> SUFFICES ASSUME NEW x \in app, x.buf = Buffer(s, f) PROVE FALSE
    OBVIOUS
  <2>1. x.buf.frame <= last[x.buf.stream]
    BY <1>1 DEF AppOK
  <2>2. x.buf.frame = f /\ x.buf.stream = s
    BY DEF Buffer
  <2> QED
    BY <2>1, <2>2, <1>3, <1>5
<1>17. AppOK'
  <2>1. app' \subseteq [buf : [stream : Streams, frame : Frames], at : {"queue", "callback", "HAL"}]
    BY <1>1, <1>2 DEF AppOK
  <2>2. Buffer(s, f) \in [stream : Streams, frame : Frames] /\ Buffer(s, f).frame = f /\ Buffer(s, f).stream = s
    BY <1>5 DEF Buffer
  <2>3. poll' = <<>> \/ \E b \in [stream : Streams, frame : Frames] : poll' = <<b>>
    BY <2>2, <1>3
  <2>4. \A x \in app' : x.buf.frame # 0 /\ x.buf.frame <= last'[x.buf.stream]
    <3> SUFFICES ASSUME NEW x \in app PROVE x.buf.frame # 0 /\ x.buf.frame <= last'[x.buf.stream]
      BY <1>2
    <3>1. PICK t \in Streams : \E g \in Frames \ {0} :
              /\ x.buf = Buffer(t, g) /\ x = AppRec(Buffer(t, g), x.at) /\ x.at \in {"queue", "callback", "HAL"}
              /\ x.buf.stream = t /\ x.buf.frame = g /\ g <= last[t]
      BY <1>1, AppMember
    <3> QED
      BY <3>1, <1>5, <1>7
  <2>5. \A x, y \in app' : x.buf = y.buf /\ x.at = "queue" => y = x
    BY <1>1, <1>2 DEF AppOK
  <2>6. \A k \in DOMAIN poll' : poll'[k] = Buffer(s, f)
    BY <1>3
  <2>7. \A k \in DOMAIN poll' : /\ poll'[k].frame # 0 /\ poll'[k].frame <= last'[poll'[k].stream]
                                /\ \A x \in app' : x.buf # poll'[k]
    BY <2>2, <2>6, <1>2, <1>5, <1>6, <1>16
  <2> QED
    BY <2>1, <2>3, <2>4, <2>5, <2>7 DEF AppOK
<1> DEFINE v == 1 + One(s \in CbStreams)
           F == [Outside EXCEPT ![s][f] = v]
<1>18. v \in Nat /\ v = 1 + IF s \in CbStreams THEN 1 ELSE 0
  BY DEF One
<1> HIDE DEF v
<1>19. F \in Counts /\ \A t \in Streams : \A g \in Frames : F[t][g] = IF t = s /\ g = f THEN v ELSE Outside[t][g]
  BY <1>4, <1>18 DEF Counts
<1> HIDE DEF F
<1>20. ~Inside(ch, s, f)
  <2>1. Buffer(s, f) \in NotInside
    BY <1>3, NotInsideIs
  <2> QED
    BY <2>1, <1>1, <1>5 DEF Store, Apart
<1>21. Store(ch', F, NotInside) /\ SameFlags(ch, ch')
  <2>1. \A t \in Streams : \A g \in Frames : t # s \/ g # f => F[t][g] = Outside[t][g]
    BY <1>19
  <2>2. ch' = [ch EXCEPT !.buf_refcnt[s][f] = v]
    BY <1>3, <1>18
  <2>3. v = F[s][f] + IF Inside(ch, s, f) THEN 1 ELSE 0
    BY <1>5, <1>18, <1>19, <1>20
  <2>4. Recounts(ch, ch', Outside, F, s, f, v)
    BY <2>1, <2>2, <2>3, <1>18 DEF Recounts
  <2> QED
    BY <2>4, <1>1, <1>4, <1>5, <1>19, CountStore
<1>22. \A t \in Streams : \A g \in Frames \ {0} : Refs(t, g)' = F[t][g]
  <2> TAKE t \in Streams
  <2> TAKE g \in Frames \ {0}
  <2>1. Refs(t, g)' = One(Waiting(Buffer(t, g))') + One(AppRec(Buffer(t, g), "queue") \in app')
               + One(AppRec(Buffer(t, g), "callback") \in app') + One(AppRec(Buffer(t, g), "HAL") \in app')
               + One(poll' = <<Buffer(t, g)>>)
    BY RefsNext
  <2>2. Refs(t, g) = One(Waiting(Buffer(t, g))) + One(AppRec(Buffer(t, g), "queue") \in app)
               + One(AppRec(Buffer(t, g), "callback") \in app) + One(AppRec(Buffer(t, g), "HAL") \in app)
               + One(poll = <<Buffer(t, g)>>)
    BY DEF Refs
  <2>3. Waiting(Buffer(t, g))' <=> Waiting(Buffer(t, g)) \/ (t = s /\ g = f)
    BY <1>14
  <2>4. poll # <<Buffer(t, g)>> /\ (poll' = <<Buffer(t, g)>> <=> s \in CbStreams /\ t = s /\ g = f)
    <3>1. Buffer(s, f) = Buffer(t, g) <=> t = s /\ g = f
      BY BufferEq
    <3> QED
      BY <3>1, <1>2, <1>3
  <2>5. CASE ~(t = s /\ g = f)
    <3>1. Refs(t, g)' = Refs(t, g)
      BY <2>1, <2>2, <2>3, <2>4, <2>5, <1>2 DEF One
    <3> QED
      BY <3>1, <2>5, <1>4, <1>19
  <2>6. CASE t = s /\ g = f
    <3>1. \A a : AppRec(Buffer(t, g), a) \notin app
      BY <2>6, <1>16, AppRecEq
    <3>2. Refs(t, g)' = 1 + One(s \in CbStreams)
      BY <3>1, <2>1, <2>3, <2>4, <2>6, <1>2 DEF One
    <3> QED
      BY <3>2, <2>6, <1>19 DEF v
  <2> QED
    BY <2>5, <2>6
<1>23. Stored'
  <2>1. \A t \in Streams : \A g \in Frames \ {0} : Buffer(t, g) \in NotInside' => Buffer(t, g) \in NotInside
    <3> SUFFICES ASSUME NEW t \in Streams, NEW g \in Frames \ {0}, Buffer(t, g) \in NotInside'
                 PROVE  Buffer(t, g) \in NotInside
      OBVIOUS
    <3>1. g > last'[t] \/ Waiting(Buffer(t, g)) \/ (t = s /\ g = f)
      BY <1>14, NotInsideNext
    <3>2. g > last[t] \/ Waiting(Buffer(t, g))
      BY <3>1, <1>3, <1>5, <1>7
    <3> QED
      BY <3>2, NotInsideIs
  <2> QED
    BY <2>1, <1>2, <1>19, <1>21, <1>22, StoredNext
<1>24. Owned(ch)'
  BY <1>1, <1>21, MidKept, OwnedNext
<1> QED
  BY <1>1, <1>2, <1>6, <1>12, <1>13, <1>17, <1>23, <1>24 DEF IInv

(* An operation of the HAL brings no buffer, and stops only where it has cancelled. *)
LEMMA OperateNext ==
    ASSUME IInv, Operate
    PROVE  IInv'
<1>1. /\ attr \in Profiles /\ last \in [Streams -> Frames] /\ CommandsOK /\ StopFollowsCancel /\ AppOK
      /\ Store(ch, Outside, NotInside) /\ Owned(ch)
  BY DEF IInv, Stored
<1>2. attr' = attr /\ ch' = ch /\ last' = last /\ poll' = poll /\ app' = app
  BY DEF Operate
<1>3. PICK op \in Operations(attr) : cmd_queue' = cmd_queue \o op
  BY DEF Operate, Operations
<1>4. /\ op \in Seq(HalCommands)
      /\ \A i \in DOMAIN op : op[i].type = "STOP_ZSL" => i > 1 /\ Cancels(op[i - 1])
  BY <1>1, <1>3, OperationsAssumption
<1> DEFINE S == HalCommands \cup DataCommands
           n == Len(cmd_queue)
           m == Len(op)
<1>5. cmd_queue \in Seq(S) /\ op \in Seq(S) /\ \A k \in DOMAIN op : op[k] \in HalCommands
  BY <1>1, <1>4 DEF CommandsOK
<1> HIDE DEF S
<1>6. n \in Nat /\ m \in Nat /\ DOMAIN cmd_queue = 1 .. n /\ DOMAIN op = 1 .. m
  BY <1>5
<1>7. /\ cmd_queue' \in Seq(S) /\ Len(cmd_queue') = n + m
      /\ \A k \in 1 .. n : cmd_queue'[k] = cmd_queue[k]
      /\ \A k \in n + 1 .. n + m : cmd_queue'[k] = op[k - n]
  BY <1>3, <1>5, Joined
<1>8. DOMAIN cmd_queue' = 1 .. n + m
  BY <1>6, <1>7
<1> HIDE DEF n, m
<1>9. \A k \in DOMAIN cmd_queue' : \/ k \in DOMAIN cmd_queue /\ cmd_queue'[k] = cmd_queue[k]
                                   \/ k \in n + 1 .. n + m /\ k - n \in DOMAIN op /\ cmd_queue'[k] = op[k - n]
  BY <1>6, <1>7, <1>8
<1>10. \A k \in DOMAIN cmd_queue : k \in DOMAIN cmd_queue' /\ cmd_queue'[k] = cmd_queue[k]
  BY <1>6, <1>7, <1>8
<1>11. \A k \in DOMAIN op : op[k].type # "DATA_CB"
  BY <1>5, CommandKinds
<1>12. \A k \in DOMAIN cmd_queue' : cmd_queue'[k].type = "DATA_CB" =>
          k \in DOMAIN cmd_queue /\ cmd_queue'[k] = cmd_queue[k]
  BY <1>9, <1>11
<1>13. CommandsOK'
  <2>1. (cmd_queue \in Seq(HalCommands \cup DataCommands))'
    BY <1>7 DEF S
  <2>2. \A k \in DOMAIN cmd_queue' : cmd_queue'[k].type = "DATA_CB" =>
            /\ cmd_queue'[k].arg.stream \in attr'.streams /\ cmd_queue'[k].arg.frame # 0
            /\ cmd_queue'[k].arg.frame <= last'[cmd_queue'[k].arg.stream]
    BY <1>1, <1>2, <1>12 DEF CommandsOK
  <2>3. \A k, l \in DOMAIN cmd_queue' :
            cmd_queue'[k].type = "DATA_CB" /\ cmd_queue'[l].type = "DATA_CB" /\ cmd_queue'[k].arg = cmd_queue'[l].arg
            => k = l
    BY <1>1, <1>12 DEF CommandsOK
  <2> QED
    BY <2>1, <2>2, <2>3 DEF CommandsOK
<1>14. StopFollowsCancel'
  <2> SUFFICES ASSUME NEW k \in DOMAIN cmd_queue', cmd_queue'[k].type = "STOP_ZSL"
               PROVE  IF k = 1 THEN ch'.pending_cnt = 0 ELSE Cancels(cmd_queue'[k - 1])
    BY DEF StopFollowsCancel, Cancels
  <2>1. CASE k \in DOMAIN cmd_queue
    <3>1. cmd_queue'[k] = cmd_queue[k]
      BY <2>1, <1>10
    <3>2. IF k = 1 THEN ch.pending_cnt = 0 ELSE Cancels(cmd_queue[k - 1])
      BY <2>1, <3>1, <1>1 DEF StopFollowsCancel
    <3>3. k # 1 => k - 1 \in DOMAIN cmd_queue
      BY <2>1, <1>6
    <3>4. k # 1 => cmd_queue'[k - 1] = cmd_queue[k - 1]
      BY <3>3, <1>10
    <3> QED
      BY <3>2, <3>4, <1>2
  <2>2. CASE k \notin DOMAIN cmd_queue
    <3>1. k \in n + 1 .. n + m /\ k - n \in DOMAIN op /\ cmd_queue'[k] = op[k - n]
      BY <2>2, <1>9
    <3>2. k - n > 1 /\ Cancels(op[(k - n) - 1])
      BY <3>1, <1>4
    <3>3. k - 1 \in n + 1 .. n + m /\ (k - 1) - n = (k - n) - 1 /\ k # 1
      BY <3>1, <3>2, <1>6
    <3>4. cmd_queue'[k - 1] = op[(k - n) - 1]
      BY <3>3, <1>7
    <3> QED
      BY <3>2, <3>3, <3>4
  <2> QED
    BY <2>1, <2>2
<1>15. \A t, g : Waiting(Buffer(t, g))' <=> Waiting(Buffer(t, g))
  <2> TAKE t, g
  <2>1. Waiting(Buffer(t, g))' <=>
            \E k \in DOMAIN cmd_queue' : cmd_queue'[k].type = "DATA_CB" /\ cmd_queue'[k].arg = Buffer(t, g)
    BY DEF Waiting, Carries, Buffer
  <2>2. Waiting(Buffer(t, g)) <=>
            \E k \in DOMAIN cmd_queue : cmd_queue[k].type = "DATA_CB" /\ cmd_queue[k].arg = Buffer(t, g)
    BY WaitingIs
  <2> QED
    BY <2>1, <2>2, <1>10, <1>12
<1>16. AppOK'
  BY <1>1, <1>2, AppStays
<1>17. \A t \in Streams : \A g \in Frames \ {0} : Refs(t, g)' = Outside[t][g]
  <2> TAKE t \in Streams
  <2> TAKE g \in Frames \ {0}
  <2>1. Refs(t, g)' = One(Waiting(Buffer(t, g))') + One(AppRec(Buffer(t, g), "queue") \in app')
               + One(AppRec(Buffer(t, g), "callback") \in app') + One(AppRec(Buffer(t, g), "HAL") \in app')
               + One(poll' = <<Buffer(t, g)>>)
    BY RefsNext
  <2>2. Refs(t, g) = One(Waiting(Buffer(t, g))) + One(AppRec(Buffer(t, g), "queue") \in app)
               + One(AppRec(Buffer(t, g), "callback") \in app) + One(AppRec(Buffer(t, g), "HAL") \in app)
               + One(poll = <<Buffer(t, g)>>)
    BY DEF Refs
  <2>3. Waiting(Buffer(t, g))' <=> Waiting(Buffer(t, g))
    BY <1>15
  <2>4. Refs(t, g)' = Refs(t, g)
    BY <2>1, <2>2, <2>3, <1>2 DEF One
  <2> QED
    BY <2>4, OutsideIs
<1>18. Stored'
  <2>1. \A t \in Streams : \A g \in Frames \ {0} : Buffer(t, g) \in NotInside' => Buffer(t, g) \in NotInside
    BY <1>2, <1>15, NotInsideStays
  <2>2. Store(ch', Outside, NotInside) /\ Outside \in Counts
    BY <1>1, <1>2, OutsideIs
  <2> QED
    BY <2>1, <2>2, <1>2, <1>17, StoredNext
<1>19. Owned(ch)'
  BY <1>1, <1>2, OwnedNext
<1> QED
  BY <1>1, <1>2, <1>13, <1>14, <1>16, <1>18, <1>19 DEF IInv

LEMMA StutterNext ==
    ASSUME IInv, UNCHANGED vars
    PROVE  IInv'
<1>1. /\ attr \in Profiles /\ last \in [Streams -> Frames] /\ CommandsOK /\ StopFollowsCancel /\ AppOK
      /\ Store(ch, Outside, NotInside) /\ Owned(ch)
  BY DEF IInv, Stored
<1>2. /\ attr' = attr /\ ch' = ch /\ cmd_queue' = cmd_queue /\ last' = last /\ poll' = poll /\ app' = app
  BY DEF vars
<1>3. CommandsOK' /\ StopFollowsCancel' /\ \A t, g : Waiting(Buffer(t, g))' <=> Waiting(Buffer(t, g))
  BY <1>1, <1>2, CommandsStay
<1>4. AppOK'
  BY <1>1, <1>2, AppStays
<1>5. \A t \in Streams : \A g \in Frames \ {0} : Refs(t, g)' = Outside[t][g]
  <2> TAKE t \in Streams
  <2> TAKE g \in Frames \ {0}
  <2>1. Refs(t, g)' = One(Waiting(Buffer(t, g))') + One(AppRec(Buffer(t, g), "queue") \in app')
               + One(AppRec(Buffer(t, g), "callback") \in app') + One(AppRec(Buffer(t, g), "HAL") \in app')
               + One(poll' = <<Buffer(t, g)>>)
    BY RefsNext
  <2>2. Refs(t, g) = One(Waiting(Buffer(t, g))) + One(AppRec(Buffer(t, g), "queue") \in app)
               + One(AppRec(Buffer(t, g), "callback") \in app) + One(AppRec(Buffer(t, g), "HAL") \in app)
               + One(poll = <<Buffer(t, g)>>)
    BY DEF Refs
  <2>3. Waiting(Buffer(t, g))' <=> Waiting(Buffer(t, g))
    BY <1>3
  <2>4. Refs(t, g)' = Refs(t, g)
    BY <2>1, <2>2, <2>3, <1>2 DEF One
  <2> QED
    BY <2>4, OutsideIs
<1>6. Stored'
  <2>1. \A t \in Streams : \A g \in Frames \ {0} : Buffer(t, g) \in NotInside' => Buffer(t, g) \in NotInside
    BY <1>2, <1>3, NotInsideStays
  <2>2. Store(ch', Outside, NotInside) /\ Outside \in Counts
    BY <1>1, <1>2, OutsideIs
  <2> QED
    BY <2>1, <2>2, <1>2, <1>5, StoredNext
<1>7. Owned(ch)'
  BY <1>1, <1>2, OwnedNext
<1> QED
  BY <1>1, <1>2, <1>3, <1>4, <1>6, <1>7 DEF IInv

LEMMA NextIInv == IInv /\ [Next]_vars => IInv'
<1> SUFFICES ASSUME IInv, [Next]_vars PROVE IInv'
  OBVIOUS
<1>1. CASE ProcessCommand
  BY <1>1, ProcessNext
<1>2. ASSUME NEW s \in Streams, mm_stream_data_notify(s) PROVE IInv'
  BY <1>2, DataNotifyNext
<1>3. CASE NotifyStream
  BY <1>3, NotifyStreamNext
<1>4. ASSUME NEW x \in app, Callback(x) PROVE IInv'
  BY <1>4, CallbackNext
<1>5. ASSUME NEW x \in app, LetGo(x) PROVE IInv'
  BY <1>5, LetGoNext
<1>6. ASSUME NEW i \in DOMAIN ch.up, ReturnSuperBuf(i) PROVE IInv'
  BY <1>6, ReturnNext
<1>7. CASE Operate
  BY <1>7, OperateNext
<1>8. CASE UNCHANGED vars
  BY <1>8, StutterNext
<1> QED
  BY <1>1, <1>2, <1>3, <1>4, <1>5, <1>6, <1>7, <1>8 DEF Next

-----------------------------------------------------------------------------
(* What the commands that wait, the queue, the super buffers handed up, the streams' threads and the      *)
(* snapshot flags say of each other always holds, whatever the profiles, operations and metadata.         *)
THEOREM Invariance == Spec => []IInv
<1>1. Init => IInv
  BY InitIInv
<1>2. IInv /\ [Next]_vars => IInv'
  BY NextIInv
<1> QED
  BY <1>1, <1>2, PTL DEF Spec

(* The daemon is in snapshot mode exactly while the channel believes so, and only for a picture that is    *)
(* still to come or by the HAL's own order: FlashControl and CountDown end it with the last frame of the   *)
(* burst, after a cancel, and with the flash range (mm_channel_process_stream_buf).                        *)
THEOREM SnapshotModeOwned == Spec => []ZslHasOwner
<1>1. IInv => ZslHasOwner
  BY DEF IInv, Owned, Flags, ZslHasOwner
<1> QED
  BY <1>1, Invariance, PTL

-----------------------------------------------------------------------------
(* The references counted are the holders. *)

(* A set of at most one element. *)
LEMMA AtMostOne ==
    ASSUME NEW T, \A x, y \in T : x = y
    PROVE  IsFiniteSet(T) /\ Cardinality(T) = One(T # {})
<1>1. CASE T = {}
  BY <1>1, FS_EmptySet DEF One
<1>2. CASE T # {}
  <2>1. PICK x : x \in T
    BY <1>2
  <2>2. T = {x}
    BY <2>1
  <2> QED
    BY <2>2, <1>2, FS_Singleton DEF One
<1> QED
  BY <1>1, <1>2

(* The commands that wait for the channel's thread. *)
LEMMA WaitingCount ==
    ASSUME CommandsOK, NEW b
    PROVE  Cardinality({i \in DOMAIN cmd_queue : Carries(cmd_queue[i], b)}) = One(Waiting(b))
<1> DEFINE T == {i \in DOMAIN cmd_queue : Carries(cmd_queue[i], b)}
<1>1. \A i, j \in T : i = j
  BY DEF CommandsOK, Carries
<1>2. T # {} <=> Waiting(b)
  BY DEF Waiting
<1> HIDE DEF T
<1>3. Cardinality(T) = One(T # {})
  BY <1>1, AtMostOne
<1>4. One(T # {}) = One(Waiting(b))
  BY <1>2 DEF One
<1> QED
  BY <1>3, <1>4 DEF T

(* The queue and the super buffers handed up. *)
LEMMA InsideCount ==
    ASSUME NEW s \in Streams, NEW f \in Frames \ {0}, OneHolder(ch)
    PROVE  Cardinality({i \in DOMAIN ch.queue : Buffer(s, f) \in BufsOf(ch.queue[i])})
           + Cardinality({i \in DOMAIN ch.up : Buffer(s, f) \in BuffersIn(ch.up[i])})
           = One(Inside(ch, s, f))
<1> DEFINE T == {i \in DOMAIN ch.queue : Buffer(s, f) \in BufsOf(ch.queue[i])}
           U == {i \in DOMAIN ch.up : Buffer(s, f) \in BuffersIn(ch.up[i])}
<1>1. \A i : i \in T <=> i \in DOMAIN ch.queue /\ InQueue(ch, i, s, f)
  BY BufsOfNode DEF InQueue
<1>2. \A i : i \in U <=> i \in DOMAIN ch.up /\ InUp(ch, i, s, f)
  BY BuffersInSuperBuf DEF InUp
<1> HIDE DEF T, U
<1>3. \A i, j \in T : i = j
  BY <1>1 DEF OneHolder
<1>4. \A i, j \in U : i = j
  BY <1>2 DEF OneHolder
<1>5. ~(T # {} /\ U # {})
  BY <1>1, <1>2 DEF OneHolder
<1>6. Inside(ch, s, f) <=> T # {} \/ U # {}
  BY <1>1, <1>2 DEF Inside
<1>7. Cardinality(T) = One(T # {}) /\ Cardinality(U) = One(U # {})
  BY <1>3, <1>4, AtMostOne
<1>8. One(T # {}) + One(U # {}) = One(Inside(ch, s, f))
  BY <1>5, <1>6 DEF One
<1> QED
  BY <1>7, <1>8 DEF T, U

(* The stream's thread and the HAL. *)
LEMMA AppCount ==
    ASSUME AppOK, NEW s, NEW f
    PROVE  Cardinality({x \in app : x.buf = Buffer(s, f)})
           = One(AppRec(Buffer(s, f), "queue") \in app) + One(AppRec(Buffer(s, f), "callback") \in app)
             + One(AppRec(Buffer(s, f), "HAL") \in app)
<1> DEFINE b == Buffer(s, f)
           T(a) == {x \in app : x = AppRec(b, a)}
<1>1. \A a : (\A x, y \in T(a) : x = y) /\ (T(a) # {} <=> AppRec(b, a) \in app)
  OBVIOUS
<1>2. \A a : IsFiniteSet(T(a)) /\ Cardinality(T(a)) = One(T(a) # {})
  BY <1>1, AtMostOne
<1>3. \A a : Cardinality(T(a)) = One(AppRec(b, a) \in app) /\ Cardinality(T(a)) \in Nat
  BY <1>1, <1>2 DEF One
<1>4. \A a, c : a # c => T(a) \cap T(c) = {}
  BY AppRecEq
<1>5. {x \in app : x.buf = b} = (T("queue") \cup T("callback")) \cup T("HAL")
  <2>1. ASSUME NEW x \in app, x.buf = b PROVE x \in (T("queue") \cup T("callback")) \cup T("HAL")
    <3>1. x = AppRec(x.buf, x.at) /\ x.at \in {"queue", "callback", "HAL"}
      BY <2>1, AppMember
    <3> QED
      BY <2>1, <3>1
  <2>2. \A a : AppRec(b, a).buf = b
    BY DEF AppRec
  <2> QED
    BY <2>1, <2>2
<1> HIDE DEF T
<1>6. T("queue") \cap T("callback") = {} /\ (T("queue") \cup T("callback")) \cap T("HAL") = {}
  BY <1>4
<1>7. Cardinality({}) = 0
  BY FS_EmptySet
<1> DEFINE Q == T("queue")
           C == T("callback")
           H == T("HAL")
<1>8. IsFiniteSet(Q) /\ IsFiniteSet(C) /\ IsFiniteSet(H)
  BY <1>2
<1> HIDE DEF Q, C, H
<1>9. IsFiniteSet(Q \cup C) /\ Cardinality(Q \cup C) = Cardinality(Q) + Cardinality(C) - Cardinality(Q \cap C)
  BY <1>8, FS_Union
<1>10. Cardinality((Q \cup C) \cup H) = Cardinality(Q \cup C) + Cardinality(H) - Cardinality((Q \cup C) \cap H)
  BY <1>8, <1>9, FS_Union
<1>11. Cardinality((Q \cup C) \cup H) = Cardinality(Q) + Cardinality(C) + Cardinality(H)
  <2>1. Cardinality(Q \cap C) = 0 /\ Cardinality((Q \cup C) \cap H) = 0
    BY <1>6, <1>7 DEF Q, C, H
  <2>2. Cardinality(Q) \in Nat /\ Cardinality(C) \in Nat /\ Cardinality(H) \in Nat
    BY <1>3 DEF Q, C, H
  <2> QED
    BY <2>1, <2>2, <1>9, <1>10
<1> QED
  BY <1>3, <1>5, <1>11 DEF Q, C, H

(* The poll thread. *)
LEMMA PollCount ==
    ASSUME AppOK, NEW b
    PROVE  Cardinality({i \in DOMAIN poll : poll[i] = b}) = One(poll = <<b>>)
<1> DEFINE T == {i \in DOMAIN poll : poll[i] = b}
<1>1. (\A i, j \in T : i = j) /\ (T # {} <=> poll = <<b>>)
  <2>1. CASE poll = <<>>
    BY <2>1
  <2>2. ASSUME NEW c, poll = <<c>> PROVE (\A i, j \in T : i = j) /\ (T # {} <=> poll = <<b>>)
    <3>1. DOMAIN poll = {1} /\ poll[1] = c
      BY <2>2
    <3>2. poll = <<b>> <=> c = b
      BY <2>2
    <3> QED
      BY <3>1, <3>2
  <2> QED
    BY <2>1, <2>2 DEF AppOK
<1> HIDE DEF T
<1>2. Cardinality(T) = One(T # {})
  BY <1>1, AtMostOne
<1> QED
  BY <1>1, <1>2 DEF One, T

(* A buffer's count is the number of those who still hold it, so that it goes back to the kernel when the  *)
(* last of them gave it back and not before: the command that waits, the node or the super buffer it is    *)
(* in, the poll thread, the stream's own thread and the HAL (mm_stream_buf_done, comp_and_enqueue and the  *)
(* functions that give super buffers back).                                                               *)
THEOREM CountsAreHolders == Spec => []BuffersAccounted
<1>1. IInv => BuffersAccounted
  <2> SUFFICES ASSUME IInv, NEW s \in Streams, NEW f \in Frames \ {0}
               PROVE  ch.buf_refcnt[s][f] = Holders(Buffer(s, f))
    BY DEF BuffersAccounted
  <2>1. CommandsOK /\ AppOK /\ OneHolder(ch) /\ Balanced(ch, Outside)
    BY DEF IInv, Stored, Store
  <2>2. ch.buf_refcnt[s][f] = Refs(s, f) + One(Inside(ch, s, f))
    <3>1. ch.buf_refcnt[s][f] = Outside[s][f] + IF Inside(ch, s, f) THEN 1 ELSE 0
      BY <2>1 DEF Balanced
    <3>2. Outside[s][f] = Refs(s, f)
      BY OutsideIs
    <3> QED
      BY <3>1, <3>2 DEF One
  <2>3. Cardinality({i \in DOMAIN cmd_queue : Carries(cmd_queue[i], Buffer(s, f))}) = One(Waiting(Buffer(s, f)))
    BY <2>1, WaitingCount
  <2>4. Cardinality({i \in DOMAIN ch.queue : Buffer(s, f) \in BufsOf(ch.queue[i])})
        + Cardinality({i \in DOMAIN ch.up : Buffer(s, f) \in BuffersIn(ch.up[i])}) = One(Inside(ch, s, f))
    BY <2>1, InsideCount
  <2>5. Cardinality({x \in app : x.buf = Buffer(s, f)})
        = One(AppRec(Buffer(s, f), "queue") \in app) + One(AppRec(Buffer(s, f), "callback") \in app)
          + One(AppRec(Buffer(s, f), "HAL") \in app)
    BY <2>1, AppCount
  <2>6. Cardinality({i \in DOMAIN poll : poll[i] = Buffer(s, f)}) = One(poll = <<Buffer(s, f)>>)
    BY <2>1, PollCount
  <2> DEFINE W == Cardinality({i \in DOMAIN cmd_queue : Carries(cmd_queue[i], Buffer(s, f))})
             Q == Cardinality({i \in DOMAIN ch.queue : Buffer(s, f) \in BufsOf(ch.queue[i])})
             U == Cardinality({i \in DOMAIN ch.up : Buffer(s, f) \in BuffersIn(ch.up[i])})
             A == Cardinality({x \in app : x.buf = Buffer(s, f)})
             P == Cardinality({i \in DOMAIN poll : poll[i] = Buffer(s, f)})
  <2>7. Holders(Buffer(s, f)) = W + Q + U + A + P
    BY DEF Holders
  <2>8. {W, Q, U, A, P} \subseteq Nat
    <3>1. \A p : One(p) \in Nat
      BY DEF One
    <3>2. W \in Nat /\ P \in Nat
      BY <3>1, <2>3, <2>6
    <3>3. A \in Nat
      BY <3>1, <2>5
    <3>4. IsFiniteSet(DOMAIN ch.queue) /\ IsFiniteSet(DOMAIN ch.up)
      <4>1. DOMAIN ch.queue = 1 .. Len(ch.queue) /\ DOMAIN ch.up = 1 .. Len(ch.up)
        BY DEF IInv, Stored, Store, StoreTypes
      <4> QED
        BY SMTT(30), <4>1, FS_Interval
    <3>5. Q \in Nat /\ U \in Nat
      <4>1. /\ IsFiniteSet({i \in DOMAIN ch.queue : Buffer(s, f) \in BufsOf(ch.queue[i])})
            /\ IsFiniteSet({i \in DOMAIN ch.up : Buffer(s, f) \in BuffersIn(ch.up[i])})
        BY <3>4, FS_Subset
      <4> QED
        BY <4>1, FS_CardinalityType
    <3> QED
      BY <3>2, <3>3, <3>5
  <2> HIDE DEF W, Q, U, A, P
  <2>9. W = One(Waiting(Buffer(s, f))) /\ Q + U = One(Inside(ch, s, f)) /\ P = One(poll = <<Buffer(s, f)>>)
    BY <2>3, <2>4, <2>6 DEF W, Q, U, P
  <2>10. A = One(AppRec(Buffer(s, f), "queue") \in app) + One(AppRec(Buffer(s, f), "callback") \in app)
          + One(AppRec(Buffer(s, f), "HAL") \in app)
    BY <2>5 DEF A
  <2>11. Refs(s, f) = W + A + P
    BY <2>8, <2>9, <2>10 DEF Refs, One
  <2> QED
    BY <2>2, <2>7, <2>8, <2>9, <2>11
<1> QED
  BY <1>1, Invariance, PTL
-----------------------------------------------------------------------------
(* The order of the super buffers, for the channels of normal priority: a node holds buffers of one frame, *)
(* the queue is sorted by frame, and its complete nodes stand first.                                      *)
NodeOK(n) ==
    /\ n.frame_idx \in Frames \ {0}
    /\ \A s \in attr.streams : n.super_buf[s] \in {0, n.frame_idx}
    /\ \E s \in attr.streams : n.super_buf[s] # 0
    /\ n.matched <=> \A s \in attr.streams : n.super_buf[s] # 0

QueueOK(q, m) ==
    /\ q \in Seq(Node) /\ m \in 0 .. Len(q)
    /\ \A i \in DOMAIN q : NodeOK(q[i]) /\ (q[i].matched <=> i <= m)
    /\ \A i, j \in DOMAIN q : i < j => q[i].frame_idx < q[j].frame_idx

(* What was handed up is of one frame each, in order, and older than what the queue holds. *)
UpOK(u, q) ==
    /\ u \in Seq([Streams -> Frames])
    /\ \A i \in DOMAIN u : \A s, t \in attr.streams : u[i][s] = u[i][t] /\ u[i][s] # 0
    /\ \A i, j \in DOMAIN u : \A s \in attr.streams : i < j => u[i][s] < u[j][s]
    /\ \A i \in DOMAIN u : \A k \in DOMAIN q : \A s \in attr.streams : u[i][s] < q[k].frame_idx

(* A buffer of N is of a later frame than those of its stream that are in the queue or were handed up. *)
Behind(q, u, N) ==
    \A s \in attr.streams : \A f \in Frames : Buffer(s, f) \in N =>
        /\ \A i \in DOMAIN q : q[i].super_buf[s] < f
        /\ \A i \in DOMAIN u : u[i][s] < f

(* The flags the order depends on: a channel that hands up by itself never waits for the hardware. *)
Going(c) ==
    /\ Chan(c) /\ c.hangs = FALSE /\ c.nomatch_frame_id = 0
    /\ attr.notify_mode = "CONTINUOUS" => c.bWaitForPrepSnapshotDone = FALSE

Row(c, N) ==
    /\ Going(c) /\ QueueOK(c.queue, c.match_cnt) /\ UpOK(c.up, c.queue) /\ Behind(c.queue, c.up, N)
    /\ Len(c.queue) - c.match_cnt <= attr.max_unmatched_frames + 1

(* After each command, no more complete nodes are kept than the channel is to keep. *)
MostMatched == IF attr.notify_mode = "BURST" THEN attr.water_mark ELSE 0

(* The buffers of a stream reach the channel's thread in the order of their frames. *)
InTurn ==
    \A i, j \in DOMAIN cmd_queue :
        /\ i < j /\ cmd_queue[i].type = "DATA_CB" /\ cmd_queue[j].type = "DATA_CB"
        /\ cmd_queue[i].arg.stream = cmd_queue[j].arg.stream
        => cmd_queue[i].arg.frame < cmd_queue[j].arg.frame

OrderInv ==
    /\ InTurn
    /\ attr.priority = "NORMAL" => Row(ch, NotInside) /\ ch.match_cnt <= MostMatched

LEMMA QueueParts ==
    ASSUME NEW q, NEW m, QueueOK(q, m)
    PROVE  /\ DOMAIN q = 1 .. Len(q) /\ Len(q) \in Nat /\ m \in Nat /\ m <= Len(q)
           /\ \A i \in DOMAIN q : q[i] \in Node /\ q[i].frame_idx \in Int
BY DEF QueueOK, NodeOK, Frames

(* The complete nodes are the first ones, and counted. *)
LEMMA Counted ==
    ASSUME NEW q, NEW m, QueueOK(q, m)
    PROVE  /\ Matched(q) = 1 .. m /\ MatchedFront(q) = 1 .. m /\ Unmatched(q) = m + 1 .. Len(q)
           /\ Cardinality(Matched(q)) = m /\ Cardinality(MatchedFront(q)) = m
           /\ Cardinality(Unmatched(q)) = Len(q) - m
<1>1. DOMAIN q = 1 .. Len(q) /\ Len(q) \in Nat /\ m \in Nat /\ m <= Len(q)
  BY QueueParts
<1>2. \A i \in DOMAIN q : q[i].matched <=> i <= m
  BY DEF QueueOK
<1>3. Matched(q) = 1 .. m
  BY <1>1, <1>2 DEF Matched
<1>4. MatchedFront(q) = 1 .. m
  <2>1. \A i \in DOMAIN q : (\A j \in 1 .. i : q[j].matched) <=> i <= m
    <3> TAKE i \in DOMAIN q
    <3>1. 1 .. i \subseteq DOMAIN q /\ i \in 1 .. i
      BY <1>1
    <3>2. ASSUME i <= m, NEW j \in 1 .. i PROVE q[j].matched
      <4>1. j \in DOMAIN q /\ j <= m
        BY <1>1, <3>1, <3>2
      <4> QED
        BY <1>2, <4>1
    <3> QED
      BY <1>2, <3>1, <3>2
  <2>2. MatchedFront(q) = {i \in DOMAIN q : i <= m}
    BY <2>1 DEF MatchedFront
  <2> QED
    BY <1>1, <2>2
<1>5. Unmatched(q) = m + 1 .. Len(q)
  BY <1>1, <1>3 DEF Unmatched
<1>6. Cardinality(1 .. m) = m
  <2>1. 1 \in Int /\ m \in Int /\ (IF 1 > m THEN 0 ELSE m - 1 + 1) = m
    BY <1>1
  <2>2. Cardinality(1 .. m) = IF 1 > m THEN 0 ELSE m - 1 + 1
    BY <2>1, FS_Interval, Zenon
  <2> QED
    BY <2>1, <2>2
<1>7. Cardinality(m + 1 .. Len(q)) = Len(q) - m
  <2>1. /\ m + 1 \in Int /\ Len(q) \in Int
        /\ (IF m + 1 > Len(q) THEN 0 ELSE Len(q) - (m + 1) + 1) = Len(q) - m
    <3>1. m \in Nat /\ Len(q) \in Nat /\ m <= Len(q)
      BY <1>1
    <3>2. CASE m + 1 > Len(q)
      <4>1. m = Len(q) /\ Len(q) - m = 0
        BY <3>1, <3>2
      <4> QED
        BY <3>1, <3>2, <4>1
    <3>3. CASE ~(m + 1 > Len(q))
      BY <3>1, <3>3
    <3> QED
      BY <3>2, <3>3
  <2>2. Cardinality(m + 1 .. Len(q)) = IF m + 1 > Len(q) THEN 0 ELSE Len(q) - (m + 1) + 1
    BY <2>1, FS_Interval, Zenon
  <2> QED
    BY <2>1, <2>2
<1> QED
  BY <1>3, <1>4, <1>5, <1>6, <1>7

(* Nodes may be left out, and others completed, as long as the complete ones stand first. *)
LEMMA SubQueue ==
    ASSUME NEW q, NEW m, QueueOK(q, m), NEW r \in Seq(Node), NEW n \in 0 .. Len(r), NEW old,
           \A k \in DOMAIN r : /\ old[k] \in DOMAIN q /\ r[k].frame_idx = q[old[k]].frame_idx
                               /\ NodeOK(r[k]) /\ (r[k].matched <=> k <= n),
           \A k, l \in DOMAIN r : k < l => old[k] < old[l]
    PROVE  /\ QueueOK(r, n)
           /\ \A u : UpOK(u, q) => UpOK(u, r)
<1>1. \A k, l \in DOMAIN r : k < l => r[k].frame_idx < r[l].frame_idx
  BY DEF QueueOK
<1>2. QueueOK(r, n)
  BY <1>1 DEF QueueOK
<1>3. ASSUME NEW u, UpOK(u, q) PROVE UpOK(u, r)
  BY <1>3 DEF UpOK
<1> QED
  BY <1>2, <1>3

(* d is c without the nodes i to j, and with m complete ones. *)
Beside(c, d) ==
    /\ Chan(d) /\ d.up = c.up /\ d.hangs = c.hangs /\ d.nomatch_frame_id = c.nomatch_frame_id
    /\ d.bWaitForPrepSnapshotDone = c.bWaitForPrepSnapshotDone \/ d.bWaitForPrepSnapshotDone = FALSE
Alike(c, d) == Beside(c, d) /\ d.queue = c.queue /\ d.match_cnt = c.match_cnt

LEMMA AlikeRow ==
    ASSUME NEW c, NEW d, NEW N, Row(c, N), Alike(c, d)
    PROVE  Row(d, N)
BY DEF Row, Alike, Beside, Going

LEMMA AlikeTwice ==
    ASSUME NEW c, NEW d, NEW e, Beside(c, d), Beside(d, e)
    PROVE  Beside(c, e)
BY DEF Beside

(* Nodes i to j are given back: some of the complete ones at the front, or others. *)
Cut(c, d, i, j) ==
    /\ Beside(c, d) /\ d.queue = SubSeq(c.queue, 1, i - 1) \o SubSeq(c.queue, j + 1, Len(c.queue))
    /\ \/ i = 1 /\ j <= c.match_cnt /\ d.match_cnt = c.match_cnt - j
       \/ i > c.match_cnt /\ d.match_cnt = c.match_cnt
       \/ i = 1 /\ j = Len(c.queue) /\ d.match_cnt = 0

(* No other node is incomplete than those that were. *)
StillUnmatched(q, r) == \A x \in Unmatched(r) : \E y \in Unmatched(q) : r[x] = q[y]

(* The first and last of a sequence, without what is cut out between. *)
CutOf(p, a, b) == SubSeq(p, 1, a - 1) \o SubSeq(p, b + 1, Len(p))
IsCut(p, a, b, r) ==
    /\ r \in Seq(Node) /\ Len(r) = Len(p) - (b - a + 1)
    /\ \A k \in 1 .. a - 1 : r[k] = p[k]
    /\ \A k \in a .. Len(r) : r[k] = p[k + (b - a + 1)]

LEMMA CutTo ==
    ASSUME NEW p \in Seq(Node), NEW a \in Nat \ {0}, NEW b \in Nat, a <= b + 1, b <= Len(p)
    PROVE  IsCut(p, a, b, CutOf(p, a, b))
BY ZenonT(40), CutOut DEF IsCut, CutOf

LEMMA CutRow ==
    ASSUME NEW c, NEW d, NEW N, Row(c, N), NEW i \in Nat \ {0}, NEW j \in Nat, i <= j + 1, j <= Len(c.queue),
           Cut(c, d, i, j), attr.max_unmatched_frames \in Nat
    PROVE  /\ Row(d, N) /\ Len(d.queue) = Len(c.queue) - (j - i + 1)
           /\ StillUnmatched(c.queue, d.queue)
<1> DEFINE q == c.queue
           m == c.match_cnt
           r == SubSeq(q, 1, i - 1) \o SubSeq(q, j + 1, Len(q))
           old == [k \in DOMAIN r |-> IF k < i THEN k ELSE k + (j - i + 1)]
           n == d.match_cnt
<1>0. /\ QueueOK(q, m) /\ UpOK(c.up, q) /\ Behind(q, c.up, N) /\ Going(c)
      /\ Len(q) - m <= attr.max_unmatched_frames + 1
  BY DEF Row
<1>1. /\ DOMAIN q = 1 .. Len(q) /\ Len(q) \in Nat /\ m \in Nat /\ m <= Len(q) /\ q \in Seq(Node)
      /\ \A k \in DOMAIN q : NodeOK(q[k]) /\ (q[k].matched <=> k <= m)
  BY <1>0, QueueParts DEF QueueOK
<1>2. d.queue = r
  BY DEF Cut
<1>3. \/ i = 1 /\ j <= m /\ n = m - j
      \/ i > m /\ n = m
      \/ i = 1 /\ j = Len(q) /\ n = 0
  BY DEF Cut
<1> HIDE DEF n
<1>4. /\ r \in Seq(Node) /\ Len(r) = Len(q) - (j - i + 1)
      /\ \A k \in 1 .. i - 1 : r[k] = q[k]
      /\ \A k \in i .. Len(r) : r[k] = q[k + (j - i + 1)]
  <2>1. q \in Seq(Node) /\ j <= Len(q)
    BY <1>1
  <2>2. r = CutOf(q, i, j)
    BY DEF CutOf
  <2> HIDE DEF q, r, old, m
  <2>3. IsCut(q, i, j, r)
    BY <2>1, <2>2, CutTo
  <2> QED
    BY <2>3 DEF IsCut
<1>l. j <= Len(q) /\ i <= j + 1
  OBVIOUS
<1> HIDE DEF q, m, r
<1>5. DOMAIN r = 1 .. Len(r) /\ Len(r) \in Nat
  BY <1>4
<1>6. \A k \in DOMAIN r : old[k] = IF k < i THEN k ELSE k + (j - i + 1)
  OBVIOUS
<1> HIDE DEF old
<1>7. \A k \in DOMAIN r : old[k] \in DOMAIN q /\ r[k] = q[old[k]]
  <2> TAKE k \in DOMAIN r
  <2>1. CASE k < i
    <3>1. k \in 1 .. i - 1 /\ k \in 1 .. Len(q)
      BY <2>1, <1>l, <1>1, <1>5
    <3>2. old[k] = k /\ r[k] = q[k]
      BY <2>1, <3>1, <1>4, <1>6
    <3> QED
      BY <3>1, <3>2, <1>1
  <2>2. CASE ~(k < i)
    <3>1. k \in i .. Len(r) /\ k + (j - i + 1) \in 1 .. Len(q)
      BY <2>2, <1>l, <1>1, <1>4, <1>5
    <3> QED
      BY <2>2, <3>1, <1>1, <1>4, <1>6
  <2> QED
    BY <2>1, <2>2
<1>8. \A k, l \in DOMAIN r : k < l => old[k] < old[l]
  BY <1>5, <1>6
<1>9. n \in 0 .. Len(r) /\ \A k \in DOMAIN r : k <= n <=> old[k] <= m
  <2>1. CASE i = 1 /\ j <= m /\ n = m - j
    BY <2>1, <1>l, <1>1, <1>4, <1>5, <1>6
  <2>2. CASE i > m /\ n = m
    BY <2>2, <1>l, <1>1, <1>4, <1>5, <1>6
  <2>3. CASE i = 1 /\ j = Len(q) /\ n = 0
    BY <2>3, <1>l, <1>1, <1>4, <1>5, <1>6
  <2> QED
    BY <1>3, <2>1, <2>2, <2>3
<1>10. \A k \in DOMAIN r : NodeOK(r[k]) /\ (r[k].matched <=> k <= n)
  BY <1>1, <1>7, <1>9
<1>11. QueueOK(r, n) /\ UpOK(c.up, r)
  <2>1. \A k \in DOMAIN r : /\ old[k] \in DOMAIN q /\ r[k].frame_idx = q[old[k]].frame_idx
                            /\ NodeOK(r[k]) /\ (r[k].matched <=> k <= n)
    BY <1>7, <1>10
  <2> QED
    BY <1>0, <1>4, <1>8, <1>9, <2>1, SubQueue
<1>12. Behind(r, c.up, N)
  BY <1>0, <1>7 DEF Behind
<1>13. Going(d) /\ d.up = c.up
  BY <1>0 DEF Cut, Beside, Going
<1>14. Len(r) - n <= attr.max_unmatched_frames + 1
  <2>1. Len(r) - n <= Len(q) - m \/ Len(r) - n = 0
    <3>1. Len(q) \in Nat /\ m \in Nat /\ Len(r) = Len(q) - (j - i + 1)
      BY <1>1, <1>4
    <3>2. CASE i = 1 /\ j <= m /\ n = m - j
      BY <3>1, <3>2
    <3>3. CASE i > m /\ n = m
      BY <3>1, <3>3, <1>l
    <3>4. CASE i = 1 /\ j = Len(q) /\ n = 0
      BY <3>1, <3>4
    <3> QED
      BY <1>3, <3>2, <3>3, <3>4
  <2>2. Len(q) - m \in Int /\ Len(r) - n \in Int
    BY <1>1, <1>4, <1>9
  <2>3. Len(q) - m <= attr.max_unmatched_frames + 1
    BY <1>0 DEF q, m
  <2> QED
    BY <2>1, <2>2, <2>3
<1>15. Row(d, N)
  BY <1>2, <1>11, <1>12, <1>13, <1>14 DEF Row, n
<1>16. \A x \in Unmatched(r) : old[x] \in Unmatched(q) /\ r[x] = q[old[x]]
  BY <1>7 DEF Unmatched, Matched
<1> QED
  BY <1>2, <1>4, <1>15, <1>16 DEF q, StillUnmatched

-----------------------------------------------------------------------------
(* The functions that give nodes back. *)
LEMMA DiscardBeside ==
    ASSUME NEW c, NEW i, NEW j, Chan(c)
    PROVE  /\ Beside(c, Discard(c, i, j)) /\ Discard(c, i, j).match_cnt = c.match_cnt
           /\ Discard(c, i, j).queue = SubSeq(c.queue, 1, i - 1) \o SubSeq(c.queue, j + 1, Len(c.queue))
BY DEF Chan, Fields, Discard, qbuf, Beside

(* The attributes that bound the queue. *)
LEMMA Bounds ==
    ASSUME attr \in Profiles
    PROVE  /\ attr.max_unmatched_frames \in Nat /\ attr.water_mark \in Nat /\ attr.look_back \in Nat
           /\ attr.notify_mode \in {"BURST", "CONTINUOUS"} /\ attr.streams \subseteq Streams
           /\ MostMatched \in Nat
BY ProfilesAssumption DEF MostMatched

LEMMA KeepMatchedRow ==
    ASSUME NEW c, NEW N, Row(c, N), attr \in Profiles, NEW n \in Nat
    PROVE  Row(KeepMatched(c, n), N) /\ KeepMatched(c, n).match_cnt <= n
<1> DEFINE m == c.match_cnt
           surplus == IF m > n THEN m - n ELSE 0
           taken == Min({surplus, Cardinality(MatchedFront(c.queue))})
           e == Discard(c, 1, taken)
           d == [e EXCEPT !.match_cnt = @ - taken, !.hangs = @ \/ taken < surplus]
<1>1. KeepMatched(c, n) = d
  BY DEF KeepMatched
<1>2. QueueOK(c.queue, m) /\ Chan(c) /\ c.hangs = FALSE
  BY DEF Row, Going
<1>3. /\ m \in Nat /\ Len(c.queue) \in Nat /\ m <= Len(c.queue) /\ Cardinality(MatchedFront(c.queue)) = m
  BY <1>2, QueueParts, Counted
<1>4. surplus \in Nat /\ surplus <= m /\ (m - surplus) <= n
  BY <1>3
<1>5. taken = surplus
  <2>1. taken = Min({surplus, m})
    BY <1>3
  <2> HIDE DEF surplus, taken, m
  <2>2. {surplus, m} \in SUBSET Nat /\ {surplus, m} # {}
    BY <1>3, <1>4
  <2>3. Min({surplus, m}) \in {surplus, m} /\ \A y \in {surplus, m} : Min({surplus, m}) <= y
    BY <2>2, MinNat
  <2> QED
    BY <2>1, <2>3, <1>3, <1>4
<1> HIDE DEF surplus, taken, m
<1>6. /\ Beside(c, e) /\ e.match_cnt = m
      /\ e.queue = SubSeq(c.queue, 1, 1 - 1) \o SubSeq(c.queue, taken + 1, Len(c.queue))
  BY <1>2, DiscardBeside DEF m
<1>7. e.hangs = FALSE /\ ~(taken < surplus)
  BY <1>2, <1>4, <1>5, <1>6 DEF Beside
<1> HIDE DEF e
<1>8. Beside(e, d) /\ d.queue = e.queue /\ d.match_cnt = e.match_cnt - taken
  BY <1>6, <1>7 DEF Beside, Chan, Fields
<1> HIDE DEF d
<1>9. Beside(c, d) /\ d.match_cnt = m - taken
  BY <1>6, <1>8, AlikeTwice
<1>10. 1 \in Nat \ {0} /\ taken \in Nat /\ 1 <= taken + 1 /\ taken <= Len(c.queue) /\ taken <= m
  BY <1>3, <1>4, <1>5
<1>11. Cut(c, d, 1, taken)
  BY <1>6, <1>8, <1>9, <1>10 DEF Cut, m
<1>12. Row(d, N)
  <2>1. attr.max_unmatched_frames \in Nat
    BY Bounds
  <2> QED
    BY <1>10, <1>11, <2>1, CutRow
<1> QED
  BY <1>1, <1>4, <1>5, <1>9, <1>12

(* All nodes, or the complete ones at the front: none is complete afterwards. *)
LEMMA FlushRow ==
    ASSUME NEW c, NEW N, Row(c, N), attr \in Profiles
    PROVE  /\ Row(superbuf_flush(c), N) /\ superbuf_flush(c).match_cnt = 0
           /\ Row(superbuf_flush_matched(c), N) /\ superbuf_flush_matched(c).match_cnt = 0
<1> DEFINE m == c.match_cnt
<1>1. QueueOK(c.queue, m) /\ Chan(c)
  BY DEF Row, Going
<1>2. /\ m \in Nat /\ Len(c.queue) \in Nat /\ m <= Len(c.queue) /\ Cardinality(MatchedFront(c.queue)) = m
      /\ Cardinality(Matched(c.queue)) = m
  BY <1>1, QueueParts, Counted
<1>3. ASSUME NEW j \in Nat, j = m \/ j = Len(c.queue)
      PROVE  /\ Row([Discard(c, 1, j) EXCEPT !.match_cnt = @ - m], N)
             /\ [Discard(c, 1, j) EXCEPT !.match_cnt = @ - m].match_cnt = 0
  <2> DEFINE e == Discard(c, 1, j)
             d == [e EXCEPT !.match_cnt = @ - m]
  <2>1. /\ Beside(c, e) /\ e.match_cnt = m
        /\ e.queue = SubSeq(c.queue, 1, 1 - 1) \o SubSeq(c.queue, j + 1, Len(c.queue))
    BY <1>1, DiscardBeside
  <2> HIDE DEF e
  <2>2. Beside(e, d) /\ d.queue = e.queue /\ d.match_cnt = e.match_cnt - m
    BY <2>1 DEF Beside, Chan, Fields
  <2> HIDE DEF d
  <2>3. Beside(c, d)
    BY <2>1, <2>2, AlikeTwice
  <2>4. d.match_cnt = 0 /\ m - m = 0
    BY <2>1, <2>2, <1>2
  <2>5. 1 \in Nat \ {0} /\ 1 <= j + 1 /\ j <= Len(c.queue)
    BY <1>2, <1>3
  <2>6. Cut(c, d, 1, j)
    BY <2>1, <2>2, <2>3, <2>4, <1>2, <1>3 DEF Cut
  <2>7. Row(d, N)
    <3>1. attr.max_unmatched_frames \in Nat
      BY Bounds
    <3> QED
      BY <2>5, <2>6, <3>1, CutRow
  <2> QED
    BY <2>4, <2>7 DEF d, e
<1>4. Row(superbuf_flush(c), N) /\ superbuf_flush(c).match_cnt = 0
  BY <1>2, <1>3 DEF superbuf_flush
<1>5. Row(superbuf_flush_matched(c), N) /\ superbuf_flush_matched(c).match_cnt = 0
  BY <1>2, <1>3 DEF superbuf_flush_matched
<1> QED
  BY <1>4, <1>5

LEMMA OverflowRow ==
    ASSUME NEW c, NEW N, Row(c, N), attr \in Profiles
    PROVE  /\ Row(superbuf_bufdone_overflow(c), N) /\ Row(superbuf_skip(c), N)
           /\ attr.notify_mode = "BURST" => superbuf_bufdone_overflow(c).match_cnt <= attr.water_mark
<1>1. /\ attr.water_mark \in Nat /\ attr.look_back \in Nat /\ attr.notify_mode \in {"BURST", "CONTINUOUS"}
  BY Bounds
<1>2. Row(KeepMatched(c, attr.water_mark), N) /\ KeepMatched(c, attr.water_mark).match_cnt <= attr.water_mark
  BY <1>1, KeepMatchedRow
<1>3. Row(KeepMatched(c, attr.look_back), N)
  BY <1>1, KeepMatchedRow
<1> QED
  BY <1>1, <1>2, <1>3 DEF superbuf_bufdone_overflow, superbuf_skip

-----------------------------------------------------------------------------
(* Metadata keep the order. *)
LEMMA DivertRow ==
    ASSUME NEW c, NEW f, NEW m, NEW N, Row(c, N)
    PROVE  Row(Divert(c, f, m), N)
<1>1. Alike(c, Divert(c, f, m))
  BY DEF Row, Going, Divert, Alike, Beside, Chan, Fields
<1> QED
  BY <1>1, AlikeRow

LEMMA LaterRow ==
    ASSUME NEW c, NEW N, Row(c, N)
    PROVE  Row(Later(c), N)
<1>1. Alike(c, Later(c))
  BY DEF Row, Going, Later, Alike, Beside, Chan, Fields
<1> QED
  BY <1>1, AlikeRow

LEMMA Zoom1xRow ==
    ASSUME NEW c, NEW f, NEW m, NEW N, Row(c, N), attr \in Profiles
    PROVE  Row(Zoom1x(c, f, m), N)
<1>1. CASE m.crop1x
  <2>1. Alike(c, Zoom1x(c, f, m))
    BY <1>1 DEF Row, Going, Zoom1x, Alike, Beside, Chan, Fields
  <2> QED
    BY <2>1, AlikeRow
<1>2. CASE ~m.crop1x
  <2>1. Row(superbuf_flush_matched(Later(c)), N)
    BY LaterRow, FlushRow
  <2> QED
    BY <1>2, <2>1 DEF Zoom1x
<1> QED
  BY <1>1, <1>2

LEMMA PrepRow ==
    ASSUME NEW c, NEW m, NEW N, Row(c, N), attr \in Profiles
    PROVE  Row(PrepSnapshotDone(c, m), N)
<1> DEFINE e == superbuf_flush(Later(c))
           d == [e EXCEPT !.bWaitForPrepSnapshotDone = FALSE, !.needLEDFlash = TRUE]
           g == [c EXCEPT !.bWaitForPrepSnapshotDone = FALSE, !.needLEDFlash = FALSE]
<1>1. PrepSnapshotDone(c, m) \in {c, d, g}
  BY DEF PrepSnapshotDone
<1>2. Row(e, N)
  BY LaterRow, FlushRow
<1> HIDE DEF e
<1>3. Alike(e, d)
  BY <1>2 DEF Row, Going, Alike, Beside, Chan, Fields
<1>4. Alike(c, g)
  BY DEF Row, Going, Alike, Beside, Chan, Fields
<1> HIDE DEF d, g
<1>5. Row(d, N) /\ Row(g, N)
  BY <1>2, <1>3, <1>4, AlikeRow
<1> QED
  BY <1>1, <1>5

LEMMA GoodFrameRangeRow ==
    ASSUME NEW c, NEW f, NEW m, NEW N, Row(c, N), attr \in Profiles
    PROVE  Row(GoodFrameRange(c, f, m), N)
<1> DEFINE d == [c EXCEPT !.led_off_start_frame_id = f + m.good[2], !.once = FALSE]
           e == Later(superbuf_flush_matched(c))
<1>1. GoodFrameRange(c, f, m) \in {c, d, e}
  BY DEF GoodFrameRange
<1>2. Alike(c, d)
  BY DEF Row, Going, Alike, Beside, Chan, Fields
<1>3. Row(e, N)
  BY LaterRow, FlushRow
<1> HIDE DEF d, e
<1>4. Row(d, N)
  BY <1>2, AlikeRow
<1> QED
  BY <1>1, <1>3, <1>4

LEMMA ExpectRangeRow ==
    ASSUME NEW c, NEW f, NEW m, NEW N, Row(c, N)
    PROVE  Row(ExpectRange(c, f, m), N)
<1>1. Alike(c, ExpectRange(c, f, m))
  BY DEF Row, Going, ExpectRange, Alike, Beside, Chan, Fields
<1> QED
  BY <1>1, AlikeRow

LEMMA LedOffRow ==
    ASSUME NEW c, NEW f, NEW N, Row(c, N)
    PROVE  Row(LedOff(c, f), N)
<1>1. Alike(c, LedOff(c, f))
  BY DEF Row, Going, LedOff, Alike, Beside, Chan, Fields
<1> QED
  BY <1>1, AlikeRow

LEMMA MetadataRow ==
    ASSUME NEW c, NEW f, NEW m, NEW N, Row(c, N), attr \in Profiles
    PROVE  Row(handle_metadata(c, f, m), N)
<1> DEFINE d == Divert(c, f, m)
           p == PrepSnapshotDone(d, m)
           g == GoodFrameRange(p, f, m)
           x == ExpectRange(g, f, m)
<1>1. handle_metadata(c, f, m) = IF d.isZoom1xFrameRequested THEN Zoom1x(d, f, m) ELSE LedOff(x, f)
  BY DEF handle_metadata
<1>2. Row(d, N)
  BY DivertRow
<1> HIDE DEF d
<1>3. Row(Zoom1x(d, f, m), N) /\ Row(p, N)
  BY <1>2, Zoom1xRow, PrepRow
<1> HIDE DEF p
<1>4. Row(g, N)
  BY <1>3, GoodFrameRangeRow
<1> HIDE DEF g
<1>5. Row(x, N)
  BY <1>4, ExpectRangeRow
<1> HIDE DEF x
<1>6. Row(LedOff(x, f), N)
  BY <1>5, LedOffRow
<1> QED
  BY <1>1, <1>3, <1>6

-----------------------------------------------------------------------------
(* comp_and_enqueue keeps the order. *)

(* The buffer in hand: none of N is of its stream and an earlier frame. *)
First(N, s, f) ==
    /\ s \in attr.streams /\ s \in Streams /\ f \in Frames \ {0} /\ Buffer(s, f) \in N
    /\ \A g \in Frames : Buffer(s, g) \in N => f <= g
    /\ \A t \in Streams : Buffer(t, 0) \notin N
Others(N, s, f) == N \ {Buffer(s, f)}

LEMMA FewerRow ==
    ASSUME NEW c, NEW N, Row(c, N), NEW s, NEW f
    PROVE  Row(c, Others(N, s, f))
BY DEF Row, Behind, Others

LEMMA BackRow ==
    ASSUME NEW c, NEW N, Row(c, N), NEW B, NEW s, NEW f
    PROVE  Row(qbuf(c, B), Others(N, s, f))
<1>1. Alike(c, qbuf(c, B))
  BY DEF Row, Going, qbuf, Alike, Beside, Chan, Fields
<1>2. Row(qbuf(c, B), N)
  BY <1>1, AlikeRow
<1> QED
  BY <1>2, FewerRow

(* Its frame is later than those of the complete nodes; of the others those with its frame have no buffer *)
(* of its stream.                                                                                        *)
LEMMA FirstFacts ==
    ASSUME NEW c, NEW N, Row(c, N), NEW s, NEW f, First(N, s, f)
    PROVE  /\ \A k \in DOMAIN c.queue : c.queue[k].super_buf[s] < f
           /\ \A k \in DOMAIN c.queue : k <= c.match_cnt => c.queue[k].frame_idx < f
           /\ \A k \in DOMAIN c.queue : c.queue[k].frame_idx = f => c.queue[k].super_buf[s] = 0
           /\ \A k \in DOMAIN c.up : \A t \in attr.streams : c.up[k][t] < f
           /\ f \in Nat \ {0} /\ f \in Frames
           /\ \A g \in Frames : Buffer(s, g) \in Others(N, s, f) => f < g
<1>1. f \in Nat \ {0} /\ f \in Frames /\ s \in attr.streams /\ Buffer(s, f) \in N
  BY ProfilesAssumption DEF First, Frames
<1>2. /\ \A k \in DOMAIN c.queue : c.queue[k].super_buf[s] < f
      /\ \A k \in DOMAIN c.up : c.up[k][s] < f
  BY <1>1 DEF Row, Behind
<1>3. /\ \A k \in DOMAIN c.queue : /\ c.queue[k].super_buf[s] \in {0, c.queue[k].frame_idx}
                                   /\ k <= c.match_cnt => c.queue[k].super_buf[s] # 0
  BY <1>1 DEF Row, QueueOK, NodeOK
<1>4. \A k \in DOMAIN c.up : \A t \in attr.streams : c.up[k][t] < f
  BY <1>1, <1>2 DEF Row, UpOK
<1>5. \A k \in DOMAIN c.queue : k <= c.match_cnt => c.queue[k].frame_idx < f
  BY <1>2, <1>3
<1>6. \A k \in DOMAIN c.queue : c.queue[k].frame_idx = f => c.queue[k].super_buf[s] = 0
  BY <1>1, <1>2, <1>3
<1>7. ASSUME NEW g \in Frames, Buffer(s, g) \in Others(N, s, f) PROVE f < g
  <2>1. g # f /\ Buffer(s, g) \in N
    BY <1>7, BufferEq DEF Others
  <2>2. f <= g /\ g \in Nat
    BY <2>1, ProfilesAssumption DEF First, Frames
  <2> QED
    BY <1>1, <2>1, <2>2
<1> QED
  BY <1>1, <1>2, <1>4, <1>5, <1>6, <1>7

(* A node is replaced by one of the same frame. *)
LEMMA ReplaceRow ==
    ASSUME NEW c, NEW d, NEW N, NEW M, Row(c, N), NEW i \in DOMAIN c.queue, NEW node \in Node, NodeOK(node),
           Beside(c, d), d.match_cnt = c.match_cnt, d.queue = [c.queue EXCEPT ![i] = node],
           node.frame_idx = c.queue[i].frame_idx, node.matched <=> c.queue[i].matched,
           \A t \in attr.streams : \A g \in Frames : Buffer(t, g) \in M =>
               Buffer(t, g) \in N /\ node.super_buf[t] < g
    PROVE  Row(d, M)
<1> DEFINE q == c.queue
           r == [q EXCEPT ![i] = node]
           old == [k \in DOMAIN r |-> k]
<1>1. /\ QueueOK(q, c.match_cnt) /\ UpOK(c.up, q) /\ Behind(q, c.up, N) /\ Going(c)
      /\ Len(q) - c.match_cnt <= attr.max_unmatched_frames + 1
  BY DEF Row
<1>2. q \in Seq(Node) /\ c.match_cnt \in 0 .. Len(q)
      /\ \A k \in DOMAIN q : NodeOK(q[k]) /\ (q[k].matched <=> k <= c.match_cnt)
  BY <1>1 DEF QueueOK
<1>3. /\ r \in Seq(Node) /\ Len(r) = Len(q) /\ DOMAIN r = DOMAIN q /\ r[i] = node
      /\ \A k \in DOMAIN q : k # i => r[k] = q[k]
  <2>1. i \in DOMAIN q /\ node \in Node
    OBVIOUS
  <2>2. r \in Seq(Node) /\ Len(r) = Len(q)
    BY <1>2, <2>1, Replaced
  <2> QED
    BY <2>1, <2>2
<1>4. d.queue = r
  OBVIOUS
<1> HIDE DEF r
<1>5. \A k \in DOMAIN r : /\ old[k] \in DOMAIN q /\ r[k].frame_idx = q[old[k]].frame_idx
                          /\ NodeOK(r[k]) /\ (r[k].matched <=> k <= c.match_cnt)
  <2> TAKE k \in DOMAIN r
  <2>1. old[k] = k /\ k \in DOMAIN q
    BY <1>3
  <2>2. CASE k = i
    BY <1>2, <1>3, <2>1, <2>2
  <2>3. CASE k # i
    BY <1>2, <1>3, <2>1, <2>3
  <2> QED
    BY <2>2, <2>3
<1>6. \A k, l \in DOMAIN r : k < l => old[k] < old[l]
  OBVIOUS
<1> HIDE DEF old, q
<1>7. QueueOK(r, c.match_cnt) /\ UpOK(c.up, r)
  <2>1. c.match_cnt \in 0 .. Len(r)
    BY <1>2, <1>3
  <2> QED
    BY <1>1, <1>3, <1>5, <1>6, <2>1, SubQueue
<1>8. Behind(r, c.up, M)
  <2> SUFFICES ASSUME NEW t \in attr.streams, NEW g \in Frames, Buffer(t, g) \in M
               PROVE  /\ \A k \in DOMAIN r : r[k].super_buf[t] < g
                      /\ \A k \in DOMAIN c.up : c.up[k][t] < g
    BY DEF Behind
  <2>1. Buffer(t, g) \in N /\ node.super_buf[t] < g
    OBVIOUS
  <2>2. /\ \A k \in DOMAIN q : q[k].super_buf[t] < g
        /\ \A k \in DOMAIN c.up : c.up[k][t] < g
    BY <1>1, <2>1 DEF Behind
  <2> QED
    BY <1>3, <2>1, <2>2
<1>9. Going(d) /\ d.up = c.up
  BY <1>1 DEF Beside, Going
<1> QED
  BY <1>1, <1>3, <1>4, <1>7, <1>8, <1>9 DEF Row

(* The node before: its frame is the buffer's, the nodes before it that are not complete are older. *)
LEMMA OlderBefore ==
    ASSUME NEW c, NEW N, Row(c, N), NEW f \in Int, NEW i \in DOMAIN c.queue, i > c.match_cnt,
           c.queue[i].frame_idx = f
    PROVE  LET older == FirstOf({j \in Older(c, f) : j < i})
           IN /\ older = <<>> => i = c.match_cnt + 1
              /\ older # <<>> => older[1] = c.match_cnt + 1 /\ c.match_cnt + 1 < i
<1> DEFINE m == c.match_cnt
           S == {j \in Older(c, f) : j < i}
<1>1. QueueOK(c.queue, m)
  BY DEF Row
<1>2. /\ DOMAIN c.queue = 1 .. Len(c.queue) /\ Len(c.queue) \in Nat /\ m \in Nat
      /\ Unmatched(c.queue) = m + 1 .. Len(c.queue)
  BY <1>1, QueueParts, Counted
<1>3. \A j \in DOMAIN c.queue : j < i => c.queue[j].frame_idx < f
  BY <1>1 DEF QueueOK
<1>4. S = m + 1 .. i - 1
  BY <1>2, <1>3 DEF Older
<1> HIDE DEF S, m
<1>5. CASE i = m + 1
  <2>1. S = {}
    BY <1>2, <1>4, <1>5
  <2> QED
    BY <2>1, <1>5 DEF FirstOf, S, m
<1>6. CASE i # m + 1
  <2>1. m + 1 < i /\ m + 1 \in S /\ S \in SUBSET Nat /\ \A x \in S : m + 1 <= x
    BY <1>2, <1>4, <1>6 DEF m
  <2>2. Min(S) \in S /\ \A x \in S : Min(S) <= x
    BY <2>1, MinNat
  <2>3. Min(S) = m + 1
    <3>1. Min(S) <= m + 1 /\ m + 1 <= Min(S)
      BY <2>1, <2>2
    <3>2. Min(S) \in Nat /\ m + 1 \in Nat
      BY <2>1, <2>2
    <3> QED
      BY <3>1, <3>2
  <2>4. S # {} /\ FirstOf(S) = <<m + 1>>
    BY <2>1, <2>3 DEF FirstOf
  <2> QED
    BY <2>1, <2>4 DEF S, m
<1> QED
  BY <1>5, <1>6

LEMMA ExpectNextAlike ==
    ASSUME NEW c, NEW f, Chan(c)
    PROVE  Alike(c, ExpectNext(c, f))
BY DEF ExpectNext, Alike, Beside, Chan, Fields

LEMMA MarkBeside ==
    ASSUME NEW c, NEW i, Chan(c), c.queue \in Seq(Node), i \in DOMAIN c.queue
    PROVE  LET g == [c EXCEPT !.queue[i].matched = TRUE, !.queue[i].expected = FALSE, !.match_cnt = @ + 1]
           IN /\ Beside(c, g) /\ g.match_cnt = c.match_cnt + 1
              /\ g.queue = [c.queue EXCEPT ![i] = [c.queue[i] EXCEPT !.matched = TRUE, !.expected = FALSE]]
BY DEF Beside, Chan, Fields

LEMMA CompleteRow ==
    ASSUME NEW c, NEW N, Row(c, N), attr \in Profiles, NEW s, NEW f, First(N, s, f),
           NEW i \in DOMAIN c.queue, ~c.queue[i].matched, c.queue[i].frame_idx = f,
           NEW d, d = [c EXCEPT !.queue[i].super_buf[s] = f],
           \A t \in attr.streams : d.queue[i].super_buf[t] # 0
    PROVE  Row(Complete(d, i, f, FirstOf({j \in Older(c, f) : j < i})), Others(N, s, f))
<1> DEFINE q == c.queue
           m == c.match_cnt
           older == FirstOf({j \in Older(c, f) : j < i})
           part == [c.queue[i] EXCEPT !.super_buf[s] = f]
           node == [part EXCEPT !.matched = TRUE, !.expected = FALSE]
           e == ExpectNext(d, f)
           g == [e EXCEPT !.queue[i].matched = TRUE, !.queue[i].expected = FALSE, !.match_cnt = @ + 1]
           p == [q EXCEPT ![i] = node]
           x == Complete(d, i, f, older)
           r == x.queue
           n == i - 1 - m
           old == [k \in DOMAIN r |-> IF k <= m THEN k ELSE k + n]
           M == Others(N, s, f)
<1>0. /\ QueueOK(q, m) /\ UpOK(c.up, q) /\ Behind(q, c.up, N) /\ Going(c)
      /\ Len(q) - m <= attr.max_unmatched_frames + 1
  BY DEF Row
<1>1. /\ DOMAIN q = 1 .. Len(q) /\ Len(q) \in Nat /\ m \in Nat /\ m <= Len(q) /\ q \in Seq(Node)
      /\ \A k \in DOMAIN q : NodeOK(q[k]) /\ (q[k].matched <=> k <= m)
  BY <1>0, QueueParts DEF QueueOK
<1>2. i \in 1 .. Len(q) /\ i > m /\ n \in Nat
  BY <1>1
<1>3. f \in Nat \ {0} /\ f \in Frames /\ s \in Streams /\ s \in attr.streams
  BY FirstFacts DEF First
<1>4. /\ part \in Node /\ part.super_buf[s] = f /\ part.frame_idx = f
      /\ \A t \in Streams : t # s => part.super_buf[t] = q[i].super_buf[t]
  <2>1. q[i] \in Node
    BY <1>1
  <2> QED
    BY <1>3, <2>1 DEF Node
<1>5. d.queue[i] = part /\ d = [c EXCEPT !.queue = [q EXCEPT ![i] = part]]
  BY <1>0, <1>1, <1>2 DEF Going, Chan, Fields
<1>6. attr.streams \subseteq Streams
  BY Bounds
<1>7. /\ node \in Node /\ NodeOK(node) /\ node.matched = TRUE /\ node.frame_idx = f
      /\ node.super_buf[s] = f /\ \A t \in attr.streams : t # s => node.super_buf[t] = q[i].super_buf[t]
  <2>1. node \in Node /\ node.frame_idx = f /\ node.super_buf = part.super_buf /\ node.matched = TRUE
    BY <1>4 DEF Node
  <2>2. \A t \in attr.streams : node.super_buf[t] # 0 /\ node.super_buf[t] \in {0, f}
    <3>1. NodeOK(q[i]) /\ q[i].frame_idx = f
      BY <1>1, <1>2
    <3>2. \A t \in attr.streams : q[i].super_buf[t] \in {0, f}
      BY <3>1 DEF NodeOK
    <3> QED
      BY <3>2, <2>1, <1>4, <1>5, <1>6
  <2> HIDE DEF node
  <2> QED
    BY <1>3, <1>4, <1>6, <2>1, <2>2 DEF NodeOK
<1>8. Beside(c, g) /\ g.queue = p /\ g.match_cnt = m + 1
  <2>1. Beside(c, d) /\ d.queue = [q EXCEPT ![i] = part] /\ d.match_cnt = m
    <3> HIDE DEF part
    <3> QED
      BY <1>0, <1>5 DEF Going, Beside, Chan, Fields
  <2> HIDE DEF part
  <2>2. Beside(d, e) /\ e.queue = d.queue /\ e.match_cnt = m
    <3>1. Chan(d)
      BY <2>1 DEF Beside
    <3>2. Alike(d, e)
      BY <3>1, ExpectNextAlike
    <3> QED
      BY <2>1, <3>2 DEF Alike
  <2> HIDE DEF e
  <2>q. e.queue \in Seq(Node) /\ i \in DOMAIN e.queue /\ e.queue[i] = part
    <3>1. part \in Node /\ q \in Seq(Node) /\ i \in DOMAIN q
      BY <1>1, <1>4
    <3>2. e.queue = [q EXCEPT ![i] = part]
      BY <2>1, <2>2
    <3> QED
      BY <3>1, <3>2, Replaced
  <2>3. Beside(e, g) /\ g.match_cnt = m + 1
        /\ g.queue = [e.queue EXCEPT ![i] = [e.queue[i] EXCEPT !.matched = TRUE, !.expected = FALSE]]
    <3>1. Chan(e)
      BY <2>2 DEF Beside
    <3>2. Beside(e, g) /\ g.match_cnt = e.match_cnt + 1
          /\ g.queue = [e.queue EXCEPT ![i] = [e.queue[i] EXCEPT !.matched = TRUE, !.expected = FALSE]]
      BY ZenonT(40), <2>q, <3>1, MarkBeside
    <3> HIDE DEF g
    <3> QED
      BY <2>2, <3>2
  <2> HIDE DEF g
  <2>4. g.queue = [e.queue EXCEPT ![i] = node]
    BY <2>3, <2>q DEF part
  <2>5. g.queue = p
    <3> HIDE DEF node
    <3>1. e.queue = [q EXCEPT ![i] = part]
      BY <2>1, <2>2
    <3> QED
      BY <2>4, <3>1
  <2>6. Beside(c, e)
    BY <2>1, <2>2, AlikeTwice
  <2> QED
    BY <2>3, <2>5, <2>6, AlikeTwice
<1>9. x = IF older = <<>> THEN g ELSE Discard(g, older[1], i - 1)
  BY DEF Complete
<1>10. /\ older = <<>> => i = m + 1
       /\ older # <<>> => older[1] = m + 1 /\ m + 1 < i
  <2>1. f \in Int /\ i > c.match_cnt /\ c.queue[i].frame_idx = f
    BY <1>2, <1>3
  <2> QED
    BY <2>1, OlderBefore
<1> HIDE DEF g, older, x, node, part, e
<1>11. p \in Seq(Node) /\ Len(p) = Len(q) /\ DOMAIN p = 1 .. Len(q) /\ p[i] = node
       /\ \A k \in DOMAIN q : k # i => p[k] = q[k]
  <2>1. q \in Seq(Node) /\ i \in DOMAIN q /\ node \in Node
    BY <1>1, <1>7
  <2>2. p \in Seq(Node) /\ Len(p) = Len(q)
    BY <2>1, Replaced
  <2> QED
    BY <1>1, <1>2, <2>2
<1> HIDE DEF p
<1>12. Beside(c, x) /\ x.match_cnt = m + 1
  <2>1. Chan(g)
    BY <1>8 DEF Beside
  <2>2. Beside(g, Discard(g, older[1], i - 1)) /\ Discard(g, older[1], i - 1).match_cnt = m + 1
    BY <1>8, <2>1, DiscardBeside
  <2> QED
    BY <1>8, <1>9, <2>2, AlikeTwice
<1>13. /\ r \in Seq(Node) /\ Len(r) = Len(q) - n
       /\ \A k \in 1 .. m : r[k] = p[k]
       /\ \A k \in m + 1 .. Len(r) : r[k] = p[k + n]
  <2>1. CASE older = <<>>
    <3>1. r = p /\ n = 0
      BY <2>1, <1>1, <1>8, <1>9, <1>10
    <3>2. \A k \in m + 1 .. Len(r) : k + n = k
      BY <1>1, <1>11, <3>1
    <3>3. Len(r) = Len(q) - n /\ r \in Seq(Node)
      BY <3>1, <1>1, <1>11
    <3>4. \A k \in m + 1 .. Len(r) : r[k] = p[k + n]
      BY <3>1, <3>2
    <3> QED
      BY <3>1, <3>3, <3>4
  <2>2. CASE older # <<>>
    <3> DEFINE a == older[1]
               b == i - 1
    <3>1. r = CutOf(p, a, b) /\ a = m + 1 /\ b = i - 1
      <4>1. Chan(g)
        BY <1>8 DEF Beside
      <4>2. Discard(g, a, b).queue = CutOf(g.queue, a, b)
        BY <4>1, DiscardBeside DEF CutOf
      <4> QED
        BY <2>2, <4>2, <1>8, <1>9, <1>10
    <3> HIDE DEF a, b
    <3>2. p \in Seq(Node) /\ m \in Nat /\ i \in Nat /\ m + 1 < i /\ i <= Len(p)
      BY <2>2, <1>1, <1>2, <1>10, <1>11
    <3> HIDE DEF r, m, q, n
    <3>4. a \in Nat \ {0} /\ b \in Nat /\ a <= b + 1 /\ b <= Len(p)
      BY <3>1, <3>2
    <3>5. IsCut(p, a, b, r)
      BY <3>1, <3>2, <3>4, CutTo
    <3>6. b - a + 1 = i - 1 - m /\ a - 1 = m
      BY <3>1, <3>2
    <3>3. /\ r \in Seq(Node) /\ Len(r) = Len(p) - (i - 1 - m)
          /\ \A k \in 1 .. m : r[k] = p[k]
          /\ \A k \in m + 1 .. Len(r) : r[k] = p[k + (i - 1 - m)]
      BY <3>1, <3>2, <3>5, <3>6 DEF IsCut
    <3> QED
      BY <3>3, <1>11 DEF n
  <2> QED
    BY <2>1, <2>2
<1> HIDE DEF r, m, q, n
<1>14. DOMAIN r = 1 .. Len(r) /\ Len(r) \in Nat /\ i = m + 1 + n /\ m + 1 <= Len(r)
  BY <1>1, <1>2, <1>13 DEF n
<1>15. \A k \in DOMAIN r : old[k] = IF k <= m THEN k ELSE k + n
  OBVIOUS
<1> HIDE DEF old
<1>16. \A k \in DOMAIN r : old[k] \in DOMAIN q /\ r[k] = p[old[k]] /\ (old[k] = i <=> k = m + 1)
  <2> TAKE k \in DOMAIN r
  <2>1. CASE k <= m
    <3>1. k \in 1 .. m /\ old[k] = k /\ k \in 1 .. Len(q) /\ k # i /\ k # m + 1
      BY <2>1, <1>1, <1>2, <1>14, <1>15
    <3> QED
      BY <3>1, <1>1, <1>13
  <2>2. CASE ~(k <= m)
    <3>1. k \in m + 1 .. Len(r) /\ old[k] = k + n /\ k + n \in 1 .. Len(q) /\ (k + n = i <=> k = m + 1)
      BY <2>2, <1>1, <1>2, <1>13, <1>14, <1>15
    <3> QED
      BY <3>1, <1>1, <1>13
  <2> QED
    BY <2>1, <2>2
<1>17. \A k, l \in DOMAIN r : k < l => old[k] < old[l]
  BY <1>1, <1>2, <1>14, <1>15
<1>18. \A k \in DOMAIN r : k # m + 1 => (k <= m + 1 <=> old[k] <= m)
  BY <1>1, <1>2, <1>14, <1>15
<1>19. \A k \in DOMAIN r : /\ old[k] \in DOMAIN q /\ r[k].frame_idx = q[old[k]].frame_idx
                           /\ NodeOK(r[k]) /\ (r[k].matched <=> k <= m + 1)
  <2> TAKE k \in DOMAIN r
  <2>1. CASE k = m + 1
    <3>1. r[k] = node /\ old[k] = i
      BY <2>1, <1>11, <1>16
    <3>2. q[i].frame_idx = f
      BY DEF q
    <3>3. k <= m + 1
      BY <2>1, <1>14
    <3> QED
      BY <3>1, <3>2, <3>3, <1>7, <1>16
  <2>2. CASE k # m + 1
    <3>1. old[k] \in DOMAIN q /\ r[k] = q[old[k]]
      BY <2>2, <1>11, <1>16
    <3>2. NodeOK(q[old[k]]) /\ (q[old[k]].matched <=> old[k] <= m)
      BY <3>1, <1>1
    <3> QED
      BY <2>2, <3>1, <3>2, <1>18
  <2> QED
    BY <2>1, <2>2
<1>20. QueueOK(r, m + 1) /\ UpOK(c.up, r)
  <2>1. m + 1 \in 0 .. Len(r) /\ r \in Seq(Node)
    BY <1>1, <1>13, <1>14
  <2> QED
    BY <1>0, <1>17, <1>19, <2>1, SubQueue
<1>21. Behind(r, c.up, M)
  <2> SUFFICES ASSUME NEW t \in attr.streams, NEW h \in Frames, Buffer(t, h) \in M
               PROVE  /\ \A k \in DOMAIN r : r[k].super_buf[t] < h
                      /\ \A k \in DOMAIN c.up : c.up[k][t] < h
    BY DEF Behind
  <2>1. Buffer(t, h) \in N
    BY DEF Others
  <2>2. /\ \A k \in DOMAIN q : q[k].super_buf[t] < h
        /\ \A k \in DOMAIN c.up : c.up[k][t] < h
    BY <1>0, <2>1 DEF Behind
  <2>3. node.super_buf[t] < h
    <3>1. CASE t = s
      <4>1. f < h
        BY <3>1, FirstFacts
      <4> QED
        BY <3>1, <4>1, <1>7
    <3>2. CASE t # s
      BY <3>2, <1>1, <1>2, <1>7, <2>2
    <3> QED
      BY <3>1, <3>2
  <2>4. ASSUME NEW k \in DOMAIN r PROVE r[k].super_buf[t] < h
    <3>1. CASE k = m + 1
      BY <3>1, <2>3, <1>11, <1>16
    <3>2. CASE k # m + 1
      <4>1. old[k] \in DOMAIN q /\ r[k] = q[old[k]]
        BY <3>2, <1>11, <1>16
      <4> QED
        BY <4>1, <2>2
    <3> QED
      BY <3>1, <3>2
  <2> QED
    BY <2>2, <2>4
<1>22. Going(x) /\ x.up = c.up
  BY <1>0, <1>12 DEF Beside, Going
<1>23. Len(r) - (m + 1) <= attr.max_unmatched_frames + 1
  <2>1. Len(r) - (m + 1) <= Len(q) - m /\ Len(r) - (m + 1) \in Int /\ Len(q) - m \in Int
    BY <1>1, <1>2, <1>13
  <2>2. Len(q) - m <= attr.max_unmatched_frames + 1 /\ attr.max_unmatched_frames \in Nat
    BY <1>0, Bounds DEF q, m
  <2> QED
    BY <2>1, <2>2
<1> QED
  BY <1>12, <1>20, <1>21, <1>22, <1>23 DEF Row, r, x, older, m, M

(* d is c, but for what node i is expected for. *)
Spared(c, d, i) ==
    /\ Beside(c, d) /\ d.match_cnt = c.match_cnt
    /\ \E b \in BOOLEAN : d.queue = [c.queue EXCEPT ![i] = [c.queue[i] EXCEPT !.expected = b]]

LEMMA SpareBeside ==
    ASSUME NEW c, NEW i, NEW f, Chan(c), c.queue \in Seq(Node), i \in DOMAIN c.queue
    PROVE  Spared(c, Spare(c, i, f), i)
<1> DEFINE q == c.queue
           x == [c EXCEPT !.queue[i].expected = TRUE, !.diverted_frame_id = 0]
<1>1. Beside(c, c) /\ c.queue = [q EXCEPT ![i] = [q[i] EXCEPT !.expected = q[i].expected]]
      /\ q[i].expected \in BOOLEAN
  <2>1. q[i] \in Node
    OBVIOUS
  <2>2. [q[i] EXCEPT !.expected = q[i].expected] = q[i] /\ q[i].expected \in BOOLEAN
    BY <2>1 DEF Node
  <2>3. [q EXCEPT ![i] = q[i]] = q
    OBVIOUS
  <2> QED
    BY <2>2, <2>3 DEF Beside
<1>2. Beside(c, x) /\ x.match_cnt = c.match_cnt /\ x.queue = [q EXCEPT ![i] = [q[i] EXCEPT !.expected = TRUE]]
  BY DEF Beside, Chan, Fields
<1>3. Spare(c, i, f) \in {c, x}
  BY DEF Spare
<1> HIDE DEF x
<1>4. CASE Spare(c, i, f) = c
  BY <1>1, <1>4 DEF Spared
<1>5. CASE Spare(c, i, f) = x
  BY <1>2, <1>5 DEF Spared
<1> QED
  BY <1>3, <1>4, <1>5

(* The node of its frame takes the buffer. *)
LEMMA AddToRow ==
    ASSUME NEW c, NEW N, Row(c, N), attr \in Profiles, NEW s, NEW f, First(N, s, f),
           NEW i \in DOMAIN c.queue, ~c.queue[i].matched, c.queue[i].frame_idx = f
    PROVE  Row(AddTo(c, i, s, f), Others(N, s, f))
<1> DEFINE q == c.queue
           part == [q[i] EXCEPT !.super_buf[s] = f]
           d == [c EXCEPT !.queue[i].super_buf[s] = f]
           older == FirstOf({j \in Older(c, f) : j < i})
           M == Others(N, s, f)
<1>0. QueueOK(q, c.match_cnt) /\ Behind(q, c.up, N) /\ Going(c)
  BY DEF Row
<1>1. [c EXCEPT !.nomatch_frame_id = 0] = c
  BY <1>0 DEF Going, Chan, Fields
<1>2. /\ q \in Seq(Node) /\ q[i] \in Node /\ NodeOK(q[i])
      /\ q[i].super_buf[s] = 0 /\ s \in attr.streams /\ s \in Streams /\ f \in Frames /\ f \in Nat \ {0}
  BY <1>0, FirstFacts, QueueParts DEF QueueOK, First
<1>3. AddTo(c, i, s, f) =
        IF \A t \in attr.streams : d.queue[i].super_buf[t] # 0 THEN Complete(d, i, f, older) ELSE Spare(d, i, f)
  <2> DEFINE Taken(e) ==
        LET x == [e EXCEPT !.queue[i].super_buf[s] = f]
        IN IF e.queue[i].super_buf[s] # 0 THEN qbuf(e, {Buffer(s, f)})
           ELSE IF \A t \in attr.streams : x.queue[i].super_buf[t] # 0
           THEN Complete(x, i, f, FirstOf({j \in Older(e, f) : j < i})) ELSE Spare(x, i, f)
  <2>1. AddTo(c, i, s, f) = Taken([c EXCEPT !.nomatch_frame_id = 0])
    BY DEF AddTo
  <2> HIDE DEF Taken
  <2>2. AddTo(c, i, s, f) = Taken(c)
    BY <1>1, <2>1
  <2> QED
    BY <1>2, <2>2, Zenon DEF Taken
<1>4. CASE \A t \in attr.streams : d.queue[i].super_buf[t] # 0
  <2>1. Row(Complete(d, i, f, older), M)
    BY <1>4, CompleteRow
  <2> QED
    BY <1>3, <1>4, <2>1
<1>5. CASE ~\A t \in attr.streams : d.queue[i].super_buf[t] # 0
  <2>1. /\ part \in Node /\ part.super_buf[s] = f /\ part.frame_idx = f /\ part.matched = q[i].matched
        /\ \A t \in Streams : t # s => part.super_buf[t] = q[i].super_buf[t]
    BY <1>2 DEF Node
  <2>2. Beside(c, d) /\ d.queue = [q EXCEPT ![i] = part] /\ d.match_cnt = c.match_cnt
    BY <1>0 DEF Going, Beside, Chan, Fields
  <2> HIDE DEF part, d
  <2>3. d.queue \in Seq(Node) /\ i \in DOMAIN d.queue /\ d.queue[i] = part
    BY <1>2, <2>1, <2>2, Replaced
  <2>4. PICK b \in BOOLEAN : /\ Beside(d, Spare(d, i, f)) /\ Spare(d, i, f).match_cnt = d.match_cnt
                             /\ Spare(d, i, f).queue = [d.queue EXCEPT ![i] = [d.queue[i] EXCEPT !.expected = b]]
    <3>1. Chan(d)
      BY <2>2 DEF Beside
    <3>2. Spared(d, Spare(d, i, f), i)
      BY <2>3, <3>1, SpareBeside
    <3> QED
      BY <3>2, Zenon DEF Spared
  <2> DEFINE node == [part EXCEPT !.expected = b]
  <2>5. node \in Node /\ node.frame_idx = f /\ node.matched = q[i].matched /\ node.super_buf = part.super_buf
    BY <2>1, <2>4 DEF Node
  <2>6. Spare(d, i, f).queue = [q EXCEPT ![i] = node]
    <3>1. Spare(d, i, f).queue = [d.queue EXCEPT ![i] = node]
      BY <2>3, <2>4
    <3> HIDE DEF node
    <3> QED
      BY <2>2, <3>1
  <2> HIDE DEF node
  <2>7. NodeOK(node)
    <3>1. \E t \in attr.streams : part.super_buf[t] = 0
      BY <1>5, <2>3
    <3>2. attr.streams \subseteq Streams
      BY Bounds
    <3>3. \A t \in attr.streams : part.super_buf[t] \in {0, f}
      <4>1. \A t \in attr.streams : q[i].super_buf[t] \in {0, f}
        BY <1>2 DEF NodeOK
      <4> QED
        BY <2>1, <3>2, <4>1
    <3> QED
      BY <1>2, <2>1, <2>5, <3>1, <3>3 DEF NodeOK
  <2>8. ASSUME NEW t \in attr.streams, NEW g \in Frames, Buffer(t, g) \in M
        PROVE  Buffer(t, g) \in N /\ node.super_buf[t] < g
    <3>1. Buffer(t, g) \in N
      BY <2>8 DEF Others
    <3>2. CASE t = s
      <4>1. f < g
        BY <2>8, <3>2, FirstFacts
      <4> QED
        BY <2>1, <2>5, <3>1, <3>2, <4>1
    <3>3. CASE t # s
      <4>1. q[i].super_buf[t] < g
        BY <1>0, <3>1 DEF Behind
      <4>2. t \in Streams
        BY Bounds
      <4> QED
        BY <2>1, <2>5, <3>1, <3>3, <4>1, <4>2
    <3> QED
      BY <3>2, <3>3
  <2>9. Beside(c, Spare(d, i, f)) /\ Spare(d, i, f).match_cnt = c.match_cnt
    BY <2>2, <2>4, AlikeTwice
  <2>10. q[i].frame_idx = f
    OBVIOUS
  <2>11. Row(Spare(d, i, f), M)
    <3> DEFINE x == Spare(d, i, f)
    <3>1. Beside(c, x) /\ x.match_cnt = c.match_cnt /\ x.queue = [c.queue EXCEPT ![i] = node]
      BY <2>6, <2>9
    <3> HIDE DEF x, M
    <3>2. \A t \in attr.streams : \A g \in Frames : Buffer(t, g) \in M => Buffer(t, g) \in N /\ node.super_buf[t] < g
      BY <2>8
    <3>3. node \in Node /\ node.frame_idx = c.queue[i].frame_idx /\ (node.matched <=> c.queue[i].matched)
      BY <2>5, <2>10
    <3>4. Row(x, M)
      BY <2>7, <3>1, <3>2, <3>3, ReplaceRow
    <3> QED
      BY <3>4 DEF x
  <2> QED
    BY <1>3, <1>5, <2>11
<1> QED
  BY <1>4, <1>5

(* One node makes room, none of the complete ones. *)
LEMMA MakeRoomRow ==
    ASSUME NEW c, NEW N, Row(c, N), attr \in Profiles, NEW older, NEW newer,
           older = <<>> \/ older[1] \in Unmatched(c.queue),
           older = <<>> => ~(Cardinality(Unmatched(c.queue)) > attr.max_unmatched_frames)
    PROVE  /\ Row(MakeRoom(c, older, newer), N)
           /\ Len(MakeRoom(c, older, newer).queue) - MakeRoom(c, older, newer).match_cnt
                <= attr.max_unmatched_frames
           /\ StillUnmatched(c.queue, MakeRoom(c, older, newer).queue)
<1> DEFINE q == c.queue
           m == c.match_cnt
           most == attr.max_unmatched_frames
           surplus == Cardinality(Unmatched(q)) > most
           free == {i \in DOMAIN q : i >= older[1] /\ ~q[i].expected /\ (newer = <<>> \/ i # newer[1])}
           victim == IF free = {} THEN older[1] ELSE Min(free)
           e == Discard(c, victim, victim)
           d == [e EXCEPT !.hangs = @ \/ Cardinality(Unmatched(q)) > most + 1]
<1>1. MakeRoom(c, older, newer) = IF ~surplus THEN c ELSE d
  BY DEF MakeRoom
<1>2. /\ QueueOK(q, m) /\ Chan(c) /\ c.hangs = FALSE /\ Len(q) - m <= most + 1
  BY DEF Row, Going
<1>3. /\ DOMAIN q = 1 .. Len(q) /\ Len(q) \in Nat /\ m \in Nat /\ m <= Len(q) /\ most \in Nat
      /\ Unmatched(q) = m + 1 .. Len(q) /\ Cardinality(Unmatched(q)) = Len(q) - m
  BY <1>2, QueueParts, Counted, Bounds
<1>4. CASE ~surplus
  <2>1. Len(q) - m <= most
    BY <1>3, <1>4
  <2>2. StillUnmatched(q, q)
    BY DEF StillUnmatched
  <2> HIDE DEF d, q, m
  <2> QED
    BY <1>1, <1>4, <2>1, <2>2 DEF q, m
<1>5. CASE surplus
  <2>1. older[1] \in m + 1 .. Len(q)
    BY <1>3, <1>5
  <2>2. free \in SUBSET Nat /\ free \subseteq DOMAIN q /\ \A x \in free : x >= older[1]
    BY <1>3
  <2> HIDE DEF free
  <2>3. victim \in m + 1 .. Len(q)
    <3>1. CASE free = {}
      BY <2>1, <3>1
    <3>2. CASE free # {}
      <4>1. Min(free) \in free
        BY <2>2, <3>2, MinNat
      <4>2. Min(free) \in 1 .. Len(q) /\ Min(free) >= older[1]
        BY <1>3, <2>2, <4>1
      <4> QED
        BY <1>3, <2>1, <3>2, <4>2
    <3> QED
      BY <3>1, <3>2
  <2> HIDE DEF victim
  <2>4. /\ Beside(c, e) /\ e.match_cnt = m
        /\ e.queue = SubSeq(q, 1, victim - 1) \o SubSeq(q, victim + 1, Len(q))
    BY <1>2, DiscardBeside
  <2> HIDE DEF e
  <2>5. ~(Cardinality(Unmatched(q)) > most + 1)
    BY <1>2, <1>3
  <2>6. Beside(e, d) /\ d.queue = e.queue /\ d.match_cnt = e.match_cnt
    BY <1>2, <2>4, <2>5 DEF Beside, Chan, Fields
  <2> HIDE DEF d
  <2>7. Beside(c, d) /\ d.match_cnt = m
    BY <2>4, <2>6, AlikeTwice
  <2>8. victim \in Nat \ {0} /\ victim \in Nat /\ victim <= victim + 1 /\ victim <= Len(q) /\ victim > m
    BY <1>3, <2>3
  <2>9. Cut(c, d, victim, victim)
    BY <2>4, <2>6, <2>7, <2>8 DEF Cut
  <2>10. /\ Row(d, N) /\ Len(d.queue) = Len(q) - 1
         /\ StillUnmatched(q, d.queue)
    <3>1. ASSUME NEW j, j = victim
          PROVE  /\ Row(d, N) /\ Len(d.queue) = Len(c.queue) - (j - victim + 1)
                 /\ StillUnmatched(c.queue, d.queue)
      <4>1. j \in Nat /\ victim <= j + 1 /\ j <= Len(c.queue) /\ Cut(c, d, victim, j)
        BY <2>8, <2>9, <3>1
      <4>2. attr.max_unmatched_frames \in Nat
        BY <1>3
      <4> HIDE DEF q, m
      <4>3. j \in Nat
        BY <4>1
      <4>4. victim \in Nat \ {0}
        BY <2>8
      <4>5. victim <= j + 1
        BY <4>1
      <4>6. j <= Len(c.queue)
        BY <4>1
      <4>7. Cut(c, d, victim, j)
        BY <4>1
      <4>8. Row(c, N)
        OBVIOUS
      <4> QED
        BY ZenonT(40), <4>2, <4>3, <4>4, <4>5, <4>6, <4>7, <4>8, CutRow
    <3>2. victim - victim + 1 = 1
      BY <2>8
    <3> QED
      BY <3>1, <3>2
  <2>11. Len(d.queue) - d.match_cnt <= most
    BY <1>2, <1>3, <2>7, <2>10
  <2> HIDE DEF q, m
  <2> QED
    BY <1>1, <1>5, <2>10, <2>11 DEF q
<1> QED
  BY <1>4, <1>5

(* Where a node with a frame of its own goes. *)
LEMMA PlaceOfNew ==
    ASSUME NEW c, NEW N, Row(c, N), NEW s, NEW f, First(N, s, f),
           \A k \in Unmatched(c.queue) : c.queue[k].frame_idx # f
    PROVE  LET newer == FirstOf(Newer(c, f))
               at == IF newer = <<>> THEN Len(c.queue) + 1 ELSE newer[1]
           IN /\ at \in c.match_cnt + 1 .. Len(c.queue) + 1
              /\ \A k \in DOMAIN c.queue : k < at => c.queue[k].frame_idx < f
              /\ \A k \in DOMAIN c.queue : k >= at => c.queue[k].frame_idx > f
<1> DEFINE q == c.queue
           m == c.match_cnt
           S == Newer(c, f)
           at == IF FirstOf(S) = <<>> THEN Len(q) + 1 ELSE FirstOf(S)[1]
<1>1. /\ QueueOK(q, m) /\ f \in Nat /\ \A k \in DOMAIN q : k <= m => q[k].frame_idx < f
  BY FirstFacts DEF Row
<1>2. /\ DOMAIN q = 1 .. Len(q) /\ Len(q) \in Nat /\ m \in Nat /\ m <= Len(q)
      /\ Unmatched(q) = m + 1 .. Len(q) /\ \A k \in DOMAIN q : q[k].frame_idx \in Int
  BY <1>1, QueueParts, Counted
<1>3. \A i, j \in DOMAIN q : i < j => q[i].frame_idx < q[j].frame_idx
  BY <1>1 DEF QueueOK
<1>4. S = {i \in m + 1 .. Len(q) : q[i].frame_idx > f}
  BY <1>2 DEF Newer
<1>5. \A k \in m + 1 .. Len(q) : q[k].frame_idx # f
  BY <1>2
<1> HIDE DEF q, m, S
<1>6. CASE S = {}
  <2>1. at = Len(q) + 1
    BY <1>6 DEF FirstOf
  <2>2. ASSUME NEW k \in DOMAIN q PROVE q[k].frame_idx < f /\ k < at
    <3>1. CASE k <= m
      BY <3>1, <2>1, <1>1, <1>2
    <3>2. CASE ~(k <= m)
      <4>1. k \in m + 1 .. Len(q)
        BY <3>2, <1>2
      <4>2. ~(q[k].frame_idx > f)
        BY <4>1, <1>4, <1>6
      <4> QED
        BY <4>1, <4>2, <2>1, <1>1, <1>2, <1>5
    <3> QED
      BY <3>1, <3>2
  <2>3. at \in m + 1 .. Len(q) + 1 /\ \A k \in DOMAIN q : ~(k >= at)
    BY <2>1, <1>2
  <2> QED
    BY <2>2, <2>3 DEF q, m, S
<1>7. CASE S # {}
  <2>1. S \in SUBSET Nat
    BY <1>2, <1>4
  <2>2. Min(S) \in S /\ \A y \in S : Min(S) <= y
    BY <2>1, <1>7, MinNat
  <2>3. at = Min(S)
    BY <1>7 DEF FirstOf
  <2> HIDE DEF at
  <2>4. at \in m + 1 .. Len(q) /\ q[at].frame_idx > f
    BY <2>2, <2>3, <1>4
  <2>5. ASSUME NEW k \in DOMAIN q, k < at PROVE q[k].frame_idx < f
    <3>1. CASE k <= m
      BY <3>1, <1>1
    <3>2. CASE ~(k <= m)
      <4>1. k \in m + 1 .. Len(q)
        BY <3>2, <1>2
      <4>2. k \notin S
        BY <2>2, <2>3, <2>4, <2>5, <4>1, <1>2
      <4>3. ~(q[k].frame_idx > f) /\ q[k].frame_idx # f /\ q[k].frame_idx \in Int
        BY <4>1, <4>2, <1>2, <1>4, <1>5
      <4> QED
        BY <4>3, <1>1
    <3> QED
      BY <3>1, <3>2
  <2>6. ASSUME NEW k \in DOMAIN q, k >= at PROVE q[k].frame_idx > f
    <3>1. at \in DOMAIN q /\ (k = at \/ at < k)
      BY <2>4, <2>6, <1>2
    <3>2. q[at].frame_idx \in Int /\ q[k].frame_idx \in Int
      BY <3>1, <1>2
    <3>3. CASE k = at
      BY <2>4, <3>3
    <3>4. CASE at < k
      <4>1. q[at].frame_idx < q[k].frame_idx
        BY <3>1, <3>4, <1>3
      <4> QED
        BY <2>4, <3>2, <4>1, <1>1
    <3> QED
      BY <3>1, <3>3, <3>4
  <2>7. at \in m + 1 .. Len(q) + 1
    BY <2>4, <1>2
  <2> QED
    BY <2>5, <2>6, <2>7 DEF q, m, S, at
<1> QED
  BY <1>6, <1>7

(* d is c with a node of frame f at a place of its own, complete when s is the only stream. *)
Inserts(c, d, at, s, f) ==
    /\ Beside(c, d) /\ d.queue \in Seq(Node) /\ Len(d.queue) = Len(c.queue) + 1
    /\ \A k \in 1 .. at - 1 : d.queue[k] = c.queue[k]
    /\ \A k \in at + 1 .. Len(d.queue) : d.queue[k] = c.queue[k - 1]
    /\ d.queue[at].frame_idx = f /\ d.queue[at].super_buf[s] = f
    /\ \A t \in Streams : t # s => d.queue[at].super_buf[t] = 0
    /\ d.queue[at].matched = (attr.streams = {s})
    /\ d.match_cnt = IF attr.streams = {s} THEN c.match_cnt + 1 ELSE c.match_cnt

PlaceOf(c, f) == IF FirstOf(Newer(c, f)) = <<>> THEN Len(c.queue) + 1 ELSE FirstOf(Newer(c, f))[1]

LEMMA NewNodeInserts ==
    ASSUME NEW c, Chan(c), c.queue \in Seq(Node), NEW s \in Streams, NEW f \in Frames \ {0},
           attr.priority = "NORMAL", PlaceOf(c, f) \in 1 .. Len(c.queue) + 1
    PROVE  Inserts(c, NewNode(c, s, f), PlaceOf(c, f), s, f)
<1> DEFINE node == [EmptyNode EXCEPT !.frame_idx = f, !.super_buf[s] = f]
           at == PlaceOf(c, f)
           q == InsertAt(c.queue, at, node)
           p == [c EXCEPT !.queue = InsertAt(@, at, node)]
           d == Spare(p, at, f)
           g == [d EXCEPT !.queue[at].matched = TRUE, !.queue[at].expected = FALSE,
                          !.match_cnt = @ + 1, !.expected_frame_id = f + attr.post_frame_skip]
           alone == attr.streams = {s}
<1>1. NewNode(c, s, f) = IF alone THEN g ELSE d
  BY DEF NewNode, PlaceOf
<1>2. /\ node \in Node /\ node.frame_idx = f /\ node.matched = FALSE
      /\ node.super_buf[s] = f /\ \A t \in Streams : t # s => node.super_buf[t] = 0
  <2>1. 0 \in Frames /\ f \in Frames /\ f \in Int
    BY ProfilesAssumption DEF Frames
  <2> QED
    BY <2>1 DEF EmptyNode, Node
<1> HIDE DEF node, at
<1>3. at \in 1 .. Len(c.queue) + 1 /\ Len(c.queue) \in Nat
  BY DEF at
<1>4. /\ q \in Seq(Node) /\ Len(q) = Len(c.queue) + 1 /\ q[at] = node
      /\ \A k \in 1 .. at - 1 : q[k] = c.queue[k]
      /\ \A k \in at + 1 .. Len(q) : q[k] = c.queue[k - 1]
  BY <1>2, <1>3, Inserted
<1>5. Beside(c, p) /\ p.queue = q /\ p.match_cnt = c.match_cnt
  BY DEF Beside, Chan, Fields
<1> HIDE DEF p, q
<1>6. at \in DOMAIN q
  BY <1>3, <1>4
<1>7. PICK b \in BOOLEAN : /\ Beside(p, d) /\ d.match_cnt = p.match_cnt
                           /\ d.queue = [p.queue EXCEPT ![at] = [p.queue[at] EXCEPT !.expected = b]]
  <2>1. Chan(p) /\ p.queue \in Seq(Node) /\ at \in DOMAIN p.queue
    BY <1>4, <1>5, <1>6 DEF Beside
  <2>2. Spared(p, d, at)
    BY <2>1, SpareBeside
  <2> QED
    BY <2>2, Zenon DEF Spared
<1> HIDE DEF d
<1>8. Beside(c, d) /\ d.match_cnt = c.match_cnt
  BY <1>5, <1>7, AlikeTwice
<1> DEFINE spared == [node EXCEPT !.expected = b]
           full == [spared EXCEPT !.matched = TRUE, !.expected = FALSE]
<1>9. /\ spared \in Node /\ spared.frame_idx = f /\ spared.matched = FALSE /\ spared.super_buf = node.super_buf
      /\ full \in Node /\ full.frame_idx = f /\ full.matched = TRUE /\ full.super_buf = node.super_buf
  BY <1>2, <1>7 DEF Node
<1> HIDE DEF spared
<1>10. d.queue = [q EXCEPT ![at] = spared]
  BY <1>4, <1>5, <1>7 DEF spared
<1>11. d.queue \in Seq(Node) /\ Len(d.queue) = Len(q) /\ DOMAIN d.queue = DOMAIN q /\ d.queue[at] = spared
       /\ \A k \in DOMAIN q : k # at => d.queue[k] = q[k]
  <2>1. [q EXCEPT ![at] = spared] \in Seq(Node) /\ Len([q EXCEPT ![at] = spared]) = Len(q)
    BY <1>4, <1>6, <1>9, Replaced
  <2> QED
    BY <2>1, <1>6, <1>10
<1>12. Beside(d, g) /\ g.match_cnt = d.match_cnt + 1
       /\ g.queue = [d.queue EXCEPT ![at] = [d.queue[at] EXCEPT !.matched = TRUE, !.expected = FALSE]]
  <2>1. Chan(d) /\ at \in DOMAIN d.queue /\ d.queue \in Seq(Node)
    BY <1>6, <1>8, <1>11 DEF Beside
  <2> QED
    BY <2>1 DEF Beside, Chan, Fields
<1> HIDE DEF g
<1>13. g.queue = [d.queue EXCEPT ![at] = full]
  BY <1>11, <1>12
<1> HIDE DEF full
<1>14. g.queue \in Seq(Node) /\ Len(g.queue) = Len(q) /\ g.queue[at] = full
       /\ \A k \in DOMAIN q : k # at => g.queue[k] = q[k]
  <2>1. [d.queue EXCEPT ![at] = full] \in Seq(Node) /\ Len([d.queue EXCEPT ![at] = full]) = Len(d.queue)
    BY <1>6, <1>9, <1>11, Replaced
  <2> QED
    BY <2>1, <1>6, <1>11, <1>13
<1>15. /\ \A k \in 1 .. at - 1 : k \in DOMAIN q /\ k # at
       /\ \A k \in at + 1 .. Len(q) : k \in DOMAIN q /\ k # at
  BY <1>3, <1>4
<1>s. \A t \in Streams : t # s => node.super_buf[t] = 0
  BY <1>2
<1>16. CASE alone
  <2>1. Beside(c, g)
    BY <1>8, <1>12, AlikeTwice
  <2>3. g.queue \in Seq(Node) /\ Len(g.queue) = Len(c.queue) + 1
    BY <1>4, <1>14
  <2>4. \A k \in 1 .. at - 1 : g.queue[k] = c.queue[k]
    BY <1>4, <1>14, <1>15
  <2>5. \A k \in at + 1 .. Len(g.queue) : g.queue[k] = c.queue[k - 1]
    BY <1>4, <1>14, <1>15
  <2>6. /\ g.queue[at].frame_idx = f /\ g.queue[at].super_buf = node.super_buf /\ node.super_buf[s] = f
        /\ g.queue[at].matched = TRUE
    BY <1>2, <1>9, <1>14
  <2>7. g.match_cnt = c.match_cnt + 1
    BY <1>8, <1>12
  <2> HIDE DEF alone
  <2>2. Inserts(c, g, at, s, f)
    BY <1>16, <1>s, <2>1, <2>3, <2>4, <2>5, <2>6, <2>7 DEF Inserts, alone
  <2> QED
    BY <1>1, <1>16, <2>2 DEF at
<1>17. CASE ~alone
  <2>3. d.queue \in Seq(Node) /\ Len(d.queue) = Len(c.queue) + 1
    BY <1>4, <1>11
  <2>4. \A k \in 1 .. at - 1 : d.queue[k] = c.queue[k]
    BY <1>4, <1>11, <1>15
  <2>5. \A k \in at + 1 .. Len(d.queue) : d.queue[k] = c.queue[k - 1]
    BY <1>4, <1>11, <1>15
  <2>6. /\ d.queue[at].frame_idx = f /\ d.queue[at].super_buf = node.super_buf /\ node.super_buf[s] = f
        /\ d.queue[at].matched = FALSE
    BY <1>2, <1>9, <1>11
  <2> HIDE DEF alone
  <2>1. Inserts(c, d, at, s, f)
    BY <1>8, <1>17, <1>s, <2>3, <2>4, <2>5, <2>6 DEF Inserts, alone
  <2> QED
    BY <1>1, <1>17, <2>1 DEF at
<1> QED
  BY <1>16, <1>17

LEMMA NewNodeRow ==
    ASSUME NEW c, NEW N, Row(c, N), attr \in Profiles, attr.priority = "NORMAL",
           NEW s, NEW f, First(N, s, f), \A k \in Unmatched(c.queue) : c.queue[k].frame_idx # f,
           Len(c.queue) - c.match_cnt <= attr.max_unmatched_frames
    PROVE  Row(NewNode(c, s, f), Others(N, s, f))
<1> DEFINE q == c.queue
           m == c.match_cnt
           at == PlaceOf(c, f)
           d == NewNode(c, s, f)
           r == d.queue
           n == d.match_cnt
           M == Others(N, s, f)
           alone == attr.streams = {s}
<1>0. QueueOK(q, m) /\ UpOK(c.up, q) /\ Behind(q, c.up, N) /\ Going(c)
  BY DEF Row
<1>1. /\ DOMAIN q = 1 .. Len(q) /\ Len(q) \in Nat /\ m \in Nat /\ m <= Len(q) /\ q \in Seq(Node)
      /\ \A k \in DOMAIN q : NodeOK(q[k]) /\ (q[k].matched <=> k <= m)
  BY <1>0, QueueParts DEF QueueOK
<1>2. /\ f \in Nat \ {0} /\ f \in Frames \ {0} /\ s \in Streams /\ s \in attr.streams
      /\ \A k \in DOMAIN q : k <= m => q[k].frame_idx < f
      /\ \A k \in DOMAIN c.up : \A t \in attr.streams : c.up[k][t] < f
      /\ attr.streams \subseteq Streams
  BY FirstFacts, Bounds DEF First
<1>3. /\ at \in m + 1 .. Len(q) + 1
      /\ \A k \in DOMAIN q : k < at => q[k].frame_idx < f
      /\ \A k \in DOMAIN q : k >= at => q[k].frame_idx > f
  BY PlaceOfNew DEF PlaceOf
<1>4. Inserts(c, d, at, s, f)
  <2>1. at \in 1 .. Len(q) + 1 /\ Chan(c)
    BY <1>0, <1>1, <1>3 DEF Going
  <2> QED
    BY <1>1, <1>2, <2>1, NewNodeInserts
<1> HIDE DEF at, d
<1>5. /\ Beside(c, d) /\ r \in Seq(Node) /\ Len(r) = Len(q) + 1
      /\ \A k \in 1 .. at - 1 : r[k] = q[k]
      /\ \A k \in at + 1 .. Len(r) : r[k] = q[k - 1]
      /\ r[at].frame_idx = f /\ r[at].super_buf[s] = f
      /\ \A t \in Streams : t # s => r[at].super_buf[t] = 0
      /\ r[at].matched = alone
      /\ n = IF alone THEN m + 1 ELSE m
  BY <1>4 DEF Inserts
<1>6. alone => m = Len(q) /\ at = m + 1
  <2>1. SUFFICES ASSUME alone PROVE m = Len(q)
    BY <1>3, <1>1
  <2>2. ASSUME NEW k \in DOMAIN q PROVE q[k].matched
    BY <1>1, <2>1 DEF NodeOK
  <2> QED
    BY <1>1, <2>2
<1>n. \/ alone /\ n = m + 1 /\ at = m + 1
      \/ ~alone /\ n = m
  BY <1>5, <1>6
<1>b. m \in Nat /\ at \in Nat /\ at >= m + 1
  BY <1>1, <1>3
<1>7. NodeOK(r[at])
  <2>1. ~alone => \E t \in attr.streams : t # s
    BY <1>2
  <2>2. \A t \in attr.streams : r[at].super_buf[t] = IF t = s THEN f ELSE 0
    BY <1>2, <1>5
  <2>3. r[at].frame_idx = f /\ r[at].matched = alone /\ f # 0 /\ f \in Frames \ {0} /\ s \in attr.streams
    BY <1>2, <1>5
  <2>4. alone => \A t \in attr.streams : t = s
    OBVIOUS
  <2> HIDE DEF alone
  <2>5. \A t \in attr.streams : r[at].super_buf[t] \in {0, r[at].frame_idx}
    BY <2>2, <2>3
  <2>6. \E t \in attr.streams : r[at].super_buf[t] # 0
    BY <2>2, <2>3
  <2>7. alone <=> \A t \in attr.streams : r[at].super_buf[t] # 0
    BY <2>1, <2>2, <2>3, <2>4
  <2> QED
    BY <2>3, <2>5, <2>6, <2>7 DEF NodeOK
<1> HIDE DEF r, n, q, m, alone
<1>8. DOMAIN r = 1 .. Len(r) /\ Len(r) \in Nat /\ n \in 0 .. Len(r)
  BY <1>1, <1>5
<1>9. \A k \in DOMAIN r : \/ k = at
                          \/ k < at /\ k \in DOMAIN q /\ r[k] = q[k]
                          \/ k > at /\ k - 1 \in DOMAIN q /\ k - 1 >= at /\ r[k] = q[k - 1]
  <2> TAKE k \in DOMAIN r
  <2>1. CASE k = at
    BY <2>1
  <2>2. CASE k < at
    <3>1. k \in 1 .. at - 1 /\ k \in 1 .. Len(q)
      BY <2>2, <1>1, <1>3, <1>5, <1>8
    <3> QED
      BY <2>2, <3>1, <1>1, <1>5
  <2>3. CASE k > at
    <3>1. k \in at + 1 .. Len(r) /\ k - 1 \in 1 .. Len(q) /\ k - 1 >= at
      BY <2>3, <1>1, <1>3, <1>5, <1>8
    <3> QED
      BY <2>3, <3>1, <1>1, <1>5
  <2> QED
    BY <2>1, <2>2, <2>3, <1>1, <1>3, <1>8
<1>10. \A k \in DOMAIN r : NodeOK(r[k]) /\ (r[k].matched <=> k <= n)
  <2> TAKE k \in DOMAIN r
  <2>1. CASE k = at
    <3>1. alone <=> at <= n
      BY <1>n, <1>b
    <3> QED
      BY <2>1, <3>1, <1>5, <1>7
  <2>2. CASE k < at /\ k \in DOMAIN q /\ r[k] = q[k]
    <3>0. k \in Nat /\ k < at
      BY <2>2, <1>8
    <3>1. k <= m <=> k <= n
      BY <3>0, <1>n, <1>b
    <3> QED
      BY <2>2, <3>1, <1>1
  <2>3. CASE k > at /\ k - 1 \in DOMAIN q /\ k - 1 >= at /\ r[k] = q[k - 1]
    <3>0. k \in Nat /\ k > at
      BY <2>3, <1>8
    <3>1. ~(k - 1 <= m) /\ ~(k <= n)
      BY <3>0, <1>n, <1>b
    <3> QED
      BY <2>3, <3>1, <1>1
  <2> QED
    BY <1>9, <2>1, <2>2, <2>3
<1>11. \A k \in DOMAIN r : \/ k = at /\ r[k].frame_idx = f
                           \/ k < at /\ r[k].frame_idx < f
                           \/ k > at /\ r[k].frame_idx > f
  <2> TAKE k \in DOMAIN r
  <2>1. CASE k = at
    BY <2>1, <1>5
  <2>2. CASE k < at /\ k \in DOMAIN q /\ r[k] = q[k]
    BY <2>2, <1>3
  <2>3. CASE k > at /\ k - 1 \in DOMAIN q /\ k - 1 >= at /\ r[k] = q[k - 1]
    BY <2>3, <1>3
  <2> QED
    BY <1>9, <2>1, <2>2, <2>3
<1>12. \A i, j \in DOMAIN q : i < j => q[i].frame_idx < q[j].frame_idx
  BY <1>0 DEF QueueOK, q
<1>13. ASSUME NEW i \in DOMAIN r, NEW j \in DOMAIN r, i < j PROVE r[i].frame_idx < r[j].frame_idx
  <2>0. r[i].frame_idx \in Int /\ r[j].frame_idx \in Int /\ f \in Int
    <3>1. r[i] \in Node /\ r[j] \in Node
      BY <1>5
    <3> QED
      BY <3>1, <1>2 DEF Node
  <2>1. CASE i < at /\ j < at
    <3>1. r[i] = q[i] /\ r[j] = q[j] /\ i \in DOMAIN q /\ j \in DOMAIN q
      BY <2>1, <1>9, <1>8, <1>3
    <3> QED
      BY <3>1, <1>12, <1>13
  <2>2. CASE i > at /\ j > at
    <3>1. r[i] = q[i - 1] /\ r[j] = q[j - 1] /\ i - 1 \in DOMAIN q /\ j - 1 \in DOMAIN q
      BY <2>2, <1>9, <1>8, <1>3
    <3>2. i - 1 < j - 1
      BY <1>8, <1>13
    <3> QED
      BY <3>1, <3>2, <1>12
  <2>3. CASE i <= at /\ j >= at
    <3>1. r[i].frame_idx <= f /\ f <= r[j].frame_idx /\ (i # at \/ j # at)
      BY <2>0, <2>3, <1>3, <1>8, <1>11, <1>13
    <3>2. r[i].frame_idx < f \/ f < r[j].frame_idx
      BY <2>0, <2>3, <3>1, <1>3, <1>8, <1>11
    <3> QED
      BY <2>0, <3>1, <3>2
  <2> QED
    BY <2>1, <2>2, <2>3, <1>3, <1>8, <1>13
<1>14. QueueOK(r, n)
  BY <1>5, <1>8, <1>10, <1>13 DEF QueueOK
<1>15. UpOK(c.up, r)
  <2>1. ASSUME NEW i \in DOMAIN c.up, NEW k \in DOMAIN r, NEW t \in attr.streams
        PROVE  c.up[i][t] < r[k].frame_idx
    <3>1. c.up[i][t] < f
      BY <1>2
    <3>2. \A l \in DOMAIN q : c.up[i][t] < q[l].frame_idx
      BY <1>0 DEF UpOK, q
    <3> QED
      BY <3>1, <3>2, <1>5, <1>9
  <2> QED
    BY <1>0, <2>1 DEF UpOK
<1>16. Behind(r, c.up, M)
  <2> SUFFICES ASSUME NEW t \in attr.streams, NEW g \in Frames, Buffer(t, g) \in M
               PROVE  /\ \A k \in DOMAIN r : r[k].super_buf[t] < g
                      /\ \A k \in DOMAIN c.up : c.up[k][t] < g
    BY DEF Behind
  <2>1. Buffer(t, g) \in N /\ t \in Streams
    BY <1>2 DEF Others
  <2>2. g # 0 /\ g \in Nat
    BY <2>1, ProfilesAssumption DEF First, Frames
  <2>3. /\ \A k \in DOMAIN q : q[k].super_buf[t] < g
        /\ \A k \in DOMAIN c.up : c.up[k][t] < g
    BY <1>0, <2>1 DEF Behind, q
  <2>4. r[at].super_buf[t] < g
    <3>1. CASE t = s
      <4>1. f < g
        BY <3>1, FirstFacts
      <4> QED
        BY <3>1, <4>1, <1>5
    <3>2. CASE t # s
      BY <3>2, <2>1, <2>2, <1>5
    <3> QED
      BY <3>1, <3>2
  <2>5. \A k \in DOMAIN r : r[k].super_buf[t] < g
    BY <1>9, <2>3, <2>4
  <2> QED
    BY <2>3, <2>5
<1>17. Going(d) /\ d.up = c.up
  BY <1>0, <1>5 DEF Beside, Going
<1>18. Len(r) - n <= attr.max_unmatched_frames + 1
  <2>1. Len(q) - m <= attr.max_unmatched_frames /\ attr.max_unmatched_frames \in Nat
    BY Bounds DEF q, m
  <2> QED
    BY <2>1, <1>1, <1>5
<1> QED
  BY <1>14, <1>15, <1>16, <1>17, <1>18 DEF Row, r, n, d, M

LEMMA EnqueueRow ==
    ASSUME NEW c, NEW N, Row(c, N), attr \in Profiles, attr.priority = "NORMAL", NEW s, NEW f, First(N, s, f)
    PROVE  Row(Enqueue(c, s, f), Others(N, s, f))
<1> DEFINE takers == {i \in DOMAIN c.queue : Takes(c, c.queue[i], s, f)}
           taker == FirstOf(takers)
           older == FirstOf(Older(c, f))
           room == MakeRoom(c, older, FirstOf(Newer(c, f)))
           M == Others(N, s, f)
<1>1. Enqueue(c, s, f) =
          IF taker # <<>> THEN AddTo(c, taker[1], s, f)
          ELSE IF older = <<>> /\ Cardinality(Unmatched(c.queue)) > attr.max_unmatched_frames
          THEN qbuf(c, {Buffer(s, f)})
          ELSE NewNode(room, s, f)
  BY DEF Enqueue
<1>2. DOMAIN c.queue = 1 .. Len(c.queue) /\ Len(c.queue) \in Nat
  BY QueueParts DEF Row
<1>3. \A i \in DOMAIN c.queue : i \in takers <=> ~c.queue[i].matched /\ c.queue[i].frame_idx = f
  BY DEF Takes, Row, Going
<1>4. takers \in SUBSET Nat /\ takers \subseteq DOMAIN c.queue
  BY <1>2
<1>5. Older(c, f) \in SUBSET Nat /\ Older(c, f) \subseteq Unmatched(c.queue)
  BY <1>2 DEF Older, Unmatched
<1> HIDE DEF takers
<1>6. taker # <<>> => taker[1] \in takers
  BY <1>4, FirstIn
<1>7. older # <<>> => older[1] \in Unmatched(c.queue)
  BY <1>5, FirstIn
<1>8. taker = <<>> => takers = {}
  BY DEF FirstOf
<1> HIDE DEF taker, older
<1>9. CASE taker # <<>>
  <2> DEFINE i == taker[1]
  <2>1. i \in DOMAIN c.queue /\ ~c.queue[i].matched /\ c.queue[i].frame_idx = f
    BY <1>3, <1>4, <1>6, <1>9
  <2> HIDE DEF i
  <2>2. Row(AddTo(c, i, s, f), M)
    BY <2>1, AddToRow
  <2> QED
    BY <1>1, <1>9, <2>2 DEF i
<1>10. CASE taker = <<>> /\ older = <<>> /\ Cardinality(Unmatched(c.queue)) > attr.max_unmatched_frames
  <2>1. Row(qbuf(c, {Buffer(s, f)}), M)
    BY BackRow
  <2> QED
    BY <1>1, <1>10, <2>1
<1>11. CASE taker = <<>> /\ ~(older = <<>> /\ Cardinality(Unmatched(c.queue)) > attr.max_unmatched_frames)
  <2>1. older = <<>> \/ older[1] \in Unmatched(c.queue)
    BY <1>7
  <2>2. older = <<>> => ~(Cardinality(Unmatched(c.queue)) > attr.max_unmatched_frames)
    BY <1>11
  <2>3. /\ Row(room, N) /\ Len(room.queue) - room.match_cnt <= attr.max_unmatched_frames
        /\ StillUnmatched(c.queue, room.queue)
    BY <2>1, <2>2, MakeRoomRow
  <2> HIDE DEF room
  <2>4. \A k \in Unmatched(c.queue) : c.queue[k].frame_idx # f
    BY <1>3, <1>8, <1>11 DEF Unmatched, Matched
  <2>5. \A k \in Unmatched(room.queue) : room.queue[k].frame_idx # f
    BY <2>3, <2>4 DEF StillUnmatched
  <2>6. Row(NewNode(room, s, f), M)
    BY <2>3, <2>5, NewNodeRow
  <2> QED
    BY <1>1, <1>11, <2>6
<1> QED
  BY <1>9, <1>10, <1>11

LEMMA DataRow ==
    ASSUME NEW c, NEW N, Row(c, N), attr \in Profiles, attr.priority = "NORMAL", NEW s, NEW f, First(N, s, f),
           NEW m
    PROVE  Row(superbuf_comp_and_enqueue(c, s, f, m), Others(N, s, f))
<1> DEFINE d == IF s = Meta /\ s \notin attr.linked THEN handle_metadata(c, f, m) ELSE c
<1>1. superbuf_comp_and_enqueue(c, s, f, m) \in {qbuf(d, {Buffer(s, f)}), Enqueue(d, s, f)}
  BY DEF superbuf_comp_and_enqueue
<1>2. Row(d, N)
  <2>1. Row(handle_metadata(c, f, m), N)
    BY MetadataRow
  <2> QED
    BY <2>1
<1> HIDE DEF d
<1>3. Row(qbuf(d, {Buffer(s, f)}), Others(N, s, f)) /\ Row(Enqueue(d, s, f), Others(N, s, f))
  BY <1>2, BackRow, EnqueueRow
<1> QED
  BY <1>1, <1>3

-----------------------------------------------------------------------------
(* The other commands. *)
LEMMA RequestRow ==
    ASSUME NEW c, NEW N, Row(c, N), attr \in Profiles, NEW num, NEW retro
    PROVE  Row(Request(c, num, retro), N)
<1> DEFINE r == IF num = 0 \/ retro > num THEN num ELSE retro
           d == [c EXCEPT !.pending_cnt = num, !.pending_retro_cnt = r, !.stopZslSnapshot = FALSE,
                          !.bWaitForPrepSnapshotDone = FALSE, !.needLEDFlash = @ /\ r = 0]
<1>1. Request(c, num, retro) = superbuf_skip(d)
  BY DEF Request
<1> HIDE DEF r
<1>2. Alike(c, d)
  BY DEF Row, Going, Alike, Beside, Chan, Fields
<1> HIDE DEF d
<1>3. Row(d, N)
  BY <1>2, AlikeRow
<1>4. Row(superbuf_skip(d), N)
  BY <1>3, OverflowRow
<1> QED
  BY <1>1, <1>4

LEMMA FlushesRow ==
    ASSUME NEW c, NEW N, Row(c, N), attr \in Profiles, NEW start
    PROVE  /\ Row(Bracketing(c, start), N) /\ Row(FlashBracketing(c, start), N) /\ Row(ZoomOneX(c, start), N)
           /\ Row(superbuf_flush([c EXCEPT !.expected_frame_id = start]), N)
           /\ superbuf_flush([c EXCEPT !.expected_frame_id = start]).match_cnt = 0
<1> DEFINE d == superbuf_flush(c)
           x == [c EXCEPT !.expected_frame_id = start]
<1>1. Row(d, N)
  BY FlushRow
<1> HIDE DEF d
<1>2. /\ Alike(d, [d EXCEPT !.bracketingState = IF start THEN "WAIT_GOOD_FRAME_IDX" ELSE "OFF"])
      /\ Alike(d, [d EXCEPT !.isFlashBracketingEnabled = start])
      /\ Alike(d, [d EXCEPT !.isZoom1xFrameRequested = start])
  BY <1>1 DEF Row, Going, Alike, Beside, Chan, Fields
<1>3. Row(Bracketing(c, start), N) /\ Row(FlashBracketing(c, start), N) /\ Row(ZoomOneX(c, start), N)
  <2>1. Row([d EXCEPT !.bracketingState = IF start THEN "WAIT_GOOD_FRAME_IDX" ELSE "OFF"], N)
    BY <1>1, <1>2, AlikeRow
  <2>2. Row([d EXCEPT !.isFlashBracketingEnabled = start], N)
    BY <1>1, <1>2, AlikeRow
  <2>3. Row([d EXCEPT !.isZoom1xFrameRequested = start], N)
    BY <1>1, <1>2, AlikeRow
  <2> QED
    BY <2>1, <2>2, <2>3, Zenon DEF d, Bracketing, FlashBracketing, ZoomOneX
<1>4. Alike(c, x)
  BY DEF Row, Going, Alike, Beside, Chan, Fields
<1> HIDE DEF x
<1>5. Row(x, N)
  BY <1>4, AlikeRow
<1>6. Row(superbuf_flush(x), N) /\ superbuf_flush(x).match_cnt = 0
  BY <1>5, FlushRow
<1> QED
  BY <1>3, <1>6 DEF x

LEMMA ManualRow ==
    ASSUME NEW c, NEW N, Row(c, N)
    PROVE  /\ Row([StartZsl(c) EXCEPT !.manualZSLSnapshot = TRUE], N)
           /\ Row([StopZsl(c) EXCEPT !.manualZSLSnapshot = FALSE], N)
<1>1. /\ Alike(c, [StartZsl(c) EXCEPT !.manualZSLSnapshot = TRUE])
      /\ Alike(c, [StopZsl(c) EXCEPT !.manualZSLSnapshot = FALSE])
  BY DEF Row, Going, Alike, Beside, Chan, Fields, StartZsl, StopZsl
<1> QED
  BY <1>1, AlikeRow

LEMMA FlashRow ==
    ASSUME NEW c, NEW N, Row(c, N)
    PROVE  Row(FlashControl(c), N)
<1> DEFINE d == [StartZsl(c) EXCEPT !.startZSlSnapshotCalled = TRUE, !.burstSnapNum = c.pending_cnt,
                                    !.bWaitForPrepSnapshotDone = FALSE]
           e == [EndZsl(c) EXCEPT !.bWaitForPrepSnapshotDone = FALSE]
<1>1. FlashControl(c) \in {c, d, e}
  BY DEF FlashControl
<1>0. Chan(c)
  BY DEF Row, Going
<1>d. Alike(c, d)
  BY <1>0 DEF Alike, Beside, Chan, Fields, StartZsl
<1>e. Alike(c, e)
  <2> DEFINE x == EndZsl(c)
  <2>1. Alike(c, x)
    BY <1>0 DEF Alike, Beside, Chan, Fields, EndZsl, StopZsl
  <2>2. e = [x EXCEPT !.bWaitForPrepSnapshotDone = FALSE]
    OBVIOUS
  <2> HIDE DEF x, e
  <2> QED
    BY <2>1, <2>2 DEF Alike, Beside, Chan, Fields
<1>2. Alike(c, d) /\ Alike(c, e)
  BY <1>d, <1>e
<1> HIDE DEF d, e
<1>3. Row(d, N) /\ Row(e, N)
  BY <1>2, AlikeRow
<1> QED
  BY <1>1, <1>3

(* A command of the HAL. *)
LEMMA HalCommandRow ==
    ASSUME NEW c, NEW N, Row(c, N), attr \in Profiles, NEW cmd \in HalCommands, NEW m
    PROVE  /\ Row(Execute(c, cmd, m), N)
           /\ cmd.type = "FLUSH_QUEUE" => Execute(c, cmd, m).match_cnt = 0
<1>1. cmd.type \in {"REQ_DATA_CB", "FLUSH_QUEUE", "START_ZSL", "STOP_ZSL", "BRACKETING", "FLASH_BRACKETING",
                    "ZOOM_1X"}
  BY DEF HalCommands
<1>2. CASE cmd.type = "REQ_DATA_CB"
  BY <1>2, RequestRow DEF Execute
<1>3. CASE cmd.type = "FLUSH_QUEUE"
  <2>1. Execute(c, cmd, m) = superbuf_flush([c EXCEPT !.expected_frame_id = cmd.arg])
    BY <1>3 DEF Execute
  <2> QED
    BY <2>1, FlushesRow, Zenon
<1>4. CASE cmd.type = "START_ZSL" \/ cmd.type = "STOP_ZSL"
  BY <1>4, ManualRow DEF Execute
<1>5. CASE cmd.type = "BRACKETING"
  BY <1>5, FlushesRow DEF Execute
<1>6. CASE cmd.type = "FLASH_BRACKETING"
  BY <1>6, FlushesRow DEF Execute
<1>7. CASE cmd.type = "ZOOM_1X"
  BY <1>7, FlushesRow DEF Execute
<1> QED
  BY <1>1, <1>2, <1>3, <1>4, <1>5, <1>6, <1>7

-----------------------------------------------------------------------------
(* Super buffers are handed up in order, and all that are complete where the channel waits for nothing.   *)
LEMMA MoveRow ==
    ASSUME NEW c, NEW d, NEW N, Row(c, N), c.queue # <<>>, c.queue[1].matched, Going(d),
           d.queue = Tail(c.queue), d.match_cnt = c.match_cnt - 1,
           d.up = Append(c.up, Head(c.queue).super_buf)
    PROVE  Row(d, N) /\ c.match_cnt >= 1
<1> DEFINE q == c.queue
           m == c.match_cnt
           u == c.up
           r == Tail(q)
           v == Append(u, Head(q).super_buf)
           l == Len(u) + 1
           old == [k \in DOMAIN r |-> k + 1]
<1>0. /\ QueueOK(q, m) /\ UpOK(u, q) /\ Behind(q, u, N) /\ Len(q) - m <= attr.max_unmatched_frames + 1
  BY DEF Row
<1>1. /\ DOMAIN q = 1 .. Len(q) /\ Len(q) \in Nat /\ m \in Nat /\ m <= Len(q) /\ q \in Seq(Node)
      /\ \A k \in DOMAIN q : NodeOK(q[k]) /\ (q[k].matched <=> k <= m)
  BY <1>0, QueueParts DEF QueueOK
<1>2. \A i, j \in DOMAIN q : i < j => q[i].frame_idx < q[j].frame_idx
  BY <1>0 DEF QueueOK
<1>3. 1 \in DOMAIN q /\ Head(q) = q[1] /\ m >= 1 /\ q[1] \in Node
  <2>1. q # <<>> /\ q[1].matched
    OBVIOUS
  <2>2. 1 \in DOMAIN q /\ Head(q) = q[1] /\ q[1] \in Node
    BY <1>1, <2>1
  <2> QED
    BY <1>1, <2>1, <2>2
<1>4. /\ q[1].super_buf \in [Streams -> Frames] /\ \A s \in attr.streams : q[1].super_buf[s] = q[1].frame_idx
      /\ q[1].frame_idx \in Nat \ {0}
  <2>1. NodeOK(q[1]) /\ q[1].matched
    BY <1>1, <1>3
  <2>2. \A s \in attr.streams : q[1].super_buf[s] # 0 /\ q[1].super_buf[s] \in {0, q[1].frame_idx}
    BY <2>1 DEF NodeOK
  <2> QED
    BY <1>3, <2>1, <2>2, ProfilesAssumption DEF NodeOK, Node, Frames
<1>5. u \in Seq([Streams -> Frames]) /\ Len(u) \in Nat /\ DOMAIN u = 1 .. Len(u)
  BY <1>0 DEF UpOK
<1>6. /\ v \in Seq([Streams -> Frames]) /\ Len(v) = l /\ v[l] = q[1].super_buf
      /\ \A k \in 1 .. Len(u) : v[k] = u[k]
  BY <1>3, <1>4, <1>5
<1>7. r \in Seq(Node) /\ Len(r) = Len(q) - 1 /\ \A k \in 1 .. Len(r) : r[k] = q[k + 1]
  BY <1>1, <1>3
<1>8. d.queue = r /\ d.match_cnt = m - 1 /\ d.up = v
  OBVIOUS
<1>u. attr.max_unmatched_frames + 1 >= Len(q) - m
  BY <1>0
<1> HIDE DEF q, m, u, r, v
<1>9. DOMAIN r = 1 .. Len(r) /\ Len(r) \in Nat /\ m - 1 \in 0 .. Len(r)
  BY <1>1, <1>3, <1>7
<1>10. \A k \in DOMAIN r : old[k] = k + 1
  OBVIOUS
<1> HIDE DEF old
<1>11. \A k \in DOMAIN r : k + 1 \in DOMAIN q /\ r[k] = q[k + 1] /\ (k <= m - 1 <=> k + 1 <= m) /\ 1 < k + 1
  BY <1>1, <1>7, <1>9
<1>12. QueueOK(r, m - 1) /\ UpOK(u, r)
  <2>1. \A k \in DOMAIN r : /\ old[k] \in DOMAIN q /\ r[k].frame_idx = q[old[k]].frame_idx
                            /\ NodeOK(r[k]) /\ (r[k].matched <=> k <= m - 1)
    BY <1>1, <1>10, <1>11
  <2>2. \A i, j \in DOMAIN r : i < j => old[i] < old[j]
    BY <1>9, <1>10
  <2>3. ASSUME NEW n, n = m - 1 PROVE QueueOK(r, n) /\ UpOK(u, r)
    <3>1. n \in 0 .. Len(r) /\ \A k \in DOMAIN r : /\ old[k] \in DOMAIN q /\ r[k].frame_idx = q[old[k]].frame_idx
                                                   /\ NodeOK(r[k]) /\ (r[k].matched <=> k <= n)
      BY <1>9, <2>1, <2>3
    <3> QED
      BY <1>0, <1>7, <2>2, <3>1, SubQueue DEF q, m, u
  <2> QED
    BY <2>3
<1>13. DOMAIN v = 1 .. l /\ l \in Nat /\ \A k \in DOMAIN v : (k = l /\ v[k] = q[1].super_buf)
                                                             \/ (k < l /\ k \in DOMAIN u /\ v[k] = u[k])
  BY <1>5, <1>6
<1> HIDE DEF l
<1>14. UpOK(v, r)
  <2>1. \A i \in DOMAIN v : \A s, t \in attr.streams : v[i][s] = v[i][t] /\ v[i][s] # 0
    <3>1. \A i \in DOMAIN u : \A s, t \in attr.streams : u[i][s] = u[i][t] /\ u[i][s] # 0
      BY <1>0 DEF UpOK, u
    <3> QED
      BY <1>4, <1>13, <3>1
  <2>2. \A i \in DOMAIN u : \A s \in attr.streams : u[i][s] < q[1].super_buf[s]
    BY <1>0, <1>3, <1>4 DEF UpOK, u, q
  <2>3. ASSUME NEW i \in DOMAIN v, NEW j \in DOMAIN v, NEW s \in attr.streams, i < j PROVE v[i][s] < v[j][s]
    <3>1. i < l
      BY <1>13, <2>3
    <3>2. i \in DOMAIN u /\ v[i] = u[i]
      BY <1>13, <3>1
    <3>3. CASE j = l
      BY <1>13, <2>2, <3>2, <3>3
    <3>4. CASE j # l
      <4>1. j \in DOMAIN u /\ v[j] = u[j]
        BY <1>13, <3>4
      <4> QED
        BY <1>0, <2>3, <3>2, <4>1 DEF UpOK, u
    <3> QED
      BY <3>3, <3>4
  <2>4. ASSUME NEW i \in DOMAIN v, NEW k \in DOMAIN r, NEW s \in attr.streams PROVE v[i][s] < r[k].frame_idx
    <3>1. CASE v[i] = q[1].super_buf
      <4>1. q[1].frame_idx < q[k + 1].frame_idx
        BY <1>2, <1>3, <1>11
      <4> QED
        BY <3>1, <4>1, <1>4, <1>11
    <3>2. CASE i \in DOMAIN u /\ v[i] = u[i]
      BY <3>2, <1>12 DEF UpOK
    <3> QED
      BY <3>1, <3>2, <1>13
  <2> QED
    BY <1>6, <2>1, <2>3, <2>4 DEF UpOK
<1>15. Behind(r, v, N)
  <2> SUFFICES ASSUME NEW t \in attr.streams, NEW g \in Frames, Buffer(t, g) \in N
               PROVE  /\ \A k \in DOMAIN r : r[k].super_buf[t] < g
                      /\ \A k \in DOMAIN v : v[k][t] < g
    BY DEF Behind
  <2>1. /\ \A k \in DOMAIN q : q[k].super_buf[t] < g
        /\ \A k \in DOMAIN u : u[k][t] < g
    BY <1>0 DEF Behind, q, u
  <2> QED
    BY <2>1, <1>3, <1>11, <1>13
<1>16. Len(r) - (m - 1) <= attr.max_unmatched_frames + 1
  <2>1. Len(r) - (m - 1) = Len(q) - m
    BY <1>1, <1>3, <1>7
  <2> QED
    BY <2>1, <1>u
<1> QED
  BY <1>3, <1>8, <1>12, <1>14, <1>15, <1>16 DEF Row, m

LEMMA CountDownFields ==
    ASSUME NEW c, Going(c), attr.notify_mode = "BURST"
    PROVE  /\ Going(CountDown(c)) /\ CountDown(c).queue = c.queue /\ CountDown(c).match_cnt = c.match_cnt
           /\ CountDown(c).up = c.up
<1> DEFINE d == [c EXCEPT !.pending_cnt = @ - 1, !.pending_retro_cnt = IF @ > 0 THEN @ - 1 ELSE 0,
                          !.bWaitForPrepSnapshotDone = @ \/ c.pending_retro_cnt = 1]
<1>1. CountDown(c) \in {d, EndZsl(d)}
  BY DEF CountDown
<1>2. Going(d) /\ d.queue = c.queue /\ d.match_cnt = c.match_cnt /\ d.up = c.up
  BY DEF Going, Chan, Fields
<1> HIDE DEF d
<1>3. Going(EndZsl(d)) /\ EndZsl(d).queue = d.queue /\ EndZsl(d).match_cnt = d.match_cnt /\ EndZsl(d).up = d.up
  BY <1>2 DEF Going, Chan, Fields, EndZsl, StopZsl
<1> QED
  BY <1>1, <1>2, <1>3

(* What may still be complete in the queue, with so many turns to go. *)
Handed(c, N, left) ==
    /\ Row(c, N) /\ left \in Nat
    /\ attr.notify_mode = "BURST" => c.match_cnt <= attr.water_mark
    /\ attr.notify_mode = "CONTINUOUS" => c.match_cnt <= left

LEMMA HandUpRow ==
    ASSUME NEW c, NEW N, NEW left \in Nat, NEW less \in Nat, left = less + 1, Handed(c, N, left), attr \in Profiles
    PROVE  Handed(HandUp(c), N, less)
<1> DEFINE d == IF attr.notify_mode = "BURST" THEN CountDown(c) ELSE c
           goes == /\ c.pending_cnt > 0 \/ attr.notify_mode = "CONTINUOUS"
                   /\ ~c.bWaitForPrepSnapshotDone /\ c.queue # <<>> /\ Head(c.queue).matched
           e == [d EXCEPT !.queue = Tail(@), !.match_cnt = @ - 1, !.up = Append(@, Head(c.queue).super_buf)]
<1>1. HandUp(c) = IF goes THEN e ELSE c
  BY DEF HandUp
<1>2. /\ Row(c, N) /\ Going(c) /\ QueueOK(c.queue, c.match_cnt)
      /\ attr.notify_mode \in {"BURST", "CONTINUOUS"} /\ attr.water_mark \in Nat
  BY Bounds DEF Handed, Row
<1>3. /\ DOMAIN c.queue = 1 .. Len(c.queue) /\ Len(c.queue) \in Nat /\ c.match_cnt \in Nat
      /\ c.match_cnt <= Len(c.queue) /\ c.queue \in Seq(Node)
      /\ \A k \in DOMAIN c.queue : c.queue[k].matched <=> k <= c.match_cnt
  BY <1>2, QueueParts DEF QueueOK
<1>4. CASE ~goes
  <2>1. attr.notify_mode = "CONTINUOUS" => c.match_cnt = 0
    <3> SUFFICES ASSUME attr.notify_mode = "CONTINUOUS", c.match_cnt # 0 PROVE FALSE
      OBVIOUS
    <3>1. 1 \in DOMAIN c.queue /\ 1 <= c.match_cnt
      BY <1>3
    <3>2. c.queue # <<>> /\ Head(c.queue) = c.queue[1] /\ c.queue[1].matched
      BY <1>3, <3>1
    <3>3. c.bWaitForPrepSnapshotDone = FALSE
      BY <1>2 DEF Going
    <3> QED
      BY <1>4, <3>2, <3>3
  <2> HIDE DEF goes
  <2>2. Handed(c, N, less)
    BY <1>2, <2>1 DEF Handed
  <2> QED
    BY <1>1, <1>4, <2>2
<1>5. CASE goes
  <2>1. c.queue # <<>> /\ Head(c.queue) = c.queue[1] /\ c.queue[1].matched
    BY <1>3, <1>5
  <2>2. Going(d) /\ d.queue = c.queue /\ d.match_cnt = c.match_cnt /\ d.up = c.up
    BY <1>2, CountDownFields
  <2> HIDE DEF d, goes
  <2>3. /\ Going(e) /\ e.queue = Tail(c.queue) /\ e.match_cnt = c.match_cnt - 1
        /\ e.up = Append(c.up, Head(c.queue).super_buf)
    BY <2>2 DEF Going, Chan, Fields
  <2> HIDE DEF e
  <2>4. Row(e, N) /\ c.match_cnt >= 1
    BY <1>2, <2>1, <2>3, MoveRow
  <2>5. /\ attr.notify_mode = "BURST" => c.match_cnt <= attr.water_mark
        /\ attr.notify_mode = "CONTINUOUS" => c.match_cnt <= left
    BY DEF Handed
  <2>6. /\ attr.notify_mode = "BURST" => e.match_cnt <= attr.water_mark
        /\ attr.notify_mode = "CONTINUOUS" => e.match_cnt <= less
    BY <1>2, <1>3, <2>3, <2>4, <2>5
  <2>7. Handed(e, N, less)
    BY <2>4, <2>6 DEF Handed
  <2> QED
    BY <1>1, <1>5, <2>7
<1> QED
  BY <1>4, <1>5

LEMMA DispatchRow ==
    ASSUME NEW c, NEW N, Row(c, N), attr \in Profiles,
           attr.notify_mode = "BURST" => c.match_cnt <= attr.water_mark
    PROVE  Row(Dispatch(c), N) /\ Dispatch(c).match_cnt <= MostMatched
<1> DEFINE n == Len(c.queue)
           g == CHOOSE g : Turns(c, g, n)
           Bad == {k \in 0 .. n : ~Handed(g[k], N, n - k)}
<1>1. n \in Nat /\ c.match_cnt \in Nat /\ c.match_cnt <= n
  BY QueueParts DEF Row
<1>2. Dispatch(c) = g[n]
  BY DEF Dispatch, Turns
<1>h. Handed(c, N, n)
  BY <1>1 DEF Handed
<1> HIDE DEF n
<1>3. Turns(c, g, n)
  BY <1>1, TurnsExist
<1> HIDE DEF g
<1>4. \A k \in 0 .. n : g[k] = IF k = 0 THEN c ELSE HandUp(g[k - 1])
  BY <1>3 DEF Turns
<1>5. Bad \in SUBSET Nat /\ \A k \in 0 .. n : k \in Bad <=> ~Handed(g[k], N, n - k)
  OBVIOUS
<1>6. Bad \subseteq 0 .. n
  OBVIOUS
<1> HIDE DEF Bad
<1>7. ASSUME Bad # {} PROVE FALSE
  <2>1. PICK k \in Bad : \A y \in Bad : k <= y
    BY <1>5, <1>7, MinNat
  <2>2. k \in 0 .. n /\ ~Handed(g[k], N, n - k)
    BY <1>5, <1>6
  <2>3. k # 0
    <3>1. ASSUME k = 0 PROVE FALSE
      <4>1. g[k] = c /\ n - k = n
        BY <1>1, <1>4, <2>2, <3>1
      <4> QED
        BY <1>h, <2>2, <4>1
    <3> QED
      BY <3>1
  <2>4. k - 1 \in 0 .. n /\ ~(k <= k - 1)
    BY <2>2, <2>3, <1>1
  <2>5. Handed(g[k - 1], N, n - (k - 1))
    BY <2>1, <2>4, <1>5
  <2>6. PICK left, less : left = n - (k - 1) /\ less = n - k
    OBVIOUS
  <2>7. left \in Nat /\ less \in Nat /\ left = less + 1
    BY <1>1, <2>2, <2>3, <2>6
  <2>8. Handed(HandUp(g[k - 1]), N, less)
    <3>1. Handed(g[k - 1], N, left)
      BY <2>5, <2>6
    <3> QED
      BY <2>7, <3>1, HandUpRow
  <2>9. g[k] = HandUp(g[k - 1])
    BY <1>4, <2>2, <2>3
  <2> QED
    BY <2>2, <2>6, <2>8, <2>9
<1>8. n \in 0 .. n /\ n - n = 0
  BY <1>1
<1>9. Handed(g[n], N, 0)
  BY <1>5, <1>7, <1>8
<1>10. attr.notify_mode \in {"BURST", "CONTINUOUS"}
  BY Bounds
<1> QED
  BY <1>2, <1>9, <1>10 DEF Handed, MostMatched

LEMMA FinishRow ==
    ASSUME NEW c, NEW N, Row(c, N), attr \in Profiles
    PROVE  LET d == Dispatch(superbuf_bufdone_overflow(FlashControl(c)))
           IN Row(d, N) /\ d.match_cnt <= MostMatched
<1> DEFINE d == FlashControl(c)
           e == superbuf_bufdone_overflow(d)
<1>1. Row(d, N)
  BY FlashRow
<1> HIDE DEF d
<1>2. Row(e, N) /\ (attr.notify_mode = "BURST" => e.match_cnt <= attr.water_mark)
  BY <1>1, OverflowRow
<1> HIDE DEF e
<1>3. Row(Dispatch(e), N) /\ Dispatch(e).match_cnt <= MostMatched
  BY <1>2, DispatchRow
<1> QED
  BY <1>3 DEF d, e

LEMMA ProcessRow ==
    ASSUME NEW c, NEW N, Row(c, N), attr \in Profiles, attr.priority = "NORMAL", NEW cmd, NEW m
    PROVE  /\ cmd \in HalCommands => LET d == mm_channel_process_stream_buf(c, cmd, m)
                                     IN Row(d, N) /\ d.match_cnt <= MostMatched
           /\ \A s, f : cmd.type = "DATA_CB" /\ cmd.arg = Buffer(s, f) /\ First(N, s, f) =>
                           LET d == mm_channel_process_stream_buf(c, cmd, m)
                           IN Row(d, Others(N, s, f)) /\ d.match_cnt <= MostMatched
<1> DEFINE x == Execute(c, cmd, m)
           d == mm_channel_process_stream_buf(c, cmd, m)
<1>1. d = IF cmd.type = "FLUSH_QUEUE" THEN x ELSE Dispatch(superbuf_bufdone_overflow(FlashControl(x)))
  BY DEF mm_channel_process_stream_buf
<1>2. ASSUME cmd \in HalCommands PROVE Row(d, N) /\ d.match_cnt <= MostMatched
  <2>1. Row(x, N) /\ (cmd.type = "FLUSH_QUEUE" => x.match_cnt = 0)
    BY <1>2, HalCommandRow
  <2>2. MostMatched \in Nat
    BY Bounds
  <2> HIDE DEF x, d
  <2>3. /\ Row(Dispatch(superbuf_bufdone_overflow(FlashControl(x))), N)
        /\ Dispatch(superbuf_bufdone_overflow(FlashControl(x))).match_cnt <= MostMatched
    BY <2>1, FinishRow
  <2> QED
    BY <1>1, <2>1, <2>2, <2>3
<1>3. ASSUME NEW s, NEW f, cmd.type = "DATA_CB", cmd.arg = Buffer(s, f), First(N, s, f)
      PROVE  Row(d, Others(N, s, f)) /\ d.match_cnt <= MostMatched
  <2>1. x = superbuf_comp_and_enqueue(c, s, f, m)
    BY <1>3 DEF Execute, Buffer
  <2>2. Row(x, Others(N, s, f))
    BY <1>3, <2>1, DataRow
  <2> HIDE DEF x, d
  <2>3. /\ Row(Dispatch(superbuf_bufdone_overflow(FlashControl(x))), Others(N, s, f))
        /\ Dispatch(superbuf_bufdone_overflow(FlashControl(x))).match_cnt <= MostMatched
    BY <2>2, FinishRow
  <2> QED
    BY <1>1, <1>3, <2>3
<1> QED
  BY <1>2, <1>3

-----------------------------------------------------------------------------
(* Every step keeps the order. *)
LEMMA NoZero ==
    ASSUME CommandsOK, last \in [Streams -> Frames]
    PROVE  \A t \in Streams : Buffer(t, 0) \notin NotInside
<1> SUFFICES ASSUME NEW t \in Streams PROVE Buffer(t, 0) \notin NotInside
  OBVIOUS
<1>1. 0 \in Frames /\ ~(0 > last[t])
  BY ProfilesAssumption DEF Frames
<1>2. ~Waiting(Buffer(t, 0))
  BY WaitingIs DEF CommandsOK, Buffer
<1> QED
  BY <1>1, <1>2, NotInsideIs

(* The order of the next state. *)
LEMMA RowNext ==
    ASSUME attr \in Profiles, attr' = attr, IInv', NEW N, Row(ch', N), ch'.match_cnt <= MostMatched,
           \A s \in Streams : \A f \in Frames \ {0} : Buffer(s, f) \in NotInside' => Buffer(s, f) \in N
    PROVE  (Row(ch, NotInside) /\ ch.match_cnt <= MostMatched)'
<1>1. (\A t \in Streams : Buffer(t, 0) \notin NotInside)'
  <2>1. (CommandsOK /\ last \in [Streams -> Frames])'
    BY DEF IInv
  <2> QED
    BY <2>1, NoZero, PTL
<1>2. \A t \in Streams : Buffer(t, 0) \notin NotInside'
  BY <1>1 DEF Buffer
<1>3. \A t \in attr.streams : \A g \in Frames : Buffer(t, g) \in NotInside' => Buffer(t, g) \in N
  BY <1>2, Bounds
<1>4. Behind(ch'.queue, ch'.up, NotInside')
  BY <1>3 DEF Row, Behind
<1>5. Behind(ch.queue, ch.up, NotInside)'
  BY <1>4 DEF Behind, Buffer
<1>6. Going(ch)'
  <2>1. Going(ch')
    BY DEF Row
  <2> QED
    BY <2>1 DEF Going, Chan
<1>7. QueueOK(ch.queue, ch.match_cnt)'
  <2>1. QueueOK(ch'.queue, ch'.match_cnt)
    BY DEF Row
  <2> QED
    BY <2>1 DEF QueueOK, NodeOK
<1>8. UpOK(ch.up, ch.queue)'
  <2>1. UpOK(ch'.up, ch'.queue)
    BY DEF Row
  <2> QED
    BY <2>1 DEF UpOK
<1>9. (Len(ch.queue) - ch.match_cnt <= attr.max_unmatched_frames + 1)'
  BY DEF Row
<1>10. (ch.match_cnt <= MostMatched)'
  BY DEF MostMatched
<1> QED
  BY <1>5, <1>6, <1>7, <1>8, <1>9, <1>10 DEF Row

LEMMA WaitingNext ==
    ASSUME NEW t, NEW g
    PROVE  Waiting(Buffer(t, g))' <=>
               \E i \in DOMAIN cmd_queue' : cmd_queue'[i].type = "DATA_CB" /\ cmd_queue'[i].arg = Buffer(t, g)
BY DEF Waiting, Carries, Buffer

(* The command in hand, when it is a buffer. *)
LEMMA FirstInTurn ==
    ASSUME CommandsOK, last \in [Streams -> Frames], InTurn, 1 \in DOMAIN cmd_queue,
           NEW s, NEW f, cmd_queue[1].type = "DATA_CB", cmd_queue[1].arg = Buffer(s, f),
           s \in Streams, f \in Frames
    PROVE  First(NotInside, s, f) /\ ~(f > last[s])
<1>1. Buffer(s, f).stream = s /\ Buffer(s, f).frame = f
  BY DEF Buffer
<1>2. s \in attr.streams /\ f # 0 /\ f <= last[s]
  BY <1>1 DEF CommandsOK
<1>3. \A g \in Frames : g \in Nat
  BY DEF Frames
<1>4. ~(f > last[s])
  BY <1>2, <1>3
<1>5. Buffer(s, f) \in NotInside
  <2>1. Waiting(Buffer(s, f))
    BY WaitingIs
  <2> QED
    BY <2>1, NotInsideIs
<1>6. ASSUME NEW g \in Frames, Buffer(s, g) \in NotInside PROVE f <= g
  <2>1. g > last[s] \/ Waiting(Buffer(s, g))
    BY <1>6, NotInsideIs
  <2>2. CASE g > last[s]
    BY <2>2, <1>2, <1>3
  <2>3. CASE Waiting(Buffer(s, g))
    <3>1. PICK i \in DOMAIN cmd_queue : cmd_queue[i].type = "DATA_CB" /\ cmd_queue[i].arg = Buffer(s, g)
      BY <2>3, WaitingIs
    <3>2. Buffer(s, g).stream = s /\ Buffer(s, g).frame = g
      BY DEF Buffer
    <3>3. CASE i = 1
      BY <3>1, <3>2, <3>3, <1>1, <1>3
    <3>4. CASE i # 1
      <4>1. 1 < i
        BY <3>4 DEF CommandsOK
      <4>2. f < g
        BY <3>1, <3>2, <4>1, <1>1 DEF InTurn
      <4> QED
        BY <4>2, <1>3
    <3> QED
      BY <3>3, <3>4
  <2> QED
    BY <2>1, <2>2, <2>3
<1>7. \A t \in Streams : Buffer(t, 0) \notin NotInside
  BY NoZero
<1> QED
  BY <1>2, <1>4, <1>5, <1>6, <1>7 DEF First

LEMMA ProcessOrder ==
    ASSUME IInv, OrderInv, ProcessCommand, IInv'
    PROVE  OrderInv'
<1> DEFINE cmd == cmd_queue[1]
<1>1. PICK m : ch' = mm_channel_process_stream_buf(ch, Head(cmd_queue), m)
  BY DEF ProcessCommand
<1>2. cmd_queue # <<>> /\ cmd_queue' = Tail(cmd_queue) /\ attr' = attr /\ last' = last
  BY DEF ProcessCommand
<1>3. attr \in Profiles /\ last \in [Streams -> Frames] /\ CommandsOK /\ InTurn
  BY DEF IInv, OrderInv
<1>4. /\ Head(cmd_queue) = cmd /\ 1 \in DOMAIN cmd_queue /\ cmd \in HalCommands \cup DataCommands
      /\ \A i \in DOMAIN cmd_queue' : i + 1 \in DOMAIN cmd_queue /\ cmd_queue'[i] = cmd_queue[i + 1]
  BY <1>2, <1>3, TakenCommand
<1>5. DOMAIN cmd_queue \subseteq Nat /\ \A i \in DOMAIN cmd_queue' : i \in Nat \ {0}
  <2>1. DOMAIN cmd_queue = 1 .. Len(cmd_queue)
    BY <1>3 DEF CommandsOK
  <2>2. CommandsOK'
    BY DEF IInv
  <2>3. (DOMAIN cmd_queue = 1 .. Len(cmd_queue))'
    BY <2>2 DEF CommandsOK
  <2> QED
    BY <2>1, <2>3
<1>6. InTurn'
  <2>1. ASSUME NEW i \in DOMAIN cmd_queue', NEW j \in DOMAIN cmd_queue', i < j,
               cmd_queue'[i].type = "DATA_CB", cmd_queue'[j].type = "DATA_CB",
               cmd_queue'[i].arg.stream = cmd_queue'[j].arg.stream
        PROVE  cmd_queue'[i].arg.frame < cmd_queue'[j].arg.frame
    <3>1. /\ i + 1 \in DOMAIN cmd_queue /\ cmd_queue'[i] = cmd_queue[i + 1]
          /\ j + 1 \in DOMAIN cmd_queue /\ cmd_queue'[j] = cmd_queue[j + 1]
      BY <1>4
    <3>2. i + 1 < j + 1
      BY <1>5, <2>1
    <3> QED
      BY <1>3, <2>1, <3>1, <3>2 DEF InTurn
  <2> QED
    BY <2>1 DEF InTurn
<1>7. \A t, g : Waiting(Buffer(t, g))' => Waiting(Buffer(t, g))
  BY <1>4, WaitingNext, WaitingIs
<1>w. \A t, g : Waiting(Buffer(t, g))' =>
          \E i \in DOMAIN cmd_queue' : cmd_queue'[i].type = "DATA_CB" /\ cmd_queue'[i].arg = Buffer(t, g)
  BY WaitingNext
<1>8. \A t \in Streams : \A g \in Frames \ {0} :
          Buffer(t, g) \in NotInside' => Buffer(t, g) \in NotInside /\ (g > last[t] \/ Waiting(Buffer(t, g))')
  BY <1>2, <1>7, NotInsideNext, NotInsideIs
<1>9. ASSUME attr.priority = "NORMAL" PROVE (Row(ch, NotInside) /\ ch.match_cnt <= MostMatched)'
  <2>0. Row(ch, NotInside) /\ ch' = mm_channel_process_stream_buf(ch, cmd, m)
    BY <1>1, <1>4, <1>9 DEF OrderInv
  <2>1. CASE cmd.type # "DATA_CB"
    <3>1. cmd \in HalCommands
      BY <1>4, <2>1, CommandKinds
    <3> HIDE DEF cmd
    <3>2. Row(ch', NotInside) /\ ch'.match_cnt <= MostMatched
      BY <1>3, <1>9, <2>0, <3>1, ProcessRow
    <3> QED
      BY <1>2, <1>3, <1>8, <3>2, RowNext
  <2>2. CASE cmd.type = "DATA_CB"
    <3>1. cmd \in DataCommands
      BY <1>4, <2>2, CommandKinds
    <3>2. PICK s \in Streams, f \in Frames : cmd.arg = Buffer(s, f)
      BY <3>1 DEF DataCommands, Buffer
    <3>3. First(NotInside, s, f) /\ ~(f > last[s])
      BY <1>3, <1>4, <2>2, <3>2, FirstInTurn
    <3>4. Row(ch', Others(NotInside, s, f)) /\ ch'.match_cnt <= MostMatched
      <4> HIDE DEF cmd
      <4> QED
        BY <1>3, <1>9, <2>0, <2>2, <3>2, <3>3, ProcessRow
    <3>5. ~Waiting(Buffer(s, f))'
      <4>1. ASSUME Waiting(Buffer(s, f))' PROVE FALSE
        <5>1. PICK i \in DOMAIN cmd_queue' : cmd_queue'[i].type = "DATA_CB" /\ cmd_queue'[i].arg = Buffer(s, f)
          BY <4>1, <1>w
        <5>2. i + 1 \in DOMAIN cmd_queue /\ cmd_queue[i + 1].type = "DATA_CB" /\ cmd_queue[i + 1].arg = Buffer(s, f)
          BY <5>1, <1>4
        <5>3. i + 1 # 1
          BY <5>1, <1>5
        <5> QED
          BY <5>2, <5>3, <1>3, <1>4, <2>2, <3>2 DEF CommandsOK
      <4> QED
        BY <4>1
    <3>6. \A t \in Streams : \A g \in Frames \ {0} :
              Buffer(t, g) \in NotInside' => Buffer(t, g) \in Others(NotInside, s, f)
      <4> SUFFICES ASSUME NEW t \in Streams, NEW g \in Frames \ {0}, Buffer(t, g) \in NotInside'
                   PROVE  Buffer(t, g) \in Others(NotInside, s, f)
        OBVIOUS
      <4>1. Buffer(t, g) \in NotInside /\ (g > last[t] \/ Waiting(Buffer(t, g))')
        BY <1>8
      <4>2. CASE t = s /\ g = f
        BY <3>3, <3>5, <4>1, <4>2
      <4>3. CASE ~(t = s /\ g = f)
        <5>1. Buffer(t, g) # Buffer(s, f)
          BY <4>3, BufferEq
        <5> QED
          BY <4>1, <5>1 DEF Others
      <4> QED
        BY <4>2, <4>3
    <3> QED
      BY <1>2, <1>3, <3>4, <3>6, RowNext
  <2> QED
    BY <2>1, <2>2
<1> QED
  BY <1>2, <1>6, <1>9 DEF OrderInv

(* What leaves the commands alone. *)
LEMMA OrderStays ==
    ASSUME IInv, OrderInv, IInv', attr' = attr, cmd_queue' = cmd_queue, last' = last,
           attr.priority = "NORMAL" => Row(ch', NotInside) /\ ch'.match_cnt = ch.match_cnt
    PROVE  OrderInv'
<1>1. InTurn'
  BY DEF OrderInv, InTurn
<1>2. \A t, g : Waiting(Buffer(t, g))' <=> Waiting(Buffer(t, g))
  BY WaitingNext, WaitingIs
<1>3. \A t \in Streams : \A g \in Frames \ {0} : Buffer(t, g) \in NotInside' => Buffer(t, g) \in NotInside
  BY <1>2, NotInsideStays
<1>4. ASSUME attr.priority = "NORMAL" PROVE (Row(ch, NotInside) /\ ch.match_cnt <= MostMatched)'
  <2>1. attr \in Profiles /\ Row(ch', NotInside) /\ ch'.match_cnt <= MostMatched
    BY <1>4 DEF IInv, OrderInv
  <2> QED
    BY <1>3, <2>1, RowNext
<1> QED
  BY <1>1, <1>4 DEF OrderInv

(* The other holders change the counts only. *)
LEMMA HoldersOrder ==
    ASSUME IInv, OrderInv, IInv', attr' = attr, cmd_queue' = cmd_queue, last' = last, Alike(ch, ch')
    PROVE  OrderInv'
<1>1. ASSUME attr.priority = "NORMAL" PROVE Row(ch', NotInside) /\ ch'.match_cnt = ch.match_cnt
  BY <1>1, AlikeRow DEF OrderInv, Alike
<1> QED
  BY <1>1, OrderStays

(* A super buffer comes back, whichever. *)
ReturnedUp(c, d, i) ==
    /\ i \in DOMAIN c.up
    /\ \E B : d = [qbuf(c, B) EXCEPT !.up = RemoveAt(@, i)]

LEMMA ReturnRow ==
    ASSUME NEW c, NEW N, Row(c, N), NEW i, NEW d, ReturnedUp(c, d, i)
    PROVE  Row(d, N) /\ d.match_cnt = c.match_cnt
<1> DEFINE u == c.up
           v == RemoveAt(u, i)
           q == c.queue
<1>0. PICK B : d = [qbuf(c, B) EXCEPT !.up = RemoveAt(@, i)]
  BY DEF ReturnedUp
<1>1. Going(d) /\ d.queue = q /\ d.match_cnt = c.match_cnt /\ d.up = v
  BY <1>0 DEF Row, Going, qbuf, Chan, Fields
<1>2. /\ QueueOK(q, c.match_cnt) /\ UpOK(u, q) /\ Behind(q, u, N)
      /\ Len(q) - c.match_cnt <= attr.max_unmatched_frames + 1
  BY DEF Row
<1>3. u \in Seq([Streams -> Frames]) /\ i \in 1 .. Len(u) /\ Len(u) \in Nat /\ DOMAIN u = 1 .. Len(u)
  BY <1>2 DEF UpOK, ReturnedUp
<1>4. /\ v \in Seq([Streams -> Frames]) /\ Len(v) = Len(u) - 1
      /\ \A k \in 1 .. i - 1 : v[k] = u[k]
      /\ \A k \in i .. Len(v) : v[k] = u[k + 1]
  <2> DEFINE S == [Streams -> Frames]
  <2>1. u \in Seq(S) /\ i \in 1 .. Len(u)
    BY <1>3
  <2> HIDE DEF S, u
  <2>2. /\ v \in Seq(S) /\ Len(v) = Len(u) - 1
        /\ \A k \in 1 .. i - 1 : v[k] = u[k]
        /\ \A k \in i .. Len(v) : v[k] = u[k + 1]
    BY <2>1, Removed
  <2> QED
    BY <2>2 DEF S, u
<1> HIDE DEF u, v, q
<1> DEFINE old == [k \in DOMAIN v |-> IF k < i THEN k ELSE k + 1]
<1>5. \A k \in DOMAIN v : old[k] = IF k < i THEN k ELSE k + 1
  OBVIOUS
<1> HIDE DEF old
<1>6. DOMAIN v = 1 .. Len(v) /\ Len(v) \in Nat
  BY <1>3, <1>4
<1>7. \A k \in DOMAIN v : old[k] \in DOMAIN u /\ v[k] = u[old[k]]
  <2> TAKE k \in DOMAIN v
  <2>1. CASE k < i
    <3>1. k \in 1 .. i - 1 /\ old[k] = k /\ k \in 1 .. Len(u)
      BY <2>1, <1>3, <1>4, <1>5, <1>6
    <3> QED
      BY <3>1, <1>3, <1>4
  <2>2. CASE ~(k < i)
    <3>1. k \in i .. Len(v) /\ old[k] = k + 1 /\ k + 1 \in 1 .. Len(u)
      BY <2>2, <1>3, <1>4, <1>5, <1>6
    <3> QED
      BY <3>1, <1>3, <1>4
  <2> QED
    BY <2>1, <2>2
<1>8. \A k, l \in DOMAIN v : k < l => old[k] < old[l]
  BY <1>3, <1>5, <1>6
<1>9. UpOK(v, q)
  <2>1. /\ \A k \in DOMAIN u : \A s, t \in attr.streams : u[k][s] = u[k][t] /\ u[k][s] # 0
        /\ \A k, l \in DOMAIN u : \A s \in attr.streams : k < l => u[k][s] < u[l][s]
        /\ \A k \in DOMAIN u : \A l \in DOMAIN q : \A s \in attr.streams : u[k][s] < q[l].frame_idx
    BY <1>2 DEF UpOK
  <2>2. \A k \in DOMAIN v : \A s, t \in attr.streams : v[k][s] = v[k][t] /\ v[k][s] # 0
    BY <1>7, <2>1
  <2>3. ASSUME NEW k \in DOMAIN v, NEW l \in DOMAIN v, NEW s \in attr.streams, k < l PROVE v[k][s] < v[l][s]
    <3>1. /\ old[k] \in DOMAIN u /\ v[k] = u[old[k]]
          /\ old[l] \in DOMAIN u /\ v[l] = u[old[l]] /\ old[k] < old[l]
      BY <1>7, <1>8, <2>3
    <3> QED
      BY <2>1, <3>1
  <2>4. \A k \in DOMAIN v : \A l \in DOMAIN q : \A s \in attr.streams : v[k][s] < q[l].frame_idx
    BY <1>7, <2>1
  <2> QED
    BY <1>4, <2>2, <2>3, <2>4 DEF UpOK
<1>10. Behind(q, v, N)
  BY <1>2, <1>7 DEF Behind
<1> QED
  BY <1>1, <1>2, <1>9, <1>10 DEF Row

LEMMA ReturnOrder ==
    ASSUME IInv, OrderInv, IInv', NEW i \in DOMAIN ch.up, ReturnSuperBuf(i)
    PROVE  OrderInv'
<1>1. attr' = attr /\ cmd_queue' = cmd_queue /\ last' = last
  BY DEF ReturnSuperBuf
<1>c. ReturnedUp(ch, ch', i)
  BY DEF ReturnSuperBuf, ReturnedUp
<1>2. ASSUME attr.priority = "NORMAL" PROVE Row(ch', NotInside) /\ ch'.match_cnt = ch.match_cnt
  <2>1. Row(ch, NotInside)
    BY <1>2 DEF OrderInv
  <2> QED
    BY <1>c, <2>1, ReturnRow
<1> QED
  BY <1>1, <1>2, OrderStays

LEMMA NotifyOrder ==
    ASSUME IInv, OrderInv, IInv', NEW s \in Streams, mm_stream_data_notify(s)
    PROVE  OrderInv'
<1>1. /\ attr \in Profiles /\ last \in [Streams -> Frames] /\ CommandsOK /\ attr' = attr /\ InTurn
      /\ Store(ch, Outside, NotInside)
  BY DEF IInv, Stored, OrderInv, mm_stream_data_notify
<1>2. PICK f \in Frames :
        /\ f > last[s] /\ last' = [last EXCEPT ![s] = f]
        /\ ch' = [ch EXCEPT !.buf_refcnt[s][f] = 1 + IF s \in CbStreams THEN 1 ELSE 0]
        /\ cmd_queue' = Append(cmd_queue, [type |-> "DATA_CB", arg |-> Buffer(s, f)])
  BY DEF mm_stream_data_notify
<1>3. \A g \in Frames : g \in Nat
  BY DEF Frames
<1> DEFINE e == [type |-> "DATA_CB", arg |-> Buffer(s, f)]
           n == Len(cmd_queue) + 1
<1>4. e.type = "DATA_CB" /\ e.arg = Buffer(s, f) /\ e \in DataCommands /\ e.arg.stream = s /\ e.arg.frame = f
  BY DEF DataCommands, Buffer
<1>5. cmd_queue' = Append(cmd_queue, e)
  BY <1>2
<1> HIDE DEF e
<1>6. /\ DOMAIN cmd_queue' = DOMAIN cmd_queue \cup {n} /\ n \notin DOMAIN cmd_queue /\ cmd_queue'[n] = e
      /\ \A k \in DOMAIN cmd_queue : cmd_queue'[k] = cmd_queue[k]
      /\ \A k \in DOMAIN cmd_queue : ~(n < k)
  <2> DEFINE S == HalCommands \cup DataCommands
  <2>1. cmd_queue \in Seq(S) /\ e \in S
    BY <1>1, <1>4 DEF CommandsOK
  <2> HIDE DEF S
  <2>2. /\ DOMAIN cmd_queue' = DOMAIN cmd_queue \cup {n} /\ n \notin DOMAIN cmd_queue /\ cmd_queue'[n] = e
        /\ \A k \in DOMAIN cmd_queue : cmd_queue'[k] = cmd_queue[k]
    BY <2>1, <1>5, Queued
  <2>3. \A k \in DOMAIN cmd_queue : ~(n < k)
    BY <2>1
  <2> QED
    BY <2>2, <2>3
<1>7. ~(n < n)
  BY <1>1 DEF CommandsOK
<1> HIDE DEF n
<1>8. InTurn'
  <2>1. ASSUME NEW i \in DOMAIN cmd_queue', NEW j \in DOMAIN cmd_queue', i < j,
               cmd_queue'[i].type = "DATA_CB", cmd_queue'[j].type = "DATA_CB",
               cmd_queue'[i].arg.stream = cmd_queue'[j].arg.stream
        PROVE  cmd_queue'[i].arg.frame < cmd_queue'[j].arg.frame
    <3>1. i \in DOMAIN cmd_queue /\ cmd_queue'[i] = cmd_queue[i]
      BY <1>6, <1>7, <2>1
    <3>2. CASE j = n
      <4>1. cmd_queue[i].type = "DATA_CB" /\ cmd_queue[i].arg.stream = s /\ cmd_queue'[j].arg.frame = f
        BY <2>1, <3>1, <3>2, <1>4, <1>6
      <4>2. cmd_queue[i].arg.frame <= last[s]
        BY <1>1, <3>1, <4>1 DEF CommandsOK
      <4>3. cmd_queue[i].arg.frame \in Frames
        <5>1. cmd_queue[i] \in HalCommands \cup DataCommands
          BY <1>1, <3>1 DEF CommandsOK
        <5>2. cmd_queue[i] \in DataCommands
          BY <4>1, <5>1, CommandKinds
        <5> QED
          BY <5>2 DEF DataCommands
      <4>4. last[s] \in Nat /\ f \in Nat /\ cmd_queue[i].arg.frame \in Nat
        BY <1>1, <1>3, <4>3
      <4> QED
        BY <1>2, <3>1, <4>1, <4>2, <4>4
    <3>3. CASE j # n
      <4>1. j \in DOMAIN cmd_queue /\ cmd_queue'[j] = cmd_queue[j]
        BY <3>3, <1>6
      <4> QED
        BY <1>1, <2>1, <3>1, <4>1 DEF InTurn
    <3> QED
      BY <3>2, <3>3
  <2> QED
    BY <2>1 DEF InTurn
<1>9. \A t \in Streams : last[t] <= last'[t] /\ last[t] \in Nat /\ last'[t] \in Nat
  BY <1>1, <1>2, <1>3
<1>10. \A t \in Streams : \A g \in Frames \ {0} : Buffer(t, g) \in NotInside' => Buffer(t, g) \in NotInside
  <2> SUFFICES ASSUME NEW t \in Streams, NEW g \in Frames \ {0}, Buffer(t, g) \in NotInside'
               PROVE  Buffer(t, g) \in NotInside
    OBVIOUS
  <2>1. g > last'[t] \/ Waiting(Buffer(t, g))'
    BY NotInsideNext
  <2>2. CASE g > last'[t]
    <3>1. g > last[t]
      BY <2>2, <1>3, <1>9
    <3> QED
      BY <3>1, NotInsideIs
  <2>3. CASE Waiting(Buffer(t, g))'
    <3>1. PICK k \in DOMAIN cmd_queue' : cmd_queue'[k].type = "DATA_CB" /\ cmd_queue'[k].arg = Buffer(t, g)
      BY <2>3, WaitingNext
    <3>2. CASE k = n
      <4>1. t = s /\ g = f
        BY <3>1, <3>2, <1>4, <1>6, BufferEq
      <4> QED
        BY <4>1, <1>2, NotInsideIs
    <3>3. CASE k # n
      <4>1. Waiting(Buffer(t, g))
        BY <3>1, <3>3, <1>6, WaitingIs
      <4> QED
        BY <4>1, NotInsideIs
    <3> QED
      BY <3>2, <3>3
  <2> QED
    BY <2>1, <2>2, <2>3
<1>11. Alike(ch, ch')
  BY <1>1, <1>2 DEF Store, StoreTypes, Alike, Beside, Chan, Fields
<1>12. ASSUME attr.priority = "NORMAL" PROVE (Row(ch, NotInside) /\ ch.match_cnt <= MostMatched)'
  <2>1. Row(ch, NotInside) /\ ch.match_cnt <= MostMatched
    BY <1>12 DEF OrderInv
  <2>2. Row(ch', NotInside) /\ ch'.match_cnt <= MostMatched
    BY <2>1, <1>11, AlikeRow DEF Alike
  <2> QED
    BY <1>1, <1>10, <2>2, RowNext
<1> QED
  BY <1>1, <1>8, <1>12 DEF OrderInv

LEMMA OperateOrder ==
    ASSUME IInv, OrderInv, IInv', Operate
    PROVE  OrderInv'
<1>1. attr \in Profiles /\ CommandsOK /\ InTurn /\ attr' = attr /\ ch' = ch /\ last' = last
  BY DEF IInv, OrderInv, Operate
<1>2. PICK op \in Operations(attr) : cmd_queue' = cmd_queue \o op
  BY DEF Operate, Operations
<1>3. op \in Seq(HalCommands)
  BY <1>1, <1>2, OperationsAssumption
<1> DEFINE S == HalCommands \cup DataCommands
           n == Len(cmd_queue)
           m == Len(op)
<1>4. cmd_queue \in Seq(S) /\ op \in Seq(S) /\ \A k \in DOMAIN op : op[k] \in HalCommands
  BY <1>1, <1>3 DEF CommandsOK
<1> HIDE DEF S
<1>5. n \in Nat /\ m \in Nat /\ DOMAIN cmd_queue = 1 .. n /\ DOMAIN op = 1 .. m
  BY <1>4
<1>6. /\ cmd_queue' \in Seq(S) /\ Len(cmd_queue') = n + m
      /\ \A k \in 1 .. n : cmd_queue'[k] = cmd_queue[k]
      /\ \A k \in n + 1 .. n + m : cmd_queue'[k] = op[k - n]
  BY <1>2, <1>4, Joined
<1>7. DOMAIN cmd_queue' = 1 .. n + m
  BY <1>5, <1>6
<1> HIDE DEF n, m
<1>8. \A k \in DOMAIN op : op[k].type # "DATA_CB"
  BY <1>4, CommandKinds
<1>9. \A k \in DOMAIN cmd_queue' : cmd_queue'[k].type = "DATA_CB" =>
          k \in DOMAIN cmd_queue /\ cmd_queue'[k] = cmd_queue[k]
  <2> TAKE k \in DOMAIN cmd_queue'
  <2>1. CASE k \in 1 .. n
    BY <2>1, <1>5, <1>6
  <2>2. CASE k \notin 1 .. n
    <3>1. k \in n + 1 .. n + m /\ k - n \in 1 .. m
      BY <2>2, <1>5, <1>7
    <3> QED
      BY <3>1, <1>5, <1>6, <1>8
  <2> QED
    BY <2>1, <2>2
<1>10. InTurn'
  <2>1. \A i, j \in DOMAIN cmd_queue' :
            /\ i < j /\ cmd_queue'[i].type = "DATA_CB" /\ cmd_queue'[j].type = "DATA_CB"
            /\ cmd_queue'[i].arg.stream = cmd_queue'[j].arg.stream
            => cmd_queue'[i].arg.frame < cmd_queue'[j].arg.frame
    BY <1>1, <1>9 DEF InTurn
  <2> QED
    BY <2>1 DEF InTurn
<1>11. \A t, g : Waiting(Buffer(t, g))' => Waiting(Buffer(t, g))
  BY <1>9, WaitingNext, WaitingIs
<1>12. \A t \in Streams : \A g \in Frames \ {0} : Buffer(t, g) \in NotInside' => Buffer(t, g) \in NotInside
  BY <1>1, <1>11, NotInsideNext, NotInsideIs
<1>13. ASSUME attr.priority = "NORMAL" PROVE (Row(ch, NotInside) /\ ch.match_cnt <= MostMatched)'
  <2>1. Row(ch', NotInside) /\ ch'.match_cnt <= MostMatched
    BY <1>1, <1>13 DEF OrderInv
  <2> QED
    BY <1>1, <1>12, <2>1, RowNext
<1> QED
  BY <1>1, <1>10, <1>13 DEF OrderInv

LEMMA InitOrder == Init => OrderInv
<1> SUFFICES ASSUME Init PROVE OrderInv
  OBVIOUS
<1>1. IInv
  BY InitIInv
<1>2. /\ ch.queue = <<>> /\ ch.up = <<>> /\ ch.match_cnt = 0 /\ ch.hangs = FALSE /\ ch.nomatch_frame_id = 0
      /\ ch.bWaitForPrepSnapshotDone = FALSE /\ cmd_queue = <<>>
  BY DEF Init
<1>3. Chan(ch) /\ attr \in Profiles
  BY <1>1 DEF IInv, Stored, Store, StoreTypes
<1>4. Going(ch) /\ InTurn
  BY <1>2, <1>3 DEF Going, InTurn
<1>5. QueueOK(ch.queue, ch.match_cnt) /\ UpOK(ch.up, ch.queue) /\ Behind(ch.queue, ch.up, NotInside)
  BY <1>2 DEF QueueOK, UpOK, Behind
<1>6. Len(ch.queue) - ch.match_cnt <= attr.max_unmatched_frames + 1 /\ ch.match_cnt <= MostMatched
  BY <1>2, <1>3, Bounds
<1> QED
  BY <1>4, <1>5, <1>6 DEF OrderInv, Row

LEMMA NextOrder == IInv /\ OrderInv /\ [Next]_vars /\ IInv' => OrderInv'
<1> SUFFICES ASSUME IInv, OrderInv, [Next]_vars, IInv' PROVE OrderInv'
  OBVIOUS
<1>0. Chan(ch)
  BY DEF IInv, Stored, Store, StoreTypes
<1>1. CASE ProcessCommand
  BY <1>1, ProcessOrder
<1>2. ASSUME NEW s \in Streams, mm_stream_data_notify(s) PROVE OrderInv'
  BY <1>2, NotifyOrder
<1>3. CASE NotifyStream
  <2>1. Alike(ch, ch') /\ attr' = attr /\ cmd_queue' = cmd_queue /\ last' = last
    BY <1>0, <1>3 DEF NotifyStream, Alike, Beside
  <2> QED
    BY <2>1, HoldersOrder
<1>4. ASSUME NEW x \in app, Callback(x) PROVE OrderInv'
  <2>1. Alike(ch, ch') /\ attr' = attr /\ cmd_queue' = cmd_queue /\ last' = last
    BY <1>0, <1>4 DEF Callback, Alike, Beside, Chan, Fields
  <2> QED
    BY <2>1, HoldersOrder
<1>5. ASSUME NEW x \in app, LetGo(x) PROVE OrderInv'
  <2>1. Alike(ch, ch') /\ attr' = attr /\ cmd_queue' = cmd_queue /\ last' = last
    BY <1>0, <1>5 DEF LetGo, qbuf, Alike, Beside, Chan, Fields
  <2> QED
    BY <2>1, HoldersOrder
<1>6. ASSUME NEW i \in DOMAIN ch.up, ReturnSuperBuf(i) PROVE OrderInv'
  BY <1>6, ReturnOrder
<1>7. CASE Operate
  BY <1>7, OperateOrder
<1>8. CASE UNCHANGED vars
  <2>1. Alike(ch, ch') /\ attr' = attr /\ cmd_queue' = cmd_queue /\ last' = last
    BY <1>0, <1>8 DEF vars, Alike, Beside
  <2> QED
    BY <2>1, HoldersOrder
<1> QED
  BY <1>1, <1>2, <1>3, <1>4, <1>5, <1>6, <1>7, <1>8 DEF Next

-----------------------------------------------------------------------------
(* The queue of a channel of normal priority is sorted by frame with its complete nodes in front, what was *)
(* handed up is older than what the queue holds, and the buffers that are still to come are newer: through *)
(* every command of the HAL, with whatever frames lost and whatever the metadata say                       *)
(* (mm_channel_process_stream_buf).                                                                        *)
THEOREM OrderInvariance == Spec => []OrderInv
<1>1. Init => IInv /\ OrderInv
  BY InitIInv, InitOrder
<1>2. IInv /\ OrderInv /\ [Next]_vars => (IInv /\ OrderInv)'
  BY NextIInv, NextOrder
<1> QED
  BY <1>1, <1>2, PTL DEF Spec

LEMMA CompleteNode ==
    ASSUME NEW n, NodeOK(n), n.matched
    PROVE  \A s \in attr.streams : n.super_buf[s] = n.frame_idx /\ n.super_buf[s] # 0
BY DEF NodeOK

IsJoin(v, a, b, S) ==
    /\ v \in Seq(S) /\ Len(v) = Len(a) + Len(b)
    /\ \A k \in 1 .. Len(a) : v[k] = a[k]
    /\ \A k \in Len(a) + 1 .. Len(a) + Len(b) : v[k] = b[k - Len(a)]

LEMMA JoinIs ==
    ASSUME NEW S, NEW a \in Seq(S), NEW b \in Seq(S)
    PROVE  IsJoin(a \o b, a, b, S)
BY Joined DEF IsJoin

(* The super buffers handed up and those that could be are of one frame each and in order. *)
LEMMA AllInOrder ==
    ASSUME NEW q, NEW u, NEW m, QueueOK(q, m), UpOK(u, q), attr.streams \subseteq Streams,
           NEW p, p = [i \in 1 .. m |-> q[i].super_buf], NEW v, v = u \o p
    PROVE  /\ \A i \in DOMAIN v : \A s, t \in attr.streams : v[i][s] = v[i][t] /\ v[i][s] # 0
           /\ \A i, j \in DOMAIN v : \A s \in attr.streams : i < j => v[i][s] < v[j][s]
<1> DEFINE S == [Streams -> Frames]
           l == Len(u)
<1>1. /\ DOMAIN q = 1 .. Len(q) /\ Len(q) \in Nat /\ m \in Nat /\ m <= Len(q)
      /\ \A k \in DOMAIN q : q[k] \in Node /\ NodeOK(q[k]) /\ (q[k].matched <=> k <= m)
  BY QueueParts DEF QueueOK
<1>2. u \in Seq(S) /\ l \in Nat /\ DOMAIN u = 1 .. l
  BY DEF UpOK
<1>3. \A k \in 1 .. m : k \in DOMAIN q /\ q[k].super_buf \in S /\ p[k] = q[k].super_buf
  <2> SUFFICES ASSUME NEW k \in 1 .. m PROVE k \in DOMAIN q /\ q[k].super_buf \in S /\ p[k] = q[k].super_buf
    OBVIOUS
  <2>1. k \in DOMAIN q
    BY <1>1
  <2>2. q[k] \in Node
    BY <1>1, <2>1
  <2>3. p[k] = q[k].super_buf
    OBVIOUS
  <2> QED
    BY <2>1, <2>2, <2>3 DEF Node
<1>m. \A k \in 1 .. m : NodeOK(q[k]) /\ q[k].matched
  <2> SUFFICES ASSUME NEW k \in 1 .. m PROVE NodeOK(q[k]) /\ q[k].matched
    OBVIOUS
  <2>1. k \in DOMAIN q /\ k <= m
    BY <1>1
  <2> QED
    BY <1>1, <2>1
<1>4. p \in Seq(S) /\ Len(p) = m
  <2> HIDE DEF S
  <2>1. p \in [1 .. m -> S]
    BY <1>3
  <2> QED
    BY <1>1, <2>1
<1>5. \A k \in 1 .. m : \A s \in attr.streams : p[k][s] = q[k].frame_idx /\ p[k][s] # 0
  <2> SUFFICES ASSUME NEW k \in 1 .. m, NEW s \in attr.streams
               PROVE  q[k].super_buf[s] = q[k].frame_idx /\ q[k].super_buf[s] # 0
    BY <1>3
  <2>1. NodeOK(q[k]) /\ q[k].matched
    BY <1>m
  <2> HIDE DEF S
  <2> QED
    BY <2>1, CompleteNode
<1>6. Len(v) = l + m /\ DOMAIN v = 1 .. l + m
      /\ (\A k \in 1 .. l : v[k] = u[k]) /\ \A k \in l + 1 .. l + m : v[k] = p[k - l]
  <2> HIDE DEF S
  <2>1. /\ v \in Seq(S) /\ Len(v) = Len(u) + Len(p)
        /\ \A k \in 1 .. Len(u) : v[k] = u[k]
        /\ \A k \in Len(u) + 1 .. Len(u) + Len(p) : v[k] = p[k - Len(u)]
    <3>1. u \in Seq(S) /\ p \in Seq(S)
      BY <1>2, <1>4
    <3>2. IsJoin(u \o p, u, p, S)
      BY <3>1, JoinIs
    <3>3. IsJoin(v, u, p, S)
      BY <3>2
    <3> QED
      BY <3>3 DEF IsJoin
  <2>2. Len(u) = l /\ Len(p) = m
    BY <1>4
  <2>3. Len(v) = l + m /\ DOMAIN v = 1 .. l + m
    <3>0. v \in Seq(S) => DOMAIN v = 1 .. Len(v)
      <4>1. \A w \in Seq(S) : DOMAIN w = 1 .. Len(w)
        OBVIOUS
      <4> QED
        BY <4>1, Zenon
    <3>1. DOMAIN v = 1 .. Len(v) /\ Len(v) = Len(u) + Len(p)
      BY <2>1, <3>0, Zenon
    <3> HIDE DEF l
    <3> QED
      BY <2>2, <3>1
  <2>4. (\A k \in 1 .. l : v[k] = u[k]) /\ \A k \in l + 1 .. l + m : v[k] = p[k - l]
    BY <2>1, <2>2
  <2> QED
    BY <2>3, <2>4
<1> HIDE DEF S, l
<1>7. \A k \in DOMAIN v : \/ k \in 1 .. l /\ v[k] = u[k]
                          \/ ~(k <= l) /\ k - l \in 1 .. m /\ v[k] = p[k - l]
  BY <1>1, <1>2, <1>6
<1>8. \A i \in DOMAIN v : \A s, t \in attr.streams : v[i][s] = v[i][t] /\ v[i][s] # 0
  <2> SUFFICES ASSUME NEW i \in DOMAIN v, NEW s \in attr.streams, NEW t \in attr.streams
               PROVE  v[i][s] = v[i][t] /\ v[i][s] # 0
    OBVIOUS
  <2>1. CASE i \in 1 .. l /\ v[i] = u[i]
    BY <1>2, <2>1 DEF UpOK
  <2>2. CASE i - l \in 1 .. m /\ v[i] = p[i - l]
    BY <1>5, <2>2
  <2> QED
    BY <1>7, <2>1, <2>2
<1>9. ASSUME NEW i \in DOMAIN v, NEW j \in DOMAIN v, NEW s \in attr.streams, i < j PROVE v[i][s] < v[j][s]
  <2>0. \A k \in DOMAIN u : \A n \in DOMAIN q : u[k][s] < q[n].frame_idx
    BY DEF UpOK
  <2>1. CASE j \in 1 .. l /\ v[j] = u[j]
    <3>1. i \in 1 .. l /\ v[i] = u[i]
      BY <1>1, <1>2, <1>6, <1>9, <2>1
    <3> QED
      BY <1>2, <1>9, <2>1, <3>1 DEF UpOK
  <2>2. CASE ~(j <= l) /\ j - l \in 1 .. m /\ v[j] = p[j - l]
    <3>1. v[j][s] = q[j - l].frame_idx /\ j - l \in DOMAIN q
      BY <1>3, <1>5, <2>2
    <3>2. CASE i \in 1 .. l /\ v[i] = u[i]
      BY <1>2, <2>0, <3>1, <3>2
    <3>3. CASE ~(i <= l) /\ i - l \in 1 .. m /\ v[i] = p[i - l]
      <4>1. v[i][s] = q[i - l].frame_idx /\ i - l \in DOMAIN q
        BY <1>3, <1>5, <3>3
      <4>2. i - l < j - l
        BY <1>1, <1>2, <1>6, <1>9
      <4>3. q[i - l].frame_idx < q[j - l].frame_idx
        BY <3>1, <4>1, <4>2 DEF QueueOK
      <4> QED
        BY <3>1, <4>1, <4>3
    <3> QED
      BY <1>7, <3>2, <3>3
  <2> QED
    BY <1>7, <2>1, <2>2
<1> QED
  BY <1>8, <1>9

(* A channel of normal priority hands up super buffers of one frame each and in order, however late a      *)
(* stream delivers (mm_channel_superbuf_comp_and_enqueue, mm_channel_superbuf_dequeue_internal); its        *)
(* complete nodes stand first and are counted, so that mm_channel_superbuf_bufdone_overflow and             *)
(* mm_channel_superbuf_skip end.                                                                           *)
THEOREM OrderOfSuperBufs == Spec => [](attr.priority = "NORMAL" => SuperBufsInOrder)
<1>1. IInv /\ OrderInv => (attr.priority = "NORMAL" => SuperBufsInOrder)
  <2> SUFFICES ASSUME IInv, OrderInv, attr.priority = "NORMAL" PROVE SuperBufsInOrder
    OBVIOUS
  <2>1. QueueOK(ch.queue, ch.match_cnt) /\ UpOK(ch.up, ch.queue) /\ ch.hangs = FALSE
    BY DEF OrderInv, Row, Going
  <2>2. Matched(ch.queue) = 1 .. ch.match_cnt /\ Cardinality(Matched(ch.queue)) = ch.match_cnt
    BY <2>1, Counted
  <2>3. attr.streams \subseteq Streams
    BY Bounds DEF IInv
  <2> DEFINE p == [i \in 1 .. ch.match_cnt |-> ch.queue[i].super_buf]
             v == ch.up \o p
  <2>4. /\ \A i \in DOMAIN v : \A s, t \in attr.streams : v[i][s] = v[i][t] /\ v[i][s] # 0
        /\ \A i, j \in DOMAIN v : \A s \in attr.streams : i < j => v[i][s] < v[j][s]
    <3> HIDE DEF v, p
    <3> QED
      BY <2>1, <2>3, AllInOrder DEF v, p
  <2> QED
    BY <2>1, <2>2, <2>4 DEF SuperBufsInOrder
<1> QED
  BY <1>1, Invariance, OrderInvariance, PTL

(* The channel of normal priority never holds every metadata buffer (getBufNumRequired): what it keeps stays *)
(* within the water mark and the unmatched frames allowed, whichever frames are lost.                       *)
THEOREM StreamsRun == Spec => [](attr.priority = "NORMAL" => StreamsKeepRunning)
<1>1. IInv /\ OrderInv => (attr.priority = "NORMAL" => StreamsKeepRunning)
  <2> SUFFICES ASSUME IInv, OrderInv, attr.priority = "NORMAL" PROVE StreamsKeepRunning
    OBVIOUS
  <2>1. /\ QueueOK(ch.queue, ch.match_cnt) /\ ch.match_cnt <= MostMatched
        /\ Len(ch.queue) - ch.match_cnt <= attr.max_unmatched_frames + 1
    BY DEF OrderInv, Row
  <2>2. /\ Cardinality(Matched(ch.queue)) = ch.match_cnt
        /\ Cardinality(Unmatched(ch.queue)) = Len(ch.queue) - ch.match_cnt
        /\ ch.match_cnt \in Nat /\ Len(ch.queue) \in Nat
    BY <2>1, Counted, QueueParts
  <2>3. /\ attr.max_unmatched_frames \in Nat /\ attr.water_mark \in Nat
        /\ attr.notify_mode \in {"BURST", "CONTINUOUS"}
    BY Bounds DEF IInv
  <2>4. Len(ch.queue) <= MostMatched + attr.max_unmatched_frames + 1
    BY <2>1, <2>2, <2>3 DEF MostMatched
  <2>5. MostMatched + attr.max_unmatched_frames + 1 < getBufNumRequired(Meta)
    BY <2>3 DEF MostMatched, getBufNumRequired, CAMERA_MIN_JPEG_ENCODING_BUFFERS, EXTRA_ZSL_PREVIEW_STREAM_BUF,
                CAMERA_MIN_STREAMING_BUFFERS
  <2>6. getBufNumRequired(Meta) \in Int /\ MostMatched \in Nat
    BY <2>3 DEF MostMatched, getBufNumRequired, CAMERA_MIN_JPEG_ENCODING_BUFFERS, EXTRA_ZSL_PREVIEW_STREAM_BUF,
                CAMERA_MIN_STREAMING_BUFFERS
  <2>7. Len(ch.queue) < getBufNumRequired(Meta)
    BY <2>2, <2>3, <2>4, <2>5, <2>6
  <2> QED
    BY <2>1, <2>2, <2>7 DEF StreamsKeepRunning, MostMatched
<1> QED
  BY <1>1, Invariance, OrderInvariance, PTL
=============================================================================
