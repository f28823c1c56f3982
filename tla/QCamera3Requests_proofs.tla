----------------------- MODULE QCamera3Requests_proofs -----------------------
(***************************************************************************)
(* For all streams, any number of frames and any limits of requests in     *)
(* flight: every buffer the framework hands over is accounted for, the     *)
(* requests are counted right, the client is held back in time, shutters   *)
(* come in order, dropped buffers are errors.                              *)
(***************************************************************************)
EXTENDS QCamera3Requests, FiniteSetTheorems, SequenceTheorems, TLAPS

(* Everything that was ever named has an earlier frame number than next.    *)
Earlier ==
    /\ \A i \in Pending : i.frame < next
    /\ \A m \in metaDue : m < next
    /\ \A b \in handed : b[1] < next
    /\ \A f \in reprocess : f < next
    /\ \A k \in DOMAIN shutters : shutters[k] < next

(* What the flags say of the channels. *)
FlagsAgree ==
    /\ mFlush <=> flusher # "idle"
    /\ flusher \in {"streamsStopped", "stopped"} => imageDue = {}
    /\ mFirstRequest => metaDue = {} /\ imageDue = {}

(* A pending request's buffers were handed over and, of a capture, are all  *)
(* in the map; what it has filled will not come again.                      *)
PendingHanded ==
    \A i \in Pending :
        /\ Outputs(i.frame, i.streams) \subseteq handed
        /\ ~i.input => Outputs(i.frame, i.streams) \subseteq mPendingBuffersMap
        /\ i.input <=> i.frame \in reprocess
        /\ \A s \in i.filled : <<i.frame, s>> \in mPendingBuffersMap \ imageDue /\ ~i.input

(* What is in the map or due was not returned.                              *)
BuffersOut ==
    /\ imageDue \subseteq mPendingBuffersMap
    /\ \A b \in mPendingBuffersMap : b \in handed /\ results[b] = <<>>
    /\ \A b \in handed : b[1] \in reprocess => b[2] = Blob
    /\ \A b \in Buffers : results[b] # <<>> => b \in handed
    /\ refused \subseteq reprocess

(* A kept reprocess result is in no map; its request is pending still, or   *)
(* ended by metadata later than it.                                         *)
KeptOnce ==
    \A f \in mPendingReprocessResultList :
        /\ f \in reprocess /\ <<f, Blob>> \in handed
        /\ <<f, Blob>> \notin mPendingBuffersMap
        /\ f \in PendingFrames => results[<<f, Blob>>] = <<>>
        /\ f \notin PendingFrames => \A m \in metaDue : m > f

(* Captures end in the order of frames, and so do all requests whose        *)
(* buffers are still out.                                                   *)
EndInOrder ==
    /\ \A f \in 1 .. next - 1 : f \notin reprocess /\ f \notin PendingFrames =>
            \A p \in PendingFrames : f < p
    /\ \A b \in mPendingBuffersMap : b[1] \notin PendingFrames =>
            \A p \in PendingFrames : b[1] < p

(* The count the client is blocked by; refused requests are not in it.      *)
CountInv ==
    /\ IsFiniteSet(refused)
    /\ ~mFlush => InFlight = Len(mPendingRequestsList) - Cardinality(refused)
    /\ InFlight <= MAX_INFLIGHT_REQUESTS + timeouts
    /\ client = "idle" => InFlight < MAX_INFLIGHT_REQUESTS + timeouts

(* No pending request has had its shutter.                                  *)
ShuttersInv ==
    /\ ShuttersInOrder
    /\ \A k \in DOMAIN shutters : shutters[k] \notin PendingFrames

(* A buffer reported dropped is remembered until it is returned.            *)
DroppedInv ==
    \A b \in told :
        /\ b \in handed /\ b[1] \notin reprocess /\ b[1] \notin PendingFrames
        /\ results[b] = <<>> => b \in mPendingFrameDropList

IInv ==
    /\ TypeOK /\ Earlier /\ FlagsAgree /\ PendingHanded /\ BuffersOut /\ BuffersAccounted
    /\ KeptOnce /\ EndInOrder /\ KeptAwaitsCapture /\ CountInv /\ ShuttersInv /\ DroppedInv

-----------------------------------------------------------------------------
(* The list of requests.                                                    *)
Ordered(s) == \A k, l \in DOMAIN s : k < l => s[k].frame < s[l].frame
Members(s) == {s[k] : k \in DOMAIN s}

(* The pending frames are those of the list's members. *)
LEMMA ListFacts ==
  ASSUME TypeOK
  PROVE  /\ mPendingRequestsList \in Seq(RequestInfos) /\ Ordered(mPendingRequestsList)
         /\ Pending = Members(mPendingRequestsList)
         /\ Pending \subseteq RequestInfos /\ PendingFrames \subseteq Frames
         /\ Len(mPendingRequestsList) \in Nat
         /\ DOMAIN mPendingRequestsList = 1 .. Len(mPendingRequestsList)
<1>1. mPendingRequestsList \in Seq(RequestInfos) /\ Ordered(mPendingRequestsList)
  BY DEF TypeOK, Ordered
<1>2. Pending \subseteq RequestInfos
  BY <1>1 DEF Pending
<1>3. PendingFrames \subseteq Frames
  BY <1>2 DEF PendingFrames, RequestInfos
<1> QED BY <1>1, <1>2, <1>3, LenProperties DEF Pending, Members

(* A pending frame has one request on the list. *)
LEMMA IndexFacts ==
  ASSUME TypeOK, NEW f \in PendingFrames
  PROVE  /\ Index(f) \in 1 .. Len(mPendingRequestsList)
         /\ mPendingRequestsList[Index(f)].frame = f
         /\ Requested(f) \in Pending /\ Requested(f).frame = f
         /\ \A i \in Pending : i.frame = f => i = Requested(f)
<1>1. PICK k \in DOMAIN mPendingRequestsList : mPendingRequestsList[k].frame = f
  BY DEF PendingFrames, Pending
<1>2. Index(f) \in DOMAIN mPendingRequestsList /\ mPendingRequestsList[Index(f)].frame = f
  BY <1>1 DEF Index
<1>3. \A l \in DOMAIN mPendingRequestsList : mPendingRequestsList[l].frame = f => l = Index(f)
  <2> SUFFICES ASSUME NEW l \in DOMAIN mPendingRequestsList, mPendingRequestsList[l].frame = f,
                      l # Index(f)
               PROVE  FALSE
    OBVIOUS
  <2>1. l \in Nat /\ Index(f) \in Nat /\ f \in Nat
    BY <1>2, ListFacts DEF Frames
  <2>2. l < Index(f) \/ Index(f) < l
    BY <2>1
  <2> QED BY <1>2, <2>1, <2>2, ListFacts DEF Ordered
<1> QED BY <1>2, <1>3, ListFacts DEF Requested, Pending

(* Erasing a request leaves the others in order. *)
LEMMA ErasedList ==
  ASSUME TypeOK, NEW f \in PendingFrames
  PROVE  /\ Erase(f) \in Seq(RequestInfos) /\ Ordered(Erase(f))
         /\ Len(Erase(f)) = Len(mPendingRequestsList) - 1
         /\ Members(Erase(f)) = {i \in Pending : i.frame # f}
         /\ \A k \in 1 .. Len(Erase(f)) :
                Erase(f)[k] = mPendingRequestsList[IF k < Index(f) THEN k ELSE k + 1]
<1> DEFINE L == mPendingRequestsList
           x == Index(f)
           E == [k \in 1 .. Len(L) - 1 |-> L[IF k < x THEN k ELSE k + 1]]
<1>1. L \in Seq(RequestInfos) /\ Len(L) \in Nat /\ x \in 1 .. Len(L) /\ L[x].frame = f
  BY ListFacts, IndexFacts
<1>2. E = Erase(f)
  BY DEF Erase
<1>3. \A k \in 1 .. Len(L) - 1 : (IF k < x THEN k ELSE k + 1) \in 1 .. Len(L) \ {x}
  BY <1>1
<1>4. E \in [1 .. Len(L) - 1 -> RequestInfos]
  BY <1>1, <1>3
<1>5. E \in Seq(RequestInfos) /\ Len(E) = Len(L) - 1 /\ DOMAIN E = 1 .. Len(L) - 1
  BY <1>1, <1>4, SeqDef
<1>6. Ordered(E)
  <2> SUFFICES ASSUME NEW k \in DOMAIN E, NEW l \in DOMAIN E, k < l
               PROVE  E[k].frame < E[l].frame
    BY DEF Ordered
  <2> DEFINE at(j) == IF j < x THEN j ELSE j + 1
  <2>1. at(k) \in DOMAIN L /\ at(l) \in DOMAIN L /\ at(k) < at(l)
    BY <1>1, <1>5, LenProperties
  <2>2. E[k] = L[at(k)] /\ E[l] = L[at(l)]
    BY <1>5
  <2> QED BY <2>1, <2>2, ListFacts DEF Ordered
<1>7. Members(E) = {i \in Pending : i.frame # f}
  <2>1. ASSUME NEW k \in DOMAIN E
        PROVE  E[k] \in Pending /\ E[k].frame # f
    <3> DEFINE at == IF k < x THEN k ELSE k + 1
    <3>1. at \in DOMAIN L \ {x} /\ E[k] = L[at]
      BY <1>1, <1>5, LenProperties
    <3>2. L[at] \in Pending
      BY <3>1 DEF Pending
    <3>3. L[at].frame # f
      <4>1. at \in Nat /\ x \in Nat /\ f \in Nat /\ x \in DOMAIN L
        BY <1>1, <3>1, ListFacts DEF Frames
      <4>2. at < x \/ x < at
        BY <3>1, <4>1
      <4> QED BY <1>1, <3>1, <4>1, <4>2, ListFacts DEF Ordered
    <3> QED BY <3>1, <3>2, <3>3
  <2>2. ASSUME NEW i \in Pending, i.frame # f
        PROVE  \E k \in DOMAIN E : E[k] = i
    <3>1. PICK l \in 1 .. Len(L) : L[l] = i
      BY ListFacts DEF Pending
    <3>2. l # x
      BY <1>1, <2>2, <3>1
    <3>3. CASE l < x
      <4>1. l \in DOMAIN E
        BY <1>1, <1>5, <3>3
      <4> QED BY <1>5, <3>1, <3>3, <4>1
    <3>4. CASE l > x
      <4>1. l - 1 \in DOMAIN E /\ ~(l - 1 < x) /\ (l - 1) + 1 = l
        BY <1>1, <1>5, <3>4
      <4>2. E[l - 1] = L[l]
        BY <1>5, <4>1
      <4> QED BY <3>1, <4>1, <4>2
    <3> QED BY <1>1, <3>2, <3>3, <3>4
  <2> QED BY <2>1, <2>2 DEF Members
<1> HIDE DEF E
<1> QED BY <1>2, <1>5, <1>6, <1>7 DEF E

(* What follows the first k members of an ordered list. *)
LEMMA RestOfList ==
  ASSUME NEW L \in Seq(RequestInfos), Ordered(L), NEW k \in 0 .. Len(L),
         NEW r, r = SubSeq(L, k + 1, Len(L))
  PROVE  /\ r \in Seq(RequestInfos) /\ Ordered(r) /\ Len(r) = Len(L) - k
         /\ Members(r) = {L[j] : j \in k + 1 .. Len(L)}
<1>1. Len(L) \in Nat /\ DOMAIN L = 1 .. Len(L) /\ \A i \in k + 1 .. Len(L) : L[i] \in RequestInfos
  BY LenProperties, ElementOfSeq
<1>2. /\ r \in Seq(RequestInfos)
      /\ Len(r) = Len(L) - k
      /\ \A i \in 1 .. Len(L) - k : r[i] = L[k + i]
  <2>1. k + 1 \in Int /\ Len(L) \in Int
    BY <1>1
  <2>2. Len(r) = IF k + 1 <= Len(L) THEN Len(L) - (k + 1) + 1 ELSE 0
    BY <1>1, <2>1, SubSeqProperties
  <2>3. \A i \in 1 .. Len(L) - (k + 1) + 1 : r[i] = L[(k + 1) + i - 1]
    BY <1>1, <2>1, SubSeqProperties
  <2>4. r \in Seq(RequestInfos)
    BY <1>1, <2>1, SubSeqProperties
  <2>5. Len(r) = Len(L) - k
    <3>1. \A a \in Nat : \A b \in 0 .. a : (IF b + 1 <= a THEN a - (b + 1) + 1 ELSE 0) = a - b
      OBVIOUS
    <3>2. Len(L) \in Nat
      BY <1>1
    <3> QED BY ONLY <2>2, <3>1, <3>2, k \in 0 .. Len(L)
  <2>6. ASSUME NEW i \in 1 .. Len(L) - k PROVE r[i] = L[k + i]
    <3>1. i \in 1 .. Len(L) - (k + 1) + 1 /\ (k + 1) + i - 1 = k + i
      BY <1>1
    <3> QED BY <2>3, <3>1
  <2> QED BY <2>4, <2>5, <2>6
<1>3. DOMAIN r = 1 .. Len(L) - k
  BY <1>2, LenProperties
<1>4. Ordered(r)
  <2> SUFFICES ASSUME NEW i \in 1 .. Len(L) - k, NEW j \in 1 .. Len(L) - k, i < j
               PROVE  r[i].frame < r[j].frame
    BY <1>3 DEF Ordered
  <2>1. k + i \in DOMAIN L /\ k + j \in DOMAIN L /\ k + i < k + j
    BY <1>1
  <2> QED BY <1>2, <2>1 DEF Ordered
<1>5. Members(r) = {L[j] : j \in k + 1 .. Len(L)}
  <2>1. \A i \in 1 .. Len(L) - k : k + i \in k + 1 .. Len(L)
    BY <1>1
  <2>2. \A j \in k + 1 .. Len(L) : j - k \in 1 .. Len(L) - k /\ k + (j - k) = j
    BY <1>1
  <2>3. ASSUME NEW i \in DOMAIN r PROVE r[i] \in {L[j] : j \in k + 1 .. Len(L)}
    BY <1>2, <1>3, <2>1
  <2>4. ASSUME NEW j \in k + 1 .. Len(L) PROVE L[j] \in {r[i] : i \in DOMAIN r}
    <3>1. r[j - k] = L[k + (j - k)]
      BY <1>2, <2>2
    <3> QED BY <1>3, <2>2, <3>1
  <2> QED BY <2>3, <2>4 DEF Members
<1> QED BY <1>2, <1>4, <1>5

(* The first k members are the ones up to frame n: the rest is those after. *)
LEMMA SplitList ==
  ASSUME NEW L \in Seq(RequestInfos), Ordered(L), NEW k \in 0 .. Len(L), NEW n \in Nat,
         \A j \in 1 .. k : L[j].frame <= n,
         \A j \in k + 1 .. Len(L) : L[j].frame > n
  PROVE  /\ SubSeq(L, k + 1, Len(L)) \in Seq(RequestInfos)
         /\ Ordered(SubSeq(L, k + 1, Len(L)))
         /\ Len(SubSeq(L, k + 1, Len(L))) = Len(L) - k
         /\ Members(SubSeq(L, k + 1, Len(L))) = {i \in Members(L) : i.frame > n}
<1> DEFINE r == SubSeq(L, k + 1, Len(L))
<1>1. /\ r \in Seq(RequestInfos) /\ Ordered(r) /\ Len(r) = Len(L) - k
      /\ Members(r) = {L[j] : j \in k + 1 .. Len(L)}
  BY RestOfList
<1>2. Len(L) \in Nat /\ DOMAIN L = 1 .. Len(L) /\ \A j \in 1 .. Len(L) : L[j].frame \in Nat
  <2>1. \A j \in 1 .. Len(L) : L[j] \in RequestInfos
    BY ElementOfSeq
  <2> QED BY <2>1, LenProperties DEF RequestInfos, Frames
<1>3. \A j \in 1 .. Len(L) : L[j].frame > n => j \in k + 1 .. Len(L)
  BY <1>2
<1>4. k + 1 .. Len(L) \subseteq 1 .. Len(L)
  BY <1>2
<1>5. {L[j] : j \in k + 1 .. Len(L)} = {i \in Members(L) : i.frame > n}
  BY <1>2, <1>3, <1>4 DEF Members
<1> QED BY <1>1, <1>5

-----------------------------------------------------------------------------
(* The types that the steps below go by. *)
LEMMA Types ==
  ASSUME TypeOK
  PROVE  /\ Frames \subseteq Nat /\ next \in Nat
         /\ metaDue \subseteq Frames /\ reprocess \subseteq Frames /\ refused \subseteq Frames
         /\ mPendingReprocessResultList \subseteq Frames
         /\ imageDue \subseteq Buffers /\ handed \subseteq Buffers /\ told \subseteq Buffers
         /\ mPendingBuffersMap \subseteq Buffers /\ mPendingFrameDropList \subseteq Buffers
         /\ \A b \in Buffers : b[1] \in Frames /\ b[2] \in Streams /\ b = <<b[1], b[2]>>
         /\ \A f \in Frames, s \in Streams : <<f, s>> \in Buffers
         /\ shutters \in Seq(Frames) /\ \A k \in DOMAIN shutters : shutters[k] \in Frames
         /\ results \in [Buffers -> Seq({"ok", "error", "failed"})]
         /\ Blob \in Streams
<1>1. Frames \subseteq Nat
  BY DEF Frames
<1>2. next \in Nat
  BY BoundAssumption DEF TypeOK
<1>3. \A b \in Buffers : b[1] \in Frames /\ b[2] \in Streams /\ b = <<b[1], b[2]>>
  BY DEF Buffers
<1>4. \A f \in Frames, s \in Streams : <<f, s>> \in Buffers
  BY DEF Buffers
<1>5. shutters \in Seq(Frames) /\ \A k \in DOMAIN shutters : shutters[k] \in Frames
  <2>1. shutters \in Seq(Frames)
    BY DEF TypeOK
  <2> QED BY <2>1, LenProperties, ElementOfSeq
<1>6. Blob \in Streams
  BY StreamAssumption
<1> QED BY <1>1, <1>2, <1>3, <1>4, <1>5, <1>6, Zenon DEF TypeOK

(* Nothing is pending, due or out at first. *)
LEMMA InitIInv == Init => IInv
<1> SUFFICES ASSUME Init PROVE IInv OBVIOUS
<1> USE DEF Init
<1>1. Pending = {} /\ PendingFrames = {}
  BY DEF Pending, PendingFrames
<1>2. TypeOK
  <2>1. <<>> \in Seq(RequestInfos) /\ <<>> \in Seq(Frames) /\ <<>> \in Seq({"ok", "error", "failed"})
    OBVIOUS
  <2>2. results \in [Buffers -> Seq({"ok", "error", "failed"})]
    BY <2>1
  <2>3. \A k, l \in DOMAIN mPendingRequestsList :
            k < l => mPendingRequestsList[k].frame < mPendingRequestsList[l].frame
    OBVIOUS
  <2>4. 0 \in Int /\ 1 \in 1 .. MaxFrame + 1 /\ 0 \in 0 .. MaxTimeouts
    BY BoundAssumption
  <2>5. {} \subseteq Frames /\ {} \subseteq Buffers
    OBVIOUS
  <2> QED BY <2>1, <2>2, <2>3, <2>4, <2>5, Zenon DEF TypeOK
<1>3. Earlier /\ FlagsAgree /\ PendingHanded
  BY <1>1 DEF Earlier, FlagsAgree, PendingHanded
<1>4. BuffersOut /\ BuffersAccounted
  BY DEF BuffersOut, BuffersAccounted
<1>5. KeptOnce /\ EndInOrder /\ KeptAwaitsCapture
  BY <1>1 DEF KeptOnce, EndInOrder, KeptAwaitsCapture
<1>6. CountInv
  BY FS_EmptySet, InflightAssumption DEF CountInv, InFlight
<1>7. ShuttersInv /\ DroppedInv
  BY DEF ShuttersInv, ShuttersInOrder, DroppedInv
<1> QED BY <1>2, <1>3, <1>4, <1>5, <1>6, <1>7 DEF IInv

(* A step that leaves lists, answers and what was asked alone, and after    *)
(* which the channels owe no more than before, disturbs only flags, count   *)
(* and types.                                                               *)
LEMMA QuietStep ==
  ASSUME IInv, UNCHANGED <<lists, answers, next, handed, reprocess, refused>>,
         metaDue' \subseteq metaDue, imageDue' \subseteq imageDue
  PROVE  /\ Earlier' /\ PendingHanded' /\ BuffersOut' /\ BuffersAccounted' /\ KeptOnce'
         /\ EndInOrder' /\ KeptAwaitsCapture' /\ ShuttersInv' /\ DroppedInv'
<1> USE DEF IInv, lists, answers
<1>1. Pending' = Pending /\ PendingFrames' = PendingFrames
  BY DEF Pending, PendingFrames
<1>2. Earlier'
  BY <1>1 DEF Earlier
<1>3. PendingHanded'
  BY <1>1 DEF PendingHanded
<1>4. BuffersOut' /\ BuffersAccounted'
  BY DEF BuffersOut, BuffersAccounted
<1>5. KeptOnce' /\ KeptAwaitsCapture'
  BY <1>1 DEF KeptOnce, KeptAwaitsCapture
<1>6. EndInOrder'
  BY <1>1 DEF EndInOrder
<1>7. ShuttersInv' /\ DroppedInv'
  BY <1>1 DEF ShuttersInv, ShuttersInOrder, DroppedInv
<1> QED BY <1>2, <1>3, <1>4, <1>5, <1>6, <1>7

(* The count and the numbers it is compared with. *)
LEMMA CountTypes ==
  ASSUME IInv
  PROVE  /\ InFlight \in Int /\ mPendingRequest \in Int /\ timeouts \in Nat
         /\ MIN_INFLIGHT_REQUESTS \in Nat \ {0} /\ MAX_INFLIGHT_REQUESTS \in Nat
         /\ MIN_INFLIGHT_REQUESTS <= MAX_INFLIGHT_REQUESTS
         /\ Cardinality(refused) \in Nat /\ Len(mPendingRequestsList) \in Nat
<1>1. Cardinality(refused) \in Nat
  BY FS_CardinalityType DEF IInv, CountInv
<1>2. Len(mPendingRequestsList) \in Nat
  BY ListFacts DEF IInv
<1>3. mPendingRequest \in Int /\ timeouts \in Nat /\ mFirstRequest \in BOOLEAN
  BY BoundAssumption DEF IInv, TypeOK
<1> QED BY <1>1, <1>2, <1>3, InflightAssumption DEF InFlight

(* Neither a refused first request nor a wake-up lets too many through.     *)
LEMMA RefuseStep ==
  ASSUME IInv, Refuse PROVE IInv'
<1> USE DEF Refuse
<1>0. 0 \in Int
  OBVIOUS
<1>1. /\ Earlier' /\ PendingHanded' /\ BuffersOut' /\ BuffersAccounted' /\ KeptOnce'
      /\ EndInOrder' /\ KeptAwaitsCapture' /\ ShuttersInv' /\ DroppedInv'
  BY QuietStep DEF channels, asked
<1>2. TypeOK'
  BY <1>0, Zenon DEF IInv, TypeOK, lists, answers, channels, asked
<1>3. FlagsAgree'
  BY DEF IInv, FlagsAgree, channels
<1>4. CountInv'
  <2>1. InFlight' = InFlight
    BY DEF InFlight
  <2> QED BY <2>1 DEF IInv, CountInv, lists, asked
<1> QED BY <1>1, <1>2, <1>3, <1>4 DEF IInv

LEMMA WakeStep ==
  ASSUME IInv, Wake PROVE IInv'
<1> USE DEF Wake
<1>1. /\ Earlier' /\ PendingHanded' /\ BuffersOut' /\ BuffersAccounted' /\ KeptOnce'
      /\ EndInOrder' /\ KeptAwaitsCapture' /\ ShuttersInv' /\ DroppedInv'
  BY QuietStep DEF channels, asked
<1>2. TypeOK'
  BY DEF IInv, TypeOK, lists, answers, channels, asked
<1>3. FlagsAgree'
  BY DEF IInv, FlagsAgree, channels
<1>4. CountInv'
  <2>1. InFlight' = InFlight /\ InFlight \in {0, mPendingRequest}
    BY DEF InFlight
  <2>2. MayReturn => InFlight < MAX_INFLIGHT_REQUESTS + timeouts
    BY <2>1, CountTypes DEF MayReturn
  <2>3. client' = "idle" => MayReturn
    OBVIOUS
  <2> QED BY <2>1, <2>2, <2>3 DEF IInv, CountInv, lists, asked
<1> QED BY <1>1, <1>2, <1>3, <1>4 DEF IInv

LEMMA TimeoutStep ==
  ASSUME IInv, Timeout PROVE IInv'
<1> USE DEF Timeout
<1>1. /\ Earlier' /\ PendingHanded' /\ BuffersOut' /\ BuffersAccounted' /\ KeptOnce'
      /\ EndInOrder' /\ KeptAwaitsCapture' /\ ShuttersInv' /\ DroppedInv'
  BY QuietStep DEF channels
<1>2. TypeOK'
  BY BoundAssumption DEF IInv, TypeOK, lists, flags, answers, channels
<1>3. FlagsAgree'
  BY DEF IInv, FlagsAgree, channels, flags
<1>4. CountInv'
  <2>1. InFlight' = InFlight
    BY DEF InFlight, flags
  <2> QED BY <2>1, CountTypes DEF IInv, CountInv, lists, flags
<1> QED BY <1>1, <1>2, <1>3, <1>4 DEF IInv

(* A signal alone changes nothing that counts. *)
LEMMA SignalledStep ==
  ASSUME IInv, Signal, mWokenUpByDaemon' \in BOOLEAN,
         UNCHANGED <<lists, mPendingRequest, mFirstRequest, mFlush, flusher, channels, asked, answers>>
  PROVE  IInv'
<1>1. /\ Earlier' /\ PendingHanded' /\ BuffersOut' /\ BuffersAccounted' /\ KeptOnce'
      /\ EndInOrder' /\ KeptAwaitsCapture' /\ ShuttersInv' /\ DroppedInv'
  BY QuietStep DEF channels, asked
<1>2. TypeOK'
  BY DEF IInv, TypeOK, lists, answers, channels, asked, Signal
<1>3. FlagsAgree'
  BY DEF IInv, FlagsAgree, channels
<1>4. CountInv'
  <2>1. InFlight' = InFlight
    BY DEF InFlight
  <2> QED BY <2>1 DEF IInv, CountInv, lists, asked, Signal
<1> QED BY <1>1, <1>2, <1>3, <1>4 DEF IInv

(* flush stops the channels: they owe no more. *)
LEMMA StoppingStep ==
  ASSUME IInv, FlushBegin \/ StopStreams \/ StopMetadata
  PROVE  IInv'
<1> USE DEF FlushBegin, StopStreams, StopMetadata, flags
<1>1. /\ Earlier' /\ PendingHanded' /\ BuffersOut' /\ BuffersAccounted' /\ KeptOnce'
      /\ EndInOrder' /\ KeptAwaitsCapture' /\ ShuttersInv' /\ DroppedInv'
  BY QuietStep DEF channels, asked
<1>2. TypeOK'
  BY DEF IInv, TypeOK, lists, answers, channels, asked
<1>3. FlagsAgree'
  BY DEF IInv, FlagsAgree, channels
<1>4. CountInv'
  <2>1. InFlight' = InFlight
    BY DEF InFlight
  <2>2. ~mFlush' => ~mFlush
    BY DEF IInv, FlagsAgree, TypeOK
  <2> QED BY <2>1, <2>2 DEF IInv, CountInv, lists, asked
<1> QED BY <1>1, <1>2, <1>3, <1>4 DEF IInv

(* A request pushed at the end of the list. *)
LEMMA PushedList ==
  ASSUME IInv, next \in Frames, NEW S \in SUBSET Streams, NEW input \in BOOLEAN, Push(next, S, input)
  PROVE  /\ mPendingRequestsList' \in Seq(RequestInfos)
         /\ Ordered(mPendingRequestsList')
         /\ Len(mPendingRequestsList') = Len(mPendingRequestsList) + 1
         /\ Pending' = Pending \cup {RequestInfo(next, S, input)}
         /\ PendingFrames' = PendingFrames \cup {next}
         /\ next \notin PendingFrames
<1> DEFINE L == mPendingRequestsList
           r == RequestInfo(next, S, input)
<1>1. L \in Seq(RequestInfos) /\ Len(L) \in Nat /\ DOMAIN L = 1 .. Len(L) /\ Ordered(L)
  BY ListFacts DEF IInv
<1>2. r \in RequestInfos /\ r.frame = next
  BY DEF RequestInfo, RequestInfos
<1>3. L' = Append(L, r)
  BY DEF Push, Enqueued
<1> HIDE DEF r
<1>4. /\ L' \in Seq(RequestInfos) /\ Len(L') = Len(L) + 1 /\ DOMAIN L' = 1 .. Len(L) + 1
      /\ \A k \in 1 .. Len(L) : L'[k] = L[k]
      /\ L'[Len(L) + 1] = r
  BY <1>1, <1>2, <1>3
<1>5. \A k \in 1 .. Len(L) : L[k].frame < next /\ L[k].frame \in Nat
  BY <1>1, ListFacts DEF IInv, Earlier, Pending, RequestInfos, Frames
<1>6. Ordered(L')
  <2> SUFFICES ASSUME NEW k \in DOMAIN L', NEW l \in DOMAIN L', k < l
               PROVE  L'[k].frame < L'[l].frame
    BY DEF Ordered
  <2>1. k \in 1 .. Len(L) /\ (l \in 1 .. Len(L) \/ l = Len(L) + 1)
    BY <1>1, <1>4
  <2>2. CASE l \in 1 .. Len(L)
    BY <1>1, <1>4, <2>1, <2>2 DEF Ordered
  <2>3. CASE l = Len(L) + 1
    BY <1>2, <1>4, <1>5, <2>1, <2>3
  <2> QED BY <2>1, <2>2, <2>3
<1>7. Pending' = Pending \cup {r}
  BY <1>1, <1>4 DEF Pending
<1>8. PendingFrames' = PendingFrames \cup {next}
  BY <1>2, <1>7 DEF PendingFrames
<1>9. next \notin PendingFrames
  BY <1>1, <1>5 DEF PendingFrames, Pending
<1> QED BY <1>4, <1>6, <1>7, <1>8, <1>9 DEF r

(* A new request: its buffers are the map's, and due at most; its frame is  *)
(* later than all others.                                                   *)
LEMMA RequestStep ==
  ASSUME IInv, NEW S \in SUBSET Streams, NEW input \in BOOLEAN, input => S = {Blob},
         processCaptureRequest(S, input)
  PROVE  IInv'
<1> DEFINE r == RequestInfo(next, S, input)
           new == Outputs(next, S)
<1>0. /\ \A m \in metaDue : m \in Nat
      /\ \A f \in reprocess : f \in Nat
      /\ \A k \in DOMAIN shutters : shutters[k] \in Nat
      /\ \A f \in mPendingReprocessResultList : f \in Nat
  BY Types DEF IInv
<1>1. next \in Frames /\ next \in Nat /\ Push(next, S, input)
  BY DEF processCaptureRequest, Frames
<1>2. /\ mPendingRequestsList' \in Seq(RequestInfos) /\ Ordered(mPendingRequestsList')
      /\ Len(mPendingRequestsList') = Len(mPendingRequestsList) + 1
      /\ Pending' = Pending \cup {r}
      /\ PendingFrames' = PendingFrames \cup {next} /\ next \notin PendingFrames
  BY <1>1, PushedList
<1>3. /\ r.frame = next /\ r.streams = S /\ r.filled = {} /\ r.input = input
      /\ new \subseteq Buffers /\ \A b \in new : b[1] = next /\ b[2] \in S
      /\ input => new = {<<next, Blob>>}
  BY <1>1 DEF RequestInfo, Outputs, Buffers
<1>4. /\ mPendingBuffersMap' = mPendingBuffersMap \cup new /\ handed' = handed \cup new
      /\ next' = next + 1 /\ reprocess' = (IF input THEN reprocess \cup {next} ELSE reprocess)
      /\ UNCHANGED <<mPendingFrameDropList, mPendingReprocessResultList, mFlush, flusher, timeouts>>
      /\ UNCHANGED <<results, shutters, told>>
  BY DEF processCaptureRequest, Push, answers
<1>5. imageDue \subseteq imageDue' /\ imageDue' \subseteq imageDue \cup new
  BY DEF processCaptureRequest, RequestChannels, channels, Outputs
<1>6. metaDue' \subseteq metaDue \cup {next}
  BY DEF processCaptureRequest, RequestChannels, channels
<1>7. refused' = refused \/ (input /\ refused' = refused \cup {next} /\ UNCHANGED mFirstRequest /\ UNCHANGED client)
  BY DEF processCaptureRequest
<1>8. mFlush => imageDue' = imageDue /\ metaDue' = metaDue
  BY DEF processCaptureRequest, channels
<1>9. mFirstRequest' => /\ mFirstRequest
                        /\ imageDue' = imageDue /\ metaDue' = metaDue
  BY DEF processCaptureRequest, channels
<1>10. \A f \in PendingFrames : f \in Nat /\ f < next
  BY ListFacts DEF IInv, Earlier, PendingFrames, Frames
<1>11. \A b \in handed : b \in Buffers /\ b[1] \in Nat /\ b[1] < next
  BY DEF IInv, Earlier, TypeOK, Buffers, Frames
<1>12. \A b \in new : b \notin handed /\ results[b] = <<>>
  BY <1>3, <1>11, <1>1 DEF IInv, BuffersOut
<1> HIDE DEF r, new
<1>13. TypeOK'
  <2>1. next' \in 1 .. MaxFrame + 1
    BY <1>1, <1>4, BoundAssumption DEF Frames
  <2>2. mPendingRequest' \in Int
    BY CountTypes DEF processCaptureRequest
  <2>3. mFirstRequest' \in BOOLEAN /\ mWokenUpByDaemon' \in BOOLEAN /\ client' \in {"idle", "waiting", "signalled"}
    BY DEF processCaptureRequest, IInv, TypeOK
  <2>4. metaDue' \subseteq Frames /\ imageDue' \subseteq Buffers /\ refused' \subseteq Frames
    BY <1>1, <1>3, <1>5, <1>6, <1>7 DEF IInv, TypeOK
  <2>5. mPendingBuffersMap' \subseteq Buffers /\ handed' \subseteq Buffers /\ reprocess' \subseteq Frames
    BY <1>1, <1>3, <1>4 DEF IInv, TypeOK
  <2>6. \A k, l \in DOMAIN mPendingRequestsList' :
            k < l => mPendingRequestsList'[k].frame < mPendingRequestsList'[l].frame
    BY <1>2 DEF Ordered
  <2> QED BY <1>2, <1>4, <2>1, <2>2, <2>3, <2>4, <2>5, <2>6 DEF IInv, TypeOK
<1>14. Earlier'
  <2>1. ASSUME NEW i \in Pending' PROVE i.frame < next'
    <3>1. i.frame \in PendingFrames'
      BY <2>1 DEF PendingFrames
    <3>2. \A f \in PendingFrames' : f < next'
      BY <1>1, <1>2, <1>4, <1>10
    <3> QED BY <3>1, <3>2
  <2>2. \A m \in metaDue' : m < next'
    BY <1>1, <1>4, <1>6, <1>0 DEF IInv, Earlier
  <2>3. \A b \in handed' : b[1] < next'
    BY <1>1, <1>3, <1>4, <1>11
  <2>4. \A f \in reprocess' : f < next'
    BY <1>1, <1>4, <1>0 DEF IInv, Earlier
  <2>5. \A k \in DOMAIN shutters' : shutters'[k] < next'
    BY <1>1, <1>4, <1>0 DEF IInv, Earlier
  <2> QED BY <2>1, <2>2, <2>3, <2>4, <2>5 DEF Earlier
<1>15. FlagsAgree'
  BY <1>4, <1>8, <1>9 DEF IInv, FlagsAgree
<1>16. PendingHanded'
  <2>1. ASSUME NEW i \in Pending
        PROVE  /\ Outputs(i.frame, i.streams) \subseteq handed'
               /\ ~i.input => Outputs(i.frame, i.streams) \subseteq mPendingBuffersMap'
               /\ i.input <=> i.frame \in reprocess'
               /\ \A s \in i.filled : <<i.frame, s>> \in mPendingBuffersMap' \ imageDue' /\ ~i.input
    <3>1. i.frame \in PendingFrames /\ i.frame # next
      BY <1>2 DEF PendingFrames
    <3>2. \A s : <<i.frame, s>> \notin new
      BY <1>3, <3>1
    <3> QED BY <1>4, <1>5, <3>1, <3>2 DEF IInv, PendingHanded
  <2>2. /\ Outputs(r.frame, r.streams) \subseteq handed'
        /\ Outputs(r.frame, r.streams) \subseteq mPendingBuffersMap'
        /\ r.input <=> r.frame \in reprocess'
        /\ r.filled = {}
    <3>1. next \notin reprocess
      BY <1>1 DEF IInv, Earlier
    <3> QED BY <1>3, <1>4, <3>1 DEF new
  <2> QED BY <1>2, <2>1, <2>2 DEF PendingHanded
<1>17. BuffersOut'
  <2>1. ASSUME NEW b \in handed', b[1] \in reprocess' PROVE b[2] = Blob
    <3>1. CASE b \in new
      <4>1. b[1] = next /\ next \notin reprocess
        BY <1>0, <1>1, <1>3, <3>1 DEF IInv, Earlier
      <4> QED BY <1>3, <1>4, <2>1, <3>1, <4>1
    <3>2. CASE b \in handed
      <4>1. b[1] \in reprocess
        BY <1>1, <1>4, <1>11, <2>1, <3>2
      <4> QED BY <3>2, <4>1 DEF IInv, BuffersOut
    <3> QED BY <1>4, <2>1, <3>1, <3>2
  <2>2. refused' \subseteq reprocess'
    BY <1>4, <1>7 DEF IInv, BuffersOut
  <2> QED BY <1>4, <1>5, <1>12, <2>1, <2>2 DEF IInv, BuffersOut
<1>18. BuffersAccounted'
  <2> SUFFICES ASSUME NEW b \in Buffers
               PROVE  /\ Len(results[b]) <= 1
                      /\ b[1] \notin reprocess' =>
                            (b \in mPendingBuffersMap' <=> b \in handed' /\ results[b] = <<>>)
    BY <1>4 DEF BuffersAccounted
  <2> QED BY <1>4, <1>12 DEF IInv, BuffersAccounted
<1>19. KeptOnce'
  <2> SUFFICES ASSUME NEW f \in mPendingReprocessResultList
               PROVE  /\ f \in reprocess' /\ <<f, Blob>> \in handed'
                      /\ <<f, Blob>> \notin mPendingBuffersMap'
                      /\ f \in PendingFrames' => results[<<f, Blob>>] = <<>>
                      /\ f \notin PendingFrames' => \A m \in metaDue' : m > f
    BY <1>4 DEF KeptOnce
  <2>1. f \in reprocess /\ f \in Nat /\ f < next
    BY <1>0 DEF IInv, KeptOnce, Earlier
  <2>2. <<f, Blob>> \notin new
    BY <1>3, <1>1, <2>1
  <2> QED BY <1>1, <1>2, <1>4, <1>6, <2>1, <2>2 DEF IInv, KeptOnce
<1>20. EndInOrder'
  <2>1. ASSUME NEW f \in 1 .. next' - 1, f \notin reprocess', f \notin PendingFrames', NEW p \in PendingFrames'
        PROVE  f < p
    <3>1. f \in 1 .. next - 1 /\ f \notin reprocess /\ f \notin PendingFrames
      BY <1>1, <1>2, <1>4, <2>1
    <3> QED BY <1>1, <1>2, <2>1, <3>1 DEF IInv, EndInOrder
  <2>2. ASSUME NEW b \in mPendingBuffersMap', b[1] \notin PendingFrames', NEW p \in PendingFrames'
        PROVE  b[1] < p
    <3>1. b \in mPendingBuffersMap /\ b[1] \notin PendingFrames /\ b \in handed
      BY <1>2, <1>3, <1>4, <2>2 DEF IInv, BuffersOut
    <3> QED BY <1>2, <1>11, <2>2, <3>1 DEF IInv, EndInOrder
  <2> QED BY <2>1, <2>2 DEF EndInOrder
<1>21. KeptAwaitsCapture'
  <2>1. \A f \in mPendingReprocessResultList : f \in Nat /\ f < next
    BY <1>0 DEF IInv, KeptOnce, Earlier
  <2> QED BY <1>1, <1>2, <1>4, <2>1 DEF IInv, KeptAwaitsCapture
<1>22. CountInv'
  <2>1. IsFiniteSet(refused')
    BY <1>7, FS_AddElement DEF IInv, CountInv
  <2>2. CASE mFlush
    <3>1. InFlight' = InFlight /\ mFlush' /\ client' = client /\ timeouts' = timeouts
      BY <1>4, <2>2 DEF processCaptureRequest, InFlight
    <3> QED BY <2>1, <3>1 DEF IInv, CountInv
  <2>3. CASE ~mFlush /\ refused' = refused \cup {next}
    <3>1. next \notin refused
      BY <1>1 DEF IInv, Earlier, BuffersOut
    <3>2. Cardinality(refused') = Cardinality(refused) + 1
      BY <2>3, <3>1, FS_AddElement DEF IInv, CountInv
    <3>3. InFlight' = InFlight /\ client' = client /\ timeouts' = timeouts
      BY <1>4, <2>3, <3>1 DEF processCaptureRequest, InFlight
    <3> QED BY <1>2, <1>4, <2>1, <2>3, <3>2, <3>3, CountTypes DEF IInv, CountInv
  <2>4. CASE ~mFlush /\ refused' = refused
    <3>1. next \notin refused
      BY <1>1 DEF IInv, Earlier, BuffersOut
    <3>2. InFlight' = InFlight + 1 /\ timeouts' = timeouts
      BY <1>4, <2>4, <3>1 DEF processCaptureRequest, InFlight
    <3>3. client = "idle" /\ (client' = "idle" => InFlight + 1 < MIN_INFLIGHT_REQUESTS)
      BY <2>4, <3>1, CountTypes DEF processCaptureRequest
    <3>4. InFlight < MAX_INFLIGHT_REQUESTS + timeouts
      BY <3>3 DEF IInv, CountInv
    <3> QED BY SMTT(30), <1>2, <1>4, <2>1, <2>4, <3>2, <3>3, <3>4, CountTypes DEF IInv, CountInv
  <2> QED BY <1>7, <2>2, <2>3, <2>4
<1>23. ShuttersInv'
  <2>1. \A k \in DOMAIN shutters : shutters[k] \in Nat /\ shutters[k] < next
    BY <1>0 DEF IInv, Earlier
  <2>2. ASSUME NEW k \in DOMAIN shutters, NEW l \in DOMAIN shutters, k < l
        PROVE  /\ shutters[k] # shutters[l]
               /\ {shutters[k], shutters[l]} \cap reprocess' = {} => shutters[k] < shutters[l]
    BY <1>4, <2>2 DEF IInv, ShuttersInv, ShuttersInOrder
  <2> QED BY <1>1, <1>2, <1>4, <2>1, <2>2 DEF IInv, ShuttersInv, ShuttersInOrder
<1>24. DroppedInv'
  <2>1. \A b \in told : b \in handed
    BY DEF IInv, DroppedInv
  <2> QED BY <1>1, <1>2, <1>4, <1>11, <2>1 DEF IInv, DroppedInv
<1> QED BY <1>13, <1>14, <1>15, <1>16, <1>17, <1>18, <1>19, <1>20, <1>21, <1>22, <1>23, <1>24 DEF IInv

(* What metadata leaves of the list: the requests after its frame, without  *)
(* the one whose kept result it releases.                                   *)
LEMMA EndedList ==
  ASSUME TypeOK, NEW n \in Frames, NEW k \in 0 .. Len(mPendingRequestsList), EndsFirst(k, n),
         NEW D \in SUBSET Streams, EndRequests(k, n, D)
  PROVE  /\ First(k) = {i \in Pending : i.frame <= n}
         /\ mPendingRequestsList' \in Seq(RequestInfos) /\ Ordered(mPendingRequestsList')
         /\ Len(mPendingRequestsList') =
                Len(mPendingRequestsList) - k - (IF Released(k, n) \cap PendingFrames = {} THEN 0 ELSE 1)
         /\ Pending' = {i \in Pending : i.frame > n /\ i.frame \notin Released(k, n)}
<1> DEFINE L == mPendingRequestsList
           released == Released(k, n) \cap PendingFrames
<1>1. /\ L \in Seq(RequestInfos) /\ Ordered(L) /\ Len(L) \in Nat /\ DOMAIN L = 1 .. Len(L)
      /\ Pending = Members(L) /\ n \in Nat
  BY ListFacts DEF Frames
<1>2. \A j \in 1 .. Len(L) : L[j].frame \in Nat
  <2>1. \A j \in 1 .. Len(L) : L[j] \in RequestInfos
    BY <1>1, ElementOfSeq
  <2> QED BY <2>1 DEF RequestInfos, Frames
<1>3. \A j \in 1 .. k : L[j].frame <= n
  BY DEF EndsFirst
<1>4. \A j \in k + 1 .. Len(L) : L[j].frame > n
  <2> SUFFICES ASSUME NEW j \in k + 1 .. Len(L) PROVE L[j].frame > n
    OBVIOUS
  <2>1. k + 1 \in DOMAIN L /\ j \in DOMAIN L /\ (k + 1 < j \/ j = k + 1) /\ k < Len(L)
    BY <1>1
  <2>2. L[k + 1].frame > n
    BY <2>1 DEF EndsFirst
  <2> QED BY <1>1, <1>2, <2>1, <2>2 DEF Ordered
<1>5. First(k) = {i \in Pending : i.frame <= n}
  <2>1. 1 .. k \subseteq DOMAIN L
    BY <1>1
  <2>2. \A j \in DOMAIN L : L[j].frame <= n => j \in 1 .. k
    BY <1>1, <1>2, <1>4
  <2> QED BY <1>1, <1>3, <2>1, <2>2 DEF First, Members
<1>6. CASE released = {}
  <2>1. L' = SubSeq(L, k + 1, Len(L))
    BY <1>6 DEF EndRequests
  <2>2. /\ L' \in Seq(RequestInfos) /\ Ordered(L') /\ Len(L') = Len(L) - k
        /\ Members(L') = {i \in Members(L) : i.frame > n}
    <3> DEFINE r == SubSeq(L, k + 1, Len(L))
    <3>1. /\ r \in Seq(RequestInfos) /\ Ordered(r) /\ Len(r) = Len(L) - k
          /\ Members(r) = {i \in Members(L) : i.frame > n}
      BY <1>1, <1>3, <1>4, SplitList
    <3> QED BY <2>1, <3>1
  <2>3. Pending' = Members(L')
    BY DEF Pending, Members
  <2>4. \A i \in Pending : i.frame \notin Released(k, n)
    BY <1>6 DEF PendingFrames
  <2>5. Pending' = {i \in Pending : i.frame > n /\ i.frame \notin Released(k, n)}
    BY <1>1, <2>2, <2>3, <2>4
  <2>6. Len(L) - k - 0 = Len(L) - k
    BY <1>1
  <2> QED BY <1>5, <1>6, <2>2, <2>5, <2>6
<1>7. CASE released # {}
  <2> DEFINE E == Erase(n + 1)
  <2>1. n + 1 \in PendingFrames /\ Released(k, n) = {n + 1}
    BY <1>7 DEF Released
  <2>2. L' = SubSeq(E, k + 1, Len(E))
    BY <1>7 DEF EndRequests
  <2>3. /\ E \in Seq(RequestInfos) /\ Ordered(E) /\ Len(E) = Len(L) - 1
        /\ Members(E) = {i \in Pending : i.frame # n + 1}
        /\ \A j \in 1 .. Len(E) : E[j] = L[IF j < Index(n + 1) THEN j ELSE j + 1]
    BY <2>1, ErasedList
  <2>4. Index(n + 1) \in k + 1 .. Len(L)
    <3>1. Index(n + 1) \in 1 .. Len(L) /\ L[Index(n + 1)].frame = n + 1
      BY <2>1, IndexFacts
    <3>2. Index(n + 1) \notin 1 .. k
      BY <1>1, <1>3, <3>1
    <3> QED BY <1>1, <3>1, <3>2
  <2>5. k \in 0 .. Len(E)
    BY <1>1, <2>3, <2>4
  <2>6. \A j \in 1 .. k : E[j].frame <= n
    <3>1. \A j \in 1 .. k : j \in 1 .. Len(E) /\ j < Index(n + 1)
      BY <1>1, <2>3, <2>4
    <3> QED BY <1>3, <2>3, <3>1
  <2>7. \A j \in k + 1 .. Len(E) : E[j].frame > n
    <3>1. \A j \in k + 1 .. Len(E) :
            j \in 1 .. Len(E) /\ (IF j < Index(n + 1) THEN j ELSE j + 1) \in k + 1 .. Len(L)
      BY <1>1, <2>3, <2>4
    <3> QED BY <1>4, <2>3, <3>1
  <2> HIDE DEF E
  <2>8. /\ L' \in Seq(RequestInfos) /\ Ordered(L') /\ Len(L') = Len(E) - k
        /\ Members(L') = {i \in Members(E) : i.frame > n}
    <3> DEFINE r == SubSeq(E, k + 1, Len(E))
    <3>1. /\ r \in Seq(RequestInfos) /\ Ordered(r) /\ Len(r) = Len(E) - k
          /\ Members(r) = {i \in Members(E) : i.frame > n}
      <4>1. E \in Seq(RequestInfos) /\ Ordered(E) /\ n \in Nat
        BY <1>1, <2>3
      <4> HIDE DEF r
      <4> QED BY <2>5, <2>6, <2>7, <4>1, SplitList DEF r
    <3> QED BY <2>2, <3>1
  <2>9. Pending' = {i \in Pending : i.frame > n /\ i.frame \notin Released(k, n)}
    <3>1. Pending' = Members(L')
      BY DEF Pending, Members
    <3> QED BY <2>1, <2>3, <2>8, <3>1
  <2>10. (Len(L) - 1) - k = Len(L) - k - 1
    BY <1>1
  <2> QED BY <1>5, <1>7, <2>3, <2>8, <2>9, <2>10
<1> QED BY <1>6, <1>7

(* Notifications of pending frames, after all that were sent.               *)
LEMMA MoreShutters ==
  ASSUME ShuttersInOrder, shutters \in Seq(Frames), NEW t \in Seq(Frames), reprocess \subseteq Frames,
         \A k \in DOMAIN shutters, l \in DOMAIN t :
            /\ shutters[k] # t[l]
            /\ shutters[k] \notin reprocess /\ t[l] \notin reprocess => shutters[k] < t[l],
         \A k, l \in DOMAIN t :
            k < l => /\ t[k] # t[l]
                     /\ t[k] \notin reprocess /\ t[l] \notin reprocess => t[k] < t[l],
         shutters' = shutters \o t, reprocess' = reprocess
  PROVE  /\ shutters' \in Seq(Frames) /\ ShuttersInOrder'
         /\ \A k \in DOMAIN shutters' :
                (\E l \in DOMAIN shutters : shutters'[k] = shutters[l]) \/ \E l \in DOMAIN t : shutters'[k] = t[l]
<1> DEFINE s == shutters
           u == s \o t
<1>1. /\ DOMAIN s = 1 .. Len(s) /\ Len(s) \in Nat /\ DOMAIN t = 1 .. Len(t) /\ Len(t) \in Nat
      /\ u \in Seq(Frames) /\ DOMAIN u = 1 .. Len(s) + Len(t)
      /\ \A k \in 1 .. Len(s) : u[k] = s[k]
      /\ \A k \in Len(s) + 1 .. Len(s) + Len(t) : u[k] = t[k - Len(s)]
  <2>1. /\ DOMAIN s = 1 .. Len(s) /\ Len(s) \in Nat /\ DOMAIN t = 1 .. Len(t) /\ Len(t) \in Nat
    BY LenProperties
  <2>2. u \in Seq(Frames) /\ Len(u) = Len(s) + Len(t)
    BY ConcatProperties
  <2>3. \A k \in 1 .. Len(s) + Len(t) : u[k] = IF k <= Len(s) THEN s[k] ELSE t[k - Len(s)]
    BY ConcatProperties
  <2>4. \A k \in 1 .. Len(s) : u[k] = s[k]
    BY <2>1, <2>3
  <2>5. \A k \in Len(s) + 1 .. Len(s) + Len(t) : u[k] = t[k - Len(s)]
    BY <2>1, <2>3
  <2>6. DOMAIN u = 1 .. Len(s) + Len(t)
    BY <2>2, LenProperties
  <2> QED BY <2>1, <2>2, <2>4, <2>5, <2>6
<1> HIDE DEF u
<1>2. \A k \in DOMAIN u : \/ k \in DOMAIN s /\ u[k] = s[k]
                          \/ k > Len(s) /\ k - Len(s) \in DOMAIN t /\ u[k] = t[k - Len(s)]
  BY <1>1
<1>3. ASSUME NEW k \in DOMAIN u, NEW l \in DOMAIN u, k < l
      PROVE  u[k] # u[l] /\ ({u[k], u[l]} \cap reprocess = {} => u[k] < u[l])
  <2>1. CASE k \in DOMAIN s /\ l \in DOMAIN s
    <3>1. s[k] # s[l] /\ ({s[k], s[l]} \cap reprocess = {} => s[k] < s[l])
      BY <1>3, <2>1 DEF ShuttersInOrder
    <3>2. u[k] = s[k] /\ u[l] = s[l]
      BY <1>1, <2>1
    <3> QED BY <3>1, <3>2
  <2>2. CASE k \in DOMAIN s /\ l > Len(s)
    <3> DEFINE h == l - Len(s)
    <3>1. u[k] = s[k] /\ h \in DOMAIN t /\ u[l] = t[h]
      BY <1>1, <1>2, <2>2
    <3> HIDE DEF h
    <3>2. s[k] # t[h] /\ (s[k] \notin reprocess /\ t[h] \notin reprocess => s[k] < t[h])
      BY <2>2, <3>1
    <3> QED BY <3>1, <3>2
  <2>3. CASE k > Len(s)
    <3>1. l > Len(s) /\ k - Len(s) < l - Len(s)
      BY <1>1, <1>3, <2>3
    <3>2. /\ k - Len(s) \in DOMAIN t /\ u[k] = t[k - Len(s)]
          /\ l - Len(s) \in DOMAIN t /\ u[l] = t[l - Len(s)]
      BY <1>1, <1>2, <2>3, <3>1
    <3> QED BY <3>1, <3>2
  <2> QED BY <1>1, <1>2, <2>1, <2>2, <2>3
<1>4. shutters' = u
  BY DEF u
<1>5. ShuttersInOrder'
  BY <1>3, <1>4 DEF ShuttersInOrder
<1> QED BY <1>1, <1>2, <1>4, <1>5

(* The notifications that metadata sends: of the requests it ends, each     *)
(* once and in order, and of the reprocess result it releases.              *)
LEMMA SentShutters ==
  ASSUME TypeOK, NEW n \in Frames, NEW k \in 0 .. Len(mPendingRequestsList), EndsFirst(k, n),
         Released(k, n) \subseteq PendingFrames, Released(k, n) \subseteq reprocess
  PROVE  /\ Shutters(k, n) \in Seq(Frames)
         /\ \A j \in DOMAIN Shutters(k, n) :
                /\ Shutters(k, n)[j] \in PendingFrames
                /\ Shutters(k, n)[j] <= n \/ Shutters(k, n)[j] \in Released(k, n)
         /\ \A j, l \in DOMAIN Shutters(k, n) :
                j < l => /\ Shutters(k, n)[j] # Shutters(k, n)[l]
                         /\ Shutters(k, n)[j] \notin reprocess /\ Shutters(k, n)[l] \notin reprocess
                                => Shutters(k, n)[j] < Shutters(k, n)[l]
<1> DEFINE L == mPendingRequestsList
           F == [j \in 1 .. k |-> L[j].frame]
           t == Shutters(k, n)
<1>1. /\ L \in Seq(RequestInfos) /\ Len(L) \in Nat /\ DOMAIN L = 1 .. Len(L) /\ Ordered(L) /\ k \in Nat
      /\ n \in Nat
  BY ListFacts DEF Frames
<1>2. \A j \in 1 .. k : j \in DOMAIN L /\ L[j].frame \in PendingFrames /\ L[j].frame \in Frames
  BY <1>1, ListFacts DEF PendingFrames, Pending
<1>3. \A j \in 1 .. k : L[j].frame <= n
  BY DEF EndsFirst
<1>4. \A j, l \in 1 .. k : j < l => L[j].frame < L[l].frame
  BY <1>1, <1>2 DEF Ordered
<1>5. \A j, l \in 1 .. k : j < l => L[j].frame # L[l].frame
  BY <1>2, <1>4, Types
<1>6. CASE Released(k, n) = {}
  <2>1. t = F /\ DOMAIN F = 1 .. k /\ \A j \in 1 .. k : F[j] = L[j].frame
    BY <1>6 DEF Shutters
  <2>2. F \in Seq(Frames)
    BY <1>1, <1>2, SeqDef
  <2> HIDE DEF t, F
  <2> QED BY <1>2, <1>3, <1>4, <1>5, <2>1, <2>2 DEF t
<1>7. CASE Released(k, n) # {}
  <2>1. Released(k, n) = {n + 1} /\ k > 0 /\ n + 1 \in PendingFrames /\ n + 1 \in reprocess
    BY <1>7 DEF Released
  <2>2. t = <<F[1], n + 1>> \o Tail(F)
    BY <1>7 DEF Shutters
  <2>3. F \in Seq(Frames) /\ Len(F) = k /\ DOMAIN F = 1 .. k /\ \A j \in 1 .. k : F[j] = L[j].frame
    BY <1>1, <1>2, SeqDef
  <2>4. n + 1 \in Frames /\ F[1] \in Frames
    BY <1>1, <2>1, <1>2, <2>3, ListFacts
  <2> HIDE DEF F, t
  <2>5. /\ Tail(F) \in Seq(Frames) /\ Len(Tail(F)) = k - 1
        /\ \A j \in 1 .. k - 1 : Tail(F)[j] = F[j + 1]
    BY <1>1, <2>1, <2>3
  <2>6. /\ t \in Seq(Frames) /\ DOMAIN t = 1 .. k + 1
        /\ t[1] = F[1] /\ t[2] = n + 1
        /\ \A j \in 3 .. k + 1 : t[j] = F[j - 1]
    <3>1. <<F[1], n + 1>> \in Seq(Frames) /\ Len(<<F[1], n + 1>>) = 2
      BY <2>4
    <3>2. t \in Seq(Frames) /\ Len(t) = 2 + (k - 1)
      BY <2>2, <2>5, <3>1, ConcatProperties
    <3>3. \A j \in 1 .. 2 + (k - 1) : t[j] = IF j <= 2 THEN <<F[1], n + 1>>[j] ELSE Tail(F)[j - 2]
      BY <2>2, <2>5, <3>1, ConcatProperties
    <3>4. DOMAIN t = 1 .. k + 1
      BY <1>1, <3>2, LenProperties
    <3>5. t[1] = F[1] /\ t[2] = n + 1
      BY <1>1, <2>1, <3>3
    <3>6. ASSUME NEW j \in 3 .. k + 1 PROVE t[j] = F[j - 1]
      <4>1. j \in 1 .. 2 + (k - 1) /\ ~(j <= 2) /\ j - 2 \in 1 .. k - 1 /\ (j - 2) + 1 = j - 1
        BY <1>1, <2>1
      <4> QED BY <2>5, <3>3, <4>1
    <3> QED BY <3>2, <3>4, <3>5, <3>6
  <2>7. \A j \in DOMAIN t : \/ j = 1 /\ t[j] = L[1].frame
                            \/ j = 2 /\ t[j] = n + 1
                            \/ j > 2 /\ j - 1 \in 2 .. k /\ t[j] = L[j - 1].frame
    BY <1>1, <2>1, <2>3, <2>6
  <2>8. \A j \in DOMAIN t : /\ t[j] \in PendingFrames
                            /\ t[j] <= n \/ t[j] \in Released(k, n)
    BY <1>1, <1>2, <1>3, <2>1, <2>7
  <2>9. ASSUME NEW j \in DOMAIN t, NEW l \in DOMAIN t, j < l
        PROVE  t[j] # t[l] /\ (t[j] \notin reprocess /\ t[l] \notin reprocess => t[j] < t[l])
    <3>1. CASE j = 2 \/ l = 2
      <4>1. \A i \in 1 .. k : L[i].frame \in Nat /\ L[i].frame # n + 1
        BY <1>1, <1>2, <1>3, Types
      <4>2. \A i \in DOMAIN t : i # 2 => t[i] # n + 1
        BY <1>1, <2>1, <2>7, <4>1
      <4>3. j # l
        BY <1>1, <2>6, <2>9
      <4> QED BY <2>1, <2>6, <2>9, <3>1, <4>2, <4>3
    <3>2. CASE j # 2 /\ l # 2
      <4>1. PICK i \in 1 .. k : t[j] = L[i].frame /\ i = IF j = 1 THEN 1 ELSE j - 1
        BY <1>1, <2>1, <2>7, <3>2
      <4>2. PICK h \in 1 .. k : t[l] = L[h].frame /\ h = IF l = 1 THEN 1 ELSE l - 1
        BY <1>1, <2>1, <2>7, <3>2
      <4>3. i < h
        BY <1>1, <2>6, <2>9, <3>2, <4>1, <4>2
      <4> QED BY <1>4, <1>5, <4>1, <4>2, <4>3
    <3> QED BY <3>1, <3>2
  <2> QED BY <2>6, <2>8, <2>9 DEF t
<1> QED BY <1>6, <1>7

(* Metadata ends what is pending up to its frame and sends what these       *)
(* requests had filled, then the result kept for the frame after it.        *)
LEMMA MetadataStep ==
  ASSUME IInv, NEW n \in Frames, NEW D \in SUBSET Streams, handleMetadataWithLock(n, D)
  PROVE  IInv'
<1>1. PICK k \in 0 .. Len(mPendingRequestsList) : EndsFirst(k, n) /\ EndRequests(k, n, D)
  BY DEF handleMetadataWithLock
<1> DEFINE A == Filled(k)
           rel == Released(k, n)
           R == rel \X {Blob}
           told1 == DropReported(k, D)
<1>2. /\ n \in metaDue /\ metaDue' = {m \in metaDue : m > n}
      /\ Signal
      /\ UNCHANGED <<mFirstRequest, mFlush, mWokenUpByDaemon, flusher, imageDue>>
      /\ UNCHANGED <<next, handed, reprocess, refused, timeouts>>
  BY DEF handleMetadataWithLock, asked
<1>3. /\ Frames \subseteq Nat /\ n \in Nat /\ k \in Nat
      /\ PendingFrames \subseteq Nat /\ Pending \subseteq RequestInfos
      /\ \A i \in Pending : i.frame \in PendingFrames
      /\ \A f \in PendingFrames : f < next
  BY Types, ListFacts DEF IInv, PendingFrames, Earlier
<1>4. rel \subseteq PendingFrames /\ rel \subseteq reprocess
      /\ \A f \in rel : f = n + 1 /\ f \in mPendingReprocessResultList
  <2> SUFFICES ASSUME NEW f \in rel
               PROVE  f \in PendingFrames /\ f \in reprocess /\ f = n + 1 /\ f \in mPendingReprocessResultList
    OBVIOUS
  <2>1. f = n + 1 /\ f \in mPendingReprocessResultList
    BY DEF Released
  <2>2. f \in reprocess /\ (f \notin PendingFrames => n > f)
    BY <1>2, <2>1 DEF IInv, KeptOnce
  <2>3. ~(n > f)
    BY <1>3, <2>1
  <2> QED BY <2>1, <2>2, <2>3
<1>5. \A i \in Pending : i.frame = n + 1 => n + 1 \in PendingFrames
  BY <1>3
<1>6. /\ First(k) = {i \in Pending : i.frame <= n}
      /\ mPendingRequestsList' \in Seq(RequestInfos) /\ Ordered(mPendingRequestsList')
      /\ Len(mPendingRequestsList') = Len(mPendingRequestsList) - k - (IF rel = {} THEN 0 ELSE 1)
      /\ Pending' = {i \in Pending : i.frame > n /\ i.frame \notin rel}
  <2>1. rel \cap PendingFrames = rel
    BY <1>4
  <2> QED BY <1>1, <2>1, EndedList DEF IInv
<1>7. PendingFrames' = {f \in PendingFrames : f > n /\ f \notin rel}
  BY <1>6 DEF PendingFrames
<1>7a. /\ \A f \in PendingFrames : f <= n => f \notin PendingFrames'
       /\ \A f \in rel : f \notin PendingFrames'
  <2> SUFFICES ASSUME NEW f \in PendingFrames, f <= n PROVE ~(f > n)
    BY <1>7
  <2> QED BY <1>3
<1>8. ASSUME NEW b \in A
      PROVE  /\ b \in mPendingBuffersMap /\ b \notin imageDue /\ b \in handed /\ b \in Buffers
             /\ results[b] = <<>> /\ b[1] <= n /\ b[1] \in PendingFrames /\ b[1] \notin reprocess
  <2>1. PICK i \in First(k) : b \in Outputs(i.frame, i.filled)
    BY <1>8 DEF Filled
  <2>2. PICK s \in i.filled : b = <<i.frame, s>>
    BY <2>1 DEF Outputs
  <2>3. i \in Pending /\ i.frame <= n
    BY <1>6
  <2>4. b \in mPendingBuffersMap /\ b \notin imageDue /\ i.frame \notin reprocess
    BY <2>2, <2>3 DEF IInv, PendingHanded
  <2>5. b \in Buffers /\ b \in handed /\ results[b] = <<>>
    BY <2>4, Types DEF IInv, BuffersOut
  <2> QED BY <1>3, <2>2, <2>3, <2>4, <2>5
<1>9. ASSUME NEW b \in R
      PROVE  /\ b = <<n + 1, Blob>> /\ n + 1 \in rel /\ b \in Buffers /\ b \in handed
             /\ results[b] = <<>> /\ b \notin mPendingBuffersMap /\ b[1] = n + 1 /\ b[2] = Blob
             /\ n + 1 \in PendingFrames /\ n + 1 \in reprocess
  <2>1. b = <<n + 1, Blob>> /\ n + 1 \in rel
    BY <1>4
  <2>2. n + 1 \in mPendingReprocessResultList
    BY <1>4, <2>1
  <2>3. b \in handed /\ results[b] = <<>> /\ b \notin mPendingBuffersMap
    BY <1>4, <2>1, <2>2 DEF IInv, KeptOnce
  <2> QED BY <1>4, <2>1, <2>3, Types DEF IInv
<1>10. /\ mPendingRequest' = mPendingRequest - k - (IF rel = {} THEN 0 ELSE 1)
       /\ mPendingReprocessResultList' = mPendingReprocessResultList \ rel
       /\ mPendingFrameDropList' = (mPendingFrameDropList \cup DropReported(k, D)) \ {b \in A : b[1] = n}
       /\ mPendingBuffersMap' = mPendingBuffersMap \ A
       /\ told' = told \cup told1
       /\ shutters' = shutters \o Shutters(k, n)
  <2>1. rel \cap PendingFrames = rel
    BY <1>4
  <2> QED BY <1>1, <2>1 DEF EndRequests
<1>11. results' = [b \in Buffers |-> IF b \in A \cup R THEN Append(results[b], StatusAt(b, n, D)) ELSE results[b]]
  <2>1. rel \cap PendingFrames = rel
    BY <1>4
  <2> QED BY <1>1, <2>1 DEF EndRequests, Answer
<1>12. \A b : StatusAt(b, n, D) \in {"ok", "error"}
  BY DEF StatusAt
<1>13. /\ \A b \in Buffers : b \notin A \cup R => results'[b] = results[b]
       /\ \A b \in A \cup R : results'[b] = <<StatusAt(b, n, D)>>
  <2>1. \A b \in Buffers : b \notin A \cup R => results'[b] = results[b]
    BY <1>11
  <2>2. ASSUME NEW b \in A \cup R PROVE results'[b] = <<StatusAt(b, n, D)>>
    <3>1. b \in Buffers /\ results[b] = <<>>
      BY <1>8, <1>9
    <3>2. results'[b] = Append(<<>>, StatusAt(b, n, D))
      BY <1>11, <3>1
    <3> QED BY <3>2
  <2> QED BY <2>1, <2>2
<1>14. ASSUME NEW b \in DropReported(k, D)
       PROVE  /\ b \in handed /\ b \in mPendingBuffersMap /\ b \in Buffers /\ results[b] = <<>>
              /\ b[1] \in PendingFrames /\ b[1] <= n /\ b[1] \notin reprocess
              /\ b[2] # Blob /\ b[2] \in D
  <2>1. PICK i \in First(k) : b \in Outputs(i.frame, (i.streams \cap D) \ {Blob})
    BY <1>14 DEF DropReported
  <2>2. PICK s \in (i.streams \cap D) \ {Blob} : b = <<i.frame, s>>
    BY <2>1 DEF Outputs
  <2>3. i \in Pending /\ i.frame <= n
    BY <1>6
  <2>4. b \in Outputs(i.frame, i.streams)
    BY <2>2 DEF Outputs
  <2>5. b \in handed
    BY <2>3, <2>4 DEF IInv, PendingHanded
  <2>6. i.frame \notin reprocess
    BY <2>2, <2>5 DEF IInv, BuffersOut
  <2>7. b \in mPendingBuffersMap
    BY <2>3, <2>4, <2>6 DEF IInv, PendingHanded
  <2>8. b \in Buffers /\ results[b] = <<>>
    BY <2>7, Types DEF IInv, BuffersOut
  <2> QED BY <1>3, <2>2, <2>3, <2>5, <2>6, <2>7, <2>8
<1> HIDE DEF A, rel, R
<1>15. \A b \in Buffers : b \in R => b[1] \in reprocess
  BY <1>9
<1>16. TypeOK'
  <2>1. mPendingRequest' \in Int
    BY <1>3, <1>10, CountTypes
  <2>2. results' \in [Buffers -> Seq({"ok", "error", "failed"})]
    <3>1. results \in [Buffers -> Seq({"ok", "error", "failed"})]
      BY Types DEF IInv
    <3>2. \A b \in Buffers : Append(results[b], StatusAt(b, n, D)) \in Seq({"ok", "error", "failed"})
      BY <1>12, <3>1
    <3> QED BY <1>11, <3>1, <3>2
  <2>3. shutters' \in Seq(Frames)
    BY <1>1, <1>4, <1>10, SentShutters, Types, ConcatProperties DEF rel, IInv
  <2>4. client' \in {"idle", "waiting", "signalled"}
    BY <1>2 DEF Signal, IInv, TypeOK
  <2>5. /\ mPendingBuffersMap' \subseteq Buffers /\ mPendingFrameDropList' \subseteq Buffers
        /\ mPendingReprocessResultList' \subseteq Frames /\ metaDue' \subseteq Frames
        /\ told' \subseteq Buffers
    BY <1>2, <1>10, <1>14, Types DEF IInv
  <2>6. \A j, l \in DOMAIN mPendingRequestsList' :
            j < l => mPendingRequestsList'[j].frame < mPendingRequestsList'[l].frame
    BY <1>6 DEF Ordered
  <2>7. TypeOK
    BY DEF IInv
  <2> QED BY <1>2, <1>6, <2>1, <2>2, <2>3, <2>4, <2>5, <2>6, <2>7, Zenon DEF TypeOK
<1>17. Earlier' /\ ShuttersInv'
  <2> DEFINE t == Shutters(k, n)
  <2>1. /\ t \in Seq(Frames)
        /\ \A j \in DOMAIN t : t[j] \in PendingFrames /\ (t[j] <= n \/ t[j] \in rel)
        /\ \A j, l \in DOMAIN t : j < l => t[j] # t[l] /\ (t[j] \notin reprocess /\ t[l] \notin reprocess => t[j] < t[l])
    BY <1>1, <1>4, SentShutters DEF rel, IInv
  <2> HIDE DEF t
  <2>2. ASSUME NEW j \in DOMAIN shutters, NEW l \in DOMAIN t
        PROVE  shutters[j] # t[l] /\ (shutters[j] \notin reprocess /\ t[l] \notin reprocess => shutters[j] < t[l])
    <3>1. shutters[j] \notin PendingFrames /\ shutters[j] < next /\ shutters[j] \in Frames
      BY Types DEF IInv, ShuttersInv, Earlier
    <3>2. shutters[j] \in 1 .. next - 1
      <4>1. next \in Nat
        BY Types DEF IInv
      <4> QED BY <3>1, <4>1 DEF Frames
    <3> QED BY <2>1, <3>1, <3>2 DEF IInv, EndInOrder
  <2>3. /\ ShuttersInOrder'
        /\ \A j \in DOMAIN shutters' :
                (\E l \in DOMAIN shutters : shutters'[j] = shutters[l]) \/ \E l \in DOMAIN t : shutters'[j] = t[l]
    BY <1>2, <1>10, <2>1, <2>2, MoreShutters, Types DEF IInv, ShuttersInv, t
  <2>4. \A j \in DOMAIN shutters' : shutters'[j] < next /\ shutters'[j] \notin PendingFrames'
    <3>1. \A l \in DOMAIN shutters : shutters[l] < next /\ shutters[l] \notin PendingFrames'
      BY <1>7 DEF IInv, Earlier, ShuttersInv
    <3>2. \A l \in DOMAIN t : t[l] < next /\ t[l] \notin PendingFrames'
      BY <1>3, <1>7a, <2>1
    <3> QED BY <2>3, <3>1, <3>2
  <2>5. Earlier'
    BY <1>2, <1>6, <2>4 DEF IInv, Earlier
  <2> QED BY <2>3, <2>4, <2>5 DEF ShuttersInv
<1>18. FlagsAgree'
  BY <1>2 DEF IInv, FlagsAgree
<1>19. PendingHanded'
  <2> SUFFICES ASSUME NEW i \in Pending, i.frame > n
               PROVE  /\ Outputs(i.frame, i.streams) \subseteq handed
                      /\ ~i.input => Outputs(i.frame, i.streams) \subseteq mPendingBuffersMap'
                      /\ i.input <=> i.frame \in reprocess
                      /\ \A s \in i.filled : <<i.frame, s>> \in mPendingBuffersMap' \ imageDue /\ ~i.input
    BY <1>2, <1>6 DEF PendingHanded
  <2>1. \A s : <<i.frame, s>> \notin A
    <3>1. ASSUME NEW b \in A PROVE b[1] # i.frame
      <4>1. b[1] <= n /\ b[1] \in Nat /\ i.frame \in Nat
        BY <1>3, <1>8
      <4> QED BY <1>3, <4>1
    <3> QED BY <3>1
  <2> QED BY <1>10, <2>1 DEF IInv, PendingHanded, Outputs
<1>20. BuffersOut'
  <2>1. imageDue' \subseteq mPendingBuffersMap'
    BY <1>2, <1>8, <1>10 DEF IInv, BuffersOut
  <2>2. ASSUME NEW b \in mPendingBuffersMap' PROVE b \in handed /\ results'[b] = <<>>
    <3>1. b \in mPendingBuffersMap /\ b \notin A \cup R /\ b \in Buffers
      BY <1>9, <1>10, Types DEF IInv
    <3> QED BY <1>13, <3>1 DEF IInv, BuffersOut
  <2>3. ASSUME NEW b \in Buffers, results'[b] # <<>> PROVE b \in handed
    BY <1>8, <1>9, <1>13, <2>3 DEF IInv, BuffersOut
  <2> QED BY <1>2, <2>1, <2>2, <2>3 DEF IInv, BuffersOut
<1>21. BuffersAccounted'
  <2> SUFFICES ASSUME NEW b \in Buffers
               PROVE  /\ Len(results'[b]) <= 1
                      /\ b[1] \notin reprocess => (b \in mPendingBuffersMap' <=> b \in handed /\ results'[b] = <<>>)
    BY <1>2 DEF BuffersAccounted
  <2>1. CASE b \in A \cup R
    <3>1. Len(results'[b]) = 1 /\ results'[b] # <<>>
      <4>1. results'[b] = <<StatusAt(b, n, D)>>
        BY <1>13, <2>1
      <4> QED BY <4>1
    <3>2. b \in R => b[1] \in reprocess
      BY <1>15
    <3> QED BY <1>10, <2>1, <3>1, <3>2
  <2>2. CASE b \notin A \cup R
    BY <1>10, <1>13, <2>2 DEF IInv, BuffersAccounted
  <2> QED BY <2>1, <2>2
<1>22. KeptOnce'
  <2> SUFFICES ASSUME NEW f \in mPendingReprocessResultList, f \notin rel
               PROVE  /\ f \in reprocess /\ <<f, Blob>> \in handed
                      /\ <<f, Blob>> \notin mPendingBuffersMap'
                      /\ f \in PendingFrames' => results'[<<f, Blob>>] = <<>>
                      /\ f \notin PendingFrames' => \A m \in metaDue' : m > f
    BY <1>2, <1>10 DEF KeptOnce
  <2>1. f \in reprocess /\ <<f, Blob>> \in handed /\ <<f, Blob>> \notin mPendingBuffersMap
    BY DEF IInv, KeptOnce
  <2>2. <<f, Blob>> \in Buffers /\ f \in Nat /\ \A m \in metaDue : m \in Nat
    BY <2>1, Types DEF IInv
  <2>3. <<f, Blob>> \notin A /\ <<f, Blob>> \notin R
    BY <1>8, <2>1 DEF R
  <2>4. f \in PendingFrames' => results'[<<f, Blob>>] = <<>>
    BY <1>7, <1>13, <2>2, <2>3 DEF IInv, KeptOnce
  <2>5. ASSUME f \notin PendingFrames', NEW m \in metaDue' PROVE m > f
    <3>1. CASE f \notin PendingFrames
      BY <1>2, <3>1 DEF IInv, KeptOnce
    <3>2. CASE f \in PendingFrames
      <4>1. f <= n
        BY <1>3, <1>7, <2>2, <2>5, <3>2
      <4> QED BY <1>2, <1>3, <2>2, <4>1
    <3> QED BY <3>1, <3>2
  <2> QED BY <1>10, <2>1, <2>4, <2>5
<1>23. EndInOrder'
  <2>1. ASSUME NEW f \in 1 .. next - 1, f \notin reprocess, f \notin PendingFrames', NEW p \in PendingFrames'
        PROVE  f < p
    <3>1. p \in PendingFrames /\ p > n /\ f \in Nat
      BY <1>7, Types DEF IInv
    <3>2. CASE f \in PendingFrames
      <4>1. f <= n
        BY <1>3, <1>4, <1>7, <2>1, <3>2
      <4> QED BY <1>3, <3>1, <4>1
    <3>3. CASE f \notin PendingFrames
      BY <2>1, <3>1, <3>3 DEF IInv, EndInOrder
    <3> QED BY <3>2, <3>3
  <2>2. ASSUME NEW b \in mPendingBuffersMap', b[1] \notin PendingFrames', NEW p \in PendingFrames'
        PROVE  b[1] < p
    <3>1. /\ p \in PendingFrames /\ p > n /\ b \in mPendingBuffersMap /\ b \in handed
          /\ b[1] \in Nat /\ b = <<b[1], b[2]>>
      <4>1. b \in mPendingBuffersMap /\ b \in handed /\ b \in Buffers
        BY <1>10, Types DEF IInv, BuffersOut
      <4> QED BY <1>7, <4>1, Types DEF IInv
    <3>2. CASE b[1] \in PendingFrames
      <4>1. b[1] \notin rel
        <5>1. ASSUME b[1] \in rel PROVE FALSE
          <6>1. b[1] \in reprocess /\ b[1] \in mPendingReprocessResultList
            BY <1>4, <5>1
          <6>2. b[2] = Blob
            BY <3>1, <6>1 DEF IInv, BuffersOut
          <6> QED BY <3>1, <6>1, <6>2 DEF IInv, KeptOnce
        <5> QED BY <5>1
      <4>2. b[1] <= n
        BY <1>3, <1>7, <2>2, <3>1, <3>2, <4>1
      <4> QED BY <1>3, <3>1, <4>2
    <3>3. CASE b[1] \notin PendingFrames
      BY <3>1, <3>3 DEF IInv, EndInOrder
    <3> QED BY <3>2, <3>3
  <2> QED BY <1>2, <2>1, <2>2 DEF EndInOrder
<1>24. KeptAwaitsCapture'
  <2> SUFFICES ASSUME NEW f \in mPendingReprocessResultList, f \notin rel, f \in PendingFrames, f > n,
                      f - 1 \notin reprocess
               PROVE  f - 1 \in PendingFrames'
    BY <1>2, <1>7, <1>10 DEF KeptAwaitsCapture
  <2>1. f - 1 \in PendingFrames
    BY DEF IInv, KeptAwaitsCapture
  <2>2. f - 1 \notin rel
    BY <1>4
  <2>3. f - 1 # n
    <3> SUFFICES ASSUME f - 1 = n PROVE FALSE
      OBVIOUS
    <3>1. f = n + 1
      BY <1>3
    <3>2. ~(k > 0)
      BY <3>1 DEF rel, Released
    <3>3. First(k) = {}
      BY <1>3, <3>2 DEF First
    <3>4. PICK i \in Pending : i.frame = n
      BY <2>1 DEF PendingFrames
    <3> QED BY <1>3, <1>6, <3>3, <3>4
  <2> QED BY <1>3, <1>7, <2>1, <2>2, <2>3
<1>25. CountInv'
  <2>1. ~mFirstRequest
    BY <1>2 DEF IInv, FlagsAgree
  <2>2. InFlight = mPendingRequest /\ InFlight' = mPendingRequest'
    BY <1>2, <2>1 DEF InFlight
  <2>3. client' = "idle" => client = "idle"
    BY <1>2 DEF Signal
  <2> DEFINE d == k + (IF rel = {} THEN 0 ELSE 1)
  <2>4. d \in Nat /\ InFlight' = InFlight - d /\ Len(mPendingRequestsList') = Len(mPendingRequestsList) - d
    BY <1>3, <1>6, <1>10, <2>2, CountTypes
  <2> HIDE DEF d
  <2> QED BY <1>2, <2>3, <2>4, CountTypes DEF IInv, CountInv
<1>26. DroppedInv'
  <2>1. ASSUME NEW b \in told
        PROVE  /\ results'[b] = results[b] /\ b[1] \notin PendingFrames /\ b \notin A /\ b \in Buffers
    <3>1. b[1] \notin PendingFrames /\ b \in Buffers
      BY Types DEF IInv, DroppedInv
    <3>2. b \notin A \cup R
      BY <1>8, <1>9, <3>1
    <3> QED BY <1>13, <3>1, <3>2
  <2>2. ASSUME NEW b \in told1
        PROVE  results'[b] = <<>> => b \notin A
    <3>1. ASSUME b \in A PROVE results'[b] = <<StatusAt(b, n, D)>>
      BY <1>13, <3>1
    <3>2. \A x : <<x>> # <<>>
      OBVIOUS
    <3> QED BY <3>1, <3>2
  <2>4. ASSUME NEW b \in told'
        PROVE  /\ b \in handed /\ b[1] \notin reprocess /\ b[1] \notin PendingFrames'
               /\ results'[b] = <<>> => b \in mPendingFrameDropList'
    <3>1. CASE b \in told
      BY <1>7, <1>10, <2>1, <3>1 DEF IInv, DroppedInv
    <3>2. CASE b \in told1
      <4>1. b \in DropReported(k, D)
        BY <3>2
      <4>2. b \in handed /\ b[1] \notin reprocess /\ b[1] <= n /\ b[1] \in PendingFrames
        BY <1>14, <4>1
      <4>3. b[1] \notin PendingFrames'
        BY <1>7a, <4>2
      <4> QED BY <1>10, <2>2, <3>2, <4>1, <4>2, <4>3
    <3> QED BY <1>10, <2>4, <3>1, <3>2
  <2> QED BY <1>2, <2>4 DEF DroppedInv
<1> QED BY <1>16, <1>17, <1>18, <1>19, <1>20, <1>21, <1>22, <1>23, <1>24, <1>25, <1>26 DEF IInv

-----------------------------------------------------------------------------
(* The buffer that a channel returns was handed over and not yet returned.  *)
LEMMA DueFacts ==
  ASSUME IInv, NEW b \in imageDue
  PROVE  /\ b \in Buffers /\ b \in mPendingBuffersMap /\ b \in handed /\ results[b] = <<>>
         /\ b = <<b[1], b[2]>> /\ b[1] \in Frames /\ b[2] \in Streams
         /\ ~mFirstRequest
         /\ b[1] \in reprocess => b = <<b[1], Blob>>
<1>1. b \in Buffers /\ b \in mPendingBuffersMap /\ b \in handed /\ results[b] = <<>>
  BY Types DEF IInv, BuffersOut
<1>2. b = <<b[1], b[2]>> /\ b[1] \in Frames /\ b[2] \in Streams
  BY <1>1, Types DEF IInv
<1>3. b[1] \in reprocess => b[2] = Blob
  BY <1>1 DEF IInv, BuffersOut
<1> QED BY <1>1, <1>2, <1>3 DEF IInv, FlagsAgree

(* The request of the buffer has ended: it goes out, as an error if it was  *)
(* reported dropped.                                                        *)
LEMMA EndedImage ==
  ASSUME IInv, NEW b \in imageDue, handleBufferWithLock(b), BufferOfEndedRequest(b)
  PROVE  IInv'
<1> DEFINE st == IF b \in mPendingFrameDropList THEN "error" ELSE "ok"
<1>1. /\ imageDue' = imageDue \ {b}
      /\ UNCHANGED <<mFirstRequest, mFlush, mWokenUpByDaemon, client, flusher, metaDue>>
      /\ UNCHANGED <<next, handed, reprocess, refused, timeouts, told>>
  BY DEF handleBufferWithLock, asked
<1>2. /\ b[1] \notin PendingFrames
      /\ mPendingFrameDropList' = mPendingFrameDropList \ {b}
      /\ mPendingBuffersMap' = mPendingBuffersMap \ {b}
      /\ UNCHANGED <<mPendingRequestsList, mPendingReprocessResultList, mPendingRequest, shutters>>
      /\ results' = [c \in Buffers |-> IF c = b THEN Append(results[c], st) ELSE results[c]]
  <2>1. results' = [c \in Buffers |-> IF c \in {b} THEN
                        Append(results[c], IF c \in mPendingFrameDropList THEN "error" ELSE "ok")
                    ELSE results[c]]
    BY DEF BufferOfEndedRequest, Answer
  <2> QED BY <2>1 DEF BufferOfEndedRequest
<1>3. b \in Buffers /\ b \in mPendingBuffersMap /\ b \in handed /\ results[b] = <<>>
  BY DueFacts
<1>4. results'[b] = <<st>> /\ \A c \in Buffers : c # b => results'[c] = results[c]
  <2>1. results'[b] = Append(<<>>, st)
    BY <1>2, <1>3
  <2>2. \A x : Append(<<>>, x) = <<x>>
    OBVIOUS
  <2>3. \A c \in Buffers : c # b => results'[c] = results[c]
    BY <1>2
  <2> QED BY <2>1, <2>2, <2>3
<1>5. Pending' = Pending /\ PendingFrames' = PendingFrames
  BY <1>2 DEF Pending, PendingFrames
<1>6. st \in {"ok", "error"}
  OBVIOUS
<1>7. \A i \in Pending : \A s : <<i.frame, s>> # b
  BY <1>2 DEF PendingFrames
<1> HIDE DEF st
<1>8. TypeOK'
  <2>1. results' \in [Buffers -> Seq({"ok", "error", "failed"})]
    <3>1. results \in [Buffers -> Seq({"ok", "error", "failed"})]
      BY Types DEF IInv
    <3>2. \A c \in Buffers : Append(results[c], st) \in Seq({"ok", "error", "failed"})
      BY <1>6, <3>1
    <3> QED BY <1>2, <3>1, <3>2
  <2>2. imageDue' \subseteq Buffers /\ mPendingBuffersMap' \subseteq Buffers /\ mPendingFrameDropList' \subseteq Buffers
    BY <1>1, <1>2, Types DEF IInv
  <2>3. TypeOK
    BY DEF IInv
  <2> QED BY <1>1, <1>2, <2>1, <2>2, <2>3, Zenon DEF TypeOK
<1>9. Earlier' /\ FlagsAgree'
  <2>1. Earlier'
    BY <1>1, <1>2, <1>5 DEF IInv, Earlier
  <2> QED BY <1>1, <2>1 DEF IInv, FlagsAgree
<1>10. PendingHanded'
  BY <1>1, <1>2, <1>5, <1>7 DEF IInv, PendingHanded, Outputs
<1>11. BuffersOut'
  <2>1. \A c \in mPendingBuffersMap' : c \in handed /\ results'[c] = <<>>
    BY <1>2, <1>4, Types DEF IInv, BuffersOut
  <2>2. \A c \in Buffers : results'[c] # <<>> => c \in handed
    BY <1>3, <1>4 DEF IInv, BuffersOut
  <2> QED BY <1>1, <1>2, <2>1, <2>2 DEF IInv, BuffersOut
<1>12. BuffersAccounted'
  <2>1. Len(results'[b]) = 1 /\ results'[b] # <<>>
    BY <1>4
  <2> QED BY <1>1, <1>2, <1>4, <2>1 DEF IInv, BuffersAccounted
<1>13. KeptOnce'
  <2>1. \A f \in mPendingReprocessResultList : f \in PendingFrames => results'[<<f, Blob>>] = <<>>
    <3>1. \A f \in mPendingReprocessResultList : <<f, Blob>> \in Buffers
      BY Types DEF IInv
    <3>2. \A f \in PendingFrames : <<f, Blob>> # b
      BY <1>2
    <3> QED BY <1>4, <3>1, <3>2 DEF IInv, KeptOnce
  <2> QED BY <1>1, <1>2, <1>5, <2>1 DEF IInv, KeptOnce
<1>14. EndInOrder' /\ KeptAwaitsCapture'
  BY <1>1, <1>2, <1>5 DEF IInv, EndInOrder, KeptAwaitsCapture
<1>15. CountInv'
  <2>1. InFlight' = InFlight
    BY <1>1, <1>2 DEF InFlight
  <2> QED BY <1>1, <1>2, <2>1 DEF IInv, CountInv
<1>16. ShuttersInv'
  BY <1>1, <1>2, <1>5 DEF IInv, ShuttersInv, ShuttersInOrder
<1>17. DroppedInv'
  <2>1. b \in told => results'[b] = <<"error">>
    BY <1>3, <1>4 DEF IInv, DroppedInv, st
  <2>2. <<"error">> # <<>>
    OBVIOUS
  <2>3. \A c \in told : c \in Buffers
    BY Types DEF IInv
  <2>5. ASSUME NEW c \in told, results'[c] = <<>> PROVE c \in mPendingFrameDropList'
    BY <1>2, <1>4, <2>1, <2>2, <2>3, <2>5 DEF IInv, DroppedInv
  <2>6. \A c \in told : c \in handed /\ c[1] \notin reprocess /\ c[1] \notin PendingFrames
    BY DEF IInv, DroppedInv
  <2> QED BY <1>1, <1>5, <2>5, <2>6 DEF DroppedInv
<1> QED BY <1>8, <1>9, <1>10, <1>11, <1>12, <1>13, <1>14, <1>15, <1>16, <1>17 DEF IInv

(* The buffer of a pending capture is marked filled. *)
LEMMA FilledImage ==
  ASSUME IInv, NEW b \in imageDue, handleBufferWithLock(b), BufferOfPendingRequest(b)
  PROVE  IInv'
<1> DEFINE L == mPendingRequestsList
           New(i) == IF i.frame = b[1] THEN [i EXCEPT !.filled = @ \cup {b[2]}] ELSE i
<1>1. /\ imageDue' = imageDue \ {b}
      /\ UNCHANGED <<mFirstRequest, mFlush, mWokenUpByDaemon, client, flusher, metaDue>>
      /\ UNCHANGED <<next, handed, reprocess, refused, timeouts, told>>
  BY DEF handleBufferWithLock, asked
<1>2. /\ b[1] \in PendingFrames /\ ~Requested(b[1]).input
      /\ L' = [k \in DOMAIN L |-> New(L[k])]
      /\ UNCHANGED <<mPendingBuffersMap, mPendingFrameDropList, mPendingReprocessResultList>>
      /\ UNCHANGED <<mPendingRequest, results, shutters>>
  BY DEF BufferOfPendingRequest
<1>3. /\ b \in Buffers /\ b \in mPendingBuffersMap /\ b[2] \in Streams /\ b = <<b[1], b[2]>>
      /\ L \in Seq(RequestInfos) /\ Ordered(L) /\ Len(L) \in Nat /\ DOMAIN L = 1 .. Len(L)
      /\ Pending \subseteq RequestInfos /\ Pending = Members(L)
  BY DueFacts, ListFacts DEF IInv
<1>4. \A i \in RequestInfos :
        /\ New(i) \in RequestInfos /\ New(i).frame = i.frame
        /\ New(i).streams = i.streams /\ New(i).input = i.input
        /\ New(i).filled = IF i.frame = b[1] THEN i.filled \cup {b[2]} ELSE i.filled
  BY <1>3 DEF RequestInfos
<1>5. \A k \in 1 .. Len(L) : L[k] \in RequestInfos
  BY <1>3, ElementOfSeq
<1> HIDE DEF New
<1>6. L' \in Seq(RequestInfos) /\ Len(L') = Len(L) /\ DOMAIN L' = DOMAIN L
  <2>1. \A k \in 1 .. Len(L) : New(L[k]) \in RequestInfos
    BY <1>4, <1>5
  <2>2. L' \in [1 .. Len(L) -> RequestInfos]
    BY <1>2, <1>3, <2>1
  <2> QED BY <1>3, <2>2, SeqDef
<1>7. Ordered(L')
  <2>1. \A k \in DOMAIN L' : L'[k].frame = L[k].frame
    BY <1>2, <1>3, <1>4, <1>5, <1>6
  <2> QED BY <1>3, <1>6, <2>1 DEF Ordered
<1>8. Pending' = {New(i) : i \in Pending}
  <2>1. \A k \in DOMAIN L : L'[k] = New(L[k])
    BY <1>2
  <2>2. Pending' = {L'[k] : k \in DOMAIN L'}
    BY DEF Pending
  <2> QED BY <1>6, <2>1, <2>2 DEF Pending
<1>9. PendingFrames' = PendingFrames
  <2>1. \A i \in Pending : New(i).frame = i.frame
    BY <1>3, <1>4
  <2>2. PendingFrames' = {i.frame : i \in Pending'}
    BY DEF PendingFrames
  <2> QED BY <1>8, <2>1, <2>2 DEF PendingFrames
<1>10. TypeOK'
  <2>1. \A j, l \in DOMAIN L' : j < l => L'[j].frame < L'[l].frame
    BY <1>7 DEF Ordered
  <2>2. imageDue' \subseteq Buffers
    BY <1>1, Types DEF IInv
  <2>3. TypeOK
    BY DEF IInv
  <2> QED BY <1>1, <1>2, <1>6, <2>1, <2>2, <2>3, Zenon DEF TypeOK
<1>11. Earlier'
  <2>1. \A i \in Pending' : i.frame < next'
    <3>1. \A i \in Pending : New(i).frame = i.frame
      BY <1>3, <1>4
    <3> QED BY <1>1, <1>8, <3>1 DEF IInv, Earlier
  <2> QED BY <1>1, <1>2, <2>1 DEF IInv, Earlier
<1>12. FlagsAgree'
  BY <1>1 DEF IInv, FlagsAgree
<1>13. PendingHanded'
  <2> SUFFICES ASSUME NEW i \in Pending
               PROVE  /\ Outputs(i.frame, i.streams) \subseteq handed
                      /\ ~i.input => Outputs(i.frame, i.streams) \subseteq mPendingBuffersMap
                      /\ i.input <=> i.frame \in reprocess
                      /\ \A s \in New(i).filled : <<i.frame, s>> \in mPendingBuffersMap \ imageDue' /\ ~i.input
    <3>1. \A i \in Pending : /\ New(i).frame = i.frame
                             /\ New(i).streams = i.streams /\ New(i).input = i.input
      BY <1>3, <1>4
    <3> QED BY <1>1, <1>2, <1>8, <3>1 DEF PendingHanded
  <2>1. CASE i.frame = b[1]
    <3>1. New(i).filled = i.filled \cup {b[2]} /\ i = Requested(b[1])
      BY <1>2, <1>3, <1>4, <2>1, IndexFacts DEF IInv
    <3>2. <<i.frame, b[2]>> = b
      BY <1>3, <2>1
    <3> QED BY <1>1, <1>2, <1>3, <3>1, <3>2 DEF IInv, PendingHanded
  <2>2. CASE i.frame # b[1]
    <3>1. New(i).filled = i.filled
      BY <1>3, <1>4, <2>2
    <3> QED BY <1>1, <3>1 DEF IInv, PendingHanded
  <2> QED BY <2>1, <2>2
<1>14. BuffersOut' /\ BuffersAccounted'
  BY <1>1, <1>2 DEF IInv, BuffersOut, BuffersAccounted
<1>15. KeptOnce' /\ EndInOrder' /\ KeptAwaitsCapture'
  BY <1>1, <1>2, <1>9 DEF IInv, KeptOnce, EndInOrder, KeptAwaitsCapture
<1>16. CountInv'
  <2>1. InFlight' = InFlight
    BY <1>1, <1>2 DEF InFlight
  <2> QED BY <1>1, <1>6, <2>1 DEF IInv, CountInv
<1>17. ShuttersInv' /\ DroppedInv'
  BY <1>1, <1>2, <1>9 DEF IInv, ShuttersInv, ShuttersInOrder, DroppedInv
<1> QED BY <1>10, <1>11, <1>12, <1>13, <1>14, <1>15, <1>16, <1>17 DEF IInv

(* The result of a reprocess request is kept while an earlier request is    *)
(* pending, and else ends its request.                                      *)
LEMMA ReprocessImage ==
  ASSUME IInv, NEW b \in imageDue, handleBufferWithLock(b), BufferOfReprocess(b)
  PROVE  IInv'
<1>1. /\ imageDue' = imageDue \ {b}
      /\ UNCHANGED <<mFirstRequest, mFlush, mWokenUpByDaemon, client, flusher, metaDue>>
      /\ UNCHANGED <<next, handed, reprocess, refused, timeouts, told>>
  BY DEF handleBufferWithLock, asked
<1>2. /\ b[1] \in PendingFrames /\ Requested(b[1]).input
      /\ mPendingBuffersMap' = mPendingBuffersMap \ {b}
      /\ UNCHANGED mPendingFrameDropList
  BY DEF BufferOfReprocess
<1>3. /\ Requested(b[1]) \in Pending /\ Requested(b[1]).frame = b[1]
      /\ \A i \in Pending : i.frame = b[1] => i = Requested(b[1])
  BY <1>2, IndexFacts DEF IInv
<1>4. b[1] \in reprocess
  BY <1>2, <1>3 DEF IInv, PendingHanded
<1>5. /\ b = <<b[1], Blob>> /\ b \in Buffers /\ b \in mPendingBuffersMap /\ b \in handed
      /\ results[b] = <<>> /\ b[1] \in Frames /\ ~mFirstRequest
  BY <1>4, DueFacts
<1>6. \A i \in Pending : ~i.input => i.frame # b[1]
  BY <1>2, <1>3
<1>7. imageDue' \subseteq Buffers /\ mPendingBuffersMap' \subseteq Buffers
  BY <1>1, <1>2, Types DEF IInv
<1>8. PendingFrames \subseteq Frames /\ Frames \subseteq Nat /\ next \in Nat
  BY ListFacts, Types DEF IInv
<1>9. \A i \in Pending : i.frame \in PendingFrames
  BY DEF PendingFrames
<1>a. CASE \E f \in PendingFrames : f < b[1]
  <2>1. /\ mPendingReprocessResultList' = mPendingReprocessResultList \cup {b[1]}
        /\ UNCHANGED <<mPendingRequestsList, mPendingRequest, results, shutters>>
    BY <1>a DEF BufferOfReprocess
  <2>2. Pending' = Pending /\ PendingFrames' = PendingFrames
    BY <2>1 DEF Pending, PendingFrames
  <2>3. TypeOK'
    <3>1. TypeOK
      BY DEF IInv
    <3>2. mPendingReprocessResultList' \subseteq Frames
      BY <1>5, <2>1, Types DEF IInv
    <3> QED BY <1>1, <1>2, <1>7, <2>1, <3>1, <3>2, Zenon DEF TypeOK
  <2>4. Earlier' /\ FlagsAgree'
    <3>1. Earlier'
      BY <1>1, <2>1, <2>2 DEF IInv, Earlier
    <3> QED BY <1>1, <3>1 DEF IInv, FlagsAgree
  <2>5. PendingHanded'
    <3> SUFFICES ASSUME NEW i \in Pending
                 PROVE  /\ Outputs(i.frame, i.streams) \subseteq handed
                        /\ ~i.input => Outputs(i.frame, i.streams) \subseteq mPendingBuffersMap'
                        /\ i.input <=> i.frame \in reprocess
                        /\ \A s \in i.filled : <<i.frame, s>> \in mPendingBuffersMap' \ imageDue' /\ ~i.input
      BY <1>1, <2>2 DEF PendingHanded
    <3>1. ~i.input => \A s : <<i.frame, s>> # b
      BY <1>5, <1>6
    <3> QED BY <1>1, <1>2, <3>1 DEF IInv, PendingHanded, Outputs
  <2>6. BuffersOut' /\ BuffersAccounted'
    BY <1>1, <1>2, <1>4, <2>1 DEF IInv, BuffersOut, BuffersAccounted
  <2>7. KeptOnce'
    <3>1. \A f \in mPendingReprocessResultList' :
            /\ f \in reprocess /\ <<f, Blob>> \in handed
            /\ <<f, Blob>> \notin mPendingBuffersMap'
            /\ f \in PendingFrames => results[<<f, Blob>>] = <<>>
            /\ f \notin PendingFrames => \A m \in metaDue : m > f
      BY <1>2, <1>4, <1>5, <2>1 DEF IInv, KeptOnce
    <3> QED BY <1>1, <2>1, <2>2, <3>1 DEF KeptOnce
  <2>8. EndInOrder'
    BY <1>1, <1>2, <2>2 DEF IInv, EndInOrder
  <2>9. KeptAwaitsCapture'
    <3>1. ASSUME b[1] - 1 \notin reprocess PROVE b[1] - 1 \in PendingFrames
      <4>1. PICK p \in PendingFrames : p < b[1]
        BY <1>a
      <4>2. b[1] < next
        BY <1>2 DEF IInv, Earlier, PendingFrames
      <4>3. b[1] \in Nat /\ p \in Nat /\ p >= 1
        BY <1>5, <1>8 DEF Frames
      <4>4. b[1] - 1 \in 1 .. next - 1 /\ ~(b[1] - 1 < p)
        BY <1>8, <4>1, <4>2, <4>3
      <4> QED BY <3>1, <4>4 DEF IInv, EndInOrder
    <3> QED BY <1>1, <2>1, <2>2, <3>1 DEF IInv, KeptAwaitsCapture
  <2>10. CountInv'
    <3>1. InFlight' = InFlight
      BY <1>1, <2>1 DEF InFlight
    <3> QED BY <1>1, <2>1, <3>1 DEF IInv, CountInv
  <2>11. ShuttersInv' /\ DroppedInv'
    BY <1>1, <1>2, <2>1, <2>2 DEF IInv, ShuttersInv, ShuttersInOrder, DroppedInv
  <2> QED BY <2>3, <2>4, <2>5, <2>6, <2>7, <2>8, <2>9, <2>10, <2>11 DEF IInv
<1>b. CASE ~\E f \in PendingFrames : f < b[1]
  <2>1. /\ mPendingRequestsList' = Erase(b[1])
        /\ mPendingRequest' = mPendingRequest - 1
        /\ shutters' = Append(shutters, b[1])
        /\ UNCHANGED mPendingReprocessResultList
        /\ results' = [c \in Buffers |-> IF c = b THEN Append(results[c], "ok") ELSE results[c]]
    <3>1. results' = [c \in Buffers |-> IF c \in {b} THEN Append(results[c], "ok") ELSE results[c]]
      BY <1>b DEF BufferOfReprocess, Answer
    <3> QED BY <1>b, <3>1 DEF BufferOfReprocess
  <2>2. /\ mPendingRequestsList' \in Seq(RequestInfos) /\ Ordered(mPendingRequestsList')
        /\ Len(mPendingRequestsList') = Len(mPendingRequestsList) - 1
        /\ Members(mPendingRequestsList') = {i \in Pending : i.frame # b[1]}
    BY <1>2, <2>1, ErasedList DEF IInv
  <2>3. Pending' = {i \in Pending : i.frame # b[1]}
    BY <2>2 DEF Pending, Members
  <2>4. PendingFrames' = PendingFrames \ {b[1]}
    BY <2>3 DEF PendingFrames
  <2>5. results'[b] = <<"ok">> /\ \A c \in Buffers : c # b => results'[c] = results[c]
    <3>1. results'[b] = Append(<<>>, "ok")
      BY <1>5, <2>1
    <3>2. \A x : Append(<<>>, x) = <<x>>
      OBVIOUS
    <3>3. \A c \in Buffers : c # b => results'[c] = results[c]
      BY <2>1
    <3> QED BY <3>1, <3>2, <3>3
  <2>6. b[1] \notin mPendingReprocessResultList
    BY <1>5 DEF IInv, KeptOnce
  <2>7. ShuttersInv' /\ Earlier' /\ shutters' \in Seq(Frames)
    <3> DEFINE t == <<b[1]>>
    <3>1. /\ t \in Seq(Frames) /\ DOMAIN t = {1} /\ t[1] = b[1]
          /\ shutters \in Seq(Frames) /\ \A k \in DOMAIN shutters : shutters[k] \in Frames
      BY <1>5, Types DEF IInv
    <3>2. shutters' = shutters \o t
      BY <2>1, <3>1
    <3>3. \A k \in DOMAIN shutters, l \in DOMAIN t :
            shutters[k] # t[l] /\ (shutters[k] \notin reprocess /\ t[l] \notin reprocess => shutters[k] < t[l])
      BY <1>2, <1>4, <3>1 DEF IInv, ShuttersInv
    <3>4. \A k, l \in DOMAIN t :
            k < l => t[k] # t[l] /\ (t[k] \notin reprocess /\ t[l] \notin reprocess => t[k] < t[l])
      BY <3>1
    <3> HIDE DEF t
    <3>5. /\ shutters' \in Seq(Frames) /\ ShuttersInOrder'
          /\ \A k \in DOMAIN shutters' :
                (\E l \in DOMAIN shutters : shutters'[k] = shutters[l]) \/ \E l \in DOMAIN t : shutters'[k] = t[l]
      BY <1>1, <3>1, <3>2, <3>3, <3>4, MoreShutters, Types DEF IInv, ShuttersInv
    <3>6. \A k \in DOMAIN shutters' : shutters'[k] < next /\ shutters'[k] \notin PendingFrames'
      <4>1. \A l \in DOMAIN shutters : shutters[l] < next /\ shutters[l] \notin PendingFrames'
        BY <2>4 DEF IInv, Earlier, ShuttersInv
      <4>2. b[1] < next /\ b[1] \notin PendingFrames'
        BY <1>2, <2>4 DEF IInv, Earlier, PendingFrames
      <4> QED BY <3>1, <3>5, <4>1, <4>2
    <3>7. Earlier'
      BY <1>1, <2>3, <3>6 DEF IInv, Earlier
    <3> QED BY <3>5, <3>6, <3>7 DEF ShuttersInv
  <2>8. TypeOK'
    <3>1. TypeOK
      BY DEF IInv
    <3>2. \A k, l \in DOMAIN mPendingRequestsList' :
            k < l => mPendingRequestsList'[k].frame < mPendingRequestsList'[l].frame
      BY <2>2 DEF Ordered
    <3>3. results' \in [Buffers -> Seq({"ok", "error", "failed"})]
      <4>1. results \in [Buffers -> Seq({"ok", "error", "failed"})]
        BY Types DEF IInv
      <4>2. \A c \in Buffers : Append(results[c], "ok") \in Seq({"ok", "error", "failed"})
        BY <4>1
      <4> QED BY <2>1, <4>1, <4>2
    <3>4. mPendingRequest' \in Int
      BY <2>1, CountTypes
    <3> QED BY <1>1, <1>2, <1>7, <2>1, <2>2, <2>7, <3>1, <3>2, <3>3, <3>4, Zenon DEF TypeOK
  <2>9. FlagsAgree'
    BY <1>1 DEF IInv, FlagsAgree
  <2>10. PendingHanded'
    <3> SUFFICES ASSUME NEW i \in Pending, i.frame # b[1]
                 PROVE  /\ Outputs(i.frame, i.streams) \subseteq handed
                        /\ ~i.input => Outputs(i.frame, i.streams) \subseteq mPendingBuffersMap'
                        /\ i.input <=> i.frame \in reprocess
                        /\ \A s \in i.filled : <<i.frame, s>> \in mPendingBuffersMap' \ imageDue' /\ ~i.input
      BY <1>1, <2>3 DEF PendingHanded
    <3>1. \A s : <<i.frame, s>> # b
      BY <1>5
    <3> QED BY <1>1, <1>2, <3>1 DEF IInv, PendingHanded, Outputs
  <2>11. BuffersOut'
    <3>1. \A c \in mPendingBuffersMap' : c \in handed /\ results'[c] = <<>>
      BY <1>2, <2>5, Types DEF IInv, BuffersOut
    <3>2. \A c \in Buffers : results'[c] # <<>> => c \in handed
      BY <1>5, <2>5 DEF IInv, BuffersOut
    <3> QED BY <1>1, <1>2, <3>1, <3>2 DEF IInv, BuffersOut
  <2>12. BuffersAccounted'
    <3>1. Len(results'[b]) = 1 /\ results'[b] # <<>>
      BY <2>5
    <3> SUFFICES ASSUME NEW c \in Buffers
                 PROVE  /\ Len(results'[c]) <= 1
                        /\ c[1] \notin reprocess =>
                              (c \in mPendingBuffersMap' <=> c \in handed /\ results'[c] = <<>>)
      BY <1>1 DEF BuffersAccounted
    <3>2. CASE c = b
      <4>1. Len(results'[c]) = 1 /\ c[1] \in reprocess
        BY <1>4, <3>1, <3>2
      <4> QED BY <4>1
    <3>3. CASE c # b
      BY <1>2, <2>5, <3>3 DEF IInv, BuffersAccounted
    <3> QED BY <3>2, <3>3
  <2>13. KeptOnce'
    <3> SUFFICES ASSUME NEW f \in mPendingReprocessResultList
                 PROVE  /\ f \in reprocess /\ <<f, Blob>> \in handed
                        /\ <<f, Blob>> \notin mPendingBuffersMap'
                        /\ f \in PendingFrames' => results'[<<f, Blob>>] = <<>>
                        /\ f \notin PendingFrames' => \A m \in metaDue : m > f
      BY <1>1, <2>1 DEF KeptOnce
    <3>1. f # b[1] /\ <<f, Blob>> \in Buffers
      BY <2>6, Types DEF IInv
    <3>2. <<f, Blob>> # b
      BY <1>5, <3>1
    <3> QED BY <1>2, <2>4, <2>5, <3>1, <3>2 DEF IInv, KeptOnce
  <2>14. EndInOrder'
    <3>1. ASSUME NEW f \in 1 .. next - 1, f \notin reprocess, f \notin PendingFrames', NEW p \in PendingFrames'
          PROVE  f < p
      BY <1>4, <2>4, <3>1 DEF IInv, EndInOrder
    <3>2. ASSUME NEW c \in mPendingBuffersMap', c[1] \notin PendingFrames', NEW p \in PendingFrames'
          PROVE  c[1] < p
      <4>1. c \in mPendingBuffersMap /\ c # b /\ c = <<c[1], c[2]>>
        BY <1>2, Types DEF IInv
      <4>2. c[1] # b[1]
        BY <1>4, <1>5, <4>1 DEF IInv, BuffersOut
      <4> QED BY <2>4, <3>2, <4>1, <4>2 DEF IInv, EndInOrder
    <3> QED BY <1>1, <3>1, <3>2 DEF EndInOrder
  <2>15. KeptAwaitsCapture'
    BY <1>1, <1>4, <2>1, <2>4 DEF IInv, KeptAwaitsCapture
  <2>16. CountInv'
    <3>1. InFlight' = InFlight - 1
      BY <1>1, <1>5, <2>1 DEF InFlight
    <3> QED BY <1>1, <2>2, <3>1, CountTypes DEF IInv, CountInv
  <2>17. DroppedInv'
    <3>1. \A c \in told : c \in Buffers /\ c # b
      BY <1>4, Types DEF IInv, DroppedInv
    <3> QED BY <1>1, <1>2, <2>4, <2>5, <3>1 DEF IInv, DroppedInv
  <2> QED BY <2>7, <2>8, <2>9, <2>10, <2>11, <2>12, <2>13, <2>14, <2>15, <2>16, <2>17 DEF IInv
<1> QED BY <1>a, <1>b

-----------------------------------------------------------------------------
(* flush returns all that is in the map, and forgets all else.              *)
LEMMA FlushedStep ==
  ASSUME IInv, Flush
  PROVE  IInv'
<1> DEFINE M == mPendingBuffersMap
<1>1. /\ mPendingRequestsList' = <<>> /\ mPendingReprocessResultList' = {}
      /\ mPendingFrameDropList' = {} /\ mPendingBuffersMap' = {} /\ refused' = {}
      /\ mPendingRequest' = 0 /\ mFlush' = FALSE /\ flusher' = "idle" /\ flusher = "stopped"
      /\ UNCHANGED <<mFirstRequest, mWokenUpByDaemon, metaDue, imageDue>>
      /\ UNCHANGED <<next, handed, reprocess, timeouts, shutters, told>>
      /\ Signal
  BY DEF Flush, channels, FlushCount
<1>2. PICK q : results' = [b \in Buffers |-> IF b \in M THEN Append(results[b], FlushStatus(b, q)) ELSE results[b]]
  BY DEF Flush, Answer
<1>3. \A b \in M : b \in Buffers /\ b \in handed /\ results[b] = <<>>
  BY Types DEF IInv, BuffersOut
<1>4. \A b : FlushStatus(b, q) \in {"failed", "error"}
  BY DEF FlushStatus
<1>5. /\ \A b \in M : results'[b] = <<FlushStatus(b, q)>>
      /\ \A b \in Buffers : b \notin M => results'[b] = results[b]
  <2>1. ASSUME NEW b \in M PROVE results'[b] = <<FlushStatus(b, q)>>
    <3>1. results'[b] = Append(<<>>, FlushStatus(b, q))
      BY <1>2, <1>3
    <3> QED BY <3>1
  <2> QED BY <1>2, <2>1
<1>6. Pending' = {} /\ PendingFrames' = {}
  BY <1>1 DEF Pending, PendingFrames
<1>7. \A b \in M : Len(results'[b]) = 1 /\ results'[b] # <<>> /\ results'[b] # <<"ok">>
  <2> SUFFICES ASSUME NEW b \in M
               PROVE  Len(results'[b]) = 1 /\ results'[b] # <<>> /\ results'[b] # <<"ok">>
    OBVIOUS
  <2>1. results'[b] = <<FlushStatus(b, q)>> /\ FlushStatus(b, q) # "ok"
    BY <1>4, <1>5
  <2> QED BY <2>1
<1> HIDE DEF M
<1>8. TypeOK'
  <2>1. results' \in [Buffers -> Seq({"ok", "error", "failed"})]
    <3>1. results \in [Buffers -> Seq({"ok", "error", "failed"})]
      BY Types DEF IInv
    <3>2. \A b \in Buffers : Append(results[b], FlushStatus(b, q)) \in Seq({"ok", "error", "failed"})
      BY <1>4, <3>1
    <3> QED BY <1>2, <3>1, <3>2
  <2>2. /\ <<>> \in Seq(RequestInfos) /\ 0 \in Int /\ FALSE \in BOOLEAN
        /\ {} \subseteq Buffers /\ {} \subseteq Frames
        /\ \A k, l \in DOMAIN <<>> : k < l => <<>>[k].frame < <<>>[l].frame
    OBVIOUS
  <2>3. client' \in {"idle", "waiting", "signalled"}
    BY <1>1 DEF Signal, IInv, TypeOK
  <2>4. TypeOK
    BY DEF IInv
  <2> QED BY <1>1, <2>1, <2>2, <2>3, <2>4, Zenon DEF TypeOK
<1>9. Earlier'
  BY <1>1, <1>6 DEF IInv, Earlier
<1>10. FlagsAgree'
  BY <1>1 DEF IInv, FlagsAgree
<1>11. PendingHanded' /\ KeptOnce' /\ EndInOrder' /\ KeptAwaitsCapture'
  BY <1>1, <1>6 DEF PendingHanded, KeptOnce, EndInOrder, KeptAwaitsCapture
<1>12. BuffersOut'
  <2>1. imageDue' = {}
    BY <1>1 DEF IInv, FlagsAgree
  <2>2. \A b \in Buffers : results'[b] # <<>> => b \in handed
    BY <1>3, <1>5 DEF IInv, BuffersOut
  <2> QED BY <1>1, <2>1, <2>2 DEF IInv, BuffersOut
<1>13. BuffersAccounted'
  <2> SUFFICES ASSUME NEW b \in Buffers
               PROVE  /\ Len(results'[b]) <= 1
                      /\ b[1] \notin reprocess => ~(b \in handed /\ results'[b] = <<>>)
    BY <1>1 DEF BuffersAccounted
  <2>1. CASE b \in M
    <3>1. Len(results'[b]) = 1 /\ results'[b] # <<>>
      BY <1>7, <2>1
    <3> QED BY <3>1
  <2>2. CASE b \notin M
    BY <1>5, <2>2 DEF IInv, BuffersAccounted, M
  <2> QED BY <2>1, <2>2
<1>14. CountInv'
  <2>1. IsFiniteSet(refused') /\ Cardinality(refused') = 0
    BY <1>1, FS_EmptySet
  <2>2. InFlight' = 0 /\ Len(mPendingRequestsList') = 0
    BY <1>1 DEF InFlight
  <2>3. 0 < MAX_INFLIGHT_REQUESTS + timeouts
    BY CountTypes
  <2> QED BY <1>1, <2>1, <2>2, <2>3, CountTypes DEF CountInv
<1>15. ShuttersInv'
  BY <1>1, <1>6 DEF IInv, ShuttersInv, ShuttersInOrder
<1>16. DroppedInv'
  <2>1. ASSUME NEW b \in told
        PROVE  /\ b \in handed /\ b[1] \notin reprocess
               /\ results'[b] # <<>>
    <3>1. b \in handed /\ b[1] \notin reprocess /\ b \in Buffers
      BY Types DEF IInv, DroppedInv
    <3>2. results[b] = <<>> => b \in M
      BY <3>1 DEF IInv, BuffersAccounted, M
    <3> QED BY <1>5, <1>7, <3>1, <3>2
  <2> QED BY <1>1, <1>6, <2>1 DEF DroppedInv
<1> QED BY <1>8, <1>9, <1>10, <1>11, <1>12, <1>13, <1>14, <1>15, <1>16 DEF IInv

(* The streams are configured anew when all has come back.                  *)
LEMMA ConfigureStep ==
  ASSUME IInv, configureStreams
  PROVE  IInv'
<1>1. /\ mPendingRequestsList' = <<>> /\ mPendingReprocessResultList' = {}
      /\ mPendingFrameDropList' = {} /\ mPendingBuffersMap' = {} /\ refused' = {}
      /\ metaDue' = {} /\ imageDue' = {}
      /\ handed' = {b \in handed : results[b] # <<>>}
      /\ mFirstRequest' = TRUE /\ client = "idle"
      /\ UNCHANGED <<mPendingRequest, mFlush, mWokenUpByDaemon, client, flusher, next, reprocess, timeouts>>
      /\ UNCHANGED <<results, shutters, told>>
  BY DEF configureStreams, answers
<1>2. \A b \in handed : results[b] # <<>> \/ b[1] \in refused
  BY DEF configureStreams
<1>3. Pending' = {} /\ PendingFrames' = {}
  BY <1>1 DEF Pending, PendingFrames
<1>4. TypeOK'
  <2>1. /\ <<>> \in Seq(RequestInfos) /\ TRUE \in BOOLEAN
        /\ {} \subseteq Buffers /\ {} \subseteq Frames
        /\ \A k, l \in DOMAIN <<>> : k < l => <<>>[k].frame < <<>>[l].frame
    OBVIOUS
  <2>2. handed' \subseteq Buffers
    BY <1>1, Types DEF IInv
  <2>3. TypeOK
    BY DEF IInv
  <2> QED BY <1>1, <2>1, <2>2, <2>3, Zenon DEF TypeOK
<1>5. Earlier' /\ FlagsAgree'
  BY <1>1, <1>3 DEF IInv, Earlier, FlagsAgree
<1>6. PendingHanded' /\ KeptOnce' /\ EndInOrder' /\ KeptAwaitsCapture'
  BY <1>1, <1>3 DEF PendingHanded, KeptOnce, EndInOrder, KeptAwaitsCapture
<1>7. BuffersOut' /\ BuffersAccounted'
  BY <1>1 DEF IInv, BuffersOut, BuffersAccounted
<1>8. CountInv'
  <2>1. IsFiniteSet(refused') /\ Cardinality(refused') = 0
    BY <1>1, FS_EmptySet
  <2>2. InFlight' = 0 /\ Len(mPendingRequestsList') = 0
    BY <1>1 DEF InFlight
  <2>3. 0 < MAX_INFLIGHT_REQUESTS + timeouts
    BY CountTypes
  <2> QED BY <1>1, <2>1, <2>2, <2>3, CountTypes DEF CountInv
<1>9. ShuttersInv'
  BY <1>1, <1>3 DEF IInv, ShuttersInv, ShuttersInOrder
<1>10. DroppedInv'
  <2>1. \A b \in told : b \in handed' /\ b[1] \notin reprocess /\ results[b] # <<>>
    BY <1>1, <1>2 DEF IInv, DroppedInv, BuffersOut
  <2> QED BY <1>1, <1>3, <2>1 DEF IInv, DroppedInv
<1> QED BY <1>4, <1>5, <1>6, <1>7, <1>8, <1>9, <1>10 DEF IInv

-----------------------------------------------------------------------------
(* Every step keeps the invariant.                                          *)
LEMMA NextIInv ==
  ASSUME IInv, [Next]_vars
  PROVE  IInv'
<1>1. CASE Refuse
  BY <1>1, RefuseStep
<1>2. CASE Request
  <2>1. ASSUME NEW S \in OutputSets, processCaptureRequest(S, FALSE) PROVE IInv'
    BY <2>1, StreamAssumption, RequestStep
  <2>2. CASE processCaptureRequest({Blob}, TRUE)
    BY <2>2, StreamAssumption, RequestStep
  <2> QED BY <1>2, <2>1, <2>2 DEF Request
<1>3. CASE Wake
  BY <1>3, WakeStep
<1>4. CASE Timeout
  BY <1>4, TimeoutStep
<1>5. CASE camEvtHandle
  BY <1>5, SignalledStep DEF camEvtHandle
<1>6. CASE Metadata
  BY <1>6, MetadataStep DEF Metadata
<1>7. CASE StartOfFrame
  <2>1. mWokenUpByDaemon' \in BOOLEAN
    BY <1>7 DEF StartOfFrame, flags, IInv, TypeOK
  <2> QED BY <1>7, <2>1, SignalledStep DEF StartOfFrame, flags
<1>8. CASE \E s \in Streams : Image(s)
  <2>1. PICK b : handleBufferWithLock(b)
    BY <1>8 DEF Image
  <2>2. b \in imageDue
    BY <2>1 DEF handleBufferWithLock
  <2>3. BufferOfEndedRequest(b) \/ BufferOfReprocess(b) \/ BufferOfPendingRequest(b)
    BY <2>1 DEF handleBufferWithLock
  <2> QED BY <2>1, <2>2, <2>3, EndedImage, FilledImage, ReprocessImage
<1>9. CASE FlushBegin \/ StopStreams \/ StopMetadata
  BY <1>9, StoppingStep
<1>10. CASE Flush
  BY <1>10, FlushedStep
<1>11. CASE configureStreams
  BY <1>11, ConfigureStep
<1>12. CASE UNCHANGED vars
  <2>1. /\ Earlier' /\ PendingHanded' /\ BuffersOut' /\ BuffersAccounted' /\ KeptOnce'
        /\ EndInOrder' /\ KeptAwaitsCapture' /\ ShuttersInv' /\ DroppedInv'
    BY <1>12, QuietStep DEF vars, channels, asked
  <2>2. TypeOK'
    BY <1>12, Zenon DEF vars, lists, flags, channels, asked, answers, IInv, TypeOK
  <2>3. FlagsAgree'
    BY <1>12 DEF vars, flags, channels, IInv, FlagsAgree
  <2>4. CountInv'
    <3>1. InFlight' = InFlight
      BY <1>12 DEF vars, flags, InFlight
    <3> QED BY <1>12, <3>1 DEF vars, flags, lists, asked, IInv, CountInv
  <2> QED BY <2>1, <2>2, <2>3, <2>4 DEF IInv
<1> QED BY <1>1, <1>2, <1>3, <1>4, <1>5, <1>6, <1>7, <1>8, <1>9, <1>10, <1>11, <1>12 DEF Next, FlushStep

(* The invariant holds in every reachable state.                            *)
THEOREM IInvHolds == Spec => []IInv
<1>1. Init => IInv
  BY InitIInv
<1>2. IInv /\ [Next]_vars => IInv'
  BY NextIInv
<1> QED BY <1>1, <1>2, PTL DEF Spec

(* The state is of the types above, and the list in the order of frames.    *)
THEOREM TypesHold == Spec => []TypeOK
<1>1. IInv => TypeOK
  BY DEF IInv
<1> QED BY <1>1, IInvHolds, PTL

(* No buffer is returned twice, and a capture's is where flush finds it     *)
(* until it is returned (handleMetadataWithLock, handleBufferWithLock).     *)
THEOREM EveryBufferAccounted == Spec => []BuffersAccounted
<1>1. IInv => BuffersAccounted
  BY DEF IInv
<1> QED BY <1>1, IInvHolds, PTL

(* mPendingRequest is the number of pending requests, but for the refused.  *)
THEOREM CountIsRight == Spec => []CountMatches
<1>1. IInv => CountMatches
  <2> SUFFICES ASSUME IInv, ~mFirstRequest, ~mFlush
               PROVE  mPendingRequest = Len(mPendingRequestsList) - Cardinality(refused)
    BY DEF CountMatches
  <2> QED BY DEF IInv, CountInv, InFlight
<1> QED BY <1>1, IInvHolds, PTL

(* However the client is woken, it is held back before more than            *)
(* MAX_INFLIGHT_REQUESTS are in flight, unless its wait timed out.          *)
THEOREM ClientHeldBack == Spec => []InFlightBounded
<1>1. IInv => InFlightBounded
  <2> SUFFICES ASSUME IInv, ~mFlush
               PROVE  Len(mPendingRequestsList) <= MAX_INFLIGHT_REQUESTS + timeouts + Cardinality(refused)
    BY DEF InFlightBounded
  <2>1. /\ InFlight = Len(mPendingRequestsList) - Cardinality(refused)
        /\ InFlight <= MAX_INFLIGHT_REQUESTS + timeouts
    BY DEF IInv, CountInv
  <2>2. \A l, c, m, t \in Int : l - c <= m + t => l <= m + t + c
    OBVIOUS
  <2>3. /\ Len(mPendingRequestsList) \in Int /\ Cardinality(refused) \in Int
        /\ MAX_INFLIGHT_REQUESTS \in Int /\ timeouts \in Int
    BY CountTypes
  <2> QED BY ONLY <2>1, <2>2, <2>3
<1> QED BY <1>1, IInvHolds, PTL

(* One shutter notification for each frame, in the order of the captures.   *)
THEOREM ShuttersComeInOrder == Spec => []ShuttersInOrder
<1>1. IInv => ShuttersInOrder
  BY DEF IInv, ShuttersInv
<1> QED BY <1>1, IInvHolds, PTL

(* A kept reprocess result does not outlast the capture it waits for.       *)
THEOREM KeptAwaits == Spec => []KeptAwaitsCapture
<1>1. IInv => KeptAwaitsCapture
  BY DEF IInv
<1> QED BY <1>1, IInvHolds, PTL

(* A callback that returns a buffer says that it is good or an error.       *)
LEMMA NoneFailed ==
  ASSUME TypeOK, NEW X, NEW st, st \in [Buffers -> {"ok", "error"}],
         results' = [c \in Buffers |-> IF c \in X THEN Append(results[c], st[c]) ELSE results[c]],
         NEW b \in Buffers, results[b] = <<>>
  PROVE  results'[b] # <<"failed">>
<1>1. CASE b \in X
  <2>1. results'[b] = Append(<<>>, st[b])
    BY <1>1
  <2>2. \A x : Append(<<>>, x) = <<x>>
    OBVIOUS
  <2>3. results'[b] = <<st[b]>> /\ st[b] # "failed"
    BY <2>1, <2>2
  <2> QED BY <2>3
<1>2. CASE b \notin X
  <2>1. results'[b] = <<>>
    BY <1>2
  <2> QED BY <2>1
<1> QED BY <1>1, <1>2

(* While requests are pending, flush reports no request as failed whose     *)
(* shutter notification went out.                                           *)
THEOREM FailedAreUnstarted == Spec => ErrorRequestsUnstarted
<1> DEFINE Unstarted ==
        mPendingRequestsList # <<>> =>
            \A b \in Buffers, k \in DOMAIN shutters :
                results[b] = <<>> /\ results'[b] = <<"failed">> => b[1] # shutters[k]
<1>1. IInv /\ [Next]_vars => [Unstarted]_vars
  <2> SUFFICES ASSUME IInv, [Next]_vars, mPendingRequestsList # <<>>,
                      NEW b \in Buffers, NEW k \in DOMAIN shutters,
                      results[b] = <<>>, results'[b] = <<"failed">>
               PROVE  b[1] # shutters[k]
    OBVIOUS
  <2>0. TypeOK
    BY DEF IInv
  <2>1. results' # results
    OBVIOUS
  <2>2. ASSUME NEW n \in Frames, NEW D \in SUBSET Streams, handleMetadataWithLock(n, D) PROVE FALSE
    <3>1. PICK j : EndRequests(j, n, D)
      BY <2>2 DEF handleMetadataWithLock
    <3> DEFINE X == Filled(j) \cup ((Released(j, n) \cap PendingFrames) \X {Blob})
               st == [c \in Buffers |-> StatusAt(c, n, D)]
    <3>2. results' = [c \in Buffers |-> IF c \in X THEN Append(results[c], st[c]) ELSE results[c]]
      BY <3>1 DEF EndRequests, Answer
    <3>3. st \in [Buffers -> {"ok", "error"}]
      BY DEF StatusAt
    <3> HIDE DEF X, st
    <3> QED BY <2>0, <3>2, <3>3, NoneFailed
  <2>3. ASSUME NEW c, handleBufferWithLock(c) PROVE FALSE
    <3>1. CASE BufferOfEndedRequest(c)
      <4> DEFINE st == [d \in Buffers |-> IF d \in mPendingFrameDropList THEN "error" ELSE "ok"]
      <4>1. results' = [d \in Buffers |-> IF d \in {c} THEN Append(results[d], st[d]) ELSE results[d]]
        BY <3>1 DEF BufferOfEndedRequest, Answer
      <4>2. st \in [Buffers -> {"ok", "error"}]
        OBVIOUS
      <4> HIDE DEF st
      <4> QED BY <2>0, <4>1, <4>2, NoneFailed
    <3>2. CASE BufferOfReprocess(c)
      <4> DEFINE st == [d \in Buffers |-> "ok"]
      <4>1. results' = [d \in Buffers |-> IF d \in {c} THEN Append(results[d], st[d]) ELSE results[d]]
        BY <2>1, <3>2 DEF BufferOfReprocess, Answer
      <4>2. st \in [Buffers -> {"ok", "error"}]
        OBVIOUS
      <4> HIDE DEF st
      <4> QED BY <2>0, <4>1, <4>2, NoneFailed
    <3>3. CASE BufferOfPendingRequest(c)
      BY <2>1, <3>3 DEF BufferOfPendingRequest
    <3> QED BY <2>3, <3>1, <3>2, <3>3 DEF handleBufferWithLock
  <2>4. CASE Flush
    <3> DEFINE first == Head(mPendingRequestsList).frame
    <3>1. results' = [c \in Buffers |-> IF c \in mPendingBuffersMap
                        THEN Append(results[c], FlushStatus(c, first)) ELSE results[c]]
      BY <2>4 DEF Flush, Answer, OldestFrames
    <3>2. first \in PendingFrames /\ first \in Nat
      <4>1. mPendingRequestsList \in Seq(RequestInfos)
        BY ListFacts DEF IInv
      <4>2. Head(mPendingRequestsList) = mPendingRequestsList[1] /\ 1 \in DOMAIN mPendingRequestsList
        BY <4>1, HeadTailProperties, LenProperties, EmptySeq
      <4> QED BY SMTT(30), <4>2, ListFacts, Types DEF IInv, PendingFrames, Pending
    <3> HIDE DEF first
    <3>3. b \in mPendingBuffersMap /\ FlushStatus(b, first) # "error"
      <4>1. b \in mPendingBuffersMap
        BY <2>1, <3>1
      <4>2. results'[b] = Append(<<>>, FlushStatus(b, first))
        BY <3>1, <4>1
      <4>3. \A x : Append(<<>>, x) = <<x>>
        OBVIOUS
      <4>4. <<"error">> # <<"failed">>
        OBVIOUS
      <4> QED BY <4>1, <4>2, <4>3, <4>4
    <3>4. b[1] >= first /\ b[1] \in Nat
      BY <3>3, Types DEF IInv, FlushStatus
    <3>5. b[1] \in PendingFrames
      BY <3>2, <3>3, <3>4 DEF IInv, EndInOrder
    <3> QED BY <3>5 DEF IInv, ShuttersInv
  <2>5. CASE Refuse \/ Request \/ Wake \/ Timeout \/ camEvtHandle \/ StartOfFrame
    BY <2>1, <2>5 DEF Refuse, Request, processCaptureRequest, Wake, Timeout, camEvtHandle, StartOfFrame, answers
  <2>6. CASE FlushBegin \/ StopStreams \/ StopMetadata \/ configureStreams
    BY <2>1, <2>6 DEF FlushBegin, StopStreams, StopMetadata, configureStreams, answers
  <2>7. CASE UNCHANGED vars
    BY <2>1, <2>7 DEF vars, answers
  <2> QED BY <2>2, <2>3, <2>4, <2>5, <2>6, <2>7 DEF Next, FlushStep, Metadata, Image
<1> QED BY <1>1, IInvHolds, PTL DEF Spec, ErrorRequestsUnstarted

(* What a callback returns bears the status that it says.                   *)
LEMMA StatusSent ==
  ASSUME TypeOK, NEW X, NEW st,
         results' = [c \in Buffers |-> IF c \in X THEN Append(results[c], st[c]) ELSE results[c]],
         NEW b \in Buffers, results[b] = <<>>, results'[b] = <<"ok">>
  PROVE  b \in X /\ st[b] = "ok"
<1>1. b \in X
  BY DEF TypeOK
<1>2. results'[b] = Append(<<>>, st[b])
  BY <1>1
<1>3. \A x : Append(<<>>, x) = <<x>> /\ <<x>>[1] = x
  OBVIOUS
<1>4. <<st[b]>> = <<"ok">>
  BY <1>2, <1>3
<1> QED BY <1>1, <1>3, <1>4

(* A buffer reported as dropped is not returned as good, but one that was   *)
(* filled before the metadata of a later frame report it: that one goes out *)
(* as good with the report.                                                 *)
THEOREM DroppedAreErrors == Spec => DroppedIsError
<1> DEFINE Errors ==
        \A b \in told' : results[b] = <<>> /\ results'[b] = <<"ok">> =>
            b \notin told /\ \E n \in metaDue \ metaDue' : b[1] < n
<1>1. IInv /\ [Next]_vars => [Errors]_vars
  <2> SUFFICES ASSUME IInv, [Next]_vars, NEW b \in told', results[b] = <<>>, results'[b] = <<"ok">>
               PROVE  b \notin told /\ \E n \in metaDue \ metaDue' : b[1] < n
    OBVIOUS
  <2>0. TypeOK /\ \A c \in told : /\ c \in Buffers /\ c[1] \notin reprocess /\ c[1] \notin PendingFrames
                                  /\ results[c] = <<>> => c \in mPendingFrameDropList
    BY DEF IInv, DroppedInv, TypeOK
  <2>1. results' # results
    <3>1. <<>> # <<"ok">>
      OBVIOUS
    <3> QED BY <3>1
  <2>2. ASSUME NEW n \in Frames, NEW D \in SUBSET Streams, handleMetadataWithLock(n, D)
        PROVE  b \notin told /\ \E m \in metaDue \ metaDue' : b[1] < m
    <3>1. PICK k \in 0 .. Len(mPendingRequestsList) : EndsFirst(k, n) /\ EndRequests(k, n, D)
      BY <2>2 DEF handleMetadataWithLock
    <3> DEFINE R == (Released(k, n) \cap PendingFrames) \X {Blob}
               st == [c \in Buffers |-> StatusAt(c, n, D)]
    <3>2. results' = [c \in Buffers |-> IF c \in Filled(k) \cup R THEN Append(results[c], st[c]) ELSE results[c]]
      BY <3>1 DEF EndRequests, Answer
    <3>3. b \in Buffers /\ (b \in told \/ b \in DropReported(k, D))
      <4>1. told' = told \cup DropReported(k, D)
        BY <3>1 DEF EndRequests
      <4>2. IInv'
        BY <2>2, MetadataStep
      <4> QED BY <4>1, <4>2 DEF IInv, TypeOK
    <3>4. b \in Filled(k) \cup R /\ StatusAt(b, n, D) = "ok"
      <4>1. b \in Filled(k) \cup R /\ st[b] = "ok"
        <5> HIDE DEF R, st
        <5> QED BY <2>0, <3>2, <3>3, StatusSent
      <4> QED BY <3>3, <4>1
    <3>5. \A c \in Filled(k) \cup R : c[1] \in PendingFrames
      <4>1. \A i \in First(k) : i.frame \in PendingFrames
        BY ListFacts DEF IInv, First, PendingFrames, Pending
      <4> QED BY <4>1 DEF Filled, Outputs
    <3>6. b \notin told /\ b \in DropReported(k, D)
      BY <2>0, <3>3, <3>4, <3>5
    <3>7. b[2] \in D \ {Blob}
      BY <3>6 DEF DropReported, Outputs
    <3>8. b[1] # n
      BY <3>4, <3>7 DEF StatusAt
    <3>9. b[1] <= n /\ b[1] \in Nat /\ n \in Nat
      <4>1. \A i \in First(k) : i.frame <= n
        BY <3>1, ListFacts DEF IInv, EndsFirst, First
      <4>2. PICK i \in First(k) : b \in Outputs(i.frame, (i.streams \cap D) \ {Blob})
        BY <3>6 DEF DropReported
      <4>3. b[1] = i.frame
        BY <4>2 DEF Outputs
      <4>4. b[1] \in Frames /\ Frames \subseteq Nat
        BY <3>3, Types DEF Buffers, IInv
      <4> QED BY <4>1, <4>2, <4>3, <4>4
    <3>10. n \in metaDue /\ n \notin metaDue'
      BY <2>2, <3>9 DEF handleMetadataWithLock
    <3> QED BY <3>6, <3>8, <3>9, <3>10
  <2>3. ASSUME NEW c, handleBufferWithLock(c) PROVE FALSE
    <3>0. b \in told /\ b \in Buffers /\ b[1] \notin reprocess /\ b \in mPendingFrameDropList
      BY <2>0, <2>3 DEF handleBufferWithLock
    <3>1. CASE BufferOfEndedRequest(c)
      <4> DEFINE st == [d \in Buffers |-> IF d \in mPendingFrameDropList THEN "error" ELSE "ok"]
      <4>1. results' = [d \in Buffers |-> IF d \in {c} THEN Append(results[d], st[d]) ELSE results[d]]
        BY <3>1 DEF BufferOfEndedRequest, Answer
      <4>2. st[b] = "error"
        BY <3>0
      <4> HIDE DEF st
      <4>3. b \in {c} /\ st[b] = "ok"
        <5> DEFINE X == {c}
        <5>1. results' = [d \in Buffers |-> IF d \in X THEN Append(results[d], st[d]) ELSE results[d]]
          BY <4>1
        <5> HIDE DEF X
        <5>2. b \in X /\ st[b] = "ok"
          BY <2>0, <3>0, <5>1, StatusSent
        <5> QED BY <5>2 DEF X
      <4> QED BY <4>2, <4>3
    <3>2. CASE BufferOfReprocess(c)
      <4> DEFINE st == [d \in Buffers |-> "ok"]
      <4>1. results' = [d \in Buffers |-> IF d \in {c} THEN Append(results[d], st[d]) ELSE results[d]]
        BY <2>1, <3>2 DEF BufferOfReprocess, Answer
      <4> HIDE DEF st
      <4>2. b \in {c}
        BY <2>0, <3>0, <4>1, StatusSent
      <4>3. b[1] \in PendingFrames
        BY <3>2, <4>2 DEF BufferOfReprocess
      <4> QED BY <2>0, <3>0, <4>3
    <3>3. CASE BufferOfPendingRequest(c)
      BY <2>1, <3>3 DEF BufferOfPendingRequest
    <3> QED BY <2>3, <3>1, <3>2, <3>3 DEF handleBufferWithLock
  <2>4. CASE Flush
    <3>1. PICK first : results' = [c \in Buffers |-> IF c \in mPendingBuffersMap
                          THEN Append(results[c], FlushStatus(c, first)) ELSE results[c]]
      BY <2>4 DEF Flush, Answer
    <3>2. b \in Buffers
      BY <2>0, <2>4 DEF Flush
    <3> DEFINE st == [c \in Buffers |-> FlushStatus(c, first)]
    <3>3. results' = [c \in Buffers |-> IF c \in mPendingBuffersMap THEN Append(results[c], st[c]) ELSE results[c]]
      BY <3>1
    <3>4. st[b] # "ok"
      BY <3>2 DEF FlushStatus
    <3> HIDE DEF st
    <3> QED BY <2>0, <3>2, <3>3, <3>4, StatusSent
  <2>5. CASE Refuse \/ Request \/ Wake \/ Timeout \/ camEvtHandle \/ StartOfFrame
    BY <2>1, <2>5 DEF Refuse, Request, processCaptureRequest, Wake, Timeout, camEvtHandle, StartOfFrame, answers
  <2>6. CASE FlushBegin \/ StopStreams \/ StopMetadata \/ configureStreams
    BY <2>1, <2>6 DEF FlushBegin, StopStreams, StopMetadata, configureStreams, answers
  <2>7. CASE UNCHANGED vars
    BY <2>1, <2>7 DEF vars, answers
  <2> QED BY <2>2, <2>3, <2>4, <2>5, <2>6, <2>7 DEF Next, FlushStep, Metadata, Image
<1> QED BY <1>1, IInvHolds, PTL DEF Spec, DroppedIsError

=============================================================================
