----------------------- MODULE AgpsStateMachine_proofs -----------------------
(***************************************************************************)
(* For every set of subscribers, every kind of machine and every bound:    *)
(* the lists match the state, and each subscriber was told what holds.     *)
(* The two are proved together, with the type invariant and the fact that  *)
(* only the WIFI machine has inactive subscribers: a machine that drops    *)
(* its subscribers at once would otherwise be left in Releasing with       *)
(* nobody to wait for.  That a pending machine is answered rests on more:  *)
(* the last message under way to the framework is then its request.        *)
(***************************************************************************)
EXTENDS AgpsStateMachine, SequenceTheorems, TLAPS

OnlyWifiWaits == inactive # {} => waitForCloseComplete

IInv == TypeOK /\ StateMatchesSubscribers /\ EachKnowsItsPlace /\ OnlyWifiWaits

(* A new machine has no subscribers. *)
LEMMA InitIInv == Init => IInv
  BY TypesAssumption DEF Init, IInv, TypeOK, StateMatchesSubscribers, EachKnowsItsPlace, OnlyWifiWaits,
     hasSubscribers, hasActiveSubscribers, active, waitForCloseComplete, NifTypes

(* Requests and answers stay what they are, whoever sends them. *)
LEMMA RequestsTyped ==
  ASSUME toAfw \in Seq({"REQUEST", "RELEASE"}),
         sendRsrcRequest("REQUEST") \/ sendRsrcRequest("RELEASE") \/ UNCHANGED toAfw
  PROVE  toAfw' \in Seq({"REQUEST", "RELEASE"})
  BY DEF sendRsrcRequest

(* A new subscriber is refused, or joins the list in every state. *)
LEMMA SubscribeStep ==
  ASSUME IInv, NEW i \in Ids, subscribeRsrc(i)
  PROVE  IInv'
<1> USE DEF IInv, subscribeRsrc
<1>1. CASE mEnforceSingleSubscriber /\ hasSubscribers
  BY <1>1 DEF Tell, KeepAll, TypeOK, StateMatchesSubscribers, EachKnowsItsPlace, OnlyWifiWaits,
     hasSubscribers, hasActiveSubscribers, active, waitForCloseComplete, mEnforceSingleSubscriber
<1>2. CASE onSubscribe(i)
  <2>1. TypeOK'
    BY <1>2, RequestsTyped DEF onSubscribe, addSubscriber, Tell, TypeOK
  <2>2. StateMatchesSubscribers'
    BY <1>2 DEF onSubscribe, addSubscriber, TypeOK, StateMatchesSubscribers, EachKnowsItsPlace,
       hasSubscribers, hasActiveSubscribers, active
  <2>3. EachKnowsItsPlace'
    BY <1>2 DEF onSubscribe, addSubscriber, Tell, TypeOK, StateMatchesSubscribers, EachKnowsItsPlace,
       hasSubscribers, hasActiveSubscribers, active
  <2>4. OnlyWifiWaits'
    BY <1>2 DEF onSubscribe, addSubscriber, OnlyWifiWaits, waitForCloseComplete
  <2> QED BY <2>1, <2>2, <2>3, <2>4
<1> QED BY <1>1, <1>2

(* A subscriber that leaves takes the machine along when it was the last. *)
LEMMA UnsubscribeStep ==
  ASSUME IInv, NEW i \in Ids, unsubscribeRsrc(i)
  PROVE  IInv'
<1> USE DEF IInv, unsubscribeRsrc
<1>1. toAfw' \in Seq({"REQUEST", "RELEASE"})
  BY RequestsTyped DEF AfterUnsubscribe, TypeOK
<1>2. TypeOK'
  BY <1>1 DEF AfterUnsubscribe, Remove, Tell, TypeOK
<1>3. OnlyWifiWaits'
  BY DEF Remove, OnlyWifiWaits, waitForCloseComplete
<1>4. StateMatchesSubscribers'
  BY <1>3 DEF AfterUnsubscribe, Remove, Tell, TypeOK, StateMatchesSubscribers, EachKnowsItsPlace,
     OnlyWifiWaits, hasSubscribers, hasActiveSubscribers, active, waitForCloseComplete
<1>5. EachKnowsItsPlace'
  <2>1. CASE waitForCloseComplete
    BY <2>1 DEF AfterUnsubscribe, Tell, TypeOK, StateMatchesSubscribers, EachKnowsItsPlace,
       hasSubscribers, hasActiveSubscribers, active
  <2>2. CASE ~waitForCloseComplete
    BY <2>2 DEF AfterUnsubscribe, Remove, Tell, TypeOK, StateMatchesSubscribers, EachKnowsItsPlace,
       OnlyWifiWaits, hasSubscribers, hasActiveSubscribers, active
  <2> QED BY <2>1, <2>2
<1> QED BY <1>2, <1>3, <1>4, <1>5

(* Answers are taken from the front of a well-typed queue. *)
LEMMA AnswersTyped ==
  ASSUME TypeOK, NEW event, NextAnswer(event)
  PROVE  toSm' \in Seq({"GRANTED", "RELEASED", "DENIED"})
  BY DEF NextAnswer, TypeOK

(* ... and appended to one. *)
LEMMA AnswerAppended ==
  ASSUME TypeOK, NEW event \in {"GRANTED", "RELEASED", "DENIED"}, Answers(event)
  PROVE  toSm' \in Seq({"GRANTED", "RELEASED", "DENIED"})
  BY DEF Answers, TypeOK

(* GRANTED moves only a pending machine, and tells its active subscribers. *)
LEMMA GrantedStep ==
  ASSUME IInv, onGranted
  PROVE  IInv'
<1>1. TypeOK'
  BY AnswersTyped DEF IInv, onGranted, KeepAll, Tell, TypeOK
<1>2. StateMatchesSubscribers' /\ OnlyWifiWaits'
  BY DEF IInv, onGranted, KeepAll, StateMatchesSubscribers, OnlyWifiWaits,
     hasSubscribers, hasActiveSubscribers, active, waitForCloseComplete
<1>3. EachKnowsItsPlace'
  BY DEF IInv, onGranted, KeepAll, Tell, TypeOK, EachKnowsItsPlace, active
<1> QED BY <1>1, <1>2, <1>3 DEF IInv

(* A denial, or a forced release, empties the list and tells everybody. *)
LEMMA DropsAllStep ==
  ASSUME IInv, DropsAll, UNCHANGED <<mType, afw>>,
         toSm' \in Seq({"GRANTED", "RELEASED", "DENIED"})
  PROVE  IInv'
  BY DEF IInv, DropsAll, Remove, Tell, TypeOK, StateMatchesSubscribers, EachKnowsItsPlace,
     OnlyWifiWaits, hasSubscribers, hasActiveSubscribers, active, waitForCloseComplete

(* A completed release takes the inactive subscribers off the list. *)
LEMMA ReleaseCompletesStep ==
  ASSUME IInv, mStatePtr = "Releasing", ReleaseCompletes, UNCHANGED <<mType, afw>>,
         toSm' \in Seq({"GRANTED", "RELEASED", "DENIED"})
  PROVE  IInv'
<1>1. TypeOK'
  BY RequestsTyped DEF IInv, ReleaseCompletes, Remove, Tell, TypeOK
<1>2. StateMatchesSubscribers' /\ OnlyWifiWaits'
  BY DEF IInv, ReleaseCompletes, Remove, TypeOK, StateMatchesSubscribers, OnlyWifiWaits,
     hasSubscribers, hasActiveSubscribers, active, waitForCloseComplete
<1>3. EachKnowsItsPlace'
  BY DEF IInv, ReleaseCompletes, Remove, Tell, TypeOK, EachKnowsItsPlace,
     hasActiveSubscribers, active
<1> QED BY <1>1, <1>2, <1>3 DEF IInv

(* What only moves messages, or the connection, leaves the rest alone. *)
LEMMA UnmovedStep ==
  ASSUME IInv, UNCHANGED machine,
         toAfw' \in Seq({"REQUEST", "RELEASE"}),
         toSm' \in Seq({"GRANTED", "RELEASED", "DENIED"}),
         afw' \in {"closed", "opening", "open"}
  PROVE  IInv'
  BY DEF IInv, machine, TypeOK, StateMatchesSubscribers, EachKnowsItsPlace,
     OnlyWifiWaits, hasSubscribers, hasActiveSubscribers, active, waitForCloseComplete

(* Every step keeps the invariant. *)
LEMMA NextIInv == IInv /\ [Next]_vars => IInv'
<1> SUFFICES ASSUME IInv, [Next]_vars PROVE IInv'
  OBVIOUS
<1>1. ASSUME NEW i \in Ids, subscribeRsrc(i) PROVE IInv'
  BY <1>1, SubscribeStep
<1>2. ASSUME NEW i \in Ids, unsubscribeRsrc(i) PROVE IInv'
  BY <1>2, UnsubscribeStep
<1>3. CASE onGranted
  BY <1>3, GrantedStep
<1>4. CASE onReleased
  <2>1. toSm' \in Seq({"GRANTED", "RELEASED", "DENIED"})
    BY <1>4, AnswersTyped DEF onReleased, IInv
  <2>2. CASE DropsAll
    BY <1>4, <2>1, <2>2, DropsAllStep DEF onReleased
  <2>3. CASE mStatePtr = "Releasing" /\ ReleaseCompletes
    BY <1>4, <2>1, <2>3, ReleaseCompletesStep DEF onReleased
  <2>4. CASE Unmoved
    BY <1>4, <2>1, <2>4, UnmovedStep DEF onReleased, Unmoved, KeepAll, machine, IInv, TypeOK
  <2> QED BY <1>4, <2>2, <2>3, <2>4 DEF onReleased
<1>5. CASE onDenied
  <2>1. toSm' \in Seq({"GRANTED", "RELEASED", "DENIED"})
    BY <1>5, AnswersTyped DEF onDenied, IInv
  <2>2. CASE DropsAll
    BY <1>5, <2>1, <2>2, DropsAllStep DEF onDenied
  <2>3. CASE mStatePtr = "Releasing" /\ ReleaseCompletes
    BY <1>5, <2>1, <2>3, ReleaseCompletesStep DEF onDenied
  <2>4. CASE Unmoved
    BY <1>5, <2>1, <2>4, UnmovedStep DEF onDenied, Unmoved, KeepAll, machine, IInv, TypeOK
  <2> QED BY <1>5, <2>2, <2>3, <2>4 DEF onDenied
<1>6. CASE AfwHears
  <2>1. toAfw' \in Seq({"REQUEST", "RELEASE"})
    BY <1>6 DEF AfwHears, IInv, TypeOK
  <2>2. toSm' \in Seq({"GRANTED", "RELEASED", "DENIED"})
    <3>1. Answers("GRANTED") \/ Answers("RELEASED") \/ UNCHANGED toSm
      BY <1>6 DEF AfwHears
    <3> QED BY <3>1, AnswerAppended DEF IInv, TypeOK
  <2>3. afw' \in {"closed", "opening", "open"} /\ UNCHANGED machine
    BY <1>6 DEF AfwHears, IInv, TypeOK
  <2> QED BY <2>1, <2>2, <2>3, UnmovedStep
<1>7. CASE AfwDecides
  <2>1. toSm' \in Seq({"GRANTED", "RELEASED", "DENIED"})
    <3>1. Answers("GRANTED") \/ Answers("DENIED")
      BY <1>7 DEF AfwDecides
    <3> QED BY <3>1, AnswerAppended DEF IInv, TypeOK
  <2>2. /\ afw' \in {"closed", "opening", "open"} /\ UNCHANGED machine
        /\ toAfw' \in Seq({"REQUEST", "RELEASE"})
    BY <1>7 DEF AfwDecides, IInv, TypeOK
  <2> QED BY <2>1, <2>2, UnmovedStep
<1>8. CASE AfwDrops
  BY <1>8, UnmovedStep DEF AfwDrops, Answers, IInv, TypeOK
<1>9. CASE UNCHANGED vars
  BY <1>9, UnmovedStep DEF vars, machine, IInv, TypeOK
<1> QED BY <1>1, <1>2, <1>3, <1>4, <1>5, <1>6, <1>7, <1>8, <1>9 DEF Next, onRsrcEvent

(* The invariant of every machine, on which the three theorems below rest. *)
THEOREM IInvHolds == Spec => []IInv
  BY InitIInv, NextIInv, PTL DEF Spec

(* Every variable has its type, for every set of subscribers. *)
THEOREM TypeCorrect == Spec => []TypeOK
  BY IInvHolds, PTL DEF IInv

(* onRsrcEvent in Released never meets a subscriber, Pending and Acquired    *)
(* never lack one, Releasing never waits for nobody.                         *)
THEOREM ListsMatchState == Spec => []StateMatchesSubscribers
  BY IInvHolds, PTL DEF IInv

(* notifySubscribers leaves nobody out and tells nobody what does not hold. *)
THEOREM NobodyForgotten == Spec => []EachKnowsItsPlace
  BY IInvHolds, PTL DEF IInv

-----------------------------------------------------------------------------
(* A pending machine has been heard, or will be: the last request under way *)
(* is its own, for whatever lets go of the connection leaves Pending.       *)
LastIsRequest == mStatePtr = "Pending" /\ toAfw # <<>> => toAfw[Len(toAfw)] = "REQUEST"

AInv == IInv /\ LastIsRequest /\ PendingIsAnswered

(* What occurs in a queue still does when something else is taken. *)
LEMMA OccursTail ==
  ASSUME NEW T, NEW s \in Seq(T), s # <<>>, NEW x, Occurs(x, s), Head(s) # x
  PROVE  Occurs(x, Tail(s))
<1>1. PICK k \in 1 .. Len(s) : s[k] = x
  BY DEF Occurs
<1>2. k # 1
  BY <1>1
<1>3. k - 1 \in 1 .. Len(Tail(s)) /\ Tail(s)[k - 1] = s[k]
  BY <1>1, <1>2
<1>4. Tail(s)[k - 1] = x /\ k - 1 \in DOMAIN Tail(s)
  BY <1>1, <1>3
<1> QED BY <1>4 DEF Occurs

(* ... or put in. *)
LEMMA OccursAppend ==
  ASSUME NEW T, NEW s \in Seq(T), NEW y \in T
  PROVE  Occurs(y, Append(s, y)) /\ \A x : Occurs(x, s) => Occurs(x, Append(s, y))
  BY SMTT(30) DEF Occurs

(* The last of a queue stays the last until it is the first. *)
LEMMA LastOfTail ==
  ASSUME NEW T, NEW s \in Seq(T), s # <<>>
  PROVE  \/ Tail(s) = <<>> /\ Head(s) = s[Len(s)]
         \/ Tail(s) # <<>> /\ Tail(s)[Len(Tail(s))] = s[Len(s)]
<1>1. /\ Len(s) \in Nat \ {0} /\ Len(Tail(s)) = Len(s) - 1 /\ Tail(s) \in Seq(T)
      /\ \A i \in 1 .. Len(Tail(s)) : Tail(s)[i] = s[i + 1]
  BY HeadTailProperties, EmptySeq
<1>2. CASE Len(s) = 1
  <2>1. Len(Tail(s)) = 0 /\ Tail(s) \in Seq(T)
    BY <1>1, <1>2
  <2>2. Tail(s) # <<>> => Len(Tail(s)) \in Nat \ {0}
    BY <2>1, EmptySeq, Zenon
  <2>3. Head(s) = s[Len(s)]
    BY <1>2
  <2> QED BY <2>1, <2>2, <2>3
<1>3. CASE Len(s) # 1
  <2>1. Len(Tail(s)) # 0 /\ Tail(s)[Len(Tail(s))] = s[Len(s)]
    BY <1>1, <1>3
  <2> QED BY <2>1, EmptySeq
<1> QED BY <1>2, <1>3

(* A queue that ends in x has it. *)
LEMMA LastOccurs ==
  ASSUME NEW T, NEW s \in Seq(T), s # <<>>
  PROVE  Occurs(s[Len(s)], s)
  BY DEF Occurs

(* Who comes to Pending has just asked, and who stays there asks nothing.   *)
LEMMA PendingAsks ==
  ASSUME AInv, IInv', mStatePtr' = "Pending",
         \/ UNCHANGED <<mStatePtr, toAfw>>
         \/ sendRsrcRequest("REQUEST"),
         UNCHANGED <<toSm, afw>> \/ sendRsrcRequest("REQUEST")
  PROVE  LastIsRequest' /\ PendingIsAnswered'
<1>1. CASE sendRsrcRequest("REQUEST")
  <2>1. mSubscribers' \ inactive' # {}
    BY DEF IInv, StateMatchesSubscribers, hasActiveSubscribers, active
  <2>2. toAfw' = Append(toAfw, "REQUEST")
    BY <1>1, <2>1 DEF sendRsrcRequest
  <2>3. LastIsRequest'
    BY <2>2 DEF LastIsRequest, AInv, IInv, TypeOK
  <2>4. Occurs("REQUEST", toAfw')
    BY <2>2, OccursAppend DEF AInv, IInv, TypeOK
  <2> QED BY <2>3, <2>4 DEF PendingIsAnswered, Occurs
<1>2. CASE UNCHANGED <<mStatePtr, toAfw>> /\ UNCHANGED <<toSm, afw>>
  BY <1>2 DEF AInv, LastIsRequest, PendingIsAnswered, Occurs
<1> QED BY <1>1, <1>2

(* Subscribers come and go. *)
LEMMA ClientAsks ==
  ASSUME AInv, IInv', NEW i \in Ids, subscribeRsrc(i) \/ unsubscribeRsrc(i)
  PROVE  LastIsRequest' /\ PendingIsAnswered'
<1>1. CASE mStatePtr' # "Pending"
  BY <1>1 DEF LastIsRequest, PendingIsAnswered
<1>2. CASE mStatePtr' = "Pending" /\ subscribeRsrc(i)
  BY <1>2, PendingAsks DEF subscribeRsrc, onSubscribe
<1>3. CASE mStatePtr' = "Pending" /\ unsubscribeRsrc(i)
  BY <1>3, PendingAsks DEF unsubscribeRsrc, AfterUnsubscribe
<1> QED BY <1>1, <1>2, <1>3

(* An answer that leaves a machine pending was not the one it waits for,    *)
(* or ended a release after which the machine asks again.                   *)
LEMMA AnswerAsks ==
  ASSUME AInv, IInv', onRsrcEvent
  PROVE  LastIsRequest' /\ PendingIsAnswered'
<1>1. CASE mStatePtr' # "Pending"
  BY <1>1 DEF LastIsRequest, PendingIsAnswered
<1>2. CASE mStatePtr' = "Pending" /\ ReleaseCompletes
  <2>1. sendRsrcRequest("REQUEST")
    BY <1>2 DEF ReleaseCompletes
  <2> QED BY <1>2, <2>1, PendingAsks
<1>3. CASE mStatePtr' = "Pending" /\ ~ReleaseCompletes
  <2>1. NextAnswer("RELEASED") /\ mStatePtr = "Pending" /\ UNCHANGED <<toAfw, afw>>
    BY <1>3 DEF onRsrcEvent, onGranted, onReleased, onDenied, DropsAll, Unmoved, IInv, TypeOK, AInv
  <2>2. /\ Occurs("GRANTED", toSm) => Occurs("GRANTED", toSm')
        /\ Occurs("DENIED", toSm) => Occurs("DENIED", toSm')
    BY <2>1, OccursTail DEF NextAnswer, AInv, IInv, TypeOK
  <2>3. LastIsRequest'
    BY <2>1 DEF AInv, LastIsRequest
  <2>4. /\ Occurs("GRANTED", toSm)' <=> Occurs("GRANTED", toSm')
        /\ Occurs("DENIED", toSm)' <=> Occurs("DENIED", toSm')
        /\ Occurs("REQUEST", toAfw)' <=> Occurs("REQUEST", toAfw)
    BY <2>1 DEF Occurs
  <2> QED BY <2>1, <2>2, <2>3, <2>4 DEF AInv, PendingIsAnswered
<1> QED BY <1>1, <1>2, <1>3

(* The framework hears the last request, and what it decides is under way. *)
LEMMA AfwAnswers ==
  ASSUME AInv, AfwHears \/ AfwDecides \/ AfwDrops
  PROVE  LastIsRequest' /\ PendingIsAnswered'
<1> SUFFICES ASSUME mStatePtr = "Pending"
             PROVE  /\ toAfw' # <<>> => toAfw'[Len(toAfw')] = "REQUEST"
                    /\ \/ Occurs("REQUEST", toAfw') \/ afw' = "opening"
                       \/ Occurs("GRANTED", toSm') \/ Occurs("DENIED", toSm')
  <2>1. mStatePtr' = mStatePtr
    BY DEF AfwHears, AfwDecides, AfwDrops, machine
  <2> QED BY <2>1 DEF LastIsRequest, PendingIsAnswered, Occurs
<1> USE DEF AInv, IInv, TypeOK
<1>1. CASE AfwHears
  <2>1. toAfw \in Seq({"REQUEST", "RELEASE"}) /\ toAfw # <<>> /\ toAfw' = Tail(toAfw)
        /\ toAfw[Len(toAfw)] = "REQUEST"
    BY <1>1 DEF AfwHears, LastIsRequest
  <2>2. CASE Tail(toAfw) # <<>>
    <3>1. toAfw'[Len(toAfw')] = "REQUEST"
      BY <2>1, <2>2, LastOfTail
    <3>2. toAfw' \in Seq({"REQUEST", "RELEASE"}) /\ toAfw' # <<>>
      BY <2>1, <2>2
    <3> QED BY <3>1, <3>2, LastOccurs
  <2>3. CASE Tail(toAfw) = <<>>
    <3>1. Head(toAfw) = "REQUEST"
      BY <2>1, <2>3, LastOfTail
    <3>2. CASE afw = "open"
      <4>1. toSm' = Append(toSm, "GRANTED")
        BY <1>1, <3>1, <3>2 DEF AfwHears, Answers
      <4> QED BY <2>1, <2>3, <4>1, OccursAppend
    <3>3. CASE afw # "open"
      BY <1>1, <2>1, <2>3, <3>1, <3>3 DEF AfwHears
    <3> QED BY <3>2, <3>3
  <2> QED BY <2>2, <2>3
<1>2. CASE AfwDecides
  <2>1. toSm' = Append(toSm, "GRANTED") \/ toSm' = Append(toSm, "DENIED")
    BY <1>2 DEF AfwDecides, Answers
  <2>2. Occurs("GRANTED", toSm') \/ Occurs("DENIED", toSm')
    BY <2>1, OccursAppend
  <2> QED BY <1>2, <2>2 DEF AfwDecides, LastIsRequest
<1>3. CASE AfwDrops
  <2>1. toSm' = Append(toSm, "RELEASED") /\ afw = "open" /\ UNCHANGED toAfw
    BY <1>3 DEF AfwDrops, Answers
  <2>2. /\ Occurs("GRANTED", toSm) => Occurs("GRANTED", toSm')
        /\ Occurs("DENIED", toSm) => Occurs("DENIED", toSm')
    BY <2>1, OccursAppend
  <2> QED BY <2>1, <2>2 DEF LastIsRequest, PendingIsAnswered
<1> QED BY <1>1, <1>2, <1>3

(* Every step keeps the request, or the answer to it, under way. *)
LEMMA NextAInv == AInv /\ [Next]_vars => AInv'
<1> SUFFICES ASSUME AInv, [Next]_vars PROVE AInv'
  OBVIOUS
<1>1. IInv'
  BY NextIInv DEF AInv
<1>2. CASE \E i \in Ids : subscribeRsrc(i) \/ unsubscribeRsrc(i)
  BY <1>1, <1>2, ClientAsks DEF AInv
<1>3. CASE onRsrcEvent
  BY <1>1, <1>3, AnswerAsks DEF AInv
<1>4. CASE AfwHears \/ AfwDecides \/ AfwDrops
  BY <1>1, <1>4, AfwAnswers DEF AInv
<1>5. CASE UNCHANGED vars
  BY <1>1, <1>5 DEF vars, AInv, LastIsRequest, PendingIsAnswered, Occurs
<1> QED BY <1>2, <1>3, <1>4, <1>5 DEF Next

(* No pending machine is left without a request under way or an answer to   *)
(* it, whatever answers to earlier requests it meets first.                 *)
THEOREM PendingAnswered == Spec => []PendingIsAnswered
<1>1. Init => AInv
  BY InitIInv DEF Init, AInv, LastIsRequest, PendingIsAnswered
<1> QED BY <1>1, NextAInv, PTL DEF Spec, AInv
=============================================================================
