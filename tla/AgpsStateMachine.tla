-------------------------- MODULE AgpsStateMachine --------------------------
(***************************************************************************)
(* The machine that shares one network interface (NIF) among subscribers,  *)
(* loc_eng_agps.cpp, between the modem that subscribes and the Android     *)
(* framework (AFW) that opens and closes the connection.  One thread runs  *)
(* its handlers, from one message queue.  The subscriber lists of the      *)
(* SUPL and INTERNET machines drop a subscriber as soon as it leaves; the  *)
(* WIFI machine keeps it, inactive, until the connection is closed, and    *)
(* refuses a second one.                                                   *)
(*                                                                         *)
(* A definition named Slip_ is no part of the model: it is the one below   *)
(* it with a plausible bug, kept to show that a property would notice.     *)
(***************************************************************************)
EXTENDS Naturals, Sequences, FiniteSets

CONSTANTS
    Ids,            \* what tells subscribers apart: connection handle, address, sender
    Types,          \* the machines looked at, of those loc_eng builds
    MaxInFlight,    \* bound on messages under way when the modem sends one
    ForcedRelease   \* the framework may close a connection by itself

NifTypes == {"SUPL", "WWAN_ANY", "WIFI"}

ASSUME TypesAssumption == Types \subseteq NifTypes /\ ForcedRelease \in BOOLEAN
ASSUME BoundAssumption == MaxInFlight \in Nat

VARIABLES
    mType,        \* the NIF this machine was built for
    mStatePtr,
    mSubscribers, \* the list: who is in it
    inactive,     \* those of them that wait for the close to complete
    client,       \* what each subscriber was last told, or asked
    toAfw, toSm,  \* requests to the framework, its answers
    afw           \* the connection

vars == <<mType, mStatePtr, mSubscribers, inactive, client, toAfw, toSm, afw>>

mEnforceSingleSubscriber == mType = "WIFI"
waitForCloseComplete == mType = "WIFI"

active == mSubscribers \ inactive
hasSubscribers == mSubscribers # {}
hasActiveSubscribers == active # {}

-----------------------------------------------------------------------------
(* The request is decided on before the list changes. *)
Slip_sendRsrcRequest(action) ==
    toAfw' = IF ~hasActiveSubscribers <=> (action = "RELEASE") THEN Append(toAfw, action) ELSE toAfw

(* sendRsrcRequest: a connection is asked for only on behalf of an active   *)
(* subscriber, and let go only when there is none.                          *)
sendRsrcRequest(action) ==
    toAfw' = IF (mSubscribers' \ inactive' = {}) <=> (action = "RELEASE")
             THEN Append(toAfw, action) ELSE toAfw

(* notifySubscribers: those in S are told; with postNotifyDelete they leave *)
(* the list.                                                                *)
Tell(S, what) == client' = [i \in Ids |-> IF i \in S THEN what ELSE client[i]]
Slip_Remove(S) == mSubscribers' = mSubscribers \ S /\ UNCHANGED inactive
Remove(S) == mSubscribers' = mSubscribers \ S /\ inactive' = inactive \ S
KeepAll == UNCHANGED <<mSubscribers, inactive>>

(* addSubscriber: only one that is not yet in the list. *)
addSubscriber(i) == mSubscribers' = mSubscribers \cup {i} /\ UNCHANGED inactive

(* One that comes to a machine that has the connection is only added. *)
Slip_onSubscribe(i) ==
    /\ addSubscriber(i)
    /\ mStatePtr' = IF mStatePtr = "Released" THEN "Pending" ELSE mStatePtr
    /\ IF mStatePtr = "Released" THEN sendRsrcRequest("REQUEST") ELSE UNCHANGED toAfw
    /\ Tell({i}, "asking")

(* RSRC_SUBSCRIBE.  A released machine asks for the connection, one that has *)
(* it grants at once, the others wait.                                      *)
onSubscribe(i) ==
    /\ addSubscriber(i)
    /\ mStatePtr' = IF mStatePtr = "Released" THEN "Pending" ELSE mStatePtr
    /\ IF mStatePtr = "Released" THEN sendRsrcRequest("REQUEST") ELSE UNCHANGED toAfw
    /\ Tell({i}, IF mStatePtr = "Acquired" THEN "granted" ELSE "asking")

subscribeRsrc(i) ==
    /\ client[i] = "idle" /\ Len(toAfw) + Len(toSm) < MaxInFlight
    /\ IF mEnforceSingleSubscriber /\ hasSubscribers
       THEN Tell({i}, "idle") /\ KeepAll /\ UNCHANGED <<mStatePtr, toAfw>>
       ELSE onSubscribe(i)
    /\ UNCHANGED <<mType, toSm, afw>>

(* Inactive subscribers are taken for subscribers that want the connection. *)
Slip_AfterUnsubscribe ==
    \/ /\ mSubscribers' = {}
       /\ mStatePtr' = "Released"
       /\ IF mStatePtr = "Releasing" THEN UNCHANGED toAfw ELSE sendRsrcRequest("RELEASE")
    \/ mSubscribers' # {} /\ UNCHANGED <<mStatePtr, toAfw>>

(* Where a machine goes whose subscriber has left, and what it then tells   *)
(* the framework; a releasing one has asked for the release already.        *)
AfterUnsubscribe ==
    \/ /\ mSubscribers' = {}
       /\ mStatePtr' = "Released"
       /\ IF mStatePtr = "Releasing" THEN UNCHANGED toAfw ELSE sendRsrcRequest("RELEASE")
    \/ /\ mSubscribers' # {} /\ mSubscribers' \ inactive' = {} /\ mStatePtr # "Releasing"
       /\ mStatePtr' = "Releasing"
       /\ sendRsrcRequest("RELEASE")
    \/ /\ mSubscribers' # {} /\ (mSubscribers' \ inactive' # {} \/ mStatePtr = "Releasing")
       /\ UNCHANGED <<mStatePtr, toAfw>>

(* RSRC_UNSUBSCRIBE, for a subscriber that is in the list. *)
unsubscribeRsrc(i) ==
    /\ client[i] \in {"asking", "granted"} /\ i \in mSubscribers
    /\ Len(toAfw) + Len(toSm) < MaxInFlight
    /\ IF waitForCloseComplete
       THEN inactive' = inactive \cup {i} /\ UNCHANGED mSubscribers /\ Tell({i}, "closing")
       ELSE Remove({i}) /\ Tell({i}, "idle")
    /\ AfterUnsubscribe
    /\ UNCHANGED <<mType, toSm, afw>>

-----------------------------------------------------------------------------
(* Answers of the framework. *)
NextAnswer(event) == toSm # <<>> /\ Head(toSm) = event /\ toSm' = Tail(toSm)

onGranted ==
    /\ NextAnswer("GRANTED")
    /\ IF mStatePtr = "Pending" THEN mStatePtr' = "Acquired" /\ Tell(active, "granted")
       ELSE UNCHANGED <<mStatePtr, client>>
    /\ KeepAll /\ UNCHANGED <<mType, toAfw, afw>>

(* DENIED, or RELEASED, ends a release: those that waited for it are told,  *)
(* and the connection is asked for again for those who came in between.     *)
ReleaseCompletes ==
    /\ Tell(inactive, "idle") /\ Remove(inactive)
    /\ mStatePtr' = IF hasActiveSubscribers THEN "Pending" ELSE "Released"
    /\ IF hasActiveSubscribers THEN sendRsrcRequest("REQUEST") ELSE UNCHANGED toAfw

DropsAll == Tell(mSubscribers, "idle") /\ Remove(mSubscribers) /\ mStatePtr' = "Released" /\ UNCHANGED toAfw

Unmoved == KeepAll /\ UNCHANGED <<mStatePtr, client, toAfw>>

onReleased ==
    /\ NextAnswer("RELEASED")
    /\ \/ mStatePtr = "Acquired" /\ DropsAll
       \/ mStatePtr = "Releasing" /\ ReleaseCompletes
       \/ mStatePtr \in {"Released", "Pending"} /\ Unmoved
    /\ UNCHANGED <<mType, afw>>

onDenied ==
    /\ NextAnswer("DENIED")
    /\ \/ mStatePtr = "Pending" /\ DropsAll
       \/ mStatePtr = "Releasing" /\ ReleaseCompletes
       \/ mStatePtr \in {"Released", "Acquired"} /\ Unmoved
    /\ UNCHANGED <<mType, afw>>

-----------------------------------------------------------------------------
(* The framework, external: it hears requests in their order, opens in its  *)
(* own time, and answers a release only when there is something to close.   *)
machine == <<mType, mStatePtr, mSubscribers, inactive, client>>
Answers(event) == toSm' = Append(toSm, event)

AfwHears ==
    /\ toAfw # <<>> /\ toAfw' = Tail(toAfw)
    /\ \/ Head(toAfw) = "REQUEST" /\ afw = "open" /\ Answers("GRANTED") /\ UNCHANGED afw
       \/ Head(toAfw) = "REQUEST" /\ afw # "open" /\ afw' = "opening" /\ UNCHANGED toSm
       \/ Head(toAfw) = "RELEASE" /\ afw # "closed" /\ Answers("RELEASED") /\ afw' = "closed"
       \/ Head(toAfw) = "RELEASE" /\ afw = "closed" /\ UNCHANGED <<toSm, afw>>
    /\ UNCHANGED machine

AfwDecides ==
    /\ afw = "opening"
    /\ \/ afw' = "open" /\ Answers("GRANTED")
       \/ afw' = "closed" /\ Answers("DENIED")
    /\ UNCHANGED <<machine, toAfw>>

AfwDrops ==
    /\ ForcedRelease /\ afw = "open" /\ Len(toAfw) + Len(toSm) < MaxInFlight
    /\ afw' = "closed" /\ Answers("RELEASED")
    /\ UNCHANGED <<machine, toAfw>>

-----------------------------------------------------------------------------
Init ==
    /\ mType \in Types
    /\ mStatePtr = "Released"
    /\ mSubscribers = {} /\ inactive = {}
    /\ client = [i \in Ids |-> "idle"]
    /\ toAfw = <<>> /\ toSm = <<>> /\ afw = "closed"

onRsrcEvent == onGranted \/ onReleased \/ onDenied

Next ==
    \/ \E i \in Ids : subscribeRsrc(i) \/ unsubscribeRsrc(i)
    \/ onRsrcEvent
    \/ AfwHears
    \/ AfwDecides
    \/ AfwDrops

Spec == Init /\ [][Next]_vars

(* The message queue is read, and the framework hears and decides. *)
FairSpec == Spec /\ WF_vars(onRsrcEvent) /\ WF_vars(AfwHears) /\ WF_vars(AfwDecides)

-----------------------------------------------------------------------------
TypeOK ==
    /\ mType \in NifTypes
    /\ mStatePtr \in {"Released", "Pending", "Acquired", "Releasing"}
    /\ mSubscribers \subseteq Ids /\ inactive \subseteq mSubscribers
    /\ client \in [Ids -> {"idle", "asking", "granted", "closing"}]
    /\ toAfw \in Seq({"REQUEST", "RELEASE"})
    /\ toSm \in Seq({"GRANTED", "RELEASED", "DENIED"})
    /\ afw \in {"closed", "opening", "open"}

(* "Error: %s subscriber list not empty!!!" is never logged, and no machine  *)
(* holds or waits for a connection nobody wants: the list is empty exactly   *)
(* in Released, has an active subscriber in Pending and in Acquired, and has *)
(* one that waits for the close in Releasing.                                *)
StateMatchesSubscribers ==
    /\ mStatePtr = "Released" <=> ~hasSubscribers
    /\ mStatePtr \in {"Pending", "Acquired"} => hasActiveSubscribers
    /\ mStatePtr = "Releasing" => inactive # {}

(* Nobody is forgotten or told twice: a subscriber that was granted is in    *)
(* the list of a machine that has the connection, one that asks is in the    *)
(* list of a machine that waits, one that leaves is told when it is closed.  *)
EachKnowsItsPlace ==
    \A i \in Ids :
        /\ client[i] = "granted" <=> i \in active /\ mStatePtr = "Acquired"
        /\ client[i] = "asking" <=> i \in active /\ mStatePtr # "Acquired"
        /\ client[i] = "closing" <=> i \in inactive

(* A machine that waits for a connection has asked for it and not yet been   *)
(* answered, whatever stale answers of earlier requests come first.          *)
Occurs(x, s) == \E k \in DOMAIN s : s[k] = x
PendingIsAnswered ==
    mStatePtr = "Pending" =>
        Occurs("REQUEST", toAfw) \/ afw = "opening" \/ Occurs("GRANTED", toSm) \/ Occurs("DENIED", toSm)

(* "we have rsrc in hand, so grant it right away": no subscriber is told it  *)
(* has the connection when there is none.                                    *)
GrantedMeansOpen ==
    [][(\E i \in Ids : client[i] # "granted" /\ client'[i] = "granted") => afw = "open"]_vars

(* Every subscriber that asks is answered, and every one that waits for the  *)
(* close is told.                                                            *)
EveryRequestAnswered ==
    \A i \in Ids, waiting \in {"asking", "closing"} : client[i] = waiting ~> client[i] # waiting
=============================================================================
