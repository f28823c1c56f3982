------------------------------ MODULE NatTable ------------------------------
(***************************************************************************)
(* What the NAT table promises the client of ipa_nat_drv.h: a connection   *)
(* that is added is translated in both directions from one moment on; one  *)
(* that is deleted stops being translated, first for what it sends, then   *)
(* for what it receives; and no other connection notices.                  *)
(***************************************************************************)
CONSTANT Rules

VARIABLES
    uplink,   \* connections whose packets out the hardware translates
    downlink  \* connections whose packets in it translates

Init == uplink = {} /\ downlink = {}

Insert(r) ==
    /\ uplink = downlink
    /\ uplink' = uplink \cup {r}
    /\ downlink' = downlink \cup {r}

StopSending(r) ==
    /\ uplink = downlink
    /\ uplink' = uplink \ {r}
    /\ UNCHANGED downlink

StopReceiving(r) ==
    /\ r \in downlink \ uplink
    /\ downlink' = downlink \ {r}
    /\ UNCHANGED uplink

(* The whole table goes with the public address. *)
Drop == uplink = downlink /\ uplink' = {} /\ downlink' = {}

Next == Drop \/ \E r \in Rules : Insert(r) \/ StopSending(r) \/ StopReceiving(r)

Spec == Init /\ [][Next]_<<uplink, downlink>>
=============================================================================
