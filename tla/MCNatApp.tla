------------------------------ MODULE MCNatApp ------------------------------
(* Three connections of one client to a station; all packets in hash alike, *)
(* and all packets out.  A second client may take the last slot of the      *)
(* power save list.                                                         *)
EXTENDS NatApp, TLC

CONSTANTS r1, r2, r3, c1, c2, sta

MCPrivate == [r \in Rules |-> c1]
MCTarget == [r \in Rules |-> sta]
MCHash == [r \in Rules |-> 1]
OneWan == {65536}
TwoWans == {65536, 65537}
Connections == Permutations(Rules)
=============================================================================
