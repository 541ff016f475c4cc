---------------------------- MODULE MCRoundRobin ----------------------------
(* A small instance of RoundRobin.                                         *)
EXTENDS RoundRobin

KindsEthWifi == [i \in {1, 2} |-> IF i = 1 THEN "Ethernet" ELSE "Wifi"]
NumKey(k) == k
UpDown == {-1, 1}
=============================================================================
