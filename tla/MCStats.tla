------------------------------ MODULE MCStats -------------------------------
(* A small instance of the engine with measured rates.                     *)
EXTENDS Stats

KindsEthWifi == [i \in {1, 2} |-> IF i = 1 THEN "Ethernet" ELSE "Wifi"]
NumKey(k) == k
=============================================================================
