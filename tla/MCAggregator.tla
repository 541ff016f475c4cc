---------------------------- MODULE MCAggregator ----------------------------
(* Small instances of the engine: values for the constants of Aggregator.  *)
EXTENDS Aggregator

KindsEthWifi == [i \in {1, 2} |-> IF i = 1 THEN "Ethernet" ELSE "Wifi"]

NumKey(k) == k
UpDown == {-1, 1}
=============================================================================
