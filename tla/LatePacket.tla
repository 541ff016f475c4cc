----------------------------- MODULE LatePacket -----------------------------
(***************************************************************************)
(* The data plane with a history variable that counts the packets the      *)
(* engine's present state would not have let out.                          *)
(***************************************************************************)
EXTENDS DataPlane

VARIABLE late   \* packets sent against the engine's state since it last changed

lateVars == <<dpVars, late>>

LateInit == DPInit /\ late = 0

LateNext ==
    /\ DPNext
    /\ late' = IF <<config, candidates>>' # <<config, candidates>> THEN 0
               ELSE IF eg.pc = "send" /\ tx_packets' # tx_packets /\ ~Allowed(eg.iface) THEN late + 1
               ELSE late

LateSpec == LateInit /\ [][LateNext]_lateVars

(* The window between route() and send(), in which the locks are not held, *)
(* is one packet wide: after a pause, a disabled or failed interface or a  *)
(* new strategy has reached the engine, at most one packet still leaves    *)
(* the old way.                                                            *)
OneLatePacket == late <= 1

(* Why it holds: once a packet has gone the old way, the next one has been *)
(* routed by the engine as it is now.                                      *)
LateInv ==
    /\ late \in {0, 1}
    /\ late = 1 /\ eg.pc \in {"routed", "registering", "send"} => Allowed(eg.iface)
=============================================================================
