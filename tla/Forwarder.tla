----------------------------- MODULE Forwarder ------------------------------
(***************************************************************************)
(* What the clients behind the TUN device may expect: packets of IPv4      *)
(* flows go out, and what comes in is an answer to a packet that went out, *)
(* for the client it came from.  Packets and answers may be lost, and an   *)
(* answer may come late or more than once.                                 *)
(***************************************************************************)
CONSTANTS Flows, V4

VARIABLES sent,       \* flows of which a packet has gone out
          answered    \* answers handed to clients: [to, orig]

Init == sent = {} /\ answered = {}

Forward(f) ==
    /\ {f.src, f.dst} \subseteq V4
    /\ sent' = sent \cup {f}
    /\ UNCHANGED answered

Answer(f) ==
    /\ f \in sent
    /\ answered' = answered \cup {[to |-> f.src, orig |-> f]}
    /\ UNCHANGED sent

Next == \E f \in Flows : Forward(f) \/ Answer(f)

Spec == Init /\ [][Next]_<<sent, answered>>
=============================================================================
