----------------------------- MODULE RoundRobin -----------------------------
(***************************************************************************)
(* The engine with a history variable that notes the round-robin picks     *)
(* since the pool last changed, for the question whether the weighted pool *)
(* shares packets out by weight.                                           *)
(***************************************************************************)
EXTENDS Aggregator

VARIABLE turns   \* picks in the current window: <<rr_counter, interface>>

rrVars == <<vars, turns>>

RoundRobinRuns ==
    config.enabled /\ config.strategy = "LoadBalance" /\ config.algorithm = "RoundRobin"

\* What the pool is made of.
Shares == [c \in Usable(candidates) |-> PoolWeight(candidates, c)]

Total == PoolTotal(candidates, Usable(candidates))

TurnOver == Cardinality(turns) = Total * Total

RRInit == Init /\ turns = {}

\* A window ends after one turn of the pool, and at the wrap of the counter: no window
\* spans it, for there the pool starts over in the middle of a turn unless its length
\* divides the counter's range.
RRRoute(k) ==
    /\ Route(k)
    /\ UNCHANGED host
    /\ turns' = IF RoundRobinRuns /\ Pick(k) # NoIface
                THEN (IF TurnOver \/ rr_counter = 0 THEN {} ELSE turns)
                        \cup {<<rr_counter, Pick(k)>>}
                ELSE turns

RRNext ==
    \/ \E k \in FlowKeys : RRRoute(k)
    \/ /\ Tick \/ Render \/ Click
       /\ UNCHANGED host
       /\ turns' = IF Shares' = Shares THEN turns ELSE {}
    \/ HostChange /\ UNCHANGED turns

RRSpec == RRInit /\ [][RRNext]_rrVars

(* weighted_pool under RoundRobin: one turn of the pool, started anywhere, *)
(* gives each usable interface exactly total * weight of the total * total *)
(* picks, however ticks and clicks fell between the packets.               *)
RoundRobinShare ==
    TurnOver =>
        \A c \in Usable(candidates) :
            Cardinality({t \in turns : t[2] = c}) = Total * PoolWeight(candidates, c)

Turn(r) == RoundRobinPick(candidates, Usable(candidates), r)

(* Why it holds: the picks of a window are those of successive values of   *)
(* the counter, without a gap where the engine was paused or ran another   *)
(* algorithm, and from the pool as it is now.                              *)
TurnsInOrder ==
    \E a \in 0 .. RRModulus, n \in 0 .. Total * Total :
        /\ turns = {<<r, Turn(r)>> : r \in a .. a + n - 1}
        /\ n > 0 => a + n <= RRModulus /\ rr_counter = (a + n) % RRModulus
=============================================================================
