----------------------------- MODULE Simulation -----------------------------
(***************************************************************************)
(* Demonstration mode: without --tun, or when the TUN device cannot be     *)
(* created, the timer of crates/netmux-app/src/main.rs feeds the engine    *)
(* packets of its own instead of calling Aggregator::tick.                 *)
(*                                                                         *)
(* One tick holds the engine from its first packet to its last; the loop   *)
(* is unrolled, `left' packets to go.                                      *)
(***************************************************************************)
EXTENDS Aggregator

CONSTANTS SimBase,      \* the injected names are SimBase + 1 .. SimBase + 3
          PacketRate,   \* rate_per_sec of the generator (50)
          HealthSecs,   \* health_check_interval_secs (5, and nothing changes it)
          TxModulus     \* number of values of the u64 tx_packets

ASSUME SimulationAssumption ==
    /\ SimBase \in Nat /\ \A i \in Ifaces : i <= SimBase
    /\ PacketRate \in Nat /\ HealthSecs \in Nat
    /\ TxModulus \in Nat \ {0}

VARIABLES left,        \* packets the running tick has still to generate
          tx_packets   \* packets that went out, or for which a decision was made

-----------------------------------------------------------------------------
SimNames == SimBase + 1 .. SimBase + 3

SimLink(priority, weight) ==
    [policy |-> [priority |-> priority, weight |-> weight, enabled |-> TRUE],
     tx_bps |-> 0, rx_bps |-> 0, healthy |-> TRUE]

\* inject_sim_candidates with the three links of tick(), in name order.
SimCandidates ==
    [i \in SimNames |->
        CASE i = SimBase + 1 -> SimLink(30, 3)
          [] i = SimBase + 2 -> SimLink(20, 2)
          [] i = SimBase + 3 -> SimLink(25, 1)]

AtLeastOne(n) == IF n < 1 THEN 1 ELSE n

\* Packets generated in ms milliseconds.
PerTick(ms) == AtLeastOne((PacketRate * ms) \div 1000)

Batch == Clamp(PerTick(AtLeastOne(HealthSecs) * 16), 0, 2000)

\* The flow of a generated packet: pseudo-random, here any.
NextPacket == FlowKeys

\* Faulty variant: no links are injected.
SimTickHostOnly ==
    /\ left = 0
    /\ left' = Batch
    /\ UNCHANGED <<config, candidates, rr_counter, flow_table, rows, host, tx_packets>>

(* The head of tick(): links are injected only where there is none at all. *)
SimTick ==
    /\ left = 0
    /\ left' = Batch
    /\ candidates' = IF DOMAIN candidates = {} THEN SimCandidates ELSE candidates
    /\ UNCHANGED <<config, rr_counter, flow_table, rows, host, tx_packets>>

(* One turn of its loop: without a decision the loop ends.                 *)
SimPacket(k) ==
    /\ left > 0
    /\ Route(k) /\ UNCHANGED host
    /\ IF Pick(k) = NoIface
       THEN left' = 0 /\ UNCHANGED tx_packets
       ELSE left' = left - 1 /\ tx_packets' = (tx_packets + 1) % TxModulus
=============================================================================
