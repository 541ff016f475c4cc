------------------------------- MODULE Policy -------------------------------
(***************************************************************************)
(* The scheduling policy of crates/netmux-core/src/policy.rs: which egress *)
(* interface a flow leaves by.                                             *)
(*                                                                         *)
(* An interface name is a positive number, its rank in the order of the    *)
(* names; 0 stands for `None'.  A Vec<CandidateIface> is a function from   *)
(* the names in it: enumerate() sorts the vector by name and the names are *)
(* distinct, so the position of a candidate carries nothing more.          *)
(* fnv1a is opaque: only its being a function of the flow key matters.     *)
(***************************************************************************)
EXTENDS Integers, FiniteSets, FiniteSetsExt

CONSTANTS fnv1a(_),      \* 32-bit hash of a flow key
          RRModulus,     \* number of values of the u64 rr_counter
          FlowKeys       \* the flow keys that occur

ASSUME PolicyAssumption ==
    /\ RRModulus \in Nat \ {0}
    /\ \A k \in FlowKeys : fnv1a(k) \in Nat

NoIface == 0

Strategies == {"LoadBalance", "Failover"}
Algorithms == {"RoundRobin", "Hash", "LeastLoaded"}
Kinds == {"Ethernet", "Wifi", "Cellular", "Loopback", "Virtual", "Other"}

DefaultPolicy == [priority |-> 10, weight |-> 1, enabled |-> TRUE]

DefaultConfig == [strategy   |-> "LoadBalance",
                  algorithm  |-> "Hash",
                  interfaces |-> [i \in {} |-> DefaultPolicy],
                  enabled    |-> TRUE]

\* AggregatorConfig::validate; the interval is 5 and no handler changes it.
Validate(cfg) ==
    \A i \in DOMAIN cfg.interfaces : cfg.interfaces[i].weight # 0

-----------------------------------------------------------------------------
Usable(cands) ==
    {c \in DOMAIN cands : cands[c].policy.enabled /\ cands[c].healthy}

PoolWeight(cands, c) == Max({cands[c].policy.weight, 1})

\* The sum of the weights: the number of pairs of a candidate and a unit of its weight.
PoolTotal(cands, list) ==
    Cardinality(UNION {{c} \X (1 .. PoolWeight(cands, c)) : c \in list})

(* weighted_pool: candidate c occurs total * weight(c) times, and the pool *)
(* is sorted by name, so its copies are consecutive.                       *)
WeightedPool(cands, list) ==
    LET total    == PoolTotal(cands, list)
        copies(c) == total * PoolWeight(cands, c)
        start(c)  == total * PoolTotal(cands, {d \in list : d < c})
    IN  [k \in 0 .. total * total - 1 |->
            CHOOSE c \in list : start(c) <= k /\ k < start(c) + copies(c)]

(* A stable sort by descending priority, then the first: the first name    *)
(* among those of the highest priority.                                    *)
HighestPriority(cands, list) ==
    Min({c \in list :
            \A d \in list : cands[d].policy.priority <= cands[c].policy.priority})

Load(cands, c) == cands[c].tx_bps + cands[c].rx_bps

\* `load < best_load' is strict: the first candidate of the least load stays.
LeastLoaded(cands, list) ==
    Min({c \in list : \A d \in list : Load(cands, c) <= Load(cands, d)})

\* Faulty variant: the turn goes round the candidates, not the copies in the pool.
RoundRobinPickUnweighted(cands, list, rr) ==
    CHOOSE c \in list : Cardinality({d \in list : d < c}) = rr % Cardinality(list)

RoundRobinPick(cands, list, rr) ==
    LET pool == WeightedPool(cands, list)
    IN  pool[rr % Cardinality(DOMAIN pool)]

HashPick(cands, list, key) ==
    LET pool == WeightedPool(cands, list)
    IN  pool[fnv1a(key) % Cardinality(DOMAIN pool)]

(* The value select_interface returns.                                     *)
SelectInterface(cfg, cands, key, rr) ==
    LET usable == Usable(cands) IN
    CASE usable = {}                   -> NoIface
      [] OTHER ->
         CASE cfg.strategy = "Failover"        -> HighestPriority(cands, usable)
           [] cfg.strategy = "LoadBalance" /\ cfg.algorithm = "RoundRobin"
                                               -> RoundRobinPick(cands, usable, rr)
           [] cfg.strategy = "LoadBalance" /\ cfg.algorithm = "Hash"
                                               -> HashPick(cands, usable, key)
           [] cfg.strategy = "LoadBalance" /\ cfg.algorithm = "LeastLoaded"
                                               -> LeastLoaded(cands, usable)

(* The value select_interface leaves in rr_counter (wrapping_add).         *)
NextRR(cfg, cands, rr) ==
    IF /\ Usable(cands) # {}
       /\ cfg.strategy = "LoadBalance"
       /\ cfg.algorithm = "RoundRobin"
    THEN (rr + 1) % RRModulus
    ELSE rr
=============================================================================
