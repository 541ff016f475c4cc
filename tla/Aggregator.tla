----------------------------- MODULE Aggregator -----------------------------
(***************************************************************************)
(* The aggregation engine of crates/netmux-core/src/aggregator.rs with the *)
(* interface enumeration it polls (interface.rs) and the click handlers of *)
(* crates/netmux-app/src/main.rs that edit its configuration.  The engine  *)
(* lives behind one Mutex, so a method or handler is one action.           *)
(*                                                                         *)
(* `host' is what /sys/class/net shows: an interface is "absent", has      *)
(* "nolink" (IFF_UP or carrier missing) or has "link" (both).  Rates are   *)
(* the figures StatsCollector derives from the kernel counters; here a     *)
(* tick may read any of them.                                              *)
(***************************************************************************)
EXTENDS Policy

CONSTANTS Ifaces,           \* names of the host's network devices
          KindOf,           \* Ifaces -> Kinds, what classify() says of the name
          Rates,            \* bytes/s figures a tick may read
          PrioLo, PrioHi,   \* clamp of the priority buttons (1 and 99)
          WeightHi,         \* upper clamp of the weight buttons (100)
          StrategyChoices,  \* strategies the user clicks
          AlgorithmChoices, \* algorithms the user clicks
          PriorityDeltas,   \* priority buttons in use, a subset of {-1, 1}
          WeightDeltas,     \* weight buttons in use, a subset of {-1, 1}
          RowChoices,       \* interfaces whose row the user touches
          MayPause,         \* does the user pause and resume the engine?
          LinkChoices,      \* what the host's devices do, a subset of LinkStates
          SysfsMayFail      \* may reading /sys/class/net fail?

LinkStates == {"absent", "nolink", "link"}

ASSUME AggregatorAssumption ==
    /\ Ifaces \subseteq Nat \ {0}
    /\ IsFiniteSet(Ifaces)
    /\ KindOf \in [Ifaces -> Kinds]
    /\ Rates \subseteq Nat /\ 0 \in Rates
    /\ PrioLo \in 1 .. 10 /\ PrioHi \in Nat /\ PrioHi >= 10
    /\ WeightHi \in Nat \ {0}
    /\ StrategyChoices \subseteq Strategies
    /\ AlgorithmChoices \subseteq Algorithms
    /\ PriorityDeltas \subseteq {-1, 1} /\ WeightDeltas \subseteq {-1, 1}
    /\ RowChoices \subseteq Nat \ {0} /\ MayPause \in BOOLEAN
    /\ LinkChoices \subseteq LinkStates
    /\ SysfsMayFail \in BOOLEAN

VARIABLES config,      \* AggregatorConfig
          candidates,  \* scheduling candidates as of the last refresh
          rr_counter,  \* round-robin position
          flow_table,  \* flow key -> interface last chosen for it
          rows,        \* rows of the interface page: name -> enabled, as last drawn
          host         \* the devices as the kernel has them now

aggVars == <<config, candidates, rr_counter, flow_table, rows>>
vars == <<config, candidates, rr_counter, flow_table, rows, host>>

\* HashMap::insert / entry: set key k of the partial function f to v.
Put(f, k, v) == [x \in DOMAIN f \cup {k} |-> IF x = k THEN v ELSE f[x]]

Clamp(n, lo, hi) == IF n < lo THEN lo ELSE IF n > hi THEN hi ELSE n

-----------------------------------------------------------------------------
BasePriority(kind) ==
    CASE kind = "Ethernet" -> 30
      [] kind = "Cellular" -> 20
      [] kind = "Wifi"     -> 10
      [] OTHER             -> 5

PolicyOf(cfg, i) ==
    IF i \in DOMAIN cfg.interfaces THEN cfg.interfaces[i] ELSE DefaultPolicy

\* What enumerate() may return: the devices present, or the default on error.
Enumerations ==
    {{i \in Ifaces : host[i] # "absent"}} \cup (IF SysfsMayFail THEN {{}} ELSE {})

Physical(seen) == {i \in seen : KindOf[i] \notin {"Loopback", "Virtual"}}

\* Faulty variant: a device without carrier counts as healthy.
RefreshIgnoringLink(cfg, seen, tx, rx) ==
    [i \in Physical(seen) |->
        [policy  |-> [PolicyOf(cfg, i) EXCEPT !.priority = BasePriority(KindOf[i])],
         tx_bps  |-> tx[i],
         rx_bps  |-> rx[i],
         healthy |-> TRUE]]

(* refresh_candidates: the configured policy with its priority replaced by *)
(* the one of the interface's kind, the current rates and link state.      *)
RefreshCandidates(cfg, seen, tx, rx) ==
    [i \in Physical(seen) |->
        [policy  |-> [PolicyOf(cfg, i) EXCEPT !.priority = BasePriority(KindOf[i])],
         tx_bps  |-> tx[i],
         rx_bps  |-> rx[i],
         healthy |-> host[i] = "link"]]

NoRates == [i \in Ifaces |-> 0]

(* NetMuxApp::new builds the engine with the default configuration and     *)
(* refreshes the candidates once; no interface has been sampled and no     *)
(* row drawn yet.                                                          *)
Init ==
    /\ host \in [Ifaces -> LinkChoices]
    /\ config = DefaultConfig
    /\ rr_counter = 0
    /\ flow_table = [k \in {} |-> NoIface]
    /\ rows = [i \in {} |-> TRUE]
    /\ \E seen \in Enumerations :
          candidates = RefreshCandidates(DefaultConfig, seen, NoRates, NoRates)

\* Faulty variant: the rates are refreshed, the enumeration is not.
TickRatesOnly ==
    /\ \E tx, rx \in [Ifaces -> Rates] :
          candidates' = [i \in DOMAIN candidates |->
                            [candidates[i] EXCEPT !.tx_bps = tx[i], !.rx_bps = rx[i]]]
    /\ UNCHANGED <<config, rr_counter, flow_table, rows>>

(* tick: refresh the statistics, then enumerate again.                     *)
Tick ==
    /\ \E seen \in Enumerations, tx, rx \in [Ifaces -> Rates] :
          candidates' = RefreshCandidates(config, seen, tx, rx)
    /\ UNCHANGED <<config, rr_counter, flow_table, rows>>

(* The interface route() names for a packet of the flow, NoIface for None. *)
Pick(key) ==
    IF config.enabled
    THEN SelectInterface(config, candidates, key, rr_counter)
    ELSE NoIface

\* Faulty variant: a missing decision is noted too.
RouteNotingNone(key) ==
    /\ rr_counter' = IF config.enabled THEN NextRR(config, candidates, rr_counter)
                     ELSE rr_counter
    /\ flow_table' = Put(flow_table, key, Pick(key))
    /\ UNCHANGED <<config, candidates, rows>>

(* route: a paused engine returns early; a decision is noted in flow_table. *)
Route(key) ==
    /\ rr_counter' = IF config.enabled THEN NextRR(config, candidates, rr_counter)
                     ELSE rr_counter
    /\ flow_table' = IF Pick(key) = NoIface THEN flow_table
                     ELSE Put(flow_table, key, Pick(key))
    /\ UNCHANGED <<config, candidates, rows>>

-----------------------------------------------------------------------------
(* render: one row for each candidate (those the user touches are kept).   *)
Render ==
    /\ rows' = [i \in DOMAIN candidates \cap RowChoices |-> candidates[i].policy.enabled]
    /\ UNCHANGED <<config, candidates, rr_counter, flow_table>>

(* Click handlers; those of a row work on what was drawn.                  *)

ToggleEnabled ==
    /\ config' = [config EXCEPT !.enabled = ~@]
    /\ UNCHANGED <<candidates, rr_counter, flow_table, rows>>

SetStrategy(s) ==
    /\ config' = [config EXCEPT !.strategy = s]
    /\ UNCHANGED <<candidates, rr_counter, flow_table, rows>>

SetAlgorithm(a) ==
    /\ config' = [config EXCEPT !.algorithm = a]
    /\ UNCHANGED <<candidates, rr_counter, flow_table, rows>>

EditPolicy(i, p) ==
    /\ config' = [config EXCEPT !.interfaces = Put(@, i, p)]
    /\ UNCHANGED <<candidates, rr_counter, flow_table, rows>>

\* The closure holds the opposite of the state the row was drawn with.
EnableClick(i) ==
    /\ i \in DOMAIN rows
    /\ EditPolicy(i, [PolicyOf(config, i) EXCEPT !.enabled = ~rows[i]])

PriorityClick(i, delta) ==
    /\ i \in DOMAIN rows
    /\ EditPolicy(i, [PolicyOf(config, i) EXCEPT
                         !.priority = Clamp(@ + delta, PrioLo, PrioHi)])

\* Faulty variant: the weight button goes down to zero.
WeightClickToZero(i, delta) ==
    /\ i \in DOMAIN rows
    /\ EditPolicy(i, [PolicyOf(config, i) EXCEPT
                         !.weight = Clamp(@ + delta, 0, WeightHi)])

WeightClick(i, delta) ==
    /\ i \in DOMAIN rows
    /\ EditPolicy(i, [PolicyOf(config, i) EXCEPT
                         !.weight = Clamp(@ + delta, 1, WeightHi)])

IfaceAction(i) ==
    \/ EnableClick(i)
    \/ \E d \in PriorityDeltas : PriorityClick(i, d)
    \/ \E d \in WeightDeltas : WeightClick(i, d)

Click ==
    \/ MayPause /\ ToggleEnabled
    \/ \E s \in StrategyChoices : SetStrategy(s)
    \/ \E a \in AlgorithmChoices : SetAlgorithm(a)
    \/ \E i \in RowChoices : IfaceAction(i)

-----------------------------------------------------------------------------
(* The kernel's devices come, go and change link at any time.              *)
HostChange ==
    /\ \E i \in Ifaces, s \in LinkChoices : s # host[i] /\ host' = [host EXCEPT ![i] = s]
    /\ UNCHANGED aggVars

Next ==
    \/ (Tick \/ Render \/ Click \/ \E k \in FlowKeys : Route(k)) /\ UNCHANGED host
    \/ HostChange

(* Whether anybody calls tick is up to the program around the engine: see  *)
(* DataPlane, where the timer of main() does as long as the window is open. *)
Spec == Init /\ [][Next]_vars

-----------------------------------------------------------------------------
PolicyRecord == [priority: Nat, weight: Nat, enabled: BOOLEAN]
Candidate == [policy: PolicyRecord, tx_bps: Nat, rx_bps: Nat, healthy: BOOLEAN]
Partial(f, S, T) == f \in [DOMAIN f -> T] /\ DOMAIN f \subseteq S

\* The engine over candidates with these names.
EngineOK(names) ==
    /\ config \in [strategy: Strategies, algorithm: Algorithms,
                   interfaces: {config.interfaces}, enabled: BOOLEAN]
    /\ Partial(config.interfaces, names, PolicyRecord)
    /\ Partial(candidates, names, Candidate)
    /\ rr_counter \in 0 .. RRModulus - 1
    /\ Partial(flow_table, FlowKeys, names)
    /\ Partial(rows, names, BOOLEAN)

(* Type invariant of the engine: configuration, candidates, counter and    *)
(* flow table keep the types Aggregator declares.                          *)
TypeOK == EngineOK(Ifaces) /\ host \in [Ifaces -> LinkStates]

(* The configuration the user clicked together always passes validate(),   *)
(* which runs only once, on the default configuration (Aggregator::new).   *)
ConfigValid == Validate(config)

(* The engine schedules exactly the interfaces that are physical, linked   *)
(* and enabled, each with the weight configured for it, and the switches   *)
(* on the page show what is configured.                                    *)
ViewAgrees ==
    /\ Usable(candidates) =
          {i \in Physical(Ifaces) : host[i] = "link" /\ PolicyOf(config, i).enabled}
    /\ \A i \in DOMAIN candidates :
          candidates[i].policy.weight = PolicyOf(config, i).weight
    /\ \A i \in DOMAIN rows : rows[i] = PolicyOf(config, i).enabled

(* aggregator.rs:78-79: the priority inferred from the kind is             *)
(* "overridable through config.interfaces": a tick gives a candidate the   *)
(* priority the user configured for it.                                    *)
PriorityOverridable ==
    [][Tick => \A i \in DOMAIN candidates' \cap DOMAIN config.interfaces :
                  candidates'[i].policy.priority = config.interfaces[i].priority]_vars
=============================================================================
