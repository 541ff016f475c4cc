-------------------------- MODULE AggregatorProofs --------------------------
(***************************************************************************)
(* The engine is well typed and its configuration valid, for any           *)
(* interfaces, bounds and order of clicks, ticks and packets.  validate()  *)
(* runs once, on the default configuration; the clamps of the buttons do   *)
(* the rest.                                                               *)
(*                                                                         *)
(* The lemmas are about an engine whose candidates have names in `names':  *)
(* the host's devices here, and the injected links as well in the data     *)
(* plane's demonstration mode.                                             *)
(***************************************************************************)
EXTENDS Aggregator, PolicyProofs

NamesOK(names) == Ifaces \subseteq names /\ names \subseteq Nat \ {0} /\ IsFiniteSet(names)

(* The inductive invariant.                                                *)
EngineInv(names) == EngineOK(names) /\ ConfigValid

(* HashMap::insert keeps the type of a map.                                *)
LEMMA PutPartial ==
    ASSUME NEW S, NEW T, NEW f, Partial(f, S, T), NEW k \in S, NEW v \in T
    PROVE  Partial(Put(f, k, v), S, T)
  BY DEF Partial, Put

(* The policy of an interface, configured or default.                      *)
LEMMA PolicyOfOK ==
    ASSUME NEW names, EngineInv(names), NEW i
    PROVE  PolicyOf(config, i) \in PolicyRecord /\ PolicyOf(config, i).weight # 0
<1>1. DefaultPolicy \in PolicyRecord /\ DefaultPolicy.weight # 0
  BY DEF DefaultPolicy, PolicyRecord
<1>2. QED
  BY <1>1 DEF PolicyOf, EngineInv, EngineOK, Partial, ConfigValid, Validate

-----------------------------------------------------------------------------
(* The candidates can be scheduled.                                        *)
LEMMA CandidatesOK ==
    ASSUME NEW names, NamesOK(names), EngineOK(names)
    PROVE  CandsOK(candidates)
<1>1. DOMAIN candidates \subseteq names /\ \A c \in DOMAIN candidates : candidates[c] \in Candidate
  BY DEF EngineOK, Partial
<1>2. IsFiniteSet(DOMAIN candidates)
  BY <1>1, FS_Subset DEF NamesOK
<1>3. QED
  BY <1>1, <1>2 DEF NamesOK, CandsOK, Candidate, PolicyRecord

(* route() returns nothing, or an enabled and healthy candidate, and under *)
(* Failover the one of the highest priority.                               *)
LEMMA PickUsable ==
    ASSUME NEW names, NamesOK(names), EngineOK(names), NEW k \in FlowKeys, Pick(k) # NoIface
    PROVE  /\ config.enabled /\ Pick(k) \in Usable(candidates) /\ Pick(k) \in names
           /\ config.strategy = "Failover" => Pick(k) = HighestPriority(candidates, Usable(candidates))
<1>1. CandsOK(candidates)
  BY CandidatesOK
<1>2. config.strategy \in Strategies /\ config.algorithm \in Algorithms /\ rr_counter \in Nat
  BY PolicyAssumption DEF EngineOK
<1>3. config.enabled /\ Pick(k) = SelectInterface(config, candidates, k, rr_counter)
  BY DEF Pick
<1>4. Usable(candidates) # {}
  BY <1>3 DEF SelectInterface
<1>5. /\ Pick(k) \in Usable(candidates)
      /\ config.strategy = "Failover" => Pick(k) = HighestPriority(candidates, Usable(candidates))
  BY <1>1, <1>2, <1>3, <1>4, SelectUsable
<1>6. Usable(candidates) \subseteq names
  BY DEF Usable, EngineOK, Partial
<1>7. QED
  BY <1>3, <1>5, <1>6

(* route() notes a decision, and the counter wraps.                        *)
LEMMA RouteInv ==
    ASSUME NEW names, NamesOK(names), EngineInv(names), NEW k \in FlowKeys, Route(k)
    PROVE  EngineInv(names)'
<1>1. UNCHANGED <<config, candidates, rows>>
  BY DEF Route
<1>2. rr_counter' \in 0 .. RRModulus - 1
  <2>1. rr_counter \in 0 .. RRModulus - 1 /\ RRModulus \in Nat \ {0}
    BY PolicyAssumption DEF EngineInv, EngineOK
  <2>2. (rr_counter + 1) % RRModulus \in 0 .. RRModulus - 1
    BY <2>1
  <2>3. QED
    BY <2>1, <2>2 DEF Route, NextRR
<1>3. Partial(flow_table', FlowKeys, names)
  <2>1. CASE Pick(k) = NoIface
    BY <2>1 DEF Route, EngineInv, EngineOK
  <2>2. CASE Pick(k) # NoIface
    <3>1. Pick(k) \in names
      BY <2>2, PickUsable DEF EngineInv
    <3>2. flow_table' = Put(flow_table, k, Pick(k)) /\ Partial(flow_table, FlowKeys, names)
      BY <2>2 DEF Route, EngineInv, EngineOK
    <3>3. QED
      BY <3>1, <3>2, PutPartial
  <2>3. QED
    BY <2>1, <2>2
<1>4. QED
  BY <1>1, <1>2, <1>3 DEF EngineInv, EngineOK, ConfigValid

(* render() draws rows for candidates.                                     *)
LEMMA RenderInv ==
    ASSUME NEW names, EngineInv(names), Render
    PROVE  EngineInv(names)'
<1>1. \A i \in DOMAIN candidates : i \in names /\ candidates[i].policy.enabled \in BOOLEAN
  BY DEF EngineInv, EngineOK, Partial, Candidate, PolicyRecord
<1>2. rows' = [i \in DOMAIN candidates \cap RowChoices |-> candidates[i].policy.enabled]
  BY DEF Render
<1>3. Partial(rows', names, BOOLEAN)
  BY <1>1, <1>2 DEF Partial
<1>4. QED
  BY <1>3 DEF Render, EngineInv, EngineOK, ConfigValid

(* refresh_candidates makes candidates of the host's devices.              *)
LEMMA RefreshOK ==
    ASSUME \A i \in Ifaces : PolicyOf(config, i) \in PolicyRecord, NEW seen \in Enumerations,
           NEW tx \in [Ifaces -> Nat], NEW rx \in [Ifaces -> Nat]
    PROVE  Partial(RefreshCandidates(config, seen, tx, rx), Ifaces, Candidate)
<1>1. Physical(seen) \subseteq Ifaces
  BY DEF Enumerations, Physical
<1>2. ASSUME NEW i \in Physical(seen)
      PROVE  [policy  |-> [PolicyOf(config, i) EXCEPT !.priority = BasePriority(KindOf[i])],
              tx_bps  |-> tx[i], rx_bps |-> rx[i], healthy |-> host[i] = "link"] \in Candidate
  <2>1. PolicyOf(config, i) \in PolicyRecord
    BY <1>1
  <2>2. BasePriority(KindOf[i]) \in Nat
    BY DEF BasePriority
  <2>3. [PolicyOf(config, i) EXCEPT !.priority = BasePriority(KindOf[i])] \in PolicyRecord
    BY <2>1, <2>2 DEF PolicyRecord
  <2>4. tx[i] \in Nat /\ rx[i] \in Nat /\ (host[i] = "link") \in BOOLEAN
    BY <1>1
  <2>5. QED
    BY <2>3, <2>4 DEF Candidate
<1>3. QED
  BY <1>1, <1>2 DEF RefreshCandidates, Partial

(* tick() only refreshes the candidates.                                   *)
LEMMA TickInv ==
    ASSUME NEW names, NamesOK(names), EngineInv(names), Tick
    PROVE  EngineInv(names)' /\ Partial(candidates', Ifaces, Candidate)
<1>1. PICK seen \in Enumerations, tx \in [Ifaces -> Rates], rx \in [Ifaces -> Rates] :
         candidates' = RefreshCandidates(config, seen, tx, rx)
  BY DEF Tick
<1>2. tx \in [Ifaces -> Nat] /\ rx \in [Ifaces -> Nat]
  BY AggregatorAssumption
<1>3. Partial(candidates', Ifaces, Candidate)
  BY <1>1, <1>2, PolicyOfOK, RefreshOK
<1>4. Partial(candidates', names, Candidate)
  BY <1>3 DEF Partial, NamesOK
<1>5. UNCHANGED <<config, rr_counter, flow_table, rows>>
  BY DEF Tick
<1>6. QED
  BY <1>3, <1>4, <1>5 DEF EngineInv, EngineOK, ConfigValid

-----------------------------------------------------------------------------
(* A click that writes a policy with a weight keeps the map well formed.   *)
LEMMA EditInv ==
    ASSUME NEW names, EngineInv(names), NEW i \in names,
           NEW p \in PolicyRecord, p.weight # 0, EditPolicy(i, p)
    PROVE  EngineInv(names)'
<1>1. /\ config' = [config EXCEPT !.interfaces = Put(config.interfaces, i, p)]
      /\ UNCHANGED <<candidates, rr_counter, flow_table, rows>>
  BY DEF EditPolicy
<1>2. config \in [strategy: Strategies, algorithm: Algorithms,
                  interfaces: {config.interfaces}, enabled: BOOLEAN]
  BY DEF EngineInv, EngineOK
<1>3. config'.interfaces = Put(config.interfaces, i, p)
  BY <1>1, <1>2
<1>4. config' \in [strategy: Strategies, algorithm: Algorithms,
                   interfaces: {config'.interfaces}, enabled: BOOLEAN]
  BY <1>1, <1>2
<1>5. Partial(config'.interfaces, names, PolicyRecord)
  BY <1>3, PutPartial DEF EngineInv, EngineOK
<1>6. Validate(config')
  BY <1>3 DEF EngineInv, ConfigValid, Validate, Put
<1>7. QED
  BY <1>1, <1>4, <1>5, <1>6 DEF EngineInv, EngineOK, ConfigValid

(* The three controls of a row.                                            *)
LEMMA IfaceActionInv ==
    ASSUME NEW names, EngineInv(names), NEW i, IfaceAction(i)
    PROVE  EngineInv(names)'
<1> DEFINE p == PolicyOf(config, i)
<1>1. p \in PolicyRecord /\ p.weight # 0
  BY PolicyOfOK
<1>2. i \in names /\ rows[i] \in BOOLEAN
  BY DEF IfaceAction, EnableClick, PriorityClick, WeightClick, EngineInv, EngineOK, Partial
<1> HIDE DEF p
<1>3. CASE EnableClick(i)
  <2> DEFINE q == [p EXCEPT !.enabled = ~rows[i]]
  <2>1. q \in PolicyRecord /\ q.weight # 0
    BY <1>1, <1>2 DEF PolicyRecord
  <2>2. EditPolicy(i, q)
    BY <1>3 DEF EnableClick, p
  <2>3. QED
    BY <1>2, <2>1, <2>2, EditInv
<1>4. ASSUME NEW d \in PriorityDeltas, PriorityClick(i, d)
      PROVE  EngineInv(names)'
  <2> DEFINE q == [p EXCEPT !.priority = Clamp(p.priority + d, PrioLo, PrioHi)]
  <2>1. p.priority + d \in Int /\ PrioLo \in Nat /\ PrioHi \in Nat /\ PrioLo <= PrioHi
    BY <1>1, AggregatorAssumption DEF PolicyRecord
  <2>2. Clamp(p.priority + d, PrioLo, PrioHi) \in Nat
    BY <2>1 DEF Clamp
  <2>3. q \in PolicyRecord /\ q.weight # 0
    BY <1>1, <2>2 DEF PolicyRecord
  <2>4. EditPolicy(i, q)
    BY <1>4 DEF PriorityClick, p
  <2>5. QED
    BY <1>2, <2>3, <2>4, EditInv
<1>5. ASSUME NEW d \in WeightDeltas, WeightClick(i, d)
      PROVE  EngineInv(names)'
  <2> DEFINE q == [p EXCEPT !.weight = Clamp(p.weight + d, 1, WeightHi)]
  <2>1. p.weight + d \in Int /\ WeightHi \in Nat /\ 1 <= WeightHi
    BY <1>1, AggregatorAssumption DEF PolicyRecord
  <2>2. Clamp(p.weight + d, 1, WeightHi) \in Nat /\ Clamp(p.weight + d, 1, WeightHi) # 0
    BY <2>1 DEF Clamp
  <2>3. q \in PolicyRecord /\ q.weight # 0
    BY <1>1, <2>2 DEF PolicyRecord
  <2>4. EditPolicy(i, q)
    BY <1>5 DEF WeightClick, p
  <2>5. QED
    BY <1>2, <2>3, <2>4, EditInv
<1>6. QED
  BY <1>3, <1>4, <1>5 DEF IfaceAction

(* Every click, of a row or of the page's head.                            *)
LEMMA ClickInv ==
    ASSUME NEW names, EngineInv(names), Click
    PROVE  EngineInv(names)'
<1>1. config \in [strategy: Strategies, algorithm: Algorithms,
                  interfaces: {config.interfaces}, enabled: BOOLEAN]
  BY DEF EngineInv, EngineOK
<1>2. ASSUME UNCHANGED <<candidates, rr_counter, flow_table, rows>>,
             config'.interfaces = config.interfaces,
             config' \in [strategy: Strategies, algorithm: Algorithms,
                          interfaces: {config.interfaces}, enabled: BOOLEAN]
      PROVE  EngineInv(names)'
  BY <1>2 DEF EngineInv, EngineOK, ConfigValid, Validate
<1>3. CASE ToggleEnabled
  <2>1. (~config.enabled) \in BOOLEAN
    OBVIOUS
  <2>2. QED
    BY <1>1, <1>2, <1>3, <2>1 DEF ToggleEnabled
<1>4. ASSUME NEW s \in StrategyChoices, SetStrategy(s)
      PROVE  EngineInv(names)'
  BY <1>1, <1>2, <1>4, AggregatorAssumption DEF SetStrategy
<1>5. ASSUME NEW a \in AlgorithmChoices, SetAlgorithm(a)
      PROVE  EngineInv(names)'
  BY <1>1, <1>2, <1>5, AggregatorAssumption DEF SetAlgorithm
<1>6. ASSUME NEW i \in RowChoices, IfaceAction(i)
      PROVE  EngineInv(names)'
  BY <1>6, IfaceActionInv
<1>7. QED
  BY <1>3, <1>4, <1>5, <1>6 DEF Click

-----------------------------------------------------------------------------
(* The engine NetMuxApp::new builds.                                       *)
LEMMA InitInv ==
    ASSUME NEW names, NamesOK(names), Init
    PROVE  EngineInv(names) /\ Partial(candidates, Ifaces, Candidate)
<1>1. config \in [strategy: Strategies, algorithm: Algorithms,
                  interfaces: {config.interfaces}, enabled: BOOLEAN]
  BY DEF Init, DefaultConfig, Strategies, Algorithms
<1>2. /\ Partial(config.interfaces, names, PolicyRecord) /\ ConfigValid
      /\ DOMAIN config.interfaces = {}
  BY DEF Init, DefaultConfig, Partial, ConfigValid, Validate
<1>3. rr_counter \in 0 .. RRModulus - 1
  BY PolicyAssumption DEF Init
<1>4. Partial(flow_table, FlowKeys, names) /\ Partial(rows, names, BOOLEAN)
  BY DEF Init, Partial
<1>5. PICK seen \in Enumerations :
         candidates = RefreshCandidates(config, seen, NoRates, NoRates)
  BY DEF Init
<1>6. NoRates \in [Ifaces -> Nat]
  BY DEF NoRates
<1>7. ASSUME NEW i
      PROVE  PolicyOf(config, i) \in PolicyRecord
  BY <1>2 DEF PolicyOf, DefaultPolicy, PolicyRecord
<1>8. Partial(candidates, Ifaces, Candidate)
  BY <1>5, <1>6, <1>7, RefreshOK
<1>9. QED
  BY <1>1, <1>2, <1>3, <1>4, <1>8 DEF EngineInv, EngineOK, Partial, NamesOK

-----------------------------------------------------------------------------
(* Every step of the engine keeps the invariant.                           *)
LEMMA NextInv ==
    ASSUME NamesOK(Ifaces), EngineInv(Ifaces), [Next]_vars
    PROVE  EngineInv(Ifaces)'
<1>1. CASE Tick
  BY <1>1, TickInv
<1>2. CASE Render
  BY <1>2, RenderInv
<1>3. CASE Click
  BY <1>3, ClickInv
<1>4. ASSUME NEW k \in FlowKeys, Route(k)
      PROVE  EngineInv(Ifaces)'
  BY <1>4, RouteInv
<1>5. CASE UNCHANGED aggVars
  BY <1>5 DEF aggVars, EngineInv, EngineOK, ConfigValid
<1>6. QED
  BY <1>1, <1>2, <1>3, <1>4, <1>5 DEF Next, HostChange, vars, aggVars

(* The host's devices are names of candidates.                             *)
LEMMA IfacesNames == NamesOK(Ifaces)
  BY AggregatorAssumption DEF NamesOK

LEMMA EngineInvHolds == Init /\ [][Next]_vars => []EngineInv(Ifaces)
<1>1. Init => EngineInv(Ifaces)
  BY IfacesNames, InitInv
<1>2. EngineInv(Ifaces) /\ [Next]_vars => EngineInv(Ifaces)'
  BY IfacesNames, NextInv
<1>3. QED
  BY <1>1, <1>2, PTL

LEMMA EngineTypedHolds == Init /\ [][Next]_vars => []TypeOK
<1> DEFINE HostOK == host \in [Ifaces -> LinkStates]
<1>1. Init => HostOK
  BY AggregatorAssumption DEF Init
<1>2. HostOK /\ [Next]_vars => HostOK'
  <2>1. ASSUME HostOK, NEW i \in Ifaces, NEW l \in LinkChoices, host' = [host EXCEPT ![i] = l]
        PROVE  HostOK'
    BY <2>1, AggregatorAssumption
  <2>2. HostOK /\ UNCHANGED host => HostOK'
    OBVIOUS
  <2>3. QED
    BY <2>1, <2>2 DEF Next, HostChange, vars
<1>3. EngineInv(Ifaces) /\ HostOK => TypeOK
  BY DEF EngineInv, TypeOK
<1>4. QED
  BY <1>1, <1>2, <1>3, EngineInvHolds, PTL

(* The engine is well typed, whatever the devices do and the user clicks:  *)
(* the wrapping counter, the candidates refresh_candidates builds, the     *)
(* interfaces noted in flow_table and the rows drawn from them.            *)
THEOREM EngineTyped == Spec => []TypeOK
  BY EngineTypedHolds, PTL DEF Spec

(* No sequence of clicks makes a configuration validate() would refuse.    *)
THEOREM ConfigStaysValid == Spec => []ConfigValid
<1>1. EngineInv(Ifaces) => ConfigValid
  BY DEF EngineInv
<1>2. QED
  BY <1>1, EngineInvHolds, PTL DEF Spec
=============================================================================
