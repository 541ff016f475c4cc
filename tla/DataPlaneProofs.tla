-------------------------- MODULE DataPlaneProofs ---------------------------
(***************************************************************************)
(* What the data plane guarantees for any number of interfaces, flows and  *)
(* packets.  The threads use the NAT table as its specification says       *)
(* (NatSpec), so its theorems hold here; and a reply to a packet that left *)
(* by its session's egress is always matched.                              *)
(***************************************************************************)
EXTENDS DataPlane, NatTableProofs, AggregatorProofs

(* Nothing has been read or sent before the sockets exist, and they are    *)
(* for a tunnel.                                                           *)
Quiet == ui = "new" => mode = "Tunnelling" /\ eg.pc = "read" /\ wire = {}

(* What ReplyFindsSession rests on: a packet about to be sent, or sent,    *)
(* belongs to a registered flow.                                           *)
Registered ==
    /\ eg.pc = "send" => OutKey(eg.flow) \in DOMAIN by_outbound
    /\ \A w \in wire : OutKey(w.flow) \in DOMAIN by_outbound

DPInv == OutTypeOK /\ Quiet

-----------------------------------------------------------------------------
(* Only devices of the host become candidates.                             *)
LEMMA RefreshDomain ==
    ASSUME NEW cfg, NEW seen \in Enumerations, NEW tx, NEW rx
    PROVE  DOMAIN RefreshCandidates(cfg, seen, tx, rx) \subseteq Ifaces
<1>1. seen \subseteq Ifaces
  BY DEF Enumerations
<1>2. QED
  BY <1>1 DEF RefreshCandidates, Physical

LEMMA UsableDomain == ASSUME NEW c PROVE Usable(c) \subseteq DOMAIN c
  BY DEF Usable

(* The data plane starts well typed and idle.                              *)
LEMMA DPInitInv == DPInit => DPInv
<1> SUFFICES ASSUME DPInit PROVE DPInv
  OBVIOUS
<1>1. DOMAIN candidates \subseteq Ifaces
  BY RefreshDomain DEF DPInit, Init
<1>2. eg \in [pc: {"read", "parsed", "routing", "routed", "registering", "send"},
              flow: Flows \cup {NoFlow}, iface: Ifaces \cup {NoIface}]
  BY DEF DPInit, EgIdle
<1>3. iface_ips \in [egress -> V4]
  BY DEF DPInit
<1>4. mode \in {"Tunnelling", "Simulation"}
  BY DEF DPInit, StartModes
<1>5. QED
  BY <1>1, <1>2, <1>3, <1>4, DataPlaneAssumption DEF DPInit, DPInv, OutTypeOK, Quiet, EgIdle

(* start_data_plane fills in the sockets while everything else is idle.    *)
LEMMA StartInv == ASSUME DPInv, StartDataPlane PROVE DPInv'
<1>1. PICK out \in RawEgressOpen({i \in Usable(candidates) : host_ip[i] # NoIp}) :
         \E cap \in RawCaptureOpen(out) :
            /\ egress' = out
            /\ captures' = cap
            /\ iface_ips' = [i \in out |-> host_ip[i]]
  BY DEF StartDataPlane
<1>2. out \subseteq Usable(candidates) /\ \A i \in out : host_ip[i] # NoIp
  BY DEF RawEgressOpen, Present
<1>3. out \subseteq Ifaces
  BY <1>2, UsableDomain DEF StartDataPlane, DPInv, OutTypeOK, Quiet
<1>4. \A i \in out : host_ip[i] \in V4
  BY <1>2, <1>3 DEF DPInv, OutTypeOK
<1>5. captures' \subseteq out
  BY <1>1 DEF RawCaptureOpen, Present
<1>6. egress' \subseteq Ifaces /\ captures' \subseteq egress' /\ iface_ips' \in [egress' -> V4]
  BY <1>1, <1>3, <1>4, <1>5
<1>7. eg.pc = "read" /\ wire = {}
  BY DEF StartDataPlane, DPInv, Quiet
<1>8. QED
  BY <1>6, <1>7 DEF StartDataPlane, DPInv, OutTypeOK, Quiet, vars, natVars, netVars, socketVars, lockVars, outVars, inVars, uiVars

(* A tick of the demonstration generates a number of packets.              *)
LEMMA BatchNat == Batch \in Nat
<1>1. AtLeastOne(HealthSecs) \in Nat
  BY SimulationAssumption DEF AtLeastOne
<1>2. (PacketRate * (AtLeastOne(HealthSecs) * 16)) \div 1000 \in Int
  BY <1>1, SimulationAssumption
<1>3. PerTick(AtLeastOne(HealthSecs) * 16) \in Nat
  BY <1>2 DEF PerTick, AtLeastOne
<1>4. QED
  BY <1>3 DEF Batch, Clamp

(* The user-interface thread keeps the invariant: a tick may replace the   *)
(* candidates, by devices of the host only when it is a tunnel's.          *)
LEMMA UiInv ==
    ASSUME DPInv,
           \/ UiLock \/ UiTick \/ UiSummary \/ UiSimTick \/ UiBatch
           \/ UiRender \/ UiClick \/ CloseWindow
    PROVE  DPInv'
<1>1. CASE UiLock
  BY <1>1 DEF UiLock, DPInv, OutTypeOK, Quiet, vars, natVars, netVars, socketVars, lockVars, outVars, inVars, uiVars
<1>2. CASE UiTick
  <2>1. DOMAIN candidates' \subseteq Ifaces
    BY <1>2, RefreshDomain DEF UiTick, Tick
  <2>2. QED
    BY <1>2, <2>1 DEF UiTick, DPInv, OutTypeOK, Quiet, vars, natVars, netVars, socketVars, lockVars, outVars, inVars, uiVars
<1>3. CASE UiSummary
  BY <1>3 DEF UiSummary, DPInv, OutTypeOK, Quiet, vars, natVars, netVars, socketVars, lockVars, outVars, inVars, uiVars
<1>4. CASE UiClick
  <2>1. UNCHANGED candidates
    BY <1>4 DEF UiClick, Click, ToggleEnabled, SetStrategy, SetAlgorithm, IfaceAction,
                EnableClick, PriorityClick, WeightClick, EditPolicy
  <2>2. QED
    BY <1>4, <2>1 DEF UiClick, DPInv, OutTypeOK, Quiet, vars, natVars, netVars, socketVars, lockVars, outVars, inVars, uiVars
<1>5. CASE CloseWindow
  BY <1>5 DEF CloseWindow, DPInv, OutTypeOK, Quiet, vars, natVars, netVars, socketVars, lockVars, outVars, inVars, uiVars
<1>6. CASE UiRender
  BY <1>6 DEF UiRender, Render, DPInv, OutTypeOK, Quiet, vars, natVars, netVars, socketVars, lockVars, outVars, inVars, uiVars
<1>7. CASE UiSimTick
  <2>1. left' \in Nat
    BY <1>7, BatchNat DEF UiSimTick, SimTick
  <2>2. QED
    BY <1>7, <2>1 DEF UiSimTick, SimTick, DPInv, OutTypeOK, Quiet, vars, natVars, netVars, socketVars, lockVars, inVars, uiVars
<1>8. CASE UiBatch
  <2>1. PICK k \in NextPacket : SimPacket(k)
    BY <1>8 DEF UiBatch
  <2>2. left' \in Nat
    BY <2>1 DEF SimPacket, DPInv, OutTypeOK
  <2>3. UNCHANGED candidates
    BY <2>1 DEF SimPacket, Route
  <2>4. ui' \in {"idle", "batch"} /\ agg_lock' \in {"free", agg_lock}
    BY <1>8 DEF UiBatch
  <2>5. QED
    BY <1>8, <2>2, <2>3, <2>4 DEF UiBatch, DPInv, OutTypeOK, Quiet, natVars, netVars, socketVars, inVars
<1>9. QED
  BY <1>1, <1>2, <1>3, <1>4, <1>5, <1>6, <1>7, <1>8

(* The egress thread holds a flow from read to send, and from routing on   *)
(* an interface that has a socket.                                         *)
LEMMA EgressInv ==
    ASSUME DPInv, Egress \/ \E f \in Flows : EgRead(f)
    PROVE  DPInv'
<1> DEFINE EgType == [pc: {"read", "parsed", "routing", "routed", "registering", "send"},
                      flow: Flows \cup {NoFlow}, iface: Ifaces \cup {NoIface}]
<1>1. EgIdle \in EgType /\ EgIdle.pc = "read"
  BY DEF EgIdle
<1>2. eg \in EgType /\ egress \subseteq Ifaces
  BY DEF DPInv, OutTypeOK
<1>3. CASE \E f \in Flows : EgRead(f)
  BY <1>3 DEF EgRead, DPInv, OutTypeOK, Quiet, vars, natVars, netVars, socketVars, lockVars, outVars, inVars, uiVars
<1>4. CASE EgLockAgg
  BY <1>2, <1>4 DEF EgLockAgg, DPInv, OutTypeOK, Quiet, vars, natVars, netVars, socketVars, lockVars, outVars, inVars, uiVars
<1>5. CASE EgRoute
  <2>1. UNCHANGED candidates
    BY <1>5 DEF EgRoute, Route
  <2>2. \/ eg' = EgIdle
        \/ \E i \in egress : eg' = [eg EXCEPT !.pc = "routed", !.iface = i]
    BY <1>5 DEF EgRoute
  <2>3. eg.pc = "routing" /\ eg.flow \in Flows
    BY <1>5 DEF EgRoute, DPInv, OutTypeOK
  <2>4. eg' \in EgType
    BY <1>1, <1>2, <2>2
  <2>5. (eg'.pc # "read" => eg'.flow \in Flows) /\ (eg'.pc # "read" => eg'.iface \in egress)
    BY <1>1, <1>2, <2>2, <2>3
  <2>6. QED
    BY <1>5, <2>1, <2>3, <2>4, <2>5 DEF EgRoute, DPInv, OutTypeOK, Quiet, vars, natVars, netVars, socketVars, lockVars, outVars, inVars, uiVars
<1>6. CASE EgLockNat
  BY <1>2, <1>6 DEF EgLockNat, DPInv, OutTypeOK, Quiet, vars, natVars, netVars, socketVars, lockVars, outVars, inVars, uiVars
<1>7. CASE EgRegister
  BY <1>1, <1>2, <1>7 DEF EgRegister, DPInv, OutTypeOK, Quiet, vars, natVars, netVars, socketVars, lockVars, outVars, inVars, uiVars
<1>8. CASE EgSend
  <2>1. eg' = EgIdle /\ eg.flow \in Flows /\ eg.iface \in egress /\ ui # "new"
    BY <1>8 DEF EgSend, DPInv, OutTypeOK, Quiet
  <2>2. wire' \subseteq [flow: Flows, src: V4, iface: egress]
    <3>1. iface_ips[eg.iface] \in V4 /\ wire \subseteq [flow: Flows, src: V4, iface: egress]
      BY <2>1 DEF DPInv, OutTypeOK
    <3>2. [flow |-> eg.flow, src |-> iface_ips[eg.iface], iface |-> eg.iface]
             \in [flow: Flows, src: V4, iface: egress]
      BY <2>1, <3>1
    <3>3. QED
      BY <1>8, <3>1, <3>2 DEF EgSend, outVars
  <2>3. QED
    BY <1>1, <1>8, <2>1, <2>2 DEF EgSend, DPInv, OutTypeOK, Quiet, vars, natVars, netVars, socketVars, lockVars, outVars, inVars, uiVars
<1>9. QED
  BY <1>3, <1>4, <1>5, <1>6, <1>7, <1>8 DEF Egress

(* Captures and the host touch neither the egress thread nor the sockets.  *)
LEMMA OtherInv ==
    ASSUME DPInv,
           \/ \E i \in Ifaces : Capture(i) \/ CpRecv(i)
           \/ NetChange
           \/ \E i \in Ifaces, ip \in Leases : RenewLease(i, ip)
    PROVE  DPInv'
<1>1. ASSUME NEW i \in Ifaces, Capture(i) \/ CpRecv(i) PROVE DPInv'
  BY <1>1 DEF Capture, CpRecv, CpLockNat, CpLookup, CpWrite,
              DPInv, OutTypeOK, Quiet, vars, natVars, netVars, socketVars, lockVars, outVars, inVars, uiVars
<1>2. CASE NetChange
  BY <1>2 DEF NetChange, HostChange, aggVars, DPInv, OutTypeOK, Quiet, vars, natVars, netVars, socketVars, lockVars, outVars, inVars, uiVars
<1>3. ASSUME NEW i \in Ifaces, NEW ip \in Leases, RenewLease(i, ip) PROVE DPInv'
  BY <1>3, DataPlaneAssumption DEF RenewLease, DPInv, OutTypeOK, Quiet, vars, natVars, netVars, socketVars, lockVars, outVars, inVars, uiVars
<1>4. QED
  BY <1>1, <1>2, <1>3

(* The invariant is inductive.                                             *)
LEMMA DPNextInv == DPInv /\ [DPNext]_dpVars => DPInv'
<1>1. CASE UNCHANGED dpVars
  BY <1>1 DEF dpVars, DPInv, OutTypeOK, Quiet, vars, natVars, netVars, socketVars, lockVars, outVars, inVars, uiVars
<1>2. CASE DPNext
  BY <1>2, StartInv, UiInv, EgressInv, OtherInv DEF DPNext
<1>3. QED
  BY <1>1, <1>2

LEMMA DPInvHolds == DPSpec => []DPInv
  BY DPInitInv, DPNextInv, PTL DEF DPSpec

-----------------------------------------------------------------------------
(* The names the engine meets: the host's devices and the injected links.  *)
LEMMA AllNamesOK == NamesOK(Ifaces \cup SimNames)
<1>1. SimBase + 1 \in Int /\ SimBase + 3 \in Int /\ SimNames \subseteq Nat \ {0}
  BY SimulationAssumption DEF SimNames
<1>2. IsFiniteSet(SimNames)
  BY <1>1, FS_Interval DEF SimNames
<1>3. IsFiniteSet(Ifaces \cup SimNames)
  BY <1>2, AggregatorAssumption, FS_Union
<1>4. QED
  BY <1>1, <1>3, AggregatorAssumption DEF NamesOK

(* The links inject_sim_candidates puts in are candidates.                 *)
LEMMA SimCandidatesOK == Partial(SimCandidates, SimNames, Candidate)
<1>1. \A p, w \in Nat : SimLink(p, w) \in Candidate
  BY DEF SimLink, Candidate, PolicyRecord
<1>2. \A i \in SimNames : i = SimBase + 1 \/ i = SimBase + 2 \/ i = SimBase + 3
  BY SimulationAssumption DEF SimNames
<1>3. SimBase + 1 # SimBase + 2 /\ SimBase + 1 # SimBase + 3 /\ SimBase + 2 # SimBase + 3
  BY SimulationAssumption
<1>4. ASSUME NEW i \in SimNames PROVE SimCandidates[i] \in Candidate
  <2>1. CASE i = SimBase + 1
    BY <1>1, <1>3, <2>1 DEF SimCandidates
  <2>2. CASE i = SimBase + 2
    BY <1>1, <1>3, <2>2 DEF SimCandidates
  <2>3. CASE i = SimBase + 3
    BY <1>1, <1>3, <2>3 DEF SimCandidates
  <2>4. QED
    BY <1>2, <2>1, <2>2, <2>3
<1>5. DOMAIN SimCandidates = SimNames /\ SimCandidates \in [DOMAIN SimCandidates -> Candidate]
  BY <1>4 DEF SimCandidates
<1>6. QED
  BY <1>5 DEF Partial

(* The engine's invariant holds with the threads around it too: whichever  *)
(* thread has it, it runs one of the engine's operations.                  *)
LEMMA EngineStep ==
    ASSUME DPInv, EngineInv(Ifaces \cup SimNames), [DPNext]_dpVars
    PROVE  EngineInv(Ifaces \cup SimNames)'
<1> DEFINE names == Ifaces \cup SimNames
<1>1. CASE UNCHANGED aggVars
  BY <1>1 DEF aggVars, EngineInv, EngineOK, ConfigValid
<1>2. CASE UiTick
  BY <1>2, AllNamesOK, TickInv DEF UiTick
<1>3. CASE UiSimTick
  <2>1. \/ UNCHANGED aggVars
        \/ candidates' = SimCandidates /\ UNCHANGED <<config, rr_counter, flow_table, rows>>
    BY <1>3 DEF UiSimTick, SimTick, aggVars
  <2>2. Partial(SimCandidates, names, Candidate)
    BY SimCandidatesOK DEF Partial
  <2>3. QED
    BY <1>1, <2>1, <2>2 DEF EngineInv, EngineOK, ConfigValid
<1>4. CASE UiBatch
  <2>1. PICK k \in FlowKeys : Route(k)
    BY <1>4 DEF UiBatch, NextPacket, SimPacket
  <2>2. QED
    BY <2>1, AllNamesOK, RouteInv
<1>5. CASE UiRender
  BY <1>5, RenderInv DEF UiRender
<1>6. CASE UiClick
  BY <1>6, ClickInv DEF UiClick
<1>7. CASE EgRoute
  <2>1. Route(KeyOf(eg.flow)) /\ eg.flow \in Flows
    BY <1>7 DEF EgRoute, DPInv, OutTypeOK
  <2>2. PICK k \in FlowKeys : k = KeyOf(eg.flow)
    BY <2>1, DataPlaneAssumption
  <2>3. Route(k)
    BY <2>1, <2>2
  <2>4. QED
    BY <2>3, AllNamesOK, RouteInv
<1>8. CASE StartDataPlane \/ UiLock \/ UiSummary \/ CloseWindow
  BY <1>1, <1>8 DEF StartDataPlane, UiLock, UiSummary, CloseWindow, vars, aggVars
<1>9. CASE EgLockAgg \/ EgLockNat \/ EgRegister \/ EgSend \/ \E f \in Flows : EgRead(f)
  BY <1>1, <1>9 DEF EgLockAgg, EgLockNat, EgRegister, EgSend, EgRead, vars, aggVars
<1>10. CASE \E i \in Ifaces : Capture(i) \/ CpRecv(i)
  BY <1>1, <1>10 DEF Capture, CpRecv, CpLockNat, CpLookup, CpWrite, vars, aggVars
<1>11. CASE NetChange \/ \E i \in Ifaces, ip \in Leases : RenewLease(i, ip)
  BY <1>1, <1>11 DEF NetChange, HostChange, RenewLease, vars, aggVars
<1>12. CASE UNCHANGED dpVars
  BY <1>1, <1>12 DEF dpVars, vars, aggVars
<1>13. QED
  BY <1>2, <1>3, <1>4, <1>5, <1>6, <1>7, <1>8, <1>9, <1>10, <1>11, <1>12 DEF DPNext, Egress

LEMMA EngineHolds == DPSpec => []EngineInv(Ifaces \cup SimNames)
<1>1. DPInit => EngineInv(Ifaces \cup SimNames)
  BY AllNamesOK, InitInv DEF DPInit
<1>2. DPInv /\ EngineInv(Ifaces \cup SimNames) /\ [DPNext]_dpVars
         => EngineInv(Ifaces \cup SimNames)'
  BY EngineStep
<1>3. QED
  BY <1>1, <1>2, DPInvHolds, PTL DEF DPSpec

-----------------------------------------------------------------------------

(* Only the capture threads move captured packets and write to the TUN.    *)
LEMMA CaptureStep ==
    ASSUME [DPNext]_dpVars
    PROVE  UNCHANGED <<cp, delivered>> \/ \E i \in Ifaces : Capture(i) \/ CpRecv(i)
<1>1. CASE UNCHANGED dpVars
  BY <1>1 DEF dpVars, inVars
<1>2. CASE StartDataPlane \/ UiLock \/ UiTick \/ UiSummary \/ UiSimTick \/ UiBatch
            \/ UiRender \/ UiClick \/ CloseWindow
  BY <1>2 DEF StartDataPlane, UiLock, UiTick, UiSummary, UiSimTick, UiBatch, UiRender, UiClick, CloseWindow, inVars
<1>3. CASE Egress \/ \E f \in Flows : EgRead(f)
  BY <1>3 DEF Egress, EgLockAgg, EgRoute, EgLockNat, EgRegister, EgSend, EgRead, inVars
<1>4. CASE NetChange \/ \E i \in Ifaces, ip \in Leases : RenewLease(i, ip)
  BY <1>4 DEF NetChange, RenewLease, inVars
<1>5. QED
  BY <1>1, <1>2, <1>3, <1>4 DEF DPNext

-----------------------------------------------------------------------------
(* Every step of the data plane but EgRegister leaves the NAT table alone, *)
(* and EgRegister registers a flow on an interface with its address.       *)
LEMMA NatStep ==
    ASSUME DPInv, DPNext
    PROVE  \/ UNCHANGED natVars
           \/ /\ EgRegister
              /\ eg.flow \in Flows /\ eg.iface \in egress
              /\ eg.iface \in NatIfaces /\ iface_ips[eg.iface] \in V4
<1>1. CASE EgRegister
  BY <1>1, DataPlaneAssumption DEF EgRegister, DPInv, OutTypeOK
<1>2. CASE Egress /\ ~EgRegister
  BY <1>2 DEF Egress, EgLockAgg, EgRoute, EgLockNat, EgSend
<1>3. CASE StartDataPlane \/ UiLock \/ UiTick \/ UiSummary \/ UiSimTick \/ UiBatch
            \/ UiRender \/ UiClick \/ CloseWindow
  BY <1>3 DEF StartDataPlane, UiLock, UiTick, UiSummary, UiSimTick, UiBatch, UiRender, UiClick, CloseWindow
<1>4. CASE \E f \in Flows : EgRead(f)
  BY <1>4 DEF EgRead
<1>5. CASE \E i \in Ifaces : Capture(i) \/ CpRecv(i)
  BY <1>5 DEF Capture, CpRecv, CpLockNat, CpLookup, CpWrite
<1>6. CASE NetChange \/ \E i \in Ifaces, ip \in Leases : RenewLease(i, ip)
  BY <1>6 DEF NetChange, RenewLease
<1>7. QED
  BY <1>1, <1>2, <1>3, <1>4, <1>5, <1>6 DEF DPNext

(* The threads use the NAT table as NatSpec says, under any interleaving:  *)
(* every theorem about the table is one about the data plane.              *)
THEOREM DataPlaneUsesNat == DPSpec => NatSpec
<1>1. DPInit => NatInit
  BY DEF DPInit
<1>2. DPInv /\ [DPNext]_dpVars => [NatNext]_natVars
  <2>1. ASSUME DPInv, DPNext PROVE [NatNext]_natVars
    <3>1. CASE UNCHANGED natVars
      BY <3>1
    <3>2. CASE EgRegister /\ eg.flow \in Flows /\ eg.iface \in NatIfaces
                 /\ iface_ips[eg.iface] \in V4
      BY <3>2 DEF EgRegister, NatNext
    <3>3. QED
      BY <2>1, <3>1, <3>2, NatStep
  <2>2. UNCHANGED dpVars => UNCHANGED natVars
    BY DEF dpVars
  <2>3. QED
    BY <2>1, <2>2
<1>3. QED
  BY <1>1, <1>2, DPInitInv, DPNextInv, PTL DEF DPSpec, NatSpec

(* In the data plane, too, the two maps of the table agree and a flow,     *)
(* once bound, stays on its egress.                                        *)
THEOREM DataPlaneSessions ==
    DPSpec => [](NatTypeOK /\ ReturnIndexExact) /\ ImplementsBinding
  BY DataPlaneUsesNat, NatReturnIndex, NatImplementsBinding, PTL

-----------------------------------------------------------------------------
PktType == [key: {RetKey(f, ip) : f \in Flows, ip \in V4} \cup Strays \cup {<<>>},
            orig: Flows \cup {NoFlow}]

CpType == [pc: {"recv", "parsed", "lookup", "write"}, pkt: PktType, client: V4 \cup {NoIp}]

(* A session found by lookup_return is one that was made for an IPv4 flow, *)
(* under the return key of that flow.                                      *)
LEMMA FoundSession ==
    ASSUME NatTypeOK, NEW key, NEW s \in LookupReturn(key)
    PROVE  \E f \in Flows, ip \in V4 :
              s.client_ip = f.src /\ ParsesV4(f) /\ key = RetKey(f, ip)
<1>1. PICK k \in DOMAIN by_outbound : s = by_outbound[k] /\ SessionRetKey(s) = key
  BY DEF LookupReturn
<1>2. PICK f \in Flows, i \in NatIfaces, ip \in V4 :
         ParsesV4(f) /\ s = NewSession(f, i, ip)
  BY <1>1 DEF NatTypeOK
<1>3. s.client_ip = f.src
  BY <1>2 DEF NewSession
<1>4. QED
  BY <1>1, <1>2, <1>3, RetKeyOfNewSession

(* An inbound packet has the key of a reply or of a stray.                 *)
LEMMA InboundType ==
    ASSUME DPInv, NEW i \in Ifaces, NEW p \in Inbound(i)
    PROVE  p \in PktType
<1>1. wire \subseteq [flow: Flows, src: V4, iface: egress]
  BY DEF DPInv, OutTypeOK
<1>2. CASE \E w \in wire : p = [key |-> RetKey(w.flow, w.src), orig |-> w.flow]
  BY <1>1, <1>2 DEF PktType
<1>3. CASE \E k \in Strays : p = [key |-> k, orig |-> NoFlow]
  BY <1>3 DEF PktType
<1>4. QED
  BY <1>2, <1>3 DEF Inbound

(* The capture threads keep to their types.                                *)
LEMMA InTypeStep ==
    DPInv /\ NatTypeOK /\ InTypeOK /\ [DPNext]_dpVars => InTypeOK'
<1> SUFFICES ASSUME DPInv, NatTypeOK, InTypeOK, [DPNext]_dpVars
             PROVE  InTypeOK'
  OBVIOUS
<1>1. cp \in [Ifaces -> CpType] /\ delivered \subseteq [to: V4 \cup {NoIp}, orig: Flows \cup {NoFlow}]
  BY DEF InTypeOK, CpType, PktType
<1>2. CpIdle \in CpType
  BY DEF CpIdle, CpType, PktType, NoIp
<1>3. ASSUME NEW i \in Ifaces, NEW c \in CpType, cp' = [cp EXCEPT ![i] = c],
             delivered' = delivered
      PROVE  InTypeOK'
  <2>1. cp' \in [Ifaces -> CpType]
    BY <1>1, <1>3
  <2>2. QED
    BY <1>1, <1>3, <2>1 DEF InTypeOK, CpType, PktType
<1>4. CASE UNCHANGED <<cp, delivered>>
  BY <1>4 DEF InTypeOK
<1>5. ASSUME NEW i \in Ifaces, CpRecv(i) PROVE InTypeOK'
  <2>1. PICK p \in Inbound(i) : cp' = [cp EXCEPT ![i] = [@ EXCEPT !.pc = "parsed", !.pkt = p]]
    BY <1>5 DEF CpRecv
  <2>2. [cp[i] EXCEPT !.pc = "parsed", !.pkt = p] \in CpType
    BY <1>1, InboundType DEF CpType
  <2>3. cp' = [cp EXCEPT ![i] = [cp[i] EXCEPT !.pc = "parsed", !.pkt = p]]
    BY <1>1, <2>1
  <2>4. QED
    BY <1>3, <1>5, <2>2, <2>3 DEF CpRecv, inVars
<1>6. ASSUME NEW i \in Ifaces, CpLockNat(i) PROVE InTypeOK'
  <2>1. cp' = [cp EXCEPT ![i] = [cp[i] EXCEPT !.pc = "lookup"]]
    BY <1>1, <1>6 DEF CpLockNat
  <2>2. [cp[i] EXCEPT !.pc = "lookup"] \in CpType
    BY <1>1 DEF CpType
  <2>3. QED
    BY <1>3, <1>6, <2>1, <2>2 DEF CpLockNat, inVars
<1>7. ASSUME NEW i \in Ifaces, CpLookup(i) PROVE InTypeOK'
  <2>1. CASE cp' = [cp EXCEPT ![i] = CpIdle]
    BY <1>2, <1>3, <1>7, <2>1 DEF CpLookup, inVars
  <2>2. ASSUME NEW s \in LookupReturn(cp[i].pkt.key),
               cp' = [cp EXCEPT ![i] = [@ EXCEPT !.pc = "write", !.client = s.client_ip]]
        PROVE  InTypeOK'
    <3>1. s.client_ip \in V4
      BY FoundSession DEF ParsesV4
    <3>2. [cp[i] EXCEPT !.pc = "write", !.client = s.client_ip] \in CpType
      BY <1>1, <3>1 DEF CpType
    <3>3. cp' = [cp EXCEPT ![i] = [cp[i] EXCEPT !.pc = "write", !.client = s.client_ip]]
      BY <1>1, <2>2
    <3>4. QED
      BY <1>3, <1>7, <3>2, <3>3 DEF CpLookup, inVars
  <2>3. QED
    BY <1>7, <2>1, <2>2 DEF CpLookup
<1>8. ASSUME NEW i \in Ifaces, CpWrite(i) PROVE InTypeOK'
  <2>1. cp' \in [Ifaces -> CpType]
    BY <1>1, <1>2, <1>8 DEF CpWrite
  <2>2. [to |-> cp[i].client, orig |-> cp[i].pkt.orig] \in [to: V4 \cup {NoIp}, orig: Flows \cup {NoFlow}]
    BY <1>1 DEF CpType, PktType
  <2>3. delivered' \subseteq [to: V4 \cup {NoIp}, orig: Flows \cup {NoFlow}]
    BY <1>1, <1>8, <2>2 DEF CpWrite, inVars
  <2>4. QED
    BY <2>1, <2>3 DEF InTypeOK, CpType, PktType
<1>9. UNCHANGED <<cp, delivered>> \/ \E i \in Ifaces : Capture(i) \/ CpRecv(i)
  BY CaptureStep
<1>10. QED
  BY <1>4, <1>5, <1>6, <1>7, <1>8, <1>9 DEF Capture

(* Type correctness of the data plane.                                     *)
THEOREM DataPlaneTyped == DPSpec => []DPTypeOK
<1>1. DPInit => InTypeOK
  <2> SUFFICES ASSUME DPInit PROVE InTypeOK
    OBVIOUS
  <2>1. CpIdle \in CpType
    BY DEF CpIdle, CpType, PktType, NoIp
  <2>2. QED
    BY <2>1 DEF DPInit, InTypeOK, CpType, PktType
<1>2. DPSpec => []NatTypeOK
  BY DataPlaneUsesNat, NatReturnIndex, PTL
<1>3. DPSpec => []InTypeOK
  BY <1>1, <1>2, DPInvHolds, InTypeStep, PTL DEF DPSpec
<1>4. EngineInv(Ifaces \cup SimNames) /\ DPInv /\ InTypeOK => DPTypeOK
  BY DEF EngineInv, DPInv, DPTypeOK
<1>5. QED
  BY <1>3, <1>4, EngineHolds, DPInvHolds, PTL

-----------------------------------------------------------------------------
(* The user-interface thread and the engine's lock.                        *)
LEMMA UiLocks ==
    ASSUME LocksExact,
           \/ StartDataPlane \/ UiLock \/ UiTick \/ UiSummary \/ UiSimTick \/ UiBatch
           \/ UiRender \/ UiClick \/ CloseWindow
    PROVE  LocksExact'
<1>1. UNCHANGED <<eg, cp, nat_lock>>
  BY DEF StartDataPlane, UiLock, UiTick, UiSummary, UiSimTick, UiBatch, UiRender, UiClick, CloseWindow, lockVars
<1>2. \/ UNCHANGED agg_lock /\ (ui \in {"tick", "summary", "batch"} <=> ui' \in {"tick", "summary", "batch"})
      \/ agg_lock = "free" /\ agg_lock' = "ui" /\ ui' = "tick"
      \/ agg_lock' = "free" /\ ui \in {"tick", "summary", "batch"} /\ ui' = "idle"
  BY DEF StartDataPlane, UiLock, UiTick, UiSummary, UiSimTick, UiBatch, UiRender, UiClick, CloseWindow, lockVars, uiVars
<1>3. QED
  BY <1>1, <1>2 DEF LocksExact

(* The egress thread takes the two locks one after the other.              *)
LEMMA EgressLocks ==
    ASSUME DPInv, LocksExact, Egress \/ \E f \in Flows : EgRead(f)
    PROVE  LocksExact'
<1>1. UNCHANGED <<ui, cp>>
  BY DEF Egress, EgLockAgg, EgRoute, EgLockNat, EgRegister, EgSend, EgRead, uiVars
<1>2. eg \in [pc: {"read", "parsed", "routing", "routed", "registering", "send"},
              flow: Flows \cup {NoFlow}, iface: Ifaces \cup {NoIface}]
  BY DEF DPInv, OutTypeOK
<1>3. CASE \E f \in Flows : EgRead(f)
  <2>1. eg.pc = "read" /\ eg'.pc = "parsed" /\ UNCHANGED lockVars
    BY <1>3 DEF EgRead
  <2>2. QED
    BY <1>1, <2>1 DEF LocksExact, lockVars
<1>4. CASE EgLockAgg
  <2>1. /\ eg.pc = "parsed" /\ eg'.pc = "routing"
        /\ agg_lock = "free" /\ agg_lock' = "egress" /\ UNCHANGED nat_lock
    BY <1>2, <1>4 DEF EgLockAgg
  <2>2. QED
    BY <1>1, <2>1 DEF LocksExact
<1>5. CASE EgRoute
  <2>1. /\ eg.pc = "routing" /\ eg'.pc \in {"read", "routed"}
        /\ agg_lock' = "free" /\ UNCHANGED nat_lock
    BY <1>2, <1>5 DEF EgRoute, EgIdle
  <2>2. QED
    BY <1>1, <2>1 DEF LocksExact
<1>6. CASE EgLockNat
  <2>1. /\ eg.pc = "routed" /\ eg'.pc = "registering"
        /\ nat_lock = "free" /\ nat_lock' = "egress" /\ UNCHANGED agg_lock
    BY <1>2, <1>6 DEF EgLockNat
  <2>2. QED
    BY <1>1, <2>1 DEF LocksExact
<1>7. CASE EgRegister
  <2>1. /\ eg.pc = "registering" /\ eg'.pc \in {"read", "send"}
        /\ nat_lock' = "free" /\ UNCHANGED agg_lock
    BY <1>2, <1>7 DEF EgRegister, EgIdle
  <2>2. QED
    BY <1>1, <2>1 DEF LocksExact
<1>8. CASE EgSend
  <2>1. eg.pc = "send" /\ eg'.pc = "read" /\ UNCHANGED lockVars
    BY <1>8 DEF EgSend, EgIdle
  <2>2. QED
    BY <1>1, <2>1 DEF LocksExact, lockVars
<1>9. QED
  BY <1>3, <1>4, <1>5, <1>6, <1>7, <1>8 DEF Egress

(* Each capture thread takes the table's lock for one look-up.             *)
LEMMA CaptureLocks ==
    ASSUME InTypeOK, LocksExact, NEW i \in Ifaces, Capture(i) \/ CpRecv(i)
    PROVE  LocksExact'
<1>1. UNCHANGED <<ui, eg, agg_lock>>
  BY DEF Capture, CpRecv, CpLockNat, CpLookup, CpWrite, lockVars, uiVars
<1>2. cp \in [Ifaces -> CpType]
  BY DEF InTypeOK, CpType, PktType
<1>3. \A j \in Ifaces : j # i => cp'[j] = cp[j]
  BY <1>2 DEF Capture, CpRecv, CpLockNat, CpLookup, CpWrite
<1>4. CASE UNCHANGED nat_lock /\ cp[i].pc # "lookup" /\ cp'[i].pc # "lookup"
  BY <1>1, <1>3, <1>4 DEF LocksExact
<1>5. CASE CpRecv(i)
  <2>1. cp[i].pc = "recv" /\ cp'[i].pc = "parsed" /\ UNCHANGED nat_lock
    BY <1>2, <1>5 DEF CpRecv, lockVars, CpType
  <2>2. QED
    BY <1>4, <2>1
<1>6. CASE CpWrite(i)
  <2>1. cp[i].pc = "write" /\ cp'[i].pc = "recv" /\ UNCHANGED nat_lock
    BY <1>2, <1>6 DEF CpWrite, lockVars, CpIdle
  <2>2. QED
    BY <1>4, <2>1
<1>7. CASE CpLockNat(i)
  <2>1. nat_lock = "free" /\ nat_lock' = "capture" /\ cp'[i].pc = "lookup"
    BY <1>2, <1>7 DEF CpLockNat, CpType
  <2>2. \A j \in Ifaces : cp[j].pc # "lookup"
    BY <2>1 DEF LocksExact
  <2>3. QED
    BY <1>1, <1>3, <2>1, <2>2 DEF LocksExact
<1>8. CASE CpLookup(i)
  <2>1. nat_lock' = "free" /\ cp[i].pc = "lookup" /\ cp'[i].pc \in {"recv", "write"}
    <3>1. CASE cp' = [cp EXCEPT ![i] = CpIdle]
      BY <1>2, <1>8, <3>1 DEF CpLookup, CpIdle
    <3>2. ASSUME NEW c, cp' = [cp EXCEPT ![i] = [@ EXCEPT !.pc = "write", !.client = c]]
          PROVE  cp'[i].pc = "write"
      <4>1. cp'[i] = [cp[i] EXCEPT !.pc = "write", !.client = c]
        BY <1>2, <3>2
      <4>2. QED
        BY <1>2, <4>1 DEF CpType
    <3>3. QED
      BY <1>8, <3>1, <3>2 DEF CpLookup
  <2>2. \A j \in Ifaces : j # i => cp[j].pc # "lookup"
    BY <2>1 DEF LocksExact
  <2>3. nat_lock = "capture"
    BY <2>1 DEF LocksExact
  <2>4. QED
    BY <1>1, <1>3, <2>1, <2>2, <2>3 DEF LocksExact
<1>9. QED
  BY <1>5, <1>6, <1>7, <1>8 DEF Capture

(* The two mutexes exclude each other's sections for any number of capture *)
(* threads, and no path through a section forgets the unlock.              *)
THEOREM DataPlaneLocks == DPSpec => []LocksExact
<1>1. DPInit => LocksExact
  <2> SUFFICES ASSUME DPInit PROVE LocksExact
    OBVIOUS
  <2>1. /\ agg_lock = "free" /\ nat_lock = "free" /\ ui \in {"new", "idle"}
        /\ eg.pc = "read" /\ \A i \in Ifaces : cp[i].pc = "recv"
    BY DEF DPInit, EgIdle, CpIdle
  <2>2. QED
    BY <2>1 DEF LocksExact
<1>2. DPInv /\ InTypeOK /\ LocksExact /\ [DPNext]_dpVars => LocksExact'
  <2>1. CASE UNCHANGED dpVars
    BY <2>1 DEF dpVars, lockVars, uiVars, LocksExact
  <2>2. CASE NetChange \/ \E i \in Ifaces, ip \in Leases : RenewLease(i, ip)
    BY <2>2 DEF NetChange, RenewLease, lockVars, uiVars, LocksExact
  <2>3. QED
    BY <2>1, <2>2, UiLocks, EgressLocks, CaptureLocks DEF DPNext
<1>3. DPTypeOK => InTypeOK
  BY DEF DPTypeOK
<1>4. QED
  BY <1>1, <1>2, <1>3, DPInvHolds, DataPlaneTyped, PTL DEF DPSpec

-----------------------------------------------------------------------------
(* A registered flow keeps its session.                                    *)
LEMMA KeysStay ==
    ASSUME DPInv, DPNext
    PROVE  DOMAIN by_outbound \subseteq DOMAIN by_outbound'
<1>1. CASE UNCHANGED natVars
  BY <1>1 DEF natVars
<1>2. CASE EgRegister
  BY <1>2 DEF EgRegister, Register, Insert, natVars
<1>3. QED
  BY <1>1, <1>2, NatStep

(* A flow is registered before its packet is sent.                         *)
LEMMA RegisteredStep == DPInv /\ Registered /\ [DPNext]_dpVars => Registered'
<1>1. CASE UNCHANGED dpVars
  BY <1>1 DEF dpVars, natVars, outVars, Registered
<1>2. ASSUME DPInv, Registered, DPNext PROVE Registered'
  <2> USE <1>2
  <2>1. CASE EgRegister
    <3>1. OutKey(eg.flow) \in DOMAIN by_outbound' \/ ~ParsesV4(eg.flow)
      BY <2>1 DEF EgRegister, Register, Insert, natVars
    <3>2. eg'.pc = "send" => eg'.flow = eg.flow /\ ParsesV4(eg.flow)
      BY <2>1 DEF EgRegister, EgIdle, DPInv, OutTypeOK
    <3>3. wire' = wire
      BY <2>1 DEF EgRegister, outVars
    <3>4. QED
      BY <3>1, <3>2, <3>3, KeysStay DEF Registered
  <2>2. CASE EgSend
    <3>1. eg'.pc # "send"
      BY <2>2 DEF EgSend, EgIdle
    <3>2. \A w \in wire' : w \in wire \/ w.flow = eg.flow
      BY <2>2 DEF EgSend, outVars
    <3>3. eg.pc = "send"
      BY <2>2 DEF EgSend
    <3>4. QED
      BY <3>1, <3>2, <3>3, KeysStay DEF Registered
  <2>3. CASE ~EgRegister /\ ~EgSend
    <3>1. wire' = wire /\ (eg' = eg \/ eg'.pc # "send")
      <4>1. CASE \E f \in Flows : EgRead(f)
        BY <4>1 DEF EgRead, outVars
      <4>2. CASE EgLockAgg
        BY <4>2 DEF EgLockAgg, outVars, DPInv, OutTypeOK
      <4>3. CASE EgRoute
        BY <4>3 DEF EgRoute, outVars, EgIdle, DPInv, OutTypeOK
      <4>4. CASE EgLockNat
        BY <4>4 DEF EgLockNat, outVars, DPInv, OutTypeOK
      <4>5. CASE StartDataPlane \/ UiLock \/ UiTick \/ UiSummary \/ UiSimTick
                  \/ UiBatch \/ UiRender \/ UiClick \/ CloseWindow
        BY <4>5 DEF StartDataPlane, UiLock, UiTick, UiSummary, UiSimTick, UiBatch, UiRender, UiClick, CloseWindow, outVars
      <4>6. CASE \E i \in Ifaces : Capture(i) \/ CpRecv(i)
        BY <4>6 DEF Capture, CpRecv, CpLockNat, CpLookup, CpWrite, outVars
      <4>7. CASE NetChange \/ \E i \in Ifaces, ip \in Leases : RenewLease(i, ip)
        BY <4>7 DEF NetChange, RenewLease, outVars
      <4>8. QED
        BY <2>3, <4>1, <4>2, <4>3, <4>4, <4>5, <4>6, <4>7 DEF DPNext, Egress
    <3>2. QED
      BY <3>1, KeysStay DEF Registered
  <2>4. QED
    BY <2>1, <2>2, <2>3
<1>3. QED
  BY <1>1, <1>2

LEMMA RegisteredHolds == DPSpec => []Registered
<1>1. DPInit => Registered
  BY DEF DPInit, Registered, EgIdle
<1>2. QED
  BY <1>1, DPInitInv, DPNextInv, RegisteredStep, PTL DEF DPSpec

(* Flow records with the same outbound key are the same flow.              *)
LEMMA OutKeyInjective ==
    ASSUME NEW f \in Flows, NEW g \in Flows, OutKey(f) = OutKey(g)
    PROVE  f = g
<1>1. /\ f.proto = g.proto /\ f.src = g.src /\ f.sport = g.sport
      /\ f.dst = g.dst /\ f.dport = g.dport
  BY DEF OutKey
<1>2. QED
  BY <1>1, NatAssumption

(* A reply can never overtake the session it belongs to: whatever the      *)
(* interleaving of the threads, the reply to a packet that left by its     *)
(* session's egress finds that session.                                    *)
THEOREM DataPlaneReplies == DPSpec => []ReplyFindsSession
<1>1. OutTypeOK /\ Registered /\ NatTypeOK /\ ReturnIndexExact => ReplyFindsSession
  <2> SUFFICES ASSUME OutTypeOK, Registered, NatTypeOK, ReturnIndexExact,
                      NEW w \in wire,
                      by_outbound[OutKey(w.flow)].egress_ip = w.src
               PROVE  by_outbound[OutKey(w.flow)] \in LookupReturn(RetKey(w.flow, w.src))
    BY DEF ReplyFindsSession, Registered
  <2> DEFINE k == OutKey(w.flow)
  <2>1. k \in DOMAIN by_outbound /\ w.flow \in Flows
    BY DEF Registered, OutTypeOK
  <2>2. PICK f \in Flows, i \in NatIfaces, ip \in V4 :
           k = OutKey(f) /\ by_outbound[k] = NewSession(f, i, ip)
    BY <2>1 DEF NatTypeOK
  <2>3. f = w.flow
    BY <2>1, <2>2, OutKeyInjective
  <2>4. ip = w.src
    BY <2>2 DEF NewSession
  <2>5. SessionRetKey(by_outbound[k]) = RetKey(w.flow, w.src)
    BY <2>2, <2>3, <2>4, RetKeyOfNewSession
  <2>6. RetKey(w.flow, w.src) \in DOMAIN by_return
    BY <2>1, <2>5 DEF ReturnIndexExact
  <2>7. QED
    BY <2>1, <2>5, <2>6 DEF LookupReturn
<1>2. QED
  <2>1. DPInv => OutTypeOK
    BY DEF DPInv
  <2>2. QED
    BY <1>1, <2>1, RegisteredHolds, DPInvHolds, DataPlaneUsesNat, NatReturnIndex, PTL

-----------------------------------------------------------------------------
(* The data plane implements Forwarder: whatever the threads, the host and *)
(* the network do, a client gets answers to its own packets only.  The     *)
(* inductive invariant is InFlight, on the packets the capture threads     *)
(* hold between their steps.                                               *)

SentFlows == {w.flow : w \in wire}

(* A captured packet is a stray or answers a flow that was sent.           *)
Explained(p) ==
    \/ p.key \in Strays
    \/ p.orig \in SentFlows /\ \E ip \in V4 : p.key = RetKey(p.orig, ip)

(* What a capture thread holds: until the look-up a packet that can be     *)
(* explained, after it an answer and the client whose packet it answers.   *)
InFlight ==
    \A i \in Ifaces :
        /\ cp[i].pc \in {"parsed", "lookup"} => Explained(cp[i].pkt)
        /\ cp[i].pc = "write" =>
              cp[i].pkt.orig \in SentFlows /\ cp[i].client = cp[i].pkt.orig.src

-----------------------------------------------------------------------------
(* The return key names the flow, since no two flows differ in the client  *)
(* address only.                                                           *)
LEMMA RetKeyNamesFlow ==
    ASSUME PortsDistinct, NEW f \in Flows, NEW g \in Flows, NEW ip, NEW jp,
           RetKey(f, ip) = RetKey(g, jp)
    PROVE  f = g
<1>1. f.proto = g.proto /\ f.sport = g.sport /\ f.dst = g.dst /\ f.dport = g.dport
  BY DEF RetKey
<1>2. QED
  BY <1>1 DEF PortsDistinct

(* lookup_return finds the client a packet in flight is for, or nobody.    *)
LEMMA FoundClient ==
    ASSUME PortsDistinct, StraysForeign, NatTypeOK, DPInv,
           NEW p, Explained(p), NEW s \in LookupReturn(p.key)
    PROVE  p.orig \in SentFlows /\ s.client_ip = p.orig.src
<1>1. PICK f \in Flows, ip \in V4 : s.client_ip = f.src /\ p.key = RetKey(f, ip)
  BY FoundSession
<1>2. p.key \notin Strays
  BY <1>1 DEF StraysForeign
<1>3. PICK jp \in V4 : p.orig \in SentFlows /\ p.key = RetKey(p.orig, jp)
  BY <1>2 DEF Explained
<1>4. p.orig \in Flows
  BY <1>3 DEF SentFlows, DPInv, OutTypeOK
<1>5. f = p.orig
  BY <1>1, <1>3, <1>4, RetKeyNamesFlow
<1>6. QED
  BY <1>1, <1>3, <1>5

(* Every step but a send leaves the wire alone.                            *)
LEMMA WireStep ==
    ASSUME [DPNext]_dpVars
    PROVE  wire' = wire \/ EgSend
<1>1. CASE UNCHANGED dpVars
  BY <1>1 DEF dpVars, outVars
<1>2. CASE StartDataPlane \/ UiLock \/ UiTick \/ UiSummary \/ UiSimTick \/ UiBatch
            \/ UiRender \/ UiClick \/ CloseWindow
  BY <1>2 DEF StartDataPlane, UiLock, UiTick, UiSummary, UiSimTick, UiBatch, UiRender, UiClick, CloseWindow, outVars
<1>3. CASE EgLockAgg \/ EgRoute \/ EgLockNat \/ EgRegister \/ \E f \in Flows : EgRead(f)
  BY <1>3 DEF EgLockAgg, EgRoute, EgLockNat, EgRegister, EgRead, outVars
<1>4. CASE \E i \in Ifaces : Capture(i) \/ CpRecv(i)
  BY <1>4 DEF Capture, CpRecv, CpLockNat, CpLookup, CpWrite, outVars
<1>5. CASE NetChange \/ \E i \in Ifaces, ip \in Leases : RenewLease(i, ip)
  BY <1>5 DEF NetChange, RenewLease, outVars
<1>6. QED
  BY <1>1, <1>2, <1>3, <1>4, <1>5 DEF DPNext, Egress

(* What has been sent stays sent.                                          *)
LEMMA WireGrows == ASSUME [DPNext]_dpVars PROVE wire \subseteq wire'
  BY WireStep DEF EgSend, outVars

(* The invariant for one capture thread.                                   *)
Held(c) ==
    /\ c.pc \in {"parsed", "lookup"} => Explained(c.pkt)
    /\ c.pc = "write" => c.pkt.orig \in SentFlows /\ c.client = c.pkt.orig.src

(* Sending more does not unexplain what a thread holds.                    *)
LEMMA HeldStays == ASSUME [DPNext]_dpVars, NEW c, Held(c) PROVE Held(c)'
<1>1. wire \subseteq wire'
  BY WireGrows
<1>2. QED
  BY <1>1 DEF Held, Explained, SentFlows

(* Each step of a capture thread keeps what it holds explained.            *)
LEMMA CaptureHeld ==
    ASSUME PortsDistinct, StraysForeign, NatTypeOK, DPInv, InTypeOK, InFlight,
           NEW i \in Ifaces, Capture(i) \/ CpRecv(i)
    PROVE  \E c : cp' = [cp EXCEPT ![i] = c] /\ Held(c)
<1>1. cp \in [Ifaces -> CpType]
  BY DEF InTypeOK, CpType, PktType
<1>2. Held(cp[i]) /\ Held(CpIdle)
  BY DEF InFlight, Held, CpIdle
<1>3. CASE CpRecv(i)
  <2>1. PICK p \in Inbound(i) : cp' = [cp EXCEPT ![i] = [@ EXCEPT !.pc = "parsed", !.pkt = p]]
    BY <1>3 DEF CpRecv
  <2>2. Explained(p)
    <3>1. CASE \E w \in wire : p = [key |-> RetKey(w.flow, w.src), orig |-> w.flow]
      BY <3>1 DEF Explained, SentFlows, DPInv, OutTypeOK
    <3>2. CASE \E k \in Strays : p = [key |-> k, orig |-> NoFlow]
      BY <3>2 DEF Explained
    <3>3. QED
      BY <3>1, <3>2 DEF Inbound
  <2> DEFINE c == [cp[i] EXCEPT !.pc = "parsed", !.pkt = p]
  <2>3. c.pc = "parsed" /\ c.pkt = p
    BY <1>1 DEF CpType
  <2>4. cp' = [cp EXCEPT ![i] = c]
    BY <1>1, <2>1
  <2> HIDE DEF c
  <2>5. Held(c)
    BY <2>2, <2>3 DEF Held
  <2>6. QED
    BY <2>4, <2>5
<1>4. CASE CpLockNat(i)
  <2> DEFINE c == [cp[i] EXCEPT !.pc = "lookup"]
  <2>1. c.pc = "lookup" /\ c.pkt = cp[i].pkt
    BY <1>1 DEF CpType
  <2>2. cp' = [cp EXCEPT ![i] = c] /\ cp[i].pc = "parsed"
    BY <1>1, <1>4 DEF CpLockNat
  <2> HIDE DEF c
  <2>3. Held(c)
    BY <1>2, <2>1, <2>2 DEF Held
  <2>4. QED
    BY <2>2, <2>3
<1>5. CASE CpLookup(i)
  <2>1. CASE cp' = [cp EXCEPT ![i] = CpIdle]
    BY <1>2, <2>1
  <2>2. ASSUME NEW s \in LookupReturn(cp[i].pkt.key),
               cp' = [cp EXCEPT ![i] = [@ EXCEPT !.pc = "write", !.client = s.client_ip]]
        PROVE  \E c : cp' = [cp EXCEPT ![i] = c] /\ Held(c)
    <3> DEFINE c == [cp[i] EXCEPT !.pc = "write", !.client = s.client_ip]
    <3>1. Explained(cp[i].pkt)
      BY <1>2, <1>5 DEF CpLookup, Held
    <3>2. cp[i].pkt.orig \in SentFlows /\ s.client_ip = cp[i].pkt.orig.src
      BY <3>1, FoundClient
    <3>3. c.pc = "write" /\ c.pkt = cp[i].pkt /\ c.client = s.client_ip
      BY <1>1 DEF CpType
    <3>4. cp' = [cp EXCEPT ![i] = c]
      BY <1>1, <2>2
    <3> HIDE DEF c
    <3>5. Held(c)
      BY <3>2, <3>3 DEF Held
    <3>6. QED
      BY <3>4, <3>5
  <2>3. QED
    BY <1>5, <2>1, <2>2 DEF CpLookup
<1>6. CASE CpWrite(i)
  BY <1>2, <1>6 DEF CpWrite
<1>7. QED
  BY <1>3, <1>4, <1>5, <1>6 DEF Capture

(* The invariant is inductive.                                             *)
LEMMA InFlightStep ==
    ASSUME PortsDistinct, StraysForeign
    PROVE  NatTypeOK /\ DPInv /\ InTypeOK /\ InFlight /\ [DPNext]_dpVars => InFlight'
<1> SUFFICES ASSUME NatTypeOK, DPInv, InTypeOK, InFlight, [DPNext]_dpVars,
                    NEW j \in Ifaces
             PROVE  Held(cp[j])'
  BY DEF InFlight, Held
<1>1. Held(cp[j])
  BY DEF InFlight, Held
<1>2. CASE UNCHANGED cp
  BY <1>1, <1>2, HeldStays DEF Held, Explained
<1>3. ASSUME NEW i \in Ifaces, Capture(i) \/ CpRecv(i) PROVE Held(cp[j])'
  <2>1. PICK c : cp' = [cp EXCEPT ![i] = c] /\ Held(c)
    BY <1>3, CaptureHeld
  <2>2. cp'[j] = IF j = i THEN c ELSE cp[j]
    BY <2>1 DEF InTypeOK
  <2>3. QED
    BY <1>1, <2>1, <2>2, HeldStays DEF Held, Explained
<1>4. QED
  BY <1>2, <1>3, CaptureStep

-----------------------------------------------------------------------------
(* A flow that is sent was registered, hence has IPv4 addresses.           *)
LEMMA SentIsV4 ==
    ASSUME DPInv, NatTypeOK, Registered, eg.pc = "send"
    PROVE  eg.flow \in Flows /\ {eg.flow.src, eg.flow.dst} \subseteq V4
<1>1. eg.flow \in Flows /\ OutKey(eg.flow) \in DOMAIN by_outbound
  BY DEF DPInv, OutTypeOK, Registered
<1>2. PICK f \in Flows : OutKey(eg.flow) = OutKey(f) /\ ParsesV4(f)
  BY <1>1 DEF NatTypeOK
<1>3. eg.flow = f
  BY <1>1, <1>2, OutKeyInjective
<1>4. QED
  BY <1>2, <1>3 DEF ParsesV4

(* A send forwards a packet, a write answers one, and no other step can be *)
(* seen by a client.                                                       *)
LEMMA ForwarderStep ==
    DPInv /\ NatTypeOK /\ Registered /\ InFlight /\ [DPNext]_dpVars
       => [Tunnel!Next]_<<SentFlows, delivered>>
<1> SUFFICES ASSUME DPInv, NatTypeOK, Registered, InFlight, [DPNext]_dpVars
             PROVE  Tunnel!Next \/ UNCHANGED <<SentFlows, delivered>>
  OBVIOUS
<1>1. CASE EgSend
  <2>1. eg.flow \in Flows /\ {eg.flow.src, eg.flow.dst} \subseteq V4
    BY <1>1, SentIsV4 DEF EgSend
  <2>2. delivered' = delivered
    BY <1>1 DEF EgSend, inVars
  <2>3. CASE wire' = wire
    BY <2>2, <2>3 DEF SentFlows
  <2>4. ASSUME NEW p, p.flow = eg.flow, wire' = wire \cup {p} PROVE Tunnel!Next
    <3>1. PICK f \in Flows : f = eg.flow
      BY <2>1
    <3>2. SentFlows' = SentFlows \cup {f}
      BY <2>4, <3>1 DEF SentFlows
    <3>3. Tunnel!Forward(f)
      BY <2>1, <2>2, <3>1, <3>2 DEF Tunnel!Forward, SentFlows
    <3>4. QED
      BY <3>3 DEF Tunnel!Next
  <2>5. QED
    BY <1>1, <2>3, <2>4 DEF EgSend, outVars
<1>2. ASSUME wire' = wire, NEW i \in Ifaces, CpWrite(i)
      PROVE  Tunnel!Next \/ UNCHANGED <<SentFlows, delivered>>
  <2> DEFINE f == cp[i].pkt.orig
  <2>1. f \in SentFlows /\ cp[i].client = f.src
    BY <1>2 DEF CpWrite, InFlight
  <2>2. f \in Flows
    BY <2>1 DEF SentFlows, DPInv, OutTypeOK
  <2>3. SentFlows' = SentFlows
    BY <1>2 DEF SentFlows
  <2>4. CASE delivered' = delivered
    BY <2>3, <2>4
  <2>5. CASE delivered' = delivered \cup {[to |-> cp[i].client, orig |-> f]}
    <3>1. Tunnel!Answer(f)
      BY <2>1, <2>3, <2>5 DEF Tunnel!Answer, SentFlows
    <3>2. QED
      BY <2>2, <3>1 DEF Tunnel!Next
  <2>6. QED
    BY <1>2, <2>4, <2>5 DEF CpWrite, inVars
<1>3. CASE wire' = wire /\ ~\E i \in Ifaces : CpWrite(i)
  <2>1. delivered' = delivered
    BY <1>3, CaptureStep DEF Capture, CpRecv, CpLockNat, CpLookup, inVars
  <2>2. QED
    BY <1>3, <2>1 DEF SentFlows
<1>4. QED
  BY <1>1, <1>2, <1>3, WireStep

(* Whatever the interleaving and whatever the network does, a client gets  *)
(* answers to its own packets and nothing else, provided no two clients    *)
(* use one port towards one server and no stray packet looks like an       *)
(* answer to a client.                                                     *)
THEOREM DataPlaneForwards ==
    ASSUME PortsDistinct, StraysForeign
    PROVE  DPSpec => ImplementsForwarder
<1>1. DPInit => InFlight
  <2>1. ASSUME DPInit PROVE \A i \in Ifaces : cp[i].pc = "recv"
    BY <2>1 DEF DPInit, CpIdle
  <2>2. QED
    BY <2>1 DEF InFlight
<1>2. NatTypeOK /\ DPInv /\ InTypeOK /\ InFlight /\ [DPNext]_dpVars => InFlight'
  BY InFlightStep
<1>3. DPSpec => [](NatTypeOK /\ InTypeOK)
  <2>1. DPTypeOK => InTypeOK
    BY DEF DPTypeOK
  <2>2. QED
    BY <2>1, DataPlaneUsesNat, NatReturnIndex, DataPlaneTyped, PTL
<1>4. DPSpec => []InFlight
  BY <1>1, <1>2, <1>3, DPInvHolds, PTL DEF DPSpec
<1>5. DPInit => Tunnel!Init
  BY DEF DPInit, Tunnel!Init
<1>6. [Tunnel!Next]_<<SentFlows, delivered>> => [Tunnel!Next]_<<{w.flow : w \in wire}, delivered>>
  BY DEF SentFlows
<1>7. QED
  BY <1>3, <1>4, <1>5, <1>6, ForwarderStep, DPInvHolds, RegisteredHolds, PTL
     DEF DPSpec, ImplementsForwarder, Tunnel!Spec
=============================================================================
