-------------------------- MODULE LatePacketProofs --------------------------
(***************************************************************************)
(* At most one packet leaves the old way after the engine changed, for any *)
(* number of interfaces, flows and threads.                                *)
(***************************************************************************)
EXTENDS LatePacket, DataPlaneProofs

InWindow == eg.pc \in {"routed", "registering", "send"}

(* What the engine lets out depends on its configuration and candidates.   *)
LEMMA AllowedSame ==
    ASSUME UNCHANGED <<config, candidates>>, NEW i
    PROVE  Allowed(i)' <=> Allowed(i)
  BY DEF Allowed

(* A decision of route() is one the engine allows.                         *)
LEMMA RoutedAllowed ==
    ASSUME DPInv, EngineInv(Ifaces \cup SimNames), EgRoute, eg'.pc = "routed"
    PROVE  Allowed(eg'.iface)
<1>1. eg.flow \in Flows
  BY DEF EgRoute, DPInv, OutTypeOK
<1>2. PICK k \in FlowKeys : k = KeyOf(eg.flow)
  BY <1>1, DataPlaneAssumption
<1>3. Pick(k) \in egress /\ eg' = [eg EXCEPT !.pc = "routed", !.iface = Pick(k)]
  BY <1>2 DEF EgRoute, EgIdle
<1>4. eg'.iface = Pick(k)
  BY <1>3 DEF DPInv, OutTypeOK
<1>5. Pick(k) # NoIface
  BY <1>3, AggregatorAssumption DEF DPInv, OutTypeOK, NoIface
<1>6. EngineOK(Ifaces \cup SimNames)
  BY DEF EngineInv
<1>7. QED
  BY <1>4, <1>5, <1>6, AllNamesOK, PickUsable DEF Allowed

(* A step enters the window by routing, or stays in it with the same       *)
(* interface.                                                              *)
LEMMA WindowStep ==
    ASSUME DPInv, [DPNext]_dpVars, InWindow'
    PROVE  \/ EgRoute /\ eg'.pc = "routed"
           \/ InWindow /\ eg'.iface = eg.iface
<1>1. eg \in [pc: {"read", "parsed", "routing", "routed", "registering", "send"},
              flow: Flows \cup {NoFlow}, iface: Ifaces \cup {NoIface}]
  BY DEF DPInv, OutTypeOK
<1>2. CASE UNCHANGED eg
  BY <1>2 DEF InWindow
<1>3. CASE EgRoute
  <2>1. eg'.pc \in {"read", "routed"}
    BY <1>1, <1>3 DEF EgRoute, EgIdle
  <2>2. eg'.pc = "routed"
    BY <2>1 DEF InWindow
  <2>3. QED
    BY <1>3, <2>2
<1>4. CASE EgLockAgg \/ EgLockNat \/ EgRegister \/ EgSend
  BY <1>1, <1>4 DEF EgLockAgg, EgLockNat, EgRegister, EgSend, EgIdle, InWindow
<1>5. CASE \E f \in Flows : EgRead(f)
  BY <1>5 DEF EgRead, InWindow
<1>6. CASE StartDataPlane \/ UiLock \/ UiTick \/ UiSummary \/ UiSimTick \/ UiBatch
            \/ UiRender \/ UiClick \/ CloseWindow
  BY <1>2, <1>6 DEF StartDataPlane, UiLock, UiTick, UiSummary, UiSimTick, UiBatch, UiRender, UiClick, CloseWindow
<1>7. CASE \E i \in Ifaces : Capture(i) \/ CpRecv(i)
  BY <1>2, <1>7 DEF Capture, CpRecv, CpLockNat, CpLookup, CpWrite
<1>8. CASE NetChange \/ \E i \in Ifaces, ip \in Leases : RenewLease(i, ip)
  BY <1>2, <1>8 DEF NetChange, RenewLease
<1>9. CASE UNCHANGED dpVars
  BY <1>2, <1>9 DEF dpVars
<1>10. QED
  BY <1>3, <1>4, <1>5, <1>6, <1>7, <1>8, <1>9 DEF DPNext, Egress

(* A packet counted closes the window.                                     *)
LEMMA SendStep ==
    ASSUME DPInv, DPNext, eg.pc = "send", tx_packets' # tx_packets
    PROVE  ~InWindow'
<1>1. CASE EgSend
  BY <1>1 DEF EgSend, EgIdle, InWindow
<1>2. ~UiBatch /\ ~UiSimTick
  BY DEF UiBatch, UiSimTick, DPInv, OutTypeOK, Quiet
<1>3. CASE UiClick \/ UiTick \/ UiRender \/ StartDataPlane \/ UiLock \/ UiSummary \/ CloseWindow
  BY <1>3 DEF UiClick, UiTick, UiRender, StartDataPlane, UiLock, UiSummary, CloseWindow, outVars
<1>4. CASE EgLockAgg \/ EgRoute \/ EgLockNat \/ EgRegister \/ \E f \in Flows : EgRead(f)
  BY <1>4 DEF EgLockAgg, EgRoute, EgLockNat, EgRegister, EgRead
<1>5. CASE \E i \in Ifaces : Capture(i) \/ CpRecv(i)
  BY <1>5 DEF Capture, CpRecv, CpLockNat, CpLookup, CpWrite, outVars
<1>6. CASE NetChange \/ \E i \in Ifaces, ip \in Leases : RenewLease(i, ip)
  BY <1>6 DEF NetChange, RenewLease, outVars
<1>7. QED
  BY <1>1, <1>2, <1>3, <1>4, <1>5, <1>6 DEF DPNext, Egress

(* The invariant is inductive.                                             *)
LEMMA LateStep ==
    ASSUME DPInv, EngineInv(Ifaces \cup SimNames), LateInv, [LateNext]_lateVars
    PROVE  LateInv'
<1>1. [DPNext]_dpVars
  BY DEF LateNext, lateVars
<1>2. CASE <<config, candidates>>' # <<config, candidates>>
  BY <1>2 DEF LateNext, lateVars, dpVars, vars, LateInv
<1>3. CASE UNCHANGED <<config, candidates>> /\ LateNext /\ late' = late + 1
  <2>1. eg.pc = "send" /\ tx_packets' # tx_packets /\ ~Allowed(eg.iface)
    BY <1>3 DEF LateNext, LateInv
  <2>2. late = 0
    BY <2>1 DEF LateInv
  <2>3. ~InWindow'
    BY <1>3, <2>1, SendStep DEF LateNext
  <2>4. QED
    BY <1>3, <2>2, <2>3 DEF LateInv, InWindow
<1>4. CASE UNCHANGED <<config, candidates, late>>
  <2>1. ASSUME late = 1, InWindow' PROVE Allowed(eg'.iface)
    BY <1>1, <2>1, WindowStep, RoutedAllowed DEF LateInv, InWindow
  <2>2. QED
    BY <1>4, <2>1, AllowedSame DEF LateInv, InWindow, Allowed
<1>5. QED
  BY <1>2, <1>3, <1>4 DEF LateNext, lateVars, dpVars, vars

(* The unlocked window of egress_loop, from route() to send(), lets one    *)
(* packet at most go the old way after a pause, a failure or a new         *)
(* strategy: the next one is routed by the engine as it is now.            *)
THEOREM LateAtMostOne == LateSpec => []OneLatePacket
<1>1. LateSpec => DPInit /\ [][DPNext]_dpVars
  <2>1. [LateNext]_lateVars => [DPNext]_dpVars
    BY DEF LateNext, lateVars
  <2>2. LateInit => DPInit
    BY DEF LateInit
  <2>3. QED
    BY <2>1, <2>2, PTL DEF LateSpec
<1>2. LateSpec => []DPInv
  BY <1>1, DPInitInv, DPNextInv, PTL
<1>3. DPInit => EngineInv(Ifaces \cup SimNames)
  BY AllNamesOK, InitInv DEF DPInit
<1>4. LateSpec => []EngineInv(Ifaces \cup SimNames)
  <2>1. DPInv /\ EngineInv(Ifaces \cup SimNames) /\ [DPNext]_dpVars
           => EngineInv(Ifaces \cup SimNames)'
    BY EngineStep
  <2>2. QED
    BY <1>1, <1>2, <1>3, <2>1, PTL
<1>5. LateInit => LateInv
  BY DEF LateInit, LateInv
<1>6. DPInv /\ EngineInv(Ifaces \cup SimNames) /\ LateInv /\ [LateNext]_lateVars => LateInv'
  BY LateStep
<1>7. LateInv => OneLatePacket
  BY DEF LateInv, OneLatePacket
<1>8. QED
  BY <1>2, <1>4, <1>5, <1>6, <1>7, PTL DEF LateSpec
=============================================================================
