--------------------------- MODULE NatTableProofs ---------------------------
(***************************************************************************)
(* What the session table guarantees for every set of flows, interfaces    *)
(* and addresses.  The inductive invariant is NatInv: the type invariant   *)
(* says which flow a session belongs to, the index invariant ties the two  *)
(* maps together.                                                          *)
(***************************************************************************)
EXTENDS NatTable, TLAPS

NatInv == NatTypeOK /\ ReturnIndexExact

(* The return key entered by register is the one lookup_return compares    *)
(* with the fields of the new session.                                     *)
LEMMA RetKeyOfNewSession ==
    ASSUME NEW f, NEW i, NEW ip
    PROVE  SessionRetKey(NewSession(f, i, ip)) = RetKey(f, ip)
  BY DEF SessionRetKey, NewSession, RetKey

(* The empty table satisfies the invariant.                                *)
LEMMA InitNatInv == NatInit => NatInv
  BY NatAssumption DEF NatInit, NatInv, NatTypeOK, ReturnIndexExact

(* register preserves the invariant.                                       *)
LEMMA RegisterNatInv ==
    ASSUME NatInv, NEW f \in Flows, NEW i \in NatIfaces, NEW ip \in V4, Register(f, i, ip)
    PROVE  NatInv'
<1> DEFINE key == OutKey(f)
           s   == NewSession(f, i, ip)
           ret == RetKey(f, ip)
<1>1. CASE ~(ParsesV4(f) /\ OutKey(f) \notin DOMAIN by_outbound)
  BY <1>1 DEF Register, natVars, NatInv, NatTypeOK, ReturnIndexExact
<1>2. CASE ParsesV4(f) /\ OutKey(f) \notin DOMAIN by_outbound
  <2>1. /\ by_outbound' = Insert(by_outbound, key, s)
        /\ by_return' = Insert(by_return, ret, index)
        /\ index' = (index + 1) % IndexModulus
    BY <1>2 DEF Register
  <2> HIDE DEF key, s, ret
  <2>2. /\ DOMAIN by_outbound' = DOMAIN by_outbound \cup {key}
        /\ by_outbound'[key] = s
        /\ \A x \in DOMAIN by_outbound : x # key => by_outbound'[x] = by_outbound[x]
        /\ by_outbound' = [x \in DOMAIN by_outbound' |-> by_outbound'[x]]
    BY <2>1 DEF Insert
  <2>3. /\ DOMAIN by_return' = DOMAIN by_return \cup {ret}
        /\ by_return'[ret] = index
        /\ \A x \in DOMAIN by_return : x # ret => by_return'[x] = by_return[x]
        /\ by_return' = [x \in DOMAIN by_return' |-> by_return'[x]]
    BY <2>1 DEF Insert
  <2>4. index' \in 0 .. IndexModulus - 1
    BY <2>1, NatAssumption DEF NatInv, NatTypeOK
  <2>5. key \notin DOMAIN by_outbound
    BY <1>2 DEF key
  <2>6. \A k \in DOMAIN by_outbound' :
           \E g \in Flows, j \in NatIfaces, jp \in V4 :
              k = OutKey(g) /\ ParsesV4(g) /\ by_outbound'[k] = NewSession(g, j, jp)
    <3>1. key = OutKey(f) /\ ParsesV4(f) /\ s = NewSession(f, i, ip)
      BY <1>2 DEF key, s
    <3>2. QED
      BY <2>2, <2>5, <3>1 DEF NatInv, NatTypeOK
  <2>7. \A k \in DOMAIN by_return' : by_return'[k] \in 0 .. IndexModulus - 1
    BY <2>3 DEF NatInv, NatTypeOK
  <2>8. NatTypeOK'
    BY <2>2, <2>3, <2>4, <2>6, <2>7 DEF NatTypeOK
  <2>9. ReturnIndexExact'
    <3>1. SessionRetKey(s) = ret
      BY RetKeyOfNewSession DEF s, ret
    <3>2. {SessionRetKey(by_outbound'[k]) : k \in DOMAIN by_outbound'}
             = {SessionRetKey(by_outbound[k]) : k \in DOMAIN by_outbound} \cup {ret}
      BY <2>2, <2>5, <3>1
    <3>3. QED
      BY <2>3, <3>2 DEF NatInv, ReturnIndexExact
  <2>10. QED
    BY <2>8, <2>9 DEF NatInv
<1>3. QED
  BY <1>1, <1>2

(* The invariant is inductive.                                             *)
LEMMA NextNatInv == NatInv /\ [NatNext]_natVars => NatInv'
<1>1. CASE UNCHANGED natVars
  BY <1>1 DEF natVars, NatInv, NatTypeOK, ReturnIndexExact
<1>2. CASE NatNext
  BY <1>2, RegisterNatInv DEF NatNext
<1>3. QED
  BY <1>1, <1>2

(* Type correctness of the table, and the agreement of its two maps:       *)
(* lookup_return finds a session for a key exactly when one expects it.    *)
THEOREM NatReturnIndex == NatSpec => [](NatTypeOK /\ ReturnIndexExact)
<1>1. NatSpec => []NatInv
  BY InitNatInv, NextNatInv, PTL DEF NatSpec
<1>2. NatInv => NatTypeOK /\ ReturnIndexExact
  BY DEF NatInv
<1>3. QED
  BY <1>1, <1>2, PTL

(* Every session was made by register() for an IPv4 flow, on one of the    *)
(* interfaces with an address, and is filed under its own keys.            *)
THEOREM NatTyped == NatSpec => []NatTypeOK
  BY NatReturnIndex, PTL

(* If no two flows differ only in the client address, lookup_return names  *)
(* one session at most.                                                    *)
THEOREM NatUnambiguous == ASSUME PortsDistinct PROVE NatSpec => []ReturnUnambiguous
<1>1. ASSUME NatTypeOK
      PROVE  ReturnUnambiguous
  <2> SUFFICES ASSUME NEW k \in DOMAIN by_outbound, NEW l \in DOMAIN by_outbound,
                      SessionRetKey(by_outbound[k]) = SessionRetKey(by_outbound[l])
               PROVE  k = l
    BY DEF ReturnUnambiguous
  <2>1. PICK f \in Flows, i \in NatIfaces, ip \in V4 :
           k = OutKey(f) /\ by_outbound[k] = NewSession(f, i, ip)
    BY <1>1 DEF NatTypeOK
  <2>2. PICK g \in Flows, j \in NatIfaces, jp \in V4 :
           l = OutKey(g) /\ by_outbound[l] = NewSession(g, j, jp)
    BY <1>1 DEF NatTypeOK
  <2>3. RetKey(f, ip) = RetKey(g, jp)
    BY <2>1, <2>2, RetKeyOfNewSession
  <2>4. f.proto = g.proto /\ f.sport = g.sport /\ f.dst = g.dst /\ f.dport = g.dport
    BY <2>3 DEF RetKey
  <2>5. f = g
    BY <2>4 DEF PortsDistinct
  <2>6. QED
    BY <2>1, <2>2, <2>5
<1>2. NatTypeOK => ReturnUnambiguous
  BY <1>1
<1>3. QED
  BY <1>2, NatReturnIndex, PTL

-----------------------------------------------------------------------------
(* The empty table is an unbound NatBinding.                               *)
LEMMA InitRefines == NatInit => Abstract!Init
  BY DEF NatInit, Abstract!Init, binding

(* A step of the table binds one flow, or changes no binding.              *)
LEMMA NextRefines == [NatNext]_natVars => [Abstract!Next]_binding
<1>1. CASE UNCHANGED natVars
  BY <1>1 DEF natVars, binding
<1>2. ASSUME NEW f \in Flows, NEW i \in NatIfaces, NEW ip \in V4, Register(f, i, ip)
      PROVE  [Abstract!Next]_binding
  <2>1. CASE ~(ParsesV4(f) /\ OutKey(f) \notin DOMAIN by_outbound)
    BY <1>2, <2>1 DEF Register, natVars, binding
  <2>2. CASE ParsesV4(f) /\ OutKey(f) \notin DOMAIN by_outbound
    <3> DEFINE key == OutKey(f)
               e   == [iface |-> i, ip |-> ip]
    <3>1. by_outbound' = Insert(by_outbound, key, NewSession(f, i, ip))
      BY <1>2, <2>2 DEF Register
    <3>2. /\ key \in {OutKey(h) : h \in {g \in Flows : {g.src, g.dst} \subseteq V4}}
          /\ e \in [iface: NatIfaces, ip: V4]
      BY <2>2 DEF ParsesV4
    <3>3. key \notin DOMAIN binding
      BY <2>2 DEF binding
    <3>4. NewSession(f, i, ip).egress_iface = i /\ NewSession(f, i, ip).egress_ip = ip
      BY DEF NewSession
    <3> HIDE DEF key, e
    <3>5. binding' = [x \in DOMAIN binding \cup {key} |-> IF x = key THEN e ELSE binding[x]]
      BY <3>1, <3>4 DEF Insert, binding, e
    <3>6. Abstract!Bind(key, e)
      BY <3>3, <3>5 DEF Abstract!Bind
    <3>7. QED
      BY <3>2, <3>6 DEF Abstract!Next
  <2>3. QED
    BY <2>1, <2>2
<1>3. QED
  BY <1>1, <1>2 DEF NatNext

(* register implements the write-once binding: whatever interface later    *)
(* packets of a flow are routed to, its session stays on the first egress. *)
THEOREM NatImplementsBinding == NatSpec => ImplementsBinding
  BY InitRefines, NextRefines, PTL DEF NatSpec, ImplementsBinding, Abstract!Spec
=============================================================================
